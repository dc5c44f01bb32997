---------------------------- MODULE AlgoPosition ----------------------------
(***************************************************************************)
(* One row of algo_positions and what trading-engine/engine/algo/          *)
(* position_tracker.py computes from it.  Everything here is a pure        *)
(* function of a row, of the strategy's settings and of a price; the       *)
(* modules that keep rows in variables apply these functions.              *)
(*                                                                         *)
(* Prices and money are whole ticks (the columns are Numeric(18,4)).       *)
(* Percentages are whole numbers.  0 stands for a NULL price or            *)
(* percentage: the code tests those columns for truth, and a real price is *)
(* positive.                                                               *)
(***************************************************************************)
EXTENDS Integers

Sides == {"LONG", "SHORT"}
Directions == {"LONG", "SHORT", "BOTH"}
OpenStatuses == {"OPEN", "PARTIAL"}
Statuses == OpenStatuses \cup {"CLOSED", "NONE"}

\* The side a fill opens, and the side it reduces.
SideOpenedBy(order) == IF order = "BUY" THEN "LONG" ELSE "SHORT"
OrderClosing(side) == IF side = "LONG" THEN "SELL" ELSE "BUY"
Flip(side) == IF side = "LONG" THEN "SHORT" ELSE "LONG"

\* A quotient as a Numeric column stores it: rounded to the nearest tick.
RoundDiv(a, b) == (2 * a + b) \div (2 * b)

\* What a share of this side gains when the price moves from one to another.
Gain(side, from, to) == IF side = "LONG" THEN to - from ELSE from - to

\* Price x is strictly further in the favour of this side than price y.
Beats(side, x, y) == IF side = "LONG" THEN x > y ELSE x < y

BetterOf(side, x, y) == IF Beats(side, x, y) THEN x ELSE y
WorseOf(side, x, y) == IF Beats(side, x, y) THEN y ELSE x

\* The level pct percent on the losing side of a price.
StopLevel(side, price, pct) ==
    RoundDiv(price * (IF side = "LONG" THEN 100 - pct ELSE 100 + pct), 100)

LeastOf(a, b) == IF a <= b THEN a ELSE b

(***************************************************************************)
(* profit_booking_rules: NULL, or a document with an enabled flag and a    *)
(* list of rules (sell quantity_pct of what remains at target_pct profit). *)
(***************************************************************************)
NoBooking == [given |-> FALSE, enabled |-> FALSE, rules |-> {}]
Booking(rules) == [given |-> TRUE, enabled |-> TRUE, rules |-> rules]

\* No row for this symbol yet.
NoRow == [side |-> "LONG", status |-> "NONE", entryQty |-> 0, remaining |-> 0,
          exitQty |-> 0, entry |-> 0, realized |-> 0, stopLoss |-> 0,
          takeProfit |-> 0, trailOn |-> FALSE, trailPct |-> 0, trailStop |-> 0,
          best |-> 0, lockOn |-> FALSE, locked |-> FALSE, lockPrice |-> 0,
          booking |-> NoBooking, executed |-> {}]

IsOpen(r) == r.status \in OpenStatuses

(***************************************************************************)
(* open_position.                                                          *)
(***************************************************************************)
\* The defence-in-depth guard: a new row must agree with signal_direction.
Allowed(cfg, side) == cfg.direction \in {side, "BOTH"}

NewRow(cfg, side, q, p) ==
    LET trails == cfg.trailOn /\ cfg.trailPct # 0
    IN  [side |-> side, status |-> "OPEN", entryQty |-> q, remaining |-> q,
         exitQty |-> 0, entry |-> p, realized |-> 0,
         stopLoss |-> IF cfg.slPct = 0 THEN 0 ELSE StopLevel(side, p, cfg.slPct),
         takeProfit |-> IF cfg.tpPct = 0 THEN 0
                        ELSE StopLevel(Flip(side), p, cfg.tpPct),
         trailOn |-> trails,
         trailPct |-> IF trails THEN cfg.trailPct ELSE 0,
         trailStop |-> IF trails THEN StopLevel(side, p, cfg.trailPct) ELSE 0,
         best |-> IF trails THEN p ELSE 0,
         lockOn |-> cfg.lockOn, locked |-> FALSE, lockPrice |-> 0,
         booking |-> NoBooking, executed |-> {}]

\* A fill on the side the row already holds: the entry price becomes the
\* weighted average, and the fixed stop and target stay where they were.
Averaged(r, q, p) ==
    LET qty  == r.remaining + q
        avg  == RoundDiv(r.entry * r.remaining + p * q, qty)
        best == IF r.best = 0 \/ Beats(r.side, avg, r.best) THEN avg ELSE r.best
        grown == [r EXCEPT !.entryQty = qty, !.remaining = qty, !.entry = avg]
    IN  IF r.trailOn /\ r.trailPct # 0
        THEN [grown EXCEPT !.best = best,
                           !.trailStop = StopLevel(r.side, best, r.trailPct)]
        ELSE grown

(***************************************************************************)
(* close_position: at most what remains is closed.                         *)
(***************************************************************************)
\* Variants with a slip, each for seeing that a property notices it: the
\* quantity is not capped, the last share does not close the row, and an
\* earlier partial exit's P&L is overwritten.
ReducedUncapped(r, q, p) ==
    [r EXCEPT !.remaining = @ - q,
              !.realized = @ + Gain(r.side, r.entry, p) * q,
              !.status = IF r.remaining - q <= 0 THEN "CLOSED" ELSE "PARTIAL",
              !.exitQty = @ + q]

ReducedButOpen(r, q, p) ==
    LET c == LeastOf(q, r.remaining)
    IN  [r EXCEPT !.remaining = @ - c,
                  !.realized = @ + Gain(r.side, r.entry, p) * c,
                  !.status = IF r.remaining - c < 0 THEN "CLOSED" ELSE "PARTIAL",
                  !.exitQty = @ + c]

ReducedOverwriting(r, q, p) ==
    LET c == LeastOf(q, r.remaining)
    IN  [r EXCEPT !.remaining = @ - c,
                  !.realized = Gain(r.side, r.entry, p) * c,
                  !.status = IF r.remaining - c <= 0 THEN "CLOSED" ELSE "PARTIAL",
                  !.exitQty = IF r.remaining - c <= 0 THEN r.entryQty ELSE @ + c]

Reduced(r, q, p) ==
    LET c    == LeastOf(q, r.remaining)
        left == r.remaining - c
    IN  [r EXCEPT !.remaining = left,
                  !.realized = @ + Gain(r.side, r.entry, p) * c,
                  !.status = IF left <= 0 THEN "CLOSED" ELSE "PARTIAL",
                  !.exitQty = IF left <= 0 THEN r.entryQty ELSE @ + c]

(***************************************************************************)
(* check_stop_loss_take_profit, in the order the code takes its steps.     *)
(***************************************************************************)
\* The profit of the row at this price is at least target percent.
Reached(r, price, target) ==
    100 * Gain(r.side, r.entry, price) >= target * r.entry

BookingOf(r, cfg) == IF r.booking.given THEN r.booking ELSE cfg.booking

Locks(r, cfg) == r.lockOn \/ cfg.lockOn

\* Variant: a locked stop follows the price down again.
LockFollowing(r, cfg, price) ==
    LET b     == BookingOf(r, cfg)
        pct   == IF r.trailPct # 0 THEN r.trailPct ELSE cfg.trailPct
        level == IF pct # 0 THEN StopLevel(r.side, price, pct) ELSE price
    IN  IF Locks(r, cfg) /\ b.enabled /\ \E rule \in b.rules : Reached(r, price, rule.target)
        THEN [r EXCEPT !.locked = TRUE, !.lockPrice = level]
        ELSE r

\* _check_profit_lock: once some threshold is crossed the stop is locked at
\* the current price less the trailing buffer, and then only ratchets.
LockChecked(r, cfg, price) ==
    LET b     == BookingOf(r, cfg)
        pct   == IF r.trailPct # 0 THEN r.trailPct ELSE cfg.trailPct
        level == IF pct # 0 THEN StopLevel(r.side, price, pct) ELSE price
        crossed == b.enabled /\ \E rule \in b.rules : Reached(r, price, rule.target)
        moves == ~r.locked \/ r.lockPrice = 0 \/ Beats(r.side, level, r.lockPrice)
    IN  IF Locks(r, cfg) /\ crossed /\ moves
        THEN [r EXCEPT !.locked = TRUE, !.lockPrice = level]
        ELSE r

\* The row's own trailing settings, or the strategy's when it has none.
TrailsOn(r, cfg) == IF ~r.trailOn /\ r.trailPct = 0 THEN cfg.trailOn ELSE r.trailOn
TrailPctOf(r, cfg) == IF ~r.trailOn /\ r.trailPct = 0 THEN cfg.trailPct ELSE r.trailPct

\* _update_trailing_stop, which runs only where the profit lock is off.
TrailChecked(r, cfg, price) ==
    LET pct  == TrailPctOf(r, cfg)
        stop == StopLevel(r.side, price, pct)
        raised == IF r.trailStop = 0 \/ Beats(r.side, stop, r.trailStop)
                  THEN stop ELSE r.trailStop
    IN  IF /\ ~Locks(r, cfg) /\ TrailsOn(r, cfg) /\ pct # 0
           /\ r.best = 0 \/ Beats(r.side, price, r.best)
        THEN [r EXCEPT !.best = price, !.trailStop = raised]
        ELSE r

\* Priority: profit lock, then trailing stop, then the fixed stop.
EffectiveStop(r, cfg) ==
    IF r.locked /\ r.lockPrice # 0 THEN r.lockPrice
    ELSE IF TrailsOn(r, cfg) /\ r.trailStop # 0 THEN r.trailStop
    ELSE r.stopLoss

StopHit(r, cfg, price) ==
    /\ EffectiveStop(r, cfg) # 0
    /\ ~Beats(r.side, price, EffectiveStop(r, cfg))

TargetHit(r, price) == r.takeProfit # 0 /\ ~Beats(r.side, r.takeProfit, price)

\* _check_profit_booking_rules: the rules are copied onto the row the first
\* time they are looked at.
\* In the variant a later look takes the strategy's document as it stands and
\* drops the list of executed targets.
InheritingAgain(r, cfg) == [r EXCEPT !.booking = BookingOf(r, cfg), !.executed = {}]

Inheriting(r, cfg) ==
    [r EXCEPT !.booking = BookingOf(r, cfg),
              !.executed = IF r.booking.given THEN @ ELSE {}]

SellQty(r, rule) == (r.remaining * rule.share) \div 100

\* The rules that would sell something at this price and have not yet done so.
Due(r, price) ==
    {rule \in r.booking.rules :
        /\ r.booking.enabled
        /\ rule.target \notin r.executed
        /\ Reached(r, price, rule.target)
        /\ SellQty(r, rule) > 0}

\* One rule is executed per check, the one with the lowest target.
FirstDue(r, price) ==
    CHOOSE rule \in Due(r, price) :
        \A other \in Due(r, price) : rule.target <= other.target

Booked(r, price) ==
    LET rule == FirstDue(r, price)
    IN  [Reduced(r, SellQty(r, rule), price)
            EXCEPT !.executed = @ \cup {rule.target}]

\* The row after the stops were refreshed and before any exit is taken.
Refreshed(r, cfg, price) == TrailChecked(LockChecked(r, cfg, price), cfg, price)

\* What a check at this price sells, and at which price: the stop level
\* rather than the market when a stop is hit, the target when that is hit.
ExitPrice(r, cfg, price) ==
    LET f == Refreshed(r, cfg, price)
    IN  IF StopHit(f, cfg, price) THEN BetterOf(f.side, price, EffectiveStop(f, cfg))
        ELSE IF TargetHit(f, price) THEN WorseOf(f.side, price, f.takeProfit)
        ELSE price

Checked(r, cfg, price) ==
    LET f == Refreshed(r, cfg, price)
        i == Inheriting(f, cfg)
    IN  IF StopHit(f, cfg, price) \/ TargetHit(f, price)
        THEN Reduced(f, f.remaining, ExitPrice(r, cfg, price))
        ELSE IF Due(i, price) # {} THEN Booked(i, price) ELSE i

=============================================================================
