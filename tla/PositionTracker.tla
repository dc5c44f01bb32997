--------------------------- MODULE PositionTracker ---------------------------
(***************************************************************************)
(* The life of one strategy's positions: order fills, price checks, manual *)
(* closes and the user's edits, each in a database transaction of its own  *)
(* (position_tracker.py and the position operations of                     *)
(* backend/app/modules/algo/service.py).  What happens when two sessions   *)
(* overlap is another module's subject.                                    *)
(***************************************************************************)
EXTENDS AlgoPosition, FiniteSets

CONSTANTS
    Symbols,      \* the stocks the strategy trades
    Strategies,   \* the settings the user may give the strategy
    Quantities,   \* order sizes
    Prices,       \* market prices, in ticks
    UserPcts,     \* trailing percentages a user sets on a position
    MaxOps        \* bound: fills, closes and edits in a behaviour (checks are free)

ASSUME SizesAreNatural == Quantities \subseteq Nat \ {0}
ASSUME PricesArePositive == Prices \subseteq Nat \ {0}
ASSUME MaxOpsIsNatural == MaxOps \in Nat
ASSUME PctsAreNatural == UserPcts \subseteq Nat \ {0}

Rule == [target : Nat, share : 1..100]
\* NULL, or a document.
BookingDoc == [given : {TRUE}, enabled : BOOLEAN, rules : SUBSET Rule] \cup {NoBooking}
Strategy == [direction : Directions, slPct : Nat, tpPct : Nat, trailOn : BOOLEAN,
             trailPct : Nat, lockOn : BOOLEAN, booking : BookingDoc]

ASSUME StrategiesAreStrategies == Strategies \subseteq Strategy

VARIABLES
    strategy,   \* the user_strategies row
    row,        \* symbol -> its latest algo_positions row
    earlier,    \* symbol -> realized_pnl summed over the rows closed before it
    exitOnly,   \* strategy.exit_only_symbols
    ops,        \* how many fills, closes and edits there were (bounded by MaxOps)
    flow,       \* history: money received less money paid for the symbol
    drift,      \* history: how far rounding may have moved entry prices
    fired,      \* history: symbol -> target -> times that rule sold from this row
    choice      \* history: the user's last profit lock toggle on this row, and
                \* whether the user saved booking rules for it

vars == <<strategy, row, earlier, exitOnly, ops, flow, drift, fired, choice>>

Row == [side : Sides, status : Statuses, entryQty : Nat, remaining : Nat,
        exitQty : Nat, entry : Int, realized : Int, stopLoss : Int,
        takeProfit : Int, trailOn : BOOLEAN, trailPct : Nat, trailStop : Int,
        best : Int, lockOn : BOOLEAN, locked : BOOLEAN, lockPrice : Int,
        booking : BookingDoc, executed : SUBSET Nat]

\* What history keeps of the user's edits to a row.
Choice == [lock : {"none", "on", "off"}, rules : BOOLEAN]
NoChoice == [lock |-> "none", rules |-> FALSE]

\* The booking documents a user may save for a position.
Documents == {[cfg.booking EXCEPT !.given = TRUE] : cfg \in Strategies}

Targets == {rule.target : rule \in UNION {cfg.booking.rules : cfg \in Strategies}}

Init ==
    /\ strategy \in Strategies
    /\ row = [s \in Symbols |-> NoRow]
    /\ earlier = [s \in Symbols |-> 0]
    /\ exitOnly = {}
    /\ ops = 0
    /\ flow = [s \in Symbols |-> 0]
    /\ drift = [s \in Symbols |-> 0]
    /\ fired = [s \in Symbols |-> [t \in Targets |-> 0]]
    /\ choice = [s \in Symbols |-> NoChoice]

-----------------------------------------------------------------------------
\* One more operation of those MaxOps bounds.
Counted == ops < MaxOps /\ ops' = ops + 1

(* What closing shares adds to the history variables. *)
Paid(side, q, p) == IF side = "LONG" THEN - (q * p) ELSE q * p

Sold(s, before, after, p) ==
    flow' = [flow EXCEPT ![s] = @ - Paid(before.side, before.remaining - after.remaining, p)]

\* _cleanup_exit_only_symbol, called when a row reaches CLOSED.
CleanExitOnly(closed) == exitOnly' = exitOnly \ closed

-----------------------------------------------------------------------------
(* process_order_fill *)

\* A first fill, or one after the symbol's last row was closed, opens a row.
\* A fill on the wrong side raises DirectionViolationError and changes nothing.
OpenRow(s, order, q, p) ==
    /\ Counted
    /\ ~IsOpen(row[s])
    /\ Allowed(strategy, SideOpenedBy(order))
    /\ row' = [row EXCEPT ![s] = NewRow(strategy, SideOpenedBy(order), q, p)]
    /\ earlier' = [earlier EXCEPT ![s] = @ + row[s].realized]
    /\ flow' = [flow EXCEPT ![s] = @ + Paid(SideOpenedBy(order), q, p)]
    /\ fired' = [fired EXCEPT ![s] = [t \in Targets |-> 0]]
    /\ choice' = [choice EXCEPT ![s] = NoChoice]
    /\ UNCHANGED <<strategy, exitOnly, drift>>

AddToRow(s, order, q, p) ==
    /\ Counted
    /\ IsOpen(row[s]) /\ row[s].side = SideOpenedBy(order)
    /\ row' = [row EXCEPT ![s] = Averaged(@, q, p)]
    /\ flow' = [flow EXCEPT ![s] = @ + Paid(SideOpenedBy(order), q, p)]
    /\ drift' = [drift EXCEPT ![s] = @ + row[s].remaining + q]
    /\ UNCHANGED <<strategy, earlier, exitOnly, fired, choice>>

CloseByFill(s, order, q, p) ==
    /\ Counted
    /\ IsOpen(row[s]) /\ order = OrderClosing(row[s].side)
    /\ row' = [row EXCEPT ![s] = Reduced(@, q, p)]
    /\ Sold(s, row[s], Reduced(row[s], q, p), p)
    /\ CleanExitOnly(IF IsOpen(Reduced(row[s], q, p)) THEN {} ELSE {s})
    /\ UNCHANGED <<strategy, earlier, drift, fired, choice>>

ProcessOrderFill(s, order, q, p) ==
    \/ OpenRow(s, order, q, p)
    \/ AddToRow(s, order, q, p)
    \/ CloseByFill(s, order, q, p)

-----------------------------------------------------------------------------
(* check_stop_loss_take_profit: one pass over every open row whose symbol
   has a price in the snapshot; 0 is a symbol without one. *)

AfterCheck(s, price) ==
    IF IsOpen(row[s]) /\ price # 0 THEN Checked(row[s], strategy, price) ELSE row[s]

\* The targets of the booking rules that sell at this price: one or none.
RuleSelling(s, price) ==
    LET f == Refreshed(row[s], strategy, price)
        i == Inheriting(f, strategy)
    IN  IF \/ ~IsOpen(row[s]) \/ price = 0
           \/ StopHit(f, strategy, price) \/ TargetHit(f, price)
           \/ Due(i, price) = {}
        THEN {} ELSE {FirstDue(i, price).target}

CheckExits(price) ==
    LET after == [s \in Symbols |-> AfterCheck(s, price[s])]
        sold(s) == row[s].remaining - after[s].remaining
        at(s) == IF price[s] # 0 THEN ExitPrice(row[s], strategy, price[s]) ELSE 0
    IN  /\ \E s \in Symbols : IsOpen(row[s]) /\ price[s] # 0
        /\ row' = after
        /\ flow' = [s \in Symbols |->
                       flow[s] - (IF sold(s) > 0 THEN Paid(row[s].side, sold(s), at(s)) ELSE 0)]
        /\ CleanExitOnly({s \in Symbols : IsOpen(row[s]) /\ ~IsOpen(after[s])})
        /\ fired' = [s \in Symbols |-> [t \in Targets |->
                        fired[s][t] + (IF t \in RuleSelling(s, price[s]) THEN 1 ELSE 0)]]
        /\ UNCHANGED <<strategy, earlier, ops, drift, choice>>

-----------------------------------------------------------------------------
(* The user's operations on a position, made by the backend service. *)

\* close_position of the backend: the same arithmetic, but exit_only_symbols
\* is left alone.
UserClose(s, q, p) ==
    /\ Counted
    /\ IsOpen(row[s])
    /\ row' = [row EXCEPT ![s] = Reduced(@, q, p)]
    /\ Sold(s, row[s], Reduced(row[s], q, p), p)
    /\ UNCHANGED <<strategy, earlier, exitOnly, drift, fired, choice>>

EnableTrailing(s, pct) ==
    LET best == IF row[s].best = 0 THEN row[s].entry ELSE row[s].best
    IN  /\ Counted
        /\ row[s].status # "NONE"
        /\ row' = [row EXCEPT ![s].trailOn = TRUE, ![s].trailPct = pct, ![s].best = best,
                              ![s].trailStop = StopLevel(row[s].side, best, pct)]
        /\ UNCHANGED <<strategy, earlier, exitOnly, flow, drift, fired, choice>>

DisableTrailing(s) ==
    /\ Counted
    /\ row[s].status # "NONE"
    /\ row' = [row EXCEPT ![s].trailOn = FALSE, ![s].trailPct = 0, ![s].trailStop = 0]
    /\ UNCHANGED <<strategy, earlier, exitOnly, flow, drift, fired, choice>>

UpdateTrailingStop(s) ==
    \/ \E pct \in UserPcts : EnableTrailing(s, pct)
    \/ DisableTrailing(s)

UpdateProfitLock(s, on) ==
    /\ Counted
    /\ row[s].status # "NONE"
    /\ row' = [row EXCEPT ![s].lockOn = on,
                          ![s].locked = IF on THEN @ ELSE FALSE,
                          ![s].lockPrice = IF on THEN @ ELSE 0]
    /\ choice' = [choice EXCEPT ![s].lock = IF on THEN "on" ELSE "off"]
    /\ UNCHANGED <<strategy, earlier, exitOnly, flow, drift, fired>>

\* update_profit_booking_rules: the row gets a document of its own.  The dialog
\* sends the executed targets back with it, but model_dump(mode="json") writes
\* the Decimals as strings, and the tracker looks for numbers: it finds none of
\* them executed.
UpdateProfitBookingRules(s, doc) ==
    /\ Counted
    /\ row[s].status # "NONE"
    /\ row' = [row EXCEPT ![s].booking = doc, ![s].executed = {}]
    /\ choice' = [choice EXCEPT ![s].rules = TRUE]
    /\ UNCHANGED <<strategy, earlier, exitOnly, flow, drift, fired>>

\* update_strategy: the settings change under the open rows.
UpdateStrategy(cfg) ==
    /\ Counted
    /\ strategy' = cfg
    /\ UNCHANGED <<row, earlier, exitOnly, flow, drift, fired, choice>>

\* The daily screener run drops symbols: those still held become exit-only,
\* and those no longer held leave the list.
SyncScreener(dropped) ==
    LET held == {s \in Symbols : IsOpen(row[s])}
    IN  /\ exitOnly' = (dropped \cup exitOnly) \cap held
        /\ UNCHANGED <<strategy, row, earlier, ops, flow, drift, fired, choice>>

\* The edits that move a row's stops.
UserEdits ==
    \/ \E s \in Symbols : UpdateTrailingStop(s)
    \/ \E s \in Symbols, on \in BOOLEAN : UpdateProfitLock(s, on)

Next ==
    \/ \E s \in Symbols, order \in {"BUY", "SELL"}, q \in Quantities, p \in Prices :
          ProcessOrderFill(s, order, q, p)
    \/ \E price \in [Symbols -> Prices \cup {0}] : CheckExits(price)
    \/ \E s \in Symbols, q \in Quantities, p \in Prices : UserClose(s, q, p)
    \/ UserEdits
    \/ \E s \in Symbols, doc \in Documents : UpdateProfitBookingRules(s, doc)
    \/ \E cfg \in Strategies : UpdateStrategy(cfg)
    \/ \E dropped \in SUBSET Symbols : SyncScreener(dropped)

Spec == Init /\ [][Next]_vars

-----------------------------------------------------------------------------
(* Properties *)

\* Every column keeps its type, whatever fills, checks, closes and edits come:
\* in particular no quantity column becomes negative when more is sold than
\* remains (the min() of close_position).
TypeOK ==
    /\ strategy \in Strategies
    /\ row \in [Symbols -> Row]
    /\ earlier \in [Symbols -> Int]
    /\ exitOnly \subseteq Symbols
    /\ ops \in 0..MaxOps
    /\ flow \in [Symbols -> Int]
    /\ drift \in [Symbols -> Nat]
    /\ fired \in [Symbols -> [Targets -> Nat]]
    /\ choice \in [Symbols -> Choice]

FitsStatus(r) ==
    /\ r.status = "NONE" => r.remaining = 0
    /\ r.status = "OPEN" =>
          r.remaining = r.entryQty /\ r.remaining > 0 /\ r.exitQty = 0
    /\ r.status = "PARTIAL" => r.remaining \in 1..r.entryQty /\ r.exitQty > 0
    /\ r.status = "CLOSED" => r.remaining = 0 /\ r.exitQty = r.entryQty

\* The quantity columns agree with the status: an open row holds between one
\* share and its entry quantity, a closed row holds none and has exited all
\* of its entry quantity.  Fills, checks, booking rules and manual closes in
\* any order must leave it so, or a closed row keeps shares nobody watches.
QuantitiesFitStatus == \A s \in Symbols : FitsStatus(row[s])

\* Cost of the shares still held: positive money for a long row, negative
\* for a short one.
Invested(r) == - Paid(r.side, r.remaining, r.entry)

\* The money a row answers for: what it realized less what is tied up in it.
Worth(r) == r.realized - Invested(r)

\* What the realized_pnl column should still explain, in ticks.
Unexplained(s) == earlier[s] + Worth(row[s]) - flow[s]

\* Over every row a symbol ever had, realized P&L plus the cost of what is
\* still held is the money the tracked fills moved, up to the rounding of
\* averaged entry prices: averaging in, partial exits, booking rules, stop
\* exits and manual closes lose and invent no money.
RealizedMatchesCash ==
    \A s \in Symbols : /\ 2 * Unexplained(s) <= drift[s]
                       /\ -2 * Unexplained(s) <= drift[s]

\* A profit booking rule sells at most once in the life of a row, whatever
\* the price does and however the strategy's own rules are edited meanwhile,
\* unless the user saves rules for that row (the executed list of
\* _check_profit_booking_rules).
RuleSellsOnce ==
    \A s \in Symbols, t \in Targets : ~choice[s].rules => fired[s][t] <= 1

\* A stop that stood at before no longer protects as much at after.
GivesGround(side, before, after) == before # 0 /\ (after = 0 \/ Beats(side, before, after))

\* While a row stays open, neither its trailing stop nor its activated
\* profit lock gives ground, except where the user edits that row: averaging
\* at a worse price, a strategy edit and a falling market must not loosen
\* them ("never lower", "never higher" in _update_trailing_stop).
StopsOnlyTighten ==
    [][ UserEdits \/ \A s \in Symbols :
            IsOpen(row[s]) /\ IsOpen(row'[s]) =>
                /\ ~GivesGround(row[s].side, row[s].trailStop, row'[s].trailStop)
                /\ ~GivesGround(row[s].side, row[s].lockPrice, row'[s].lockPrice) ]_vars

\* The per-position toggle overrides the strategy's profit lock setting
\* (docs/RELEASE_NOTES.md:251): once the user has switched the lock of a row
\* off, no price check locks it until the user switches it on again.
ToggleOffIsRespected == \A s \in Symbols : choice[s].lock = "off" => ~row[s].locked

\* "Test that already executed rules are skipped" (test_position_tracker.py):
\* a rule that sold from a row does not sell from it again, whatever is saved
\* in between by a dialog that hands the executed list back unchanged.
ExecutedRulesAreSkipped == \A s \in Symbols, t \in Targets : fired[s][t] <= 1
=============================================================================
