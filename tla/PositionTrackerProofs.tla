----------------------- MODULE PositionTrackerProofs -----------------------
(***************************************************************************)
(* Proofs about PositionTracker for every set of symbols, settings,        *)
(* quantities and prices and for any number of operations.  First what     *)
(* each function of AlgoPosition does to the type of a row, then the       *)
(* invariants.                                                             *)
(***************************************************************************)
EXTENDS PositionTracker, WellFoundedInduction, TLAPS

\* A rounded quotient is a whole number of ticks, at most half a tick per
\* share away from the exact one.
LEMMA RoundDivFacts ==
    ASSUME NEW a \in Int, NEW b \in Nat \ {0}
    PROVE  /\ RoundDiv(a, b) \in Int
           /\ 2 * (RoundDiv(a, b) * b - a) <= b
           /\ -2 * (RoundDiv(a, b) * b - a) <= b
<1> DEFINE n == 2 * a + b
           m == 2 * b
           d == n \div m
<1>1. n \in Int /\ m \in Nat \ {0}
  OBVIOUS
<1>2. d \in Int /\ m * d <= n /\ n < m * d + m
  <2> HIDE DEF n, m
  <2> QED BY <1>1
<1>3. RoundDiv(a, b) = d
  BY DEF RoundDiv
<1>4. m * d = 2 * (d * b)
  BY <1>2
<1> HIDE DEF d
<1>5. d * b \in Int
  BY <1>2
<1> QED BY <1>2, <1>3, <1>4, <1>5

\* Every stop or target computed from a price is a whole number of ticks.
LEMMA StopLevelInt ==
    ASSUME NEW side \in Sides, NEW price \in Int, NEW pct \in Nat
    PROVE  StopLevel(side, price, pct) \in Int
<1>1. 100 \in Nat \ {0}
  OBVIOUS
<1>2. /\ price * (100 - pct) \in Int
      /\ price * (100 + pct) \in Int
  OBVIOUS
<1> QED BY <1>1, <1>2, RoundDivFacts DEF StopLevel

\* A document of a strategy can be saved for a row, and one that is enabled is
\* not NULL.
LEMMA DocumentFacts ==
    ASSUME NEW doc \in BookingDoc
    PROVE  /\ doc.enabled \in BOOLEAN /\ doc.rules \in SUBSET Rule
           /\ doc.enabled => doc.given
           /\ [doc EXCEPT !.given = TRUE] \in BookingDoc
<1>1. doc \in [given : BOOLEAN, enabled : BOOLEAN, rules : SUBSET Rule] /\ (doc.enabled => doc.given)
  <2>1. CASE doc = NoBooking
    BY <2>1 DEF NoBooking
  <2>2. CASE doc \in [given : {TRUE}, enabled : BOOLEAN, rules : SUBSET Rule]
    BY <2>2
  <2> QED BY <2>1, <2>2 DEF BookingDoc
<1>2. [doc EXCEPT !.given = TRUE] \in [given : {TRUE}, enabled : BOOLEAN, rules : SUBSET Rule]
  BY <1>1
<1> QED BY <1>1, <1>2 DEF BookingDoc

\* A set of booking rules with natural targets has one with the lowest.
LEMMA LowestTargetExists ==
    ASSUME NEW due, due # {}, due \subseteq Rule
    PROVE  \E rule \in due : \A other \in due : rule.target <= other.target
<1> DEFINE T == {rule.target : rule \in due}
<1>1. T \subseteq Nat /\ T # {}
  BY DEF Rule
<1>2. PICK t \in T : \A u \in T : <<u, t>> \notin OpToRel(<, Nat)
  <2> HIDE DEF T
  <2> QED BY <1>1, WFMin, NatLessThanWellFounded
<1>3. \A u \in T : t <= u
  <2> SUFFICES ASSUME NEW u \in T PROVE t <= u
    OBVIOUS
  <2>1. u \in Nat /\ t \in Nat
    BY <1>1
  <2>2. ~(u < t)
    BY <1>2, <2>1 DEF OpToRel
  <2> QED BY <2>1, <2>2
<1> QED BY <1>3

-----------------------------------------------------------------------------
(* open_position *)

\* A new row is well formed, open in full, and worth what was paid for it.
LEMMA NewRowFacts ==
    ASSUME NEW cfg \in Strategy, NEW side \in Sides, NEW q \in Nat \ {0},
           NEW p \in Int
    PROVE  LET n == NewRow(cfg, side, q, p)
           IN  n \in Row /\ FitsStatus(n) /\ Worth(n) = Paid(side, q, p)
<1> DEFINE n == NewRow(cfg, side, q, p)
<1>1. \A pct \in Nat : StopLevel(side, p, pct) \in Int
  BY StopLevelInt
<1>2. \A pct \in Nat : StopLevel(Flip(side), p, pct) \in Int
  BY StopLevelInt DEF Sides, Flip
<1>3. NoBooking \in BookingDoc
  BY DEF NoBooking, BookingDoc
<1>4. n \in Row
  BY <1>1, <1>2, <1>3 DEF NewRow, Row, Strategy, Statuses, OpenStatuses
<1>5. FitsStatus(n)
  BY DEF NewRow, FitsStatus
<1>6. Worth(n) = Paid(side, q, p)
  BY DEF NewRow, Worth, Invested, Paid, Sides
<1> QED BY <1>4, <1>5, <1>6

\* Averaging keeps a row well formed, and its worth moves by what was paid,
\* but for half a tick a share.
LEMMA AveragedFacts ==
    ASSUME NEW r \in Row, IsOpen(r), FitsStatus(r), NEW q \in Nat \ {0}, NEW p \in Int
    PROVE  LET n == Averaged(r, q, p)
               d == Worth(n) - Worth(r) - Paid(r.side, q, p)
           IN  /\ n \in Row /\ FitsStatus(n) /\ IsOpen(n)
               /\ d \in Int
               /\ 2 * d <= r.remaining + q /\ -2 * d <= r.remaining + q
<1> DEFINE n == Averaged(r, q, p)
           qty == r.remaining + q
           cost == r.entry * r.remaining + p * q
           avg == RoundDiv(cost, qty)
           best == IF r.best = 0 \/ Beats(r.side, avg, r.best) THEN avg ELSE r.best
<1>1. /\ r.remaining \in Nat /\ r.entry \in Int /\ r.side \in Sides
      /\ r.best \in Int /\ r.trailPct \in Nat /\ r.realized \in Int
  BY DEF Row
<1>2. cost \in Int /\ qty \in Nat \ {0}
  BY <1>1
<1>3. /\ avg \in Int
      /\ 2 * (avg * qty - cost) <= qty /\ -2 * (avg * qty - cost) <= qty
  <2> HIDE DEF cost, qty
  <2> QED BY <1>2, RoundDivFacts
<1>4. best \in Int
  <2> HIDE DEF avg
  <2> QED BY <1>1, <1>3
<1>5. StopLevel(r.side, best, r.trailPct) \in Int
  <2> HIDE DEF best
  <2> QED BY <1>1, <1>4, StopLevelInt
<1>6. n = IF r.trailOn /\ r.trailPct # 0
          THEN [r EXCEPT !.entryQty = qty, !.remaining = qty, !.entry = avg,
                         !.best = best, !.trailStop = StopLevel(r.side, best, r.trailPct)]
          ELSE [r EXCEPT !.entryQty = qty, !.remaining = qty, !.entry = avg]
  BY DEF Averaged, Row
<1> HIDE DEF n, qty, avg, best, cost
<1>7. /\ n \in Row /\ n.side = r.side /\ n.remaining = qty /\ n.entryQty = qty
      /\ n.entry = avg /\ n.realized = r.realized /\ n.status = r.status
      /\ n.exitQty = r.exitQty
  BY <1>2, <1>3, <1>4, <1>5, <1>6 DEF Row
<1>8. FitsStatus(n) /\ IsOpen(n)
  BY <1>1, <1>2, <1>7 DEF FitsStatus, IsOpen, OpenStatuses
<1>9. Worth(n) - Worth(r) - Paid(r.side, q, p)
         = IF r.side = "LONG" THEN - (avg * qty - cost) ELSE avg * qty - cost
  BY <1>1, <1>2, <1>3, <1>7 DEF Worth, Invested, Paid, Sides, qty, cost
<1>10. avg * qty - cost \in Int
  BY <1>2, <1>3
<1>11. qty = r.remaining + q
  BY DEF qty
<1> QED BY <1>3, <1>7, <1>8, <1>9, <1>10, <1>11 DEF n

-----------------------------------------------------------------------------
(* close_position *)

\* Closing sells between one share and all that remain, leaves a well formed
\* row, and moves the row's worth by exactly the money the shares brought.
LEMMA ReducedFacts ==
    ASSUME NEW r \in Row, IsOpen(r), FitsStatus(r), NEW q \in Nat \ {0}, NEW p \in Int
    PROVE  LET n == Reduced(r, q, p)
           IN  /\ n \in Row /\ FitsStatus(n)
               /\ n.side = r.side
               /\ r.remaining - n.remaining \in Nat \ {0}
               /\ Worth(n) - Worth(r) = - Paid(r.side, r.remaining - n.remaining, p)
<1> DEFINE n == Reduced(r, q, p)
           c == LeastOf(q, r.remaining)
           gain == Gain(r.side, r.entry, p)
<1>1. /\ r.remaining \in Nat \ {0} /\ r.entry \in Int /\ r.side \in Sides
      /\ r.entryQty \in Nat /\ r.exitQty \in Nat /\ r.realized \in Int
      /\ r.remaining <= r.entryQty
  BY DEF Row, IsOpen, OpenStatuses, FitsStatus
<1>2. /\ c \in 1..r.remaining
      /\ gain \in Int
  BY <1>1 DEF LeastOf, Gain
<1>3. n = [r EXCEPT !.remaining = r.remaining - c,
                    !.realized = r.realized + gain * c,
                    !.status = IF r.remaining - c <= 0 THEN "CLOSED" ELSE "PARTIAL",
                    !.exitQty = IF r.remaining - c <= 0 THEN r.entryQty ELSE r.exitQty + c]
  BY DEF Reduced, Row
<1>4. gain * c \in Int
  <2> HIDE DEF gain, c
  <2> QED BY <1>1, <1>2
<1>5. gain * c = IF r.side = "LONG" THEN c * p - r.entry * c ELSE r.entry * c - c * p
  <2> HIDE DEF c
  <2> QED BY <1>1, <1>2 DEF Gain, Sides
<1> HIDE DEF n, c, gain
<1>10. /\ r.remaining - c \in Nat /\ r.exitQty + c \in Nat
      /\ r.realized + gain * c \in Int
  BY <1>1, <1>2, <1>4
<1>6. /\ n \in Row /\ n.side = r.side /\ n.entry = r.entry
      /\ n.entryQty = r.entryQty
      /\ n.remaining = r.remaining - c /\ n.realized = r.realized + gain * c
      /\ n.status = IF r.remaining - c <= 0 THEN "CLOSED" ELSE "PARTIAL"
      /\ n.exitQty = IF r.remaining - c <= 0 THEN r.entryQty ELSE r.exitQty + c
  <2>1. n \in Row
    BY <1>1, <1>3, <1>10 DEF Row, Statuses, OpenStatuses
  <2> QED BY <2>1, <1>3 DEF Row
<1>7. FitsStatus(n)
  BY <1>1, <1>2, <1>6 DEF FitsStatus
<1>8. Worth(n) - Worth(r) = - Paid(r.side, c, p)
  <2>1. (r.remaining - c) * r.entry = r.remaining * r.entry - r.entry * c
    BY <1>1, <1>2
  <2>2. /\ r.remaining * r.entry \in Int /\ r.entry * c \in Int /\ c * p \in Int
    BY <1>1, <1>2
  <2>3. Worth(r) = r.realized + Paid(r.side, r.remaining, r.entry)
    BY <1>1, <2>2 DEF Worth, Invested, Paid
  <2>4. Worth(n) = r.realized + gain * c + Paid(r.side, r.remaining - c, r.entry)
    BY <1>1, <1>4, <1>6, <2>1, <2>2 DEF Worth, Invested, Paid
  <2> QED BY <1>1, <1>4, <1>5, <2>1, <2>2, <2>3, <2>4 DEF Paid, Sides
<1>9. r.remaining - n.remaining = c
  BY <1>1, <1>2, <1>6
<1> QED BY <1>2, <1>6, <1>7, <1>8, <1>9 DEF n

-----------------------------------------------------------------------------
(* check_stop_loss_take_profit *)

\* Two rows that hold the same shares at the same price, so that money and
\* quantities do not tell them apart.
SameHolding(a, b) ==
    /\ a.side = b.side /\ a.status = b.status /\ a.entryQty = b.entryQty
    /\ a.remaining = b.remaining /\ a.exitQty = b.exitQty
    /\ a.entry = b.entry /\ a.realized = b.realized

\* Rows with the same holding are open, fit and are worth alike.
LEMMA SameHoldingFacts ==
    ASSUME NEW a \in Row, NEW b \in Row, SameHolding(a, b)
    PROVE  /\ FitsStatus(a) <=> FitsStatus(b)
           /\ IsOpen(a) <=> IsOpen(b)
           /\ Worth(a) = Worth(b)
BY DEF SameHolding, FitsStatus, IsOpen, Worth, Invested

\* Refreshing the stops moves nothing but the stops.
LEMMA RefreshedFacts ==
    ASSUME NEW r \in Row, NEW cfg \in Strategy, NEW price \in Int
    PROVE  /\ Refreshed(r, cfg, price) \in Row
           /\ SameHolding(Refreshed(r, cfg, price), r)
<1>1. ASSUME NEW x \in Row
      PROVE  LockChecked(x, cfg, price) \in Row /\ SameHolding(LockChecked(x, cfg, price), x)
  <2> DEFINE pct == IF x.trailPct # 0 THEN x.trailPct ELSE cfg.trailPct
             level == IF pct # 0 THEN StopLevel(x.side, price, pct) ELSE price
  <2>1. pct \in Nat /\ x.side \in Sides
    BY DEF Row, Strategy
  <2>2. level \in Int
    <3> HIDE DEF pct
    <3> QED BY <2>1, StopLevelInt
  <2>3. \/ LockChecked(x, cfg, price) = x
        \/ LockChecked(x, cfg, price) = [x EXCEPT !.locked = TRUE, !.lockPrice = level]
    BY DEF LockChecked
  <2> HIDE DEF level
  <2> QED BY <2>2, <2>3 DEF Row, SameHolding
<1>2. ASSUME NEW x \in Row
      PROVE  TrailChecked(x, cfg, price) \in Row /\ SameHolding(TrailChecked(x, cfg, price), x)
  <2> DEFINE pct == TrailPctOf(x, cfg)
             stop == StopLevel(x.side, price, pct)
             raised == IF x.trailStop = 0 \/ Beats(x.side, stop, x.trailStop)
                       THEN stop ELSE x.trailStop
  <2>1. pct \in Nat /\ x.side \in Sides /\ x.trailStop \in Int
    BY DEF Row, Strategy, TrailPctOf
  <2>2. stop \in Int
    <3> HIDE DEF pct
    <3> QED BY <2>1, StopLevelInt
  <2>3. raised \in Int
    <3> HIDE DEF stop
    <3> QED BY <2>1, <2>2
  <2>4. \/ TrailChecked(x, cfg, price) = x
        \/ TrailChecked(x, cfg, price) = [x EXCEPT !.best = price, !.trailStop = raised]
    BY DEF TrailChecked
  <2> HIDE DEF raised
  <2> QED BY <2>3, <2>4 DEF Row, SameHolding
<1>3. LockChecked(r, cfg, price) \in Row /\ SameHolding(LockChecked(r, cfg, price), r)
  BY <1>1
<1>4. /\ TrailChecked(LockChecked(r, cfg, price), cfg, price) \in Row
      /\ SameHolding(TrailChecked(LockChecked(r, cfg, price), cfg, price),
                     LockChecked(r, cfg, price))
  BY <1>2, <1>3
<1> QED BY <1>3, <1>4 DEF Refreshed, SameHolding

\* The profit lock moves nothing but the lock.
LEMMA LockCheckedRow ==
    ASSUME NEW r \in Row, NEW cfg \in Strategy, NEW price \in Int
    PROVE  LockChecked(r, cfg, price) \in Row /\ LockChecked(r, cfg, price).side = r.side
<1> DEFINE pct == IF r.trailPct # 0 THEN r.trailPct ELSE cfg.trailPct
           level == IF pct # 0 THEN StopLevel(r.side, price, pct) ELSE price
<1>1. pct \in Nat /\ r.side \in Sides
  BY DEF Row, Strategy
<1>2. level \in Int
  <2> HIDE DEF pct
  <2> QED BY <1>1, StopLevelInt
<1>3. \/ LockChecked(r, cfg, price) = r
      \/ LockChecked(r, cfg, price) = [r EXCEPT !.locked = TRUE, !.lockPrice = level]
  BY DEF LockChecked
<1> HIDE DEF level
<1> QED BY <1>2, <1>3 DEF Row

\* The price a check sells at is a whole number of ticks.
LEMMA ExitPriceInt ==
    ASSUME NEW r \in Row, NEW cfg \in Strategy, NEW price \in Int
    PROVE  ExitPrice(r, cfg, price) \in Int
<1> DEFINE f == Refreshed(r, cfg, price)
<1>1. f \in Row
  BY RefreshedFacts
<1> HIDE DEF f
<1>2. EffectiveStop(f, cfg) \in Int /\ f.takeProfit \in Int
  BY <1>1 DEF EffectiveStop, Row
<1>3. ExitPrice(r, cfg, price) =
        IF StopHit(f, cfg, price) THEN BetterOf(f.side, price, EffectiveStop(f, cfg))
        ELSE IF TargetHit(f, price) THEN WorseOf(f.side, price, f.takeProfit)
        ELSE price
  BY DEF ExitPrice, f
<1> QED BY <1>2, <1>3 DEF BetterOf, WorseOf

\* Copying the booking rules onto the row leaves the holding alone.
LEMMA InheritingFacts ==
    ASSUME NEW r \in Row, NEW cfg \in Strategy
    PROVE  Inheriting(r, cfg) \in Row /\ SameHolding(Inheriting(r, cfg), r)
BY DEF Inheriting, BookingOf, Row, Strategy, SameHolding

\* Executing the first due rule is a sale at the market price.
LEMMA BookedFacts ==
    ASSUME NEW r \in Row, IsOpen(r), FitsStatus(r), NEW price \in Int, Due(r, price) # {}
    PROVE  LET n == Booked(r, price)
           IN  /\ n \in Row /\ FitsStatus(n)
               /\ n.side = r.side
               /\ r.remaining - n.remaining \in Nat \ {0}
               /\ Worth(n) - Worth(r) = - Paid(r.side, r.remaining - n.remaining, price)
<1> DEFINE rule == FirstDue(r, price)
           m == Reduced(r, SellQty(r, rule), price)
           n == Booked(r, price)
<1>1. Due(r, price) \subseteq Rule
  <2>1. r.booking \in BookingDoc
    BY DEF Row
  <2> QED BY <2>1, DocumentFacts DEF Due
<1>2. rule \in Due(r, price)
  BY <1>1, LowestTargetExists DEF FirstDue
<1>3. rule \in Rule /\ SellQty(r, rule) > 0
  BY <1>1, <1>2 DEF Due
<1>4. SellQty(r, rule) \in Nat \ {0}
  <2>1. r.remaining * rule.share \in Int
    BY <1>3 DEF Row, Rule
  <2> QED BY <1>3, <2>1 DEF SellQty
<1>5. /\ m \in Row /\ FitsStatus(m) /\ m.side = r.side
      /\ r.remaining - m.remaining \in Nat \ {0}
      /\ Worth(m) - Worth(r) = - Paid(r.side, r.remaining - m.remaining, price)
  BY <1>4, ReducedFacts
<1>6. n = [m EXCEPT !.executed = m.executed \cup {rule.target}]
  BY DEF Booked
<1> HIDE DEF m, n, rule
<1>7. n \in Row /\ SameHolding(n, m)
  BY <1>3, <1>5, <1>6 DEF Row, Rule, SameHolding
<1>8. FitsStatus(n) /\ Worth(n) = Worth(m) /\ n.remaining = m.remaining /\ n.side = m.side
  BY <1>5, <1>7, SameHoldingFacts DEF SameHolding
<1> QED BY <1>5, <1>7, <1>8 DEF n

\* One price check: a well formed row stays so, and its worth moves by exactly
\* the money of the shares sold, if any were.
LEMMA CheckedFacts ==
    ASSUME NEW r \in Row, IsOpen(r), FitsStatus(r), NEW cfg \in Strategy, NEW price \in Int
    PROVE  LET n == Checked(r, cfg, price)
               sold == r.remaining - n.remaining
           IN  /\ n \in Row /\ FitsStatus(n)
               /\ n.side = r.side
               /\ sold \in Nat
               /\ Worth(n) - Worth(r) =
                     IF sold > 0 THEN - Paid(r.side, sold, ExitPrice(r, cfg, price)) ELSE 0
<1> DEFINE f == Refreshed(r, cfg, price)
           i == Inheriting(f, cfg)
           n == Checked(r, cfg, price)
           at == ExitPrice(r, cfg, price)
           hit == StopHit(f, cfg, price) \/ TargetHit(f, price)
<1>1. f \in Row /\ SameHolding(f, r)
  BY RefreshedFacts
<1>2. i \in Row /\ SameHolding(i, f)
  <2> HIDE DEF f
  <2> QED BY <1>1, InheritingFacts
<1>3. /\ FitsStatus(f) /\ IsOpen(f) /\ Worth(f) = Worth(r)
      /\ f.side = r.side /\ f.remaining = r.remaining
  BY <1>1, SameHoldingFacts DEF SameHolding
<1>4. /\ FitsStatus(i) /\ IsOpen(i) /\ Worth(i) = Worth(r)
      /\ i.side = r.side /\ i.remaining = r.remaining
  <2> HIDE DEF f, i
  <2> QED BY <1>1, <1>2, <1>3, SameHoldingFacts DEF SameHolding
<1>5. at \in Int
  BY ExitPriceInt
<1>6. f.remaining \in Nat \ {0}
  BY <1>1, <1>3 DEF Row, FitsStatus, IsOpen, OpenStatuses
<1>7. n = IF hit THEN Reduced(f, f.remaining, at)
          ELSE IF Due(i, price) # {} THEN Booked(i, price) ELSE i
  BY DEF Checked
<1>8. ~hit => at = price
  BY DEF ExitPrice
<1>9. Worth(r) \in Int /\ Worth(r) - Worth(r) = 0 /\ r.remaining - r.remaining = 0
  <2>1. r.remaining * r.entry \in Int /\ r.realized \in Int /\ r.remaining \in Int
    BY DEF Row
  <2>2. Worth(r) \in Int
    BY <2>1 DEF Worth, Invested, Paid
  <2> QED BY <2>1, <2>2
<1> HIDE DEF f, i, n, at, hit
<1>10. CASE hit
  <2>1. n = Reduced(f, f.remaining, at)
    BY <1>7, <1>10
  <2>2. /\ n \in Row /\ FitsStatus(n) /\ n.side = f.side
        /\ f.remaining - n.remaining \in Nat \ {0}
        /\ Worth(n) - Worth(f) = - Paid(f.side, f.remaining - n.remaining, at)
    BY <1>1, <1>3, <1>5, <1>6, <2>1, ReducedFacts
  <2>3. /\ n.side = r.side /\ r.remaining - n.remaining \in Nat \ {0}
        /\ Worth(n) - Worth(r) = - Paid(r.side, r.remaining - n.remaining, at)
    BY <1>3, <2>2
  <2> QED BY <2>2, <2>3 DEF n, at
<1>11. CASE ~hit /\ Due(i, price) # {}
  BY <1>2, <1>4, <1>7, <1>8, <1>11, BookedFacts DEF n, at
<1>12. CASE ~hit /\ Due(i, price) = {}
  BY <1>2, <1>4, <1>7, <1>9, <1>12 DEF n
<1> QED BY <1>10, <1>11, <1>12

-----------------------------------------------------------------------------
(* The invariants *)

\* The inductive invariant.  The accounting identity needs the quantities (a
\* row being replaced must hold no shares), and both need the types.
IInv == TypeOK /\ QuantitiesFitStatus /\ RealizedMatchesCash

\* What a row is worth is a number.
LEMMA WorthInt == ASSUME NEW r \in Row PROVE Worth(r) \in Int
<1>1. r.remaining * r.entry \in Int /\ r.realized \in Int
  BY DEF Row
<1> QED BY <1>1 DEF Worth, Invested, Paid

\* What was paid for a row is a number.
LEMMA PaidInt ==
    ASSUME NEW side, NEW q \in Int, NEW p \in Int
    PROVE  Paid(side, q, p) \in Int
<1>1. q * p \in Int
  OBVIOUS
<1> QED BY <1>1 DEF Paid

\* The books of every symbol stay right when one symbol's account moves by no
\* more than the rounding that drift allows for.
LEMMA BooksKept ==
    ASSUME TypeOK, TypeOK', RealizedMatchesCash, NEW s \in Symbols,
           \A t \in Symbols \ {s} : /\ row'[t] = row[t] /\ earlier'[t] = earlier[t]
                                    /\ flow'[t] = flow[t] /\ drift'[t] = drift[t],
           2 * (Unexplained(s)' - Unexplained(s)) <= drift'[s] - drift[s],
           -2 * (Unexplained(s)' - Unexplained(s)) <= drift'[s] - drift[s]
    PROVE  RealizedMatchesCash'
<1> SUFFICES ASSUME NEW t \in Symbols
             PROVE  /\ 2 * Unexplained(t)' <= drift'[t]
                    /\ -2 * Unexplained(t)' <= drift'[t]
  BY DEF RealizedMatchesCash
<1>1. CASE t # s
  <2>1. Unexplained(t)' = Unexplained(t) /\ drift'[t] = drift[t]
    BY <1>1 DEF Unexplained
  <2> QED BY <2>1 DEF RealizedMatchesCash
<1>2. CASE t = s
  <2>1. Unexplained(s) \in Int /\ Unexplained(s)' \in Int
    <3>1. Worth(row[s]) \in Int /\ Worth(row'[s]) \in Int
      BY WorthInt DEF TypeOK
    <3> QED BY <3>1 DEF Unexplained, TypeOK
  <2>2. drift[s] \in Int /\ drift'[s] \in Int
    BY DEF TypeOK
  <2>3. 2 * Unexplained(s) <= drift[s] /\ -2 * Unexplained(s) <= drift[s]
    BY DEF RealizedMatchesCash
  <2> QED BY <1>2, <2>1, <2>2, <2>3
<1> QED BY <1>1, <1>2

\* A sale of part of one row's holding keeps the invariant, whoever makes it.
LEMMA SalePreserves ==
    ASSUME IInv, NEW s \in Symbols, IsOpen(row[s]), NEW q \in Nat \ {0}, NEW p \in Int,
           row' = [row EXCEPT ![s] = Reduced(row[s], q, p)],
           Sold(s, row[s], Reduced(row[s], q, p), p),
           exitOnly' \subseteq exitOnly, ops' \in 0..MaxOps,
           UNCHANGED <<strategy, earlier, drift, fired, choice>>
    PROVE  IInv'
<1> DEFINE n == Reduced(row[s], q, p)
<1>1. row[s] \in Row /\ FitsStatus(row[s])
  BY DEF IInv, TypeOK, QuantitiesFitStatus
<1>2. /\ n \in Row /\ FitsStatus(n) /\ row[s].remaining - n.remaining \in Nat \ {0}
      /\ Worth(n) - Worth(row[s])
            = - Paid(row[s].side, row[s].remaining - n.remaining, p)
  BY <1>1, ReducedFacts
<1> DEFINE paid == Paid(row[s].side, row[s].remaining - n.remaining, p)
<1>3. paid \in Int
  <2> HIDE DEF n
  <2> QED BY <1>2, PaidInt
<1>4. row' = [row EXCEPT ![s] = n] /\ flow' = [flow EXCEPT ![s] = flow[s] - paid]
  BY DEF Sold
<1> HIDE DEF n, paid
<1>5. TypeOK'
  BY <1>2, <1>3, <1>4 DEF IInv, TypeOK
<1>6. QuantitiesFitStatus'
  BY <1>2, <1>4 DEF IInv, TypeOK, QuantitiesFitStatus
<1>7. RealizedMatchesCash'
  <2>1. /\ row'[s] = n /\ flow'[s] = flow[s] - paid
        /\ \A t \in Symbols \ {s} : row'[t] = row[t] /\ flow'[t] = flow[t]
    BY <1>4 DEF IInv, TypeOK
  <2>2. Worth(n) \in Int /\ Worth(row[s]) \in Int /\ earlier[s] \in Int
        /\ flow[s] \in Int /\ drift[s] \in Int
    BY <1>1, <1>2, WorthInt DEF IInv, TypeOK
  <2>3. Unexplained(s)' - Unexplained(s) = 0
    BY <1>2, <1>3, <2>1, <2>2 DEF Unexplained, paid
  <2> QED BY <1>5, <2>1, <2>2, <2>3, BooksKept DEF IInv
<1> QED BY <1>5, <1>6, <1>7 DEF IInv

\* Moving the stops of one row keeps the invariant.
LEMMA StopEditPreserves ==
    ASSUME IInv, NEW s \in Symbols, NEW n \in Row, SameHolding(n, row[s]),
           row' = [row EXCEPT ![s] = n], ops' \in 0..MaxOps,
           choice' \in [Symbols -> Choice],
           UNCHANGED <<strategy, earlier, exitOnly, flow, drift, fired>>
    PROVE  IInv'
<1>1. row[s] \in Row
  BY DEF IInv, TypeOK
<1>2. (FitsStatus(n) <=> FitsStatus(row[s])) /\ Worth(n) = Worth(row[s])
  BY <1>1, SameHoldingFacts
<1>3. /\ row'[s] = n /\ \A t \in Symbols \ {s} : row'[t] = row[t]
  BY DEF IInv, TypeOK
<1>4. TypeOK'
  BY DEF IInv, TypeOK
<1>5. QuantitiesFitStatus'
  BY <1>2, <1>3 DEF IInv, QuantitiesFitStatus
<1>6. RealizedMatchesCash'
  <2>1. \A t \in Symbols : Unexplained(t)' = Unexplained(t)
    BY <1>2, <1>3 DEF Unexplained
  <2> QED BY <2>1 DEF IInv, RealizedMatchesCash
<1> QED BY <1>4, <1>5, <1>6 DEF IInv

\* A row that holds no shares is worth what it realized.
LEMMA EmptyWorth ==
    ASSUME NEW r \in Row, r.remaining = 0
    PROVE  Worth(r) = r.realized
BY DEF Worth, Invested, Paid, Row

\* The first states satisfy the invariant.
LEMMA InitInv == Init => IInv
<1> SUFFICES ASSUME Init PROVE IInv
  OBVIOUS
<1>1. NoRow \in Row /\ FitsStatus(NoRow) /\ Worth(NoRow) = 0
  <2>1. NoBooking \in BookingDoc
    BY DEF NoBooking, BookingDoc
  <2>2. NoRow \in Row
    BY <2>1 DEF NoRow, Row, Statuses, OpenStatuses, Sides
  <2>3. FitsStatus(NoRow)
    BY DEF NoRow, FitsStatus
  <2>4. Worth(NoRow) = 0
    <3>1. NoRow.remaining = 0 /\ NoRow.realized = 0
      BY DEF NoRow
    <3> QED BY <2>2, <3>1, EmptyWorth
  <2> QED BY <2>2, <2>3, <2>4
<1>2. TypeOK
  BY <1>1, MaxOpsIsNatural DEF Init, TypeOK, NoChoice, Choice
<1>3. QuantitiesFitStatus
  BY <1>1 DEF Init, QuantitiesFitStatus
<1>4. RealizedMatchesCash
  <2>1. \A s \in Symbols : Unexplained(s) = 0 /\ drift[s] = 0
    BY <1>1 DEF Init, Unexplained
  <2> QED BY <2>1 DEF RealizedMatchesCash
<1> QED BY <1>2, <1>3, <1>4 DEF IInv

\* A fill that opens a row keeps the invariant.
LEMMA OpenRowPreserves ==
    ASSUME IInv, NEW s \in Symbols, NEW order \in {"BUY", "SELL"},
           NEW q \in Quantities, NEW p \in Prices, OpenRow(s, order, q, p)
    PROVE  IInv'
<1> DEFINE side == SideOpenedBy(order)
           n == NewRow(strategy, side, q, p)
           paid == Paid(side, q, p)
<1>1. /\ q \in Nat \ {0} /\ p \in Int /\ side \in Sides /\ strategy \in Strategy
  BY SizesAreNatural, PricesArePositive, StrategiesAreStrategies
     DEF IInv, TypeOK, SideOpenedBy, Sides
<1>2. n \in Row /\ FitsStatus(n) /\ Worth(n) = paid
  <2> HIDE DEF side
  <2> QED BY <1>1, NewRowFacts
<1>3. paid \in Int
  BY <1>1, PaidInt
<1>4. /\ row' = [row EXCEPT ![s] = n]
      /\ flow' = [flow EXCEPT ![s] = flow[s] + paid]
      /\ earlier' = [earlier EXCEPT ![s] = earlier[s] + row[s].realized]
      /\ fired' = [fired EXCEPT ![s] = [t \in Targets |-> 0]]
      /\ choice' = [choice EXCEPT ![s] = NoChoice]
      /\ ops < MaxOps /\ ops' = ops + 1
      /\ UNCHANGED <<strategy, exitOnly, drift>>
  BY DEF OpenRow, Counted
<1> HIDE DEF n, paid, side
<1>5. TypeOK'
  <2>1. row[s].realized \in Int /\ earlier[s] \in Int /\ flow[s] \in Int
    BY DEF IInv, TypeOK, Row
  <2>2. ops' \in 0..MaxOps
    BY <1>4, MaxOpsIsNatural DEF IInv, TypeOK
  <2> QED BY <1>2, <1>3, <1>4, <2>1, <2>2 DEF IInv, TypeOK, NoChoice, Choice
<1>6. QuantitiesFitStatus'
  BY <1>2, <1>4 DEF IInv, TypeOK, QuantitiesFitStatus
<1>7. RealizedMatchesCash'
  <2>1. row[s] \in Row /\ row[s].remaining = 0
    BY DEF IInv, TypeOK, QuantitiesFitStatus, FitsStatus, OpenRow, IsOpen, Row,
           Statuses, OpenStatuses
  <2>2. Worth(row[s]) = row[s].realized /\ row[s].realized \in Int
    BY <2>1, EmptyWorth DEF Row
  <2>3. /\ row'[s] = n /\ flow'[s] = flow[s] + paid
        /\ earlier'[s] = earlier[s] + row[s].realized
        /\ \A t \in Symbols \ {s} : /\ row'[t] = row[t] /\ flow'[t] = flow[t]
                                    /\ earlier'[t] = earlier[t]
    BY <1>4 DEF IInv, TypeOK
  <2>4. Unexplained(s)' - Unexplained(s) = 0
    BY <1>2, <1>3, <2>2, <2>3 DEF Unexplained, IInv, TypeOK
  <2> QED BY <1>4, <1>5, <2>3, <2>4, BooksKept DEF IInv, TypeOK
<1> QED BY <1>5, <1>6, <1>7 DEF IInv

\* A fill that averages a row keeps the invariant.
LEMMA AddToRowPreserves ==
    ASSUME IInv, NEW s \in Symbols, NEW order \in {"BUY", "SELL"},
           NEW q \in Quantities, NEW p \in Prices, AddToRow(s, order, q, p)
    PROVE  IInv'
<1> DEFINE n == Averaged(row[s], q, p)
           paid == Paid(row[s].side, q, p)
           d == Worth(n) - Worth(row[s]) - paid
<1>1. /\ q \in Nat \ {0} /\ p \in Int /\ row[s] \in Row
      /\ IsOpen(row[s]) /\ FitsStatus(row[s])
  BY SizesAreNatural, PricesArePositive DEF IInv, TypeOK, QuantitiesFitStatus, AddToRow
<1>2. /\ n \in Row /\ FitsStatus(n) /\ d \in Int
      /\ 2 * d <= row[s].remaining + q /\ -2 * d <= row[s].remaining + q
  BY <1>1, AveragedFacts
<1>3. paid \in Int
  BY <1>1, PaidInt
<1>4. /\ row' = [row EXCEPT ![s] = n]
      /\ flow' = [flow EXCEPT ![s] = flow[s] + paid]
      /\ drift' = [drift EXCEPT ![s] = drift[s] + row[s].remaining + q]
      /\ ops < MaxOps /\ ops' = ops + 1
      /\ UNCHANGED <<strategy, earlier, exitOnly, fired, choice>>
  BY DEF AddToRow, Counted
<1>5. row[s].remaining \in Nat /\ drift[s] \in Nat /\ flow[s] \in Int /\ earlier[s] \in Int
  BY <1>1 DEF IInv, TypeOK, Row
<1>6. Worth(n) \in Int /\ Worth(row[s]) \in Int
  <2> HIDE DEF n
  <2> QED BY <1>1, <1>2, WorthInt
<1> HIDE DEF n, paid
<1>7. TypeOK'
  <2>1. ops' \in 0..MaxOps
    BY <1>4, MaxOpsIsNatural DEF IInv, TypeOK
  <2> QED BY <1>1, <1>2, <1>3, <1>4, <1>5, <2>1 DEF IInv, TypeOK
<1>8. QuantitiesFitStatus'
  BY <1>2, <1>4 DEF IInv, TypeOK, QuantitiesFitStatus
<1>9. RealizedMatchesCash'
  <2>1. /\ row'[s] = n /\ flow'[s] = flow[s] + paid
        /\ drift'[s] = drift[s] + row[s].remaining + q
        /\ \A t \in Symbols \ {s} : /\ row'[t] = row[t] /\ flow'[t] = flow[t]
                                    /\ drift'[t] = drift[t]
    BY <1>4 DEF IInv, TypeOK
  <2>2. Unexplained(s)' - Unexplained(s) = d
    BY <1>3, <1>4, <1>5, <1>6, <2>1 DEF Unexplained
  <2>3. drift'[s] - drift[s] = row[s].remaining + q
    BY <1>1, <1>5, <2>1
  <2> QED BY <1>2, <1>4, <1>7, <2>1, <2>2, <2>3, BooksKept DEF IInv
<1> QED BY <1>7, <1>8, <1>9 DEF IInv

\* A price check keeps the invariant.
LEMMA CheckExitsPreserves ==
    ASSUME IInv, NEW price \in [Symbols -> Prices \cup {0}], CheckExits(price)
    PROVE  IInv'
<1> DEFINE after == [s \in Symbols |-> AfterCheck(s, price[s])]
           sold(s) == row[s].remaining - after[s].remaining
           at(s) == IF price[s] # 0 THEN ExitPrice(row[s], strategy, price[s]) ELSE 0
           paid(s) == IF sold(s) > 0 THEN Paid(row[s].side, sold(s), at(s)) ELSE 0
<1>1. strategy \in Strategy /\ \A s \in Symbols : price[s] \in Int
  <2>1. strategy \in Strategy
    BY StrategiesAreStrategies DEF IInv, TypeOK
  <2>2. Prices \cup {0} \subseteq Int
    BY PricesArePositive
  <2> QED BY <2>1, <2>2
<1>2. ASSUME NEW s \in Symbols
      PROVE  /\ after[s] \in Row /\ FitsStatus(after[s])
             /\ paid(s) \in Int /\ Worth(after[s]) - Worth(row[s]) = - paid(s)
  <2> DEFINE r == row[s]
             n == after[s]
  <2>1. r \in Row /\ FitsStatus(r)
    BY DEF IInv, TypeOK, QuantitiesFitStatus
  <2>2. CASE IsOpen(r) /\ price[s] # 0
    <3>1. n = Checked(r, strategy, price[s]) /\ at(s) = ExitPrice(r, strategy, price[s])
      BY <2>2 DEF AfterCheck
    <3>2. /\ n \in Row /\ FitsStatus(n) /\ sold(s) \in Nat
          /\ Worth(n) - Worth(r) = IF sold(s) > 0 THEN - Paid(r.side, sold(s), at(s)) ELSE 0
      <4> HIDE DEF after
      <4> QED BY <1>1, <2>1, <2>2, <3>1, CheckedFacts
    <3>3. at(s) \in Int
      BY <1>1, <2>1, <3>1, ExitPriceInt
    <3>4. Paid(r.side, sold(s), at(s)) \in Int
      <4> HIDE DEF sold, at
      <4> QED BY <3>2, <3>3, PaidInt
    <3> HIDE DEF after, sold, at
    <3> QED BY <3>2, <3>4
  <2>3. CASE ~(IsOpen(r) /\ price[s] # 0)
    <3>1. n = r
      BY <2>3 DEF AfterCheck
    <3>2. Worth(r) - Worth(r) = 0 /\ r.remaining - r.remaining = 0
      BY <2>1, WorthInt DEF Row
    <3>3. sold(s) = 0 /\ paid(s) = 0
      BY <3>1, <3>2
    <3> HIDE DEF after, sold, at
    <3> QED BY <2>1, <3>1, <3>2, <3>3
  <2> QED BY <2>2, <2>3
<1>3. /\ row' = after
      /\ flow' = [s \in Symbols |-> flow[s] - paid(s)]
      /\ exitOnly' \subseteq exitOnly
      /\ fired' = [s \in Symbols |-> [t \in Targets |->
                      fired[s][t] + (IF t \in RuleSelling(s, price[s]) THEN 1 ELSE 0)]]
      /\ UNCHANGED <<strategy, earlier, ops, drift, choice>>
  BY DEF CheckExits, CleanExitOnly
<1>4. DOMAIN after = Symbols
  OBVIOUS
<1> HIDE DEF after, sold, at, paid
<1>5. TypeOK'
  <2>1. row' \in [Symbols -> Row]
    <3>1. after = [s \in Symbols |-> after[s]]
      BY DEF after
    <3> QED BY <1>2, <1>3, <3>1
  <2>2. flow' \in [Symbols -> Int]
    BY <1>2, <1>3 DEF IInv, TypeOK
  <2>3. fired' \in [Symbols -> [Targets -> Nat]]
    BY <1>3 DEF IInv, TypeOK
  <2> QED BY <1>3, <2>1, <2>2, <2>3 DEF IInv, TypeOK
<1>6. QuantitiesFitStatus'
  BY <1>2, <1>3 DEF QuantitiesFitStatus
<1>7. RealizedMatchesCash'
  <2>1. ASSUME NEW s \in Symbols PROVE Unexplained(s)' = Unexplained(s)
    <3>1. /\ row'[s] = after[s] /\ flow'[s] = flow[s] - paid(s)
          /\ flow[s] \in Int /\ earlier[s] \in Int
          /\ Worth(after[s]) \in Int /\ Worth(row[s]) \in Int
      BY <1>2, <1>3, WorthInt DEF IInv, TypeOK
    <3>2. Worth(after[s]) - Worth(row[s]) = - paid(s) /\ paid(s) \in Int
      BY <1>2
    <3>3. Unexplained(s)' = earlier[s] + Worth(after[s]) - (flow[s] - paid(s))
      BY <1>3, <3>1 DEF Unexplained
    <3>4. Unexplained(s) = earlier[s] + Worth(row[s]) - flow[s]
      BY DEF Unexplained
    <3> QED BY <3>1, <3>2, <3>3, <3>4
  <2> QED BY <1>3, <2>1 DEF IInv, RealizedMatchesCash
<1> QED BY <1>5, <1>6, <1>7 DEF IInv

\* The user's edits of a row move nothing but its stops.
LEMMA StopEditFacts ==
    ASSUME NEW r \in Row, NEW on \in BOOLEAN
    PROVE  LET a == [r EXCEPT !.trailOn = FALSE, !.trailPct = 0, !.trailStop = 0]
               b == [r EXCEPT !.lockOn = on,
                              !.locked = IF on THEN r.locked ELSE FALSE,
                              !.lockPrice = IF on THEN r.lockPrice ELSE 0]
           IN  /\ a \in Row /\ SameHolding(a, r)
               /\ b \in Row /\ SameHolding(b, r)
<1> DEFINE locked == IF on THEN r.locked ELSE FALSE
           lockPrice == IF on THEN r.lockPrice ELSE 0
           a == [r EXCEPT !.trailOn = FALSE, !.trailPct = 0, !.trailStop = 0]
           b == [r EXCEPT !.lockOn = on, !.locked = locked, !.lockPrice = lockPrice]
<1>1. ASSUME NEW trails \in BOOLEAN, NEW pct \in Nat, NEW stop \in Int
      PROVE  [r EXCEPT !.trailOn = trails, !.trailPct = pct, !.trailStop = stop] \in Row
  BY DEF Row
<1>2. ASSUME NEW l \in BOOLEAN, NEW p \in Int
      PROVE  [r EXCEPT !.lockOn = on, !.locked = l, !.lockPrice = p] \in Row
  BY DEF Row
<1>3. r.locked \in BOOLEAN /\ r.lockPrice \in Int
  BY DEF Row
<1>4. locked \in BOOLEAN
  BY <1>3, Zenon
<1>5. lockPrice \in Int
  BY <1>3
<1>6. FALSE \in BOOLEAN /\ 0 \in Nat /\ 0 \in Int
  OBVIOUS
<1>7. a \in Row
  BY <1>1, <1>6, Zenon
<1>8. b \in Row
  <2> HIDE DEF locked, lockPrice
  <2> QED BY <1>2, <1>4, <1>5, Zenon
<1>9. SameHolding(a, r) /\ SameHolding(b, r)
  BY DEF SameHolding, Row
<1> QED BY <1>7, <1>8, <1>9

\* What a user edits of a row keeps the invariant.
LEMMA UserEditsPreserve == ASSUME IInv, UserEdits PROVE IInv'
<1>1. ASSUME Counted PROVE ops' \in 0..MaxOps
  BY <1>1, MaxOpsIsNatural DEF Counted, IInv, TypeOK
<1>2. ASSUME NEW s \in Symbols, NEW pct \in UserPcts, EnableTrailing(s, pct)
      PROVE  IInv'
  <2> DEFINE best == IF row[s].best = 0 THEN row[s].entry ELSE row[s].best
             stop == StopLevel(row[s].side, best, pct)
             n == [row[s] EXCEPT !.trailOn = TRUE, !.trailPct = pct, !.best = best,
                                 !.trailStop = stop]
  <2>1. row[s] \in Row /\ pct \in Nat
    BY PctsAreNatural DEF IInv, TypeOK
  <2>2. best \in Int /\ row[s].side \in Sides
    BY <2>1 DEF Row
  <2>3. stop \in Int
    <3> HIDE DEF best
    <3> QED BY <2>1, <2>2, StopLevelInt
  <2>4. row' = [row EXCEPT ![s] = n]
    BY <1>2 DEF EnableTrailing, IInv, TypeOK, Row
  <2>5. n \in Row /\ SameHolding(n, row[s])
    <3> HIDE DEF best, stop
    <3> QED BY <2>1, <2>2, <2>3 DEF Row, SameHolding
  <2> HIDE DEF n
  <2> QED BY <1>1, <1>2, <2>4, <2>5, StopEditPreserves DEF EnableTrailing, IInv, TypeOK
<1>3. ASSUME NEW s \in Symbols, DisableTrailing(s) PROVE IInv'
  <2> DEFINE n == [row[s] EXCEPT !.trailOn = FALSE, !.trailPct = 0, !.trailStop = 0]
  <2>1. row' = [row EXCEPT ![s] = n]
    BY <1>3 DEF DisableTrailing, IInv, TypeOK, Row
  <2>2. n \in Row /\ SameHolding(n, row[s])
    BY StopEditFacts DEF IInv, TypeOK
  <2> HIDE DEF n
  <2> QED BY <1>1, <1>3, <2>1, <2>2, StopEditPreserves DEF DisableTrailing, IInv, TypeOK
<1>4. ASSUME NEW s \in Symbols, NEW on \in BOOLEAN, UpdateProfitLock(s, on) PROVE IInv'
  <2> DEFINE n == [row[s] EXCEPT !.lockOn = on,
                                 !.locked = IF on THEN row[s].locked ELSE FALSE,
                                 !.lockPrice = IF on THEN row[s].lockPrice ELSE 0]
  <2>1. row' = [row EXCEPT ![s] = n]
    BY <1>4 DEF UpdateProfitLock, IInv, TypeOK, Row
  <2>2. n \in Row /\ SameHolding(n, row[s])
    BY StopEditFacts DEF IInv, TypeOK
  <2>3. choice' \in [Symbols -> Choice]
    BY <1>4 DEF UpdateProfitLock, IInv, TypeOK, Choice
  <2> HIDE DEF n
  <2> QED BY <1>1, <1>4, <2>1, <2>2, <2>3, StopEditPreserves DEF UpdateProfitLock
<1> QED BY <1>2, <1>3, <1>4 DEF UserEdits, UpdateTrailingStop

\* Saving booking rules touches neither quantities nor money.
LEMMA SaveRulesPreserves ==
    ASSUME IInv, NEW s \in Symbols, NEW doc \in Documents,
           UpdateProfitBookingRules(s, doc)
    PROVE  IInv'
<1> DEFINE n == [row[s] EXCEPT !.booking = doc, !.executed = {}]
<1>1. ops' \in 0..MaxOps
  BY MaxOpsIsNatural DEF UpdateProfitBookingRules, Counted, IInv, TypeOK
<1>2. doc \in BookingDoc
  <2>1. PICK cfg \in Strategies : doc = [cfg.booking EXCEPT !.given = TRUE]
    BY DEF Documents
  <2>2. cfg.booking \in BookingDoc
    BY StrategiesAreStrategies DEF Strategy
  <2> QED BY <2>1, <2>2, DocumentFacts
<1>3. row[s] \in Row
  BY DEF IInv, TypeOK
<1>4. row' = [row EXCEPT ![s] = n]
  BY DEF UpdateProfitBookingRules, IInv, TypeOK, Row
<1>5. n \in Row
  BY <1>2, <1>3 DEF Row
<1>6. SameHolding(n, row[s])
  BY <1>3 DEF SameHolding, Row
<1>7. choice' \in [Symbols -> Choice]
  BY DEF UpdateProfitBookingRules, IInv, TypeOK, Choice
<1> HIDE DEF n
<1> QED
  BY <1>1, <1>4, <1>5, <1>6, <1>7, StopEditPreserves DEF UpdateProfitBookingRules

\* Every step keeps the invariant.
LEMMA NextPreserves == ASSUME IInv, Next PROVE IInv'
<1>1. ASSUME NEW s \in Symbols, NEW order \in {"BUY", "SELL"}, NEW q \in Quantities,
             NEW p \in Prices, ProcessOrderFill(s, order, q, p)
      PROVE  IInv'
  <2>1. CASE CloseByFill(s, order, q, p)
    <3>1. q \in Nat \ {0} /\ p \in Int
      BY SizesAreNatural, PricesArePositive
    <3>2. ops' \in 0..MaxOps
      BY <2>1, MaxOpsIsNatural DEF CloseByFill, Counted, IInv, TypeOK
    <3> QED BY <2>1, <3>1, <3>2, SalePreserves DEF CloseByFill, CleanExitOnly
  <2> QED BY <1>1, <2>1, OpenRowPreserves, AddToRowPreserves DEF ProcessOrderFill
<1>2. ASSUME NEW s \in Symbols, NEW q \in Quantities, NEW p \in Prices, UserClose(s, q, p)
      PROVE  IInv'
  <2>1. q \in Nat \ {0} /\ p \in Int
    BY SizesAreNatural, PricesArePositive
  <2>2. ops' \in 0..MaxOps
    BY <1>2, MaxOpsIsNatural DEF UserClose, Counted, IInv, TypeOK
  <2> QED BY <1>2, <2>1, <2>2, SalePreserves DEF UserClose
<1>3. ASSUME NEW cfg \in Strategies, UpdateStrategy(cfg) PROVE IInv'
  <2>1. ops' \in 0..MaxOps
    BY <1>3, MaxOpsIsNatural DEF UpdateStrategy, Counted, IInv, TypeOK
  <2> QED BY <1>3, <2>1 DEF UpdateStrategy, IInv, TypeOK, QuantitiesFitStatus,
                            RealizedMatchesCash, Unexplained
<1>4. ASSUME NEW dropped \in SUBSET Symbols, SyncScreener(dropped) PROVE IInv'
  BY <1>4 DEF SyncScreener, IInv, TypeOK, QuantitiesFitStatus, RealizedMatchesCash,
              Unexplained
<1> QED BY <1>1, <1>2, <1>3, <1>4, CheckExitsPreserves, UserEditsPreserve,
           SaveRulesPreserves DEF Next

\* IInv holds in every reachable state, for all constants that satisfy the
\* assumptions of PositionTracker.
THEOREM InductiveInvariant == Spec => []IInv
<1>1. IInv /\ UNCHANGED vars => IInv'
  BY DEF IInv, vars, TypeOK, QuantitiesFitStatus, RealizedMatchesCash, Unexplained
<1> QED BY <1>1, InitInv, NextPreserves, PTL DEF Spec

\* Every column of every row keeps its type: no fill, check, close or edit
\* writes a negative quantity or a status the code does not know.
THEOREM TypeCorrect == Spec => []TypeOK
BY InductiveInvariant, PTL DEF IInv

\* The status, remaining, entry and exit quantity columns agree whatever
\* sequence of fills, checks, booking rules and manual closes reached the row.
THEOREM QuantitiesAlwaysFit == Spec => []QuantitiesFitStatus
BY InductiveInvariant, PTL DEF IInv

\* Realized P&L accounts for all the money that tracked fills and exits moved,
\* up to half a tick per averaged share.
THEOREM BooksBalance == Spec => []RealizedMatchesCash
BY InductiveInvariant, PTL DEF IInv

-----------------------------------------------------------------------------
(* Booking rules *)

\* Two rows with the same rules, of which the same have sold.
SameBooking(a, b) == a.booking = b.booking /\ a.executed = b.executed

\* Fills, sales and refreshed stops leave the rules of a row alone.
LEMMA BookingKept ==
    ASSUME NEW r \in Row, NEW cfg, NEW q, NEW p
    PROVE  /\ SameBooking(Averaged(r, q, p), r)
           /\ SameBooking(Reduced(r, q, p), r)
           /\ SameBooking(Refreshed(r, cfg, p), r)
<1>1. SameBooking(Averaged(r, q, p), r) /\ SameBooking(Reduced(r, q, p), r)
  BY DEF SameBooking, Averaged, Reduced, Row
<1>2. /\ LockChecked(r, cfg, p).booking = r.booking /\ LockChecked(r, cfg, p).executed = r.executed
      /\ \A x : /\ TrailChecked(x, cfg, p).booking = x.booking
                /\ TrailChecked(x, cfg, p).executed = x.executed
  BY DEF LockChecked, TrailChecked, Row
<1> QED
  BY <1>1, <1>2 DEF Refreshed, SameBooking

\* A rule that has sold from a row whose rules the user has not saved is on the
\* row's executed list, and the row has a document of its own, which no later
\* check replaces.
Remembered(s, t) ==
    ~choice[s].rules =>
        /\ fired[s][t] <= 1
        /\ fired[s][t] = 1 => row[s].booking.given /\ t \in row[s].executed

SalesRemembered == \A s \in Symbols, t \in Targets : Remembered(s, t)

\* What a check makes of the rules of a row: a rule that sells was not on the
\* list and is afterwards, and the rules of a row that has some stay.
LEMMA CheckRemembers ==
    ASSUME IInv, NEW s \in Symbols, NEW price \in Int
    PROVE  LET r == row[s]
               n == AfterCheck(s, price)
           IN  /\ r.booking.given => n.booking = r.booking /\ r.executed \subseteq n.executed
               /\ \A t \in RuleSelling(s, price) :
                     /\ n.booking.given /\ t \in n.executed
                     /\ r.booking.given => t \notin r.executed
<1> DEFINE r == row[s]
           n == AfterCheck(s, price)
           f == Refreshed(r, strategy, price)
           i == Inheriting(f, strategy)
<1>1. r \in Row /\ strategy \in Strategy
  BY StrategiesAreStrategies DEF IInv, TypeOK
<1>2. f \in Row /\ i \in Row
  BY <1>1, RefreshedFacts, InheritingFacts
<1>3. f.booking = r.booking /\ f.executed = r.executed
  BY <1>1, BookingKept DEF SameBooking
<1>4. /\ i.booking = BookingOf(f, strategy)
      /\ i.executed = IF f.booking.given THEN f.executed ELSE {}
  BY <1>2 DEF Inheriting, Row
<1>5. r.booking.given => i.booking = r.booking /\ i.executed = r.executed
  BY <1>3, <1>4 DEF BookingOf
<1>6. CASE ~IsOpen(r) \/ price = 0
  BY <1>6 DEF AfterCheck, RuleSelling
<1>7. CASE /\ IsOpen(r) /\ price # 0
           /\ StopHit(f, strategy, price) \/ TargetHit(f, price)
  <2>1. RuleSelling(s, price) = {} /\ n = Reduced(f, f.remaining, ExitPrice(r, strategy, price))
    BY <1>7 DEF AfterCheck, RuleSelling, Checked
  <2> QED
    BY <1>2, <1>3, <2>1, BookingKept DEF SameBooking
<1>8. CASE /\ IsOpen(r) /\ price # 0
           /\ ~(StopHit(f, strategy, price) \/ TargetHit(f, price)) /\ Due(i, price) = {}
  <2>1. RuleSelling(s, price) = {} /\ n = i
    BY <1>8 DEF AfterCheck, RuleSelling, Checked
  <2> QED
    BY <1>5, <2>1
<1>9. CASE /\ IsOpen(r) /\ price # 0
           /\ ~(StopHit(f, strategy, price) \/ TargetHit(f, price)) /\ Due(i, price) # {}
  <2> DEFINE rule == FirstDue(i, price)
             m == Reduced(i, SellQty(i, rule), price)
  <2>1. RuleSelling(s, price) = {rule.target} /\ n = [m EXCEPT !.executed = @ \cup {rule.target}]
    BY <1>9 DEF AfterCheck, RuleSelling, Checked, Booked
  <2>2. m.booking = i.booking /\ m.executed = i.executed
    BY <1>2, BookingKept DEF SameBooking
  <2>3. n.booking = i.booking /\ n.executed = i.executed \cup {rule.target}
    BY <1>2, <2>1, <2>2 DEF Reduced, Row
  <2>4. i.booking \in BookingDoc
    BY <1>2 DEF Row
  <2>5. Due(i, price) \subseteq Rule
    BY <2>4, DocumentFacts DEF Due
  <2>6. rule \in Due(i, price)
    BY <1>9, <2>5, LowestTargetExists DEF FirstDue
  <2>7. i.booking.enabled /\ rule.target \notin i.executed
    BY <2>6 DEF Due
  <2>8. i.booking.given
    BY <2>4, <2>7, DocumentFacts
  <2> HIDE DEF rule, m, n, i, f
  <2>9. r.booking.given => n.booking = r.booking /\ r.executed \subseteq n.executed
    BY <1>5, <2>3
  <2>10. ASSUME NEW t \in RuleSelling(s, price)
         PROVE  n.booking.given /\ t \in n.executed /\ (r.booking.given => t \notin r.executed)
    <3>1. t = rule.target
      BY <2>1
    <3> QED
      BY <1>5, <2>3, <2>7, <2>8, <3>1
  <2> QED
    BY <2>9, <2>10 DEF n
<1> QED
  BY <1>6, <1>7, <1>8, <1>9

\* Where the row that changes keeps its rules, every row does.
LEMMA OneRowBooking ==
    ASSUME IInv, NEW s \in Symbols, NEW n, row' = [row EXCEPT ![s] = n], SameBooking(n, row[s])
    PROVE  \A o \in Symbols : SameBooking(row'[o], row[o])
BY DEF IInv, TypeOK, SameBooking

\* A step that sells by no rule, and takes no document of a row away.
LEMMA NoRuleSells ==
    ASSUME IInv, SalesRemembered, UNCHANGED fired,
           \A s \in Symbols : choice'[s].rules = choice[s].rules,
           \A s \in Symbols : SameBooking(row'[s], row[s])
    PROVE  SalesRemembered'
BY DEF SalesRemembered, Remembered, SameBooking

\* Every operation of the tracker remembers the sales.
LEMMA NextRemembers ==
    ASSUME IInv, SalesRemembered, Next
    PROVE  SalesRemembered'
<1>1. ASSUME NEW s \in Symbols, NEW order \in {"BUY", "SELL"}, NEW q \in Quantities,
             NEW p \in Prices, ProcessOrderFill(s, order, q, p)
      PROVE  SalesRemembered'
  <2>1. CASE OpenRow(s, order, q, p)
    <3>1. fired' = [fired EXCEPT ![s] = [t \in Targets |-> 0]]
      BY <2>1 DEF OpenRow
    <3>2. \A t \in Targets : fired'[s][t] = 0
      BY <3>1 DEF IInv, TypeOK
    <3>3. \A o \in Symbols \ {s} :
             row'[o] = row[o] /\ fired'[o] = fired[o] /\ choice'[o] = choice[o]
      BY <2>1 DEF OpenRow, IInv, TypeOK
    <3> QED
      BY <3>2, <3>3 DEF SalesRemembered, Remembered
  <2>2. CASE AddToRow(s, order, q, p) \/ CloseByFill(s, order, q, p)
    <3>1. row[s] \in Row
      BY DEF IInv, TypeOK
    <3>2. \A o \in Symbols : SameBooking(row'[o], row[o])
      BY <2>2, <3>1, BookingKept, OneRowBooking DEF AddToRow, CloseByFill
    <3> QED
      BY <2>2, <3>2, NoRuleSells DEF AddToRow, CloseByFill
  <2> QED
    BY <1>1, <2>1, <2>2 DEF ProcessOrderFill
<1>2. ASSUME NEW price \in [Symbols -> Prices \cup {0}], CheckExits(price)
      PROVE  SalesRemembered'
  <2> SUFFICES ASSUME NEW s \in Symbols, NEW t \in Targets, ~choice'[s].rules
               PROVE  /\ fired'[s][t] <= 1
                      /\ fired'[s][t] = 1 => row'[s].booking.given /\ t \in row'[s].executed
    BY DEF SalesRemembered, Remembered
  <2>1. price[s] \in Int
    <3>1. Prices \cup {0} \subseteq Int
      BY PricesArePositive
    <3> QED
      BY <3>1
  <2>2. /\ row'[s] = AfterCheck(s, price[s]) /\ choice' = choice
        /\ fired'[s][t] = fired[s][t] + (IF t \in RuleSelling(s, price[s]) THEN 1 ELSE 0)
    BY <1>2 DEF CheckExits
  <2>3. fired[s][t] \in Nat /\ Remembered(s, t)
    BY DEF IInv, TypeOK, SalesRemembered
  <2>4. CASE t \in RuleSelling(s, price[s])
    <3>1. /\ row'[s].booking.given /\ t \in row'[s].executed
          /\ row[s].booking.given => t \notin row[s].executed
      BY <2>1, <2>2, <2>4, CheckRemembers
    <3>2. fired[s][t] = 0
      BY <2>2, <2>3, <3>1 DEF Remembered
    <3> QED
      BY <2>2, <2>4, <3>1, <3>2
  <2>5. CASE t \notin RuleSelling(s, price[s])
    <3>1. row[s].booking.given => row'[s].booking = row[s].booking
                                  /\ row[s].executed \subseteq row'[s].executed
      BY <2>1, <2>2, CheckRemembers
    <3> QED
      BY <2>2, <2>3, <2>5, <3>1 DEF Remembered
  <2> QED
    BY <2>4, <2>5
<1>3. ASSUME NEW s \in Symbols, NEW q \in Quantities, NEW p \in Prices, UserClose(s, q, p)
      PROVE  SalesRemembered'
  <2>1. row[s] \in Row
    BY DEF IInv, TypeOK
  <2>2. \A o \in Symbols : SameBooking(row'[o], row[o])
    BY <1>3, <2>1, BookingKept, OneRowBooking DEF UserClose
  <2> QED
    BY <1>3, <2>2, NoRuleSells DEF UserClose
<1>4. CASE UserEdits
  <2>1. ASSUME NEW s \in Symbols, UpdateTrailingStop(s) PROVE SalesRemembered'
    <3>1. row[s] \in Row
      BY DEF IInv, TypeOK
    <3>2. \A t \in Symbols : SameBooking(row'[t], row[t])
      <4>1. ASSUME NEW pct \in UserPcts, EnableTrailing(s, pct)
            PROVE  \A t \in Symbols : SameBooking(row'[t], row[t])
        BY <3>1, <4>1 DEF EnableTrailing, IInv, TypeOK, SameBooking, Row
      <4>2. CASE DisableTrailing(s)
        BY <3>1, <4>2 DEF DisableTrailing, IInv, TypeOK, SameBooking, Row
      <4> QED
        BY <2>1, <4>1, <4>2 DEF UpdateTrailingStop
    <3> QED
      BY <2>1, <3>2, NoRuleSells DEF UpdateTrailingStop, EnableTrailing, DisableTrailing
  <2>2. ASSUME NEW s \in Symbols, NEW on \in BOOLEAN, UpdateProfitLock(s, on) PROVE SalesRemembered'
    <3>1. \A t \in Symbols : SameBooking(row'[t], row[t])
      BY <2>2 DEF UpdateProfitLock, IInv, TypeOK, SameBooking, Row
    <3>2. \A t \in Symbols : choice'[t].rules = choice[t].rules
      BY <2>2 DEF UpdateProfitLock, IInv, TypeOK, Choice
    <3> QED
      BY <2>2, <3>1, <3>2, NoRuleSells DEF UpdateProfitLock
  <2> QED
    BY <1>4, <2>1, <2>2 DEF UserEdits
<1>5. ASSUME NEW s \in Symbols, NEW doc \in Documents, UpdateProfitBookingRules(s, doc)
      PROVE  SalesRemembered'
  <2>1. /\ fired' = fired /\ choice'[s].rules
        /\ \A o \in Symbols \ {s} : row'[o] = row[o] /\ choice'[o] = choice[o]
    BY <1>5 DEF UpdateProfitBookingRules, IInv, TypeOK, Choice
  <2> QED
    BY <2>1 DEF SalesRemembered, Remembered
<1>6. CASE \/ \E cfg \in Strategies : UpdateStrategy(cfg)
           \/ \E dropped \in SUBSET Symbols : SyncScreener(dropped)
  BY <1>6, NoRuleSells DEF UpdateStrategy, SyncScreener, SameBooking
<1> QED
  BY <1>1, <1>2, <1>3, <1>4, <1>5, <1>6 DEF Next

-----------------------------------------------------------------------------
(* Stops *)

\* A higher price has no lower stop, and a positive one no negative.
LEMMA StopLevelMonotone ==
    ASSUME NEW side \in Sides, NEW x \in Int, NEW y \in Int, 0 < y, y <= x,
           NEW pct \in Nat, pct <= 100
    PROVE  /\ 0 <= StopLevel(side, y, pct) /\ StopLevel(side, y, pct) <= StopLevel(side, x, pct)
           /\ side = "SHORT" => StopLevel(side, y, pct) > 0
<1>1. ASSUME NEW a \in Int, NEW b \in Int, 0 <= a, a <= b
      PROVE  0 <= RoundDiv(a, 100) /\ RoundDiv(a, 100) <= RoundDiv(b, 100)
  BY <1>1 DEF RoundDiv
<1>2. ASSUME NEW a \in Int, 100 <= a
      PROVE  RoundDiv(a, 100) > 0
  BY <1>2 DEF RoundDiv
<1>3. ASSUME NEW k \in Nat
      PROVE  /\ x * k \in Int /\ y * k \in Int
             /\ 0 <= y * k /\ y * k <= x * k /\ k <= y * k
  OBVIOUS
<1>4. 100 - pct \in Nat /\ 100 + pct \in Nat
  OBVIOUS
<1>5. CASE side = "LONG"
  BY <1>1, <1>3, <1>4, <1>5 DEF StopLevel
<1>6. CASE side = "SHORT"
  <2>1. /\ y * (100 + pct) \in Int /\ x * (100 + pct) \in Int
        /\ 0 <= y * (100 + pct) /\ y * (100 + pct) <= x * (100 + pct) /\ 100 <= y * (100 + pct)
    BY <1>3, <1>4
  <2> QED
    BY <1>1, <1>2, <1>6, <2>1 DEF StopLevel
<1> QED
  BY <1>5, <1>6 DEF Sides

\* An open row's stops: a row that trails by its own percentage has its stop
\* at that distance from its best price, and one that is not locked has no
\* locked price.
StopFits(r) ==
    /\ r.entry > 0 /\ r.best >= 0 /\ r.trailPct <= 100
    /\ r.trailStop >= 0 /\ r.lockPrice >= 0
    /\ ~r.locked => r.lockPrice = 0
    /\ r.trailOn /\ r.trailPct # 0 =>
          r.best > 0 /\ r.trailStop = StopLevel(r.side, r.best, r.trailPct)

StopsFit == \A s \in Symbols : IsOpen(row[s]) => StopFits(row[s])

\* Neither stop of one row gives ground to the other's.
Holds(before, after) ==
    /\ ~GivesGround(before.side, before.trailStop, after.trailStop)
    /\ ~GivesGround(before.side, before.lockPrice, after.lockPrice)

\* The percentages a strategy and its user set are below a hundred.
PctsFit(cfg) == cfg.trailPct <= 100

\* The trailing stop of a new row, if it has one, is at its level.
LEMMA NewRowStops ==
    ASSUME NEW cfg \in Strategy, PctsFit(cfg), NEW side \in Sides, NEW q \in Nat \ {0},
           NEW p \in Nat \ {0}
    PROVE  StopFits(NewRow(cfg, side, q, p))
<1>1. 0 <= StopLevel(side, p, cfg.trailPct) /\ cfg.trailPct \in Nat
  BY StopLevelMonotone DEF PctsFit, Strategy
<1> QED
  BY <1>1 DEF NewRow, StopFits, PctsFit

\* Averaging moves the trailing stop on to the better price, if at all.
LEMMA AveragedStops ==
    ASSUME NEW r \in Row, StopFits(r), NEW q \in Nat \ {0}, NEW p \in Nat \ {0}
    PROVE  StopFits(Averaged(r, q, p)) /\ Holds(r, Averaged(r, q, p))
<1> DEFINE qty == r.remaining + q
           cost == r.entry * r.remaining + p * q
           avg == RoundDiv(cost, qty)
           best == IF r.best = 0 \/ Beats(r.side, avg, r.best) THEN avg ELSE r.best
           stop == StopLevel(r.side, best, r.trailPct)
           n == Averaged(r, q, p)
<1>1. /\ r.remaining \in Nat /\ r.entry \in Int /\ r.side \in Sides
      /\ r.best \in Int /\ r.trailPct \in Nat /\ r.trailStop \in Int /\ r.lockPrice \in Int
  BY DEF Row
<1>2. qty \in Nat \ {0} /\ cost \in Int /\ qty <= cost
  <2>1. r.remaining <= r.entry * r.remaining /\ r.entry * r.remaining \in Int
    BY <1>1 DEF StopFits
  <2>2. q <= p * q /\ p * q \in Int
    OBVIOUS
  <2> QED
    BY <1>1, <2>1, <2>2
<1>3. avg \in Int /\ avg > 0
  <2> HIDE DEF qty, cost
  <2>1. /\ avg \in Int /\ 2 * (avg * qty - cost) <= qty
        /\ -2 * (avg * qty - cost) <= qty
    BY <1>2, RoundDivFacts
  <2> HIDE DEF avg
  <2>2. avg * qty \in Int /\ avg * qty > 0
    BY <1>2, <2>1
  <2> QED
    BY <1>2, <2>1, <2>2
<1> HIDE DEF qty, cost, avg
<1>4. best \in Int /\ best > 0
  BY <1>1, <1>3 DEF StopFits
<1>5. CASE r.trailOn /\ r.trailPct # 0
  <2>1. n = [r EXCEPT !.entryQty = qty, !.remaining = qty, !.entry = avg,
                      !.best = best, !.trailStop = stop]
    BY <1>5 DEF Averaged, Row, qty, cost, avg
  <2>2. r.best > 0 /\ r.trailStop = StopLevel(r.side, r.best, r.trailPct)
    BY <1>5 DEF StopFits
  <2>3. IF r.side = "LONG" THEN r.best <= best ELSE best <= r.best
    BY <1>1, <1>3, <2>2 DEF Beats
  <2> HIDE DEF best
  <2>4. /\ stop \in Int /\ 0 <= stop
        /\ IF r.side = "LONG" THEN r.trailStop <= stop ELSE stop <= r.trailStop /\ stop > 0
    <3>1. stop \in Int
      BY <1>1, <1>4, StopLevelInt
    <3>2. CASE r.side = "LONG"
      BY <1>1, <1>4, <2>2, <2>3, <3>1, <3>2, StopLevelMonotone DEF StopFits
    <3>3. CASE r.side = "SHORT"
      BY <1>1, <1>4, <2>2, <2>3, <3>1, <3>3, StopLevelMonotone DEF StopFits
    <3> QED
      BY <1>1, <3>1, <3>2, <3>3 DEF Sides
  <2>5. n.lockPrice = r.lockPrice /\ n.trailStop = stop /\ n.side = r.side /\ n.best = best
        /\ n.entry = avg /\ n.locked = r.locked /\ n.trailPct = r.trailPct /\ n.trailOn = r.trailOn
    BY <2>1 DEF Row
  <2> HIDE DEF n, stop
  <2>6. StopFits(n)
    BY <1>3, <1>4, <2>4, <2>5 DEF StopFits, stop
  <2>7. Holds(r, n)
    BY <1>1, <2>4, <2>5 DEF Holds, GivesGround, Beats, StopFits
  <2> QED
    BY <2>6, <2>7 DEF n
<1>6. CASE ~(r.trailOn /\ r.trailPct # 0)
  <2>1. n = [r EXCEPT !.entryQty = qty, !.remaining = qty, !.entry = avg]
    BY <1>6 DEF Averaged, Row, qty, cost, avg
  <2> HIDE DEF n
  <2>2. n.lockPrice = r.lockPrice /\ n.trailStop = r.trailStop /\ n.side = r.side /\ n.best = r.best
        /\ n.entry = avg /\ n.locked = r.locked /\ n.trailPct = r.trailPct /\ n.trailOn = r.trailOn
    BY <2>1 DEF Row
  <2>3. StopFits(n)
    BY <1>3, <2>2 DEF StopFits
  <2>4. Holds(r, n)
    BY <1>1, <2>2 DEF Holds, GivesGround, Beats, StopFits
  <2> QED
    BY <2>3, <2>4 DEF n
<1> QED
  BY <1>5, <1>6

\* Two rows with the same stops, at the same entry price.
SameStops(a, b) ==
    /\ a.side = b.side /\ a.entry = b.entry /\ a.best = b.best
    /\ a.trailOn = b.trailOn /\ a.trailPct = b.trailPct /\ a.trailStop = b.trailStop
    /\ a.locked = b.locked /\ a.lockPrice = b.lockPrice

\* Rows with the same stops fit alike, and neither gives ground to the other.
LEMMA SameStopsFacts ==
    ASSUME NEW a \in Row, NEW b \in Row, NEW r, SameStops(a, b)
    PROVE  /\ StopFits(b) => StopFits(a)
           /\ Holds(r, b) => Holds(r, a)
           /\ Holds(b, a)
<1>1. b.trailStop \in Int /\ b.lockPrice \in Int
  BY DEF Row
<1>2. Holds(b, a)
  BY <1>1 DEF SameStops, Holds, GivesGround, Beats
<1> QED
  BY <1>2 DEF SameStops, StopFits, Holds

\* A sale leaves the stops, and so does looking at the booking rules.
LEMMA SaleStops ==
    ASSUME NEW r \in Row, NEW cfg, NEW q, NEW p
    PROVE  SameStops(Reduced(r, q, p), r) /\ SameStops(Inheriting(r, cfg), r)
BY DEF SameStops, Reduced, Inheriting, Row

\* The locked price only ratchets.
LEMMA LockStops ==
    ASSUME NEW r \in Row, StopFits(r), NEW cfg \in Strategy, PctsFit(cfg),
           NEW price \in Nat \ {0}
    PROVE  StopFits(LockChecked(r, cfg, price)) /\ Holds(r, LockChecked(r, cfg, price))
<1> DEFINE pct == IF r.trailPct # 0 THEN r.trailPct ELSE cfg.trailPct
           level == IF pct # 0 THEN StopLevel(r.side, price, pct) ELSE price
           n == LockChecked(r, cfg, price)
<1>1. /\ r.side \in Sides /\ r.trailStop \in Int /\ r.lockPrice \in Int
      /\ pct \in Nat /\ pct <= 100
  BY DEF Row, Strategy, StopFits, PctsFit
<1>2. level \in Int /\ 0 <= level /\ (r.side = "SHORT" => level > 0)
  <2> HIDE DEF pct
  <2> QED
    BY <1>1, StopLevelMonotone, StopLevelInt
<1>3. \/ n = r
      \/ /\ n = [r EXCEPT !.locked = TRUE, !.lockPrice = level]
         /\ ~r.locked \/ r.lockPrice = 0 \/ Beats(r.side, level, r.lockPrice)
  BY DEF LockChecked
<1> HIDE DEF level, n
<1>4. CASE n = r
  BY <1>1, <1>4 DEF Holds, GivesGround, Beats, n
<1>5. CASE n # r
  <2>1. r.lockPrice = 0 \/ Beats(r.side, level, r.lockPrice)
    BY <1>3, <1>5 DEF StopFits
  <2>2. /\ n.side = r.side /\ n.entry = r.entry /\ n.best = r.best
        /\ n.trailOn = r.trailOn /\ n.trailPct = r.trailPct /\ n.trailStop = r.trailStop
        /\ n.locked = TRUE /\ n.lockPrice = level
    BY <1>3, <1>5 DEF Row
  <2>3. StopFits(n)
    BY <1>2, <2>2 DEF StopFits
  <2>4. Holds(r, n)
    BY <1>1, <1>2, <2>1, <2>2 DEF Holds, GivesGround, Beats, StopFits, Sides
  <2> QED
    BY <2>3, <2>4 DEF n
<1> QED
  BY <1>4, <1>5

\* The trailing stop follows the best price, and only that.
LEMMA TrailStops ==
    ASSUME NEW r \in Row, StopFits(r), NEW cfg \in Strategy, PctsFit(cfg),
           NEW price \in Nat \ {0}
    PROVE  StopFits(TrailChecked(r, cfg, price)) /\ Holds(r, TrailChecked(r, cfg, price))
<1> DEFINE pct == TrailPctOf(r, cfg)
           stop == StopLevel(r.side, price, pct)
           raised == IF r.trailStop = 0 \/ Beats(r.side, stop, r.trailStop)
                     THEN stop ELSE r.trailStop
           n == TrailChecked(r, cfg, price)
<1>1. /\ r.side \in Sides /\ r.trailStop \in Int /\ r.lockPrice \in Int /\ r.best \in Int
      /\ r.trailOn \in BOOLEAN /\ r.trailPct \in Nat
  BY DEF Row
<1>2. pct \in Nat /\ pct <= 100
  BY DEF Row, Strategy, StopFits, PctsFit, TrailPctOf
<1>3. stop \in Int /\ 0 <= stop /\ (r.side = "SHORT" => stop > 0)
  <2> HIDE DEF pct
  <2> QED
    BY <1>1, <1>2, StopLevelMonotone, StopLevelInt
<1>4. \/ n = r
      \/ /\ n = [r EXCEPT !.best = price, !.trailStop = raised]
         /\ TrailsOn(r, cfg) /\ pct # 0 /\ (r.best = 0 \/ Beats(r.side, price, r.best))
  BY DEF TrailChecked
<1>5. raised \in Int /\ raised >= 0
  <2> HIDE DEF stop
  <2> QED
    BY <1>1, <1>3 DEF StopFits
<1>6. ~GivesGround(r.side, r.trailStop, raised)
  <2> HIDE DEF stop
  <2>1. CASE r.trailStop = 0
    BY <2>1 DEF GivesGround
  <2>2. CASE r.trailStop # 0 /\ Beats(r.side, stop, r.trailStop)
    BY <1>1, <1>3, <2>2 DEF GivesGround, Beats, StopFits, Sides
  <2>3. CASE r.trailStop # 0 /\ ~Beats(r.side, stop, r.trailStop)
    BY <1>1, <2>3 DEF GivesGround, Beats
  <2> QED
    BY <2>1, <2>2, <2>3
<1>7. CASE n = r
  <2> HIDE DEF n
  <2> QED
    BY <1>1, <1>7 DEF Holds, GivesGround, Beats, n
<1>8. CASE n # r
  <2>1. /\ n.side = r.side /\ n.entry = r.entry /\ n.best = price
        /\ n.trailOn = r.trailOn /\ n.trailPct = r.trailPct /\ n.trailStop = raised
        /\ n.locked = r.locked /\ n.lockPrice = r.lockPrice
    <3> HIDE DEF n, raised
    <3> QED
      BY <1>4, <1>8 DEF Row
  <2>2. ASSUME r.trailOn, r.trailPct # 0 PROVE raised = StopLevel(r.side, price, r.trailPct)
    <3>1. pct = r.trailPct /\ r.best > 0 /\ r.trailStop = StopLevel(r.side, r.best, pct)
      BY <1>1, <2>2 DEF TrailPctOf, StopFits
    <3>2. Beats(r.side, price, r.best)
      <4> HIDE DEF n, raised, pct
      <4> QED
        BY <1>1, <1>4, <1>8, <3>1
    <3> HIDE DEF pct
    <3>3. CASE r.side = "LONG"
      <4>1. r.best <= price
        BY <1>1, <3>2, <3>3 DEF Beats
      <4>2. r.trailStop <= stop
        BY <1>1, <1>2, <3>1, <3>3, <4>1, StopLevelMonotone
      <4> HIDE DEF stop
      <4>3. raised = stop
        BY <1>1, <1>3, <3>3, <4>2 DEF Beats
      <4> QED
        BY <3>1, <4>3 DEF stop
    <3>4. CASE r.side = "SHORT"
      <4>1. price <= r.best
        BY <1>1, <3>2, <3>4 DEF Beats
      <4>2. stop <= r.trailStop
        BY <1>1, <1>2, <3>1, <3>4, <4>1, StopLevelMonotone
      <4> HIDE DEF stop
      <4>3. raised = stop
        BY <1>1, <1>3, <3>4, <4>2 DEF Beats
      <4> QED
        BY <3>1, <4>3 DEF stop
    <3> QED
      BY <1>1, <3>3, <3>4 DEF Sides
  <2> HIDE DEF n, raised
  <2>3. StopFits(n)
    BY <1>1, <1>5, <2>1, <2>2 DEF StopFits
  <2>4. Holds(r, n)
    BY <1>1, <1>6, <2>1 DEF Holds, GivesGround, Beats
  <2> QED
    BY <2>3, <2>4 DEF n
<1> QED
  BY <1>7, <1>8

\* Nothing gives ground over two steps that do not.
LEMMA HoldsTransitive ==
    ASSUME NEW a \in Row, NEW b \in Row, NEW c \in Row, a.side = b.side, Holds(a, b), Holds(b, c)
    PROVE  Holds(a, c)
<1>1. \A r \in Row : r.trailStop \in Int /\ r.lockPrice \in Int
  BY DEF Row
<1> QED
  BY <1>1 DEF Holds, GivesGround, Beats

\* A price check leaves the stops of the row it does not close fitting, and
\* none of them gives ground.
LEMMA CheckedStops ==
    ASSUME NEW r \in Row, IsOpen(r), FitsStatus(r), StopFits(r), NEW cfg \in Strategy, PctsFit(cfg),
           NEW price \in Nat \ {0}
    PROVE  StopFits(Checked(r, cfg, price)) /\ Holds(r, Checked(r, cfg, price))
<1> DEFINE l == LockChecked(r, cfg, price)
           f == Refreshed(r, cfg, price)
           i == Inheriting(f, cfg)
           n == Checked(r, cfg, price)
<1>1. l \in Row /\ l.side = r.side
  BY LockCheckedRow
<1>2. StopFits(l) /\ Holds(r, l)
  BY LockStops
<1>3. f \in Row /\ f = TrailChecked(l, cfg, price)
  BY RefreshedFacts DEF Refreshed
<1>4. StopFits(f) /\ Holds(l, f)
  <2> HIDE DEF l
  <2> QED
    BY <1>1, <1>2, <1>3, TrailStops
<1>5. Holds(r, f)
  <2> HIDE DEF l, f
  <2> QED
    BY <1>1, <1>2, <1>3, <1>4, HoldsTransitive
<1>6. i \in Row /\ SameStops(i, f)
  <2> HIDE DEF f
  <2> QED
    BY <1>3, SaleStops, InheritingFacts
<1>7. n \in Row
  BY CheckedFacts
<1>8. SameStops(n, f)
  <2>1. CASE StopHit(f, cfg, price) \/ TargetHit(f, price)
    <3>1. n = Reduced(f, f.remaining, ExitPrice(r, cfg, price))
      BY <2>1 DEF Checked
    <3> HIDE DEF n, f
    <3> QED
      BY <1>3, <3>1, SaleStops
  <2>2. CASE ~(StopHit(f, cfg, price) \/ TargetHit(f, price)) /\ Due(i, price) # {}
    <3> DEFINE rule == FirstDue(i, price)
               m == Reduced(i, SellQty(i, rule), price)
    <3>1. n = [m EXCEPT !.executed = @ \cup {rule.target}]
      BY <2>2 DEF Checked, Booked
    <3> HIDE DEF i, f, n
    <3>2. SameStops(m, i)
      BY <1>6, SaleStops
    <3>3. SameStops(n, m)
      BY <1>6, <3>1 DEF Reduced, Row, SameStops
    <3> HIDE DEF m
    <3> QED
      BY <1>6, <3>2, <3>3 DEF SameStops
  <2>3. CASE ~(StopHit(f, cfg, price) \/ TargetHit(f, price)) /\ Due(i, price) = {}
    <3>1. n = i
      BY <2>3 DEF Checked
    <3> QED
      BY <1>6, <3>1
  <2> QED
    BY <2>1, <2>2, <2>3
<1> HIDE DEF n, f
<1> QED
  BY <1>3, <1>4, <1>5, <1>7, <1>8, SameStopsFacts DEF n

\* A percentage above a hundred puts a long row's stop below nothing, where it
\* falls as the price rises; the code does not refuse one.
PctsAreSane ==
    /\ \A cfg \in Strategies : PctsFit(cfg)
    /\ \A pct \in UserPcts : pct <= 100

\* A step that leaves every row open whose stops gave no ground.
Tight == \A s \in Symbols : IsOpen(row[s]) /\ IsOpen(row'[s]) => Holds(row[s], row'[s])

\* A row that does not change gives no ground.
LEMMA HoldsSame ==
    ASSUME NEW r \in Row
    PROVE  Holds(r, r)
<1>1. r.trailStop \in Int /\ r.lockPrice \in Int
  BY DEF Row
<1> QED
  BY <1>1 DEF Holds, GivesGround, Beats

\* Where the stops of the row that changes fit, all fit; where it gives no ground,
\* none does.
LEMMA OneRowStops ==
    ASSUME IInv, StopsFit, NEW s \in Symbols, NEW n, row' = [row EXCEPT ![s] = n],
           IsOpen(n) => StopFits(n)
    PROVE  /\ StopsFit'
           /\ (IsOpen(row[s]) /\ IsOpen(n) => Holds(row[s], n)) => Tight
<1>1. row'[s] = n /\ \A o \in Symbols \ {s} : row'[o] = row[o] /\ row[o] \in Row
  BY DEF IInv, TypeOK
<1>2. StopsFit'
  BY <1>1 DEF StopsFit
<1>3. \A o \in Symbols \ {s} : Holds(row[o], row'[o])
  BY <1>1, HoldsSame
<1> QED
  BY <1>1, <1>2, <1>3 DEF Tight

\* A sale leaves the row's stops as they are.
LEMMA SaleKeepsStops ==
    ASSUME IInv, StopsFit, NEW s \in Symbols, NEW q, NEW p, IsOpen(row[s]),
           row' = [row EXCEPT ![s] = Reduced(@, q, p)]
    PROVE  StopsFit' /\ Tight
<1> DEFINE n == Reduced(row[s], q, p)
<1>1. row[s] \in Row /\ row' = [row EXCEPT ![s] = n]
  BY DEF IInv, TypeOK
<1>2. SameStops(n, row[s])
  BY <1>1, SaleStops
<1> HIDE DEF n
<1>3. StopFits(n)
  BY <1>2 DEF StopsFit, SameStops, StopFits
<1>4. Holds(row[s], n)
  BY <1>1, <1>2, HoldsSame DEF Holds, SameStops
<1> QED
  BY <1>1, <1>3, <1>4, OneRowStops

\* Every operation keeps the stops fitting, and but for the user's edits of a
\* row none gives ground.
LEMMA NextStops ==
    ASSUME PctsAreSane, IInv, StopsFit, Next
    PROVE  StopsFit' /\ (UserEdits \/ Tight)
<1>1. ASSUME NEW s \in Symbols, NEW order \in {"BUY", "SELL"}, NEW q \in Quantities,
             NEW p \in Prices, ProcessOrderFill(s, order, q, p)
      PROVE  StopsFit' /\ Tight
  <2>1. q \in Nat \ {0} /\ p \in Nat \ {0} /\ row[s] \in Row
    BY SizesAreNatural, PricesArePositive DEF IInv, TypeOK
  <2>2. CASE OpenRow(s, order, q, p)
    <3>1. strategy \in Strategy /\ PctsFit(strategy) /\ SideOpenedBy(order) \in Sides
      BY StrategiesAreStrategies DEF PctsAreSane, IInv, TypeOK, SideOpenedBy, Sides
    <3>2. StopFits(NewRow(strategy, SideOpenedBy(order), q, p))
      BY <2>1, <3>1, NewRowStops
    <3> QED
      BY <2>2, <3>2, OneRowStops DEF OpenRow
  <2>3. CASE AddToRow(s, order, q, p)
    <3>1. StopFits(row[s])
      BY <2>3 DEF AddToRow, StopsFit
    <3>2. StopFits(Averaged(row[s], q, p)) /\ Holds(row[s], Averaged(row[s], q, p))
      BY <2>1, <3>1, AveragedStops
    <3> QED
      BY <2>3, <3>2, OneRowStops DEF AddToRow
  <2>4. CASE CloseByFill(s, order, q, p)
    BY <2>1, <2>4, SaleKeepsStops DEF CloseByFill
  <2> QED
    BY <1>1, <2>2, <2>3, <2>4 DEF ProcessOrderFill
<1>2. ASSUME NEW price \in [Symbols -> Prices \cup {0}], CheckExits(price)
      PROVE  StopsFit' /\ Tight
  <2> SUFFICES ASSUME NEW s \in Symbols
               PROVE  /\ IsOpen(row'[s]) => StopFits(row'[s])
                      /\ IsOpen(row[s]) /\ IsOpen(row'[s]) => Holds(row[s], row'[s])
    BY DEF StopsFit, Tight
  <2>1. row'[s] = AfterCheck(s, price[s]) /\ row[s] \in Row /\ FitsStatus(row[s])
    BY <1>2 DEF CheckExits, IInv, TypeOK, QuantitiesFitStatus
  <2>2. strategy \in Strategy /\ PctsFit(strategy)
    BY StrategiesAreStrategies DEF PctsAreSane, IInv, TypeOK
  <2>3. CASE IsOpen(row[s]) /\ price[s] # 0
    <3>1. price[s] \in Nat \ {0} /\ StopFits(row[s])
      BY <2>3, PricesArePositive DEF StopsFit
    <3> QED
      BY <2>1, <2>2, <2>3, <3>1, CheckedStops DEF AfterCheck
  <2>4. CASE ~(IsOpen(row[s]) /\ price[s] # 0)
    BY <2>1, <2>4, HoldsSame DEF AfterCheck, StopsFit
  <2> QED
    BY <2>3, <2>4
<1>3. ASSUME NEW s \in Symbols, NEW q \in Quantities, NEW p \in Prices, UserClose(s, q, p)
      PROVE  StopsFit' /\ Tight
  <2>1. row[s] \in Row
    BY DEF IInv, TypeOK
  <2> QED
    BY <1>3, <2>1, SaleKeepsStops DEF UserClose
<1>4. CASE UserEdits
  <2>1. ASSUME NEW s \in Symbols, NEW pct \in UserPcts, EnableTrailing(s, pct) PROVE StopsFit'
    <3> DEFINE best == IF row[s].best = 0 THEN row[s].entry ELSE row[s].best
               stop == StopLevel(row[s].side, best, pct)
               n == [row[s] EXCEPT !.trailOn = TRUE, !.trailPct = pct, !.best = best,
                                   !.trailStop = stop]
    <3>1. row[s] \in Row /\ pct \in Nat /\ pct <= 100
      BY PctsAreNatural DEF IInv, TypeOK, PctsAreSane
    <3>2. row' = [row EXCEPT ![s] = n]
      BY <2>1 DEF EnableTrailing, IInv, TypeOK, Row
    <3>3. ASSUME IsOpen(n) PROVE StopFits(n)
      <4>1. IsOpen(row[s])
        BY <3>1, <3>3 DEF IsOpen, Row
      <4>2. StopFits(row[s]) /\ row[s].side \in Sides /\ row[s].entry \in Int /\ row[s].best \in Int
        BY <3>1, <4>1 DEF StopsFit, Row
      <4>3. best \in Int /\ best > 0
        BY <4>2 DEF StopFits
      <4>4. stop >= 0
        <5> HIDE DEF best
        <5> QED
          BY <3>1, <4>2, <4>3, StopLevelMonotone, StopLevelInt
      <4>5. /\ n.side = row[s].side /\ n.entry = row[s].entry /\ n.best = best
            /\ n.trailPct = pct /\ n.trailStop = stop
            /\ n.locked = row[s].locked /\ n.lockPrice = row[s].lockPrice
        <5> HIDE DEF best, stop
        <5> QED
          BY <3>1 DEF Row
      <4> HIDE DEF n, best
      <4> QED
        BY <3>1, <4>2, <4>3, <4>4, <4>5 DEF StopFits
    <3> HIDE DEF n
    <3> QED
      BY <3>2, <3>3, OneRowStops
  <2>2. ASSUME NEW s \in Symbols, DisableTrailing(s) PROVE StopsFit'
    <3> DEFINE n == [row[s] EXCEPT !.trailOn = FALSE, !.trailPct = 0, !.trailStop = 0]
    <3>1. row' = [row EXCEPT ![s] = n] /\ row[s] \in Row
      BY <2>2 DEF DisableTrailing, IInv, TypeOK, Row
    <3>2. IsOpen(n) => StopFits(n)
      BY <3>1 DEF StopsFit, IsOpen, Row, StopFits
    <3> HIDE DEF n
    <3> QED
      BY <3>1, <3>2, OneRowStops
  <2>3. ASSUME NEW s \in Symbols, NEW on \in BOOLEAN, UpdateProfitLock(s, on) PROVE StopsFit'
    <3> DEFINE locked == IF on THEN row[s].locked ELSE FALSE
               lockPrice == IF on THEN row[s].lockPrice ELSE 0
               n == [row[s] EXCEPT !.lockOn = on, !.locked = locked, !.lockPrice = lockPrice]
    <3>1. row' = [row EXCEPT ![s] = n] /\ row[s] \in Row
      BY <2>3 DEF UpdateProfitLock, IInv, TypeOK, Row
    <3>2. ASSUME IsOpen(n) PROVE StopFits(n)
      <4>1. /\ n.side = row[s].side /\ n.entry = row[s].entry /\ n.best = row[s].best
            /\ n.trailOn = row[s].trailOn /\ n.trailPct = row[s].trailPct
            /\ n.trailStop = row[s].trailStop /\ n.status = row[s].status
            /\ n.locked = locked /\ n.lockPrice = lockPrice
        <5> HIDE DEF locked, lockPrice
        <5> QED
          BY <3>1 DEF Row
      <4> HIDE DEF n
      <4>2. StopFits(row[s])
        BY <3>2, <4>1 DEF StopsFit, IsOpen
      <4> QED
        BY <4>1, <4>2 DEF StopFits
    <3> HIDE DEF n
    <3> QED
      BY <3>1, <3>2, OneRowStops
  <2> QED
    BY <1>4, <2>1, <2>2, <2>3 DEF UserEdits, UpdateTrailingStop
<1>5. ASSUME NEW s \in Symbols, NEW doc \in Documents, UpdateProfitBookingRules(s, doc)
      PROVE  StopsFit' /\ Tight
  <2> DEFINE n == [row[s] EXCEPT !.booking = doc, !.executed = {}]
  <2>1. row' = [row EXCEPT ![s] = n] /\ row[s] \in Row
    BY <1>5 DEF UpdateProfitBookingRules, IInv, TypeOK, Row
  <2>2. /\ n.side = row[s].side /\ n.entry = row[s].entry /\ n.best = row[s].best
        /\ n.trailOn = row[s].trailOn /\ n.trailPct = row[s].trailPct
        /\ n.trailStop = row[s].trailStop /\ n.status = row[s].status
        /\ n.locked = row[s].locked /\ n.lockPrice = row[s].lockPrice
    BY <2>1 DEF Row
  <2> HIDE DEF n
  <2>3. IsOpen(n) => StopFits(n)
    BY <2>2 DEF StopsFit, StopFits, IsOpen
  <2>4. Holds(row[s], n)
    BY <2>1, <2>2, HoldsSame DEF Holds
  <2> QED
    BY <2>1, <2>3, <2>4, OneRowStops
<1>6. CASE \/ \E cfg \in Strategies : UpdateStrategy(cfg)
           \/ \E dropped \in SUBSET Symbols : SyncScreener(dropped)
  <2>1. row' = row
    BY <1>6 DEF UpdateStrategy, SyncScreener
  <2> QED
    BY <2>1, HoldsSame DEF StopsFit, Tight, IInv, TypeOK
<1> QED
  BY <1>1, <1>2, <1>3, <1>4, <1>5, <1>6 DEF Next

-----------------------------------------------------------------------------
(* Theorems *)

\* A profit booking rule sells at most once from a row whose rules the user has
\* not saved, whatever the prices do and however the strategy is edited.
THEOREM RulesSellOnce == Spec => []RuleSellsOnce
<1>1. Init => SalesRemembered
  BY DEF Init, SalesRemembered, Remembered
<1>2. IInv /\ SalesRemembered /\ [Next]_vars => SalesRemembered'
  <2>1. SalesRemembered /\ UNCHANGED vars => SalesRemembered'
    BY DEF vars, SalesRemembered, Remembered
  <2> QED
    BY <2>1, NextRemembers
<1>3. SalesRemembered => RuleSellsOnce
  BY DEF SalesRemembered, Remembered, RuleSellsOnce
<1> QED
  BY <1>1, <1>2, <1>3, InductiveInvariant, PTL DEF Spec

\* Where no percentage passes a hundred, neither the trailing stop nor the
\* profit lock of an open row gives ground except where the user edits that
\* row, for all prices, quantities and settings.
THEOREM StopsTighten ==
    ASSUME PctsAreSane
    PROVE  Spec => StopsOnlyTighten
<1>1. Init => StopsFit
  BY DEF Init, StopsFit, IsOpen, NoRow, OpenStatuses
<1>2. IInv /\ StopsFit /\ [Next]_vars => StopsFit'
  <2>1. StopsFit /\ UNCHANGED vars => StopsFit'
    BY DEF vars, StopsFit
  <2> QED
    BY <2>1, NextStops
<1>3. IInv /\ StopsFit /\ [Next]_vars => [UserEdits \/ Tight]_vars
  BY NextStops
<1> QED
  BY <1>1, <1>2, <1>3, InductiveInvariant, PTL DEF Spec, StopsOnlyTighten, Tight, Holds

=============================================================================
