-------------------------- MODULE ExecutionCycleProofs --------------------------
(***************************************************************************)
(* What ExecutionCycle guarantees of a strategy that only buys, for any    *)
(* number of symbols, any limits and any faults: its positions are never   *)
(* short, never more than it may have open, and never larger than the cap  *)
(* and the reads of them that failed allow.                                *)
(*                                                                         *)
(* The orders of a turn were sized and counted before any of them is       *)
(* booked, so the argument is about what is booked and what is still to be *)
(* booked together.                                                        *)
(***************************************************************************)
EXTENDS ExecutionCycle, FiniteSetTheorems, WellFoundedInduction, NaturalsInduction, TLAPS

-----------------------------------------------------------------------------
(* The inductive invariant *)

TypeInv ==
    /\ config \in Configs /\ row \in [Symbols -> Int] /\ held \in [Symbols -> Nat]
    /\ pc \in {"idle", "analyzing", "checking", "trading", "placing", "done"}
    /\ DOMAIN writes \subseteq Symbols /\ \A s \in DOMAIN writes : writes[s] \in Int
    /\ funds \in BOOLEAN /\ broken \in BOOLEAN
    /\ signals \subseteq Signals
    /\ IF pc = "placing" THEN order \in Orders ELSE order = NoOrder
    /\ placed \in Seq(Orders) /\ opened \in 0..Len(placed)
    /\ exited \subseteq [symbol : Symbols, left : Int]
    /\ faults \in 0..MaxFaults /\ blind \in 0..faults
    /\ pc \in {"idle", "analyzing", "checking"} => placed = <<>>
    /\ pc = "idle" => writes = NoWrites /\ ~funds /\ ~broken

\* The symbols of which this turn has bought, and of which it is about to.
Bought == {s \in Symbols : \E n \in DOMAIN placed : placed[n].symbol = s /\ placed[n].side = "BUY"}
Asked == {s \in Symbols : pc = "placing" /\ order.symbol = s /\ order.side = "BUY"}

\* What may be a position once the turn is booked.
Potential == OpenRows \cup Bought \cup Asked

\* What a position may be worth.
Cap == Shares + blind * Lot

\* Of a symbol there is one signal, or one order to buy, or neither.
OneOrderEach ==
    /\ \A g, h \in signals : g.symbol = h.symbol => g = h
    /\ \A g \in signals : g.symbol \notin Bought \cup Asked
    /\ \A m, n \in DOMAIN placed :
          placed[m].side = "BUY" /\ placed[n].side = "BUY" /\ placed[m].symbol = placed[n].symbol
              => m = n
    /\ Asked \cap Bought = {}

\* What is still to be booked fits.
OrdersFit ==
    /\ \A n \in DOMAIN placed :
          placed[n].side = "BUY" => row[placed[n].symbol] + placed[n].qty <= Cap
    /\ pc = "placing" /\ order.side = "BUY" => row[order.symbol] + order.qty <= Cap

\* Nothing is bought of a symbol that may only be sold.
OnlySold ==
    /\ \A g \in signals : g.side = "BUY" => g.symbol \notin ExitOnly
    /\ (Bought \cup Asked) \cap ExitOnly = {}

LongInv ==
    /\ \A s \in Symbols : 0 <= row[s] /\ row[s] <= Cap
    /\ \A s \in DOMAIN writes : 0 <= writes[s] /\ writes[s] <= row[s]
    /\ Cardinality(Potential) <= config.open /\ Cardinality(Bought) <= opened
    /\ OnlySold
    /\ pc \in {"checking", "trading", "placing"} => OneOrderEach /\ OrdersFit

IInv == TypeInv /\ (Direction = "LONG" => LongInv)

-----------------------------------------------------------------------------
(* What is booked *)

Rows == [Symbols -> Int]

\* A set of numbers with 0 and the successor of each of its members up to n
\* has every number up to n.
Climbs(T, n) == 0 \in T /\ \A k \in 0..n : k \in T /\ k < n => k + 1 \in T

LEMMA UpTo ==
    ASSUME NEW n \in Nat, NEW T, Climbs(T, n)
    PROVE  \A k \in 0..n : k \in T
<1> DEFINE Rest == {k \in 0..n : k \notin T}
<1> SUFFICES ASSUME Rest # {} PROVE FALSE
  OBVIOUS
<1>1. Rest \subseteq Nat
  OBVIOUS
<1>2. PICK k \in Rest : \A j \in Rest : <<j, k>> \notin OpToRel(<, Nat)
  <2> HIDE DEF Rest
  <2> QED
    BY <1>1, WFMin, NatLessThanWellFounded
<1>3. k \in 1..n /\ k \notin T
  BY DEF Climbs
<1>4. k - 1 \in 0..n /\ <<k - 1, k>> \in OpToRel(<, Nat)
  BY <1>3 DEF OpToRel
<1>5. k - 1 \in T
  BY <1>2, <1>4
<1>6. (k - 1) + 1 \in T
  <2>1. k - 1 < n
    BY <1>3
  <2> QED
    BY <1>4, <1>5, <2>1 DEF Climbs
<1>7. (k - 1) + 1 = k
  BY <1>3
<1> QED
  BY <1>3, <1>6, <1>7

\* Booking an order changes the row of its symbol only.
LEMMA BookIsRows ==
    ASSUME NEW rows \in Rows, NEW o \in Orders
    PROVE  /\ Book(rows, o) \in Rows
           /\ \A s \in Symbols : s # o.symbol => Book(rows, o)[s] = rows[s]
BY DEF Book, Rows, Orders, Least

\* A strategy that only buys gets what it buys, and sells what it has at most.
LEMMA BookLong ==
    ASSUME Direction = "LONG", NEW rows \in Rows, NEW o \in Orders, 0 <= rows[o.symbol]
    PROVE  /\ o.side = "BUY" => Book(rows, o)[o.symbol] = rows[o.symbol] + o.qty
           /\ o.side = "SELL" => /\ 0 <= Book(rows, o)[o.symbol]
                                 /\ Book(rows, o)[o.symbol] <= rows[o.symbol]
<1>1. ~MayOpen("SELL") /\ o.symbol \in Symbols /\ o.qty \in Nat /\ rows[o.symbol] \in Int
  BY DEF MayOpen, Rows, Orders
<1>2. CASE o.side = "BUY"
  <2>1. o.side # "SELL" /\ ~(rows[o.symbol] < 0) /\ MayOpen(o.side)
    BY <1>1, <1>2 DEF MayOpen
  <2>2. Book(rows, o) = [rows EXCEPT ![o.symbol] = rows[o.symbol] + o.qty]
    BY <1>2, <2>1, Zenon DEF Book
  <2> QED
    BY <1>1, <1>2, <2>2 DEF Rows
<1>3. CASE o.side = "SELL"
  <2>1. CASE rows[o.symbol] > 0
    BY <1>1, <1>3, <2>1 DEF Book, Rows, Least
  <2>2. CASE rows[o.symbol] = 0
    BY <1>1, <1>3, <2>2 DEF Book, Rows
  <2> QED
    BY <1>1, <2>1, <2>2
<1> QED
  BY <1>2, <1>3 DEF Orders

\* There are the rows after each of the orders.
LEMMA AfterEach ==
    ASSUME TypeInv
    PROVE  \A k \in 0..Len(placed) :
              After[k] = IF k = 0 THEN row ELSE Book(After[k - 1], placed[k])
<1> DEFINE n == Len(placed)
           Steps(f, m) == /\ f \in [0..m -> Rows]
                          /\ \A k \in 0..m : f[k] = IF k = 0 THEN row ELSE Book(f[k - 1], placed[k])
           T == {m \in 0..n : \E f : Steps(f, m)}
<1>1. n \in Nat /\ row \in Rows /\ \A k \in 1..n : placed[k] \in Orders
  BY DEF TypeInv, Rows
<1> HIDE DEF n
<1>2. ASSUME 0 \in 0..n PROVE 0 \in T
  <2>1. Steps([k \in 0..0 |-> row], 0)
    BY <1>1
  <2> QED
    BY <1>2, <2>1
<1>3. ASSUME NEW m \in 0..n, m \in T, m < n PROVE m + 1 \in T
  <2>1. PICK f : Steps(f, m)
    BY <1>3
  <2> DEFINE g == [k \in 0..(m + 1) |-> IF k <= m THEN f[k] ELSE Book(f[m], placed[k])]
  <2>2. Book(f[m], placed[m + 1]) \in Rows
    <3>1. f[m] \in Rows /\ placed[m + 1] \in Orders
      BY <1>1, <1>3, <2>1
    <3> QED
      BY <3>1, BookIsRows
  <2>3. g \in [0..(m + 1) -> Rows]
    BY <2>1, <2>2
  <2>4. \A k \in 0..(m + 1) : g[k] = IF k = 0 THEN row ELSE Book(g[k - 1], placed[k])
    BY <2>1
  <2>5. Steps(g, m + 1)
    BY <2>3, <2>4
  <2>6. m + 1 \in 0..n /\ \E h : Steps(h, m + 1)
    <3> HIDE DEF Steps
    <3> QED
      BY <1>1, <1>3, <2>5
  <2> QED
    BY <2>6
<1>4. n \in 0..n /\ 0 \in 0..n
  BY <1>1
<1>5. Climbs(T, n)
  <2> HIDE DEF T
  <2> QED
    BY <1>2, <1>3, <1>4 DEF Climbs
<1>6. n \in T
  <2> HIDE DEF T
  <2> QED
    BY <1>1, <1>4, <1>5, UpTo
<1>7. PICK f : Steps(f, n)
  BY <1>6
<1> DEFINE Is(g) == g = [k \in 0..n |-> IF k = 0 THEN row ELSE Book(g[k - 1], placed[k])]
<1>8. Is(f)
  BY <1>7
<1>9. Is(CHOOSE g : Is(g))
  <2> HIDE DEF Is
  <2> QED
    BY <1>8
<1>10. After = (CHOOSE g : Is(g))
  BY DEF After, n
<1>11. Is(After)
  <2> HIDE DEF Is
  <2> QED
    BY <1>9, <1>10
<1> QED
  <2> HIDE DEF n
  <2>1. \A k \in 0..n : After[k] = IF k = 0 THEN row ELSE Book(After[k - 1], placed[k])
    <3> DEFINE A == After
    <3>1. A = [k \in 0..n |-> IF k = 0 THEN row ELSE Book(A[k - 1], placed[k])]
      BY <1>11
    <3> HIDE DEF A
    <3>2. \A k \in 0..n : A[k] = IF k = 0 THEN row ELSE Book(A[k - 1], placed[k])
      BY <3>1
    <3> QED
      BY <3>2 DEF A
  <2> QED
    BY <2>1 DEF n

\* What is booked is rows.
LEMMA BookedIsRows ==
    ASSUME TypeInv
    PROVE  \A k \in 0..Len(placed) : After[k] \in Rows
<1> DEFINE n == Len(placed)
           A == After
           T == {k \in 0..n : A[k] \in Rows}
<1>1. n \in Nat /\ row \in Rows /\ \A k \in 1..n : placed[k] \in Orders
  BY DEF TypeInv, Rows
<1>2. \A k \in 0..n : A[k] = IF k = 0 THEN row ELSE Book(A[k - 1], placed[k])
  BY AfterEach
<1> HIDE DEF n, A
<1>3. 0 \in T
  BY <1>1, <1>2
<1>4. ASSUME NEW k \in 0..n, k \in T, k < n PROVE k + 1 \in T
  <2>1. A[k + 1] = Book(A[k], placed[k + 1]) /\ placed[k + 1] \in Orders /\ A[k] \in Rows
    BY <1>1, <1>2, <1>4
  <2>2. Book(A[k], placed[k + 1]) \in Rows
    BY <2>1, BookIsRows
  <2> QED
    BY <1>1, <1>4, <2>1, <2>2
<1>5. Climbs(T, n)
  <2> HIDE DEF T
  <2> QED
    BY <1>3, <1>4 DEF Climbs
<1>6. \A k \in 0..n : k \in T
  <2> HIDE DEF T
  <2> QED
    BY <1>1, <1>5, UpTo
<1> QED
  BY <1>6 DEF A, n

\* A row that is booked is no larger than before, or by what one order bought.
LEMMA BookedFits ==
    ASSUME TypeInv, Direction = "LONG", OneOrderEach, \A s \in Symbols : 0 <= row[s]
    PROVE  \A s \in Symbols :
              LET booked == After[Len(placed)][s] IN
              /\ 0 <= booked
              /\ \/ booked <= row[s]
                 \/ \E m \in DOMAIN placed :
                       /\ placed[m].side = "BUY" /\ placed[m].symbol = s
                       /\ booked <= row[s] + placed[m].qty
<1> DEFINE n == Len(placed)
           A == After
           Fit(k, s) == /\ 0 <= A[k][s]
                        /\ \/ A[k][s] <= row[s]
                           \/ \E m \in 1..k : /\ placed[m].side = "BUY" /\ placed[m].symbol = s
                                              /\ A[k][s] <= row[s] + placed[m].qty
           T == {k \in 0..n : \A s \in Symbols : Fit(k, s)}
<1>1. /\ n \in Nat /\ row \in Rows /\ DOMAIN placed = 1..n
      /\ \A k \in 1..n : placed[k] \in Orders
  BY DEF TypeInv, Rows
<1>2. /\ \A k \in 0..n : A[k] = IF k = 0 THEN row ELSE Book(A[k - 1], placed[k])
      /\ \A k \in 0..n : A[k] \in Rows
  BY AfterEach, BookedIsRows
<1> HIDE DEF n, A
<1>3. 0 \in T
  BY <1>1, <1>2 DEF Rows
<1>4. ASSUME NEW k \in 0..n, k \in T, k < n PROVE k + 1 \in T
  <2> DEFINE o == placed[k + 1]
             before == A[k]
             after == A[k + 1]
  <2>1. /\ after = Book(before, o) /\ o \in Orders /\ before \in Rows /\ after \in Rows
        /\ k + 1 \in 0..n /\ k + 1 \in DOMAIN placed
    BY <1>1, <1>2, <1>4
  <2>2. \A s \in Symbols : Fit(k, s)
    BY <1>4
  <2>3. o.symbol \in Symbols /\ o.side \in {"BUY", "SELL"} /\ o.qty \in Nat
        /\ \A s \in Symbols : before[s] \in Int /\ after[s] \in Int /\ row[s] \in Int
    BY <1>1, <2>1 DEF Orders, Rows
  <2>4. \A m \in 1..k : m \in 1..(k + 1) /\ m \in DOMAIN placed /\ m # k + 1 /\ placed[m].qty \in Nat
    BY <1>1 DEF Orders
  <2> HIDE DEF o, before, after
  <2>5. ASSUME NEW s \in Symbols, s # o.symbol PROVE Fit(k + 1, s)
    <3>1. after[s] = before[s]
      BY <2>1, <2>5, BookIsRows
    <3>2. \A m \in 1..k : m \in 1..(k + 1)
      BY <2>4
    <3> QED
      BY <2>2, <3>1, <3>2 DEF before, after
  <2>6. CASE o.side = "SELL"
    <3> DEFINE s == o.symbol
    <3>1. 0 <= before[s]
      BY <2>2, <2>3 DEF before
    <3>2. 0 <= after[s] /\ after[s] <= before[s]
      BY <2>1, <2>6, <3>1, BookLong
    <3>3. ASSUME before[s] <= row[s] PROVE Fit(k + 1, o.symbol)
      <4>1. 0 <= after[s] /\ after[s] <= row[s]
        BY <2>3, <3>2, <3>3
      <4> QED
        BY <4>1 DEF after
    <3>4. ASSUME ~(before[s] <= row[s]) PROVE Fit(k + 1, o.symbol)
      <4>1. PICK m \in 1..k : /\ placed[m].side = "BUY" /\ placed[m].symbol = s
                              /\ before[s] <= row[s] + placed[m].qty
        BY <2>2, <2>3, <3>4 DEF before
      <4>2. after[s] <= row[s] + placed[m].qty /\ m \in 1..(k + 1)
        BY <2>3, <2>4, <3>2, <4>1
      <4> QED
        BY <3>2, <4>1, <4>2 DEF after
    <3>5. Fit(k + 1, o.symbol)
      BY <3>3, <3>4
    <3> QED
      BY <2>1, <2>5, <3>5
  <2>7. CASE o.side = "BUY"
    <3> DEFINE s == o.symbol
    <3>1. 0 <= before[s]
      BY <2>2, <2>3 DEF before
    <3>2. after[s] = before[s] + o.qty
      BY <2>1, <2>7, <3>1, BookLong
    <3>3. \A m \in 1..k : ~(placed[m].side = "BUY" /\ placed[m].symbol = s)
      BY <2>1, <2>4, <2>7 DEF OneOrderEach, o
    <3>4. before[s] <= row[s]
      BY <2>2, <2>3, <3>3 DEF before
    <3>5. 0 <= after[s] /\ after[s] <= row[s] + o.qty
      BY <2>3, <3>1, <3>2, <3>4
    <3>6. k + 1 \in 1..(k + 1)
      OBVIOUS
    <3>7. Fit(k + 1, o.symbol)
      BY <2>7, <3>5, <3>6 DEF o, after
    <3> QED
      BY <2>1, <2>5, <3>7
  <2> QED
    BY <2>3, <2>6, <2>7
<1>5. Climbs(T, n)
  <2> HIDE DEF T
  <2> QED
    BY <1>3, <1>4 DEF Climbs
<1>6. n \in T
  <2> HIDE DEF T
  <2>1. n \in 0..n
    BY <1>1
  <2> QED
    BY <1>1, <1>5, <2>1, UpTo
<1>7. \A s \in Symbols : Fit(n, s)
  BY <1>6
<1> QED
  BY <1>1, <1>7 DEF A, n

-----------------------------------------------------------------------------
(* Types *)

LEMMA LeavesAreInts == \A q \in Int : /\ Leaves(q) \subseteq Int
                                      /\ q >= 0 => \A l \in Leaves(q) : 0 <= l /\ l <= q
                                      /\ \A l \in Leaves(q) : Magnitude(q - l) \in Nat
BY DEF Leaves, Magnitude

LEMMA ConfigsAre == \A c \in Configs : c.symbols \subseteq Symbols /\ c.open \in Nat \ {0}
BY Sizes

LEMMA ForgetsTypes ==
    ASSUME TypeInv, Forget, config' = config, row' \in [Symbols -> Int], held' \in [Symbols -> Nat],
           faults' \in 0..MaxFaults, blind' \in 0..faults'
    PROVE  TypeInv'
<1>1. /\ pc' = "idle" /\ writes' = NoWrites /\ funds' = FALSE /\ broken' = FALSE
      /\ signals' = {} /\ order' = NoOrder /\ opened' = 0 /\ placed' = <<>> /\ exited' = {}
  BY DEF Forget, LettingGo
<1>2. placed' \in Seq(Orders) /\ opened' \in 0..Len(placed')
  BY <1>1
<1>3. DOMAIN writes' \subseteq Symbols /\ \A s \in DOMAIN writes' : writes'[s] \in Int
  BY <1>1 DEF NoWrites
<1> QED
  BY <1>1, <1>2, <1>3 DEF TypeInv

LEMMA Sizings ==
    ASSUME NEW known \in Int
    PROVE  /\ Sized(known) \in Int /\ Sized(known) <= Lot
           /\ Sized(known) <= Shares - Magnitude(known)
BY Sizes DEF Sized, Least, Magnitude

LEMMA Places ==
    ASSUME TypeInv, NEW o \in Orders
    PROVE  Append(placed, o) \in Seq(Orders) /\ Len(Append(placed, o)) = Len(placed) + 1
BY DEF TypeInv

\* What the check of the exits does with a row.
ExitBooked(s, left) ==
    LET side == IF row[s] > 0 THEN "SELL" ELSE "BUY"
    IN  /\ placed' = Append(placed, OrderFor(s, side, Magnitude(row[s] - left), TRUE))
        /\ row' = IF funds THEN row ELSE [row EXCEPT ![s] = left]
        /\ exited' = IF funds THEN exited
                     ELSE exited \cup {[symbol |-> s, left |-> left]}

LEMMA TypesBegin == Init => TypeInv
<1> SUFFICES ASSUME Init PROVE TypeInv
  OBVIOUS
<1>1. Least(Lot, Shares) \in Nat
  BY Sizes DEF Least
<1>2. row \in [Symbols -> Int] /\ held \in [Symbols -> Nat]
  BY <1>1 DEF Init
<1>3. DOMAIN writes = {}
  BY DEF Init, NoWrites
<1>4. placed \in Seq(Orders) /\ opened \in 0..Len(placed) /\ placed = <<>>
  BY DEF Init
<1>5. faults \in 0..MaxFaults /\ blind \in 0..faults
  BY Sizes DEF Init
<1> QED
  BY <1>2, <1>3, <1>4, <1>5 DEF Init, TypeInv

LEMMA TypesContinue == TypeInv /\ [Next]_vars => TypeInv'
<1> SUFFICES ASSUME TypeInv, [Next]_vars PROVE TypeInv'
  OBVIOUS
<1> USE DEF session, result, count
<1>1. CASE Start
  <2>1. CASE writes' = NoWrites
    <3>1. DOMAIN writes' \subseteq Symbols /\ \A s \in DOMAIN writes' : writes'[s] \in Int
      BY <2>1 DEF NoWrites
    <3>2. funds' \in BOOLEAN
      BY <1>1 DEF Start
    <3> QED
      BY <1>1, <3>1, <3>2 DEF Start, TypeInv, Signals
  <2>2. CASE \E s \in OpenRows : \E left \in Leaves(row[s]) : writes' = [x \in {s} |-> left]
    <3>1. PICK s \in OpenRows : \E left \in Leaves(row[s]) : writes' = [x \in {s} |-> left]
      BY <2>2
    <3>2. row[s] \in Int
      BY DEF OpenRows, TypeInv
    <3>3. DOMAIN writes' \subseteq Symbols /\ \A x \in DOMAIN writes' : writes'[x] \in Int
      BY <3>1, <3>2, LeavesAreInts DEF OpenRows
    <3>4. funds' \in BOOLEAN
      BY <1>1 DEF Start
    <3> QED
      BY <1>1, <3>3, <3>4 DEF Start, TypeInv, Signals
  <2> QED
    BY <1>1, <2>1, <2>2 DEF Start
<1>2. CASE Analyze
  <2>1. signals' \subseteq Signals
    BY <1>2 DEF Analyze, Eligible, Signals
  <2> QED
    BY <1>2, <2>1 DEF Analyze, TypeInv, Signals
<1>3. CASE CheckExits
  <2>1. CASE UNCHANGED <<row, placed, exited>>
    BY <1>3, <2>1 DEF CheckExits, TypeInv, Signals
  <2>2. CASE \E s \in OpenRows \ DOMAIN writes : \E left \in Leaves(row[s]) \ {row[s]} :
             ExitBooked(s, left)
    <3>0. PICK s \in OpenRows \ DOMAIN writes :
             \E left \in Leaves(row[s]) \ {row[s]} : ExitBooked(s, left)
      BY <2>2
    <3>1. PICK left \in Leaves(row[s]) \ {row[s]} : ExitBooked(s, left)
      BY <3>0
    <3>2. s \in Symbols /\ row[s] \in Int /\ left \in Int /\ Magnitude(row[s] - left) \in Nat
      <4>1. s \in Symbols /\ row[s] \in Int
        BY DEF OpenRows, TypeInv
      <4> QED
        BY <4>1, LeavesAreInts
    <3> DEFINE side == IF row[s] > 0 THEN "SELL" ELSE "BUY"
    <3>3. side \in {"BUY", "SELL"}
      OBVIOUS
    <3> HIDE DEF side
    <3> DEFINE o == OrderFor(s, side, Magnitude(row[s] - left), TRUE)
    <3>4. o \in Orders
      BY <3>2, <3>3 DEF OrderFor, Orders
    <3>5. placed' = Append(placed, o)
      BY <3>1 DEF side, ExitBooked
    <3> HIDE DEF o
    <3>6. placed' \in Seq(Orders) /\ Len(placed') = Len(placed) + 1
      BY <3>4, <3>5, Places
    <3>7. row' \in [Symbols -> Int] /\ exited' \subseteq [symbol : Symbols, left : Int]
      BY <3>1, <3>2 DEF TypeInv, ExitBooked
    <3>8. opened' \in 0..Len(placed')
      BY <1>3, <3>6 DEF CheckExits, TypeInv
    <3> QED
      BY <1>3, <3>6, <3>7, <3>8 DEF CheckExits, TypeInv, Signals
  <2> QED
    BY <1>3, <2>1, <2>2 DEF CheckExits, ExitBooked
<1>4. ASSUME NEW g \in signals, NEW known \in Int, Decide(g, known),
             faults' \in 0..MaxFaults, blind' \in 0..faults'
      PROVE  TypeInv'
  <2>1. g.symbol \in Symbols
    BY ConfigsAre DEF TypeInv, Signals
  <2>2. Sized(known) \in Nat /\ Ordered(g.side) \in {"BUY", "SELL"}
    BY <1>4, Sizings DEF Decide, Ordered
  <2>3. OrderFor(g.symbol, Ordered(g.side), Sized(known), FALSE) \in Orders
    BY <2>1, <2>2 DEF OrderFor, Orders
  <2> QED
    BY <1>4, <2>3 DEF Decide, TypeInv, Signals
<1>5. ASSUME NEW g \in signals, Refuse(g) PROVE TypeInv'
  BY <1>5 DEF Refuse, TypeInv, Signals
<1>6. CASE Fill
  <2>1. order \in Orders /\ pc = "placing"
    BY <1>6 DEF Fill, TypeInv
  <2>2. placed' \in Seq(Orders) /\ Len(placed') = Len(placed) + 1
    BY <1>6, <2>1, Places DEF Fill
  <2>3. opened' \in 0..Len(placed')
    BY <1>6, <2>2 DEF Fill, TypeInv
  <2>4. held' \in [Symbols -> Nat]
    <3>1. order.qty \in Nat /\ held[order.symbol] \in Nat /\ order.symbol \in Symbols
          /\ order.side \in {"BUY", "SELL"}
      BY <2>1 DEF TypeInv, Orders
    <3>2. order.side # "BUY" => held[order.symbol] >= order.qty
      BY <1>6, <3>1 DEF Fill
    <3>3. held' = [held EXCEPT ![order.symbol] = IF order.side = "BUY" THEN @ + order.qty
                                                 ELSE @ - order.qty]
      BY <1>6 DEF Fill
    <3> QED
      BY <3>1, <3>2, <3>3 DEF TypeInv
  <2> QED
    BY <1>6, <2>2, <2>3, <2>4 DEF Fill, TypeInv, Signals
<1>7. CASE Reject
  BY <1>7 DEF Reject, TypeInv, Signals
<1>8. CASE Persist
  <2>1. row' \in [Symbols -> Int]
    <3>1. Len(placed) \in 0..Len(placed)
      BY DEF TypeInv
    <3> QED
      BY <1>8, <3>1, BookedIsRows DEF Persist, Rows
  <2> QED
    BY <1>8, <2>1 DEF Persist, TypeInv, Signals
<1>9. CASE PersistTimesOut
  BY <1>9 DEF PersistTimesOut, TypeInv, Signals
<1>10. CASE Commit
  <2>1. row' \in [Symbols -> Int]
    BY <1>10 DEF Commit, View, TypeInv
  <2> QED
    BY <1>10, <2>1, ForgetsTypes DEF Commit, TypeInv
<1>11. CASE LoseConnection
  <2>1. DOMAIN writes' \subseteq Symbols /\ \A s \in DOMAIN writes' : writes'[s] \in Int
    BY <1>11 DEF LoseConnection, NoWrites
  <2>2. faults' \in 0..MaxFaults /\ blind' \in 0..faults'
    BY <1>11, Sizes DEF LoseConnection, TypeInv
  <2> QED
    BY <1>11, <2>1, <2>2 DEF LoseConnection, TypeInv, Signals
<1>12. CASE Restart
  <2>1. faults' \in 0..MaxFaults /\ blind' \in 0..faults'
    BY <1>12, Sizes DEF Restart, TypeInv
  <2>2. held' \in [Symbols -> Nat]
    BY <1>12 DEF Restart
  <2> QED
    BY <1>12, <2>1, <2>2, ForgetsTypes DEF Restart, TypeInv
<1>13. CASE CloseElsewhere
  <2>0. PICK s \in OpenRows \ DOMAIN writes :
          \E left \in Leaves(row[s]) \ {row[s]} :
             /\ row' = [row EXCEPT ![s] = left]
             /\ exited' = {x \in exited : x.symbol # s}
    BY <1>13 DEF CloseElsewhere
  <2>1. PICK left \in Leaves(row[s]) \ {row[s]} :
             /\ row' = [row EXCEPT ![s] = left]
             /\ exited' = {x \in exited : x.symbol # s}
    BY <2>0
  <2>2. s \in Symbols /\ row[s] \in Int
    BY DEF OpenRows, TypeInv
  <2>3. row' \in [Symbols -> Int] /\ exited' \subseteq [symbol : Symbols, left : Int]
    BY <2>1, <2>2, LeavesAreInts DEF TypeInv
  <2> QED
    BY <1>13, <2>3 DEF CloseElsewhere, TypeInv, Signals
<1>14. ASSUME NEW g \in signals, Admit(g) PROVE TypeInv'
  <2>1. g.symbol \in Symbols
    BY ConfigsAre DEF TypeInv, Signals
  <2>2. row[g.symbol] \in Int
    BY <2>1 DEF TypeInv
  <2> QED
    BY <1>4, <1>14, <2>2 DEF Admit, TypeInv
<1>15. ASSUME NEW g \in signals, AdmitBlind(g) PROVE TypeInv'
  <2>1. faults' \in 0..MaxFaults /\ blind' \in 0..faults'
    BY <1>15, Sizes DEF AdmitBlind, TypeInv
  <2> QED
    BY <1>4, <1>15, <2>1 DEF AdmitBlind
<1>16. CASE UNCHANGED vars
  BY <1>16 DEF vars, TypeInv, Signals
<1> QED
  BY <1>1, <1>2, <1>3, <1>5, <1>6, <1>7, <1>8, <1>9, <1>10, <1>11, <1>12, <1>13, <1>14, <1>15, <1>16
  DEF Next, Advance

-----------------------------------------------------------------------------
(* A strategy that only buys *)

LEMMA SetsOfSymbols ==
    /\ \A S \in SUBSET Symbols : IsFiniteSet(S) /\ Cardinality(S) \in Nat
    /\ \A S, T \in SUBSET Symbols : S \subseteq T => Cardinality(S) <= Cardinality(T)
    /\ \A S, T \in SUBSET Symbols : Cardinality(S \cup T) <= Cardinality(S) + Cardinality(T)
    /\ \A s \in Symbols : Cardinality({s}) = 1
    /\ Cardinality({}) = 0
<1>1. \A S \in SUBSET Symbols : IsFiniteSet(S) /\ Cardinality(S) \in Nat
  BY Universe, FS_Subset, FS_CardinalityType
<1>2. ASSUME NEW S \in SUBSET Symbols, NEW T \in SUBSET Symbols, S \subseteq T
      PROVE  Cardinality(S) <= Cardinality(T)
  BY <1>1, <1>2, FS_Subset
<1>3. ASSUME NEW S \in SUBSET Symbols, NEW T \in SUBSET Symbols
      PROVE  Cardinality(S \cup T) <= Cardinality(S) + Cardinality(T)
  <2>1. /\ IsFiniteSet(S) /\ IsFiniteSet(T)
        /\ Cardinality(S) \in Nat /\ Cardinality(T) \in Nat /\ Cardinality(S \cap T) \in Nat
    BY <1>1
  <2>2. Cardinality(S \cup T) = Cardinality(S) + Cardinality(T) - Cardinality(S \cap T)
    BY <2>1, FS_Union
  <2> QED
    BY <2>1, <2>2
<1> QED
  BY <1>1, <1>2, <1>3, FS_Singleton, FS_EmptySet

LEMMA CapIsNumber == ASSUME TypeInv PROVE Cap \in Int
<1>1. blind \in Int /\ Lot \in Int /\ Shares \in Int
  BY Sizes DEF TypeInv
<1>2. blind * Lot \in Int
  BY <1>1
<1> QED
  BY <1>1, <1>2 DEF Cap

\* A step that buys nothing: rows are reduced, orders to buy are kept or given
\* up, and what the request's session wrote is no more than the rows.
Eases ==
    /\ config' = config /\ blind' = blind
    /\ \A s \in Symbols : 0 <= row'[s] /\ row'[s] <= row[s]
    /\ \A s \in DOMAIN writes' : 0 <= writes'[s] /\ writes'[s] <= row'[s]
    /\ Bought' \subseteq Bought /\ Cardinality(Bought') <= opened'
    /\ \A n \in DOMAIN placed' :
          placed'[n].side = "BUY" => n \in DOMAIN placed /\ placed'[n] = placed[n]
    /\ signals' \subseteq signals
    /\ pc' = "placing" => pc = "placing" /\ order' = order
    /\ pc' \in {"checking", "trading", "placing"} => pc \in {"checking", "trading", "placing"}

LEMMA EasingKeeps ==
    ASSUME TypeInv, TypeInv', LongInv, Eases
    PROVE  LongInv'
<1>1. /\ Cap \in Int /\ Cap' = Cap /\ \A s \in Symbols : row[s] \in Int /\ row'[s] \in Int
  BY CapIsNumber DEF TypeInv, Eases, Cap
<1>2. \A s \in Symbols : 0 <= row'[s] /\ row'[s] <= Cap'
  BY <1>1 DEF Eases, LongInv
<1>3. Asked' \subseteq Asked
  BY DEF Asked, Eases
<1>4. OpenRows' \subseteq OpenRows
  <2> SUFFICES ASSUME NEW s \in Symbols, row'[s] # 0 PROVE row[s] # 0
    BY DEF OpenRows
  <2> QED
    BY <1>1 DEF Eases
<1>5. Cardinality(Potential') <= config'.open
  <2>1. Potential' \subseteq Potential /\ Potential \in SUBSET Symbols
        /\ Potential' \in SUBSET Symbols
    BY <1>3, <1>4 DEF Potential, Eases, OpenRows, Bought, Asked
  <2>2. Cardinality(Potential') <= Cardinality(Potential)
        /\ Cardinality(Potential') \in Nat /\ Cardinality(Potential) \in Nat
    BY <2>1, SetsOfSymbols
  <2>3. config.open \in Nat /\ config' = config /\ Cardinality(Potential) <= config.open
    BY ConfigsAre DEF TypeInv, Eases, LongInv
  <2> QED
    BY <2>2, <2>3
<1>6. OnlySold'
  BY <1>3 DEF LongInv, OnlySold, Eases
<1>7. ASSUME pc' \in {"checking", "trading", "placing"} PROVE OneOrderEach' /\ OrdersFit'
  <2>1. OneOrderEach /\ OrdersFit
    BY <1>7 DEF Eases, LongInv
  <2>2. \A n \in DOMAIN placed' :
           placed'[n].side = "BUY" => n \in DOMAIN placed /\ placed'[n] = placed[n]
    BY DEF Eases
  <2>3. OneOrderEach'
    <3>1. signals' \subseteq signals /\ Bought' \subseteq Bought
      BY DEF Eases
    <3> QED
      BY <1>3, <2>1, <2>2, <3>1 DEF OneOrderEach
  <2>4. ASSUME NEW n \in DOMAIN placed', placed'[n].side = "BUY"
        PROVE  row'[placed'[n].symbol] + placed'[n].qty <= Cap'
    <3>1. /\ placed'[n] = placed[n] /\ placed[n] \in Orders
          /\ row[placed[n].symbol] + placed[n].qty <= Cap
      BY <2>1, <2>2, <2>4 DEF OrdersFit, TypeInv
    <3>2. placed[n].symbol \in Symbols /\ placed[n].qty \in Nat
      BY <3>1 DEF Orders
    <3>3. row'[placed[n].symbol] <= row[placed[n].symbol]
      BY <3>2 DEF Eases
    <3> QED
      BY <1>1, <3>1, <3>2, <3>3
  <2>5. ASSUME pc' = "placing", order'.side = "BUY"
        PROVE  row'[order'.symbol] + order'.qty <= Cap'
    <3>1. pc = "placing" /\ order' = order
      BY <2>5 DEF Eases
    <3>2. order \in Orders
      BY <3>1 DEF TypeInv
    <3>3. order.symbol \in Symbols /\ order.qty \in Nat
      BY <3>2 DEF Orders
    <3>4. row'[order.symbol] <= row[order.symbol]
      BY <3>3 DEF Eases
    <3>5. row[order.symbol] + order.qty <= Cap
      BY <2>1, <2>5, <3>1 DEF OrdersFit
    <3> QED
      BY <1>1, <3>1, <3>3, <3>4, <3>5
  <2> QED
    BY <2>3, <2>4, <2>5 DEF OrdersFit
<1> QED
  BY <1>2, <1>5, <1>6, <1>7 DEF LongInv, Eases

\* Selling or not, an order that is added is the last.
LEMMA Added ==
    ASSUME TypeInv, NEW o \in Orders, placed' = Append(placed, o)
    PROVE  /\ \A n \in DOMAIN placed' : \/ n \in DOMAIN placed /\ placed'[n] = placed[n]
                                        \/ n \notin DOMAIN placed /\ placed'[n] = o
           /\ \A m, n \in DOMAIN placed' : m \notin DOMAIN placed /\ n \notin DOMAIN placed => m = n
           /\ o.side # "BUY" => Bought' = Bought
           /\ o.side = "BUY" => Bought' = Bought \cup {o.symbol}
<1>1. /\ DOMAIN placed = 1..Len(placed) /\ DOMAIN placed' = 1..(Len(placed) + 1)
      /\ \A n \in 1..Len(placed) : placed'[n] = placed[n]
      /\ placed'[Len(placed) + 1] = o /\ Len(placed) \in Nat
  BY DEF TypeInv
<1>2. /\ \A n \in DOMAIN placed' : \/ n \in DOMAIN placed /\ placed'[n] = placed[n]
                                   \/ n \notin DOMAIN placed /\ placed'[n] = o
      /\ \A m, n \in DOMAIN placed' : m \notin DOMAIN placed /\ n \notin DOMAIN placed => m = n
      /\ \A n \in DOMAIN placed : n \in DOMAIN placed' /\ placed'[n] = placed[n]
      /\ \E n \in DOMAIN placed' : placed'[n] = o
  BY <1>1
<1>3. o.symbol \in Symbols
  BY DEF Orders
<1> QED
  BY <1>2, <1>3 DEF Bought

\* A row that is reduced elsewhere, or by the check of the exits.
LEMMA ReducingKeeps ==
    ASSUME TypeInv, LongInv, NEW s \in OpenRows \ DOMAIN writes, NEW left \in Leaves(row[s]),
           row' = row \/ row' = [row EXCEPT ![s] = left]
    PROVE  /\ \A x \in Symbols : 0 <= row'[x] /\ row'[x] <= row[x]
           /\ \A x \in DOMAIN writes : 0 <= writes[x] /\ writes[x] <= row'[x]
           /\ row[s] > 0
<1>1. /\ s \in Symbols /\ row \in [Symbols -> Int] /\ row[s] \in Int /\ row[s] # 0
      /\ \A x \in Symbols : 0 <= row[x] /\ row[x] \in Int
      /\ DOMAIN writes \subseteq Symbols
  BY DEF OpenRows, TypeInv, LongInv
<1>2. row[s] > 0 /\ left \in Int /\ 0 <= left /\ left <= row[s]
  <2>1. row[s] > 0
    BY <1>1
  <2> QED
    BY <1>1, <2>1, LeavesAreInts
<1>3. \A x \in Symbols : row'[x] = row[x] \/ (x = s /\ row'[x] = left)
  BY <1>1
<1>4. \A x \in Symbols : 0 <= row'[x] /\ row'[x] <= row[x]
  BY <1>1, <1>2, <1>3
<1>5. ASSUME NEW x \in DOMAIN writes PROVE 0 <= writes[x] /\ writes[x] <= row'[x]
  <2>1. row'[x] = row[x]
    BY <1>1, <1>3
  <2> QED
    BY <2>1 DEF LongInv
<1> QED
  BY <1>2, <1>4, <1>5

LEMMA DecidingKeeps ==
    ASSUME TypeInv, TypeInv', LongInv, Direction = "LONG", NEW g \in signals,
           \/ Decide(g, row[g.symbol]) /\ blind' = blind
           \/ Decide(g, 0) /\ row[g.symbol] # 0 /\ blind' = blind + 1
    PROVE  LongInv'
<1> DEFINE s == g.symbol
           known == IF Decide(g, row[s]) /\ blind' = blind THEN row[s] ELSE 0
<1>1. /\ Decide(g, known)
      /\ \/ known = row[s] /\ blind' = blind
         \/ known = 0 /\ row[s] # 0 /\ blind' = blind + 1
  OBVIOUS
<1> HIDE DEF known
<1>2. /\ s \in Symbols /\ \A x \in Symbols : row[x] \in Int /\ 0 <= row[x] /\ row[x] <= Cap
      /\ blind \in Nat /\ config.open \in Nat /\ opened \in Nat
  <2>1. s \in Symbols /\ config.open \in Nat
    BY ConfigsAre DEF TypeInv, Signals
  <2> QED
    BY <2>1 DEF TypeInv, LongInv
<1>3. /\ pc = "trading" /\ pc' = "placing" /\ Room(known) /\ Sized(known) > 0
      /\ signals' = signals \ {g} /\ row' = row /\ config' = config /\ writes' = writes
      /\ placed' = placed /\ opened' = opened
      /\ order' = OrderFor(s, Ordered(g.side), Sized(known), FALSE)
  BY <1>1 DEF Decide, session
<1>4. /\ order'.symbol = s /\ order'.side = Ordered(g.side) /\ order'.qty = Sized(known)
  BY <1>3 DEF OrderFor
<1>5. /\ Bought' = Bought /\ Asked = {} /\ OpenRows' = OpenRows
      /\ order'.side # "BUY" => Asked' = {}
      /\ order'.side = "BUY" => Asked' = {s}
  BY <1>2, <1>3, <1>4 DEF Bought, Asked, OpenRows
<1>6. OneOrderEach /\ OrdersFit /\ OnlySold
  BY <1>3 DEF LongInv
<1>7. /\ Cap \in Int /\ Cap' \in Int /\ Cap <= Cap' /\ Shares <= Cap' /\ Lot \in Nat /\ Shares \in Nat
      /\ blind' = blind + 1 => Cap' = Cap + Lot
  <2>1. blind * Lot \in Nat /\ Lot \in Nat /\ Shares \in Nat /\ (blind + 1) * Lot = blind * Lot + Lot
    BY <1>2, Sizes
  <2> QED
    BY <1>1, <2>1 DEF Cap
<1>8. row[s] + Sized(known) <= Cap'
  <2>1. Sized(known) \in Int /\ Sized(known) <= Lot /\ Sized(known) <= Shares - Magnitude(known)
    <3>1. known \in Int
      BY <1>1, <1>2
    <3> QED
      BY <3>1, Sizings
  <2>2. CASE known = row[s] /\ blind' = blind
    <3>1. Magnitude(known) = row[s]
      BY <1>2, <2>2 DEF Magnitude
    <3> QED
      BY <1>2, <1>7, <2>1, <3>1
  <2>3. CASE known = 0 /\ row[s] # 0 /\ blind' = blind + 1
    BY <1>2, <1>7, <2>1, <2>3
  <2> QED
    BY <1>1, <2>2, <2>3
<1>9. Cardinality(Potential') <= config'.open
  <2>1. /\ OpenRows \in SUBSET Symbols /\ Bought \in SUBSET Symbols /\ {s} \in SUBSET Symbols
        /\ OpenRows \cup Bought \in SUBSET Symbols /\ Potential = OpenRows \cup Bought
    BY <1>2, <1>5 DEF OpenRows, Bought, Potential
  <2>2. CASE s \in OpenRows \/ order'.side # "BUY"
    <3>1. Potential' = Potential
      BY <1>5, <2>1, <2>2 DEF Potential
    <3> QED
      BY <1>3, <3>1 DEF LongInv
  <2>3. CASE s \notin OpenRows /\ order'.side = "BUY"
    <3>1. Potential' = (OpenRows \cup Bought) \cup {s}
      BY <1>5, <2>3 DEF Potential
    <3>2. known = 0
      BY <1>1, <1>2, <2>3 DEF OpenRows
    <3>3. Cardinality(OpenRows) + opened < config.open
      BY <1>3, <3>2 DEF Room
    <3>4. /\ Cardinality(Potential') <= Cardinality(OpenRows \cup Bought) + Cardinality({s})
          /\ Cardinality(OpenRows \cup Bought) <= Cardinality(OpenRows) + Cardinality(Bought)
          /\ Cardinality({s}) = 1
      BY <1>2, <2>1, <3>1, SetsOfSymbols
    <3>5. /\ Cardinality(Potential') \in Nat /\ Cardinality(OpenRows \cup Bought) \in Nat
          /\ Cardinality(OpenRows) \in Nat /\ Cardinality(Bought) \in Nat
      BY <2>1, <3>1, SetsOfSymbols
    <3>6. Cardinality(Bought) <= opened
      BY DEF LongInv
    <3> QED
      BY <1>2, <1>3, <3>3, <3>4, <3>5, <3>6
  <2> QED
    BY <2>2, <2>3
<1>10. OnlySold'
  <2>1. order'.side = "BUY" => s \notin ExitOnly
    BY <1>4, <1>6 DEF Ordered, OnlySold
  <2> QED
    BY <1>3, <1>5, <1>6, <2>1 DEF OnlySold
<1>11. OneOrderEach'
  <2>1. \A h \in signals' : h \in signals /\ h # g /\ h.symbol # s
    BY <1>3, <1>6 DEF OneOrderEach
  <2>2. s \notin Bought
    BY <1>6 DEF OneOrderEach
  <2> QED
    BY <1>3, <1>5, <1>6, <2>1, <2>2 DEF OneOrderEach
<1>12. OrdersFit'
  <2>1. ASSUME NEW n \in DOMAIN placed, placed[n].side = "BUY"
        PROVE  row[placed[n].symbol] + placed[n].qty <= Cap'
    <3>1. placed[n] \in Orders /\ row[placed[n].symbol] + placed[n].qty <= Cap
      BY <1>6, <2>1 DEF OrdersFit, TypeInv
    <3>2. placed[n].qty \in Int /\ row[placed[n].symbol] \in Int
      BY <1>2, <3>1 DEF Orders
    <3> QED
      BY <1>7, <3>1, <3>2
  <2> QED
    BY <1>3, <1>4, <1>8, <2>1 DEF OrdersFit
<1>13. /\ \A x \in Symbols : 0 <= row'[x] /\ row'[x] <= Cap'
       /\ \A x \in DOMAIN writes' : 0 <= writes'[x] /\ writes'[x] <= row'[x]
       /\ Cardinality(Bought') <= opened'
  <2>1. \A x \in Symbols : 0 <= row'[x] /\ row'[x] <= Cap'
    BY <1>2, <1>3, <1>7
  <2> QED
    BY <1>3, <1>5, <2>1 DEF LongInv
<1> QED
  BY <1>9, <1>10, <1>11, <1>12, <1>13 DEF LongInv

LEMMA FillingKeeps ==
    ASSUME TypeInv, TypeInv', LongInv, Fill
    PROVE  LongInv'
<1> DEFINE s == order.symbol
<1>1. /\ pc = "placing" /\ pc' = "trading" /\ row' = row /\ config' = config /\ writes' = writes
      /\ placed' = Append(placed, order) /\ opened' = opened + 1 /\ signals' = signals
      /\ blind' = blind /\ order \in Orders
  BY DEF Fill, TypeInv, count
<1>2. s \in Symbols /\ order.side \in {"BUY", "SELL"}
  BY <1>1 DEF Orders
<1>3. /\ Asked' = {} /\ OpenRows' = OpenRows /\ Cap' = Cap
      /\ order.side = "BUY" => Asked = {s} /\ Bought' = Bought \cup {s}
      /\ order.side # "BUY" => Asked = {} /\ Bought' = Bought
  BY <1>1, <1>2, Added DEF Asked, OpenRows, Cap
<1>4. Potential' = Potential
  BY <1>2, <1>3 DEF Potential
<1>5. OneOrderEach /\ OrdersFit /\ OnlySold
  BY <1>1 DEF LongInv
<1>6. Cardinality(Bought') <= opened'
  <2>1. Bought \in SUBSET Symbols /\ {s} \in SUBSET Symbols /\ Bought \cup {s} \in SUBSET Symbols
    BY <1>2 DEF Bought
  <2>2. /\ Cardinality(Bought \cup {s}) <= Cardinality(Bought) + Cardinality({s})
        /\ Cardinality({s}) = 1
    BY <1>2, <2>1, SetsOfSymbols
  <2>3. Cardinality(Bought) \in Nat /\ Cardinality(Bought \cup {s}) \in Nat
    BY <2>1, SetsOfSymbols
  <2>4. Cardinality(Bought) <= opened /\ opened \in Nat
    BY DEF LongInv, TypeInv
  <2>5. CASE Bought' = Bought \cup {s}
    <3>1. Cardinality(Bought \cup {s}) <= opened + 1
      BY <2>2, <2>3, <2>4
    <3> QED
      BY <1>1, <2>5, <3>1
  <2>6. CASE Bought' = Bought
    <3>1. Cardinality(Bought) <= opened + 1
      BY <2>3, <2>4
    <3> QED
      BY <1>1, <2>6, <3>1
  <2> QED
    BY <1>3, <2>5, <2>6
<1>7. OnlySold'
  BY <1>1, <1>3, <1>5 DEF OnlySold
<1>8. /\ \A n \in DOMAIN placed' : \/ n \in DOMAIN placed /\ placed'[n] = placed[n]
                                   \/ n \notin DOMAIN placed /\ placed'[n] = order
      /\ \A m, n \in DOMAIN placed' : m \notin DOMAIN placed /\ n \notin DOMAIN placed => m = n
  BY <1>1, Added
<1>9. OneOrderEach'
  <2>1. \A n \in DOMAIN placed : placed[n].side = "BUY" => placed[n].symbol \in Bought
    <3>1. \A n \in DOMAIN placed : placed[n].symbol \in Symbols
      <4>1. \A n \in DOMAIN placed : placed[n] \in Orders
        BY DEF TypeInv
      <4> QED
        BY <4>1 DEF Orders
    <3> QED
      BY <3>1 DEF Bought
  <2>2. order.side = "BUY" => s \notin Bought
    BY <1>3, <1>5 DEF OneOrderEach
  <2>3. ASSUME NEW m \in DOMAIN placed', NEW n \in DOMAIN placed',
               placed'[m].side = "BUY", placed'[n].side = "BUY",
               placed'[m].symbol = placed'[n].symbol
        PROVE  m = n
    <3>1. CASE m \in DOMAIN placed /\ n \in DOMAIN placed
      BY <1>5, <1>8, <2>3, <3>1 DEF OneOrderEach
    <3>2. CASE m \notin DOMAIN placed /\ n \notin DOMAIN placed
      BY <1>8, <3>2
    <3>3. CASE m \in DOMAIN placed /\ n \notin DOMAIN placed
      BY <1>8, <2>1, <2>2, <2>3, <3>3
    <3>4. CASE m \notin DOMAIN placed /\ n \in DOMAIN placed
      BY <1>8, <2>1, <2>2, <2>3, <3>4
    <3> QED
      BY <3>1, <3>2, <3>3, <3>4
  <2>4. \A g \in signals : g.symbol \notin Bought'
    BY <1>2, <1>3, <1>5 DEF OneOrderEach
  <2> QED
    BY <1>1, <1>3, <1>5, <2>3, <2>4 DEF OneOrderEach
<1>10. OrdersFit'
  BY <1>1, <1>3, <1>5, <1>8 DEF OrdersFit
<1>11. /\ \A x \in Symbols : 0 <= row'[x] /\ row'[x] <= Cap'
       /\ \A x \in DOMAIN writes' : 0 <= writes'[x] /\ writes'[x] <= row'[x]
       /\ Cardinality(Potential') <= config'.open
  BY <1>1, <1>3, <1>4 DEF LongInv
<1> QED
  BY <1>6, <1>7, <1>9, <1>10, <1>11 DEF LongInv

LEMMA BookingKeeps ==
    ASSUME TypeInv, TypeInv', LongInv, Direction = "LONG", Persist
    PROVE  LongInv'
<1>1. /\ pc = "trading" /\ pc' = "done" /\ ~MustWait /\ row' = After[Len(placed)]
      /\ config' = config /\ writes' = writes /\ placed' = placed /\ opened' = opened
      /\ signals' = signals /\ blind' = blind
  BY DEF Persist, session, result, count
<1>2. /\ Cap' = Cap /\ Cap \in Int /\ Bought' = Bought /\ Asked' = {}
      /\ \A s \in Symbols : row[s] \in Int /\ 0 <= row[s] /\ row[s] <= Cap /\ row'[s] \in Int
      /\ OneOrderEach /\ OrdersFit /\ OnlySold
  BY <1>1, CapIsNumber DEF Cap, Bought, Asked, TypeInv, LongInv
<1>3. \A s \in Symbols :
         /\ 0 <= row'[s]
         /\ \/ row'[s] <= row[s]
            \/ \E m \in DOMAIN placed :
                  /\ placed[m].side = "BUY" /\ placed[m].symbol = s
                  /\ row'[s] <= row[s] + placed[m].qty
  <2>1. \A s \in Symbols : 0 <= row[s]
    BY <1>2
  <2> QED
    BY <1>1, <1>2, <2>1, BookedFits
<1>4. ASSUME NEW s \in Symbols PROVE 0 <= row'[s] /\ row'[s] <= Cap'
  <2>1. CASE row'[s] <= row[s]
    BY <1>2, <1>3, <2>1
  <2>2. ASSUME NEW m \in DOMAIN placed, placed[m].side = "BUY", placed[m].symbol = s,
               row'[s] <= row[s] + placed[m].qty
        PROVE  row'[s] <= Cap'
    <3>1. row[s] + placed[m].qty <= Cap
      BY <1>2, <2>2 DEF OrdersFit
    <3>2. placed[m] \in Orders
      BY DEF TypeInv
    <3>3. placed[m].qty \in Nat
      BY <3>2 DEF Orders
    <3> QED
      BY <1>2, <2>2, <3>1, <3>3
  <2> QED
    BY <1>3, <2>1, <2>2
\* A position that was none was bought.
<1>5. OpenRows' \subseteq OpenRows \cup Bought
  <2> SUFFICES ASSUME NEW s \in Symbols, row'[s] # 0, row[s] = 0 PROVE s \in Bought
    BY DEF OpenRows
  <2>1. ~(row'[s] <= row[s])
    BY <1>2, <1>3
  <2> QED
    BY <1>3, <2>1 DEF Bought
<1>6. Cardinality(Potential') <= config'.open
  <2>1. Potential' \subseteq Potential /\ Potential \in SUBSET Symbols
        /\ Potential' \in SUBSET Symbols
    BY <1>2, <1>5 DEF Potential, OpenRows, Bought, Asked
  <2>2. Cardinality(Potential') <= Cardinality(Potential)
        /\ Cardinality(Potential') \in Nat /\ Cardinality(Potential) \in Nat
    BY <2>1, SetsOfSymbols
  <2>3. config.open \in Nat /\ Cardinality(Potential) <= config.open
    BY ConfigsAre DEF TypeInv, LongInv
  <2> QED
    BY <1>1, <2>2, <2>3
\* What the request's session wrote, nothing else has changed.
<1>7. ASSUME NEW s \in DOMAIN writes PROVE row'[s] = row[s]
  <2> DEFINE n == Len(placed)
             A == After
             T == {k \in 0..n : A[k][s] = row[s]}
  <2>1. /\ n \in Nat /\ DOMAIN placed = 1..n /\ s \in Symbols
        /\ \A k \in 1..n : placed[k] \in Orders
    BY DEF TypeInv
  <2>2. /\ \A k \in 0..n : A[k] = IF k = 0 THEN row ELSE Book(A[k - 1], placed[k])
        /\ \A k \in 0..n : A[k] \in Rows
    BY AfterEach, BookedIsRows
  <2>3. \A k \in 1..n : placed[k].symbol = s => A[k] = A[k - 1]
    BY <1>1, <2>1 DEF MustWait
  <2> HIDE DEF n, A
  <2>4. 0 \in T
    BY <2>1, <2>2
  <2>5. ASSUME NEW k \in 0..n, k \in T, k < n PROVE k + 1 \in T
    <3>1. k + 1 \in 1..n /\ (k + 1) - 1 = k
      BY <2>1, <2>5
    <3>2. A[k + 1][s] = A[k][s]
      <4>1. CASE placed[k + 1].symbol = s
        BY <2>3, <3>1, <4>1
      <4>2. CASE placed[k + 1].symbol # s
        <5>1. A[k + 1] = Book(A[k], placed[k + 1]) /\ A[k] \in Rows /\ placed[k + 1] \in Orders
          BY <2>1, <2>2, <2>5, <3>1
        <5> QED
          BY <2>1, <4>2, <5>1, BookIsRows
      <4> QED
        BY <4>1, <4>2
    <3> QED
      BY <2>5, <3>1, <3>2
  <2>6. Climbs(T, n)
    <3> HIDE DEF T
    <3> QED
      BY <2>4, <2>5 DEF Climbs
  <2>7. n \in T
    <3> HIDE DEF T
    <3>1. n \in 0..n
      BY <2>1
    <3> QED
      BY <2>1, <2>6, <3>1, UpTo
  <2> QED
    BY <1>1, <2>7 DEF A, n
<1>8. OnlySold'
  BY <1>1, <1>2 DEF OnlySold
<1> QED
  BY <1>1, <1>2, <1>4, <1>6, <1>7, <1>8 DEF LongInv

-----------------------------------------------------------------------------
(* The theorems *)

LEMMA LongBegins == ASSUME Init PROVE LongInv
<1>1. TypeInv
  BY TypesBegin
<1>2. Bought = {} /\ Asked = {}
  BY DEF Init, Bought, Asked
<1>3. Cap \in Int /\ Shares <= Cap /\ 0 <= Least(Lot, Shares) /\ Least(Lot, Shares) <= Shares
  <2>1. blind = 0 /\ Lot \in Nat /\ Shares \in Nat
    BY Sizes DEF Init
  <2>2. blind * Lot = 0
    BY <2>1
  <2> QED
    BY <2>1, <2>2 DEF Cap, Least
<1>4. \A s \in Symbols : 0 <= row[s] /\ row[s] <= Cap
  <2>1. \A s \in Symbols : row[s] = 0 \/ row[s] = Least(Lot, Shares)
    BY DEF Init
  <2>2. Shares \in Nat /\ Least(Lot, Shares) \in Int
    BY Sizes DEF Least
  <2> QED
    BY <1>3, <2>1, <2>2
<1>5. Cardinality(Potential) <= config.open /\ Cardinality(Bought) <= opened
  <2>1. Potential = OpenRows
    BY <1>2 DEF Potential
  <2> QED
    BY <1>2, <2>1, SetsOfSymbols DEF Init
<1>6. OnlySold /\ DOMAIN writes = {} /\ pc = "idle"
  BY <1>2 DEF Init, OnlySold, NoWrites
<1> QED
  BY <1>4, <1>5, <1>6 DEF LongInv

LEMMA LongContinues ==
    ASSUME TypeInv, TypeInv', LongInv, Direction = "LONG", [Next]_vars
    PROVE  LongInv'
<1> USE DEF session, result, count
<1>1. /\ \A s \in Symbols : row[s] \in Int /\ 0 <= row[s] /\ row[s] <= row[s]
      /\ \A s \in DOMAIN writes : 0 <= writes[s] /\ writes[s] <= row[s]
      /\ Cardinality(Bought) <= opened /\ Cardinality({}) = 0
  BY SetsOfSymbols DEF TypeInv, LongInv
<1>2. CASE Start
  <2>1. \A s \in DOMAIN writes' : 0 <= writes'[s] /\ writes'[s] <= row[s]
    <3>1. CASE writes' = NoWrites
      BY <3>1 DEF NoWrites
    <3>2. ASSUME NEW s \in OpenRows, NEW left \in Leaves(row[s]), writes' = [x \in {s} |-> left]
          PROVE  \A x \in DOMAIN writes' : 0 <= writes'[x] /\ writes'[x] <= row[x]
      <4>1. row[s] \in Int /\ row[s] >= 0
        BY <1>1 DEF OpenRows
      <4> QED
        BY <3>2, <4>1, LeavesAreInts
    <3> QED
      BY <1>2, <3>1, <3>2 DEF Start
  <2>2. Bought' = Bought
    BY <1>2 DEF Start, Bought
  <2>3. Eases
    BY <1>1, <1>2, <2>1, <2>2 DEF Start, Eases
  <2> QED
    BY <2>3, EasingKeeps
<1>3. CASE Analyze
  <2>1. placed = <<>> /\ Bought = {} /\ Bought' = {} /\ Asked = {} /\ Asked' = {} /\ OpenRows' = OpenRows
    BY <1>3 DEF Analyze, TypeInv, Bought, Asked, OpenRows
  <2>2. Potential' = Potential /\ Cap' = Cap
    BY <1>3, <2>1 DEF Analyze, Potential, Cap
  <2>3. /\ \A g, h \in signals' : g.symbol = h.symbol => g = h
        /\ \A g \in signals' : g.side = "BUY" => g.symbol \notin ExitOnly
    BY <1>3 DEF Analyze, Eligible
  <2>4. OneOrderEach' /\ OrdersFit' /\ OnlySold'
    BY <1>3, <2>1, <2>3 DEF Analyze, OneOrderEach, OrdersFit, OnlySold
  <2> QED
    BY <1>3, <2>1, <2>2, <2>4 DEF Analyze, LongInv
<1>4. CASE CheckExits
  <2>1. CASE UNCHANGED <<row, placed, exited>>
    <3>1. Bought' = Bought
      BY <2>1 DEF Bought
    <3>2. Eases
      BY <1>1, <1>4, <2>1, <3>1 DEF CheckExits, Eases
    <3> QED
      BY <3>2, EasingKeeps
  <2>2. CASE \E s \in OpenRows \ DOMAIN writes : \E left \in Leaves(row[s]) \ {row[s]} :
             ExitBooked(s, left)
    <3>0. PICK s \in OpenRows \ DOMAIN writes :
             \E left \in Leaves(row[s]) \ {row[s]} : ExitBooked(s, left)
      BY <2>2
    <3>1. PICK left \in Leaves(row[s]) \ {row[s]} : ExitBooked(s, left)
      BY <3>0
    <3>2. row' = row \/ row' = [row EXCEPT ![s] = left]
      BY <3>1 DEF ExitBooked
    <3>3. /\ \A x \in Symbols : 0 <= row'[x] /\ row'[x] <= row[x]
          /\ \A x \in DOMAIN writes : 0 <= writes[x] /\ writes[x] <= row'[x]
          /\ row[s] > 0
      BY <3>2, ReducingKeeps
    <3> DEFINE o == OrderFor(s, "SELL", Magnitude(row[s] - left), TRUE)
    <3>4. placed' = Append(placed, o)
      BY <3>1, <3>3 DEF ExitBooked
    <3>5. o \in Orders /\ o.side = "SELL"
      <4>1. s \in Symbols /\ row[s] \in Int
        BY <1>1 DEF OpenRows
      <4> QED
        BY <4>1, LeavesAreInts DEF OrderFor, Orders
    <3> HIDE DEF o
    <3>6. /\ Bought' = Bought
          /\ \A n \in DOMAIN placed' :
                placed'[n].side = "BUY" => n \in DOMAIN placed /\ placed'[n] = placed[n]
      BY <3>4, <3>5, Added
    <3>7. Eases
      BY <1>1, <1>4, <3>3, <3>6 DEF CheckExits, Eases
    <3> QED
      BY <3>7, EasingKeeps
  <2> QED
    BY <1>4, <2>1, <2>2 DEF CheckExits, ExitBooked
<1>5. ASSUME NEW g \in signals, Admit(g) PROVE LongInv'
  BY <1>5, DecidingKeeps DEF Admit
<1>6. ASSUME NEW g \in signals, AdmitBlind(g) PROVE LongInv'
  BY <1>6, DecidingKeeps DEF AdmitBlind
<1>7. ASSUME NEW g \in signals, Refuse(g) PROVE LongInv'
  <2>1. Bought' = Bought
    BY <1>7 DEF Refuse, Bought
  <2>2. Eases
    BY <1>1, <1>7, <2>1 DEF Refuse, Eases
  <2> QED
    BY <2>2, EasingKeeps
<1>8. CASE Fill
  BY <1>8, FillingKeeps
<1>9. CASE Reject
  <2>1. Bought' = Bought
    BY <1>9 DEF Reject, Bought
  <2>2. Eases
    BY <1>1, <1>9, <2>1 DEF Reject, Eases
  <2> QED
    BY <2>2, EasingKeeps
<1>10. CASE Persist
  BY <1>10, BookingKeeps
<1>11. CASE PersistTimesOut
  <2>1. Bought' = Bought
    BY <1>11 DEF PersistTimesOut, Bought
  <2>2. Eases
    BY <1>1, <1>11, <2>1 DEF PersistTimesOut, Eases
  <2> QED
    BY <2>2, EasingKeeps
<1>12. ASSUME Forget, config' = config, blind' = blind,
              \A s \in Symbols : 0 <= row'[s] /\ row'[s] <= row[s]
       PROVE  LongInv'
  <2>1. /\ pc' = "idle" /\ writes' = NoWrites /\ signals' = {} /\ opened' = 0 /\ placed' = <<>>
    BY <1>12 DEF Forget, LettingGo
  <2>2. Bought' = {}
    BY <2>1 DEF Bought
  <2>3. Eases
    BY <1>1, <1>12, <2>1, <2>2 DEF Eases, NoWrites
  <2> QED
    BY <2>3, EasingKeeps
<1>13. CASE Commit
  <2>1. \A s \in Symbols : 0 <= row'[s] /\ row'[s] <= row[s]
    BY <1>1, <1>13 DEF Commit, View
  <2> QED
    BY <1>12, <1>13, <2>1 DEF Commit
<1>14. CASE LoseConnection
  <2>1. Bought' = Bought
    BY <1>14 DEF LoseConnection, Bought
  <2>2. Eases
    BY <1>1, <1>14, <2>1 DEF LoseConnection, Eases, NoWrites
  <2> QED
    BY <2>2, EasingKeeps
<1>15. CASE Restart
  BY <1>1, <1>12, <1>15 DEF Restart
<1>16. CASE CloseElsewhere
  <2>0. PICK s \in OpenRows \ DOMAIN writes :
          \E left \in Leaves(row[s]) \ {row[s]} : row' = [row EXCEPT ![s] = left]
    BY <1>16 DEF CloseElsewhere
  <2>1. PICK left \in Leaves(row[s]) \ {row[s]} : row' = [row EXCEPT ![s] = left]
    BY <2>0
  <2>2. /\ \A x \in Symbols : 0 <= row'[x] /\ row'[x] <= row[x]
        /\ \A x \in DOMAIN writes : 0 <= writes[x] /\ writes[x] <= row'[x]
    BY <2>1, ReducingKeeps
  <2>3. Bought' = Bought
    BY <1>16 DEF CloseElsewhere, Bought
  <2>4. Eases
    BY <1>1, <1>16, <2>2, <2>3 DEF CloseElsewhere, Eases
  <2> QED
    BY <2>4, EasingKeeps
<1>17. CASE UNCHANGED vars
  <2>1. Bought' = Bought
    BY <1>17 DEF vars, Bought
  <2>2. Eases
    BY <1>1, <1>17, <2>1 DEF vars, Eases
  <2> QED
    BY <2>2, EasingKeeps
<1> QED
  BY <1>2, <1>3, <1>4, <1>5, <1>6, <1>7, <1>8, <1>9, <1>10, <1>11, <1>13, <1>14, <1>15, <1>16, <1>17
  DEF Next, Advance

\* What a turn has bought, is about to buy and holds fits the limits together.
THEOREM TurnFits == Spec => []IInv
<1>1. Init => IInv
  BY TypesBegin, LongBegins DEF IInv
<1>2. IInv /\ [Next]_vars => IInv'
  BY TypesContinue, LongContinues DEF IInv
<1> QED
  BY <1>1, <1>2, PTL DEF Spec

\* The types of a turn, whatever it trades.
THEOREM TypeCorrect == Spec => []TypeOK
<1>1. IInv => TypeOK
  BY DEF IInv, TypeInv, TypeOK
<1> QED
  BY <1>1, TurnFits, PTL

\* A strategy that only buys never has more open positions than
\* max_open_positions, for any number of symbols and orders of a turn
\* (_process_signal).
THEOREM MaxOpenKept == Spec => []WithinMaxOpen
<1>1. IInv => WithinMaxOpen
  <2> SUFFICES ASSUME IInv, Direction = "LONG" PROVE Cardinality(OpenRows) <= config.open
    BY DEF WithinMaxOpen
  <2>1. OpenRows \subseteq Potential /\ OpenRows \in SUBSET Symbols /\ Potential \in SUBSET Symbols
    BY DEF Potential, OpenRows, Bought, Asked
  <2>2. /\ Cardinality(OpenRows) <= Cardinality(Potential)
        /\ Cardinality(OpenRows) \in Nat /\ Cardinality(Potential) \in Nat
    BY <2>1, SetsOfSymbols
  <2>3. Cardinality(Potential) <= config.open /\ config.open \in Nat
    BY ConfigsAre DEF IInv, TypeInv, LongInv
  <2> QED
    BY <2>2, <2>3
<1> QED
  BY <1>1, TurnFits, PTL

\* Its positions outgrow max_position_value by no more than a lot for each
\* failed read, for any sizes (_cap_qty_by_max_position_value).
THEOREM CapKept == Spec => []WithinCap
<1>1. IInv => WithinCap
  BY DEF IInv, LongInv, WithinCap, Cap
<1> QED
  BY <1>1, TurnFits, PTL

\* It never has a short position, though its exits are booked a second time
\* (DirectionViolationError).
THEOREM LongStaysLong == Spec => []LongOnlyStaysLong
<1>1. IInv => LongOnlyStaysLong
  <2> SUFFICES ASSUME IInv, Direction = "LONG", NEW s \in Symbols PROVE row[s] >= 0
    BY DEF LongOnlyStaysLong
  <2>1. 0 <= row[s] /\ row[s] \in Int
    BY DEF IInv, LongInv, TypeInv
  <2> QED
    BY <2>1
<1> QED
  BY <1>1, TurnFits, PTL

\* It buys nothing of a symbol that it may only sell (the filter of execute).
THEOREM ExitOnlyShrinks == Spec => ExitOnlyNeverGrows
<1>1. ASSUME TypeInv, LongInv, Direction = "LONG", Next, NEW s \in Symbols, s \in ExitOnly
      PROVE  row'[s] <= row[s]
  <2>1. row[s] \in Int /\ 0 <= row[s] /\ row[s] <= row[s]
    BY <1>1 DEF TypeInv, LongInv
  <2>2. CASE row' = row
    BY <2>1, <2>2
  <2>3. ASSUME NEW x \in OpenRows \ DOMAIN writes, NEW left \in Leaves(row[x]),
               row' = [row EXCEPT ![x] = left]
        PROVE  row'[s] <= row[s]
    BY <1>1, <2>3, ReducingKeeps
  <2>4. CASE CheckExits
    BY <2>2, <2>3, <2>4 DEF CheckExits
  <2>5. CASE CloseElsewhere
    BY <2>3, <2>5 DEF CloseElsewhere
  <2>6. CASE Commit
    BY <1>1, <2>1, <2>6 DEF Commit, View, LongInv
  <2>7. CASE Persist
    <3>1. /\ OneOrderEach /\ OnlySold /\ row' = After[Len(placed)]
          /\ \A x \in Symbols : 0 <= row[x]
      BY <1>1, <2>7 DEF Persist, LongInv
    <3>2. \/ row'[s] <= row[s]
          \/ \E m \in DOMAIN placed : placed[m].side = "BUY" /\ placed[m].symbol = s
      BY <1>1, <3>1, BookedFits
    <3>3. s \notin Bought
      BY <1>1, <3>1 DEF OnlySold
    <3> QED
      BY <3>2, <3>3 DEF Bought
  <2> USE DEF session, result, count
  <2>8. CASE Start \/ Analyze \/ Fill \/ Reject \/ PersistTimesOut
    BY <2>2, <2>8 DEF Start, Analyze, Fill, Reject, PersistTimesOut
  <2>9. CASE \E g \in signals : Admit(g) \/ Refuse(g) \/ AdmitBlind(g)
    BY <2>2, <2>9 DEF Admit, Refuse, AdmitBlind, Decide
  <2>10. CASE LoseConnection \/ Restart
    BY <2>2, <2>10 DEF LoseConnection, Restart
  <2> QED
    BY <1>1, <2>4, <2>5, <2>6, <2>7, <2>8, <2>9, <2>10 DEF Next, Advance
<1>2. IInv /\ [Next]_vars => [Direction = "LONG" => \A s \in ExitOnly : row'[s] <= row[s]]_row
  <2> SUFFICES ASSUME IInv, Next, Direction = "LONG", NEW s \in ExitOnly
               PROVE  row'[s] <= row[s]
    BY DEF vars
  <2> QED
    BY <1>1, Universe DEF IInv
<1> QED
  BY <1>2, TurnFits, PTL DEF Spec, ExitOnlyNeverGrows

=============================================================================
