----------------------------- MODULE StandaloneProofs -----------------------------
(***************************************************************************)
(* What the components of Standalone guarantee, each alone, for any values *)
(* of their constants.  Backtest: trades follow one another, and the       *)
(* capital is what they and their commissions make of the initial one.     *)
(* Ledger: statements close with the cash.  Schedules: one turn for an     *)
(* opening, and no day left out.  Strategies: signals protect, sizes fit,  *)
(* crossings are noticed.  Screening: an answer is what its request's      *)
(* filters ask of one run, and a laxer level loses nothing.                *)
(* Recommendations: scores agree, lists and what was measured of them are  *)
(* kept.  Universes: requests that overlap add a name no more often than   *)
(* there are requests.  Profits: every report counts each gain once.       *)
(***************************************************************************)
EXTENDS Standalone, FiniteSetTheorems, NaturalsInduction, WellFoundedInduction, SequenceTheorems, TLAPS

-----------------------------------------------------------------------------
(* Sums of sequences *)

\* A set of numbers with 0 and the successor of each of its members up to n.
Climbs(Numbers, n) == 0 \in Numbers /\ \A k \in 0..n : k \in Numbers /\ k < n => k + 1 \in Numbers

\* Such a set has every number up to n.
LEMMA UpTo ==
    ASSUME NEW n \in Nat, NEW Numbers, Climbs(Numbers, n)
    PROVE  \A k \in 0..n : k \in Numbers
<1> DEFINE Rest == {k \in 0..n : k \notin Numbers}
<1> SUFFICES ASSUME Rest # {} PROVE FALSE
  OBVIOUS
<1>1. Rest \subseteq Nat
  OBVIOUS
<1>2. PICK k \in Rest : \A j \in Rest : <<j, k>> \notin OpToRel(<, Nat)
  <2> HIDE DEF Rest
  <2> QED
    BY <1>1, WFMin, NatLessThanWellFounded
<1>3. k \in 1..n /\ k \notin Numbers
  BY DEF Climbs
<1>4. k - 1 \in 0..n /\ <<k - 1, k>> \in OpToRel(<, Nat)
  BY <1>3 DEF OpToRel
<1>5. k - 1 \in Numbers
  BY <1>2, <1>4
<1>6. (k - 1) + 1 \in Numbers
  <2>1. k - 1 < n
    BY <1>3
  <2> QED
    BY <1>4, <1>5, <2>1 DEF Climbs
<1>7. (k - 1) + 1 = k
  BY <1>3
<1> QED
  BY <1>3, <1>6, <1>7

\* The partial sums of the first n amounts.
PartialSums(amounts, s, n) ==
    /\ s \in [0..n -> Int]
    /\ \A k \in 0..n : s[k] = IF k = 0 THEN 0 ELSE s[k - 1] + amounts[k]

\* There are such sums, and one way to form them.
LEMMA SumsExist ==
    ASSUME NEW amounts \in Seq(Int), NEW n \in 0..Len(amounts)
    PROVE  \E s : PartialSums(amounts, s, n)
<1> DEFINE Numbers == {m \in 0..n : \E s : PartialSums(amounts, s, m)}
<1>1. 0 \in Numbers
  <2>1. PartialSums(amounts, [k \in 0..0 |-> 0], 0)
    BY DEF PartialSums
  <2> QED
    BY <2>1
<1>2. ASSUME NEW m \in 0..n, m \in Numbers, m < n PROVE m + 1 \in Numbers
  <2>1. PICK s : PartialSums(amounts, s, m)
    BY <1>2
  <2> DEFINE t == [k \in 0..(m + 1) |-> IF k <= m THEN s[k] ELSE s[m] + amounts[k]]
  <2>2. amounts[m + 1] \in Int
    BY <1>2
  <2>3. t \in [0..(m + 1) -> Int]
    BY <2>1, <2>2 DEF PartialSums
  <2>4. \A k \in 0..(m + 1) : t[k] = IF k = 0 THEN 0 ELSE t[k - 1] + amounts[k]
    BY <2>1 DEF PartialSums
  <2>5. PartialSums(amounts, t, m + 1)
    BY <2>3, <2>4 DEF PartialSums
  <2>6. m + 1 \in 0..n /\ \E u : PartialSums(amounts, u, m + 1)
    BY <1>2, <2>5
  <2> QED
    BY <2>6
<1>3. n \in Nat /\ n \in 0..n
  OBVIOUS
<1>4. Climbs(Numbers, n)
  <2> HIDE DEF Numbers
  <2> QED
    BY <1>1, <1>2 DEF Climbs
<1>5. n \in Numbers
  <2> HIDE DEF Numbers
  <2> QED
    BY <1>3, <1>4, UpTo
<1> QED
  BY <1>5

\* Whatever is formed so is the same.
LEMMA SumsAreOne ==
    ASSUME NEW amounts \in Seq(Int), NEW n \in 0..Len(amounts), NEW s, PartialSums(amounts, s, n),
           NEW t, \A k \in 0..n : t[k] = IF k = 0 THEN 0 ELSE t[k - 1] + amounts[k]
    PROVE  t[n] = s[n]
<1> DEFINE U == {k \in 0..n : s[k] = t[k]}
<1>1. 0 \in U
  BY DEF PartialSums
<1>2. ASSUME NEW k \in 0..n, k \in U, k < n PROVE k + 1 \in U
  BY <1>2 DEF PartialSums
<1>3. n \in Nat /\ n \in 0..n
  OBVIOUS
<1>4. Climbs(U, n)
  <2> HIDE DEF U
  <2> QED
    BY <1>1, <1>2 DEF Climbs
<1>5. n \in U
  <2> HIDE DEF U
  <2> QED
    BY <1>3, <1>4, UpTo
<1> QED
  BY <1>5

\* The total is the last of the partial sums.
LEMMA TotalIsLast ==
    ASSUME NEW amounts \in Seq(Int), NEW s, PartialSums(amounts, s, Len(amounts))
    PROVE  Total(amounts) = s[Len(amounts)]
<1> DEFINE n == Len(amounts)
           Is(u) == u = [k \in 0..n |-> IF k = 0 THEN 0 ELSE u[k - 1] + amounts[k]]
           sum == CHOOSE u : Is(u)
<1>1. n \in Nat /\ \A k \in 1..n : amounts[k] \in Int
  OBVIOUS
<1>2. s = [k \in 0..n |-> s[k]] /\ \A k \in 0..n : s[k] = IF k = 0 THEN 0 ELSE s[k - 1] + amounts[k]
  BY DEF PartialSums
<1>3. Is(s)
  BY <1>2
<1>4. Is(sum)
  <2> HIDE DEF Is
  <2> QED
    BY <1>3
<1>5. \A k \in 0..n : sum[k] = IF k = 0 THEN 0 ELSE sum[k - 1] + amounts[k]
  <2> HIDE DEF sum
  <2> QED
    BY <1>4
<1>6. n \in 0..n
  BY <1>1
<1>7. sum[n] = s[n]
  <2> HIDE DEF sum
  <2> QED
    BY <1>5, <1>6, SumsAreOne
<1>8. Total(amounts) = sum[n]
  BY DEF Total
<1> QED
  <2> HIDE DEF sum
  <2> QED
    BY <1>7, <1>8

\* A total is a number, nothing for no amounts, and grows by what is added.
LEMMA TotalFacts ==
    /\ Total(<<>>) = 0
    /\ \A amounts \in Seq(Int) : Total(amounts) \in Int
    /\ \A amounts \in Seq(Int), x \in Int : Total(Append(amounts, x)) = Total(amounts) + x
<1>1. Total(<<>>) = 0
  <2>1. PartialSums(<<>>, [k \in 0..0 |-> 0], Len(<<>>)) /\ <<>> \in Seq(Int)
    BY DEF PartialSums
  <2> QED
    BY <2>1, TotalIsLast
<1>2. ASSUME NEW amounts \in Seq(Int) PROVE Total(amounts) \in Int
  <2>1. Len(amounts) \in 0..Len(amounts)
    OBVIOUS
  <2>2. PICK s : PartialSums(amounts, s, Len(amounts))
    BY <2>1, SumsExist
  <2>3. s[Len(amounts)] \in Int
    BY <2>1, <2>2 DEF PartialSums
  <2> QED
    BY <2>2, <2>3, TotalIsLast
<1>3. ASSUME NEW amounts \in Seq(Int), NEW x \in Int
      PROVE  Total(Append(amounts, x)) = Total(amounts) + x
  <2> DEFINE more == Append(amounts, x)
             n == Len(amounts)
  <2>1. /\ more \in Seq(Int) /\ Len(more) = n + 1 /\ more[n + 1] = x /\ n \in Nat
        /\ \A k \in 1..n : more[k] = amounts[k]
    OBVIOUS
  <2> HIDE DEF more
  <2>2. PICK s : PartialSums(more, s, n + 1)
    <3>1. n + 1 \in 0..Len(more)
      BY <2>1
    <3> QED
      BY <2>1, <3>1, SumsExist
  <2> DEFINE t == [k \in 0..n |-> s[k]]
  <2>3. PartialSums(amounts, t, n)
    BY <2>1, <2>2 DEF PartialSums
  <2>4. Total(amounts) = t[n]
    <3> HIDE DEF t
    <3> QED
      BY <2>3, TotalIsLast
  <2>5. Total(more) = s[n + 1]
    BY <2>1, <2>2, TotalIsLast
  <2>6. s[n + 1] = s[n] + x
    BY <2>1, <2>2 DEF PartialSums
  <2> QED
    BY <2>1, <2>4, <2>5, <2>6 DEF more
<1> QED
  BY <1>1, <1>2, <1>3

-----------------------------------------------------------------------------
(* The inductive invariant *)

\* A position that is held, and a trade that is done.
Held == [side : {"LONG", "SHORT"}, entry : Nat \ {0}, quantity : Nat \ {0}, from : 1..MaxBars,
         to : {0}, exit : {0}, pnl : {0}, reason : {"NONE"}]
Done == [side : {"LONG", "SHORT"}, entry : Nat \ {0}, quantity : Nat \ {0}, from : 1..MaxBars,
         to : 1..MaxBars, exit : Int, pnl : Int, reason : Reasons]
Runners == [bar : 0..MaxBars, capital : Int, position : Held \cup {NoTrade}, trades : Seq(Done),
            equity : Seq(Int), close : Nat]

\* The position was opened after the warm-up and after the last trade.
Latest(r) ==
    /\ \A k \in DOMAIN r.trades : r.trades[k].to <= r.bar
    /\ Open(r) => /\ r.position.from > WarmUp /\ r.position.from <= r.bar
                  /\ \A k \in DOMAIN r.trades : r.trades[k].to <= r.position.from

\* The end of the backtest has closed nothing yet.
NotEnded(r) == \A k \in DOMAIN r.trades : r.trades[k].reason # "END_OF_BACKTEST"

Accounted(r) == r.capital = Explained(r.trades) - (IF Open(r) THEN EntryFee(r.position) ELSE 0)

\* What holds of the runner between two steps of its loop, and within one.
Kept(r) == r \in Runners /\ Latest(r) /\ InOrder(r.trades) /\ Accounted(r)

RunnerInv ==
    /\ Kept(runner) /\ Len(runner.equity) = runner.bar
    /\ pc = "created" => runner = NewRunner
    /\ pc = "running" => NotEnded(runner) /\ (runner.bar > 0 => runner.close > 0)
    /\ pc = "finished" => ~Open(runner)

RecordInv ==
    /\ record \in [status : {"NONE", "PENDING", "RUNNING", "COMPLETED", "FAILED"},
                   capital : Int, trades : Seq(Done), equity : Seq(Int)]
    /\ record.status = "NONE" => record = NoRecord
    /\ pc = "created" => record.status \in {"NONE", "PENDING"}
    /\ pc \in {"running", "finished"} => record.status \in {"NONE", "RUNNING"}
    /\ record.status # "COMPLETED" => record.trades = <<>>
    /\ InOrder(record.trades)
    /\ record.status = "COMPLETED" => record.capital = Explained(record.trades)

IInv == pc \in {"idle", "created", "running", "finished"} /\ RunnerInv /\ RecordInv

-----------------------------------------------------------------------------
(* The amounts of a trade *)

\* A percentage below a hundred of a positive price is less than the price,
\* and a percentage of a number is a number.
LEMMA Parts ==
    ASSUME NEW pct \in 0..99
    PROVE  /\ \A x \in Int : Part(x, pct) \in Int
           /\ \A x \in Nat \ {0} : Part(x, pct) \in 0..(x - 1)
<1>1. ASSUME NEW x \in Int PROVE Part(x, pct) \in Int
  <2>1. x * pct \in Int
    OBVIOUS
  <2> QED
    BY <2>1 DEF Part
<1>2. ASSUME NEW x \in Nat \ {0} PROVE Part(x, pct) \in 0..(x - 1)
  <2>1. x * pct \in Int /\ 0 <= x * pct /\ x * pct <= x * 99
    OBVIOUS
  <2>2. ASSUME NEW y \in Int, 0 <= y, y <= x * 99 PROVE y \div 100 \in 0..(x - 1)
    BY <2>2
  <2> QED
    BY <2>1, <2>2 DEF Part
<1> QED
  BY <1>1, <1>2

\* Who trades at a positive price pays, or gets, a positive price.
LEMMA SlippedIsPositive ==
    ASSUME NEW price \in Nat \ {0}, NEW buys \in BOOLEAN
    PROVE  Slipped(price, buys) \in Nat \ {0}
<1>1. Part(price, Slip) \in 0..(price - 1)
  BY Parts, Amounts
<1> QED
  BY <1>1 DEF Slipped

LEMMA SlippedIsNumber ==
    ASSUME NEW price \in Int, NEW buys \in BOOLEAN
    PROVE  Slipped(price, buys) \in Int
<1>1. Part(price, Slip) \in Int
  BY Parts, Amounts
<1> QED
  BY <1>1 DEF Slipped

\* The gains and the commissions of trades are sequences of numbers.
LEMMA AmountsOfTrades ==
    /\ \A t \in Done : EntryFee(t) \in Int /\ t.pnl \in Int
    /\ \A t \in Seq(Done) : Pnls(t) \in Seq(Int) /\ EntryFees(t) \in Seq(Int)
<1>1. ASSUME NEW t \in Done PROVE EntryFee(t) \in Int /\ t.pnl \in Int
  <2>1. t.entry * t.quantity \in Int /\ t.pnl \in Int
    BY DEF Done
  <2> QED
    BY <2>1, Parts, Amounts DEF EntryFee
<1>2. ASSUME NEW t \in Seq(Done) PROVE Pnls(t) \in Seq(Int) /\ EntryFees(t) \in Seq(Int)
  <2>1. DOMAIN t = 1..Len(t) /\ Len(t) \in Nat /\ \A k \in 1..Len(t) : t[k] \in Done
    OBVIOUS
  <2>2. Pnls(t) \in [1..Len(t) -> Int] /\ EntryFees(t) \in [1..Len(t) -> Int]
    BY <1>1, <2>1 DEF Pnls, EntryFees
  <2>3. /\ Pnls(t) \in UNION {[1..n -> Int] : n \in Nat}
        /\ EntryFees(t) \in UNION {[1..n -> Int] : n \in Nat}
    BY <2>1, <2>2
  <2> QED
    BY <2>3, SeqDef
<1> QED
  BY <1>1, <1>2

LEMMA ExplainedIsNumber ==
    ASSUME NEW trades \in Seq(Done)
    PROVE  Explained(trades) \in Int
<1>1. Total(Pnls(trades)) \in Int /\ Total(EntryFees(trades)) \in Int
  BY AmountsOfTrades, TotalFacts
<1> QED
  BY <1>1, Amounts DEF Explained

\* What is added to the trades is added to the sums over them.
LEMMA ExplainedGrows ==
    ASSUME NEW trades \in Seq(Done), NEW trade \in Done
    PROVE  Explained(Append(trades, trade)) = Explained(trades) + trade.pnl - EntryFee(trade)
<1> DEFINE more == Append(trades, trade)
<1>1. /\ more \in Seq(Done) /\ DOMAIN more = 1..(Len(trades) + 1) /\ Len(trades) \in Nat
      /\ more[Len(trades) + 1] = trade /\ \A k \in 1..Len(trades) : more[k] = trades[k]
  OBVIOUS
<1> HIDE DEF more
<1>2. Pnls(more) = Append(Pnls(trades), trade.pnl)
  <2>1. Pnls(trades) \in Seq(Int) /\ Len(Pnls(trades)) = Len(trades)
    BY AmountsOfTrades DEF Pnls
  <2>2. \A k \in 1..(Len(trades) + 1) : Append(Pnls(trades), trade.pnl)[k] = more[k].pnl
    BY <1>1, <2>1 DEF Pnls
  <2> QED
    BY <1>1, <2>1, <2>2 DEF Pnls
<1>3. EntryFees(more) = Append(EntryFees(trades), EntryFee(trade))
  <2>1. EntryFees(trades) \in Seq(Int) /\ Len(EntryFees(trades)) = Len(trades)
    BY AmountsOfTrades DEF EntryFees
  <2>2. \A k \in 1..(Len(trades) + 1) :
           Append(EntryFees(trades), EntryFee(trade))[k] = EntryFee(more[k])
    BY <1>1, <2>1 DEF EntryFees
  <2> QED
    BY <1>1, <2>1, <2>2 DEF EntryFees
<1>4. /\ Total(Pnls(trades)) \in Int /\ Total(EntryFees(trades)) \in Int
      /\ trade.pnl \in Int /\ EntryFee(trade) \in Int
      /\ Total(Pnls(more)) = Total(Pnls(trades)) + trade.pnl
      /\ Total(EntryFees(more)) = Total(EntryFees(trades)) + EntryFee(trade)
  BY <1>2, <1>3, AmountsOfTrades, TotalFacts
<1> QED
  BY <1>4, Amounts DEF Explained, more

-----------------------------------------------------------------------------
(* The steps of the runner *)

\* A held position is one, and nothing else is.
LEMMA OpenIsHeld ==
    ASSUME NEW r \in Runners
    PROVE  Open(r) <=> r.position \in Held
BY DEF Runners, Held, NoTrade, Open

LEMMA GainIsNumber ==
    ASSUME NEW position \in Held, NEW price \in Int
    PROVE  Gain(position, price) \in Int
BY DEF Gain, Held

LEMMA Finished ==
    ASSUME NEW p \in Held, NEW to \in 1..MaxBars, NEW exit \in Int, NEW pnl \in Int,
           NEW reason \in Reasons
    PROVE  LET done == [p EXCEPT !.to = to, !.exit = exit, !.pnl = pnl, !.reason = reason] IN
           /\ done.entry = p.entry /\ done.quantity = p.quantity
           /\ done.from = p.from /\ done.to = to /\ done.reason = reason
           /\ done.exit = exit /\ done.pnl = pnl /\ done \in Done
BY DEF Held, Done

\* What an exit leaves: no position, one trade more, and its gain.
LEMMA ExitFields ==
    ASSUME NEW r \in Runners, Open(r), r.bar > 0, NEW price \in Int, NEW reason \in Reasons
    PROVE  \E done \in Done :
              /\ done.entry = r.position.entry /\ done.quantity = r.position.quantity
              /\ done.from = r.position.from /\ done.to = r.bar /\ done.reason = reason
              /\ Exited(r, price, reason).capital = r.capital + done.pnl
              /\ Exited(r, price, reason).trades = Append(r.trades, done)
              /\ Exited(r, price, reason).position = NoTrade
              /\ Exited(r, price, reason).bar = r.bar
              /\ Exited(r, price, reason).equity = r.equity
              /\ Exited(r, price, reason).close = r.close
              /\ Exited(r, price, reason) \in Runners
<1> DEFINE exit == Slipped(price, r.position.side = "SHORT")
           pnl  == Gain(r.position, exit) - Part(exit * r.position.quantity, Fee)
           done == [r.position EXCEPT !.to = r.bar, !.exit = exit, !.pnl = pnl, !.reason = reason]
<1>1. r.position \in Held
  BY OpenIsHeld
<1>2. exit \in Int
  BY SlippedIsNumber
<1>3. pnl \in Int
  <2> HIDE DEF exit
  <2>1. exit * r.position.quantity \in Int
    BY <1>1, <1>2 DEF Held
  <2>2. Gain(r.position, exit) \in Int
    BY <1>1, <1>2, GainIsNumber
  <2>3. Part(exit * r.position.quantity, Fee) \in Int
    BY <2>1, Parts, Amounts
  <2> QED
    BY <2>2, <2>3 DEF pnl
<1> HIDE DEF exit, pnl
<1>4. /\ done.entry = r.position.entry /\ done.quantity = r.position.quantity
      /\ done.from = r.position.from /\ done.to = r.bar /\ done.reason = reason
      /\ done.exit = exit /\ done.pnl = pnl /\ done \in Done
  <2>1. r.bar \in 1..MaxBars
    BY DEF Runners
  <2> QED
    BY <1>1, <1>2, <1>3, <2>1, Finished
<1>5. Exited(r, price, reason)
        = [r EXCEPT !.capital = @ + pnl, !.position = NoTrade, !.trades = Append(@, done)]
  BY DEF Exited, exit, pnl
<1> HIDE DEF done
<1>6. Append(r.trades, done) \in Seq(Done) /\ r.capital + pnl \in Int
  BY <1>3, <1>4 DEF Runners
<1> QED
  BY <1>4, <1>5, <1>6 DEF Runners

\* An exit keeps what holds of the runner.
LEMMA ExitKeeps ==
    ASSUME NEW r, Kept(r), NotEnded(r), Open(r), r.bar > 0,
           NEW price \in Int, NEW reason \in Reasons,
           reason # "END_OF_BACKTEST" => r.position.from < r.bar
    PROVE  /\ Kept(Exited(r, price, reason)) /\ ~Open(Exited(r, price, reason))
           /\ reason # "END_OF_BACKTEST" => NotEnded(Exited(r, price, reason))
           /\ Exited(r, price, reason).bar = r.bar
           /\ Exited(r, price, reason).equity = r.equity
           /\ Exited(r, price, reason).close = r.close
<1> DEFINE x == Exited(r, price, reason)
<1>1. r \in Runners
  BY DEF Kept
<1>2. PICK done \in Done :
        /\ done.entry = r.position.entry /\ done.quantity = r.position.quantity
        /\ done.from = r.position.from /\ done.to = r.bar /\ done.reason = reason
        /\ x.capital = r.capital + done.pnl
        /\ x.trades = Append(r.trades, done)
        /\ x.position = NoTrade /\ x.bar = r.bar /\ x.equity = r.equity /\ x.close = r.close
        /\ x \in Runners
  BY <1>1, ExitFields
<1> HIDE DEF x
<1>3. ~Open(x)
  BY <1>2 DEF Open
<1> DEFINE n == Len(r.trades)
<1>4. /\ n \in Nat /\ DOMAIN r.trades = 1..n /\ DOMAIN x.trades = 1..(n + 1)
      /\ x.trades[n + 1] = done /\ \A k \in 1..n : x.trades[k] = r.trades[k]
      /\ Len(x.trades) = n + 1
      /\ \A k \in 1..n : r.trades[k] \in Done
  BY <1>1, <1>2 DEF Runners
<1>5. r.bar \in Nat /\ done.from \in Nat /\ \A k \in 1..n : r.trades[k].to \in Nat
  <2>1. \A t \in Done : t.from \in Nat /\ t.to \in Nat
    BY Amounts DEF Done
  <2>2. r.bar \in Nat
    BY <1>1, Amounts DEF Runners
  <2> QED
    BY <1>4, <2>1, <2>2
<1> HIDE DEF n
<1>6. Latest(x)
  BY <1>2, <1>3, <1>4, <1>5 DEF Latest, Kept
<1>7. InOrder(x.trades)
  <2>1. done.from <= done.to /\ done.reason \in Reasons
        /\ (done.reason # "END_OF_BACKTEST" => done.from < done.to)
    BY <1>2, <1>5 DEF Kept, Latest
  <2>2. ASSUME NEW k \in 1..(n + 1)
        PROVE  /\ x.trades[k].reason \in Reasons
               /\ x.trades[k].from <= x.trades[k].to
               /\ x.trades[k].reason # "END_OF_BACKTEST" => x.trades[k].from < x.trades[k].to
               /\ x.trades[k].reason = "END_OF_BACKTEST" => k = n + 1
    <3>1. CASE k = n + 1
      BY <1>4, <2>1, <3>1
    <3>2. CASE k \in 1..n
      <4>1. x.trades[k] = r.trades[k] /\ r.trades[k].reason # "END_OF_BACKTEST"
        BY <1>4, <3>2 DEF NotEnded
      <4> QED
        BY <1>4, <3>2, <4>1 DEF Kept, InOrder
    <3> QED
      BY <1>4, <3>1, <3>2
  <2>3. ASSUME NEW k \in 1..(n + 1), k > 1 PROVE x.trades[k - 1].to <= x.trades[k].from
    <3>1. CASE k = n + 1
      <4>1. k - 1 \in 1..n /\ x.trades[k] = done /\ x.trades[k - 1] = r.trades[k - 1]
        BY <1>4, <2>3, <3>1
      <4> QED
        BY <1>2, <1>4, <4>1 DEF Kept, Latest
    <3>2. CASE k \in 1..n
      <4>1. k - 1 \in 1..n /\ x.trades[k] = r.trades[k] /\ x.trades[k - 1] = r.trades[k - 1]
        BY <1>4, <2>3, <3>2
      <4> QED
        BY <1>4, <2>3, <3>2, <4>1 DEF Kept, InOrder
    <3> QED
      BY <1>4, <3>1, <3>2
  <2> QED
    BY <1>4, <2>2, <2>3 DEF InOrder
<1>8. Accounted(x)
  <2>1. EntryFee(r.position) = EntryFee(done)
    BY <1>2 DEF EntryFee
  <2>2. /\ Explained(r.trades) \in Int
        /\ Explained(x.trades) = Explained(r.trades) + done.pnl - EntryFee(done)
    BY <1>1, <1>2, ExplainedGrows, ExplainedIsNumber DEF Runners
  <2>3. EntryFee(done) \in Int /\ done.pnl \in Int
    BY AmountsOfTrades
  <2>4. r.capital = Explained(r.trades) - EntryFee(done)
    BY <2>1 DEF Kept, Accounted
  <2>5. x.capital = Explained(x.trades)
    BY <1>2, <2>2, <2>3, <2>4
  <2>6. Explained(x.trades) \in Int
    BY <2>2, <2>3
  <2> QED
    BY <1>3, <2>5, <2>6 DEF Accounted
<1>9. reason # "END_OF_BACKTEST" => NotEnded(x)
  <2> SUFFICES ASSUME reason # "END_OF_BACKTEST", NEW k \in 1..(n + 1)
               PROVE  x.trades[k].reason # "END_OF_BACKTEST"
    BY <1>4 DEF NotEnded
  <2>1. CASE k = n + 1
    BY <1>2, <1>4, <2>1
  <2>2. CASE k \in 1..n
    BY <1>4, <2>2 DEF NotEnded
  <2> QED
    BY <1>4, <2>1, <2>2
<1> QED
  BY <1>2, <1>3, <1>6, <1>7, <1>8, <1>9 DEF x, Kept

\* A position that is opened, and the runner that holds it.
Begin(side, entry, quantity, from) ==
    [NoTrade EXCEPT !.side = side, !.entry = entry, !.quantity = quantity, !.from = from]
Hold(r, capital, p) == [r EXCEPT !.capital = capital, !.position = p]

LEMMA Begun ==
    ASSUME NEW side \in {"LONG", "SHORT"}, NEW entry \in Nat \ {0}, NEW quantity \in Nat \ {0},
           NEW from \in 1..MaxBars
    PROVE  LET p == Begin(side, entry, quantity, from) IN
               p \in Held /\ p.from = from /\ p.entry = entry /\ p.quantity = quantity
BY DEF Held, NoTrade, Begin

LEMMA Holding ==
    ASSUME NEW r \in Runners, NEW capital \in Int, NEW p \in Held
    PROVE  LET x == Hold(r, capital, p) IN
           /\ x \in Runners /\ x.position = p /\ x.capital = capital
           /\ x.trades = r.trades /\ x.bar = r.bar /\ x.equity = r.equity /\ x.close = r.close
BY DEF Runners, Hold

\* An entry keeps it too; or there is none.
LEMMA EntryKeeps ==
    ASSUME NEW r, Kept(r), NotEnded(r), ~Open(r), r.bar > WarmUp,
           NEW price \in Nat \ {0}, NEW signal \in {"BUY", "SELL"}
    PROVE  /\ Kept(Entered(r, price, signal)) /\ NotEnded(Entered(r, price, signal))
           /\ Entered(r, price, signal).bar = r.bar
           /\ Entered(r, price, signal).equity = r.equity
           /\ Entered(r, price, signal).close = r.close
<1> DEFINE x == Entered(r, price, signal)
           entry == Slipped(price, signal = "BUY")
           quantity == Part(r.capital, Size) \div entry
           fee == Part(entry * quantity, Fee)
           side == IF signal = "BUY" THEN "LONG" ELSE "SHORT"
           p == Begin(side, entry, quantity, r.bar)
<1>1. r \in Runners
  BY DEF Kept
<1>2. entry \in Nat \ {0}
  BY SlippedIsPositive
<1>3. Part(r.capital, Size) \in Int
  BY <1>1, Parts, Amounts DEF Runners
<1>4. quantity \in Int
  <2> HIDE DEF entry
  <2> QED
    BY <1>2, <1>3
<1>5. CASE quantity <= 0
  <2>1. x = r
    BY <1>5 DEF Entered
  <2> HIDE DEF x
  <2> QED
    BY <2>1 DEF x
<1>6. CASE quantity > 0
  <2>1. x = Hold(r, r.capital - fee, p)
    <3>1. ~(quantity <= 0)
      <4> HIDE DEF quantity
      <4> QED
        BY <1>4, <1>6
    <3> QED
      BY <3>1 DEF Entered, Hold, Begin
  <2>2. fee \in Int
    <3> HIDE DEF entry, quantity
    <3>1. entry * quantity \in Int
      BY <1>2, <1>4
    <3> QED
      BY <3>1, Parts, Amounts
  <2> HIDE DEF entry, quantity, x
  <2>3. p \in Held /\ p.from = r.bar /\ p.entry = entry /\ p.quantity = quantity
    <3>1. r.bar \in 1..MaxBars
      BY <1>1, Amounts DEF Runners
    <3>2. side \in {"LONG", "SHORT"} /\ quantity \in Nat \ {0}
      BY <1>4, <1>6
    <3> HIDE DEF side
    <3> QED
      BY <1>2, <3>1, <3>2, Begun
  <2>4. EntryFee(p) = fee
    BY <2>3 DEF EntryFee
  <2> HIDE DEF fee, p
  <2>5. /\ x \in Runners /\ x.position = p /\ x.capital = r.capital - fee
        /\ x.trades = r.trades /\ x.bar = r.bar /\ x.equity = r.equity /\ x.close = r.close
    <3>1. r.capital - fee \in Int
      BY <1>1, <2>2 DEF Runners
    <3> QED
      BY <1>1, <2>1, <2>3, <3>1, Holding
  <2>6. Open(x)
    BY <2>3, <2>5, OpenIsHeld
  <2>7. Latest(x)
    <3>1. r.bar \in Nat /\ r.bar <= r.bar
      BY <1>1 DEF Runners
    <3> QED
      BY <2>3, <2>5, <3>1 DEF Latest, Kept
  <2>8. Accounted(x)
    <3>1. r.capital = Explained(r.trades) - 0
      BY DEF Kept, Accounted
    <3>2. r.capital \in Int /\ r.trades \in Seq(Done)
      BY <1>1 DEF Runners
    <3>3. Explained(r.trades) \in Int
      BY <3>2, ExplainedIsNumber
    <3> QED
      BY <2>2, <2>4, <2>5, <2>6, <3>1, <3>2, <3>3 DEF Accounted
  <2> QED
    BY <2>5, <2>7, <2>8 DEF x, Kept, NotEnded
<1>7. quantity <= 0 \/ quantity > 0
  <2> HIDE DEF quantity
  <2> QED
    BY <1>4
<1> QED
  BY <1>5, <1>6, <1>7

\* The runner as a bar's exits are checked and its signal followed: all is
\* kept, nothing is ended, and the curve and the last close are as they were.
Going(x, r) == /\ Kept(x) /\ NotEnded(x)
               /\ x.bar = r.bar /\ x.equity = r.equity /\ x.close = r.close

LEMMA LevelIsNumber ==
    ASSUME NEW position \in Held
    PROVE  StopPrice(position) \in Int /\ TargetPrice(position) \in Int
<1>1. position.entry \in Int /\ {StopLoss, TakeProfit} \subseteq 0..99
  BY Amounts DEF Held
<1>2. Part(position.entry, StopLoss) \in Int /\ Part(position.entry, TakeProfit) \in Int
  BY <1>1, Parts
<1> QED
  BY <1>1, <1>2 DEF StopPrice, TargetPrice, Level

LEMMA CheckKeeps ==
    ASSUME NEW r, Kept(r), NotEnded(r), r.bar > 0, Open(r) => r.position.from < r.bar,
           NEW b
    PROVE  /\ Going(Checked(r, b), r)
           /\ Open(Checked(r, b)) => Checked(r, b).position.from < r.bar
<1>1. CASE ~Open(r)
  <2>1. Checked(r, b) = r
    BY <1>1 DEF Checked
  <2> QED
    BY <1>1, <2>1 DEF Going
<1>2. CASE Open(r)
  <2>1. r.position \in Held
    BY <1>2, OpenIsHeld DEF Kept
  <2>2. StopPrice(r.position) \in Int /\ TargetPrice(r.position) \in Int
    BY <2>1, LevelIsNumber
  <2>3. "STOP_LOSS" \in Reasons /\ "TAKE_PROFIT" \in Reasons
    BY DEF Reasons
  <2>4. CASE StopHit(r.position, b)
    <3>1. Checked(r, b) = Exited(r, StopPrice(r.position), "STOP_LOSS")
      BY <1>2, <2>4 DEF Checked
    <3> QED
      BY <1>2, <2>2, <2>3, <3>1, ExitKeeps DEF Going
  <2>5. CASE ~StopHit(r.position, b) /\ TargetHit(r.position, b)
    <3>1. Checked(r, b) = Exited(r, TargetPrice(r.position), "TAKE_PROFIT")
      BY <1>2, <2>5 DEF Checked
    <3> QED
      BY <1>2, <2>2, <2>3, <3>1, ExitKeeps DEF Going
  <2>6. CASE ~StopHit(r.position, b) /\ ~TargetHit(r.position, b)
    <3>1. Checked(r, b) = r
      BY <1>2, <2>6 DEF Checked
    <3> QED
      BY <1>2, <3>1 DEF Going
  <2> QED
    BY <2>4, <2>5, <2>6
<1> QED
  BY <1>1, <1>2

LEMMA FollowKeeps ==
    ASSUME NEW r, Kept(r), NotEnded(r), r.bar > 0, Open(r) => r.position.from < r.bar,
           NEW b \in Bars, NEW signal \in Signals, signal # "NONE" => r.bar > WarmUp
    PROVE  Going(Followed(r, b, signal), r)
<1>1. b.close \in Nat \ {0} /\ b.close \in Int
  BY BarsAreTraded
<1>2. CASE ~Open(r) /\ signal = "NONE"
  <2>1. Followed(r, b, signal) = r
    BY <1>2 DEF Followed
  <2> QED
    BY <2>1 DEF Going
<1>3. CASE ~Open(r) /\ signal # "NONE"
  <2>1. Followed(r, b, signal) = Entered(r, b.close, signal) /\ signal \in {"BUY", "SELL"}
    BY <1>3 DEF Followed, Signals
  <2> QED
    BY <1>1, <1>3, <2>1, EntryKeeps DEF Going
<1>4. CASE Open(r) /\ signal = (IF r.position.side = "LONG" THEN "SELL" ELSE "BUY")
  <2>1. Followed(r, b, signal) = Exited(r, b.close, "SIGNAL") /\ "SIGNAL" \in Reasons
    BY <1>4 DEF Followed, Reasons
  <2> QED
    BY <1>1, <1>4, <2>1, ExitKeeps DEF Going
<1>5. CASE Open(r) /\ signal # (IF r.position.side = "LONG" THEN "SELL" ELSE "BUY")
  <2>1. Followed(r, b, signal) = r
    BY <1>5 DEF Followed
  <2> QED
    BY <2>1 DEF Going
<1> QED
  BY <1>2, <1>3, <1>4, <1>5

LEMMA Later ==
    ASSUME NEW r \in Runners, r.bar < MaxBars
    PROVE  LET next == [r EXCEPT !.bar = @ + 1] IN
           /\ next \in Runners /\ next.bar = r.bar + 1 /\ next.capital = r.capital
           /\ next.position = r.position /\ next.trades = r.trades
           /\ next.equity = r.equity /\ next.close = r.close
BY Amounts, SMTT(60) DEF Runners

Note(r, equity, close) == [r EXCEPT !.equity = equity, !.close = close]

LEMMA Noted ==
    ASSUME NEW r \in Runners, NEW equity \in Seq(Int), NEW close \in Nat
    PROVE  LET next == Note(r, equity, close) IN
           /\ next \in Runners /\ next.bar = r.bar /\ next.capital = r.capital
           /\ next.position = r.position /\ next.trades = r.trades
           /\ next.equity = equity /\ next.close = close
BY DEF Runners, Note

\* A turn of the loop keeps what holds of the runner.
LEMMA TurnKeeps ==
    ASSUME NEW r, Kept(r), NotEnded(r), Len(r.equity) = r.bar, r.bar < MaxBars,
           NEW b \in Bars, NEW signal \in Signals, r.bar < WarmUp => signal = "NONE"
    PROVE  LET x == Traded(r, b, signal) IN
           /\ Kept(x) /\ NotEnded(x) /\ Len(x.equity) = x.bar /\ x.close > 0
<1> DEFINE next == [r EXCEPT !.bar = @ + 1]
           checked == Checked(next, b)
           then == Followed(checked, b, signal)
           equity == Append(then.equity, Equity(then, b))
           x == Note(then, equity, b.close)
<1>1. /\ next \in Runners /\ next.bar = r.bar + 1 /\ next.capital = r.capital
      /\ next.position = r.position /\ next.trades = r.trades
      /\ next.equity = r.equity /\ next.close = r.close
  BY Later DEF Kept
<1>2. /\ r.bar \in Nat /\ WarmUp \in Nat
      /\ \A k \in DOMAIN r.trades : r.trades[k].to \in Nat
      /\ Open(r) => r.position.from \in Nat
  <2>1. r \in Runners
    BY DEF Kept
  <2>2. \A t \in Done : t.to \in Nat
    BY Amounts DEF Done
  <2>3. \A k \in DOMAIN r.trades : r.trades[k] \in Done
    BY <2>1 DEF Runners
  <2>4. Open(r) => r.position.from \in Nat
    BY <2>1, OpenIsHeld, Amounts DEF Held
  <2>5. r.bar \in Nat /\ WarmUp \in Nat
    BY <2>1, Amounts DEF Runners
  <2> QED
    BY <2>2, <2>3, <2>4, <2>5
<1> HIDE DEF next
<1>3. Kept(next) /\ NotEnded(next) /\ next.bar > 0 /\ (Open(next) => next.position.from < next.bar)
  <2>1. Open(next) <=> Open(r)
    BY <1>1 DEF Open
  <2>2. /\ \A k \in DOMAIN r.trades : r.trades[k].to <= r.bar
        /\ Open(r) => /\ r.position.from > WarmUp /\ r.position.from <= r.bar
                      /\ \A k \in DOMAIN r.trades : r.trades[k].to <= r.position.from
    BY DEF Kept, Latest
  <2>3. \A k \in DOMAIN r.trades : r.trades[k].to <= next.bar
    BY <1>1, <1>2, <2>2
  <2>4. Latest(next)
    <3>1. CASE Open(r)
      <4>1. /\ r.position.from > WarmUp /\ r.position.from <= r.bar /\ r.position.from \in Nat
            /\ \A k \in DOMAIN r.trades : r.trades[k].to <= r.position.from
        BY <1>2, <2>2, <3>1, Zenon
      <4>2. /\ next.position.from > WarmUp /\ next.position.from <= next.bar
            /\ \A k \in DOMAIN next.trades : next.trades[k].to <= next.position.from
        BY <1>1, <1>2, <4>1
      <4>3. \A k \in DOMAIN next.trades : next.trades[k].to <= next.bar
        BY <1>1, <2>3
      <4> QED
        BY <4>2, <4>3 DEF Latest
    <3>2. CASE ~Open(r)
      BY <1>1, <2>1, <2>3, <3>2 DEF Latest
    <3> QED
      BY <3>1, <3>2
  <2>5. Accounted(next)
    BY <1>1, <2>1 DEF Accounted, Kept
  <2>6. Open(next) => next.position.from < next.bar
    <3> SUFFICES ASSUME Open(r) PROVE next.position.from < next.bar
      BY <2>1
    <3>1. r.position.from <= r.bar /\ r.position.from \in Nat
      BY <1>2, <2>2, Zenon
    <3> QED
      BY <1>1, <1>2, <3>1
  <2> QED
    BY <1>1, <1>2, <2>4, <2>5, <2>6 DEF Kept, NotEnded
<1>4. Going(checked, next) /\ (Open(checked) => checked.position.from < next.bar)
  BY <1>3, CheckKeeps
<1> HIDE DEF checked
<1>5. signal # "NONE" => checked.bar > WarmUp
  BY <1>1, <1>2, <1>4 DEF Going
<1>6. Going(then, next)
  <2>1. Kept(checked) /\ NotEnded(checked) /\ checked.bar > 0
        /\ (Open(checked) => checked.position.from < checked.bar)
    BY <1>3, <1>4 DEF Going
  <2>2. Going(then, checked)
    BY <1>5, <2>1, FollowKeeps
  <2> QED
    BY <1>4, <2>2 DEF Going
<1> HIDE DEF then
<1>7. Equity(then, b) \in Int /\ b.close \in Nat \ {0} /\ then \in Runners
  <2>1. then \in Runners /\ then.capital \in Int
    BY <1>6 DEF Going, Kept, Runners
  <2>2. b.close \in Nat \ {0}
    BY BarsAreTraded
  <2>3. Open(then) => Gain(then.position, b.close) \in Int
    BY <2>1, <2>2, OpenIsHeld, GainIsNumber
  <2> QED
    BY <2>1, <2>2, <2>3 DEF Equity
<1>8. equity \in Seq(Int) /\ Len(equity) = Len(then.equity) + 1
  BY <1>7 DEF Runners
<1> HIDE DEF equity
<1>9. /\ x \in Runners /\ x.bar = then.bar /\ x.capital = then.capital
      /\ x.position = then.position /\ x.trades = then.trades
      /\ Len(x.equity) = Len(then.equity) + 1 /\ x.close = b.close
  BY <1>7, <1>8, Noted, SMTT(60)
<1>10. x = Traded(r, b, signal)
  BY DEF Traded, then, checked, next, Note, equity
<1> HIDE DEF x
<1>11. Open(x) <=> Open(then)
  BY <1>9 DEF Open
<1>12. Kept(x) /\ NotEnded(x)
  BY <1>6, <1>9, <1>11 DEF Going, Kept, Latest, Accounted, NotEnded
<1>13. Len(x.equity) = x.bar /\ x.close > 0
  BY <1>1, <1>2, <1>6, <1>7, <1>9 DEF Going
<1> QED
  BY <1>10, <1>12, <1>13

\* The end of the bars keeps it too, and closes what is open.
LEMMA EndKeeps ==
    ASSUME NEW r, Kept(r), NotEnded(r), r.bar > 0
    PROVE  /\ Kept(Ended(r)) /\ ~Open(Ended(r))
           /\ Ended(r).bar = r.bar /\ Ended(r).equity = r.equity
<1>1. CASE Open(r)
  <2>1. Ended(r) = Exited(r, r.close, "END_OF_BACKTEST") /\ "END_OF_BACKTEST" \in Reasons
    BY <1>1 DEF Ended, Reasons
  <2>2. r.close \in Int
    BY DEF Kept, Runners
  <2> QED
    BY <1>1, <2>1, <2>2, ExitKeeps
<1>2. CASE ~Open(r)
  BY <1>2 DEF Ended
<1> QED
  BY <1>1, <1>2

\* A new runner has traded nothing.
LEMMA NewIsKept == /\ Kept(NewRunner) /\ NotEnded(NewRunner) /\ ~Open(NewRunner)
                   /\ Len(NewRunner.equity) = NewRunner.bar /\ NewRunner.bar = 0
                   /\ InOrder(<<>>)
<1>1. NewRunner \in Runners /\ ~Open(NewRunner) /\ NewRunner.trades = <<>>
      /\ NewRunner.capital = Initial /\ NewRunner.bar = 0 /\ NewRunner.equity = <<>>
  BY Amounts DEF NewRunner, Runners, Open
<1>2. InOrder(<<>>) /\ Latest(NewRunner) /\ NotEnded(NewRunner)
  BY <1>1 DEF InOrder, Latest, NotEnded
<1>3. Accounted(NewRunner)
  <2>1. Pnls(<<>>) = <<>> /\ EntryFees(<<>>) = <<>>
    BY DEF Pnls, EntryFees
  <2>2. Explained(<<>>) = Initial
    BY <2>1, TotalFacts, Amounts DEF Explained
  <2> QED
    BY <1>1, <2>2, Amounts DEF Accounted
<1> QED
  BY <1>1, <1>2, <1>3 DEF Kept

-----------------------------------------------------------------------------
(* The theorems *)

LEMMA Begins == Init => IInv
<1> SUFFICES ASSUME Init PROVE IInv
  OBVIOUS
<1>1. RunnerInv
  BY NewIsKept DEF Init, RunnerInv
<1>2. RecordInv
  BY NewIsKept DEF Init, RecordInv, NoRecord
<1> QED
  BY <1>1, <1>2 DEF Init, IInv

\* Every step keeps the invariant.
LEMMA Continues == IInv /\ [Next]_vars => IInv'
<1> SUFFICES ASSUME IInv, [Next]_vars PROVE IInv'
  OBVIOUS
<1> USE DEF IInv
<1>1. CASE Create
  <2>1. RunnerInv'
    BY <1>1, NewIsKept DEF Create, RunnerInv
  <2>2. RecordInv'
    BY <1>1, NewIsKept DEF Create, RecordInv, NoRecord
  <2> QED
    BY <1>1, <2>1, <2>2 DEF Create
<1>2. CASE Start
  <2>1. CASE record.status = "NONE"
    BY <1>2, <2>1 DEF Start, RunnerInv, RecordInv
  <2>2. CASE record.status # "NONE"
    <3>1. /\ record' = [record EXCEPT !.status = "RUNNING"]
          /\ pc = "created" /\ pc' = "running" /\ runner' = runner /\ runner = NewRunner
      BY <1>2, <2>2 DEF Start, RunnerInv
    <3>2. RunnerInv'
      BY <3>1, NewIsKept DEF RunnerInv
    <3>3. RecordInv'
      BY <3>1 DEF RecordInv
    <3> QED
      BY <3>1, <3>2, <3>3
  <2> QED
    BY <2>1, <2>2
<1>3. CASE Bar
  <2>1. PICK b \in Bars, signal \in Signals :
           /\ runner.bar < WarmUp => signal = "NONE"
           /\ runner' = Traded(runner, b, signal)
    BY <1>3 DEF Bar
  <2>2. pc = "running" /\ runner.bar < MaxBars /\ pc' = pc /\ record' = record
    BY <1>3 DEF Bar
  <2>3. Kept(runner') /\ NotEnded(runner') /\ Len(runner'.equity) = runner'.bar
        /\ runner'.close > 0
    BY <2>1, <2>2, TurnKeeps DEF RunnerInv
  <2>4. RunnerInv'
    BY <2>2, <2>3 DEF RunnerInv
  <2>5. RecordInv'
    BY <2>2 DEF RecordInv
  <2> QED
    BY <2>2, <2>4, <2>5
<1>4. CASE Finish
  <2>1. Kept(runner') /\ ~Open(runner') /\ Len(runner'.equity) = runner'.bar
    BY <1>4, EndKeeps DEF Finish, RunnerInv
  <2>2. RunnerInv'
    BY <1>4, <2>1 DEF Finish, RunnerInv
  <2>3. RecordInv'
    BY <1>4 DEF Finish, RecordInv
  <2> QED
    BY <1>4, <2>2, <2>3 DEF Finish
<1>5. CASE Fail
  <2>1. RunnerInv'
    BY <1>5 DEF Fail, RunnerInv
  <2>2. RecordInv'
    BY <1>5 DEF Fail, RecordInv
  <2> QED
    BY <1>5, <2>1, <2>2 DEF Fail
<1>6. CASE Save
  <2>1. RunnerInv'
    BY <1>6 DEF Save, RunnerInv
  <2>2. /\ runner \in Runners /\ InOrder(runner.trades)
        /\ runner.capital = Explained(runner.trades)
    <3>1. runner \in Runners /\ InOrder(runner.trades) /\ ~Open(runner) /\ Accounted(runner)
      BY <1>6 DEF Save, RunnerInv, Kept
    <3>2. runner.capital = Explained(runner.trades) - 0
      BY <3>1 DEF Accounted
    <3>3. Explained(runner.trades) \in Int
      BY <3>1, ExplainedIsNumber DEF Runners
    <3> QED
      BY <3>1, <3>2, <3>3
  <2>3. /\ record' = [status |-> "COMPLETED", capital |-> runner.capital,
                      trades |-> runner.trades, equity |-> runner.equity]
        /\ pc' = "idle"
    BY <1>6 DEF Save
  <2>4. RecordInv'
    BY <2>2, <2>3 DEF RecordInv, Runners
  <2> QED
    BY <2>1, <2>3, <2>4
<1>7. CASE Stop
  <2>1. RunnerInv'
    BY <1>7 DEF Stop, RunnerInv
  <2>2. RecordInv'
    BY <1>7 DEF Stop, RecordInv
  <2> QED
    BY <1>7, <2>1, <2>2 DEF Stop
<1>8. CASE Delete
  <2>1. RunnerInv'
    BY <1>8 DEF Delete, RunnerInv
  <2>2. RecordInv'
    BY <1>8, NewIsKept DEF Delete, RecordInv, NoRecord
  <2> QED
    BY <1>8, <2>1, <2>2 DEF Delete
<1>9. CASE UNCHANGED vars
  BY <1>9 DEF vars, RunnerInv, RecordInv
<1> QED
  BY <1>1, <1>2, <1>3, <1>4, <1>5, <1>6, <1>7, <1>8, <1>9 DEF Next

\* The runner's trades and its capital agree at every moment, and so do those
\* of a stored result.
THEOREM RunnerAccounts == Spec => []IInv
BY Begins, Continues, PTL DEF Spec

\* What is stored and what the runner keeps has its types: a position is held
\* or there is none, and the curve has a value for every bar.
THEOREM TypeCorrect == Spec => []TypeOK
<1>1. IInv => TypeOK
  <2> SUFFICES ASSUME IInv PROVE TypeOK
    OBVIOUS
  <2>1. Done \subseteq Trades /\ Held \subseteq Trades
    BY Amounts DEF Done, Held, Trades, Reasons
  <2>2. record.trades \in Seq(Trades) /\ runner.trades \in Seq(Trades)
    <3>1. record.trades \in Seq(Done) /\ runner.trades \in Seq(Done)
      BY DEF IInv, RunnerInv, RecordInv, Kept, Runners
    <3> QED
      BY <2>1, <3>1, SeqMonotonic
  <2>3. runner.bar \in 0..MaxBars /\ runner.capital \in Int /\ runner.position \in Trades \cup {NoTrade}
    BY <2>1 DEF IInv, RunnerInv, Kept, Runners
  <2> QED
    BY <2>2, <2>3 DEF IInv, RunnerInv, RecordInv, TypeOK
<1> QED
  BY <1>1, RunnerAccounts, PTL

\* However many bars there are and whatever they and the strategy's signals
\* are, trades follow one another: one position at a time, none closed on the
\* bar that opened it but by the end of the backtest, none opened in the
\* warm-up, and no result stored with a position still open (BacktestRunner).
THEOREM TradesFollow == Spec => []TradesInOrder
<1>1. IInv => TradesInOrder
  <2> SUFFICES ASSUME IInv PROVE TradesInOrder
    OBVIOUS
  <2>1. InOrder(runner.trades) /\ InOrder(record.trades)
    BY DEF IInv, RunnerInv, RecordInv, Kept
  <2>2. ASSUME Open(runner)
        PROVE  /\ runner.position.from > WarmUp /\ pc # "finished"
               /\ runner.trades # <<>> => runner.trades[Len(runner.trades)].to <= runner.position.from
    <3>1. runner.trades # <<>> => Len(runner.trades) \in DOMAIN runner.trades
      BY DEF IInv, RunnerInv, Kept, Runners
    <3> QED
      BY <2>2, <3>1 DEF IInv, RunnerInv, Kept, Latest
  <2> QED
    BY <2>1, <2>2 DEF IInv, RunnerInv, RecordInv, TradesInOrder
<1> QED
  BY <1>1, RunnerAccounts, PTL

\* However many trades there are and whatever the fees and the slippage, the
\* capital is the initial one with every gain and every commission counted
\* once (_enter_position, _exit_position).
THEOREM CapitalAccounts == Spec => []CapitalExplained
<1>1. IInv => CapitalExplained
  BY DEF IInv, RunnerInv, RecordInv, Kept, Accounted, CapitalExplained
<1> QED
  BY <1>1, RunnerAccounts, PTL

\* A backtest holds in both ways (run_backtest).
THEOREM BacktestsHold == Spec => []BacktestHolds
<1>1. TradesInOrder /\ CapitalExplained => BacktestHolds
  BY DEF BacktestHolds
<1> QED
  BY <1>1, TradesFollow, CapitalAccounts, PTL

-----------------------------------------------------------------------------
(* The funds ledger: whoever has written the row holds the newest entry    *)


\* Nothing of a set of entries is as late as one of them.
NewestOf(e, entered) == e \in entered /\ \A f \in entered : f # e => f.date < e.date

\* Entries are of the past, of one date each, and leave no debt.
EntriesFit(entered, until) ==
    /\ \A e \in entered : e.date \in Nat /\ e.date < until /\ e.amount \in Int /\ e.balance \in Nat
    /\ \A e, f \in entered : e.date = f.date => e = f

\* Who has not written the row adds nothing.
Spectates(r) ==
    LET q == request[r] IN
    /\ q.entries = {}
    /\ q.pc \in {"idle", "creating", "writing", "written"}
    /\ q.pc = "writing" => q.left = q.read /\ q.read \in Nat
    /\ q.amount \in Nat /\ (q.pc # "idle" => q.amount > 0) /\ q.kind \in L!Kinds

\* Who has written it leaves what its newest entry says, or has reset the cash.
Writes(r) ==
    LET q == request[r] IN
    /\ q.pc \in {"writing", "written"} /\ q.left \in Nat /\ q.read \in Nat
    /\ q.amount \in Nat \ {0} /\ q.kind \in L!Kinds
    /\ q.pc = "writing" => q.left = q.read /\ q.read = Opening /\ q.entries # {}
    /\ q.kind = "reset" /\ q.pc = "written" => q.left = Opening
    /\ q.entries = {} => q.kind = "reset" /\ q.left # q.read /\ q.pc = "written"
    /\ q.entries # {} => /\ q.kind = "reset" => q.left = q.read
                         /\ \E e \in q.entries : e.balance = q.left /\ NewestOf(e, q.entries)
    /\ EntriesFit(q.entries, clock)
    /\ \A e \in q.entries, f \in ledger : f.date < e.date

FundsInv ==
    /\ clock \in Nat /\ silent \in BOOLEAN /\ cash \in Nat \cup {L!NoFunds}
    /\ EntriesFit(ledger, clock) /\ (ledger # {} => cash # L!NoFunds)
    /\ cash # L!NoFunds /\ ~silent => \E e \in ledger : e.balance = cash /\ NewestOf(e, ledger)
    /\ DOMAIN request = Requests /\ writer \in Requests \cup {L!Nobody}
    /\ \A r \in Requests : IF writer = r THEN Writes(r) ELSE Spectates(r)

\* A step of one request that adds no entry to the ledger leaves the others as
\* they were.
LEMMA OthersStay ==
    ASSUME FundsInv, NEW r \in Requests, request' = [request EXCEPT ![r] = request'[r]],
           clock' \in {clock, clock + 1}, ledger' = ledger,
           NEW o \in Requests, o # r
    PROVE  /\ EntriesFit(ledger, clock)'
           /\ writer = o => Writes(o)'
           /\ writer # o => Spectates(o)'
<1>1. request'[o] = request[o] /\ clock \in Nat /\ clock' >= clock /\ clock' \in Nat
  BY DEF FundsInv
<1>2. \A entered : EntriesFit(entered, clock) => EntriesFit(entered, clock')
  BY <1>1 DEF EntriesFit
<1>3. EntriesFit(ledger, clock)'
  BY <1>2 DEF FundsInv, EntriesFit
<1>4. ASSUME writer = o PROVE Writes(o)'
  <2>1. Writes(o)
    BY <1>4 DEF FundsInv
  <2>2. EntriesFit(request'[o].entries, clock')
    BY <1>1, <1>2, <2>1 DEF Writes, EntriesFit
  <2> QED
    BY <1>1, <2>1, <2>2 DEF Writes
<1>5. ASSUME writer # o PROVE Spectates(o)'
  BY <1>1, <1>5 DEF FundsInv, Spectates
<1> QED
  BY <1>3, <1>4, <1>5

LEMMA FundsBegin == ASSUME L!Init PROVE FundsInv
<1>1. \A r \in Requests : writer # r /\ request[r] = L!Idle
  BY Moneys DEF L!Init
<1>2. \A r \in Requests : Spectates(r)
  BY <1>1 DEF Spectates, L!Idle, L!Kinds
<1> QED
  BY <1>1, <1>2 DEF L!Init, FundsInv, EntriesFit

\* A step that neither books nor settles.
LEMMA FundsStay ==
    ASSUME FundsInv, NEW r \in Requests, request' = [request EXCEPT ![r] = request'[r]],
           clock' \in {clock, clock + 1}, UNCHANGED <<ledger, cash, silent>>,
           \/ writer' = r /\ writer \in {r, L!Nobody} /\ Writes(r)'
           \/ writer' # r /\ Spectates(r)'
              /\ writer' = IF writer = r THEN L!Nobody ELSE writer
    PROVE  FundsInv'
<1>1. EntriesFit(ledger, clock)' /\ clock' \in Nat /\ DOMAIN request' = Requests
  <2>1. EntriesFit(ledger, clock)' 
    BY DEF FundsInv, EntriesFit
  <2> QED
    BY <2>1 DEF FundsInv
<1>2. writer' \in Requests \cup {L!Nobody}
  BY DEF FundsInv
<1>3. ASSUME NEW o \in Requests PROVE IF writer' = o THEN Writes(o)' ELSE Spectates(o)'
  <2>1. CASE o = r
    BY <2>1
  <2>2. CASE o # r
    <3>1. writer' = o <=> writer = o
      BY <2>2, Moneys
    <3> QED
      BY <2>2, <3>1, OthersStay
  <2> QED
    BY <2>1, <2>2
<1> QED
  BY <1>1, <1>2, <1>3 DEF FundsInv, NewestOf

LEMMA FundsBegun ==
    ASSUME FundsInv, NEW r \in Requests, L!Begin(r)
    PROVE  FundsInv'
<1>1. PICK kind \in L!Kinds, amount \in Sums : request' = [request EXCEPT ![r] = [L!Idle EXCEPT
              !.pc = IF cash = L!NoFunds THEN "creating" ELSE "writing",
              !.kind = kind, !.amount = amount, !.begun = clock, !.read = cash, !.left = cash]]
  BY DEF L!Begin
<1>2. writer # r /\ request[r] = L!Idle
  <2>1. request[r] = L!Idle
    BY DEF L!Begin
  <2> QED
    BY <2>1 DEF FundsInv, Writes, L!Idle
<1>3. request'[r] = [L!Idle EXCEPT
              !.pc = IF cash = L!NoFunds THEN "creating" ELSE "writing",
              !.kind = kind, !.amount = amount, !.begun = clock, !.read = cash, !.left = cash]
  BY <1>1 DEF FundsInv
<1>4. Spectates(r)'
  BY <1>3, Moneys DEF Spectates, L!Idle, FundsInv, L!NoFunds
<1> QED
  BY <1>1, <1>2, <1>3, <1>4, FundsStay DEF L!Begin

LEMMA FundsMade ==
    ASSUME FundsInv, NEW r \in Requests, L!CreateFunds(r)
    PROVE  FundsInv'
<1>1. writer # r /\ Spectates(r) /\ request[r].pc = "creating"
  BY DEF FundsInv, Writes, L!CreateFunds
<1>2. CASE cash = L!NoFunds
  <2>1. /\ request' = [request EXCEPT ![r].pc = "writing", ![r].read = Opening, ![r].left = Opening,
                              ![r].entries = {L!Entry(L!Dated(r), Opening, Opening)}]
        /\ writer' = r /\ clock' = clock + 1 /\ writer = L!Nobody
    BY <1>1, <1>2 DEF L!CreateFunds, L!Free
  <2> DEFINE q == request[r]
             e == L!Entry(clock, Opening, Opening)
  <2>2. /\ request'[r].pc = "writing" /\ request'[r].read = Opening /\ request'[r].left = Opening
        /\ request'[r].entries = {e} /\ request'[r].kind = q.kind /\ request'[r].amount = q.amount
    BY <2>1 DEF FundsInv, L!Dated
  <2>3. e.date = clock /\ e.amount = Opening /\ e.balance = Opening /\ clock \in Nat /\ Opening \in Nat
    BY Moneys DEF L!Entry, FundsInv
  <2> HIDE DEF e
  <2>4. EntriesFit({e}, clock')
    BY <2>1, <2>3 DEF EntriesFit
  <2>5. \A f \in ledger : f.date < e.date
    BY <2>3 DEF FundsInv, EntriesFit
  <2>6. Writes(r)'
    <3>1. q.amount \in Nat \ {0} /\ q.kind \in L!Kinds
      BY <1>1 DEF Spectates
    <3>2. e \in request'[r].entries /\ NewestOf(e, request'[r].entries)
      BY <2>2 DEF NewestOf
    <3>3. \A f \in request'[r].entries, g \in ledger' : g.date < f.date
      BY <2>2, <2>5 DEF L!CreateFunds
    <3> QED
      BY <2>2, <2>3, <2>4, <3>1, <3>2, <3>3 DEF Writes
  <2> QED
    BY <2>1, <2>6, FundsStay DEF L!CreateFunds
<1>3. CASE cash # L!NoFunds
  <2>1. request' = [request EXCEPT ![r] = L!Idle] /\ UNCHANGED <<writer, clock>>
    BY <1>3 DEF L!CreateFunds
  <2>2. Spectates(r)'
    BY <2>1 DEF Spectates, L!Idle, FundsInv, L!Kinds
  <2>3. request'[r] = L!Idle
    BY <2>1 DEF FundsInv
  <2> QED
    BY <1>1, <2>1, <2>2, <2>3, FundsStay DEF L!CreateFunds
<1> QED
  BY <1>2, <1>3

LEMMA FundsDropped ==
    ASSUME FundsInv, NEW r \in Requests, L!Refuse(r) \/ L!Fail(r)
    PROVE  FundsInv'
<1>1. /\ request' = [request EXCEPT ![r] = L!Idle]
      /\ writer' = IF writer = r THEN L!Nobody ELSE writer
      /\ UNCHANGED <<cash, ledger, clock, silent>>
  BY DEF L!Refuse, L!Fail
<1>2. request'[r] = L!Idle
  BY <1>1 DEF FundsInv
<1>3. Spectates(r)' /\ writer' # r
  BY <1>1, <1>2, Moneys DEF Spectates, L!Idle, L!Kinds
<1> QED
  BY <1>1, <1>2, <1>3, FundsStay

LEMMA FundsWritten ==
    ASSUME FundsInv, NEW r \in Requests, L!Write(r)
    PROVE  FundsInv'
<1> DEFINE q == request[r]
           left == L!Moved(q)
           e == L!Entry(clock, left - q.read, left)
<1>1. /\ q.pc = "writing" /\ q.kind # "look" /\ L!Free(r)
      /\ q.kind = "withdraw" => q.read >= q.amount
      /\ writer' = IF left = q.read THEN writer ELSE r
      /\ clock' = clock + 1 /\ UNCHANGED <<cash, ledger, silent>>
  BY DEF L!Write
<1>2. /\ q.amount \in Nat \ {0} /\ q.kind \in {"deposit", "withdraw", "reset"} /\ q.read \in Nat
      /\ q.left = q.read
      /\ writer # r => q.entries = {}
      /\ writer = r => /\ q.read = Opening /\ q.entries # {} /\ EntriesFit(q.entries, clock)
                       /\ \A d \in q.entries, f \in ledger : f.date < d.date
                       /\ \E d \in q.entries : d.balance = q.left /\ NewestOf(d, q.entries)
  <2>1. CASE writer = r
    BY <1>1, <2>1 DEF FundsInv, Writes, L!Kinds
  <2>2. CASE writer # r
    BY <1>1, <2>2 DEF FundsInv, Spectates, L!Kinds
  <2> QED
    BY <2>1, <2>2
<1>3. /\ left \in Nat
      /\ q.kind = "reset" => left = Opening
      /\ q.kind # "reset" => left # q.read
  <2>1. left = CASE q.kind = "deposit"  -> q.read + q.amount
                [] q.kind = "withdraw" -> q.read - q.amount
                [] q.kind = "reset"    -> Opening
    BY DEF L!Moved
  <2>2. CASE q.kind = "deposit"
    <3>1. left = q.read + q.amount
      BY <2>1, <2>2
    <3> QED
      BY <1>2, <2>2, <3>1
  <2>3. CASE q.kind = "withdraw"
    <3>1. left = q.read - q.amount /\ q.read >= q.amount
      BY <1>1, <2>1, <2>3
    <3> QED
      BY <1>2, <2>3, <3>1
  <2>4. CASE q.kind = "reset"
    <3>1. left = Opening
      BY <2>1, <2>4
    <3> QED
      BY <2>4, <3>1, Moneys
  <2> QED
    BY <1>2, <2>2, <2>3, <2>4
<1> HIDE DEF left
<1>4. request' = [request EXCEPT ![r].pc = "written", ![r].left = left,
                  ![r].entries = IF q.kind = "reset" THEN @ ELSE @ \cup {e}]
  BY DEF L!Write, L!Dated, left
<1>5. /\ request'[r].pc = "written" /\ request'[r].left = left
      /\ request'[r].kind = q.kind /\ request'[r].amount = q.amount /\ request'[r].read = q.read
      /\ request'[r].entries = IF q.kind = "reset" THEN q.entries ELSE q.entries \cup {e}
  BY <1>4 DEF FundsInv
<1>6. e.date = clock /\ e.amount = left - q.read /\ e.balance = left /\ e.amount \in Int
      /\ clock \in Nat
  BY <1>2, <1>3 DEF L!Entry, FundsInv
<1>7. \A f \in ledger : f.date \in Nat /\ f.date < clock
  BY DEF FundsInv, EntriesFit
<1>8. \A f \in q.entries : f.date \in Nat /\ f.date < clock
  BY <1>2 DEF EntriesFit
<1> HIDE DEF e
<1>9. CASE q.kind # "reset"
  <2>1. writer' = r /\ writer \in {r, L!Nobody}
    BY <1>1, <1>3, <1>9 DEF L!Free
  <2>2. request'[r].entries = q.entries \cup {e}
    BY <1>5, <1>9
  <2>3. EntriesFit(request'[r].entries, clock')
    <3>1. EntriesFit(q.entries, clock)
      BY <1>2 DEF EntriesFit
    <3> QED
      BY <1>1, <1>3, <1>6, <1>8, <2>2, <3>1 DEF EntriesFit
  <2>4. e \in request'[r].entries /\ NewestOf(e, request'[r].entries)
    BY <1>6, <1>8, <2>2 DEF NewestOf
  <2>5. \A d \in request'[r].entries, f \in ledger' : f.date < d.date
    BY <1>1, <1>2, <1>6, <1>7, <2>2
  <2>6. Writes(r)'
    BY <1>1, <1>2, <1>3, <1>5, <1>6, <1>9, <2>3, <2>4, <2>5 DEF Writes, L!Kinds
  <2> QED
    BY <1>1, <1>4, <2>1, <2>6, FundsStay
<1>10. CASE q.kind = "reset" /\ writer = r
  <2>1. /\ left = q.read /\ writer' = r /\ request'[r].entries = q.entries
    BY <1>1, <1>2, <1>3, <1>5, <1>10
  <2>2. EntriesFit(q.entries, clock')
    BY <1>1, <1>2, <1>6, <1>10 DEF EntriesFit
  <2>3. Writes(r)'
    BY <1>1, <1>2, <1>3, <1>5, <1>10, <2>1, <2>2 DEF Writes, L!Kinds
  <2> QED
    BY <1>1, <1>4, <1>10, <2>1, <2>3, FundsStay
<1>11. CASE q.kind = "reset" /\ writer # r /\ left # q.read
  <2>1. writer' = r /\ writer \in {r, L!Nobody} /\ request'[r].entries = {}
    BY <1>1, <1>2, <1>5, <1>11 DEF L!Free
  <2>2. Writes(r)'
    BY <1>2, <1>3, <1>5, <1>11, <2>1 DEF Writes, EntriesFit, L!Kinds
  <2> QED
    BY <1>1, <1>4, <2>1, <2>2, FundsStay
<1>12. CASE q.kind = "reset" /\ writer # r /\ left = q.read
  <2>1. writer' = writer /\ request'[r].entries = {}
    BY <1>1, <1>2, <1>5, <1>12
  <2>2. Spectates(r)'
    BY <1>2, <1>5, <1>12, <2>1 DEF Spectates, L!Kinds
  <2> QED
    BY <1>1, <1>4, <1>12, <2>1, <2>2, FundsStay
<1> QED
  BY <1>9, <1>10, <1>11, <1>12

LEMMA FundsBooked ==
    ASSUME FundsInv, NEW r \in Requests, L!Commit(r)
    PROVE  FundsInv'
<1> DEFINE q == request[r]
<1>1. /\ ledger' = ledger \cup q.entries
      /\ request' = [request EXCEPT ![r] = L!Idle] /\ clock' = clock
      /\ q.pc = "written" \/ (q.pc = "writing" /\ q.kind = "look")
  BY DEF L!Commit
<1>2. request'[r] = L!Idle
  BY <1>1 DEF FundsInv
<1>3. Spectates(r)'
  BY <1>2 DEF Spectates, L!Idle, L!Kinds
<1>4. CASE writer # r
  <2>1. UNCHANGED <<cash, writer, silent>>
    BY <1>4 DEF L!Commit
  <2>2. ledger' = ledger
    BY <1>1, <1>4 DEF FundsInv, Spectates
  <2> QED
    BY <1>1, <1>2, <1>3, <1>4, <2>1, <2>2, FundsStay
<1>5. CASE writer = r
  <2>1. /\ cash' = q.left /\ writer' = L!Nobody
        /\ silent' = (q.kind = "reset" /\ q.left # q.read)
    BY <1>5 DEF L!Commit
  <2>2. Writes(r)
    BY <1>5 DEF FundsInv
  <2>3. EntriesFit(ledger', clock')
    <3>1. EntriesFit(q.entries, clock) /\ EntriesFit(ledger, clock)
          /\ \A e \in q.entries, f \in ledger : f.date < e.date
      BY <2>2 DEF Writes, FundsInv
    <3> QED
      BY <1>1, <3>1 DEF EntriesFit
  <2>4. ASSUME ~silent' PROVE \E e \in ledger' : e.balance = cash' /\ NewestOf(e, ledger')
    <3>1. q.entries # {}
      BY <2>1, <2>2, <2>4 DEF Writes
    <3>2. PICK e \in q.entries : e.balance = q.left /\ NewestOf(e, q.entries)
      BY <2>2, <3>1 DEF Writes
    <3>3. NewestOf(e, ledger')
      BY <1>1, <2>2, <3>2 DEF NewestOf, Writes
    <3> QED
      BY <1>1, <2>1, <3>2, <3>3
  <2>5. ASSUME NEW o \in Requests PROVE writer' # o /\ Spectates(o)'
    <3>1. CASE o = r
      BY <1>3, <2>1, <3>1, Moneys
    <3>2. CASE o # r
      <4>1. request'[o] = request[o] /\ Spectates(o)
        BY <1>1, <1>5, <3>2 DEF FundsInv
      <4> QED
        BY <2>1, <4>1, Moneys DEF Spectates
    <3> QED
      BY <3>1, <3>2
  <2>6. cash' \in Nat /\ cash' # L!NoFunds /\ silent' \in BOOLEAN
    BY <2>1, <2>2 DEF Writes, L!NoFunds
  <2> QED
    BY <1>1, <2>1, <2>3, <2>4, <2>5, <2>6 DEF FundsInv
<1> QED
  BY <1>4, <1>5

LEMMA FundsSettled == ASSUME FundsInv, L!Settle PROVE FundsInv'
<1>1. /\ writer = L!Nobody /\ cash' \in Settled /\ silent' = TRUE /\ clock' = clock + 1
      /\ UNCHANGED <<ledger, writer, request>>
  BY DEF L!Settle
<1>2. EntriesFit(ledger, clock') /\ clock' \in Nat
  BY <1>1 DEF FundsInv, EntriesFit
<1>3. \A o \in Requests : writer' # o /\ Spectates(o)'
  BY <1>1, Moneys DEF FundsInv, Spectates
<1>4. cash' \in Nat /\ cash' # L!NoFunds
  BY <1>1, Moneys DEF L!NoFunds
<1> QED
  BY <1>1, <1>2, <1>3, <1>4 DEF FundsInv

\* Whatever overlaps, one session at a time has written the row, and what it
\* will book is the newest entry.
THEOREM FundsAccount == L!Spec => []FundsInv
<1>1. FundsInv /\ [L!Next]_L!vars => FundsInv'
  <2> SUFFICES ASSUME FundsInv, [L!Next]_L!vars PROVE FundsInv'
    OBVIOUS
  <2>1. CASE UNCHANGED L!vars
    <3>1. UNCHANGED <<cash, ledger, writer, request, clock, silent>>
      BY <2>1 DEF L!vars
    <3>2. \A r \in Requests : (Writes(r) => Writes(r)') /\ (Spectates(r) => Spectates(r)')
      BY <3>1 DEF Writes, Spectates
    <3> QED
      BY <3>1, <3>2 DEF FundsInv
  <2>2. CASE L!Next
    BY <2>2, FundsSettled, FundsBegun, FundsMade, FundsDropped, FundsWritten, FundsBooked DEF L!Next
  <2> QED
    BY <2>1, <2>2
<1> QED
  BY <1>1, FundsBegin, PTL DEF L!Spec

\* Whatever requests of a user overlap, an account statement closes with the
\* cash there is, unless a reset or a settlement wrote it last; no two entries
\* have one date; and no withdrawal leaves less than nothing
\* (record_transaction, get_statement, deduct_cash).
THEOREM StatementsAlwaysClose == L!Spec => []StatementsClose
<1>1. FundsInv => L!StatementsClose
  <2> SUFFICES ASSUME FundsInv PROVE L!StatementsClose
    OBVIOUS
  <2>1. /\ cash # L!NoFunds => cash >= 0
        /\ \A e, f \in ledger : e.date = f.date => e = f
        /\ \A e \in ledger : e.balance >= 0
    BY DEF FundsInv, EntriesFit, L!NoFunds
  <2>2. ASSUME cash # L!NoFunds, ~silent PROVE L!Closing = cash
    <3>1. PICK e \in ledger : e.balance = cash /\ NewestOf(e, ledger)
      BY <2>2 DEF FundsInv
    <3>2. \A d \in ledger : d.date \in Nat
      BY DEF FundsInv, EntriesFit
    <3>3. \A f \in ledger : f.date <= e.date
      BY <3>1, <3>2 DEF NewestOf
    <3>4. L!Newest \in ledger /\ \A f \in ledger : f.date <= L!Newest.date
      BY <3>1, <3>3 DEF L!Newest
    <3>5. L!Newest = e
      BY <3>1, <3>2, <3>4 DEF NewestOf
    <3> QED
      BY <3>1, <3>5 DEF L!Closing
  <2> QED
    BY <2>1, <2>2 DEF L!StatementsClose
<1> QED
  BY <1>1, FundsAccount, PTL DEF StatementsClose

\* The types of the funds: nobody has more than one request in hand.
THEOREM FundsTyped == L!Spec => []L!TypeOK
<1>1. ASSUME FundsInv PROVE L!TypeOK
  <2>1. cash \in Int /\ silent \in BOOLEAN /\ (ledger # {} => cash # L!NoFunds)
    BY <1>1 DEF FundsInv, L!NoFunds
  <2>2. ASSUME NEW e \in ledger PROVE e.date \in 0..clock /\ {e.amount, e.balance} \subseteq Int
    <3>1. clock \in Nat /\ e.date \in Nat /\ e.date < clock /\ e.amount \in Int /\ e.balance \in Nat
      BY <1>1 DEF FundsInv, EntriesFit
    <3> QED
      BY <3>1
  <2>3. writer # L!Nobody => writer \in Requests /\ request[writer].pc \in {"writing", "written"}
    BY <1>1 DEF FundsInv, Writes
  <2>4. \A r \in Requests : request[r].pc \in {"idle", "creating", "writing", "written"}
    BY <1>1 DEF FundsInv, Writes, Spectates
  <2> QED
    BY <2>1, <2>2, <2>3, <2>4 DEF L!TypeOK
<1> QED
  BY <1>1, FundsAccount, PTL

-----------------------------------------------------------------------------
(* Schedules: the next run is the first there can be                       *)

Daily == {"MARKET_OPEN", "MARKET_CLOSE"}
At(type) == IF type = "MARKET_OPEN" THEN 225 ELSE 595

\* The occasion a daily schedule has on a day, and whether it has one.
Occasion(type, d) == d * 1440 + At(type)
OnDay(d) == d % 7 < 5

StrategyRows == [type : S!Types, window : Windows, status : {"ACTIVE", "DISABLED"}, next : Int, last : Int]

\* The next run of a daily schedule is an occasion, no occasion to come is
\* earlier, and that of an opening is later than the last run.
NextFits ==
    strategy.type \in Daily /\ strategy.next # S!Never =>
        /\ \E d \in Nat : OnDay(d) /\ d >= FirstDay /\ strategy.next = Occasion(strategy.type, d)
        /\ \A d \in Nat : OnDay(d) /\ Occasion(strategy.type, d) > now =>
               strategy.next <= Occasion(strategy.type, d)
        /\ strategy.type = "MARKET_OPEN" => strategy.last < strategy.next

\* On a steady day the schedule waits for the day's occasion until it is met.
SteadyFits ==
    steady /\ strategy.type \in Daily =>
        /\ up /\ strategy.status = "ACTIVE"
        /\ ran.kind # "none" => S!Working(now)
        /\ ran.kind = "none" =>
             /\ turn.kind = "none" /\ S!Midnight(now) <= strategy.next
             /\ polled => now < strategy.next
             /\ \A d \in Nat : OnDay(d) /\ S!Midnight(now) <= Occasion(strategy.type, d) =>
                    strategy.next <= Occasion(strategy.type, d)

CalendarInv ==
    /\ now \in Nat /\ FirstDay * 1440 <= now /\ now < (LastDay + 1) * 1440
    /\ strategy \in StrategyRows /\ strategy.last <= now /\ strategy.last >= S!Never
    /\ strategy.status = "ACTIVE" => strategy.next # S!Never
    /\ polled \in BOOLEAN /\ up \in BOOLEAN /\ steady \in BOOLEAN
    /\ NextFits /\ SteadyFits

DayNumber(t) == t \div 1440
MinutesOfDay == 0..1439

\* A moment is a day and a minute of it.
LEMMA DayAndMinute ==
    ASSUME NEW t \in Nat
    PROVE  /\ DayNumber(t) \in Nat /\ S!Minute(t) \in 0..1439
           /\ t = DayNumber(t) * 1440 + S!Minute(t) /\ S!Midnight(t) = DayNumber(t) * 1440
           /\ S!Weekday(t) = DayNumber(t) % 7
<1>1. t \div 1440 \in Nat
  OBVIOUS
<1>2. t % 1440 \in 0..1439
  OBVIOUS
<1>3. t = (t \div 1440) * 1440 + (t % 1440)
  OBVIOUS
<1>4. /\ S!Minute(t) = t % 1440 /\ S!Midnight(t) = t - (t % 1440)
      /\ S!Weekday(t) = (t \div 1440) % 7
  BY DEF S!Minute, S!Midnight, S!Weekday, S!Day
<1>5. t - (t % 1440) = (t \div 1440) * 1440
  BY <1>1, <1>2, <1>3
<1> QED
  BY <1>1, <1>2, <1>3, <1>4, <1>5 DEF DayNumber

\* No moment has two days.
LEMMA OneDay ==
    ASSUME NEW c \in Int, NEW d \in Int, NEW j \in Int, NEW k \in Int,
           0 <= j, j < 1440, 0 <= k, k < 1440, c * 1440 + j = d * 1440 + k
    PROVE  c = d /\ j = k
OBVIOUS

\* Midnights are told apart by their days.
LEMMA DayOf ==
    ASSUME NEW t \in Nat, NEW d \in Nat, NEW k \in 0..1439, t = d * 1440 + k
    PROVE  /\ S!Minute(t) = k /\ S!Midnight(t) = d * 1440 /\ DayNumber(t) = d
           /\ S!Weekday(t) = d % 7 /\ (S!Working(t) <=> OnDay(d))
<1>1. t \in Nat
  OBVIOUS
<1> DEFINE c == DayNumber(t)
           j == S!Minute(t)
<1>2. /\ c \in Nat /\ j \in 0..1439 /\ t = c * 1440 + j
      /\ S!Midnight(t) = c * 1440 /\ S!Weekday(t) = c % 7
  BY <1>1, DayAndMinute
<1> HIDE DEF c, j
<1>3. c = d /\ j = k
  <2>1. /\ c \in Int /\ d \in Int /\ j \in Int /\ k \in Int
        /\ 0 <= j /\ j < 1440 /\ 0 <= k /\ k < 1440 /\ c * 1440 + j = d * 1440 + k
    BY <1>2
  <2> QED
    BY <2>1, OneDay
<1> QED
  BY <1>1, <1>2, <1>3 DEF S!Working, OnDay, c, j

\* The days of the week follow one another.
LEMMA NextWeekday ==
    ASSUME NEW q \in Nat, NEW n \in 0..3
    PROVE  /\ q % 7 \in 0..6
           /\ (q + n) % 7 = IF (q % 7) + n < 7 THEN (q % 7) + n ELSE (q % 7) + n - 7
<1> DEFINE w == q \div 7
           v == q % 7
           x == (q + n) \div 7
           y == (q + n) % 7
<1>1. w \in Nat /\ v \in 0..6 /\ q = w * 7 + v
  <2>1. w \in Nat
    OBVIOUS
  <2>2. v \in 0..6
    OBVIOUS
  <2>3. q = w * 7 + v
    OBVIOUS
  <2> QED
    BY <2>1, <2>2, <2>3
<1>2. x \in Nat /\ y \in 0..6 /\ q + n = x * 7 + y
  <2>0. q + n \in Nat
    OBVIOUS
  <2>1. x \in Nat
    BY <2>0
  <2>2. y \in 0..6
    BY <2>0
  <2>3. q + n = x * 7 + y
    BY <2>0
  <2> QED
    BY <2>1, <2>2, <2>3
<1> HIDE DEF w, v, x, y
<1>3. /\ w \in Int /\ v \in Int /\ 0 <= v /\ v < 7 /\ x \in Int /\ y \in Int /\ 0 <= y /\ y < 7
      /\ n \in Int /\ 0 <= n /\ n <= 3 /\ w * 7 + v + n = x * 7 + y
  BY <1>1, <1>2
<1>4. \/ x = w /\ y = v + n
      \/ x = w + 1 /\ y = v + n - 7
  BY <1>3
<1>5. y = IF v + n < 7 THEN v + n ELSE v + n - 7
  BY <1>3, <1>4
<1> QED
  BY <1>1, <1>5 DEF v, y

\* The next time of a minute on a working day: the first after t.
FirstAfter(t, m, d) ==
    /\ S!NextAt(m, t) = d * 1440 + m /\ OnDay(d) /\ t < d * 1440 + m /\ DayNumber(t) <= d
    /\ \A c \in Nat : OnDay(c) /\ t < c * 1440 + m => d <= c
LEMMA NextAtIsFirst ==
    ASSUME NEW t \in Nat, NEW m \in MinutesOfDay
    PROVE  \E d \in Nat : FirstAfter(t, m, d)
<1> USE DEF FirstAfter, MinutesOfDay
<1> DEFINE q == DayNumber(t)
           k == S!Minute(t)
           v == q % 7
<1>1. /\ q \in Nat /\ k \in 0..1439 /\ t = q * 1440 + k
      /\ S!Midnight(t) = q * 1440 /\ S!Weekday(t) = v /\ S!Minute(t) = k
  BY DayAndMinute
<1>2. v \in 0..6
  BY <1>1, NextWeekday
<1>3. (S!Working(t) <=> v < 5) /\ (OnDay(q) <=> v < 5)
  BY <1>1 DEF S!Working, OnDay
<1>4. \A n \in 0..3 : (q + n) % 7 = IF v + n < 7 THEN v + n ELSE v + n - 7
  BY <1>1, NextWeekday
<1>5. DayNumber(t) = q
  OBVIOUS
<1> HIDE DEF q, k, v
<1>6. m \in Int /\ 0 <= m /\ m < 1440 /\ k \in Int /\ 0 <= k /\ k < 1440 /\ q \in Int
  BY <1>1
<1>7. CASE k < m /\ v < 5
  <2>1. S!NextAt(m, t) = q * 1440 + m
    BY <1>1, <1>3, <1>7 DEF S!NextAt
  <2>2. OnDay(q) /\ t < q * 1440 + m /\ DayNumber(t) <= q
    BY <1>1, <1>3, <1>5, <1>6, <1>7
  <2>3. ASSUME NEW c \in Nat, t < c * 1440 + m PROVE q <= c
    <3>1. c \in Int /\ q * 1440 + k < c * 1440 + m
      BY <1>1, <2>3
    <3> QED
      BY <1>6, <3>1
  <2> QED
    BY <1>1, <2>1, <2>2, <2>3, SMTT(60)
<1>8. CASE ~(k < m /\ v < 5)
  <2> DEFINE ahead == CASE v = 4 -> 3 [] v = 5 -> 2 [] OTHER -> 1
  <2>1. S!NextAt(m, t) = q * 1440 + ahead * 1440 + m
    BY <1>1, <1>3, <1>8 DEF S!NextAt, S!Day
  <2>2. /\ v = 4 => ahead = 3
        /\ v = 5 => ahead = 2
        /\ v # 4 /\ v # 5 => ahead = 1
    BY <1>2
  <2> HIDE DEF ahead
  <2>3. ahead \in 1..3 /\ ahead \in 0..3
    BY <1>2, <2>2
  <2>4. OnDay(q + ahead)
    <3>1. (q + ahead) % 7 = IF v + ahead < 7 THEN v + ahead ELSE v + ahead - 7
      BY <1>4, <2>3
    <3>2. (IF v + ahead < 7 THEN v + ahead ELSE v + ahead - 7) < 5
      BY <1>2, <2>2
    <3> QED
      BY <3>1, <3>2 DEF OnDay
  <2>5. \A c \in Nat : OnDay(c) /\ q < c => q + ahead <= c
    <3> SUFFICES ASSUME NEW c \in Nat, OnDay(c), q < c, ~(q + ahead <= c) PROVE FALSE
      BY <1>1, <2>3
    <3>1. PICK n \in 1..2 : c = q + n /\ n < ahead
      <4>1. c - q \in 1..2 /\ c = q + (c - q) /\ c - q < ahead
        BY <1>1, <2>3
      <4> QED
        BY <4>1
    <3>2. c % 7 = IF v + n < 7 THEN v + n ELSE v + n - 7
      <4>1. n \in 0..3
        OBVIOUS
      <4> QED
        BY <1>4, <3>1, <4>1
    <3>3. v + n \in 5..6
      BY <1>2, <2>2, <3>1
    <3>4. c % 7 = v + n /\ ~(v + n < 5)
      BY <1>2, <3>2, <3>3
    <3> QED
      BY <3>4 DEF OnDay
  <2>6. \A c \in Nat : OnDay(c) /\ t < c * 1440 + m => q < c
    <3> SUFFICES ASSUME NEW c \in Nat, OnDay(c), t < c * 1440 + m, ~(q < c) PROVE FALSE
      OBVIOUS
    <3>1. c \in Int /\ q * 1440 + k < c * 1440 + m /\ c <= q
      BY <1>1
    <3>2. c = q /\ k < m
      BY <1>6, <3>1
    <3> QED
      BY <1>3, <1>8, <3>2
  <2>7. q + ahead \in Nat
    BY <1>1, <2>3
  <2>8. (q + ahead) * 1440 + m = q * 1440 + ahead * 1440 + m
    BY <1>1, <1>6, <2>3
  <2>9. t < q * 1440 + ahead * 1440 + m /\ DayNumber(t) <= q + ahead
    BY <1>1, <1>5, <1>6, <2>3
  <2>10. \A c \in Nat : OnDay(c) /\ t < c * 1440 + m => q + ahead <= c
    BY <2>5, <2>6
  <2> QED
    BY <2>1, <2>4, <2>7, <2>8, <2>9, <2>10
<1> QED
  BY <1>7, <1>8

\* Some number of a set is the least.
LEMMA LeastNumber ==
    ASSUME NEW K, K \subseteq Nat, K # {}
    PROVE  \E m \in K : \A n \in K : m <= n
<1>1. PICK m \in K : \A j \in K : <<j, m>> \notin OpToRel(<, Nat)
  BY WFMin, NatLessThanWellFounded
<1>2. \A j \in K : ~(j < m)
  BY <1>1 DEF OpToRel
<1> QED
  BY <1>2

\* The clock's next stop is on the same day, or the next midnight, once no mark
\* of the day is left.
LEMMA NextStop ==
    ASSUME NEW t \in Nat
    PROVE  LET then == S!NextMark(t) IN
           /\ then \in Nat /\ t < then /\ S!Minute(then) \in Marks
           /\ \/ S!Midnight(then) = S!Midnight(t) /\ S!Minute(then) # 0
              \/ /\ then = S!Midnight(t) + 1440 /\ S!Minute(then) = 0
                 /\ S!Midnight(then) = then /\ \A m \in Marks : m <= S!Minute(t)
<1> DEFINE q == DayNumber(t)
           k == S!Minute(t)
           later == {m \in Marks : m > S!Minute(t)}
           then == S!NextMark(t)
<1>1. /\ q \in Nat /\ k \in 0..1439 /\ t = q * 1440 + k
      /\ S!Midnight(t) = q * 1440 /\ S!Minute(t) = k
  BY DayAndMinute
<1>2. Marks \subseteq 0..1439
  BY Calendar DEF S!Day
<1>3. \A m \in later : m \in Marks /\ m > k /\ m \in 0..1439
  BY <1>2
<1>4. \A m \in Marks : m \notin later => m <= k
  <2> SUFFICES ASSUME NEW m \in Marks, m \notin later PROVE m <= k
    OBVIOUS
  <2>1. ~(m > S!Minute(t))
    OBVIOUS
  <2>2. m \in 0..1439 /\ k \in 0..1439
    BY <1>1, <1>2
  <2> QED
    BY <2>1, <2>2
<1>5. then = IF later = {} THEN S!Midnight(t) + 1440
             ELSE S!Midnight(t) + CHOOSE m \in later : \A n \in later : m <= n
  BY DEF S!NextMark, S!Day
<1> HIDE DEF q, k, later, then
<1>6. CASE later = {}
  <2>1. then = (q + 1) * 1440 + 0 /\ q + 1 \in Nat /\ 0 \in 0..1439
    BY <1>1, <1>5, <1>6
  <2>2. \A m \in Marks : m <= S!Minute(t)
    BY <1>1, <1>4, <1>6
  <2>0. then \in Nat
    BY <2>1
  <2>3. S!Minute(then) = 0 /\ S!Midnight(then) = (q + 1) * 1440
    BY <2>0, <2>1, DayOf
  <2>4. then = q * 1440 + 1440 /\ (q + 1) * 1440 = then
    BY <1>1, <1>5, <1>6, <2>1
  <2>5. t < then
    BY <1>1, <2>4
  <2>6. S!Minute(then) \in Marks
    BY <2>3, Calendar
  <2> QED
    BY <1>1, <2>0, <2>2, <2>3, <2>4, <2>5, <2>6 DEF then
<1>7. CASE later # {}
  <2> DEFINE least == CHOOSE m \in later : \A n \in later : m <= n
  <2>1. later \subseteq Nat
    BY <1>3
  <2>2. \E m \in later : \A n \in later : m <= n
    BY <1>7, <2>1, LeastNumber
  <2>3. least \in later
    BY <2>2
  <2>4. then = S!Midnight(t) + least
    BY <1>5, <1>7
  <2> HIDE DEF least
  <2>5. least \in 0..1439 /\ least > k
    BY <1>3, <2>3
  <2>6. then = q * 1440 + least
    BY <1>1, <2>4
  <2>0. then \in Nat
    BY <1>1, <2>5, <2>6
  <2>7. S!Minute(then) = least /\ S!Midnight(then) = q * 1440
    <3>1. then \in Nat /\ q \in Nat /\ least \in 0..1439 /\ then = q * 1440 + least
      BY <1>1, <2>0, <2>5, <2>6
    <3> DEFINE d == DayNumber(then)
               j == S!Minute(then)
    <3>2. d \in Nat /\ j \in 0..1439 /\ then = d * 1440 + j /\ S!Midnight(then) = d * 1440
      BY <3>1, DayAndMinute
    <3> HIDE DEF d, j
    <3>3. /\ q \in Int /\ d \in Int /\ j \in Int /\ least \in Int /\ 0 <= j /\ j < 1440
          /\ 0 <= least /\ least < 1440 /\ q * 1440 + least = d * 1440 + j
      BY <3>1, <3>2
    <3>4. q = d /\ least = j
      BY <3>3
    <3> QED
      BY <3>2, <3>4 DEF j
  <2>8. t < then /\ least # 0
    BY <1>1, <2>5, <2>6
  <2>9. S!Minute(then) \in Marks
    BY <1>3, <2>3, <2>7
  <2> QED
    BY <1>1, <2>0, <2>7, <2>8, <2>9 DEF then
<1> QED
  BY <1>6, <1>7

\* What a daily schedule gives as its next run.
LEMMA NextRunFits ==
    ASSUME NEW s, NEW t \in Nat, FirstDay * 1440 <= t, s.type \in Daily
    PROVE  /\ S!NextRun(s, t) \in Nat
           /\ \E d \in Nat : OnDay(d) /\ d >= FirstDay /\ S!NextRun(s, t) = Occasion(s.type, d)
           /\ \A c \in Nat : OnDay(c) /\ Occasion(s.type, c) > t =>
                  S!NextRun(s, t) <= Occasion(s.type, c)
           /\ s.type = "MARKET_OPEN" => t < S!NextRun(s, t)
<1> DEFINE m == IF s.type = "MARKET_OPEN" THEN 225 ELSE 600
           n == S!NextRun(s, t)
<1>1. m \in MinutesOfDay /\ m \in Nat
  BY DEF MinutesOfDay
<1>0. PICK d \in Nat : FirstAfter(t, m, d)
  <2> HIDE DEF m
  <2> QED
    BY <1>1, NextAtIsFirst
<1>2. /\ S!NextAt(m, t) = d * 1440 + m /\ OnDay(d) /\ t < d * 1440 + m /\ DayNumber(t) <= d
      /\ \A c \in Nat : OnDay(c) /\ t < c * 1440 + m => d <= c
  <2> HIDE DEF m
  <2> QED
    BY <1>0 DEF FirstAfter
<1>3. n = Occasion(s.type, d)
  <2>1. CASE s.type = "MARKET_OPEN"
    <3>1. n = S!NextAt(225, t)
      BY <2>1 DEF S!NextRun, S!Open
    <3> QED
      BY <1>2, <2>1, <3>1 DEF Occasion, At
  <2>2. CASE s.type = "MARKET_CLOSE"
    <3>1. n = S!NextAt(600, t) - 5
      BY <2>2 DEF S!NextRun, S!Close
    <3> QED
      BY <1>2, <2>2, <3>1 DEF Occasion, At
  <2> QED
    BY <2>1, <2>2 DEF Daily
<1>4. \A c \in Nat : /\ Occasion(s.type, c) = c * 1440 + At(s.type)
                     /\ At(s.type) \in Nat /\ At(s.type) <= m
                     /\ (s.type = "MARKET_OPEN" => At(s.type) = m)
  BY DEF Occasion, At, Daily
<1> HIDE DEF m, n
<1>5. n \in Nat
  BY <1>2, <1>3, <1>4
<1>6. d >= FirstDay
  <2>1. /\ DayNumber(t) \in Nat /\ S!Minute(t) \in 0..1439
        /\ t = DayNumber(t) * 1440 + S!Minute(t)
    BY DayAndMinute
  <2> DEFINE q == DayNumber(t)
             k == S!Minute(t)
  <2>2. q \in Int /\ k \in Int /\ k < 1440 /\ FirstDay \in Int /\ FirstDay * 1440 <= q * 1440 + k /\ q <= d
    BY <1>2, <2>1, Calendar, SMTT(60)
  <2> HIDE DEF q, k
  <2>3. FirstDay <= q
    BY <2>2
  <2> QED
    BY <2>2, <2>3
<1>7. ASSUME NEW c \in Nat, OnDay(c), Occasion(s.type, c) > t PROVE n <= Occasion(s.type, c)
  <2>1. t < c * 1440 + m
    BY <1>1, <1>4, <1>7
  <2>2. d <= c
    BY <1>2, <1>7, <2>1
  <2> QED
    BY <1>3, <1>4, <2>2
<1>8. s.type = "MARKET_OPEN" => t < n
  BY <1>2, <1>3, <1>4
<1> QED
  BY <1>2, <1>3, <1>5, <1>6, <1>7, <1>8 DEF n

LEMMA CalendarBegins == ASSUME S!Init PROVE CalendarInv
<1>1. PICK type \in StrategyTypes, window \in Windows : strategy = S!NewRow(type, window)
  BY DEF S!Init
<1>2. /\ strategy \in StrategyRows /\ strategy.last = -1 /\ strategy.next = S!Never
      /\ strategy.status = "DISABLED"
  BY <1>1, Calendar DEF S!NewRow, StrategyRows, S!Never
<1>3. now = FirstDay * 1440 /\ polled = FALSE /\ up = TRUE /\ steady = FALSE
  BY DEF S!Init, S!Day
<1>4. now \in Nat /\ now < (LastDay + 1) * 1440
  BY <1>3, Calendar
<1>5. FirstDay * 1440 <= now
  BY <1>3, <1>4
<1>6. strategy.last <= now /\ strategy.last >= S!Never
  BY <1>2, <1>4 DEF S!Never
<1>7. polled \in BOOLEAN /\ up \in BOOLEAN /\ steady \in BOOLEAN
  BY <1>3, Zenon
<1> QED
  BY <1>2, <1>3, <1>4, <1>5, <1>6, <1>7 DEF CalendarInv, NextFits, SteadyFits

\* A step that leaves the clock and the row alone.
LEMMA PollFits ==
    ASSUME CalendarInv, S!PollNothing \/ S!PollBlocked \/ S!PollRuns \/ S!Manual \/ S!FailTurn
                        \/ S!Crash \/ S!Restart
    PROVE  CalendarInv'
<1>1. now' = now /\ strategy' = strategy
  BY DEF S!PollNothing, S!PollBlocked, S!PollRuns, S!Manual, S!FailTurn, S!Crash, S!Restart
<1>2. polled' \in BOOLEAN /\ up' \in BOOLEAN /\ steady' \in BOOLEAN
  <2>1. polled \in BOOLEAN /\ up \in BOOLEAN /\ steady \in BOOLEAN
    BY DEF CalendarInv
  <2>2. CASE S!PollNothing
    BY <2>1, <2>2, Zenon DEF S!PollNothing
  <2>3. CASE S!PollBlocked
    BY <2>1, <2>3, Zenon DEF S!PollBlocked
  <2>4. CASE S!PollRuns
    BY <2>1, <2>4, Zenon DEF S!PollRuns
  <2>5. CASE S!Manual
    BY <2>1, <2>5, Zenon DEF S!Manual
  <2>6. CASE S!FailTurn
    BY <2>1, <2>6, Zenon DEF S!FailTurn
  <2>7. CASE S!Crash
    BY <2>1, <2>7, Zenon DEF S!Crash
  <2>8. CASE S!Restart
    BY <2>1, <2>8, Zenon DEF S!Restart
  <2> QED
    BY <2>2, <2>3, <2>4, <2>5, <2>6, <2>7, <2>8
<1>3. NextFits'
  BY <1>1 DEF CalendarInv, NextFits
<1>4. CASE S!PollBlocked \/ S!Manual \/ S!FailTurn \/ S!Crash
  <2>1. ~steady'
    BY <1>4 DEF S!PollBlocked, S!Manual, S!FailTurn, S!Crash
  <2> QED
    BY <1>1, <1>2, <1>3, <2>1 DEF CalendarInv, SteadyFits
<1>5. CASE S!Restart
  <2>1. ~up /\ steady' = steady
    BY <1>5 DEF S!Restart
  <2>2. SteadyFits'
    BY <1>1, <2>1 DEF CalendarInv, SteadyFits
  <2> QED
    BY <1>1, <1>2, <1>3, <2>2 DEF CalendarInv
<1>7. CASE S!PollNothing
  <2>1. UNCHANGED <<up, turn, ran, steady>> /\ (turn.kind # "none" \/ ~S!Due(strategy, now) \/ ~S!Runs(strategy))
    BY <1>7 DEF S!PollNothing
  <2>2. SteadyFits'
    <3> SUFFICES ASSUME steady, strategy.type \in Daily PROVE SteadyFits'
      BY <1>1, <2>1 DEF SteadyFits
    <3>1. ASSUME turn.kind = "none" PROVE now < strategy.next
      <4>1. ~S!Due(strategy, now)
        BY <2>1, <3>1 DEF S!Runs, Daily
      <4>2. strategy.status = "ACTIVE" /\ strategy.next # S!Never /\ strategy.next \in Int /\ now \in Nat
        BY DEF CalendarInv, SteadyFits, StrategyRows
      <4> QED
        BY <4>1, <4>2 DEF S!Due
    <3> QED
      BY <1>1, <2>1, <3>1 DEF CalendarInv, SteadyFits
  <2> QED
    BY <1>1, <1>2, <1>3, <2>2 DEF CalendarInv
<1>8. CASE S!PollRuns
  <2>1. /\ UNCHANGED <<up, steady>> /\ turn.kind = "none" /\ S!Due(strategy, now)
        /\ turn' = S!Turn(strategy.type) /\ ran' = turn'
    BY <1>8 DEF S!PollRuns
  <2>2. ran'.kind = strategy.type
    BY <2>1 DEF S!Turn
  <2>3. SteadyFits'
    <3> SUFFICES ASSUME steady, strategy.type \in Daily PROVE SteadyFits'
      BY <1>1, <2>1 DEF SteadyFits
    <3>1. ran'.kind # "none"
      BY <2>2 DEF Daily
    <3>2. S!Working(now)
      <4>1. CASE ran.kind # "none"
        BY <4>1 DEF CalendarInv, SteadyFits
      <4>2. CASE ran.kind = "none"
        <5>1. /\ S!Midnight(now) <= strategy.next /\ strategy.next <= now /\ strategy.next # S!Never
          BY <2>1, <4>2 DEF CalendarInv, SteadyFits, S!Due
        <5>2. PICK d \in Nat : OnDay(d) /\ strategy.next = Occasion(strategy.type, d)
          BY <5>1 DEF CalendarInv, NextFits
        <5>3. At(strategy.type) \in 0..1439
          BY DEF At
        <5> DEFINE q == DayNumber(now)
                   k == S!Minute(now)
                   a == At(strategy.type)
        <5>4. /\ q \in Nat /\ k \in 0..1439 /\ now = q * 1440 + k /\ S!Midnight(now) = q * 1440
              /\ S!Weekday(now) = q % 7
          BY DayAndMinute DEF CalendarInv
        <5> HIDE DEF q, k, a
        <5>5. /\ q \in Int /\ d \in Int /\ k \in Int /\ k < 1440 /\ a \in Int /\ 0 <= a /\ a < 1440
              /\ q * 1440 <= d * 1440 + a /\ d * 1440 + a <= q * 1440 + k
          <6>1. /\ q \in Int /\ d \in Int
                /\ k \in Int /\ k < 1440 /\ a \in Int /\ 0 <= a /\ a < 1440
            <7>1. q \in Int /\ k \in Int /\ k < 1440
              BY <5>4
            <7>2. a \in Int /\ 0 <= a /\ a < 1440
              BY <5>3, SMTT(60) DEF a
            <7> QED
              BY <7>1, <7>2
          <6>2. strategy.next = d * 1440 + a
            BY <5>2 DEF Occasion, a
          <6> QED
            BY <5>1, <5>4, <6>1, <6>2
        <5>6. q = d
          BY <5>5
        <5> QED
          BY <5>2, <5>4, <5>6 DEF S!Working, OnDay
      <4> QED
        BY <4>1, <4>2
    <3> QED
      BY <1>1, <2>1, <3>1, <3>2 DEF CalendarInv, SteadyFits
  <2> QED
    BY <1>1, <1>2, <1>3, <2>3 DEF CalendarInv
<1> QED
  BY <1>4, <1>5, <1>7, <1>8

\* The row has been given its next run, as its last may have been now.
LEMMA RowFits ==
    ASSUME CalendarInv, now' = now, strategy'.type = strategy.type,
           strategy'.last \in {strategy.last, now},
           \/ strategy'.next = S!Never
           \/ strategy'.next = S!NextRun(strategy', now)
    PROVE  NextFits'
<1> SUFFICES ASSUME strategy'.type \in Daily, strategy'.next # S!Never PROVE NextFits'
  BY DEF NextFits
<1>1. now \in Nat /\ FirstDay * 1440 <= now /\ strategy.last \in Int /\ strategy.last <= now
  BY DEF CalendarInv, StrategyRows
<1> DEFINE n == strategy'.next
<1>2. /\ n = S!NextRun(strategy', now) /\ n \in Nat
      /\ \E d \in Nat : OnDay(d) /\ d >= FirstDay /\ n = Occasion(strategy'.type, d)
      /\ \A c \in Nat : OnDay(c) /\ Occasion(strategy'.type, c) > now => n <= Occasion(strategy'.type, c)
      /\ strategy'.type = "MARKET_OPEN" => now < n
  BY <1>1, NextRunFits
<1>3. strategy'.type = "MARKET_OPEN" => strategy'.last < n
  BY <1>1, <1>2
<1> QED
  BY <1>2, <1>3 DEF NextFits

LEMMA NextRunIsTime ==
    ASSUME CalendarInv, NEW s, s.type \in S!Types, s.last \in Int, s.last >= S!Never
    PROVE  S!NextRun(s, now) \in Int /\ S!NextRun(s, now) # S!Never
<1>1. now \in Nat /\ FirstDay * 1440 <= now /\ Interval \in Nat
  BY Calendar DEF CalendarInv
<1>2. CASE s.type \in Daily
  BY <1>1, <1>2, NextRunFits DEF S!Never
<1>3. CASE s.type = "INTERVAL"
  <2>1. S!NextRun(s, now) = IF s.last = S!Never THEN now ELSE s.last + Interval
    BY <1>3 DEF S!NextRun
  <2> QED
    BY <1>1, <2>1 DEF S!Never
<1>4. CASE s.type = "CONTINUOUS"
  <2>1. S!NextRun(s, now) = IF S!MarketHours(now) THEN now ELSE S!NextAt(225, now)
    BY <1>4 DEF S!NextRun, S!Open
  <2>2. 225 \in MinutesOfDay
    BY DEF MinutesOfDay
  <2>3. PICK d \in Nat : FirstAfter(now, 225, d)
    BY <1>1, <2>2, NextAtIsFirst
  <2>4. S!NextAt(225, now) \in Nat
    BY <2>3 DEF FirstAfter
  <2> QED
    BY <1>1, <2>1, <2>4 DEF S!Never
<1>5. CASE s.type = "CRON"
  <2>1. S!NextRun(s, now) = now + 1
    BY <1>5 DEF S!NextRun
  <2> QED
    BY <1>1, <2>1 DEF S!Never
<1> QED
  BY <1>2, <1>3, <1>4, <1>5 DEF S!Types, Daily

LEMMA TurnEndFits == ASSUME CalendarInv, S!EndTurn PROVE CalendarInv'
<1>1. /\ turn.kind # "none" /\ strategy' = S!Ran(strategy, now)
      /\ UNCHANGED <<now, polled, up, ran, steady>>
  BY DEF S!EndTurn
<1> DEFINE at == [strategy EXCEPT !.last = now]
<1>2. at \in StrategyRows /\ at.type = strategy.type /\ at.last = now /\ at.status = strategy.status
  BY DEF CalendarInv, StrategyRows
<1>3. strategy' = [at EXCEPT !.next = S!NextRun(at, now)]
  BY <1>1 DEF S!Ran
<1> HIDE DEF at
<1>4. now \in Nat /\ now >= S!Never
  BY DEF CalendarInv, S!Never
<1>5. S!NextRun(at, now) \in Int /\ S!NextRun(at, now) # S!Never
  BY <1>2, <1>4, NextRunIsTime DEF StrategyRows
<1>6. /\ strategy' \in StrategyRows /\ strategy'.type = strategy.type /\ strategy'.last = now
      /\ strategy'.status = strategy.status /\ strategy'.next = S!NextRun(at, now)
  BY <1>2, <1>3, <1>5 DEF StrategyRows
<1>7. S!NextRun(strategy', now) = S!NextRun(at, now)
  BY <1>2, <1>6 DEF S!NextRun
<1>8. NextFits'
  BY <1>1, <1>6, <1>7, RowFits
<1>9. SteadyFits'
  <2> SUFFICES ASSUME steady, strategy.type \in Daily PROVE SteadyFits'
    BY <1>1, <1>6 DEF SteadyFits
  <2>1. ran.kind # "none"
    BY <1>1 DEF CalendarInv, SteadyFits
  <2> QED
    BY <1>1, <1>6, <2>1 DEF CalendarInv, SteadyFits
<1>10. strategy'.last <= now' /\ strategy'.last >= S!Never /\ strategy'.next # S!Never
  BY <1>1, <1>4, <1>5, <1>6
<1> QED
  BY <1>1, <1>6, <1>8, <1>9, <1>10 DEF CalendarInv

LEMMA SwitchFits == ASSUME CalendarInv, S!Enable \/ S!Disable PROVE CalendarInv'
<1>1. steady' = FALSE /\ UNCHANGED <<now, polled, up>>
  BY DEF S!Enable, S!Disable
<1>2. strategy \in StrategyRows /\ strategy.last >= S!Never
  BY DEF CalendarInv
<1>3. S!NextRun(strategy, now) \in Int /\ S!NextRun(strategy, now) # S!Never
  BY <1>2, NextRunIsTime DEF StrategyRows
<1>6. polled' \in BOOLEAN /\ up' \in BOOLEAN /\ steady' \in BOOLEAN
  <2>1. polled' = polled /\ up' = up /\ steady' = FALSE
    BY <1>1
  <2>2. polled \in BOOLEAN /\ up \in BOOLEAN
    BY DEF CalendarInv
  <2>3. polled' \in BOOLEAN
    BY <2>1, <2>2, Zenon
  <2>4. up' \in BOOLEAN
    BY <2>1, <2>2, Zenon
  <2>5. steady' \in BOOLEAN
    BY <2>1, Zenon
  <2> QED
    BY <2>3, <2>4, <2>5
<1>4. CASE S!Enable
  <2>1. strategy' = [strategy EXCEPT !.status = "ACTIVE", !.next = S!NextRun(strategy, now)]
    BY <1>4 DEF S!Enable
  <2>2. /\ strategy' \in StrategyRows /\ strategy'.type = strategy.type /\ strategy'.last = strategy.last
        /\ strategy'.next = S!NextRun(strategy, now)
    BY <1>2, <1>3, <2>1 DEF StrategyRows
  <2>3. S!NextRun(strategy', now) = S!NextRun(strategy, now)
    BY <2>2 DEF S!NextRun
  <2>4. NextFits'
    BY <1>1, <2>2, <2>3, RowFits
  <2>5. SteadyFits'
    BY <1>1, Zenon DEF SteadyFits
  <2>6. now' \in Nat /\ FirstDay * 1440 <= now' /\ now' < (LastDay + 1) * 1440
    BY <1>1 DEF CalendarInv
  <2>7. strategy'.last <= now' /\ strategy'.last >= S!Never /\ strategy'.next # S!Never
    BY <1>1, <1>2, <1>3, <2>2 DEF CalendarInv
  <2> QED
    BY <1>6, <2>2, <2>4, <2>5, <2>6, <2>7 DEF CalendarInv
<1>5. CASE S!Disable
  <2>1. strategy' = [strategy EXCEPT !.status = "DISABLED", !.next = S!Never]
    BY <1>5 DEF S!Disable
  <2>2. /\ strategy' \in StrategyRows /\ strategy'.type = strategy.type /\ strategy'.last = strategy.last
        /\ strategy'.next = S!Never /\ strategy'.status = "DISABLED"
    <3>1. S!Never \in Int
      BY DEF S!Never
    <3> QED
      BY <1>2, <2>1, <3>1 DEF StrategyRows
  <2>3. NextFits'
    BY <1>1, <2>2, RowFits
  <2>5. SteadyFits'
    BY <1>1, Zenon DEF SteadyFits
  <2>6. now' \in Nat /\ FirstDay * 1440 <= now' /\ now' < (LastDay + 1) * 1440
    BY <1>1 DEF CalendarInv
  <2>7. strategy'.last <= now' /\ strategy'.last >= S!Never
    BY <1>1, <1>2, <2>2 DEF CalendarInv
  <2> QED
    BY <1>6, <2>2, <2>3, <2>5, <2>6, <2>7 DEF CalendarInv
<1> QED
  BY <1>4, <1>5

LEMMA TickFits == ASSUME CalendarInv, S!Tick PROVE CalendarInv'
<1> DEFINE then == S!NextMark(now)
<1>1. /\ polled \/ ~up
      /\ then < (LastDay + 1) * 1440 /\ now' = then /\ polled' = FALSE
      /\ steady' = IF S!Minute(then) = 0
                   THEN /\ up /\ strategy.status = "ACTIVE" /\ turn.kind = "none"
                        /\ strategy.next >= then
                   ELSE steady
      /\ ran' = IF S!Minute(then) = 0 THEN S!NoTurn ELSE ran
      /\ UNCHANGED <<up, strategy, turn>>
  BY DEF S!Tick, S!Day
<1>0. S!Minute(then) = 0 =>
         steady' = (up /\ strategy.status = "ACTIVE" /\ turn.kind = "none" /\ strategy.next >= then)
  BY Zenon DEF S!Tick
<1>2. now \in Nat /\ FirstDay * 1440 <= now /\ FirstDay \in Nat
  BY Calendar DEF CalendarInv
<1>3. /\ then \in Nat /\ now < then
      /\ \/ S!Midnight(then) = S!Midnight(now) /\ S!Minute(then) # 0
         \/ S!Minute(then) = 0 /\ S!Midnight(then) = then
  BY <1>2, NextStop
<1> HIDE DEF then
<1>4. strategy \in StrategyRows /\ strategy.last \in Int /\ strategy.next \in Int
  BY DEF CalendarInv, StrategyRows
<1>5. \A d \in Nat : Occasion(strategy.type, d) \in Nat
  BY DEF Occasion, At
<1>6. strategy.last <= now' /\ FirstDay * 1440 <= now'
  <2>1. strategy.last <= now /\ FirstDay * 1440 \in Int
    BY <1>2 DEF CalendarInv
  <2> QED
    BY <1>1, <1>2, <1>3, <1>4, <2>1
<1>7. NextFits'
  <2> SUFFICES ASSUME strategy.type \in Daily, strategy.next # S!Never PROVE NextFits'
    BY <1>1 DEF NextFits
  <2>1. ASSUME NEW d \in Nat, OnDay(d), Occasion(strategy.type, d) > then
        PROVE  strategy.next <= Occasion(strategy.type, d)
    <3>1. Occasion(strategy.type, d) > now
      BY <1>2, <1>3, <1>5, <2>1
    <3> QED
      BY <2>1, <3>1 DEF CalendarInv, NextFits
  <2>2. /\ \E d \in Nat : OnDay(d) /\ d >= FirstDay /\ strategy.next = Occasion(strategy.type, d)
        /\ strategy.type = "MARKET_OPEN" => strategy.last < strategy.next
    BY DEF CalendarInv, NextFits
  <2> QED
    BY <1>1, <2>1, <2>2 DEF NextFits
<1>8. steady' \in BOOLEAN
  <2>1. steady \in BOOLEAN
    BY DEF CalendarInv
  <2>2. CASE S!Minute(then) = 0
    <3> DEFINE fresh == up /\ strategy.status = "ACTIVE" /\ turn.kind = "none" /\ strategy.next >= then
    <3>1. steady' = fresh
      BY <1>0, <2>2, Zenon
    <3>2. fresh \in BOOLEAN
      OBVIOUS
    <3> QED
      BY <3>1, <3>2, Zenon
  <2>3. CASE S!Minute(then) # 0
    BY <1>1, <2>1, <2>3
  <2> QED
    BY <2>2, <2>3
<1>11. polled' \in BOOLEAN /\ up' \in BOOLEAN
  <2>1. polled' = FALSE /\ up' = up /\ up \in BOOLEAN
    BY <1>1 DEF CalendarInv
  <2> QED
    BY <2>1, Zenon
<1>12. now' \in Nat /\ now' < (LastDay + 1) * 1440
  BY <1>1, <1>3
<1>13. /\ strategy' \in StrategyRows /\ strategy'.last >= S!Never /\ strategy'.last <= now'
       /\ strategy'.status = "ACTIVE" => strategy'.next # S!Never
  BY <1>1, <1>4, <1>6 DEF CalendarInv
<1>9. CASE S!Minute(then) # 0
  <2>1. steady' = steady /\ ran' = ran /\ S!Midnight(then) = S!Midnight(now)
    BY <1>1, <1>3, <1>9
  <2>2. S!Working(then) <=> S!Working(now)
    <3> DEFINE q == DayNumber(now)
               c == DayNumber(then)
    <3>1. /\ q \in Int /\ S!Midnight(now) = q * 1440 /\ S!Weekday(now) = q % 7
          /\ c \in Int /\ S!Midnight(then) = c * 1440 /\ S!Weekday(then) = c % 7
      BY <1>2, <1>3, DayAndMinute
    <3> HIDE DEF q, c
    <3>2. c = q
      BY <2>1, <3>1
    <3> QED
      BY <3>1, <3>2 DEF S!Working
  <2>3. SteadyFits'
    BY <1>1, <2>1, <2>2 DEF CalendarInv, SteadyFits
  <2> QED
    BY <1>6, <1>7, <1>8, <1>11, <1>12, <1>13, <2>3 DEF CalendarInv
<1>10. CASE S!Minute(then) = 0
  <2>1. SteadyFits'
    <3> SUFFICES ASSUME steady', strategy.type \in Daily PROVE SteadyFits'
      BY <1>1, ZenonT(60) DEF SteadyFits
    <3>1. up /\ strategy.status = "ACTIVE" /\ turn.kind = "none" /\ strategy.next >= then
      BY <1>0, <1>10, Zenon
    <3>2. S!Midnight(then) = then /\ ran'.kind = "none" /\ ~polled'
      BY <1>1, <1>3, <1>10 DEF S!NoTurn
    <3>3. strategy.next # S!Never
      BY <3>1 DEF CalendarInv
    <3>4. ASSUME NEW d \in Nat, OnDay(d), then <= Occasion(strategy.type, d)
          PROVE  strategy.next <= Occasion(strategy.type, d)
      <4>1. Occasion(strategy.type, d) > now
        BY <1>2, <1>3, <1>5, <3>4
      <4> QED
        BY <3>3, <3>4, <4>1 DEF CalendarInv, NextFits
    <3>5. then <= strategy.next
      BY <1>3, <1>4, <3>1
    <3> QED
      BY <1>1, <3>1, <3>2, <3>4, <3>5 DEF SteadyFits
  <2> QED
    BY <1>6, <1>7, <1>8, <1>11, <1>12, <1>13, <2>1 DEF CalendarInv
<1> QED
  BY <1>9, <1>10

\* Whatever is retried, switched or lost, a daily schedule waits for the first
\* occasion there is.
THEOREM CalendarHolds == S!Spec => []CalendarInv
<1>1. CalendarInv /\ [S!Next]_S!vars => CalendarInv'
  <2> SUFFICES ASSUME CalendarInv, [S!Next]_S!vars PROVE CalendarInv'
    OBVIOUS
  <2>1. CASE UNCHANGED S!vars
    <3>1. UNCHANGED <<now, polled, up, strategy, turn, ran, steady>>
      BY <2>1 DEF S!vars
    <3>2. NextFits' /\ SteadyFits'
      BY <3>1 DEF CalendarInv, NextFits, SteadyFits
    <3> QED
      BY <3>1, <3>2 DEF CalendarInv
  <2>2. CASE S!Next
    BY <2>2, TickFits, PollFits, TurnEndFits, SwitchFits DEF S!Next
  <2> QED
    BY <2>1, <2>2
<1> QED
  BY <1>1, CalendarBegins, PTL DEF S!Spec

\* Whatever is retried, overdue, triggered by hand or lost in a crash, the
\* schedule runs a MARKET_OPEN strategy at most once for an opening of the
\* market, unless the turn failed, or the user enables it again
\* (calculate_next_run, get_due_strategies).
THEOREM OneTurnPerOpening == S!Spec => OneRunPerOpening
<1>1. ASSUME CalendarInv, S!Next, turn.kind = "none", turn'.kind = "MARKET_OPEN",
             strategy.last # S!Never
      PROVE  S!Opened(strategy.last, now)
  <2>1. S!PollRuns
    <3>1. turn' # turn /\ turn' # S!NoTurn /\ turn'.kind # "manual"
      BY <1>1 DEF S!NoTurn
    <3>2. ~S!Manual
      BY <3>1 DEF S!Manual, S!Turn
    <3>3. ~(S!EndTurn \/ S!FailTurn \/ S!Crash)
      BY <3>1, Zenon DEF S!EndTurn, S!FailTurn, S!Crash
    <3>4. ~(S!Tick \/ S!PollNothing \/ S!PollBlocked \/ S!Enable \/ S!Disable \/ S!Restart)
      BY <3>1 DEF S!Tick, S!PollNothing, S!PollBlocked, S!Enable, S!Disable, S!Restart
    <3> QED
      BY <1>1, <3>2, <3>3, <3>4, Zenon DEF S!Next
  <2>2. strategy.type = "MARKET_OPEN" /\ strategy.next # S!Never /\ strategy.next <= now
    BY <1>1, <2>1 DEF S!PollRuns, S!Turn, S!Due
  <2>3. PICK d \in Nat : OnDay(d) /\ d >= FirstDay /\ strategy.next = Occasion("MARKET_OPEN", d)
    BY <1>1, <2>2 DEF CalendarInv, NextFits, Daily
  <2>4. strategy.last < strategy.next
    BY <1>1, <2>2 DEF CalendarInv, NextFits, Daily
  <2>5. Occasion("MARKET_OPEN", d) = d * 1440 + 225
    BY DEF Occasion, At
  <2>6. now < (LastDay + 1) * 1440 /\ now \in Nat /\ LastDay \in Nat /\ FirstDay \in Nat
    BY <1>1, Calendar DEF CalendarInv
  <2>7. d <= LastDay
    <3>1. /\ d \in Int /\ LastDay \in Int /\ now \in Int
          /\ d * 1440 + 225 <= now /\ now < (LastDay + 1) * 1440
      BY <2>2, <2>3, <2>5, <2>6
    <3>2. d < LastDay + 1
      BY <3>1
    <3> QED
      BY <3>1, <3>2
  <2>8. S!Working(d * S!Day)
    <3>1. d * 1440 = d * 1440 + 0 /\ 0 \in 0..1439 /\ d * 1440 \in Nat
      OBVIOUS
    <3>2. S!Working(d * 1440) <=> OnDay(d)
      BY <3>1, DayOf, SMTT(60)
    <3> QED
      BY <2>3, <3>2 DEF S!Day
  <2>9. strategy.last < d * S!Day + S!Open /\ d * S!Day + S!Open <= now
    BY <2>2, <2>3, <2>4, <2>5 DEF S!Day, S!Open
  <2>10. d \in FirstDay..LastDay
    BY <2>3, <2>6, <2>7
  <2> QED
    BY <2>8, <2>9, <2>10 DEF S!Opened
<1>2. CalendarInv /\ [S!Next]_S!vars =>
         [turn.kind = "none" /\ turn'.kind = "MARKET_OPEN" /\ strategy.last # S!Never =>
             S!Opened(strategy.last, now)]_S!vars
  BY <1>1
<1> QED
  BY <1>2, CalendarHolds, PTL DEF S!Spec, OneRunPerOpening, S!OneRunPerOpening

\* On a working day on which the engine is up, the strategy enabled and nothing
\* forbids its turn, a strategy of the opening or the closing has its run, and
\* on no other day: not after a weekend either (get_next_market_open,
\* get_next_market_close).
THEOREM EveryOpeningTaken == S!Spec => EveryOpeningIsTaken
<1>1. ASSUME CalendarInv, S!Next, S!Midnight(now') # S!Midnight(now), steady,
             strategy.type \in {"MARKET_OPEN", "MARKET_CLOSE"}
      PROVE  (ran.kind # "none") = S!Working(now)
  <2>1. S!Tick
    BY <1>1 DEF S!Next, S!PollNothing, S!PollBlocked, S!PollRuns, S!Manual, S!EndTurn, S!FailTurn,
                S!Enable, S!Disable, S!Crash, S!Restart
  <2>2. now \in Nat /\ now' = S!NextMark(now) /\ (polled \/ ~up)
    BY <1>1, <2>1 DEF S!Tick, CalendarInv
  <2>3. \A m \in Marks : m <= S!Minute(now)
    BY <1>1, <2>2, NextStop
  <2>4. polled /\ (ran.kind # "none" => S!Working(now))
    BY <1>1, <2>2 DEF CalendarInv, SteadyFits, Daily
  <2>5. ASSUME S!Working(now), ran.kind = "none" PROVE FALSE
    <3> DEFINE q == DayNumber(now)
               k == S!Minute(now)
               a == At(strategy.type)
    <3>1. /\ q \in Nat /\ k \in 0..1439 /\ now = q * 1440 + k /\ S!Midnight(now) = q * 1440
          /\ S!Weekday(now) = q % 7
      BY <2>2, DayAndMinute
    <3>2. OnDay(q)
      BY <2>5, <3>1 DEF S!Working, OnDay
    <3>3. a \in Nat /\ a <= 595 /\ Occasion(strategy.type, q) = q * 1440 + a
      BY DEF At, Occasion
    <3>4. k >= 600
      BY <2>3, <3>1, Calendar DEF S!Close, S!Day
    <3> HIDE DEF q, k, a
    <3>5. S!Midnight(now) <= Occasion(strategy.type, q) /\ Occasion(strategy.type, q) <= now
      BY <3>1, <3>3, <3>4
    <3>6. strategy.next <= Occasion(strategy.type, q) /\ now < strategy.next /\ strategy.next \in Int
      BY <1>1, <2>4, <2>5, <3>1, <3>2, <3>5 DEF CalendarInv, SteadyFits, StrategyRows, Daily
    <3> QED
      BY <2>2, <3>1, <3>3, <3>5, <3>6
  <2>6. S!Working(now) \in BOOLEAN
    BY DEF S!Working
  <2> QED
    BY <2>4, <2>5, <2>6
<1>2. CalendarInv /\ [S!Next]_S!vars =>
         [S!Midnight(now') # S!Midnight(now) /\ steady /\ strategy.type \in {"MARKET_OPEN", "MARKET_CLOSE"} =>
             (ran.kind # "none") = S!Working(now)]_S!vars
  BY <1>1
<1> QED
  BY <1>2, CalendarHolds, PTL DEF S!Spec, EveryOpeningIsTaken, S!EveryOpeningIsTaken

\* The clock stops at its marks, and a turn has begun while the engine was up.
TurnFits ==
    /\ S!Minute(now) \in Marks /\ turn.begun \in Int
    /\ turn.kind # "none" => up /\ turn.begun <= now
    /\ turn.trades \in BOOLEAN /\ ran.trades \in BOOLEAN

LEMMA TurnsBegin == S!Init => TurnFits
<1> SUFFICES ASSUME S!Init PROVE TurnFits
  OBVIOUS
<1>1. now = FirstDay * 1440 + 0 /\ FirstDay \in Nat /\ 0 \in Marks /\ 0 \in 0..1439
  BY Calendar DEF S!Init, S!Day
<1>2. S!Minute(now) = 0
  <2>1. now \in Nat
    BY <1>1
  <2> QED
    BY <1>1, <2>1, DayOf, SMTT(60)
<1> QED
  BY <1>1, <1>2 DEF S!Init, TurnFits, S!NoTurn, S!Never

LEMMA TurnSteps == ASSUME CalendarInv, TurnFits, [S!Next]_S!vars PROVE TurnFits'
<1>0. now \in Nat
  BY DEF CalendarInv
<1>1. CASE S!Tick
  <2>1. now' = S!NextMark(now) /\ UNCHANGED <<up, turn>> /\ ran' \in {S!NoTurn, ran}
    BY <1>1 DEF S!Tick
  <2>2. now' \in Nat /\ now < now' /\ S!Minute(now') \in Marks
    BY <1>0, <2>1, NextStop
  <2>3. turn'.trades \in BOOLEAN /\ ran'.trades \in BOOLEAN
    <3>1. S!NoTurn.trades \in BOOLEAN
      BY DEF S!NoTurn
    <3>2. turn.trades \in BOOLEAN /\ ran.trades \in BOOLEAN
      BY DEF TurnFits
    <3>3. turn' = turn /\ (ran' = S!NoTurn \/ ran' = ran)
      BY <2>1
    <3> QED
      BY <3>1, <3>2, <3>3, Zenon
  <2>4. turn'.begun \in Int /\ (turn'.kind # "none" => up' /\ turn'.begun <= now')
    BY <1>0, <2>1, <2>2 DEF TurnFits
  <2> QED
    BY <2>2, <2>3, <2>4 DEF TurnFits
<1>2. ASSUME NEW kind, up, up' = up, now' = now, turn' = S!Turn(kind), ran' \in {turn', ran} PROVE TurnFits'
  <2>1. turn'.begun = now /\ turn'.trades = S!MayTrade(strategy, now)
    BY <1>2 DEF S!Turn
  <2>2. S!MayTrade(strategy, now) \in BOOLEAN
    BY DEF S!MayTrade, S!Within
  <2>3. turn'.trades \in BOOLEAN /\ ran'.trades \in BOOLEAN
    BY <1>2, <2>1, <2>2 DEF TurnFits
  <2> QED
    BY <1>0, <1>2, <2>1, <2>3 DEF TurnFits
<1>3. CASE S!PollRuns
  BY <1>2, <1>3 DEF S!PollRuns
<1>4. CASE S!Manual
  BY <1>2, <1>4 DEF S!Manual
<1>5. ASSUME now' = now, ran' = ran, turn' = S!NoTurn PROVE TurnFits'
  BY <1>5 DEF TurnFits, S!NoTurn, S!Never
<1>6. CASE S!EndTurn \/ S!FailTurn \/ S!Crash
  BY <1>5, <1>6 DEF S!EndTurn, S!FailTurn, S!Crash
<1>7. ASSUME now' = now, ran' = ran, turn' = turn, up => up' PROVE TurnFits'
  BY <1>7 DEF TurnFits
<1>8. CASE S!PollNothing \/ S!PollBlocked \/ S!Enable \/ S!Disable \/ S!Restart \/ UNCHANGED S!vars
  BY <1>7, <1>8 DEF S!PollNothing, S!PollBlocked, S!Enable, S!Disable, S!Restart, S!vars
<1> QED
  BY <1>1, <1>3, <1>4, <1>6, <1>8 DEF S!Next

\* The types of a schedule: the clock shows the days there are, no run is of
\* the future, and no turn goes on while the engine is down.
THEOREM CalendarTyped == S!Spec => []S!TypeOK
<1>1. ASSUME CalendarInv, TurnFits PROVE S!TypeOK
  <2>1. now \in (FirstDay * S!Day)..((LastDay + 1) * S!Day - 1)
    BY <1>1, Calendar DEF CalendarInv, S!Day
  <2>2. {strategy.next, strategy.last} \subseteq Int /\ strategy.last <= now
    BY <1>1 DEF CalendarInv, StrategyRows
  <2>3. strategy.status \in {"ACTIVE", "DISABLED"} /\ strategy.type \in S!Types
    BY <1>1 DEF CalendarInv, StrategyRows
  <2>4. {polled, up, steady, turn.trades, ran.trades} \subseteq BOOLEAN
    BY <1>1 DEF CalendarInv, TurnFits
  <2>5. S!Minute(now) \in Marks /\ (turn.kind # "none" => up /\ turn.begun <= now)
    BY <1>1 DEF TurnFits
  <2> QED
    BY <2>1, <2>2, <2>3, <2>4, <2>5 DEF S!TypeOK
<1>2. CalendarInv /\ TurnFits /\ [S!Next]_S!vars => TurnFits'
  BY TurnSteps
<1> QED
  BY <1>1, <1>2, TurnsBegin, CalendarHolds, PTL DEF S!Spec

-----------------------------------------------------------------------------
(* Strategies: what protects a signal, and what limits an order            *)

\* What is answered for a bar: a signal gives the bar's price, and where its
\* stop is no level of the day, the stop is behind the price and the target
\* ahead.
AnswerFits(a) ==
    a.type \in {"BUY", "SELL"} =>
        /\ a.price = bar.close /\ a.stop \in Int
        /\ ~T!AtLevel => IF a.type = "BUY" THEN a.stop <= a.price /\ a.price <= a.target
                         ELSE a.target <= a.price /\ a.price <= a.stop

StrategyInv ==
    /\ setup \in Setups /\ day \in T!Days
    /\ answer.type \in {"BUY", "SELL", "HOLD", "UNASKED"} => bar \in T!Readings
    /\ AnswerFits(answer)

LEMMA Product == ASSUME NEW a \in Nat, NEW b \in Nat PROVE a * b \in Nat
OBVIOUS

LEMMA Tenths == ASSUME NEW a \in Nat PROVE a \div 10 \in Nat /\ a \div 50 \in Nat /\ a \div 200 \in Nat
OBVIOUS

LEMMA Quotient == ASSUME NEW n \in Int, NEW d \in Nat \ {0} PROVE (n \div d) \in Int /\ (n \div d) * d <= n
OBVIOUS

LEMMA FewerCost == ASSUME NEW n \in Int, NEW m \in Int, NEW d \in Nat, n <= m PROVE n * d <= m * d
OBVIOUS

LEMMA CostsOrder == ASSUME NEW n \in Int, NEW m \in Int, NEW d \in Nat \ {0}, n * d < m * d PROVE n < m
OBVIOUS

\* Every bar has a price and a range.
LEMMA BarFits ==
    ASSUME setup \in Setups, NEW r \in T!Readings
    PROVE  r.close \in Nat \ {0} /\ r.atr \in Nat
<1>1. /\ Prices \subseteq Nat \ {0} /\ Atrs \subseteq Nat /\ \A c \in Candles : c.close \in Nat \ {0}
      /\ setup.kind \in {"ma_crossover", "macd", "orb", "gap_go", "rsi", "bollinger", "vwap_momentum",
                         "price_action_volume_swing", "momentum_short", "vwap_reversion"}
  BY Trading DEF T!Crossing, T!FromOpening
<1>2. CASE setup.kind \in {"ma_crossover", "macd", "gap_go", "rsi", "bollinger"}
  BY <1>1, <1>2 DEF T!Readings
<1>3. CASE setup.kind \in {"vwap_momentum", "momentum_short", "vwap_reversion"}
  BY <1>1, <1>3 DEF T!Readings
<1>4. CASE setup.kind = "price_action_volume_swing"
  BY <1>1, <1>4 DEF T!Readings
<1>5. CASE setup.kind = "orb"
  BY <1>1, <1>5 DEF T!Readings
<1> QED
  BY <1>1, <1>2, <1>3, <1>4, <1>5

\* A stop on the losing side puts the target on the other.
LEMMA Faces ==
    ASSUME NEW side \in {"BUY", "SELL"}, NEW price \in Int, NEW stop \in Int, setup.ratio \in Nat
    PROVE  LET a == T!WithStop(side, price, stop) IN
           /\ a.type = side /\ a.price = price /\ a.stop = stop
           /\ side = "BUY" => a.price <= a.target
           /\ side = "SELL" => a.target <= a.price
<1> DEFINE reward == (T!Distance(price, stop) * setup.ratio) \div 10
<1>1. T!Distance(price, stop) \in Nat
  BY DEF T!Distance
<1>2. reward \in Nat
  BY <1>1, Product, Tenths
<1>3. T!TargetOf(price, stop, side) = IF side = "BUY" THEN price + reward ELSE price - reward
  BY DEF T!TargetOf
<1> HIDE DEF reward
<1> QED
  BY <1>2, <1>3 DEF T!WithStop, T!Signal

\* The losing side.
LEMMA Backs ==
    ASSUME NEW side \in {"BUY", "SELL"}, NEW price \in Int, NEW distance \in Nat
    PROVE  /\ T!Behind(price, side, distance) \in Int
           /\ side = "BUY" => T!Behind(price, side, distance) <= price
           /\ side = "SELL" => price <= T!Behind(price, side, distance)
BY DEF T!Behind

\* A signal with a stop behind the price is as it should be.
LEMMA BackedFits ==
    ASSUME setup \in Setups, bar \in T!Readings, NEW side \in {"BUY", "SELL"}, NEW distance \in Nat
    PROVE  AnswerFits(T!WithStop(side, bar.close, T!Behind(bar.close, side, distance)))
<1> DEFINE price == bar.close
           stop == T!Behind(price, side, distance)
           a == T!WithStop(side, price, stop)
<1>1. price \in Int /\ setup.ratio \in Nat
  BY BarFits, Trading
<1>2. stop \in Int /\ (side = "BUY" => stop <= price) /\ (side = "SELL" => price <= stop)
  BY <1>1, Backs
<1>3. /\ a.type = side /\ a.price = price /\ a.stop = stop
      /\ side = "BUY" => a.price <= a.target
      /\ side = "SELL" => a.target <= a.price
  BY <1>1, <1>2, Faces
<1> HIDE DEF stop, a
<1> QED
  BY <1>2, <1>3 DEF AnswerFits, a, stop

LEMMA StandardFits ==
    ASSUME setup \in Setups, bar \in T!Readings, NEW side \in {"BUY", "SELL"}
    PROVE  AnswerFits(T!Standard(side))
<1> DEFINE distance == IF bar.atr # 0 THEN (bar.atr * setup.multiplier) \div 10 ELSE bar.close \div 50
<1>1. bar.close \in Nat /\ bar.atr \in Nat /\ setup.multiplier \in Nat
  BY BarFits, Trading
<1>2. bar.atr * setup.multiplier \in Nat
  BY <1>1, Product
<1>3. distance \in Nat
  BY <1>1, <1>2, Tenths
<1>4. T!StopOf(bar.close, side, bar.atr) = T!Behind(bar.close, side, distance)
  BY DEF T!StopOf
<1> HIDE DEF distance
<1> QED
  BY <1>3, <1>4, BackedFits DEF T!Standard

LEMMA OthersFit ==
    /\ AnswerFits(T!Nothing) /\ AnswerFits(T!Raised) /\ AnswerFits(T!Unasked)
    /\ \A p : AnswerFits(T!Hold(p))
BY DEF AnswerFits, T!Nothing, T!Raised, T!Unasked, T!Hold

LEMMA EitherFits ==
    ASSUME setup \in Setups, bar \in T!Readings, NEW buy, NEW sell
    PROVE  AnswerFits(T!Either(buy, sell))
BY StandardFits, OthersFit DEF T!Either

\* The indicator strategies.
LEMMA IndicatorsFit ==
    ASSUME setup \in Setups, bar \in T!Readings
    PROVE  /\ AnswerFits(T!MovingAverage) /\ AnswerFits(T!Rsi) /\ AnswerFits(T!Macd)
           /\ AnswerFits(T!Bollinger) /\ AnswerFits(T!VwapMomentum) /\ AnswerFits(T!PriceAction)
BY EitherFits, OthersFit DEF T!MovingAverage, T!Rsi, T!Macd, T!Bollinger, T!VwapMomentum, T!PriceAction

LEMMA ShortFits ==
    ASSUME setup \in Setups, bar \in T!Readings
    PROVE  AnswerFits(T!MomentumShort)
<1> DEFINE distance == (bar.atr * setup.multiplier) \div 10
<1>1. bar.atr \in Nat /\ setup.multiplier \in Nat /\ bar.close \in Nat
  BY BarFits, Trading
<1>2. distance \in Nat
  BY <1>1, Product, Tenths
<1> HIDE DEF distance
<1>3. T!Behind(bar.close, "SELL", distance) = bar.close + distance
  BY <1>1, <1>2 DEF T!Behind
<1>4. AnswerFits(T!WithStop("SELL", bar.close, bar.close + distance))
  BY <1>2, <1>3, BackedFits
<1> QED
  BY <1>4, OthersFit DEF T!MomentumShort, distance

LEMMA ReversionFits ==
    ASSUME setup \in Setups, bar \in T!Readings, setup.kind = "vwap_reversion"
    PROVE  AnswerFits(T!VwapReversion)
<1> DEFINE side == IF bar.trend = "up" THEN "BUY" ELSE "SELL"
           gap == T!Distance(bar.close, bar.vwap)
           stop == IF bar.atr # 0 THEN (bar.atr * setup.multiplier) \div 10 ELSE (gap * 15) \div 10
<1>1. bar.atr \in Nat /\ setup.multiplier \in Nat /\ bar.close \in Nat /\ bar.vwap \in Nat
  BY BarFits, Trading DEF T!Readings
<1>2. gap \in Nat
  BY <1>1 DEF T!Distance
<1>3. stop \in Nat
  BY <1>1, <1>2, Product, Tenths
<1>4. T!VwapReversion \in {T!Nothing, T!WithStop(side, bar.close, T!Behind(bar.close, side, stop))}
  BY DEF T!VwapReversion
<1> HIDE DEF stop
<1>5. AnswerFits(T!WithStop(side, bar.close, T!Behind(bar.close, side, stop)))
  BY <1>3, BackedFits
<1> QED
  BY <1>4, <1>5, OthersFit

\* What the day's opening settles.
LEMMA DayFits ==
    ASSUME setup \in Setups, day \in T!Days
    PROVE  /\ setup.kind = "orb" => day.low \in Nat /\ day.high \in Nat /\ day.low <= day.high
           /\ setup.kind = "gap_go" => day.previous \in Nat /\ day.open \in Nat
<1>1. Prices \subseteq Nat \ {0}
  BY Trading
<1>2. CASE setup.kind = "orb"
  <2>1. /\ day \in [aware : BOOLEAN, ranged : BOOLEAN, low : Prices, high : Prices]
        /\ day.low = day.high \/ (day.ranged /\ ~day.aware /\ day.low < day.high)
    BY <1>2 DEF T!Days, T!Openings
  <2>2. day.low = day.high \/ day.low < day.high
    BY <2>1, Zenon
  <2>3. day.low \in Nat /\ day.high \in Nat
    BY <1>1, <2>1
  <2> QED
    BY <1>2, <2>2, <2>3
<1>3. CASE setup.kind = "gap_go"
  BY <1>1, <1>3 DEF T!Days, T!Openings
<1> QED
  BY <1>2, <1>3

\* A stop at the other side of the range is behind a close that has left it.
LEMMA OrbFits ==
    ASSUME setup \in Setups, bar \in T!Readings, day \in T!Days, setup.kind = "orb"
    PROVE  AnswerFits(T!Orb)
<1> DEFINE side == IF T!OpensUp THEN "BUY" ELSE "SELL"
           stop == T!OrbStop(side)
           price == bar.close
           a == T!WithStop(side, price, stop)
<1>1. /\ price \in Nat /\ bar.atr \in Nat /\ setup.ratio \in Nat /\ side \in {"BUY", "SELL"}
      /\ day.low \in Nat /\ day.high \in Nat /\ day.low <= day.high
  BY BarFits, DayFits, Trading
<1>2. (bar.atr * 15) \div 10 \in Nat /\ price \div 200 \in Nat
  BY <1>1, Product, Tenths
<1>3. CASE setup.stop # "range"
  <2>1. \/ stop = T!Behind(price, side, (bar.atr * 15) \div 10)
        \/ stop = T!Behind(price, side, price \div 200)
    BY <1>3 DEF T!OrbStop
  <2>2. AnswerFits(a)
    BY <1>1, <1>2, <2>1, BackedFits
  <2>3. T!Orb \in {T!Nothing, T!Raised, a} 
    BY DEF T!Orb
  <2> QED
    BY <2>2, <2>3, OthersFit
<1>4. CASE setup.stop = "range"
  <2>1. stop = IF side = "BUY" THEN day.low ELSE day.high
    BY <1>4 DEF T!OrbStop
  <2>2. stop \in Int
    BY <1>1, <2>1
  <2>3. /\ a.type = side /\ a.price = price /\ a.stop = stop
        /\ side = "BUY" => a.price <= a.target
        /\ side = "SELL" => a.target <= a.price
    BY <1>1, <2>2, Faces
  <2>4. T!Orb \in {T!Nothing, T!Raised} \/ (T!Orb = a /\ (T!OpensUp \/ T!OpensDown))
    BY DEF T!Orb
  <2>5. ASSUME T!OpensUp \/ T!OpensDown PROVE AnswerFits(a)
    <3>1. ASSUME setup.closes PROVE IF side = "BUY" THEN stop <= price ELSE price <= stop
      <4>1. T!OpensUp <=> 1000 * (price - day.high) > day.high - day.low
        BY <3>1 DEF T!OpensUp
      <4>2. T!OpensDown <=> 1000 * (day.low - price) > day.high - day.low
        BY <3>1 DEF T!OpensDown
      <4> QED
        BY <1>1, <2>1, <2>5, <4>1, <4>2
    <3>2. ~T!AtLevel => setup.closes
      BY DEF T!AtLevel, T!Crossing
    <3> HIDE DEF a, stop, price, side
    <3>3. a.stop \in Int /\ a.price = bar.close
      BY <2>2, <2>3 DEF price
    <3>4. ASSUME ~T!AtLevel
          PROVE  IF a.type = "BUY" THEN a.stop <= a.price /\ a.price <= a.target
                 ELSE a.target <= a.price /\ a.price <= a.stop
      BY <1>1, <2>3, <3>1, <3>2, <3>4
    <3> QED
      BY <3>3, <3>4 DEF AnswerFits
  <2> QED
    BY <2>4, <2>5, OthersFit
<1> QED
  BY <1>3, <1>4

LEMMA GapFits ==
    ASSUME setup \in Setups, bar \in T!Readings, day \in T!Days, setup.kind = "gap_go"
    PROVE  AnswerFits(T!GapGo)
<1> DEFINE side == IF day.open > day.previous THEN "BUY" ELSE "SELL"
           stop == T!GapStop(side)
           price == bar.close
           distance == (bar.atr * 15) \div 10
           plain == T!WithStop(side, price, stop)
           filled == T!Signal(side, price, stop, T!Behind(price, side, -T!Gap))
<1>1. /\ price \in Nat /\ bar.atr \in Nat /\ setup.ratio \in Nat /\ side \in {"BUY", "SELL"}
      /\ day.previous \in Nat /\ day.open \in Nat
  BY BarFits, DayFits, Trading
<1>2. distance \in Nat
  BY <1>1, Product, Tenths
<1>3. T!Gap \in Nat
  BY <1>1 DEF T!Gap, T!Distance
<1> HIDE DEF distance
<1>4. \/ stop \in {day.previous, (day.open + day.previous) \div 2}
      \/ stop = T!Behind(price, side, distance)
  BY DEF T!GapStop, distance
<1>5. ~T!AtLevel => stop = T!Behind(price, side, distance)
  BY DEF T!GapStop, T!AtLevel, distance
<1>7. T!GapGo \in {T!Nothing, plain, filled}
  BY DEF T!GapGo
<1> HIDE DEF stop, side, price
<1>6. /\ T!Behind(price, side, distance) \in Int
      /\ side = "BUY" => T!Behind(price, side, distance) <= price
      /\ side = "SELL" => price <= T!Behind(price, side, distance)
  <2>1. price \in Int
    BY <1>1
  <2> QED
    BY <1>1, <1>2, <2>1, Backs
<1>8. stop \in Int
  BY <1>1, <1>4, <1>6
<1>9. ~T!AtLevel => IF side = "BUY" THEN stop <= price ELSE price <= stop
  BY <1>1, <1>5, <1>6
<1>10. /\ plain.type = side /\ plain.price = price /\ plain.stop = stop
       /\ side = "BUY" => plain.price <= plain.target
       /\ side = "SELL" => plain.target <= plain.price
  BY <1>1, <1>8, Faces
<1>11. /\ filled.type = side /\ filled.price = price /\ filled.stop = stop
       /\ filled.target = IF side = "BUY" THEN price + T!Gap ELSE price - T!Gap
  <2>1. T!Behind(price, side, -T!Gap) = IF side = "BUY" THEN price + T!Gap ELSE price - T!Gap
    BY <1>1, <1>3 DEF T!Behind
  <2> QED
    BY <2>1 DEF T!Signal
<1> HIDE DEF plain, filled
<1>12. AnswerFits(plain)
  BY <1>1, <1>8, <1>9, <1>10 DEF AnswerFits, price
<1>13. AnswerFits(filled)
  BY <1>1, <1>3, <1>8, <1>9, <1>11 DEF AnswerFits, price
<1> QED
  BY <1>7, <1>12, <1>13, OthersFit

LEMMA AnswersProtect ==
    ASSUME setup \in Setups, bar \in T!Readings, day \in T!Days
    PROVE  AnswerFits(T!Answer)
<1>1. setup.kind \in {"ma_crossover", "macd", "orb", "gap_go", "rsi", "bollinger", "vwap_momentum",
                      "price_action_volume_swing", "momentum_short", "vwap_reversion"}
  BY Trading DEF T!Crossing, T!FromOpening
<1>2. CASE setup.kind \in {"ma_crossover", "macd", "rsi", "bollinger", "vwap_momentum",
                           "price_action_volume_swing"}
  BY <1>2, IndicatorsFit DEF T!Answer
<1>3. CASE setup.kind = "orb"
  BY <1>3, OrbFits DEF T!Answer
<1>4. CASE setup.kind = "gap_go"
  BY <1>4, GapFits DEF T!Answer
<1>5. CASE setup.kind = "momentum_short"
  BY <1>5, ShortFits DEF T!Answer
<1>6. CASE setup.kind = "vwap_reversion"
  BY <1>6, ReversionFits DEF T!Answer
<1> QED
  BY <1>1, <1>2, <1>3, <1>4, <1>5, <1>6

LEMMA StrategyBegins == T!Init => StrategyInv
BY OthersFit DEF T!Init, StrategyInv, T!Nothing

LEMMA ReadingsStay == ASSUME setup' = setup PROVE T!Readings' = T!Readings
BY DEF T!Readings

LEMMA StrategySteps == ASSUME StrategyInv, [T!Next]_T!vars PROVE StrategyInv'
<1>1. CASE T!Ask
  <2>1. /\ UNCHANGED <<setup, day, bar>> /\ answer = T!Unasked /\ answer' = T!Answer
    BY <1>1 DEF T!Ask
  <2>2. bar \in T!Readings
    BY <2>1 DEF StrategyInv, T!Unasked
  <2>3. AnswerFits(T!Answer)
    BY <2>2, AnswersProtect DEF StrategyInv
  <2>4. AnswerFits(answer)'
    BY <2>1, <2>3 DEF AnswerFits, T!AtLevel
  <2>7. T!Readings' = T!Readings
    BY <2>1 DEF T!Readings
  <2>5. bar' \in T!Readings'
    BY <2>1, <2>2, <2>7
  <2>6. setup' \in Setups /\ day' \in T!Days'
    BY <2>1 DEF StrategyInv, T!Days, T!Openings
  <2> QED
    BY <2>4, <2>5, <2>6 DEF StrategyInv
<1>2. CASE T!NextDay
  <2>1. /\ setup' = setup /\ day' \in T!Days /\ answer' = T!Nothing
    BY <1>2 DEF T!NextDay
  <2>2. day' \in T!Days'
    BY <2>1 DEF T!Days, T!Openings
  <2> QED
    BY <2>1, <2>2 DEF StrategyInv, T!Nothing, AnswerFits
<1>3. ASSUME NEW r \in T!Readings, T!Arrive(r) PROVE StrategyInv'
  <2>1. /\ UNCHANGED <<setup, day>> /\ bar' = r /\ answer' = T!Unasked
    BY <1>3 DEF T!Arrive
  <2>4. T!Readings' = T!Readings
    BY <2>1 DEF T!Readings
  <2>2. bar' \in T!Readings'
    BY <2>1, <2>4
  <2>3. setup' \in Setups /\ day' \in T!Days'
    BY <2>1 DEF StrategyInv, T!Days, T!Openings
  <2> QED
    BY <2>1, <2>2, <2>3 DEF StrategyInv, T!Unasked, AnswerFits
<1>4. CASE UNCHANGED T!vars
  <2>1. UNCHANGED <<setup, day, bar, answer>>
    BY <1>4 DEF T!vars
  <2>2. T!Readings' = T!Readings /\ T!Days' = T!Days
    BY <2>1 DEF T!Readings, T!Days, T!Openings
  <2>3. AnswerFits(answer)'
    BY <2>1 DEF StrategyInv, AnswerFits, T!AtLevel
  <2> QED
    BY <2>1, <2>2, <2>3 DEF StrategyInv
<1> QED
  BY <1>1, <1>2, <1>3, <1>4 DEF T!Next

\* Every signal of a strategy protects what it opens: whatever the indicators
\* read, its stop is behind the price and its target ahead, unless the stop is
\* a level of the day (calculate_stop_loss, calculate_take_profit,
\* generate_signals).
THEOREM SignalsAlwaysProtect == T!Spec => []SignalsProtect
<1>1. StrategyInv => T!SignalsProtect
  BY DEF StrategyInv, AnswerFits, T!SignalsProtect, T!Protects
<1> QED
  BY <1>1, StrategyBegins, StrategySteps, PTL DEF T!Spec, SignalsProtect

\* A capped quantity is no more than what was wanted, and fits under the cap.
LEMMA CapFits ==
    ASSUME NEW z, z.cap \in Int, NEW q \in Int, NEW existing \in Int, bar.close \in Nat \ {0}
    PROVE  LET c == T!Capped(z, q, existing) IN
           /\ c \in Int /\ (q >= 0 => c <= q)
           /\ z.cap # 0 /\ c > 0 => existing + c * bar.close <= z.cap
<1> DEFINE price == bar.close
           left == z.cap - existing
           c == T!Capped(z, q, existing)
<1>0. price \in Nat \ {0} /\ price * q \in Int /\ price * q = q * price
  OBVIOUS
<1> HIDE DEF price
<1>1. CASE z.cap = 0 \/ existing + price * q <= z.cap
  <2>1. c = q
    BY <1>1 DEF T!Capped, price
  <2> QED
    BY <1>0, <1>1, <2>1 DEF price
<1>2. CASE z.cap # 0 /\ ~(existing + price * q <= z.cap) /\ z.cap <= existing
  <2>1. c = 0
    BY <1>2 DEF T!Capped, price
  <2> QED
    BY <2>1
<1>3. CASE z.cap # 0 /\ ~(existing + price * q <= z.cap) /\ ~(z.cap <= existing)
  <2>1. c = left \div price
    BY <1>3 DEF T!Capped, price
  <2>2. left \in Int
    OBVIOUS
  <2> HIDE DEF left, c
  <2>3. c \in Int /\ c * price <= left
    BY <1>0, <2>1, <2>2, Quotient
  <2>4. left < q * price
    BY <1>0, <1>3 DEF left
  <2>5. c * price < q * price /\ c * price \in Int /\ q * price \in Int
    BY <1>0, <2>2, <2>3, <2>4
  <2>6. c < q
    BY <1>0, <2>3, <2>5, CostsOrder
  <2>7. existing + c * price <= z.cap
    BY <2>3, <2>5 DEF left
  <2> QED
    BY <2>3, <2>6, <2>7 DEF c, price
<1> QED
  BY <1>1, <1>2, <1>3

\* What an order is sized as, unless it falls back.
LEMMA SizeFits ==
    ASSUME bar.close \in Nat \ {0}, answer.type \in {"BUY", "SELL"} => answer.stop \in Int,
           NEW z \in Sizings, NEW account \in Accounts, NEW existing \in Existing,
           ~T!FallsBack(z, account)
    PROVE  LET q == T!Quantity(z, account, existing) IN
           /\ z.cap # 0 /\ q > 0 => existing + q * bar.close <= z.cap
           /\ z.method = "RISK_BASED" =>
                  q * (bar.close - answer.stop) <= (account.total * z.risk) \div 100
<1> DEFINE price == bar.close
           Within(q) == z.cap # 0 /\ q > 0 => existing + q * price <= z.cap
           size == T!Quantity(z, account, existing)
<1>1. /\ z.method \in {"FIXED_QUANTITY", "FIXED_AMOUNT", "PERCENT_OF_PORTFOLIO", "RISK_BASED"}
      /\ z.risk \in Nat /\ z.cap \in Int /\ z.quantity \in Int /\ z.amount \in Int
      /\ z.percent \in Int /\ existing \in Int
  BY Means
<1>2. \A q \in Int : /\ T!Capped(z, q, existing) \in Int /\ Within(T!Capped(z, q, existing))
                     /\ q >= 0 => T!Capped(z, q, existing) <= q
  BY <1>1, CapFits
<1>3. price \in Nat \ {0}
  OBVIOUS
<1>4. z.method \in {"PERCENT_OF_PORTFOLIO", "RISK_BASED"} =>
         account.total \in Nat /\ account.available \in Int
  BY Means DEF T!FallsBack
<1>5. CASE z.method \in {"FIXED_QUANTITY", "FIXED_AMOUNT"}
  <2>1. z.amount \div price \in Int
    BY <1>1, <1>3, Quotient
  <2>2. T!AtLeastOne(z.amount \div price) \in Int
    BY <2>1 DEF T!AtLeastOne
  <2>3. size \in {T!Capped(z, z.quantity, existing),
                  T!Capped(z, T!AtLeastOne(z.amount \div price), existing)}
    BY <1>5 DEF T!Quantity, T!FallsBack
  <2> HIDE DEF size
  <2>4. Within(size)
    BY <1>1, <1>2, <2>2, <2>3
  <2> QED
    BY <1>5, <2>4 DEF size
<1>6. ASSUME NEW n \in Int, account.available \in Int
      PROVE  T!Affordable(z, account, n) \in Int /\ T!Affordable(z, account, n) <= n
  <2> DEFINE most == (4 * account.available) \div price
  <2>1. most \in Int
    BY <1>3, <1>6, Quotient
  <2>2. T!Affordable(z, account, n) = IF z.intraday THEN T!Lesser(n, most) ELSE n
    BY DEF T!Affordable
  <2> HIDE DEF most
  <2> QED
    BY <1>6, <2>1, <2>2 DEF T!Lesser
<1>7. CASE z.method = "PERCENT_OF_PORTFOLIO"
  <2> DEFINE wanted == ((account.total * z.percent) \div 100) \div price
             q == T!Affordable(z, account, wanted)
  <2>1. (account.total * z.percent) \div 100 \in Int
    BY <1>1, <1>4, <1>7
  <2>2. wanted \in Int
    BY <1>3, <2>1, Quotient
  <2>3. size = IF q <= 0 THEN 0 ELSE T!Capped(z, q, existing)
    BY <1>7 DEF T!Quantity
  <2> HIDE DEF wanted, size
  <2>4. q \in Int
    BY <1>4, <1>6, <1>7, <2>2
  <2> HIDE DEF q
  <2>5. size = 0 \/ size = T!Capped(z, q, existing)
    BY <2>3
  <2>6. Within(size)
    BY <1>2, <2>4, <2>5
  <2> QED
    BY <1>7, <2>6 DEF size
<1>8. CASE z.method = "RISK_BASED"
  <2> DEFINE risk == (account.total * z.risk) \div 100
             apart == price - answer.stop
             wanted == risk \div apart
             q == T!Affordable(z, account, wanted)
  <2>1. T!HasStop
    BY <1>8 DEF T!FallsBack
  <2>2. apart \in Nat \ {0}
    BY <1>3, <2>1 DEF T!HasStop
  <2>3. account.total * z.risk \in Nat
    BY <1>1, <1>4, <1>8, Product
  <2>4. risk \in Nat
    BY <2>3
  <2>5. size = IF q <= 0 THEN 0 ELSE T!Capped(z, q, existing)
    BY <1>8 DEF T!Quantity
  <2> HIDE DEF risk, apart, size
  <2>6. wanted \in Int /\ wanted * apart <= risk
    BY <2>2, <2>4, Quotient
  <2> HIDE DEF wanted
  <2>7. q \in Int /\ q <= wanted
    BY <1>4, <1>6, <1>8, <2>6
  <2> HIDE DEF q
  <2>8. size = 0 \/ (q > 0 /\ size = T!Capped(z, q, existing))
    BY <2>5, <2>7
  <2>9. Within(size)
    BY <1>2, <2>7, <2>8
  <2>10. size * apart <= risk
    <3>1. CASE size = 0
      BY <2>2, <2>4, <3>1
    <3>2. CASE q > 0 /\ size = T!Capped(z, q, existing)
      <4>1. size \in Int /\ size <= wanted
        BY <1>2, <2>6, <2>7, <3>2
      <4>2. size * apart <= wanted * apart
        BY <2>2, <2>6, <4>1, FewerCost
      <4>3. size * apart \in Int /\ wanted * apart \in Int
        BY <2>2, <2>6, <4>1
      <4> QED
        BY <2>4, <2>6, <4>2, <4>3
    <3> QED
      BY <2>8, <3>1, <3>2
  <2> QED
    BY <2>9, <2>10 DEF size, risk, apart
<1> QED
  BY <1>1, <1>5, <1>7, <1>8

\* The size of an order keeps the position within max_position_value, and by
\* risk also what is lost at its stop within the risk per trade, unless it
\* falls back to a size of another kind (_calculate_position_size,
\* _cap_qty_by_max_position_value).
THEOREM SizesAlwaysFit == T!Spec => []SizesWithinLimits
<1>1. ASSUME StrategyInv PROVE T!SizesWithinLimits
  <2> SUFFICES ASSUME T!Sized PROVE T!SizesWithinLimits
    BY DEF T!SizesWithinLimits
  <2>1. setup \in Setups /\ bar \in T!Readings
    BY <1>1 DEF StrategyInv, T!Sized
  <2>2. bar.close \in Nat \ {0}
    BY <2>1, BarFits
  <2>3. answer.type \in {"BUY", "SELL"} => answer.stop \in Int
    BY <1>1 DEF StrategyInv, AnswerFits
  <2> QED
    BY <2>2, <2>3, SizeFits DEF T!SizesWithinLimits
<1> QED
  BY <1>1, StrategyBegins, StrategySteps, PTL DEF T!Spec, SizesWithinLimits

\* The averages agree with the last signal of a crossing.
Agrees(b) ==
    last # "NONE" => (b.fast > b.slow => last = "BUY") /\ (b.fast < b.slow => last = "SELL")

\* The moving averages of a backtest are compared at every bar.
CrossingFits ==
    setup.kind = "ma_crossover" /\ setup.host = "backtest" =>
        /\ bar \in T!Readings /\ setup.kind \notin T!FromOpening
        /\ answer = T!Unasked => Agrees(before) /\ {before.fast, before.slow} \subseteq Int
        /\ answer # T!Unasked => Agrees(bar)

LEMMA AveragesAreNumbers ==
    ASSUME setup.kind = "ma_crossover", NEW r \in T!Readings
    PROVE  r.fast \in Int /\ r.slow \in Int
BY Trading DEF T!Readings

LEMMA CrossingBegins == T!Init => CrossingFits
BY DEF T!Init, CrossingFits, Agrees, T!Nothing, T!Unasked, T!FromOpening

\* The signal of a bar is that of the averages, which it crosses or confirms.
LEMMA CrossingAnswers ==
    ASSUME CrossingFits, setup.kind = "ma_crossover", setup.host = "backtest", T!Ask
    PROVE  answer' # T!Unasked /\ Agrees(bar)'
<1>1. /\ bar' = bar /\ answer = T!Unasked /\ answer' = T!Answer
      /\ last' = IF answer'.type \in {"BUY", "SELL"} THEN answer'.type ELSE last
  BY DEF T!Ask, T!Crossing
<1>2. T!Answer = T!MovingAverage
  BY DEF T!Answer
<1>3. {bar.fast, bar.slow, before.fast, before.slow} \subseteq Int /\ Agrees(before)
  BY <1>1, AveragesAreNumbers DEF CrossingFits
<1>4. CASE T!Golden(before)
  <2>1. answer'.type = "BUY"
    BY <1>1, <1>2, <1>4 DEF T!MovingAverage, T!Either, T!Standard, T!WithStop, T!Signal
  <2> QED
    BY <1>1, <1>3, <1>4, <2>1 DEF T!Golden, Agrees, T!Unasked
<1>5. CASE ~T!Golden(before) /\ T!Death(before)
  <2>1. answer'.type = "SELL"
    BY <1>1, <1>2, <1>5 DEF T!MovingAverage, T!Either, T!Standard, T!WithStop, T!Signal
  <2> QED
    BY <1>1, <1>3, <1>5, <2>1 DEF T!Death, Agrees, T!Unasked
<1>6. CASE ~T!Golden(before) /\ ~T!Death(before)
  <2>1. answer'.type = "HOLD"
    BY <1>1, <1>2, <1>6 DEF T!MovingAverage, T!Either, T!Hold
  <2> QED
    BY <1>1, <1>3, <1>6, <2>1 DEF T!Golden, T!Death, Agrees, T!Unasked
<1> QED
  BY <1>4, <1>5, <1>6

LEMMA CrossingSteps == ASSUME CrossingFits, [T!Next]_T!vars PROVE CrossingFits'
<1> SUFFICES ASSUME (setup.kind = "ma_crossover")', (setup.host = "backtest")'
             PROVE  /\ bar' \in T!Readings' /\ setup'.kind \notin T!FromOpening
                    /\ answer' = T!Unasked => Agrees(before)' /\ {before'.fast, before'.slow} \subseteq Int
                    /\ answer' # T!Unasked => Agrees(bar)'
  BY DEF CrossingFits
<1>1. setup' = setup
  BY DEF T!Next, T!Ask, T!NextDay, T!Arrive, T!vars
<1>2. T!Readings' = T!Readings
  BY <1>1, ReadingsStay
<1>3. /\ setup.kind = "ma_crossover" /\ setup.host = "backtest"
      /\ bar \in T!Readings /\ setup.kind \notin T!FromOpening
      /\ answer = T!Unasked => Agrees(before) /\ {before.fast, before.slow} \subseteq Int
      /\ answer # T!Unasked => Agrees(bar)
  BY <1>1 DEF CrossingFits
<1>4. CASE T!Ask
  <2>1. bar' = bar
    BY <1>4 DEF T!Ask
  <2> QED
    BY <1>1, <1>2, <1>3, <1>4, <2>1, CrossingAnswers
<1>5. ASSUME NEW r \in T!Readings, T!Arrive(r)
      PROVE  /\ bar' \in T!Readings' /\ setup'.kind \notin T!FromOpening
             /\ answer' = T!Unasked => Agrees(before)' /\ {before'.fast, before'.slow} \subseteq Int
             /\ answer' # T!Unasked => Agrees(bar)'
  <2>1. /\ answer # T!Unasked /\ bar' = r /\ before' = [fast |-> bar.fast, slow |-> bar.slow]
        /\ answer' = T!Unasked /\ last' = last
    BY <1>3, <1>5 DEF T!Arrive, T!Kept
  <2>2. bar.fast \in Int /\ bar.slow \in Int
    BY <1>3, AveragesAreNumbers
  <2> QED
    BY <1>1, <1>2, <1>3, <2>1, <2>2 DEF Agrees
<1>6. ~T!NextDay
  BY <1>3 DEF T!NextDay
<1>7. CASE UNCHANGED T!vars
  <2>1. UNCHANGED <<bar, before, answer, last>>
    BY <1>7 DEF T!vars
  <2> QED
    BY <1>1, <1>2, <1>3, <2>1 DEF Agrees
<1> QED
  BY <1>4, <1>5, <1>6, <1>7 DEF T!Next

\* In a backtest no crossing of the moving averages is lost between two bars,
\* not even through a touch: the last signal agrees with them (generate_signals
\* of ma_crossover).
THEOREM NoCrossingIsLost == T!Spec => []T!CrossingsAreSignalled
<1>1. CrossingFits => T!CrossingsAreSignalled
  BY DEF CrossingFits, Agrees, T!CrossingsAreSignalled
<1> QED
  BY <1>1, CrossingBegins, CrossingSteps, PTL DEF T!Spec

\* What a strategy may answer when it is asked.
Replies == T!Types \ {"UNASKED"}

LEMMA AnswerReplies == ASSUME setup \in Setups PROVE T!Answer.type \in Replies
<1>1. setup.kind \in {"ma_crossover", "macd", "orb", "gap_go", "rsi", "bollinger", "vwap_momentum",
                      "price_action_volume_swing", "momentum_short", "vwap_reversion"}
  BY Trading DEF T!Crossing, T!FromOpening
<1>2. /\ T!Nothing.type \in Replies /\ T!Raised.type \in Replies /\ \A p : T!Hold(p).type \in Replies
      /\ \A p, s, t : T!Signal("BUY", p, s, t).type \in Replies /\ T!Signal("SELL", p, s, t).type \in Replies
      /\ \A p, s : T!WithStop("BUY", p, s).type \in Replies /\ T!WithStop("SELL", p, s).type \in Replies
  BY DEF Replies, T!Types, T!Nothing, T!Raised, T!Hold, T!Signal, T!WithStop
<1>3. \A b, s : T!Either(b, s).type \in Replies
  BY <1>2 DEF T!Either, T!Standard
<1>4. /\ T!MovingAverage.type \in Replies /\ T!Rsi.type \in Replies /\ T!Macd.type \in Replies
      /\ T!Bollinger.type \in Replies /\ T!VwapMomentum.type \in Replies /\ T!PriceAction.type \in Replies
  BY <1>2, <1>3 DEF T!MovingAverage, T!Rsi, T!Macd, T!Bollinger, T!VwapMomentum, T!PriceAction
<1>5. T!MomentumShort.type \in Replies
  BY <1>2 DEF T!MomentumShort
<1>6. T!VwapReversion.type \in Replies
  BY <1>2 DEF T!VwapReversion
<1>7. T!Orb.type \in Replies
  BY <1>2 DEF T!Orb
<1>8. T!GapGo.type \in Replies
  BY <1>2 DEF T!GapGo
<1> QED
  BY <1>1, <1>4, <1>5, <1>6, <1>7, <1>8 DEF T!Answer

\* What was seen, and what was answered and counted.
SignalFits ==
    /\ bar = T!NoBar \/ bar \in T!Readings
    /\ answer.type \in T!Types /\ last \in {"NONE", "BUY", "SELL"}
    /\ entries \in Nat /\ (setup.kind # "orb" => entries = 0)

LEMMA SignalsBegin == T!Init => SignalFits
BY DEF T!Init, SignalFits, T!Nothing, T!Types

LEMMA SignalSteps == ASSUME StrategyInv, SignalFits, [T!Next]_T!vars PROVE SignalFits'
<1>1. setup' = setup
  BY DEF T!Next, T!Ask, T!NextDay, T!Arrive, T!vars
<1>2. T!Readings' = T!Readings
  BY <1>1, ReadingsStay
<1>3. CASE T!Ask
  <2>1. /\ bar' = bar /\ answer' = T!Answer
        /\ entries' \in {entries, entries + 1} /\ (setup.kind # "orb" => entries' = entries)
        /\ last' \in {last, answer'.type} /\ (answer'.type \notin {"BUY", "SELL"} => last' = last)
    BY <1>3 DEF T!Ask
  <2>2. answer'.type \in T!Types
    BY <2>1, AnswerReplies DEF StrategyInv, Replies
  <2> QED
    BY <1>1, <1>2, <2>1, <2>2 DEF SignalFits
<1>4. CASE T!NextDay
  BY <1>1, <1>2, <1>4 DEF T!NextDay, SignalFits, T!Nothing, T!Types
<1>5. ASSUME NEW r \in T!Readings, T!Arrive(r) PROVE SignalFits'
  BY <1>1, <1>2, <1>5 DEF T!Arrive, SignalFits, T!Unasked, T!Types
<1>6. CASE UNCHANGED T!vars
  BY <1>1, <1>2, <1>6 DEF T!vars, SignalFits
<1> QED
  BY <1>3, <1>4, <1>5, <1>6 DEF T!Next

\* The types of a strategy's answers; only a signal of orb counts as an entry.
THEOREM SignalsTyped == T!Spec => []T!TypeOK
<1>1. ASSUME StrategyInv, SignalFits PROVE T!TypeOK
  <2>1. setup \in Setups
    BY <1>1 DEF StrategyInv
  <2>2. bar = T!NoBar \/ bar.close > 0
    BY <1>1, <2>1, BarFits DEF SignalFits
  <2> QED
    BY <1>1, <2>1, <2>2 DEF SignalFits, T!TypeOK
<1>2. StrategyInv /\ [T!Next]_T!vars => StrategyInv'
  BY StrategySteps
<1>3. StrategyInv /\ SignalFits /\ [T!Next]_T!vars => SignalFits'
  BY SignalSteps
<1> QED
  BY <1>1, <1>2, <1>3, StrategyBegins, SignalsBegin, PTL DEF T!Spec

-----------------------------------------------------------------------------
(* Screening: answers, and the strategies linked to them                   *)

\* What is answered is what was asked of the symbols and the quotes of a run.
ListFits(asked, list, direction, run) ==
    /\ list = R!ListOf(asked.filters, asked.least, asked.most, run.symbols,
                       past.history[run.seen].quotes[run.provider])
    /\ direction = R!Direction(asked.filters)

\* The key of an entry is all there is to its request but symbols and provider.
EntryFits(e) ==
    /\ \A asked : R!Key(asked) = e.key => ListFits(asked, e.list, e.direction, e.run)
    /\ e.at \in Int /\ e.until \in Int /\ e.until <= e.at + 60

\* What was inferred of filters that are still there.
Strategy(row) == row.inferred # "none" /\ ~row.edited => row.inferred = R!Inferred(row.filters)

\* The run is that of the request.
OwnRun(asked, run) == run.symbols = asked.symbols /\ run.provider = asked.provider

TaskFits(t) ==
    /\ t.stage \in {"idle", "asked", "screened"}
    /\ t.stage # "idle" /\ t.kind = "auto" => Strategy(t.row)
    /\ t.stage = "screened" /\ t.kind = "screen" =>
           ListFits(t.request, t.list, t.direction, t.run) /\ OwnRun(t.request, t.run)
    /\ t.stage = "screened" /\ t.kind = "auto" /\ t.row.filters # <<>> =>
           t.direction = R!Direction(t.row.filters)

GivenFits(a) ==
    /\ a.kind = "screen" => /\ ListFits(a.asked, a.list, a.direction, a.run)
                            /\ a.served - a.at <= 60
                            /\ ~a.cached => OwnRun(a.asked, a.run)
    /\ a.kind = "auto" => /\ Strategy(a.row)
                          /\ a.strategy = IF a.row.inferred = "none" THEN "momentum" ELSE a.row.inferred
                          /\ a.row.filters # <<>> => a.direction = R!Direction(a.row.filters)

ScreenerRows ==
    [saved : {TRUE}, filters : {row.filters : row \in Saved}, preset : {row.preset : row \in Saved},
     level : {row.level : row \in Saved}, auto : BOOLEAN \cup {row.auto : row \in Saved},
     inferred : {"none"} \cup {R!Inferred(row.filters) : row \in Saved}, edited : BOOLEAN]

ScreeningInv ==
    /\ past.history \in Histories /\ mark \in DOMAIN Clock
    /\ DOMAIN task = Callers /\ DOMAIN given = Callers
    /\ \A e \in cache : EntryFits(e)
    /\ \A c \in Callers : TaskFits(task[c]) /\ GivenFits(given[c])
    /\ screener = R!NoScreener \/ (screener \in ScreenerRows /\ Strategy(screener))

LEMMA NowIsTime == ASSUME mark \in DOMAIN Clock PROVE R!Now \in Int /\ R!Lifetime \in {5, 60}
<1>1. Clock[mark] \in Nat
  BY Quotes
<1> QED
  BY <1>1 DEF R!Now, R!Lifetime

LEMMA OneKey ==
    ASSUME NEW a, NEW b, R!Key(a) = R!Key(b)
    PROVE  a.filters = b.filters /\ a.least = b.least /\ a.most = b.most
BY DEF R!Key

\* Steps that leave the market's past alone leave what fits it.
LEMMA PastStays ==
    ASSUME past' = past
    PROVE  /\ \A a, l, d, n : ListFits(a, l, d, n)' <=> ListFits(a, l, d, n)
BY DEF ListFits

LEMMA ScreeningBegins == R!Init => ScreeningInv
<1> SUFFICES ASSUME R!Init PROVE ScreeningInv
  OBVIOUS
<1>1. 1 \in DOMAIN Clock
  BY Quotes
<1> QED
  BY <1>1 DEF R!Init, ScreeningInv, TaskFits, GivenFits, R!Idle, R!NoAnswer, R!NoScreener

\* What fits the market's past fits it after a step that leaves the past alone.
LEMMA FitsStay ==
    ASSUME past' = past
    PROVE  /\ \A t : TaskFits(t) => TaskFits(t)'
           /\ \A a : GivenFits(a) => GivenFits(a)'
           /\ \A e : EntryFits(e) => EntryFits(e)'
<1>1. \A a, l, d, n : ListFits(a, l, d, n)' <=> ListFits(a, l, d, n)
  BY PastStays
<1>2. \A row : Strategy(row)' <=> Strategy(row)
  BY DEF Strategy
<1>3. \A t : TaskFits(t) => TaskFits(t)'
  BY <1>1, <1>2 DEF TaskFits
<1>4. \A a : GivenFits(a) => GivenFits(a)'
  BY <1>1, <1>2 DEF GivenFits
<1>5. \A e : EntryFits(e) => EntryFits(e)'
  BY <1>1 DEF EntryFits, R!Key
<1> QED
  BY <1>3, <1>4, <1>5

\* One caller's task, or answer, changes.
LEMMA TaskSet ==
    ASSUME ScreeningInv, past' = past, NEW c \in Callers, NEW v, TaskFits(v),
           task' = [task EXCEPT ![c] = v]
    PROVE  DOMAIN task' = Callers /\ \A x \in Callers : TaskFits(task[x])'
<1>1. \A x \in Callers : TaskFits(task'[x])
  BY DEF ScreeningInv
<1> QED
  BY <1>1, FitsStay DEF ScreeningInv

LEMMA GivenSet ==
    ASSUME ScreeningInv, past' = past, NEW c \in Callers, NEW v, GivenFits(v),
           given' = [given EXCEPT ![c] = v]
    PROVE  DOMAIN given' = Callers /\ \A x \in Callers : GivenFits(given[x])'
<1>1. \A x \in Callers : GivenFits(given'[x])
  BY DEF ScreeningInv
<1> QED
  BY <1>1, FitsStay DEF ScreeningInv

LEMMA TaskKept ==
    ASSUME ScreeningInv, past' = past, task' = task
    PROVE  DOMAIN task' = Callers /\ \A x \in Callers : TaskFits(task[x])'
BY FitsStay DEF ScreeningInv

LEMMA GivenKept ==
    ASSUME ScreeningInv, past' = past, given' = given
    PROVE  DOMAIN given' = Callers /\ \A x \in Callers : GivenFits(given[x])'
BY FitsStay DEF ScreeningInv

LEMMA CacheKept ==
    ASSUME ScreeningInv, past' = past, cache' \subseteq cache
    PROVE  \A e \in cache' : EntryFits(e)'
BY FitsStay DEF ScreeningInv

LEMMA ScreenerKept ==
    ASSUME ScreeningInv, screener' = screener
    PROVE  screener' = R!NoScreener \/ (screener' \in ScreenerRows /\ Strategy(screener)')
BY DEF ScreeningInv, Strategy

LEMMA IdleFits == TaskFits(R!Idle)
BY DEF TaskFits, R!Idle

LEMMA BeginFits ==
    ASSUME ScreeningInv, NEW c \in Callers, NEW asked, R!Begin(c, asked)
    PROVE  ScreeningInv'
<1>1. UNCHANGED <<past, mark, cache, screener>>
  BY DEF R!Begin
<1>2. /\ mark' \in DOMAIN Clock /\ \A e \in cache' : EntryFits(e)'
      /\ screener' = R!NoScreener \/ (screener' \in ScreenerRows /\ Strategy(screener)')
  BY <1>1, CacheKept, ScreenerKept DEF ScreeningInv
<1>3. ASSUME NEW e \in R!Cached(asked), task' = task,
             given' = [given EXCEPT ![c] =
                [kind |-> "screen", asked |-> asked, list |-> e.list, direction |-> e.direction,
                 run |-> e.run, at |-> e.at, served |-> R!Now, cached |-> TRUE]]
      PROVE  ScreeningInv'
  <2>1. EntryFits(e) /\ R!Key(asked) = e.key /\ R!Now < e.until
    BY DEF R!Cached, ScreeningInv
  <2>2. ListFits(asked, e.list, e.direction, e.run)
    BY <2>1 DEF EntryFits
  <2>3. R!Now - e.at <= 60
    <3>1. R!Now \in Int /\ e.at \in Int /\ e.until \in Int /\ e.until <= e.at + 60 /\ R!Now < e.until
      BY <2>1, NowIsTime DEF EntryFits, ScreeningInv
    <3> QED
      BY <3>1
  <2> DEFINE a == [kind |-> "screen", asked |-> asked, list |-> e.list, direction |-> e.direction,
                   run |-> e.run, at |-> e.at, served |-> R!Now, cached |-> TRUE]
  <2>4. GivenFits(a)
    BY <2>2, <2>3 DEF GivenFits
  <2>5. given' = [given EXCEPT ![c] = a]
    BY <1>3
  <2> HIDE DEF a
  <2>6. DOMAIN given' = Callers /\ \A x \in Callers : GivenFits(given[x])'
    BY <1>1, <2>4, <2>5, GivenSet
  <2> QED
    BY <1>1, <1>2, <1>3, <2>6, TaskKept DEF ScreeningInv
<1>4. ASSUME given' = given,
             task' = [task EXCEPT ![c] = [stage |-> "asked", kind |-> "screen", request |-> asked]]
      PROVE  ScreeningInv'
  <2> DEFINE t == [stage |-> "asked", kind |-> "screen", request |-> asked]
  <2>1. TaskFits(t)
    BY DEF TaskFits
  <2>2. task' = [task EXCEPT ![c] = t]
    BY <1>4
  <2> HIDE DEF t
  <2>3. DOMAIN task' = Callers /\ \A x \in Callers : TaskFits(task[x])'
    BY <1>1, <2>1, <2>2, TaskSet
  <2> QED
    BY <1>1, <1>2, <1>4, <2>3, GivenKept DEF ScreeningInv
<1> QED
  BY <1>3, <1>4 DEF R!Begin

LEMMA RunAutoTradeFits ==
    ASSUME ScreeningInv, NEW c \in Callers, R!RunAutoTrade(c)
    PROVE  ScreeningInv'
<1> DEFINE t == [stage |-> "asked", kind |-> "auto", row |-> screener]
<1>1. UNCHANGED <<past, mark, cache, given, screener>> /\ task' = [task EXCEPT ![c] = t]
      /\ screener.saved
  BY DEF R!RunAutoTrade
<1>2. Strategy(screener)
  BY <1>1 DEF ScreeningInv, R!NoScreener
<1>3. TaskFits(t)
  BY <1>2 DEF TaskFits
<1> HIDE DEF t
<1>4. DOMAIN task' = Callers /\ \A x \in Callers : TaskFits(task[x])'
  BY <1>1, <1>3, TaskSet
<1> QED
  BY <1>1, <1>4, GivenKept, CacheKept, ScreenerKept DEF ScreeningInv

\* A screener with filters of its own is as short as they are.
LEMMA OwnDirection ==
    ASSUME NEW row, row.filters # <<>>
    PROVE  R!DirectionOf(row) = R!Direction(row.filters)
BY DEF R!DirectionOf, R!FiltersOf

LEMMA ScreenFits ==
    ASSUME ScreeningInv, NEW c \in Callers, R!Screen(c)
    PROVE  ScreeningInv'
<1> DEFINE old == task[c]
           asked == IF old.kind = "screen" THEN old.request
                      ELSE R!Plain(R!FiltersOf(old.row), 50, 50, Default)
           run == [seen |-> mark, symbols |-> asked.symbols, provider |-> asked.provider]
           list == R!ListOf(asked.filters, asked.least, asked.most, asked.symbols, R!Market(asked.provider))
           direction == IF old.kind = "screen" THEN R!Direction(asked.filters)
                        ELSE R!DirectionOf(old.row)
           row == IF old.kind = "screen" THEN R!NoScreener ELSE old.row
           t == [stage |-> "screened", kind |-> old.kind, request |-> asked, run |-> run,
                 list |-> list, direction |-> direction, row |-> row]
<1>1. UNCHANGED <<past, mark, cache, given, screener>> /\ task' = [task EXCEPT ![c] = t]
      /\ old.stage = "asked"
  BY DEF R!Screen
<1>2. TaskFits(old)
  BY DEF ScreeningInv
<1>3. old.kind = "auto" => Strategy(old.row) /\ row = old.row
  BY <1>1, <1>2 DEF TaskFits
<1>4. old.kind = "auto" /\ row.filters # <<>> => direction = R!Direction(row.filters)
  BY <1>3, OwnDirection
<1>5. old.kind = "screen" => ListFits(asked, list, direction, run) /\ OwnRun(asked, run)
  BY DEF ListFits, OwnRun, R!Market
<1> HIDE DEF asked, run, list, direction, row, old
<1>6. TaskFits(t)
  BY <1>3, <1>4, <1>5 DEF TaskFits
<1> HIDE DEF t
<1>7. DOMAIN task' = Callers /\ \A x \in Callers : TaskFits(task[x])'
  BY <1>1, <1>6, TaskSet
<1> QED
  BY <1>1, <1>7, GivenKept, CacheKept, ScreenerKept DEF ScreeningInv

LEMMA RespondFits ==
    ASSUME ScreeningInv, NEW c \in Callers, R!Respond(c)
    PROVE  ScreeningInv'
<1> DEFINE t == task[c]
           entry == [key |-> R!Key(t.request), list |-> t.list, direction |-> t.direction,
                     run |-> t.run, at |-> R!Now, until |-> R!Now + R!Lifetime]
           a == [kind |-> "screen", asked |-> t.request, list |-> t.list, direction |-> t.direction,
                 run |-> t.run, at |-> R!Now, served |-> R!Now, cached |-> FALSE]
<1>1. /\ t.stage = "screened" /\ t.kind = "screen" /\ UNCHANGED <<past, mark, screener>>
      /\ task' = [task EXCEPT ![c] = R!Idle]
  BY DEF R!Respond
<1>2. cache' \in {cache, {e \in cache : e.key # entry.key} \cup {entry}}
  BY DEF R!Respond
<1>3. given' \in {given, [given EXCEPT ![c] = a]}
  BY DEF R!Respond
<1>4. R!Now \in Int /\ R!Lifetime \in {5, 60}
  BY NowIsTime DEF ScreeningInv
<1>5. TaskFits(t)
  BY DEF ScreeningInv
<1>6. ListFits(t.request, t.list, t.direction, t.run) /\ OwnRun(t.request, t.run)
  BY <1>1, <1>5 DEF TaskFits
<1>7. GivenFits(a)
  BY <1>4, <1>6 DEF GivenFits
<1>8. EntryFits(entry)
  <2>1. ASSUME NEW asked, R!Key(asked) = entry.key
        PROVE  ListFits(asked, entry.list, entry.direction, entry.run)
    <3>1. asked.filters = t.request.filters /\ asked.least = t.request.least /\ asked.most = t.request.most
      BY <2>1, OneKey
    <3>2. entry.list = t.list /\ entry.direction = t.direction /\ entry.run = t.run
      OBVIOUS
    <3> QED
      BY <1>6, <3>1, <3>2 DEF ListFits
  <2>2. entry.at = R!Now /\ entry.until = R!Now + R!Lifetime
    OBVIOUS
  <2>3. entry.at \in Int /\ entry.until \in Int /\ entry.until <= entry.at + 60
    BY <1>4, <2>2
  <2> HIDE DEF entry
  <2> QED
    BY <2>1, <2>3 DEF EntryFits
<1> HIDE DEF entry, a
<1>9. \A e \in cache' : EntryFits(e)'
  <2>1. \A e \in cache' : EntryFits(e)
    BY <1>2, <1>8 DEF ScreeningInv
  <2> QED
    BY <1>1, <2>1, FitsStay
<1>10. DOMAIN given' = Callers /\ \A x \in Callers : GivenFits(given[x])'
  BY <1>1, <1>3, <1>7, GivenKept, GivenSet
<1>11. DOMAIN task' = Callers /\ \A x \in Callers : TaskFits(task[x])'
  BY <1>1, IdleFits, TaskSet
<1> QED
  BY <1>1, <1>9, <1>10, <1>11, ScreenerKept DEF ScreeningInv

LEMMA RecommendFits ==
    ASSUME ScreeningInv, NEW c \in Callers, R!Recommend(c)
    PROVE  ScreeningInv'
<1> DEFINE t == task[c]
           a == [kind |-> "auto", row |-> t.row, list |-> t.list, direction |-> t.direction,
                 strategy |-> IF t.row.inferred = "none" THEN "momentum" ELSE t.row.inferred]
<1>1. /\ t.stage = "screened" /\ t.kind = "auto" /\ UNCHANGED <<past, mark, cache, screener>>
      /\ task' = [task EXCEPT ![c] = R!Idle] /\ given' = [given EXCEPT ![c] = a]
  BY DEF R!Recommend
<1>2. TaskFits(t)
  BY DEF ScreeningInv
<1>3. GivenFits(a)
  BY <1>1, <1>2 DEF TaskFits, GivenFits
<1> HIDE DEF a
<1>4. DOMAIN given' = Callers /\ \A x \in Callers : GivenFits(given[x])'
  BY <1>1, <1>3, GivenSet
<1>5. DOMAIN task' = Callers /\ \A x \in Callers : TaskFits(task[x])'
  BY <1>1, IdleFits, TaskSet
<1> QED
  BY <1>1, <1>4, <1>5, CacheKept, ScreenerKept DEF ScreeningInv

LEMMA RestFits ==
    ASSUME ScreeningInv,
           \/ \E c \in Callers : R!Fail(c)
           \/ R!Tick
           \/ UNCHANGED R!vars
    PROVE  ScreeningInv'
<1>1. UNCHANGED <<past, cache, given, screener>>
  BY DEF R!Fail, R!Tick, R!vars
<1>2. DOMAIN task' = Callers /\ \A x \in Callers : TaskFits(task[x])'
  <2>1. ASSUME NEW c \in Callers, R!Fail(c)
        PROVE  DOMAIN task' = Callers /\ \A x \in Callers : TaskFits(task[x])'
    BY <1>1, <2>1, IdleFits, TaskSet DEF R!Fail
  <2>2. CASE task' = task
    BY <1>1, <2>2, TaskKept
  <2> QED
    BY <2>1, <2>2 DEF R!Tick, R!vars
<1>3. mark' \in DOMAIN Clock
  <2>1. CASE mark' = mark
    BY <2>1 DEF ScreeningInv
  <2>2. CASE R!Tick
    <3>1. mark \in 1..Len(Clock) /\ mark < Len(Clock) /\ mark' = mark + 1 /\ Len(Clock) \in Nat
          /\ DOMAIN Clock = 1..Len(Clock)
      BY <2>2, Quotes DEF R!Tick, ScreeningInv
    <3> QED
      BY <3>1
  <2> QED
    BY <2>1, <2>2 DEF R!Fail, R!vars
<1> QED
  BY <1>1, <1>2, <1>3, GivenKept, CacheKept, ScreenerKept DEF ScreeningInv

\* Whatever is inferred of a row is inferred of its filters.
LEMMA RowsFit ==
    ASSUME ScreeningInv,
           \/ R!CreateScreener \/ R!UpdateScreener \/ R!DeleteScreener
           \/ R!LinkAutoTrade \/ R!UnlinkAutoTrade
    PROVE  ScreeningInv'
<1>1. UNCHANGED <<past, mark, cache, task, given>>
  BY DEF R!CreateScreener, R!UpdateScreener, R!DeleteScreener, R!LinkAutoTrade, R!UnlinkAutoTrade
<1>2. screener.saved => screener \in ScreenerRows /\ Strategy(screener)
  BY DEF ScreeningInv, R!NoScreener
<1>3. screener' = R!NoScreener \/ (screener' \in ScreenerRows /\ Strategy(screener'))
  <2>1. CASE R!CreateScreener
    <3>1. PICK row \in Saved :
             screener' = [saved |-> TRUE, filters |-> row.filters, preset |-> row.preset, level |-> row.level,
                          auto |-> row.auto, inferred |-> "none", edited |-> FALSE]
      BY <2>1 DEF R!CreateScreener
    <3>2. screener' \in ScreenerRows
      BY <3>1 DEF ScreenerRows
    <3>3. screener'.inferred = "none"
      BY <3>1
    <3> QED
      BY <3>2, <3>3 DEF Strategy
  <2>2. CASE R!UpdateScreener
    <3>1. PICK row \in Saved :
             screener' = [screener EXCEPT !.filters = row.filters, !.auto = row.auto, !.edited = TRUE]
      BY <2>2 DEF R!UpdateScreener
    <3>2. screener \in ScreenerRows
      BY <1>2, <2>2 DEF R!UpdateScreener
    <3>3. screener' \in ScreenerRows /\ screener'.edited = TRUE
      BY <3>1, <3>2 DEF ScreenerRows
    <3> QED
      BY <3>3 DEF Strategy
  <2>3. CASE R!DeleteScreener
    BY <2>3 DEF R!DeleteScreener
  <2>4. CASE R!LinkAutoTrade
    <3>1. screener' = [screener EXCEPT !.auto = TRUE, !.inferred = R!Inferred(screener.filters), !.edited = FALSE]
      BY <2>4 DEF R!LinkAutoTrade
    <3>2. screener \in ScreenerRows
      BY <1>2, <2>4 DEF R!LinkAutoTrade
    <3>3. PICK row \in Saved : screener.filters = row.filters
      BY <3>2 DEF ScreenerRows
    <3>4. R!Inferred(screener.filters) \in {R!Inferred(r.filters) : r \in Saved}
      BY <3>3
    <3>5. /\ screener' \in ScreenerRows /\ screener'.filters = screener.filters
          /\ screener'.inferred = R!Inferred(screener.filters)
      BY <3>1, <3>2, <3>4 DEF ScreenerRows
    <3> QED
      BY <3>5 DEF Strategy
  <2>5. CASE R!UnlinkAutoTrade
    <3>1. screener' = [screener EXCEPT !.auto = FALSE]
      BY <2>5 DEF R!UnlinkAutoTrade
    <3>2. screener \in ScreenerRows /\ Strategy(screener)
      BY <1>2, <2>5 DEF R!UnlinkAutoTrade
    <3>3. /\ screener' \in ScreenerRows /\ screener'.filters = screener.filters
          /\ screener'.inferred = screener.inferred /\ screener'.edited = screener.edited
      BY <3>1, <3>2 DEF ScreenerRows
    <3> QED
      BY <3>2, <3>3 DEF Strategy
  <2> QED
    BY <2>1, <2>2, <2>3, <2>4, <2>5
<1>4. Strategy(screener)' <=> Strategy(screener')
  BY DEF Strategy
<1> QED
  BY <1>1, <1>3, <1>4, TaskKept, GivenKept, CacheKept DEF ScreeningInv

\* Whatever is cached, in progress or given is an answer to what was asked.
THEOREM ScreeningHolds == R!Spec => []ScreeningInv
<1>1. ASSUME ScreeningInv, [R!Next]_R!vars PROVE ScreeningInv'
  <2>1. ASSUME NEW c \in Callers,
               R!Run(c) \/ R!RunSaved(c) \/ R!RunAutoTrade(c) \/ R!Screen(c) \/ R!Respond(c)
                 \/ R!Recommend(c) \/ R!Fail(c)
        PROVE  ScreeningInv'
    <3>1. CASE R!Run(c)
      BY <1>1, <3>1, BeginFits DEF R!Run
    <3>2. CASE R!RunSaved(c)
      BY <1>1, <3>2, BeginFits DEF R!RunSaved
    <3> QED
      BY <1>1, <2>1, <3>1, <3>2, RunAutoTradeFits, ScreenFits, RespondFits, RecommendFits, RestFits
  <2> QED
    BY <1>1, <2>1, RowsFit, RestFits DEF R!Next
<1> QED
  BY <1>1, ScreeningBegins, PTL DEF R!Spec

\* An answer, cached or not, is what the filters, the least score and the size of
\* its request ask of the symbols and the quotes of one run, made within the hour
\* before it was served; only a cached one may be of a run for other symbols or of
\* another provider's quotes (run_screener, _generate_cache_key).
THEOREM AnswersAlwaysFit == R!Spec => []AnswersFit
<1>1. ScreeningInv => R!AnswersFit
  BY DEF ScreeningInv, GivenFits, ListFits, OwnRun, R!AnswersFit
<1> QED
  BY <1>1, ScreeningHolds, PTL DEF AnswersFit

\* A list of filters that sells short is that of the strategy that does, and no
\* other.
LEMMA ShortIsInferred ==
    ASSUME NEW filters
    PROVE  R!Inferred(filters) = "momentum_short" <=> R!Direction(filters) = "SHORT"
<1>1. R!ShortIntent(filters) <=> R!Direction(filters) = "SHORT"
  BY DEF R!ShortIntent, R!Direction
<1>2. R!ShortIntent(filters) => R!Inferred(filters) = "momentum_short"
  BY DEF R!Inferred
<1>3. ~R!ShortIntent(filters) =>
         R!Inferred(filters) \in {"vwap_momentum", "rsi", "ma_crossover", "bollinger"}
  BY DEF R!Inferred
<1> QED
  BY <1>1, <1>2, <1>3

\* What is recommended for trading is to be sold short exactly when the strategy
\* linked to it sells short, for a screener with filters of its own that were not
\* edited since it was linked (link_auto_trade, run_custom_screener_for_auto_trade).
THEOREM DirectionsAlwaysAgree == R!Spec => []DirectionsAgree
<1>1. ScreeningInv => R!DirectionsAgree
  BY ShortIsInferred DEF ScreeningInv, GivenFits, Strategy, R!DirectionsAgree
<1> QED
  BY <1>1, ScreeningHolds, PTL DEF DirectionsAgree

\* A filter of a preset, at a level.
AtLevel(f, level) == IF level = 1 THEN f ELSE R!Relaxed(f, level)

\* What presets ask for in numbers that are scaled is never negative, and a
\* check that may be dropped is one they ask for.
Askable(f) ==
    /\ f.type \in {"volume", "moving_average", "breakout", "consolidation", "price_action"}
    /\ \A p \in DOMAIN f.params : /\ p \in DOMAIN R!Multiplier => f.params[p] \in Nat
                                  /\ p \in R!Switches => f.params[p] = TRUE

LEMMA ScaledIsNumber ==
    ASSUME NEW n \in Nat, NEW by \in Nat
    PROVE  R!Scaled(n, by) = (n * by) \div 1000 /\ R!Scaled(n, by) \in Nat
<1>1. n * by \in Nat /\ ~(n < 0)
  OBVIOUS
<1>2. (n * by) \div 1000 \in Nat
  BY <1>1
<1> QED
  BY <1>1, <1>2 DEF R!Scaled

LEMMA ScaledInOrder ==
    ASSUME NEW n \in Nat, NEW a \in Nat, NEW b \in Nat, a <= b
    PROVE  /\ R!Scaled(n, a) \in Nat /\ R!Scaled(n, b) \in Nat
           /\ R!Scaled(n, a) <= R!Scaled(n, b)
<1> DEFINE x == n * a
           y == n * b
<1>1. x \in Nat /\ y \in Nat /\ x <= y
  OBVIOUS
<1> HIDE DEF x, y
<1>2. x \div 1000 <= y \div 1000
  BY <1>1
<1> QED
  BY <1>2, ScaledIsNumber DEF x, y

LEMMA Unscaled == ASSUME NEW n \in Nat PROVE R!Scaled(n, 1000) = n
<1>1. (n * 1000) \div 1000 = n
  OBVIOUS
<1> QED
  BY <1>1, ScaledIsNumber

Falling == {"min_avg_volume", "volume_spike_threshold", "breakout_pct"}

\* The multipliers at the levels, in their order.
LEMMA Multipliers ==
    ASSUME NEW strict \in 1..3, NEW lax \in 2..4, strict < lax
    PROVE  /\ Falling \cup {"max_range_pct"} \subseteq DOMAIN R!Multiplier
           /\ \A p \in Falling \cup {"max_range_pct"} :
                 R!Multiplier[p][strict] \in Nat /\ R!Multiplier[p][lax] \in Nat /\ R!Multiplier[p][1] = 1000
           /\ \A p \in Falling : R!Multiplier[p][lax] <= R!Multiplier[p][strict]
           /\ R!Multiplier["max_range_pct"][strict] <= R!Multiplier["max_range_pct"][lax]
BY DEF R!Multiplier, Falling

LEMMA OtherParameters ==
    /\ DOMAIN R!Multiplier \cap R!Switches = {}
    /\ {"trend_ma", "require_above_trend", "require_below_trend", "require_ma_crossover",
        "lookback_period"} \cap (DOMAIN R!Multiplier \cup R!Switches) = {}
BY DEF R!Multiplier, R!Switches

\* A filter's parameter at a level.
LEMMA AskedAt ==
    ASSUME NEW f, NEW n \in 1..4, NEW p, NEW default
    PROVE  /\ AtLevel(f, n).type = f.type
           /\ p \notin DOMAIN f.params => R!Of(AtLevel(f, n), p, default) = default
           /\ p \in DOMAIN f.params =>
                R!Of(AtLevel(f, n), p, default) =
                   IF n = 1 THEN f.params[p]
                   ELSE IF p \in DOMAIN R!Multiplier THEN R!Scaled(f.params[p], R!Multiplier[p][n])
                   ELSE IF p \in R!Switches THEN n = 2
                   ELSE f.params[p]
BY DEF AtLevel, R!Relaxed, R!Filter, R!Of

LEMMA CheckedAt ==
    ASSUME NEW f, NEW n \in 1..4, NEW p
    PROVE  /\ p \notin DOMAIN f.params => R!Of(AtLevel(f, n), p, FALSE) = FALSE
           /\ p \in DOMAIN f.params /\ n = 1 => R!Of(AtLevel(f, n), p, FALSE) = f.params[p]
           /\ p \in DOMAIN f.params /\ n # 1 /\ p \in R!Switches =>
                R!Of(AtLevel(f, n), p, FALSE) = (n = 2)
<1>1. CASE p \notin DOMAIN f.params
  <2>1. p \notin DOMAIN AtLevel(f, n).params
    BY <1>1 DEF AtLevel, R!Relaxed, R!Filter
  <2> QED
    BY <1>1, <2>1, Zenon DEF R!Of
<1>2. CASE p \in DOMAIN f.params /\ n = 1
  BY <1>2, Zenon DEF AtLevel, R!Of
<1>3. CASE p \in DOMAIN f.params /\ n # 1 /\ p \in R!Switches
  <2>1. p \notin DOMAIN R!Multiplier
    BY <1>3, OtherParameters
  <2>2. p \in DOMAIN AtLevel(f, n).params /\ AtLevel(f, n).params[p] = (n = 2)
    BY <1>3, <2>1 DEF AtLevel, R!Relaxed, R!Filter
  <2> QED
    BY <1>3, <2>2, Zenon DEF R!Of
<1> QED
  BY <1>1, <1>2, <1>3, Zenon

\* A laxer filter asks for less of a number that falls, for more of one that
\* rises, and drops checks or leaves them as they are.
AsksLess(b, a) ==
    /\ \A p \in Falling : \A default \in Nat :
          R!Of(a, p, default) \in Nat /\ R!Of(b, p, default) \in Nat /\ R!Of(b, p, default) <= R!Of(a, p, default)
    /\ \A default \in Nat :
          /\ R!Of(a, "max_range_pct", default) \in Nat /\ R!Of(b, "max_range_pct", default) \in Nat
          /\ R!Of(a, "max_range_pct", default) <= R!Of(b, "max_range_pct", default)
    /\ \A p \in R!Switches : R!Of(a, p, FALSE) = TRUE \/ R!Of(b, p, FALSE) = FALSE
    /\ \A p \in {"trend_ma", "require_above_trend", "require_below_trend", "require_ma_crossover",
                 "lookback_period"} : \A default : R!Of(b, p, default) = R!Of(a, p, default)

\* A laxer level asks for less of a number that falls, more of one that rises,
\* drops checks and leaves the others.
LEMMA LaxerAsksLess ==
    ASSUME NEW f, Askable(f), NEW strict \in 1..3, NEW lax \in 2..4, strict < lax
    PROVE  AsksLess(AtLevel(f, lax), AtLevel(f, strict))
<1> DEFINE Strict(p, default) == R!Of(AtLevel(f, strict), p, default)
           Lax(p, default) == R!Of(AtLevel(f, lax), p, default)
<1>1. strict \in 1..4 /\ lax \in 1..4 /\ lax # 1
  OBVIOUS
<1>2. \A p \in Falling \cup {"max_range_pct"} :
         /\ p \in DOMAIN R!Multiplier /\ R!Multiplier[p][strict] \in Nat /\ R!Multiplier[p][lax] \in Nat
         /\ R!Multiplier[p][1] = 1000
  BY Multipliers
<1>3. ASSUME NEW p \in Falling \cup {"max_range_pct"}, p \in DOMAIN f.params, NEW default
      PROVE  /\ f.params[p] \in Nat
             /\ Strict(p, default) = R!Scaled(f.params[p], R!Multiplier[p][strict])
             /\ Lax(p, default) = R!Scaled(f.params[p], R!Multiplier[p][lax])
  <2>1. f.params[p] \in Nat
    BY <1>2, <1>3 DEF Askable
  <2>2. Lax(p, default) = R!Scaled(f.params[p], R!Multiplier[p][lax])
    BY <1>1, <1>2, <1>3, AskedAt
  <2>3. CASE strict = 1
    BY <1>1, <1>2, <1>3, <2>1, <2>2, <2>3, AskedAt, Unscaled
  <2>4. CASE strict # 1
    BY <1>1, <1>2, <1>3, <2>1, <2>2, <2>4, AskedAt
  <2> QED
    BY <2>1, <2>2, <2>3, <2>4
<1>4. ASSUME NEW p \in Falling, NEW default \in Nat
      PROVE  Strict(p, default) \in Nat /\ Lax(p, default) \in Nat /\ Lax(p, default) <= Strict(p, default)
  <2>1. CASE p \notin DOMAIN f.params
    <3>1. Strict(p, default) = default /\ Lax(p, default) = default
      BY <1>1, <2>1, AskedAt
    <3> QED
      BY <3>1
  <2>2. CASE p \in DOMAIN f.params
    <3>1. /\ f.params[p] \in Nat
          /\ Strict(p, default) = R!Scaled(f.params[p], R!Multiplier[p][strict])
          /\ Lax(p, default) = R!Scaled(f.params[p], R!Multiplier[p][lax])
      BY <1>3, <2>2
    <3>2. R!Multiplier[p][lax] <= R!Multiplier[p][strict]
      BY Multipliers
    <3>3. R!Multiplier[p][strict] \in Nat /\ R!Multiplier[p][lax] \in Nat
      BY <1>2
    <3> DEFINE x == f.params[p]
               ms == R!Multiplier[p][strict]
               ml == R!Multiplier[p][lax]
    <3>4. x \in Nat /\ ms \in Nat /\ ml \in Nat /\ ml <= ms
      BY <3>1, <3>2, <3>3
    <3>5. Strict(p, default) = R!Scaled(x, ms) /\ Lax(p, default) = R!Scaled(x, ml)
      BY <3>1
    <3> HIDE DEF Strict, Lax, x, ms, ml
    <3> QED
      BY <3>4, <3>5, ScaledInOrder
  <2> QED
    BY <2>1, <2>2
<1>5. ASSUME NEW default \in Nat
      PROVE  /\ Strict("max_range_pct", default) \in Nat /\ Lax("max_range_pct", default) \in Nat
             /\ Strict("max_range_pct", default) <= Lax("max_range_pct", default)
  <2> SUFFICES ASSUME NEW p, p = "max_range_pct"
               PROVE  /\ Strict(p, default) \in Nat /\ Lax(p, default) \in Nat
                      /\ Strict(p, default) <= Lax(p, default)
    OBVIOUS
  <2>1. CASE p \notin DOMAIN f.params
    <3>1. Strict(p, default) = default /\ Lax(p, default) = default
      BY <1>1, <2>1, AskedAt
    <3> QED
      BY <3>1
  <2>2. CASE p \in DOMAIN f.params
    <3>1. /\ f.params[p] \in Nat
          /\ Strict(p, default) = R!Scaled(f.params[p], R!Multiplier[p][strict])
          /\ Lax(p, default) = R!Scaled(f.params[p], R!Multiplier[p][lax])
      BY <1>3, <2>2
    <3>2. R!Multiplier[p][strict] <= R!Multiplier[p][lax]
      BY Multipliers
    <3>3. R!Multiplier[p][strict] \in Nat /\ R!Multiplier[p][lax] \in Nat
      BY <1>2
    <3> DEFINE x == f.params[p]
               ms == R!Multiplier[p][strict]
               ml == R!Multiplier[p][lax]
    <3>4. x \in Nat /\ ms \in Nat /\ ml \in Nat /\ ms <= ml
      BY <3>1, <3>2, <3>3
    <3>5. Strict(p, default) = R!Scaled(x, ms) /\ Lax(p, default) = R!Scaled(x, ml)
      BY <3>1
    <3> HIDE DEF Strict, Lax, x, ms, ml
    <3> QED
      BY <3>4, <3>5, ScaledInOrder
  <2> QED
    BY <2>1, <2>2
<1>6. ASSUME NEW p \in R!Switches PROVE Strict(p, FALSE) = TRUE \/ Lax(p, FALSE) = FALSE
  <2>1. p \notin DOMAIN R!Multiplier
    BY OtherParameters
  <2>2. CASE p \notin DOMAIN f.params
    BY <1>1, <2>2, CheckedAt, Zenon
  <2>3. CASE p \in DOMAIN f.params /\ lax = 2
    <3>1. strict = 1
      BY <2>3
    <3>2. Strict(p, FALSE) = f.params[p]
      BY <1>1, <2>3, <3>1, CheckedAt, Zenon
    <3>3. f.params[p] = TRUE
      BY <2>3 DEF Askable
    <3> HIDE DEF Strict, Lax
    <3> QED
      BY <3>2, <3>3, Zenon
  <2>4. CASE p \in DOMAIN f.params /\ lax # 2
    <3>1. Lax(p, FALSE) = (lax = 2)
      BY <1>1, <2>4, CheckedAt, Zenon
    <3> HIDE DEF Strict, Lax
    <3> QED
      BY <2>4, <3>1, Zenon
  <2> QED
    BY <2>2, <2>3, <2>4
<1>7. ASSUME NEW p \in {"trend_ma", "require_above_trend", "require_below_trend", "require_ma_crossover",
                        "lookback_period"},
             NEW default
      PROVE  Lax(p, default) = Strict(p, default)
  <2>1. p \notin DOMAIN R!Multiplier /\ p \notin R!Switches
    BY OtherParameters
  <2> QED
    BY <1>1, <2>1, AskedAt
<1> QED
  BY <1>4, <1>5, <1>6, <1>7 DEF AsksLess

\* A symbol that passes a filter passes it at a laxer level.
LEMMA LaxerPasses ==
    ASSUME NEW f, Askable(f), NEW strict \in 1..3, NEW lax \in 2..4, strict < lax,
           NEW r, {r.bars, r.volume, r.ratio, r.roc, r.over, r.range} \subseteq Int,
           R!Apply(AtLevel(f, strict), r).passed
    PROVE  R!Apply(AtLevel(f, lax), r).passed
<1> DEFINE a == AtLevel(f, strict)
           b == AtLevel(f, lax)
<1>1. a.type = f.type /\ b.type = f.type
  BY DEF AtLevel, R!Relaxed, R!Filter
<1>2. \A score : R!Passed(score).passed
  BY DEF R!Passed
<1>3. ~R!Failed.passed
  BY DEF R!Failed
<1>4. AsksLess(b, a)
  BY LaxerAsksLess
<1> HIDE DEF a, b
<1>5. CASE f.type = "volume"
  <2>1. R!Volume(a, r).passed
    BY <1>1, <1>5 DEF R!Apply, a
  <2>2. R!Volume(b, r).passed => R!Apply(b, r).passed
    BY <1>1, <1>5 DEF R!Apply
  <2> DEFINE least(g) == R!Of(g, "min_avg_volume", 100000)
             spike(g) == r.ratio >= R!Of(g, "volume_spike_threshold", 150)
  <2>3. /\ ~(r.bars < 20 \/ r.volume < least(a) \/ (R!Requires(a, "require_spike") /\ ~spike(a)))
    BY <1>3, <2>1 DEF R!Volume
  <2>4. least(a) \in Nat /\ least(b) \in Nat /\ least(b) <= least(a)
    <3>1. "min_avg_volume" \in Falling /\ 100000 \in Nat
      BY DEF Falling
    <3> QED
      BY <1>4, <3>1 DEF AsksLess
  <2>5. spike(a) => spike(b)
    BY <1>4 DEF AsksLess, Falling
  <2>6. R!Requires(a, "require_spike") = TRUE \/ R!Requires(b, "require_spike") = FALSE
    BY <1>4 DEF AsksLess, R!Requires, R!Switches
  <2> DEFINE x == R!Requires(a, "require_spike")
             y == R!Requires(b, "require_spike")
  <2>7. R!Volume(b, r) =
           IF r.bars < 20 \/ r.volume < least(b) \/ (y /\ ~spike(b)) THEN R!Failed
           ELSE R!Passed(R!Min({100, (r.volume * 50) \div least(b)})
                         + R!Points(R!Min({50, (r.ratio * 25) \div 100}), spike(b)))
    BY DEF R!Volume
  <2> HIDE DEF least, spike, x, y
  <2>8. ~(y /\ ~spike(b))
    BY <2>3, <2>5, <2>6, Zenon DEF x, y
  <2>9. ~(r.bars < 20) /\ ~(r.volume < least(b))
    BY <2>3, <2>4
  <2>10. R!Volume(b, r).passed
    BY <1>2, <2>7, <2>8, <2>9, Zenon
  <2> QED
    BY <2>2, <2>10 DEF b
<1>6. CASE f.type = "moving_average"
  <2> DEFINE trend(g) == R!Of(g, "trend_ma", 200)
             from(g) == R!Of(g, "require_above_trend", TRUE)
             Short(g) == r.bars < R!Max({trend(g), 150}) + 27
             Side(g) == (from(g) /\ trend(g) \notin r.above) \/ (R!Requires(g, "require_below_trend") /\ trend(g) \in r.above)
             Crosses(g) == R!Requires(g, "require_ma_crossover") /\ ~r.crossed
             Stacked(g) == R!Requires(g, "require_stacked_ma")
             Up(g) == R!Requires(g, "require_trend_up")
             Fails(g) == \/ Short(g) \/ Side(g) \/ (Stacked(g) /\ ~r.stacked) \/ (Up(g) /\ ~r.up) \/ Crosses(g)
  <2>1. trend(b) = trend(a)
    BY <1>4 DEF AsksLess
  <2>2. from(b) = from(a)
    BY <1>4, Zenon DEF AsksLess
  <2>3. /\ R!Requires(b, "require_below_trend") = R!Requires(a, "require_below_trend")
        /\ R!Requires(b, "require_ma_crossover") = R!Requires(a, "require_ma_crossover")
    BY <1>4, Zenon DEF AsksLess, R!Requires
  <2>4. Stacked(a) = TRUE \/ Stacked(b) = FALSE
    BY <1>4 DEF AsksLess, R!Requires, R!Switches
  <2>5. Up(a) = TRUE \/ Up(b) = FALSE
    BY <1>4 DEF AsksLess, R!Requires, R!Switches
  <2>6. \A g : (R!Average(g, r).passed => ~Fails(g)) /\ (~Fails(g) => R!Average(g, r).passed)
    BY <1>2, <1>3, ZenonT(60) DEF R!Average
  <2>7. ~Fails(a)
    BY <1>1, <1>6, <2>6 DEF R!Apply, a
  <2>8. Short(b) = Short(a) /\ Side(b) = Side(a) /\ Crosses(b) = Crosses(a)
    BY <2>1, <2>2, <2>3, Zenon
  <2> HIDE DEF Short, Side, Crosses, Stacked, Up
  <2>9. ~Fails(b)
    BY <2>4, <2>5, <2>7, <2>8, Zenon
  <2>10. R!Average(b, r).passed
    BY <2>6, <2>9, Zenon
  <2> QED
    BY <1>1, <1>6, <2>10 DEF R!Apply, b
<1>7. CASE f.type = "breakout"
  <2> DEFINE least(g) == R!Of(g, "breakout_pct", 20)
  <2>1. least(a) \in Nat /\ least(b) \in Nat /\ least(b) <= least(a)
    <3>1. "breakout_pct" \in Falling /\ 20 \in Nat
      BY DEF Falling
    <3> QED
      BY <1>4, <3>1 DEF AsksLess
  <2>2. \A g : R!Breakout(g, r).passed <=> ~(r.bars < 25 \/ r.over < least(g))
    BY <1>2, <1>3, Zenon DEF R!Breakout
  <2>3. R!Breakout(a, r).passed
    BY <1>1, <1>7 DEF R!Apply, a
  <2> HIDE DEF least
  <2>4. R!Breakout(b, r).passed
    BY <2>1, <2>2, <2>3
  <2> QED
    BY <1>1, <1>7, <2>4 DEF R!Apply, b
<1>8. CASE f.type = "consolidation"
  <2> DEFINE most(g) == R!Of(g, "max_range_pct", 10)
  <2>1. most(a) \in Nat /\ most(b) \in Nat /\ most(a) <= most(b)
    BY <1>4 DEF AsksLess
  <2>2. \A g : R!Consolidation(g, r).passed <=> ~(r.bars < 20 \/ r.range > most(g))
    BY <1>2, <1>3, Zenon DEF R!Consolidation
  <2>3. R!Consolidation(a, r).passed
    BY <1>1, <1>8 DEF R!Apply, a
  <2> HIDE DEF most
  <2>4. R!Consolidation(b, r).passed
    BY <2>1, <2>2, <2>3
  <2> QED
    BY <1>1, <1>8, <2>4 DEF R!Apply, b
<1>9. CASE f.type = "price_action"
  <2>1. R!Of(b, "lookback_period", 20) = R!Of(a, "lookback_period", 20)
    BY <1>4 DEF AsksLess
  <2>2. R!Performance(b, r) = R!Performance(a, r)
    BY <2>1 DEF R!Performance
  <2> QED
    BY <1>1, <1>9, <2>2 DEF R!Apply, a, b
<1> QED
  BY <1>5, <1>6, <1>7, <1>8, <1>9 DEF Askable

\* The filters of the presets but the momentum one can be asked at any level.
LEMMA PresetsAskable ==
    ASSUME NEW p \in DOMAIN R!Preset, NEW i \in DOMAIN R!Preset[p], R!Preset[p][i].type # "momentum"
    PROVE  Askable(R!Preset[p][i])
<1> DEFINE f == R!Preset[p][i]
<1>1. Askable(R!Liquid) /\ Askable(R!Above(200)) /\ Askable(R!Above(50)) /\ Askable(R!Below(50))
  BY DEF Askable, R!Liquid, R!Above, R!Below, R!Filter, R!Multiplier, R!Switches
<1>2. CASE p = "minervini"
  <2>1. \/ f = R!Liquid
        \/ f = R!Filter("moving_average", [trend_ma |-> 200, require_above_trend |-> TRUE,
                                          require_stacked_ma |-> TRUE, require_trend_up |-> TRUE])
        \/ f = R!Filter("momentum", [momentum_mode |-> "bullish", near_52w_high_pct |-> 25,
                                    min_pct_above_52w_low |-> 30])
    BY <1>2 DEF R!Preset
  <2>3. \A params : R!Filter("momentum", params).type = "momentum"
    BY DEF R!Filter
  <2>2. Askable(R!Filter("moving_average", [trend_ma |-> 200, require_above_trend |-> TRUE,
                                            require_stacked_ma |-> TRUE, require_trend_up |-> TRUE]))
    BY DEF Askable, R!Filter, R!Multiplier, R!Switches
  <2> HIDE DEF f
  <2> QED
    BY <1>1, <2>1, <2>2, <2>3 DEF f
<1>3. CASE p \in {"momentum", "value", "bearish_short", "adaptive"}
  <2>1. f \in {R!Liquid, R!Above(200), R!Above(50), R!Below(50)} \/ f.type = "momentum"
    BY <1>3 DEF R!Preset, R!Filter
  <2> QED
    BY <1>1, <2>1
<1>4. CASE p = "breakout"
  <2>1. \/ f = R!Filter("volume", [min_avg_volume |-> 50000, require_spike |-> TRUE,
                                   volume_spike_threshold |-> 200])
        \/ f = R!Filter("breakout", [breakout_pct |-> 20]) \/ f = R!Above(200)
    BY <1>4 DEF R!Preset
  <2>2. /\ Askable(R!Filter("volume", [min_avg_volume |-> 50000, require_spike |-> TRUE,
                                       volume_spike_threshold |-> 200]))
        /\ Askable(R!Filter("breakout", [breakout_pct |-> 20]))
    BY DEF Askable, R!Filter, R!Multiplier, R!Switches
  <2> HIDE DEF f
  <2> QED
    BY <1>1, <2>1, <2>2 DEF f
<1>5. CASE p = "consolidation"
  <2>1. \/ f = R!Filter("consolidation", [max_range_pct |-> 15, declining_volume |-> TRUE])
        \/ f = R!Liquid \/ f = R!Above(200)
    BY <1>5 DEF R!Preset
  <2>2. Askable(R!Filter("consolidation", [max_range_pct |-> 15, declining_volume |-> TRUE]))
    BY DEF Askable, R!Filter, R!Multiplier, R!Switches
  <2> HIDE DEF f
  <2> QED
    BY <1>1, <2>1, <2>2 DEF f
<1>6. CASE p = "sector_rotation"
  <2>1. \/ f = R!Filter("price_action", [lookback_period |-> 50])
        \/ f = R!Liquid \/ f = R!Above(200)
    BY <1>6 DEF R!Preset
  <2>2. Askable(R!Filter("price_action", [lookback_period |-> 50]))
    BY DEF Askable, R!Filter, R!Multiplier, R!Switches
  <2> HIDE DEF f
  <2> QED
    BY <1>1, <2>1, <2>2 DEF f
<1>7. p \in {"minervini", "momentum", "breakout", "consolidation", "value", "sector_rotation",
             "bearish_short", "adaptive"}
  BY DEF R!Preset
<1> QED
  BY <1>2, <1>3, <1>4, <1>5, <1>6, <1>7

\* A laxer level loses no symbol a stricter one passes, at any preset's filter
\* but the momentum one, of which a single check of those asked for is enough
\* (PRESETS, apply_strictness).
THEOREM RelaxingAlwaysKeeps == R!Spec => []RelaxingKeeps
<1>1. ASSUME ScreeningInv PROVE R!RelaxingKeeps
  <2> SUFFICES ASSUME NEW p \in DOMAIN R!Preset, NEW i \in DOMAIN R!Preset[p],
                      NEW lax \in 2..4, NEW strict \in 1..(lax - 1), NEW s \in R!ToSet(R!Symbols), NEW by \in Providers,
                      R!Preset[p][i].type # "momentum",
                      R!Apply(R!ApplyStrictness(R!Preset[p], strict)[i], R!Market(by)[s]).passed
               PROVE  R!Apply(R!ApplyStrictness(R!Preset[p], lax)[i], R!Market(by)[s]).passed
    BY DEF R!RelaxingKeeps
  <2> DEFINE f == R!Preset[p][i]
             r == R!Market(by)[s]
  <2>1. strict \in 1..3 /\ strict < lax /\ lax # 1
    OBVIOUS
  <2>2. R!ApplyStrictness(R!Preset[p], strict)[i] = AtLevel(f, strict)
    BY DEF R!ApplyStrictness, AtLevel
  <2>3. R!ApplyStrictness(R!Preset[p], lax)[i] = AtLevel(f, lax)
    BY <2>1 DEF R!ApplyStrictness, AtLevel
  <2>4. Askable(f)
    BY PresetsAskable
  <2>5. {r.bars, r.volume, r.ratio, r.roc, r.over, r.range} \subseteq Int
    BY <1>1, Quotes DEF ScreeningInv, R!Market, R!Symbols
  <2> HIDE DEF f, r
  <2>6. R!Apply(AtLevel(f, strict), r).passed
    BY <2>2 DEF r
  <2>7. R!Apply(AtLevel(f, lax), r).passed
    BY <2>1, <2>4, <2>5, <2>6, LaxerPasses
  <2> QED
    BY <2>3, <2>7 DEF r
<1> QED
  BY <1>1, ScreeningHolds, PTL DEF RelaxingKeeps

-----------------------------------------------------------------------------
(* Scores *)

\* A reading of which some may be a neutral one.
LEMMA ReadsScores ==
    ASSUME NEW x \in RawScores, NEW had
    PROVE  LET y == N!Read(x, had)
           IN  /\ y.technical \in 0..100 /\ y.fundamental \in 0..100 /\ y.sentiment \in -100..100
BY Lists DEF N!Read, N!Neutral

\* What the scores of a reading combine to.
LEMMA ScoresCombine ==
    ASSUME NEW y, y.technical \in 0..100, y.fundamental \in 0..100, y.sentiment \in -100..100
    PROVE  /\ N!Combined(y) \in Int
           /\ N!Combined(y) = 4 * y.technical + 4 * y.fundamental + y.sentiment + 100
<1> DEFINE t == y.technical
           f == y.fundamental
           m == y.sentiment
<1>1. t \in Int /\ f \in Int /\ m \in Int
  OBVIOUS
<1>2. N!Combined(y) = 4 * t + 4 * f + m + 100
  BY DEF N!Combined
<1> HIDE DEF t, f, m
<1>3. 4 * t + 4 * f + m + 100 \in Int
  BY <1>1
<1> QED
  BY <1>2, <1>3 DEF t, f, m

\* A reading of high scores has two of the three behind it, in any category.
LEMMA HighScores ==
    ASSUME NEW y, y.technical \in 0..100, y.fundamental \in 0..100, y.sentiment \in -100..100,
           N!Combined(y) >= 800, NEW category
    PROVE  N!Bullish(y) >= 2 /\ N!Bias(category, y) > 200
<1> DEFINE t == y.technical
           f == y.fundamental
           m == y.sentiment
<1>1. 4 * t + 4 * f + m + 100 >= 800
  BY DEF N!Combined
<1>2. t \in 0..100 /\ f \in 0..100 /\ m \in -100..100
  OBVIOUS
<1>3. /\ N!Bullish(y) = (IF t > 55 THEN 1 ELSE 0) + (IF f > 55 THEN 1 ELSE 0) + (IF m > 10 THEN 1 ELSE 0)
  BY DEF N!Bullish, N!Signals
<1>4. \/ N!Bias(category, y) = 10 * (t - 50) + 6 * (f - 50) + 2 * m
      \/ N!Bias(category, y) = 5 * (t - 50) + 11 * (f - 50) + 2 * m
      \/ N!Bias(category, y) = 8 * (t - 50) + 8 * (f - 50) + 2 * m
  <2>1. CASE category \in {"momentum", "breakout"}
    BY <2>1 DEF N!Bias
  <2>2. CASE category = "value"
    BY <2>2 DEF N!Bias
  <2>3. CASE category \notin {"momentum", "breakout", "value"}
    BY <2>3 DEF N!Bias
  <2> QED
    BY <2>1, <2>2, <2>3
<1> HIDE DEF t, f, m
<1>5. N!Bullish(y) >= 2
  BY <1>1, <1>2, <1>3
<1>6. N!Bias(category, y) > 200
  BY <1>1, <1>2, <1>4
<1> QED
  BY <1>5, <1>6

\* Where no kind of score leads, falling scores are too low to trade on.
LEMMA LowScores ==
    ASSUME NEW y, y.technical \in 0..100, y.fundamental \in 0..100, y.sentiment \in -100..100,
           NEW category, category \notin {"momentum", "breakout", "value"},
           N!Bias(category, y) < -200
    PROVE  N!Combined(y) < 400
<1> DEFINE t == y.technical
           f == y.fundamental
           m == y.sentiment
<1>1. N!Bias(category, y) = 8 * (t - 50) + 8 * (f - 50) + 2 * m
  BY DEF N!Bias
<1>2. N!Combined(y) = 4 * t + 4 * f + m + 100
  BY DEF N!Combined
<1>3. t \in 0..100 /\ f \in 0..100 /\ m \in -100..100
  OBVIOUS
<1> HIDE DEF t, f, m
<1>4. 8 * (t - 50) + 8 * (f - 50) + 2 * m < -200
  BY <1>1
<1>5. 4 * t + 4 * f + m + 100 < 400
  BY <1>3, <1>4
<1> QED
  BY <1>2, <1>5

\* Sizes by confidence.
LEMMA SizesFollow ==
    ASSUME NEW y, y.technical \in 0..100, y.fundamental \in 0..100, y.sentiment \in -100..100,
           NEW direction
    PROVE  LET c == N!Confidence(direction, y)
           IN  /\ c \in {"skip", "low", "medium", "high"}
               /\ IF c = "skip" THEN N!SizeOf(c, y) = 0 ELSE 25000 <= N!SizeOf(c, y) /\ N!SizeOf(c, y) <= 100000
<1> DEFINE c == N!Confidence(direction, y)
           k == N!Combined(y)
<1>1. k \in Int
  BY ScoresCombine
<1>2. \/ c = "skip"
      \/ c = "high" /\ k >= 800
      \/ c = "medium" /\ k >= 600 /\ k < 800
      \/ c = "low" /\ k >= 400 /\ k < 600
  <2>1. CASE N!Conflicting(direction, y) \/ k < 400
    BY <2>1 DEF N!Confidence
  <2>2. CASE ~(N!Conflicting(direction, y) \/ k < 400)
    <3>1. c = IF k >= 800 THEN "high" ELSE IF k >= 600 THEN "medium" ELSE "low"
      BY <2>2 DEF N!Confidence
    <3>2. ~(k < 400)
      BY <2>2
    <3> HIDE DEF c, k
    <3> QED
      BY <1>1, <3>1, <3>2
  <2> QED
    BY <2>1, <2>2
<1> HIDE DEF c
<1>3. CASE c = "skip"
  BY <1>3 DEF N!SizeOf, c
<1>4. CASE c = "high"
  <2>1. N!SizeOf(c, y) = N!AtMost(100000, 100000 + 50 * (k - 800))
    BY <1>4 DEF N!SizeOf
  <2>2. k >= 800
    BY <1>2, <1>4
  <2> HIDE DEF k
  <2>3. 25000 <= N!SizeOf(c, y) /\ N!SizeOf(c, y) <= 100000
    BY <1>1, <2>1, <2>2 DEF N!AtMost
  <2> QED
    BY <1>4, <2>3 DEF c
<1>5. CASE c = "medium"
  <2>1. N!SizeOf(c, y) = N!AtLeast(60000, N!AtMost(75000, 60000 + 75 * (k - 600)))
    BY <1>5 DEF N!SizeOf
  <2> HIDE DEF k
  <2>3. 25000 <= N!SizeOf(c, y) /\ N!SizeOf(c, y) <= 100000
    BY <1>1, <2>1 DEF N!AtMost, N!AtLeast
  <2> QED
    BY <1>5, <2>3 DEF c
<1>6. CASE c = "low"
  <2>1. N!SizeOf(c, y) = N!AtLeast(25000, N!AtMost(50000, 25000 + 125 * (k - 400)))
    BY <1>6 DEF N!SizeOf
  <2> HIDE DEF k
  <2>3. 25000 <= N!SizeOf(c, y) /\ N!SizeOf(c, y) <= 100000
    BY <1>1, <2>1 DEF N!AtMost, N!AtLeast
  <2> QED
    BY <1>6, <2>3 DEF c
<1> QED
  BY <1>2, <1>3, <1>4, <1>5, <1>6

\* No strategy of another category than the shorts' is the one for selling short.
LEMMA StrategiesSell ==
    ASSUME NEW category, category # "bearish_momentum", NEW direction,
           NEW c \in {"low", "medium", "high"}
    PROVE  N!StrategyOf(category, direction, c) = "momentum_short" <=> direction = "short"
<1>1. CASE direction = "short"
  BY <1>1 DEF N!StrategyOf, N!StrategyMap, N!Tiers
<1>2. CASE direction # "short" /\ category = "momentum"
  BY <1>2 DEF N!StrategyOf, N!StrategyMap, N!Tiers
<1>3. CASE direction # "short" /\ category = "breakout"
  BY <1>3 DEF N!StrategyOf, N!StrategyMap, N!Tiers
<1>4. CASE direction # "short" /\ category = "value"
  BY <1>4 DEF N!StrategyOf, N!StrategyMap, N!Tiers
<1>5. CASE direction # "short" /\ category = "sector"
  BY <1>5 DEF N!StrategyOf, N!StrategyMap, N!Tiers
<1>6. CASE direction # "short" /\ category \notin {"momentum", "breakout", "value", "sector"}
  BY <1>6 DEF N!StrategyOf, N!StrategyMap, N!Tiers
<1> QED
  BY <1>1, <1>2, <1>3, <1>4, <1>5, <1>6

\* Every score agrees with itself, in every category but the shorts' own.
LEMMA ScoreAgrees ==
    ASSUME NEW y, y.technical \in 0..100, y.fundamental \in 0..100, y.sentiment \in -100..100,
           NEW category, category # "bearish_momentum", NEW screened
    PROVE  N!ScoreHolds(category, y, screened)
<1> DEFINE d == N!Direction(category, y, screened)
           c == N!Confidence(d, y)
           s == N!Scored(category, y, screened)
<1>1. /\ s.direction = d /\ s.confidence = c /\ s.size = N!SizeOf(c, y)
      /\ s.strategy = N!StrategyOf(category, d, c)
  BY DEF N!Scored
<1>2. /\ c \in {"skip", "low", "medium", "high"}
      /\ IF c = "skip" THEN N!SizeOf(c, y) = 0 ELSE 25000 <= N!SizeOf(c, y) /\ N!SizeOf(c, y) <= 100000
  BY SizesFollow
<1>3. c # "skip" => ~N!Conflicting(d, y) /\ ~(N!Combined(y) < 400)
  BY DEF N!Confidence
<1>4. c = "high" => N!Combined(y) >= 800
  <2>1. c = "high" => ~(N!Conflicting(d, y) \/ N!Combined(y) < 400)
    BY DEF N!Confidence
  <2> QED
    BY <2>1 DEF N!Confidence
<1>5. c = "high" => d = "long" /\ N!Bullish(y) >= 2
  <2> SUFFICES ASSUME c = "high" PROVE d = "long" /\ N!Bullish(y) >= 2
    OBVIOUS
  <2>1. N!Bullish(y) >= 2 /\ N!Bias(category, y) > 200
    BY <1>4, HighScores
  <2>2. d # "short"
    BY <1>3, <2>1 DEF N!Conflicting
  <2> QED
    BY <2>1, <2>2 DEF N!Direction
<1>6. N!StrategyOf(category, d, c) = "momentum_short" <=> d = "short" /\ c # "skip"
  <2>1. CASE c = "skip"
    BY <2>1 DEF N!StrategyOf
  <2>2. CASE c # "skip"
    BY <1>2, <2>2, StrategiesSell
  <2> QED
    BY <2>1, <2>2
<1>7. d = "short" /\ c # "skip" => screened = "short" \/ category \in {"momentum", "breakout", "value"}
  <2>1. d = "short" /\ screened # "short" => N!Bias(category, y) < -200
    BY DEF N!Direction
  <2> QED
    BY <1>3, <2>1, LowScores
<1> HIDE DEF s, c, d
<1> QED
  BY <1>1, <1>2, <1>5, <1>6, <1>7 DEF N!ScoreHolds, s

-----------------------------------------------------------------------------
(* Recommendations: whichever of the requests of a day are still to fail,  *)
(* what the others leave of its lists is no more than were ever under way  *)

Kinds == {Categories[n] : n \in DOMAIN Categories}
AllSpans == {"day", "week", "month"}

\* A list of a day that has been, with its picks.
ListKept(list) ==
    /\ list = [date |-> list.date, category |-> list.category, picks |-> list.picks]
    /\ list.date \in 1..date
    /\ list.picks = [s \in DOMAIN list.picks |-> list.picks[s]]
    /\ \A s \in DOMAIN list.picks :
          /\ list.picks[s] \in [priced : BOOLEAN, day : Nat, week : Nat, month : Nat]
          /\ \A span \in AllSpans : list.picks[s][span] # 0 => list.date < date

\* A request to store is of today, and deletes lists of its category and of
\* today.
RequestFits(q) ==
    /\ q = [pc |-> "storing", date |-> date, category |-> q.category, symbols |-> q.symbols,
            seen |-> q.seen]
    /\ q.category \in Kinds /\ q.seen \subseteq 1..made
    /\ \A i \in q.seen : i \in N!Lists => board[i].date = date /\ board[i].category = q.category

\* What the task has stored is there.
StoredFits == \A s \in job.stored : N!OfDay(date, s.category) # {}
JobFits ==
    \/ job = N!Resting
    \/ /\ job = [pc |-> "screening", next |-> job.next, stored |-> job.stored]
       /\ job.next \in DOMAIN Categories /\ StoredFits
    \/ /\ job = [pc |-> "storing", next |-> job.next, stored |-> job.stored,
                 request |-> job.request, symbols |-> job.symbols]
       /\ job.next \in DOMAIN Categories /\ StoredFits
    \/ /\ job = [pc |-> "queueing", next |-> job.next, stored |-> job.stored]
       /\ StoredFits

\* The lists that none of these requests deletes.
Unseen(d, c, those) ==
    {i \in N!OfDay(d, c) : \A r \in those : i \notin store[r].seen}
Bounded(d, c) ==
    \A those \in SUBSET N!Asking(d, c) :
        Cardinality(Unseen(d, c, those)) + Cardinality(those) <= peak

BoardFits ==
    /\ date \in 1..EndDate /\ made \in Nat /\ peak \in Nat
    /\ N!Lists \subseteq 1..made /\ board = [i \in N!Lists |-> board[i]]
    /\ \A i \in N!Lists : ListKept(board[i])
RequestsFit ==
    store = [r \in Stores |-> store[r]] /\ \A r \in Stores : store[r] = N!Idle \/ RequestFits(store[r])

ListsInv ==
    /\ BoardFits /\ RequestsFit /\ JobFits
    /\ \A q \in queued : N!OfDay(q.date, q.category) # {}
    /\ \A d \in 1..EndDate, c \in Kinds : Bounded(d, c)

\* A component counts as its instance does.
LEMMA SameCardinality ==
    ASSUME NEW those
    PROVE  N!Cardinality(those) = Cardinality(those) /\ Y!Cardinality(those) = Cardinality(those)
BY DEF N!Cardinality, Y!Cardinality, Cardinality

\* Lists and requests are finitely many.
LEMMA ListsFinite ==
    ASSUME BoardFits, NEW d, NEW c, NEW those \in SUBSET N!Asking(d, c)
    PROVE  /\ IsFiniteSet(N!OfDay(d, c)) /\ IsFiniteSet(Unseen(d, c, those)) /\ IsFiniteSet(those)
           /\ IsFiniteSet(N!Asking(d, c))
           /\ Cardinality(Unseen(d, c, those)) \in Nat /\ Cardinality(those) \in Nat
           /\ Cardinality(those) <= Cardinality(N!Asking(d, c))
<1>1. IsFiniteSet(1..made)
  <2>1. made \in Int
    BY DEF BoardFits
  <2> QED
    BY <2>1, FS_Interval
<1>2. N!OfDay(d, c) \in SUBSET (1..made)
  BY DEF N!OfDay, BoardFits
<1>3. IsFiniteSet(N!OfDay(d, c))
  BY <1>1, <1>2, FS_Subset
<1>4. Unseen(d, c, those) \in SUBSET N!OfDay(d, c)
  BY DEF Unseen
<1>5. IsFiniteSet(Unseen(d, c, those))
  BY <1>3, <1>4, FS_Subset
<1>6. IsFiniteSet(Stores) /\ N!Asking(d, c) \in SUBSET Stores
  BY Lists DEF N!Asking
<1>7. IsFiniteSet(N!Asking(d, c))
  BY <1>6, FS_Subset
<1>8. IsFiniteSet(those) /\ Cardinality(those) <= Cardinality(N!Asking(d, c))
  BY <1>7, FS_Subset
<1> QED
  BY <1>3, <1>5, <1>7, <1>8, FS_CardinalityType

LEMMA ListsBegin == N!Init => ListsInv
<1> SUFFICES ASSUME N!Init PROVE ListsInv
  OBVIOUS
<1>1. /\ date = 1 /\ board = [i \in {} |-> N!Idle] /\ made = 0 /\ job = N!Resting
      /\ store = [r \in Stores |-> N!Idle] /\ queued = {} /\ peak = 0
  BY DEF N!Init
<1>2. N!Lists = {}
  BY <1>1 DEF N!Lists
<1>3. BoardFits
  BY <1>1, <1>2, Lists DEF BoardFits
<1>4. ASSUME NEW d, NEW c PROVE Bounded(d, c)
  <2>1. N!OfDay(d, c) = {} /\ N!Asking(d, c) = {}
    BY <1>1, <1>2 DEF N!OfDay, N!Asking
  <2>2. SUFFICES ASSUME NEW those \in SUBSET N!Asking(d, c)
                 PROVE  Cardinality(Unseen(d, c, those)) + Cardinality(those) <= peak
    BY DEF Bounded
  <2>3. those = {} /\ Unseen(d, c, those) = {}
    BY <2>1 DEF Unseen
  <2> QED
    BY <1>1, <2>3, FS_EmptySet
<1> QED
  BY <1>1, <1>3, <1>4 DEF ListsInv, RequestsFit, JobFits

\* A step that leaves the lists of each day and category and the requests as
\* they are leaves them bounded.
LEMMA BoundsStay ==
    ASSUME ListsInv, UNCHANGED peak, store' = store,
           \A d \in 1..EndDate, c \in Kinds : N!OfDay(d, c)' = N!OfDay(d, c)
    PROVE  \A d \in 1..EndDate, c \in Kinds : Bounded(d, c)'
<1> SUFFICES ASSUME NEW d \in 1..EndDate, NEW c \in Kinds PROVE Bounded(d, c)'
  OBVIOUS
<1>1. N!Asking(d, c)' = N!Asking(d, c)
  BY DEF N!Asking
<1>2. ASSUME NEW those PROVE Unseen(d, c, those)' = Unseen(d, c, those)
  BY DEF Unseen
<1>3. Bounded(d, c)
  BY DEF ListsInv
<1> QED
  BY <1>1, <1>2, <1>3 DEF Bounded

\* The task moves on: nothing of the lists or the requests changes.
LEMMA JobMoves ==
    ASSUME ListsInv, UNCHANGED <<date, board, made, store, peak>>, JobFits',
           \A q \in queued' : N!OfDay(q.date, q.category)' # {}
    PROVE  ListsInv'
<1>1. BoardFits'
  BY DEF ListsInv, BoardFits, ListKept, N!Lists
<1>2. RequestsFit'
  BY DEF ListsInv, RequestsFit, RequestFits, N!Lists
<1>3. \A d \in 1..EndDate, c \in Kinds : Bounded(d, c)'
  BY BoundsStay DEF N!OfDay, N!Lists
<1> QED
  BY <1>1, <1>2, <1>3 DEF ListsInv

\* What is there of a day is there while the lists stay.
LEMMA DaysStay ==
    ASSUME UNCHANGED board, NEW d, NEW c
    PROVE  N!OfDay(d, c)' = N!OfDay(d, c)
BY DEF N!OfDay, N!Lists

\* On to the next category, or to the queue.
LEMMA OnwardsFits ==
    ASSUME ListsInv, N!At("screening") \/ N!At("storing"), NEW stored, N!Onwards(stored),
           UNCHANGED date, \A s \in stored : N!OfDay(date, s.category)' # {}
    PROVE  JobFits'
<1>1. job.next \in 1..Len(Categories) /\ Len(Categories) \in Nat
  BY Lists DEF ListsInv, JobFits, N!At, N!Resting
<1>2. job' = [pc |-> IF job.next = Len(Categories) THEN "queueing" ELSE "screening",
              next |-> job.next + 1, stored |-> stored]
  BY DEF N!Onwards, N!Goto
<1>3. job'.stored = stored /\ job'.next = job.next + 1
  BY <1>2
<1>4. StoredFits'
  BY <1>3 DEF StoredFits
<1>5. CASE job.next = Len(Categories)
  <2>1. job' = [pc |-> "queueing", next |-> job'.next, stored |-> job'.stored]
    BY <1>2, <1>5
  <2> QED
    BY <1>4, <2>1 DEF JobFits
<1>6. CASE job.next # Len(Categories)
  <2>1. job' = [pc |-> "screening", next |-> job'.next, stored |-> job'.stored]
    BY <1>2, <1>6
  <2>2. job'.next \in 1..Len(Categories)
    BY <1>1, <1>3, <1>6
  <2>3. job'.next \in DOMAIN Categories
    BY <2>2, Lists
  <2> QED
    BY <1>4, <2>1, <2>3 DEF JobFits
<1> QED
  BY <1>5, <1>6

LEMMA JobStarts == ASSUME ListsInv, N!StartJob PROVE ListsInv'
<1>1. /\ job' = [pc |-> "screening", next |-> 1, stored |-> {}]
      /\ UNCHANGED <<date, board, made, store, queued, peak>>
  BY DEF N!StartJob, N!Goto
<1>2. 1 \in DOMAIN Categories
  BY Lists
<1>3. job'.stored = {} /\ job'.next = 1 /\ job' = [pc |-> "screening", next |-> job'.next, stored |-> job'.stored]
  BY <1>1
<1>4. JobFits'
  BY <1>2, <1>3 DEF JobFits, StoredFits
<1>5. \A q \in queued' : N!OfDay(q.date, q.category)' # {}
  BY <1>1, DaysStay DEF ListsInv
<1> QED
  BY <1>1, <1>4, <1>5, JobMoves

\* Nothing was found, or the answer is no longer waited for.
LEMMA JobGoesOn == ASSUME ListsInv, N!FindNothing \/ N!TimeOut PROVE ListsInv'
<1>1. /\ N!At("screening") \/ N!At("storing")
      /\ N!Onwards(job.stored) /\ UNCHANGED <<date, board, made, store, queued, peak>>
  BY DEF N!FindNothing, N!TimeOut
<1>2. \A s \in job.stored : N!OfDay(date, s.category) # {}
  BY <1>1 DEF ListsInv, JobFits, StoredFits, N!At, N!Resting
<1>3. JobFits'
  BY <1>1, <1>2, OnwardsFits, DaysStay
<1>4. \A q \in queued' : N!OfDay(q.date, q.category)' # {}
  BY <1>1, DaysStay DEF ListsInv
<1> QED
  BY <1>1, <1>3, <1>4, JobMoves

\* Auto-trades are queued for what was stored.
LEMMA JobQueues == ASSUME ListsInv, N!Queue PROVE ListsInv'
<1>1. N!At("queueing") /\ UNCHANGED <<date, board, made, store, peak>>
  BY DEF N!Queue
<1>2. job = [pc |-> "queueing", next |-> job.next, stored |-> job.stored] /\ StoredFits
  BY <1>1 DEF ListsInv, JobFits, N!At, N!Resting
<1>3. CASE job.stored = {}
  <2>1. job' = N!Resting /\ queued' = queued
    BY <1>3 DEF N!Queue
  <2>2. JobFits'
    BY <2>1 DEF JobFits
  <2>3. \A q \in queued' : N!OfDay(q.date, q.category)' # {}
    BY <1>1, <2>1, DaysStay DEF ListsInv
  <2> QED
    BY <1>1, <2>2, <2>3, JobMoves
<1>4. CASE job.stored # {}
  <2>1. PICK s \in job.stored :
           /\ job' = [job EXCEPT !.stored = @ \ {s}]
           /\ queued' = queued \cup {[date |-> date, category |-> s.category, symbols |-> s.symbols]}
    BY <1>4 DEF N!Queue, N!Goto
  <2>2. job' = [pc |-> "queueing", next |-> job.next, stored |-> job.stored \ {s}]
    BY <1>2, <2>1
  <2>3. /\ job'.stored = job.stored \ {s}
        /\ job' = [pc |-> "queueing", next |-> job'.next, stored |-> job'.stored]
    BY <2>2
  <2>4. JobFits'
    BY <1>1, <1>2, <2>3, DaysStay DEF JobFits, StoredFits
  <2>5. N!OfDay(date, s.category) # {}
    BY <1>2 DEF StoredFits
  <2>6. \A q \in queued' : N!OfDay(q.date, q.category) # {}
    BY <2>1, <2>5 DEF ListsInv
  <2> QED
    BY <1>1, <2>4, <2>6, JobMoves, DaysStay
<1> QED
  BY <1>3, <1>4

LEMMA JobEnds == ASSUME ListsInv, N!Kill \/ N!Process PROVE ListsInv'
<1>1. UNCHANGED <<date, board, made, store, peak>> /\ (job' = N!Resting \/ job' = job) /\ queued' \subseteq queued
  BY DEF N!Kill, N!Process
<1>2. JobFits'
  <2>1. CASE job' = N!Resting
    BY <2>1 DEF JobFits
  <2>2. CASE job' = job
    BY <1>1, <2>2, DaysStay DEF ListsInv, JobFits, StoredFits
  <2> QED
    BY <1>1, <2>1, <2>2
<1>3. \A q \in queued' : N!OfDay(q.date, q.category)' # {}
  BY <1>1, DaysStay DEF ListsInv
<1> QED
  BY <1>1, <1>2, <1>3, JobMoves

LEMMA DayEnds == ASSUME ListsInv, N!NextDay PROVE ListsInv'
<1>1. /\ date < EndDate /\ date' = date + 1 /\ \A r \in Stores : store[r] = N!Idle
      /\ N!At("resting") /\ UNCHANGED <<board, made, job, store, queued, peak>>
  BY DEF N!NextDay
<1>2. N!Lists' = N!Lists /\ EndDate \in Nat /\ date \in 1..EndDate
  BY <1>1, Lists DEF N!Lists, ListsInv, BoardFits
<1>3. date' \in 1..EndDate /\ date' \in Nat /\ date < date'
  BY <1>1, <1>2
<1>4. ASSUME NEW i \in N!Lists PROVE ListKept(board[i])'
  <2>1. ListKept(board[i]) /\ board'[i] = board[i]
    BY <1>1 DEF ListsInv, BoardFits
  <2>2. board[i].date \in 1..date'
    BY <1>2, <1>3, <2>1 DEF ListKept
  <2>3. ASSUME NEW s \in DOMAIN board[i].picks, NEW span \in AllSpans, board[i].picks[s][span] # 0
        PROVE  board[i].date < date'
    <3>1. board[i].date < date /\ board[i].date \in Nat
      BY <2>1, <2>3, <1>2 DEF ListKept
    <3> QED
      BY <1>2, <1>3, <3>1
  <2> QED
    BY <2>1, <2>2, <2>3 DEF ListKept
<1>5. BoardFits'
  BY <1>1, <1>2, <1>3, <1>4 DEF ListsInv, BoardFits
<1>6. RequestsFit'
  BY <1>1 DEF ListsInv, RequestsFit
<1>7. JobFits'
  BY <1>1 DEF ListsInv, JobFits, N!At, N!Resting
<1>8. \A d, c : N!OfDay(d, c)' = N!OfDay(d, c)
  BY <1>1, DaysStay
<1>9. \A d \in 1..EndDate, c \in Kinds : Bounded(d, c)'
  BY <1>1, <1>8, BoundsStay
<1>10. \A q \in queued' : N!OfDay(q.date, q.category)' # {}
  BY <1>1, <1>8 DEF ListsInv
<1> QED
  BY <1>5, <1>6, <1>7, <1>9, <1>10 DEF ListsInv

\* A request begins that sees the lists there are.
LEMMA StoreBegins == ASSUME ListsInv, NEW r \in Stores, N!Store(r) PROVE ListsInv'
<1> DEFINE c == Categories[job.next]
<1>1. UNCHANGED <<date, board, made, queued>>
  BY DEF N!Store
<1>2. PICK symbols \in SUBSET Found :
         /\ job' = [pc |-> "storing", next |-> job.next, stored |-> job.stored,
                    request |-> r, symbols |-> symbols]
         /\ store' = [store EXCEPT ![r] = [pc |-> "storing", date |-> date, category |-> c,
                         symbols |-> symbols, seen |-> N!OfDay(date, c)]]
  BY DEF N!Store, N!Goto, N!Replaced
<1>3. /\ N!At("screening") /\ store[r] = N!Idle
      /\ peak' = N!AtLeast(peak, Cardinality(N!Asking(date, c)) + 1)
  <2>1. N!At("screening")
    BY DEF N!Store
  <2>2. store[r] = N!Idle
    BY DEF N!Store
  <2>3. peak' = N!AtLeast(peak, N!Cardinality(N!Asking(date, c)) + 1)
    BY DEF N!Store
  <2>4. N!Cardinality(N!Asking(date, c)) = Cardinality(N!Asking(date, c))
    BY SameCardinality
  <2> QED
    BY <2>1, <2>2, <2>3, <2>4
<1>4. job.next \in DOMAIN Categories /\ StoredFits
  BY <1>3 DEF ListsInv, JobFits, N!At, N!Resting
<1>5. c \in Kinds /\ date \in 1..EndDate /\ N!OfDay(date, c) \subseteq 1..made
  BY <1>4 DEF Kinds, ListsInv, BoardFits, N!OfDay
<1>6. N!Lists' = N!Lists /\ \A d, e : N!OfDay(d, e)' = N!OfDay(d, e)
  BY <1>1, DaysStay DEF N!Lists
<1>7. Cardinality(N!Asking(date, c)) \in Nat /\ peak \in Nat
  <2>1. BoardFits /\ {} \in SUBSET N!Asking(date, c)
    BY DEF ListsInv
  <2>2. IsFiniteSet(N!Asking(date, c))
    BY <2>1, ListsFinite
  <2> QED
    BY <2>1, <2>2, FS_CardinalityType DEF BoardFits
<1>8. peak' \in Nat /\ peak' >= peak /\ peak' >= Cardinality(N!Asking(date, c)) + 1
  BY <1>3, <1>7 DEF N!AtLeast
<1> HIDE DEF c
<1>9. BoardFits'
  BY <1>1, <1>6, <1>8 DEF ListsInv, BoardFits, ListKept
<1>10. /\ store'[r] = [pc |-> "storing", date |-> date, category |-> c, symbols |-> symbols,
                       seen |-> N!OfDay(date, c)]
       /\ \A u \in Stores : u # r => store'[u] = store[u]
       /\ store' = [u \in Stores |-> store'[u]]
  BY <1>2 DEF ListsInv, RequestsFit
<1>11. RequestsFit'
  <2>1. RequestFits(store[r])'
    BY <1>1, <1>5, <1>6, <1>10 DEF RequestFits, N!OfDay
  <2>2. ASSUME NEW u \in Stores, u # r PROVE (store[u] = N!Idle \/ RequestFits(store[u]))'
    BY <1>1, <1>6, <1>10, <2>2 DEF ListsInv, RequestsFit, RequestFits
  <2>3. N!Idle' = N!Idle
    BY DEF N!Idle
  <2> QED
    BY <1>10, <2>1, <2>2, <2>3 DEF RequestsFit
<1>12. JobFits'
  <2>1. /\ job' = [pc |-> "storing", next |-> job'.next, stored |-> job'.stored,
                   request |-> job'.request, symbols |-> job'.symbols]
        /\ job'.next = job.next /\ job'.stored = job.stored
    BY <1>2
  <2> QED
    BY <1>1, <1>4, <1>6, <2>1 DEF JobFits, StoredFits
<1>13. ASSUME NEW d \in 1..EndDate, NEW e \in Kinds, NEW those \in SUBSET N!Asking(d, e)'
       PROVE  Cardinality(Unseen(d, e, those)') + Cardinality(those) <= peak'
  <2>1. BoardFits /\ Bounded(d, e) /\ BoardFits'
    BY <1>9 DEF ListsInv
  <2>2. CASE r \notin those
    <3>1. those \in SUBSET N!Asking(d, e)
      BY <1>10, <2>2 DEF N!Asking
    <3>2. Unseen(d, e, those)' = Unseen(d, e, those)
      BY <1>6, <1>10, <2>2, <3>1 DEF Unseen, N!Asking
    <3>3. Cardinality(Unseen(d, e, those)) + Cardinality(those) <= peak
      BY <2>1, <3>1 DEF Bounded
    <3>4. Cardinality(Unseen(d, e, those)) \in Nat /\ Cardinality(those) \in Nat
      BY <2>1, <3>1, ListsFinite
    <3> QED
      BY <1>7, <1>8, <3>2, <3>3, <3>4
  <2>3. CASE r \in those
    <3>1. d = date /\ e = c
      BY <1>10, <2>3 DEF N!Asking
    <3>2. Unseen(d, e, those)' = {}
      BY <1>6, <1>10, <2>3, <3>1 DEF Unseen
    <3>3. those \in SUBSET (N!Asking(d, e) \cup {r})
      BY <1>10 DEF N!Asking
    <3>4. IsFiniteSet(N!Asking(d, e))
      <4>1. {} \in SUBSET N!Asking(d, e)
        OBVIOUS
      <4> QED
        BY <2>1, <4>1, ListsFinite
    <3>5. r \notin N!Asking(d, e)
      BY <1>3 DEF N!Asking
    <3>6. /\ IsFiniteSet(N!Asking(d, e) \cup {r})
          /\ Cardinality(N!Asking(d, e) \cup {r}) = Cardinality(N!Asking(d, e)) + 1
      BY <3>4, <3>5, FS_AddElement
    <3>7. Cardinality(those) <= Cardinality(N!Asking(d, e)) + 1 /\ IsFiniteSet(those)
      BY <3>3, <3>6, FS_Subset
    <3>8. Cardinality(those) \in Nat
      BY <3>7, FS_CardinalityType
    <3>9. Cardinality(Unseen(d, e, those)') = 0
      BY <3>2, FS_EmptySet
    <3> QED
      BY <1>7, <1>8, <3>1, <3>7, <3>8, <3>9
  <2> QED
    BY <2>2, <2>3
<1>14. \A d \in 1..EndDate, e \in Kinds : Bounded(d, e)'
  BY <1>13 DEF Bounded
<1>15. \A q \in queued' : N!OfDay(q.date, q.category)' # {}
  BY <1>1, <1>6 DEF ListsInv
<1> QED
  BY <1>9, <1>11, <1>12, <1>14, <1>15 DEF ListsInv

\* A request that fails leaves what it has seen.
LEMMA StoreFails == ASSUME ListsInv, NEW r \in Stores, N!FailStore(r) PROVE ListsInv'
<1>1. /\ store' = [store EXCEPT ![r] = N!Idle] /\ UNCHANGED <<date, board, made, queued, peak>>
      /\ IF N!Awaits(r) THEN N!Onwards(job.stored) ELSE job' = job
  BY DEF N!FailStore
<1>2. N!Lists' = N!Lists /\ \A d, e : N!OfDay(d, e)' = N!OfDay(d, e)
  BY <1>1, DaysStay DEF N!Lists
<1>3. BoardFits'
  BY <1>1, <1>2 DEF ListsInv, BoardFits, ListKept
<1>4. /\ store'[r] = N!Idle /\ \A u \in Stores : u # r => store'[u] = store[u]
      /\ store' = [u \in Stores |-> store'[u]]
  BY <1>1 DEF ListsInv, RequestsFit
<1>5. RequestsFit'
  BY <1>1, <1>2, <1>4 DEF ListsInv, RequestsFit, RequestFits, N!Idle
<1>6. JobFits'
  <2>1. CASE N!Awaits(r)
    <3>1. N!At("storing") /\ N!Onwards(job.stored)
      BY <1>1, <2>1 DEF N!Awaits
    <3>2. \A s \in job.stored : N!OfDay(date, s.category) # {}
      BY <3>1 DEF ListsInv, JobFits, StoredFits, N!At, N!Resting
    <3>3. \A s \in job.stored : N!OfDay(date, s.category)' # {}
      BY <1>1, <3>2, DaysStay
    <3> QED
      BY <1>1, <3>1, <3>3, OnwardsFits
  <2>2. CASE ~N!Awaits(r)
    BY <1>1, <1>2, <2>2 DEF ListsInv, JobFits, StoredFits
  <2> QED
    BY <2>1, <2>2
<1>7. ASSUME NEW d \in 1..EndDate, NEW e \in Kinds PROVE Bounded(d, e)'
  <2>1. N!Asking(d, e)' \subseteq N!Asking(d, e) /\ r \notin N!Asking(d, e)'
    BY <1>4 DEF N!Asking
  <2>2. ASSUME NEW those \in SUBSET N!Asking(d, e)' PROVE Unseen(d, e, those)' = Unseen(d, e, those)
    BY <1>2, <1>4, <2>1 DEF Unseen, N!Asking
  <2>3. Bounded(d, e)
    BY DEF ListsInv
  <2> QED
    BY <1>1, <2>1, <2>2, <2>3 DEF Bounded
<1>8. \A q \in queued' : N!OfDay(q.date, q.category)' # {}
  BY <1>1, <1>2 DEF ListsInv
<1> QED
  BY <1>3, <1>5, <1>6, <1>7, <1>8 DEF ListsInv

\* A request commits: what it has seen and what is there is replaced by one list.
LEMMA StoreCommits == ASSUME ListsInv, NEW r \in Stores, N!CommitStore(r) PROVE ListsInv'
<1>a. PICK q : q = store[r]
  OBVIOUS
<1>b. PICK id : id = made + 1
  OBVIOUS
<1>1. /\ q # N!Idle /\ made' = id /\ store' = [store EXCEPT ![r] = N!Idle]
      /\ UNCHANGED <<date, queued, peak>>
  BY <1>a, <1>b DEF N!CommitStore
<1>2. PICK priced \in [q.symbols -> BOOLEAN] :
         board' = [i \in (N!Lists \ q.seen) \cup {id} |->
             IF i \in N!Lists THEN board[i]
             ELSE [date |-> q.date, category |-> q.category,
                   picks |-> [s \in q.symbols |-> N!Pick(priced[s])]]]
  BY <1>a, <1>b DEF N!CommitStore
<1>3. IF N!Awaits(r) THEN N!Onwards(job.stored \cup {[category |-> q.category, symbols |-> q.symbols]})
      ELSE job' = job
  BY <1>a DEF N!CommitStore
<1>4. RequestFits(q)
  BY <1>1, <1>a DEF ListsInv, RequestsFit
<1>5. q.date = date /\ q.category \in Kinds /\ q.seen \subseteq 1..made
  BY <1>4 DEF RequestFits
<1>6. /\ made \in Nat /\ N!Lists \subseteq 1..made /\ id \notin N!Lists /\ date \in 1..EndDate
      /\ \A i \in N!Lists : ListKept(board[i])
  <2>1. made \in Nat /\ N!Lists \subseteq 1..made
    BY DEF ListsInv, BoardFits
  <2>2. id \notin N!Lists
    BY <1>b, <2>1
  <2> QED
    BY <2>1, <2>2 DEF ListsInv, BoardFits
<1>7. N!Lists' = (N!Lists \ q.seen) \cup {id}
  BY <1>2 DEF N!Lists
<1>8. \A i \in N!Lists \ q.seen : i \in N!Lists' /\ board'[i] = board[i]
  BY <1>2, <1>6, <1>7
<1>9. board'[id] = [date |-> date, category |-> q.category,
                    picks |-> [s \in q.symbols |-> N!Pick(priced[s])]]
  BY <1>2, <1>5, <1>6
<1>10. /\ board'[id].date = date /\ board'[id].category = q.category
       /\ board'[id].picks = [s \in q.symbols |-> N!Pick(priced[s])]
  BY <1>9
<1>11. ListKept(board[id])'
  <2>1. board'[id] = [date |-> board'[id].date, category |-> board'[id].category,
                      picks |-> board'[id].picks]
    BY <1>9
  <2>2. board'[id].picks = [s \in DOMAIN board'[id].picks |-> board'[id].picks[s]]
    BY <1>10
  <2>3. ASSUME NEW s \in DOMAIN board'[id].picks
        PROVE  /\ board'[id].picks[s] \in [priced : BOOLEAN, day : Nat, week : Nat, month : Nat]
               /\ \A span \in AllSpans : board'[id].picks[s][span] = 0
    <3>1. s \in q.symbols /\ board'[id].picks[s] = [priced |-> priced[s], day |-> 0, week |-> 0, month |-> 0]
      BY <1>10, <2>3 DEF N!Pick
    <3> QED
      BY <3>1 DEF AllSpans
  <2>4. date' = date /\ date \in 1..date
    BY <1>1, <1>6
  <2> QED
    BY <1>10, <2>1, <2>2, <2>3, <2>4 DEF ListKept
<1>12. BoardFits'
  <2>1. made' \in Nat /\ N!Lists' \subseteq 1..made'
    <3>1. id \in Nat /\ id \in 1..id /\ \A i \in 1..made : i \in 1..id
      BY <1>b, <1>6
    <3> QED
      BY <1>1, <1>6, <1>7, <3>1
  <2>2. board' = [i \in N!Lists' |-> board'[i]]
    BY <1>2, <1>7
  <2>3. ASSUME NEW i \in N!Lists' PROVE ListKept(board[i])'
    <3>1. CASE i = id
      BY <1>11, <3>1
    <3>2. CASE i \in N!Lists \ q.seen
      <4>1. ListKept(board[i]) /\ board'[i] = board[i] /\ date' = date
        BY <1>1, <1>6, <1>8, <3>2
      <4> QED
        BY <4>1 DEF ListKept
    <3> QED
      BY <1>7, <3>1, <3>2
  <2> QED
    BY <1>1, <2>1, <2>2, <2>3 DEF BoardFits, ListsInv
<1>13. /\ store'[r] = N!Idle /\ \A u \in Stores : u # r => store'[u] = store[u]
       /\ store' = [u \in Stores |-> store'[u]]
  BY <1>1 DEF ListsInv, RequestsFit
<1>14. RequestsFit'
  <2>1. ASSUME NEW u \in Stores PROVE (store[u] = N!Idle \/ RequestFits(store[u]))'
    <3>1. CASE u = r
      BY <1>13, <3>1 DEF N!Idle
    <3>2. CASE u # r /\ store[u] = N!Idle
      BY <1>13, <3>2 DEF N!Idle
    <3>3. CASE u # r /\ store[u] # N!Idle
      <4>1. RequestFits(store[u]) /\ store'[u] = store[u]
        BY <1>13, <3>3 DEF ListsInv, RequestsFit
      <4>2. store[u].seen \subseteq 1..made /\ id \notin store[u].seen
        BY <1>6, <1>b, <4>1 DEF RequestFits
      <4>3. ASSUME NEW i \in store[u].seen, i \in N!Lists'
            PROVE  board'[i].date = date /\ board'[i].category = store[u].category
        <5>1. i \in N!Lists \ q.seen
          BY <1>7, <4>2, <4>3
        <5> QED
          BY <1>8, <4>1, <5>1 DEF RequestFits
      <4>4. store[u].seen \subseteq 1..made'
        BY <1>1, <1>6, <1>b, <4>2
      <4> QED
        BY <1>1, <4>1, <4>3, <4>4 DEF RequestFits
    <3> QED
      BY <3>1, <3>2, <3>3
  <2> QED
    BY <1>13, <2>1 DEF RequestsFit
\* What was there of a day and category is, or is replaced.
<1>15. ASSUME NEW d, NEW e, N!OfDay(d, e) # {} PROVE N!OfDay(d, e)' # {}
  <2>1. CASE d = date /\ e = q.category
    <3>1. id \in N!OfDay(d, e)'
      BY <1>7, <1>10, <2>1 DEF N!OfDay
    <3> QED
      BY <3>1
  <2>2. CASE ~(d = date /\ e = q.category)
    <3>1. PICK i \in N!Lists : board[i].date = d /\ board[i].category = e
      BY <1>15 DEF N!OfDay
    <3>2. i \notin q.seen
      BY <1>4, <2>2, <3>1 DEF RequestFits
    <3>3. i \in N!OfDay(d, e)'
      BY <1>8, <3>1, <3>2 DEF N!OfDay
    <3> QED
      BY <3>3
  <2> QED
    BY <2>1, <2>2
<1>16. JobFits'
  <2>1. CASE N!Awaits(r)
    <3> DEFINE added == {[category |-> q.category, symbols |-> q.symbols]}
    <3>1. N!At("storing") /\ N!Onwards(job.stored \cup added)
      BY <1>3, <2>1 DEF N!Awaits
    <3>2. \A s \in job.stored : N!OfDay(date, s.category) # {}
      BY <3>1 DEF ListsInv, JobFits, StoredFits, N!At, N!Resting
    <3>3. id \in N!OfDay(date, q.category)'
      BY <1>1, <1>7, <1>10 DEF N!OfDay
    <3>4. \A s \in added : s.category = q.category
      OBVIOUS
    <3>5. \A s \in job.stored \cup added : N!OfDay(date, s.category)' # {}
      BY <1>1, <1>15, <3>2, <3>3, <3>4
    <3> QED
      BY <1>1, <3>1, <3>5, OnwardsFits
  <2>2. CASE ~N!Awaits(r)
    <3>1. job' = job
      BY <1>3, <2>2
    <3> QED
      BY <1>1, <1>15, <3>1 DEF ListsInv, JobFits, StoredFits
  <2> QED
    BY <2>1, <2>2
<1>17. ASSUME NEW d \in 1..EndDate, NEW e \in Kinds, NEW those \in SUBSET N!Asking(d, e)'
       PROVE  Cardinality(Unseen(d, e, those)') + Cardinality(those) <= peak
  <2>1. BoardFits /\ Bounded(d, e) /\ peak \in Nat
    BY DEF ListsInv, BoardFits
  <2>2. those \in SUBSET N!Asking(d, e) /\ r \notin those
    BY <1>13 DEF N!Asking
  <2>3. \A u \in those : store'[u] = store[u]
    BY <1>13, <2>2 DEF N!Asking
  <2>4. ASSUME NEW i \in Unseen(d, e, those)', i # id
        PROVE  i \in Unseen(d, e, those) /\ i \notin q.seen
    <3>1. i \in N!Lists \ q.seen /\ board'[i] = board[i]
      BY <1>7, <1>8, <2>4 DEF Unseen, N!OfDay
    <3> QED
      BY <2>3, <2>4, <3>1 DEF Unseen, N!OfDay
  <2>5. CASE d = date /\ e = q.category
    <3>1. those \cup {r} \in SUBSET N!Asking(d, e)
      BY <1>1, <1>5, <1>a, <2>2, <2>5 DEF N!Asking
    <3>2. Unseen(d, e, those)' \in SUBSET (Unseen(d, e, those \cup {r}) \cup {id})
      <4>1. ASSUME NEW i \in Unseen(d, e, those)', i # id PROVE i \in Unseen(d, e, those \cup {r})
        <5>1. i \in Unseen(d, e, those) /\ i \notin store[r].seen
          BY <1>a, <2>4, <4>1
        <5> QED
          BY <5>1 DEF Unseen
      <4> QED
        BY <4>1
    <3>3. /\ IsFiniteSet(Unseen(d, e, those \cup {r})) /\ IsFiniteSet(those)
          /\ Cardinality(Unseen(d, e, those \cup {r})) \in Nat /\ Cardinality(those) \in Nat
      BY <2>1, <2>2, <3>1, ListsFinite
    <3>4. Cardinality(those \cup {r}) = Cardinality(those) + 1
      BY <2>2, <3>3, FS_AddElement
    <3>5. Cardinality(Unseen(d, e, those \cup {r})) + Cardinality(those \cup {r}) <= peak
      BY <2>1, <3>1 DEF Bounded
    <3>6. /\ IsFiniteSet(Unseen(d, e, those \cup {r}) \cup {id})
          /\ \/ Cardinality(Unseen(d, e, those \cup {r}) \cup {id}) = Cardinality(Unseen(d, e, those \cup {r}))
             \/ Cardinality(Unseen(d, e, those \cup {r}) \cup {id}) = Cardinality(Unseen(d, e, those \cup {r})) + 1
      BY <3>3, FS_AddElement
    <3>7. /\ Cardinality(Unseen(d, e, those)') <= Cardinality(Unseen(d, e, those \cup {r}) \cup {id})
          /\ IsFiniteSet(Unseen(d, e, those)')
      BY <3>2, <3>6, FS_Subset
    <3>8. Cardinality(Unseen(d, e, those)') \in Nat
      BY <3>7, FS_CardinalityType
    <3> QED
      BY <2>1, <3>3, <3>4, <3>5, <3>6, <3>7, <3>8
  <2>6. CASE ~(d = date /\ e = q.category)
    <3>1. id \notin Unseen(d, e, those)'
      BY <1>10, <2>6 DEF Unseen, N!OfDay
    <3>2. Unseen(d, e, those)' \in SUBSET Unseen(d, e, those)
      BY <2>4, <3>1
    <3>3. IsFiniteSet(Unseen(d, e, those)) /\ Cardinality(Unseen(d, e, those)) \in Nat /\ Cardinality(those) \in Nat
      BY <2>1, <2>2, ListsFinite
    <3>4. Cardinality(Unseen(d, e, those)') <= Cardinality(Unseen(d, e, those)) /\ IsFiniteSet(Unseen(d, e, those)')
      BY <3>2, <3>3, FS_Subset
    <3>5. Cardinality(Unseen(d, e, those)') \in Nat
      BY <3>4, FS_CardinalityType
    <3>6. Cardinality(Unseen(d, e, those)) + Cardinality(those) <= peak
      BY <2>1, <2>2 DEF Bounded
    <3> QED
      BY <2>1, <3>3, <3>4, <3>5, <3>6
  <2> QED
    BY <2>5, <2>6
<1>18. \A d \in 1..EndDate, e \in Kinds : Bounded(d, e)'
  BY <1>1, <1>17 DEF Bounded
<1>19. \A x \in queued' : N!OfDay(x.date, x.category)' # {}
  BY <1>1, <1>15 DEF ListsInv
<1> QED
  BY <1>12, <1>14, <1>16, <1>18, <1>19 DEF ListsInv

\* A pick after a round of measuring: what was measured stays, and what was not
\* may be measured now, of an earlier day's list.
LEMMA MeasuringFits ==
    ASSUME date \in Nat \ {0}, NEW list, ListKept(list), NEW s \in DOMAIN list.picks, NEW had
    PROVE  LET m == N!Measured(list, s, had)
           IN  /\ m \in [priced : BOOLEAN, day : Nat, week : Nat, month : Nat]
               /\ \A span \in AllSpans :
                     IF list.picks[s][span] # 0 THEN m[span] = list.picks[s][span]
                     ELSE m[span] # 0 => m[span] = date /\ list.date < date
<1> DEFINE p == list.picks[s]
           m == N!Measured(list, s, had)
           now1 == IF s \in had /\ p.priced /\ N!DueForDay(list, p) THEN date ELSE p.day
           now2 == IF s \in had /\ p.priced /\ N!DueForWeek(list, p) THEN date ELSE p.week
           now3 == IF s \in had /\ p.priced /\ N!DueForMonth(list, p) THEN date ELSE p.month
<1>1. p \in [priced : BOOLEAN, day : Nat, week : Nat, month : Nat] /\ list.date \in Nat
  BY DEF ListKept
<1>2. m = [p EXCEPT !.day = now1, !.week = now2, !.month = now3]
  BY DEF N!Measured
<1>3. now1 \in Nat /\ now2 \in Nat /\ now3 \in Nat
  BY <1>1
<1>4. /\ p.day # 0 => now1 = p.day
      /\ p.week # 0 => now2 = p.week
      /\ p.month # 0 => now3 = p.month
  BY DEF N!DueForDay, N!DueForWeek, N!DueForMonth
<1>5. p.day = 0 /\ now1 # 0 => now1 = date /\ list.date < date
  <2>1. N!DueForDay(list, p) => list.date < date
    BY <1>1 DEF N!DueForDay
  <2> QED
    BY <2>1
<1>6. p.week = 0 /\ now2 # 0 => now2 = date /\ list.date < date
  <2>1. N!DueForWeek(list, p) => list.date < date
    BY <1>1, Lists DEF N!DueForWeek
  <2> QED
    BY <2>1
<1>7. p.month = 0 /\ now3 # 0 => now3 = date /\ list.date < date
  <2>1. N!DueForMonth(list, p) => list.date < date
    BY <1>1, Lists DEF N!DueForMonth
  <2> QED
    BY <2>1
<1> HIDE DEF p, m, now1, now2, now3
<1>8. /\ m \in [priced : BOOLEAN, day : Nat, week : Nat, month : Nat]
      /\ m["day"] = now1 /\ m["week"] = now2 /\ m["month"] = now3
      /\ p["day"] = p.day /\ p["week"] = p.week /\ p["month"] = p.month
  BY <1>1, <1>2, <1>3
<1>9. \A span \in AllSpans :
         IF p[span] # 0 THEN m[span] = p[span] ELSE m[span] # 0 => m[span] = date /\ list.date < date
  <2>1. ASSUME NEW span \in AllSpans
        PROVE  IF p[span] # 0 THEN m[span] = p[span] ELSE m[span] # 0 => m[span] = date /\ list.date < date
    <3>1. CASE span = "day"
      BY <1>4, <1>5, <1>8, <3>1
    <3>2. CASE span = "week"
      BY <1>4, <1>6, <1>8, <3>2
    <3>3. CASE span = "month"
      BY <1>4, <1>7, <1>8, <3>3
    <3> QED
      BY <3>1, <3>2, <3>3 DEF AllSpans
  <2> QED
    BY <2>1
<1> QED
  BY <1>8, <1>9 DEF p, m

\* The lists after a round.
LEMMA RoundMeasures ==
    ASSUME ListsInv, N!UpdateReturns
    PROVE  /\ N!Lists' = N!Lists /\ board' = [i \in N!Lists |-> board'[i]]
           /\ \E had : \A i \in N!Lists :
                 board'[i] = [date |-> board[i].date, category |-> board[i].category,
                              picks |-> [s \in DOMAIN board[i].picks |-> N!Measured(board[i], s, had)]]
<1>1. PICK had \in SUBSET Found :
         board' = [i \in N!Lists |->
             [board[i] EXCEPT !.picks = [s \in DOMAIN @ |-> N!Measured(board[i], s, had)]]]
  BY DEF N!UpdateReturns
<1>2. N!Lists' = N!Lists
  BY <1>1 DEF N!Lists
<1>3. ASSUME NEW i \in N!Lists
      PROVE  board'[i] = [date |-> board[i].date, category |-> board[i].category,
                          picks |-> [s \in DOMAIN board[i].picks |-> N!Measured(board[i], s, had)]]
  <2> DEFINE fresh == [s \in DOMAIN board[i].picks |-> N!Measured(board[i], s, had)]
  <2>1. board'[i] = [board[i] EXCEPT !.picks = fresh]
    BY <1>1
  <2>2. board[i] = [date |-> board[i].date, category |-> board[i].category, picks |-> board[i].picks]
    BY DEF ListsInv, BoardFits, ListKept
  <2> HIDE DEF fresh
  <2>3. board'[i] = [date |-> board[i].date, category |-> board[i].category, picks |-> fresh]
    BY <2>1, <2>2
  <2> QED
    BY <2>3 DEF fresh
<1>4. board' = [i \in N!Lists |-> board'[i]]
  BY <1>1
<1>5. \E h : \A i \in N!Lists :
         board'[i] = [date |-> board[i].date, category |-> board[i].category,
                      picks |-> [s \in DOMAIN board[i].picks |-> N!Measured(board[i], s, h)]]
  <2>1. \A i \in N!Lists :
           board'[i] = [date |-> board[i].date, category |-> board[i].category,
                        picks |-> [s \in DOMAIN board[i].picks |-> N!Measured(board[i], s, had)]]
    BY <1>3
  <2> WITNESS had
  <2> QED
    BY <2>1
<1> QED
  BY <1>2, <1>4, <1>5

LEMMA RoundFits == ASSUME ListsInv, N!UpdateReturns PROVE ListsInv'
<1>1. UNCHANGED <<date, made, job, store, queued, peak>>
  BY DEF N!UpdateReturns
<1>2. N!Lists' = N!Lists /\ board' = [i \in N!Lists |-> board'[i]]
  BY RoundMeasures
<1>3. PICK had : \A i \in N!Lists :
         board'[i] = [date |-> board[i].date, category |-> board[i].category,
                      picks |-> [s \in DOMAIN board[i].picks |-> N!Measured(board[i], s, had)]]
  BY RoundMeasures
<1>4. \A i \in N!Lists : board'[i].date = board[i].date /\ board'[i].category = board[i].category
  <2>1. ASSUME NEW i \in N!Lists
        PROVE  board'[i].date = board[i].date /\ board'[i].category = board[i].category
    <3> DEFINE fresh == [s \in DOMAIN board[i].picks |-> N!Measured(board[i], s, had)]
    <3>1. board'[i] = [date |-> board[i].date, category |-> board[i].category, picks |-> fresh]
      BY <1>3
    <3> HIDE DEF fresh
    <3> QED
      BY <3>1
  <2> QED
    BY <2>1
<1>5. date \in Nat \ {0}
  BY Lists DEF ListsInv, BoardFits
<1>6. ASSUME NEW i \in N!Lists PROVE ListKept(board[i])'
  <2>1. ListKept(board[i])
    BY DEF ListsInv, BoardFits
  <2>2. /\ board'[i] = [date |-> board'[i].date, category |-> board'[i].category, picks |-> board'[i].picks]
        /\ board'[i].picks = [s \in DOMAIN board[i].picks |-> N!Measured(board[i], s, had)]
        /\ board'[i].date \in 1..date
    <3> DEFINE fresh == [s \in DOMAIN board[i].picks |-> N!Measured(board[i], s, had)]
    <3>1. board'[i] = [date |-> board[i].date, category |-> board[i].category, picks |-> fresh]
      BY <1>3
    <3>2. board[i].date \in 1..date
      BY <2>1 DEF ListKept
    <3> HIDE DEF fresh
    <3>3. board'[i].date = board[i].date /\ board'[i].picks = fresh /\ board'[i].category = board[i].category
      BY <3>1
    <3>4. board'[i] = [date |-> board'[i].date, category |-> board'[i].category, picks |-> board'[i].picks]
      BY <3>1, <3>3
    <3>5. board'[i].picks = [s \in DOMAIN board[i].picks |-> N!Measured(board[i], s, had)]
      BY <3>3 DEF fresh
    <3> QED
      BY <3>2, <3>3, <3>4, <3>5
  <2>3. board'[i].picks = [s \in DOMAIN board'[i].picks |-> board'[i].picks[s]]
    BY <2>2
  <2>4. ASSUME NEW s \in DOMAIN board'[i].picks
        PROVE  /\ board'[i].picks[s] \in [priced : BOOLEAN, day : Nat, week : Nat, month : Nat]
               /\ \A span \in AllSpans : board'[i].picks[s][span] # 0 => board'[i].date < date
    <3>1. s \in DOMAIN board[i].picks /\ board'[i].picks[s] = N!Measured(board[i], s, had)
      BY <2>2, <2>4
    <3>2. \A span \in AllSpans : board[i].picks[s][span] # 0 => board[i].date < date
      BY <2>1, <3>1 DEF ListKept
    <3> QED
      BY <1>4, <1>5, <2>1, <3>1, <3>2, MeasuringFits
  <2> QED
    BY <1>1, <2>2, <2>3, <2>4 DEF ListKept
<1>7. BoardFits'
  BY <1>1, <1>2, <1>6 DEF ListsInv, BoardFits
<1>8. ASSUME NEW d, NEW e PROVE N!OfDay(d, e)' = N!OfDay(d, e)
  BY <1>2, <1>4 DEF N!OfDay
<1>9. RequestsFit'
  BY <1>1, <1>2, <1>4 DEF ListsInv, RequestsFit, RequestFits, N!Idle
<1>10. JobFits'
  BY <1>1, <1>8 DEF ListsInv, JobFits, StoredFits
<1>11. \A d \in 1..EndDate, e \in Kinds : Bounded(d, e)'
  BY <1>1, <1>8, BoundsStay
<1>12. \A q \in queued' : N!OfDay(q.date, q.category)' # {}
  BY <1>1, <1>8 DEF ListsInv
<1> QED
  BY <1>7, <1>9, <1>10, <1>11, <1>12 DEF ListsInv

LEMMA ListsStay == ASSUME ListsInv, UNCHANGED N!vars PROVE ListsInv'
<1>1. UNCHANGED <<date, board, made, job, store, queued, peak>>
  BY DEF N!vars
<1>2. JobFits'
  BY <1>1, DaysStay DEF ListsInv, JobFits, StoredFits
<1>3. \A q \in queued' : N!OfDay(q.date, q.category)' # {}
  BY <1>1, DaysStay DEF ListsInv
<1> QED
  BY <1>1, <1>2, <1>3, JobMoves

\* However often the task is begun, killed and left by its requests, and
\* whichever of them fail, the lists of a day are as many as the requests that
\* may still replace them allow.
THEOREM ListsHold == N!Spec => []ListsInv
<1>1. ListsInv /\ [N!Next]_N!vars => ListsInv'
  BY JobStarts, JobGoesOn, JobQueues, JobEnds, RoundFits, DayEnds, StoreBegins, StoreCommits, StoreFails,
     ListsStay DEF N!Next
<1> QED
  BY <1>1, ListsBegin, PTL DEF N!Spec

\* A day shows one list of a category, or as many as were ever asked for
\* together, and a queued auto-trade finds its list (store_recommendations,
\* generate_daily_recommendations).
THEOREM ListsAlwaysKept == N!Spec => []ListsKept
<1>1. ASSUME ListsInv PROVE N!ListsKept
  <2>1. N!QueuedFinds
    BY <1>1 DEF ListsInv, N!QueuedFinds
  <2>2. ASSUME NEW d \in 1..EndDate, NEW n \in 1..Len(Categories)
        PROVE  N!Cardinality({i \in N!Shown(d) : board[i].category = Categories[n]}) <= peak
    <3> DEFINE shown == {i \in N!Shown(d) : board[i].category = Categories[n]}
    <3>1. BoardFits /\ peak \in Nat
      BY <1>1 DEF ListsInv, BoardFits
    <3>2. CASE shown = {}
      BY <3>1, <3>2, FS_EmptySet, SameCardinality
    <3>3. CASE shown # {}
      <4>1. PICK i \in N!Lists : i \in shown
        BY <3>3 DEF N!Shown
      <4>a. \A j \in N!Lists : board[j].date \in 1..date
        BY <3>1 DEF BoardFits, ListKept
      <4>b. date \in 1..EndDate /\ EndDate \in Nat
        BY <3>1, Lists DEF BoardFits
      <4>2. board[i].date \in 1..EndDate
        BY <4>a, <4>b
      <4>3. \A j \in N!Lists : board[j].date \in Nat
        BY <4>a
      <4>4. ASSUME NEW j \in shown PROVE j \in N!OfDay(board[i].date, Categories[n])
        <5>1. j \in N!Lists /\ board[j].category = Categories[n]
          BY <4>4 DEF N!Shown
        <5>2. board[j].date <= board[i].date /\ board[i].date <= board[j].date
          BY <4>1, <4>4 DEF N!Shown
        <5> QED
          BY <4>1, <4>3, <5>1, <5>2 DEF N!OfDay
      <4>5. Categories[n] \in Kinds /\ {} \in SUBSET N!Asking(board[i].date, Categories[n])
        BY Lists DEF Kinds
      <4>6. Cardinality(Unseen(board[i].date, Categories[n], {})) + Cardinality({}) <= peak
        BY <1>1, <4>2, <4>5 DEF ListsInv, Bounded
      <4>7. Unseen(board[i].date, Categories[n], {}) = N!OfDay(board[i].date, Categories[n])
        BY DEF Unseen
      <4>8. /\ IsFiniteSet(N!OfDay(board[i].date, Categories[n]))
            /\ Cardinality(N!OfDay(board[i].date, Categories[n])) \in Nat
        BY <3>1, <4>5, <4>7, ListsFinite
      <4>9. shown \in SUBSET N!OfDay(board[i].date, Categories[n])
        BY <4>4
      <4> HIDE DEF shown
      <4>10. Cardinality(shown) <= Cardinality(N!OfDay(board[i].date, Categories[n])) /\ IsFiniteSet(shown)
        BY <4>8, <4>9, FS_Subset
      <4>11. Cardinality(shown) \in Nat /\ Cardinality({}) = 0
        BY <4>10, FS_CardinalityType, FS_EmptySet
      <4>12. Cardinality(shown) <= peak
        BY <3>1, <4>6, <4>7, <4>8, <4>10, <4>11
      <4> QED
        BY <4>12, SameCardinality DEF shown
    <3> QED
      BY <3>2, <3>3
  <2> QED
    BY <2>1, <2>2 DEF N!ListsKept, N!OneListShown
<1> QED
  BY <1>1, ListsHold, PTL DEF ListsKept

\* A list that was measured is never replaced, nor measured anew
\* (update_recommendation_returns, store_recommendations).
THEOREM MeasurementsAlwaysStay == N!Spec => MeasurementsStay
<1> DEFINE Stay == \A i \in N!Lists : \A s \in DOMAIN board[i].picks :
                      IF i \in DOMAIN board' THEN N!MeasuredOnce(board[i], board'[i], s)
                      ELSE \A span \in AllSpans : board[i].picks[s][span] = 0
<1>1. ASSUME UNCHANGED board PROVE Stay
  BY <1>1 DEF N!MeasuredOnce, N!Lists
<1>2. ASSUME ListsInv, N!UpdateReturns PROVE Stay
  <2> SUFFICES ASSUME NEW i \in N!Lists, NEW s \in DOMAIN board[i].picks
               PROVE  N!MeasuredOnce(board[i], board'[i], s)
    BY <1>2, RoundMeasures DEF N!Lists
  <2>1. PICK had : board'[i] =
           [date |-> board[i].date, category |-> board[i].category,
            picks |-> [t \in DOMAIN board[i].picks |-> N!Measured(board[i], t, had)]]
    BY <1>2, RoundMeasures
  <2>2. board'[i].picks[s] = N!Measured(board[i], s, had)
    BY <2>1
  <2>3. date \in Nat \ {0} /\ ListKept(board[i])
    BY <1>2, Lists DEF ListsInv, BoardFits
  <2>4. \A span \in AllSpans :
           IF board[i].picks[s][span] # 0 THEN board'[i].picks[s][span] = board[i].picks[s][span]
           ELSE board'[i].picks[s][span] # 0 => board'[i].picks[s][span] = date /\ board[i].date < date
    BY <2>2, <2>3, MeasuringFits
  <2> QED
    BY <2>4 DEF N!MeasuredOnce, AllSpans
<1>3. ASSUME ListsInv, NEW r \in Stores, N!CommitStore(r) PROVE Stay
  <2> SUFFICES ASSUME NEW i \in N!Lists, NEW s \in DOMAIN board[i].picks
               PROVE  IF i \in DOMAIN board' THEN N!MeasuredOnce(board[i], board'[i], s)
                      ELSE \A span \in AllSpans : board[i].picks[s][span] = 0
    OBVIOUS
  <2>1. PICK priced \in [store[r].symbols -> BOOLEAN] :
           board' = [j \in (N!Lists \ store[r].seen) \cup {made + 1} |->
               IF j \in N!Lists THEN board[j]
               ELSE [date |-> store[r].date, category |-> store[r].category,
                     picks |-> [t \in store[r].symbols |-> N!Pick(priced[t])]]]
    BY <1>3 DEF N!CommitStore
  <2>2. made \in Nat /\ N!Lists \subseteq 1..made
    BY <1>3 DEF ListsInv, BoardFits
  <2>3. i # made + 1
    BY <2>2
  <2>4. CASE i \in store[r].seen
    <3>1. i \notin DOMAIN board'
      BY <2>1, <2>3, <2>4
    <3>2. RequestFits(store[r])
      BY <1>3 DEF N!CommitStore, ListsInv, RequestsFit
    <3>3. board[i].date = date
      BY <2>4, <3>2 DEF RequestFits
    <3>4. date \in Nat
      BY <1>3 DEF ListsInv, BoardFits
    <3>5. ListKept(board[i])
      BY <1>3 DEF ListsInv, BoardFits
    <3>6. ~(board[i].date < date)
      BY <3>3, <3>4
    <3>7. \A span \in AllSpans : board[i].picks[s][span] = 0
      BY <3>5, <3>6 DEF ListKept
    <3> QED
      BY <3>1, <3>7
  <2>5. CASE i \notin store[r].seen
    <3>1. board'[i] = board[i] /\ i \in DOMAIN board'
      BY <2>1, <2>5
    <3> QED
      BY <3>1 DEF N!MeasuredOnce
  <2> QED
    BY <2>4, <2>5
<1>4. ListsInv /\ N!Next => Stay
  <2>1. ASSUME N!Next PROVE UNCHANGED board \/ N!UpdateReturns \/ \E r \in Stores : N!CommitStore(r)
    BY <2>1 DEF N!Next, N!StartJob, N!FindNothing, N!TimeOut, N!Queue, N!Kill, N!Process, N!NextDay,
                N!Store, N!FailStore
  <2> HIDE DEF Stay
  <2> QED
    BY <1>1, <1>2, <1>3, <2>1
<1>5. ListsInv /\ [N!Next]_N!vars =>
         [\A i \in N!Lists : \A s \in DOMAIN board[i].picks :
             IF i \in DOMAIN board' THEN N!MeasuredOnce(board[i], board'[i], s)
             ELSE \A span \in {"day", "week", "month"} : board[i].picks[s][span] = 0]_N!vars
  BY <1>4 DEF AllSpans
<1> QED
  BY <1>5, ListsHold, PTL DEF N!Spec, MeasurementsStay, N!MeasurementsStay

\* Direction, confidence, size and strategy agree, whatever is read of a symbol
\* and in whichever category it is stored (score_symbol).
THEOREM ScoresAlwaysAgree == N!Spec => []ScoresAgree
<1>1. ASSUME ListsInv PROVE N!ScoresAgree
  <2> SUFFICES ASSUME N!At("storing"), NEW screened \in {"long", "short"}, NEW x \in RawScores,
                      NEW had \in SUBSET DOMAIN N!Neutral
               PROVE  N!ScoreHolds(Categories[job.next], N!Read(x, had), screened)
    BY DEF N!ScoresAgree
  <2>1. job.next \in DOMAIN Categories
    BY <1>1 DEF ListsInv, JobFits, N!At, N!Resting
  <2>2. Categories[job.next] # "bearish_momentum"
    BY <2>1, Presets
  <2>3. LET y == N!Read(x, had)
        IN  y.technical \in 0..100 /\ y.fundamental \in 0..100 /\ y.sentiment \in -100..100
    BY ReadsScores
  <2> QED
    BY <2>2, <2>3, ScoreAgrees
<1> QED
  BY <1>1, ListsHold, PTL DEF ScoresAgree

-----------------------------------------------------------------------------
(* Universes *)

\* A sequence that has nothing twice.
Distinct(names) == \A n, m \in DOMAIN names : names[n] = names[m] => n = m

Row == [name : STRING, symbols : SUBSET Stocks]

\* A request that is under way adds no name twice and none that is still to
\* come, and empties no index.
Shaped(q) ==
    /\ q = [pc |-> q.pc, todo |-> q.todo, alone |-> q.alone, row |-> q.row,
            symbols |-> q.symbols, added |-> q.added, changed |-> q.changed]
    /\ q.pc \in {"looking", "changing"} /\ q.todo \in Seq(STRING) /\ q.added \in Seq(Row)
NamesNew(q) ==
    /\ Distinct(q.todo)
    /\ \A n, m \in DOMAIN q.added : q.added[n].name = q.added[m].name => n = m
    /\ \A n \in DOMAIN q.added :
          /\ ~Y!IsIn(q.added[n].name, q.todo)
          /\ Y!IsIn(q.added[n].name, Indices) => q.added[n].symbols # {}
ChangesFit(q) ==
    /\ DOMAIN q.changed \subseteq DOMAIN listed
    /\ \A w \in DOMAIN q.changed :
          /\ q.changed[w] \in SUBSET Stocks
          /\ Y!IsIn(listed[w].name, Indices) => q.changed[w] # {}
    /\ q.pc = "changing" =>
          /\ q.row \in DOMAIN listed /\ q.todo # <<>> /\ q.symbols \in SUBSET Stocks
          /\ Y!IsIn(listed[q.row].name, Indices) => q.symbols # {}
SeedFits(q) == Shaped(q) /\ NamesNew(q) /\ ChangesFit(q)

\* The requests that are going to add a name.
Adding(name) ==
    {r \in Y!Busy : \E i \in DOMAIN seeding[r].added : seeding[r].added[i].name = name}
NamedOnce(name) == Cardinality(Y!RowsOf(name)) + Cardinality(Adding(name)) <= crowd

UniversesInv ==
    /\ listed \in Seq(Row) /\ crowd \in Nat
    /\ seeding = [r \in Seeders |-> seeding[r]]
    /\ \A r \in Seeders : seeding[r] = Y!Idle \/ SeedFits(seeding[r])
    /\ \A w \in DOMAIN listed : Y!IsIn(listed[w].name, Indices) => listed[w].symbols # {}
    /\ Cardinality(Y!Busy) <= crowd
    /\ \A name \in STRING : NamedOnce(name)

\* Rows and requests are finitely many.
LEMMA NamesFinite ==
    ASSUME listed \in Seq(Row), NEW name
    PROVE  /\ IsFiniteSet(Y!RowsOf(name)) /\ IsFiniteSet(Adding(name)) /\ IsFiniteSet(Y!Busy)
           /\ Cardinality(Y!RowsOf(name)) \in Nat /\ Cardinality(Adding(name)) \in Nat
           /\ Cardinality(Y!Busy) \in Nat
           /\ Cardinality(Adding(name)) <= Cardinality(Y!Busy)
<1>1. IsFiniteSet(Seeders) /\ Y!Busy \in SUBSET Seeders /\ Adding(name) \in SUBSET Y!Busy
  BY Catalogue DEF Y!Busy, Adding
<1>2. Len(listed) \in Nat /\ DOMAIN listed = 1..Len(listed)
  BY LenProperties
<1>3. IsFiniteSet(1..Len(listed)) /\ Y!RowsOf(name) \in SUBSET (1..Len(listed))
  BY <1>2, FS_Interval DEF Y!RowsOf
<1>4. IsFiniteSet(Y!Busy)
  BY <1>1, FS_Subset
<1>5. IsFiniteSet(Adding(name)) /\ Cardinality(Adding(name)) <= Cardinality(Y!Busy)
  BY <1>1, <1>4, FS_Subset
<1>6. IsFiniteSet(Y!RowsOf(name))
  BY <1>3, FS_Subset
<1> QED
  BY <1>4, <1>5, <1>6, FS_CardinalityType

\* The names of the system's universes, wherever a job begins with them.
LEMMA JobsDistinct ==
    /\ Predefined \o Indices \o Tables \in Seq(STRING) /\ Distinct(Predefined \o Indices \o Tables)
    /\ Indices \o Tables \in Seq(STRING) /\ Distinct(Indices \o Tables)
    /\ \A i \in DOMAIN Indices : <<Indices[i]>> \in Seq(STRING) /\ Distinct(<<Indices[i]>>)
    /\ \A name : ~(Y!IsIn(name, Predefined) /\ Y!IsIn(name, Indices))
<1> DEFINE rest == Indices \o Tables
           all == Predefined \o Indices \o Tables
           p == Len(Predefined)
           n == Len(Indices)
<1>1. Predefined \in Seq(STRING) /\ Indices \in Seq(STRING) /\ Tables \in Seq(STRING) /\ Distinct(all)
  BY Catalogue DEF Distinct
<1>2. all = Predefined \o rest
  BY <1>1, ConcatAssociative
<1>3. /\ rest \in Seq(STRING) /\ Len(rest) = n + Len(Tables)
      /\ \A i \in 1..n + Len(Tables) : rest[i] = IF i <= n THEN Indices[i] ELSE Tables[i - n]
  BY <1>1, ConcatProperties
<1>4. p \in Nat /\ n \in Nat /\ Len(Tables) \in Nat /\ DOMAIN Predefined = 1..p /\ DOMAIN Indices = 1..n
  BY <1>1, LenProperties
<1> HIDE DEF rest, all, p, n
<1>5. /\ all \in Seq(STRING) /\ Len(all) = p + Len(rest)
      /\ \A i \in 1..p + Len(rest) : all[i] = IF i <= p THEN Predefined[i] ELSE rest[i - p]
  BY <1>1, <1>2, <1>3, ConcatProperties DEF p
<1>6. Len(rest) \in Nat /\ DOMAIN rest = 1..Len(rest) /\ DOMAIN all = 1..(p + Len(rest))
  BY <1>3, <1>5, LenProperties
<1>7. ASSUME NEW i \in DOMAIN rest PROVE p + i \in DOMAIN all /\ all[p + i] = rest[i]
  BY <1>4, <1>5, <1>6, <1>7
<1>8. Distinct(rest)
  <2>1. ASSUME NEW i \in DOMAIN rest, NEW j \in DOMAIN rest, rest[i] = rest[j] PROVE i = j
    <3>1. p + i = p + j
      BY <1>1, <1>7, <2>1 DEF Distinct
    <3> QED
      BY <1>4, <1>6, <2>1, <3>1
  <2> QED
    BY <2>1 DEF Distinct
<1>9. ASSUME NEW name, Y!IsIn(name, Predefined), Y!IsIn(name, Indices) PROVE FALSE
  <2>1. PICK i \in 1..p, j \in 1..n : Predefined[i] = name /\ Indices[j] = name
    BY <1>4, <1>9 DEF Y!IsIn
  <2>2. j \in DOMAIN rest /\ rest[j] = name
    BY <1>3, <1>4, <1>6, <2>1
  <2>3. p + j \in DOMAIN all /\ all[p + j] = name
    BY <1>7, <2>2
  <2>4. i \in DOMAIN all /\ all[i] = name
    BY <1>4, <1>5, <1>6, <2>1
  <2>5. i = p + j
    BY <1>1, <2>3, <2>4 DEF Distinct
  <2> QED
    BY <1>4, <2>1, <2>5
<1>10. \A i \in DOMAIN Indices : <<Indices[i]>> \in Seq(STRING) /\ Distinct(<<Indices[i]>>)
  <2>1. ASSUME NEW i \in DOMAIN Indices PROVE Indices[i] \in STRING
    BY <1>1, <1>4, <2>1, ElementOfSeq DEF n
  <2> QED
    BY <2>1 DEF Distinct
<1> QED
  BY <1>1, <1>3, <1>5, <1>8, <1>9, <1>10 DEF rest, all

LEMMA UniversesBegin == ASSUME Y!Init PROVE UniversesInv
<1>1. /\ listed = <<>> /\ seeding = [r \in Seeders |-> Y!Idle] /\ crowd = 0 /\ listed \in Seq(Row)
  BY EmptySeq DEF Y!Init
<1>2. Y!Busy = {} /\ \A name \in STRING : Y!RowsOf(name) = {} /\ Adding(name) = {}
  BY <1>1 DEF Y!Busy, Y!RowsOf, Adding
<1>3. ASSUME NEW name \in STRING PROVE NamedOnce(name)
  <2>1. Cardinality(Y!RowsOf(name)) = 0 /\ Cardinality(Adding(name)) = 0
    BY <1>2, FS_EmptySet
  <2> QED
    BY <1>1, <2>1 DEF NamedOnce
<1>4. Cardinality(Y!Busy) <= crowd
  BY <1>1, <1>2, FS_EmptySet
<1>5. /\ \A r \in Seeders : seeding[r] = Y!Idle
      /\ seeding = [r \in Seeders |-> seeding[r]]
      /\ \A w \in DOMAIN listed : Y!IsIn(listed[w].name, Indices) => listed[w].symbols # {}
  BY <1>1
<1> QED
  BY <1>1, <1>3, <1>4, <1>5 DEF UniversesInv

\* A request is idle or has its shape.
LEMMA BusyFits ==
    ASSUME UniversesInv, NEW r \in Y!Busy
    PROVE  r \in Seeders /\ SeedFits(seeding[r]) /\ seeding[r] # Y!Idle
BY DEF UniversesInv, Y!Busy

LEMMA FitsBusy == ASSUME NEW q, Shaped(q) PROVE q # Y!Idle
<1>1. q.pc # "idle"
  BY DEF Shaped
<1> QED
  BY <1>1 DEF Y!Idle

\* A request whose names that it adds stay leaves the bounds.
LEMMA SeedMoves ==
    ASSUME UniversesInv, NEW r \in Y!Busy, NEW q, SeedFits(q), Y!Becomes(r, q),
           \A name \in STRING :
              \/ \A i \in DOMAIN q.added : q.added[i].name # name
              \/ r \in Adding(name) \/ Y!RowsOf(name) = {}
    PROVE  UniversesInv'
<1>1. seeding' = [seeding EXCEPT ![r] = q] /\ UNCHANGED <<listed, crowd>> /\ r \in Seeders
  BY BusyFits DEF Y!Becomes
<1>2. /\ seeding' = [s \in Seeders |-> seeding'[s]] /\ seeding'[r] = q
      /\ \A s \in Seeders : s # r => seeding'[s] = seeding[s]
  BY <1>1 DEF UniversesInv
<1>3. q # Y!Idle
  BY FitsBusy DEF SeedFits
<1>4. Y!Busy' = Y!Busy
  BY <1>2, <1>3, BusyFits DEF Y!Busy, Y!Idle
<1>5. ASSUME NEW s \in Seeders PROVE (seeding[s] = Y!Idle \/ SeedFits(seeding[s]))'
  <2>1. CASE s = r
    <3>1. SeedFits(q)'
      BY <1>1 DEF SeedFits, ChangesFit
    <3> QED
      BY <1>2, <2>1, <3>1
  <2>2. CASE s # r
    <3>1. seeding'[s] = seeding[s] /\ (seeding[s] = Y!Idle \/ SeedFits(seeding[s]))
      BY <1>2, <2>2 DEF UniversesInv
    <3> QED
      BY <1>1, <3>1 DEF SeedFits, ChangesFit, Y!Idle
  <2> QED
    BY <2>1, <2>2
<1>6. ASSUME NEW name \in STRING PROVE NamedOnce(name)'
  <2>1. Y!RowsOf(name)' = Y!RowsOf(name) /\ listed \in Seq(Row) /\ crowd \in Nat /\ NamedOnce(name)
    BY <1>1 DEF Y!RowsOf, UniversesInv
  <2>2. /\ IsFiniteSet(Y!Busy) /\ Cardinality(Y!Busy) \in Nat /\ Cardinality(Y!Busy) <= crowd
        /\ IsFiniteSet(Adding(name)) /\ Cardinality(Adding(name)) \in Nat
        /\ Cardinality(Y!RowsOf(name)) \in Nat
    BY <2>1, NamesFinite DEF UniversesInv
  <2>3. CASE Y!RowsOf(name) = {}
    <3>1. Adding(name)' \in SUBSET Y!Busy
      BY <1>4 DEF Adding
    <3>2. Cardinality(Adding(name)') <= Cardinality(Y!Busy) /\ IsFiniteSet(Adding(name)')
      BY <2>2, <3>1, FS_Subset
    <3>3. Cardinality(Adding(name)') \in Nat
      BY <3>2, FS_CardinalityType
    <3>4. Cardinality(Y!RowsOf(name)') = 0
      BY <2>1, <2>3, FS_EmptySet
    <3> QED
      BY <1>1, <2>1, <2>2, <3>2, <3>3, <3>4 DEF NamedOnce
  <2>4. CASE Y!RowsOf(name) # {}
    <3>1. ASSUME NEW s \in Adding(name)' PROVE s \in Adding(name)
      <4>1. s \in Y!Busy /\ \E i \in DOMAIN seeding'[s].added : seeding'[s].added[i].name = name
        BY <1>4, <3>1 DEF Adding
      <4>2. CASE s = r
        BY <1>2, <2>4, <4>1, <4>2
      <4>3. CASE s # r
        <5>1. s \in Seeders /\ seeding'[s] = seeding[s]
          BY <1>2, <4>1, <4>3, BusyFits
        <5> QED
          BY <4>1, <5>1 DEF Adding
      <4> QED
        BY <4>2, <4>3
    <3>2. Cardinality(Adding(name)') <= Cardinality(Adding(name)) /\ IsFiniteSet(Adding(name)')
      <4>1. Adding(name)' \in SUBSET Adding(name)
        BY <3>1
      <4> QED
        BY <2>2, <4>1, FS_Subset
    <3>3. Cardinality(Adding(name)') \in Nat
      BY <3>2, FS_CardinalityType
    <3> QED
      BY <1>1, <2>1, <2>2, <3>2, <3>3 DEF NamedOnce
  <2> QED
    BY <2>3, <2>4
<1>7. /\ listed' \in Seq(Row) /\ crowd' \in Nat /\ Cardinality(Y!Busy)' <= crowd'
      /\ \A w \in DOMAIN listed' : Y!IsIn(listed'[w].name, Indices) => listed'[w].symbols # {}
  BY <1>1, <1>4 DEF UniversesInv
<1> QED
  BY <1>2, <1>5, <1>6, <1>7 DEF UniversesInv, Y!IsIn

\* A sequence without its first is without it.
LEMMA TailsDistinct ==
    ASSUME NEW names \in Seq(STRING), names # <<>>, Distinct(names)
    PROVE  /\ Tail(names) \in Seq(STRING) /\ Distinct(Tail(names)) /\ Head(names) \in STRING
           /\ ~Y!IsIn(Head(names), Tail(names)) /\ Y!IsIn(Head(names), names)
           /\ \A name : Y!IsIn(name, Tail(names)) => Y!IsIn(name, names)
<1>1. /\ Head(names) \in STRING /\ Tail(names) \in Seq(STRING)
      /\ Len(Tail(names)) = Len(names) - 1 /\ \A i \in 1..Len(Tail(names)) : Tail(names)[i] = names[i + 1]
  BY HeadTailProperties
<1>2. /\ Len(names) \in Nat \ {0} /\ DOMAIN names = 1..Len(names)
      /\ DOMAIN Tail(names) = 1..Len(Tail(names)) /\ Head(names) = names[1]
  BY <1>1, LenProperties, EmptySeq
<1>3. \A i \in DOMAIN Tail(names) : i \in Nat \ {0} /\ i + 1 \in DOMAIN names /\ Tail(names)[i] = names[i + 1]
  BY <1>1, <1>2
<1>4. ASSUME NEW i \in DOMAIN Tail(names), NEW j \in DOMAIN Tail(names), Tail(names)[i] = Tail(names)[j]
      PROVE  i = j
  <2>1. i + 1 = j + 1
    BY <1>3, <1>4 DEF Distinct
  <2> QED
    BY <1>3, <1>4, <2>1
<1>5. ASSUME NEW i \in DOMAIN Tail(names), Tail(names)[i] = Head(names) PROVE FALSE
  <2>1. 1 \in DOMAIN names
    BY <1>2
  <2>2. i + 1 = 1
    BY <1>2, <1>3, <1>5, <2>1 DEF Distinct
  <2> QED
    BY <1>3, <1>5, <2>2
<1>6. \E i \in DOMAIN names : names[i] = Head(names)
  BY <1>2
<1>7. ASSUME NEW name, Y!IsIn(name, Tail(names)) PROVE Y!IsIn(name, names)
  BY <1>3, <1>7 DEF Y!IsIn
<1> QED
  BY <1>1, <1>4, <1>5, <1>6, <1>7 DEF Distinct, Y!IsIn

\* A request that goes on to its next name.
LEMMA OnwardsKeep ==
    ASSUME NEW q, SeedFits(q), q.todo # <<>>
    PROVE  SeedFits(Y!Onwards(q)) /\ Y!Onwards(q).added = q.added
<1> DEFINE o == Y!Onwards(q)
<1>1. Shaped(q) /\ NamesNew(q) /\ ChangesFit(q)
  BY DEF SeedFits
<1>2. PICK t : t = Tail(q.todo)
  OBVIOUS
<1>3. t \in Seq(STRING) /\ Distinct(t) /\ \A name : Y!IsIn(name, t) => Y!IsIn(name, q.todo)
  BY <1>1, <1>2, TailsDistinct DEF Shaped, NamesNew
<1>4. o = [q EXCEPT !.pc = "looking", !.todo = t]
  BY <1>2 DEF Y!Onwards
<1>5. /\ o = [pc |-> "looking", todo |-> t, alone |-> q.alone, row |-> q.row,
             symbols |-> q.symbols, added |-> q.added, changed |-> q.changed]
  BY <1>1, <1>4 DEF Shaped
<1> HIDE DEF o
<1>6. /\ o.pc = "looking" /\ o.todo = t /\ o.alone = q.alone /\ o.row = q.row
      /\ o.symbols = q.symbols /\ o.added = q.added /\ o.changed = q.changed
  BY <1>5
<1>7. Shaped(o)
  BY <1>1, <1>3, <1>5, <1>6 DEF Shaped
<1>8. NamesNew(o)
  BY <1>1, <1>3, <1>6 DEF NamesNew
<1>9. ChangesFit(o)
  BY <1>1, <1>6 DEF ChangesFit
<1> QED
  BY <1>6, <1>7, <1>8, <1>9 DEF SeedFits, o

\* A name that is passed over: not found at the exchange, or predefined and there.
LEMMA PassingFits ==
    ASSUME UniversesInv, NEW r \in Y!Busy, seeding[r].todo # <<>>, Y!Becomes(r, Y!Onwards(seeding[r]))
    PROVE  UniversesInv'
<1>1. SeedFits(seeding[r])
  BY BusyFits
<1>2. SeedFits(Y!Onwards(seeding[r])) /\ Y!Onwards(seeding[r]).added = seeding[r].added
  BY <1>1, OnwardsKeep
<1>3. PICK q : q = Y!Onwards(seeding[r])
  OBVIOUS
<1>4. SeedFits(q) /\ q.added = seeding[r].added /\ Y!Becomes(r, q)
  BY <1>2, <1>3
<1>5. ASSUME NEW name \in STRING
      PROVE  \/ \A i \in DOMAIN q.added : q.added[i].name # name
             \/ r \in Adding(name) \/ Y!RowsOf(name) = {}
  BY <1>4 DEF Adding
<1> QED
  BY <1>4, <1>5, SeedMoves

\* A name without a row is added by the request.
LEMMA AddingFits == ASSUME UniversesInv, NEW r \in Seeders, Y!Add(r) PROVE UniversesInv'
<1>1. r \in Y!Busy /\ seeding[r].todo # <<>> /\ Y!RowsOf(Y!Name(r)) = {}
  BY DEF Y!Add, Y!Looking
<1>2. PICK symbols \in Y!Answers(Y!Name(r)) :
         Y!Becomes(r, Y!Onwards([seeding[r] EXCEPT !.added = Append(@, Y!UniverseRow(Y!Name(r), symbols))]))
  BY DEF Y!Add
<1>a. PICK w : w = seeding[r]
  OBVIOUS
<1>b. PICK n : n = Head(w.todo)
  OBVIOUS
<1>c. PICK t : t = Tail(w.todo)
  OBVIOUS
<1>d. PICK u : u = [name |-> n, symbols |-> symbols]
  OBVIOUS
<1>e. PICK more : more = Append(w.added, u)
  OBVIOUS
<1>3. SeedFits(w) /\ w.todo # <<>> /\ Y!RowsOf(n) = {} /\ symbols \in Y!Answers(n)
  BY <1>1, <1>a, <1>b, <1>2, BusyFits DEF Y!Name
<1>4. PICK q : q = Y!Onwards([w EXCEPT !.added = more])
  OBVIOUS
<1>5. Y!Becomes(r, q)
  BY <1>2, <1>4, <1>a, <1>b, <1>d, <1>e DEF Y!Name, Y!UniverseRow
<1>6. /\ t \in Seq(STRING) /\ Distinct(t) /\ n \in STRING /\ ~Y!IsIn(n, t) /\ Y!IsIn(n, w.todo)
      /\ \A name : Y!IsIn(name, t) => Y!IsIn(name, w.todo)
  BY <1>3, <1>b, <1>c, TailsDistinct DEF SeedFits, Shaped, NamesNew
<1>7. symbols \in SUBSET Stocks /\ (Y!IsIn(n, Indices) => symbols # {})
  BY <1>3, JobsDistinct DEF Y!Answers
<1>8. u \in Row /\ u.name = n /\ u.symbols = symbols
  BY <1>6, <1>7, <1>d DEF Row
<1>9. /\ w.added \in Seq(Row) /\ Len(w.added) \in Nat /\ DOMAIN w.added = 1..Len(w.added)
  BY <1>3, LenProperties DEF SeedFits, Shaped
<1>10. /\ more \in Seq(Row) /\ DOMAIN more = 1..(Len(w.added) + 1)
       /\ more[Len(w.added) + 1] = u /\ \A i \in DOMAIN w.added : more[i] = w.added[i]
  BY <1>8, <1>9, <1>e, AppendProperties, LenProperties
<1>11. \A i \in DOMAIN more : i = Len(w.added) + 1 \/ i \in DOMAIN w.added
  BY <1>9, <1>10
<1>12. q = [pc |-> "looking", todo |-> t, alone |-> w.alone, row |-> w.row,
            symbols |-> w.symbols, added |-> more, changed |-> w.changed]
  BY <1>3, <1>4, <1>c DEF Y!Onwards, SeedFits, Shaped
<1>13. /\ q.pc = "looking" /\ q.todo = t /\ q.alone = w.alone /\ q.row = w.row
       /\ q.symbols = w.symbols /\ q.added = more /\ q.changed = w.changed
  BY <1>12
<1>14. Shaped(q)
  BY <1>6, <1>10, <1>12, <1>13 DEF Shaped
<1>15. ChangesFit(q)
  BY <1>3, <1>13 DEF SeedFits, ChangesFit
<1>16. NamesNew(q)
  <2>1. \A i \in DOMAIN w.added : /\ w.added[i].name # n /\ ~Y!IsIn(w.added[i].name, t)
                                  /\ Y!IsIn(w.added[i].name, Indices) => w.added[i].symbols # {}
    BY <1>3, <1>6 DEF SeedFits, NamesNew
  <2>2. \A i, j \in DOMAIN w.added : w.added[i].name = w.added[j].name => i = j
    BY <1>3 DEF SeedFits, NamesNew
  <2>3. \A i, j \in DOMAIN more : more[i].name = more[j].name => i = j
    BY <1>8, <1>10, <1>11, <2>1, <2>2
  <2>4. \A i \in DOMAIN more : /\ ~Y!IsIn(more[i].name, t)
                               /\ Y!IsIn(more[i].name, Indices) => more[i].symbols # {}
    BY <1>6, <1>7, <1>8, <1>10, <1>11, <2>1
  <2> QED
    BY <1>6, <1>13, <2>3, <2>4 DEF NamesNew
<1>17. ASSUME NEW name \in STRING
       PROVE  \/ \A i \in DOMAIN q.added : q.added[i].name # name
              \/ r \in Adding(name) \/ Y!RowsOf(name) = {}
  <2>1. CASE name = n
    BY <1>3, <2>1
  <2>2. CASE name # n
    BY <1>1, <1>8, <1>10, <1>11, <1>13, <1>a, <2>2 DEF Adding
  <2> QED
    BY <2>1, <2>2
<1> QED
  BY <1>1, <1>5, <1>14, <1>15, <1>16, <1>17, SeedMoves DEF SeedFits

\* A name with one row is going to be changed, or left as it is.
LEMMA FindingFits == ASSUME UniversesInv, NEW r \in Seeders, Y!Find(r) PROVE UniversesInv'
<1>1. r \in Y!Busy /\ seeding[r].todo # <<>>
  BY DEF Y!Find, Y!Looking
<1>2. CASE Y!IsIn(Y!Name(r), Predefined)
  BY <1>1, <1>2, PassingFits DEF Y!Find
<1>3. CASE ~Y!IsIn(Y!Name(r), Predefined)
  <2>1. PICK row \in Y!RowsOf(Y!Name(r)), symbols \in Y!Answers(Y!Name(r)) :
           Y!Becomes(r, [seeding[r] EXCEPT !.pc = "changing", !.row = row, !.symbols = symbols])
    BY <1>3 DEF Y!Find
  <2>a. PICK w : w = seeding[r]
    OBVIOUS
  <2>2. PICK q : q = [w EXCEPT !.pc = "changing", !.row = row, !.symbols = symbols]
    OBVIOUS
  <2>3. SeedFits(w) /\ w.todo # <<>> /\ Y!Becomes(r, q)
    BY <1>1, <2>1, <2>2, <2>a, BusyFits
  <2>4. row \in DOMAIN listed /\ listed[row].name = Y!Name(r)
    BY <2>1 DEF Y!RowsOf
  <2>5. symbols \in SUBSET Stocks /\ (Y!IsIn(Y!Name(r), Indices) => symbols # {})
    BY <1>3, <2>1 DEF Y!Answers
  <2>6. q = [pc |-> "changing", todo |-> w.todo, alone |-> w.alone, row |-> row,
             symbols |-> symbols, added |-> w.added, changed |-> w.changed]
    BY <2>2, <2>3 DEF SeedFits, Shaped
  <2>7. /\ q.pc = "changing" /\ q.todo = w.todo /\ q.alone = w.alone /\ q.row = row
        /\ q.symbols = symbols /\ q.added = w.added /\ q.changed = w.changed
    BY <2>6
  <2>8. Shaped(q)
    BY <2>3, <2>6, <2>7 DEF SeedFits, Shaped
  <2>9. NamesNew(q)
    BY <2>3, <2>7 DEF SeedFits, NamesNew
  <2>10. ChangesFit(q)
    BY <2>3, <2>4, <2>5, <2>7 DEF SeedFits, ChangesFit
  <2>11. ASSUME NEW name \in STRING
         PROVE  \/ \A i \in DOMAIN q.added : q.added[i].name # name
                \/ r \in Adding(name) \/ Y!RowsOf(name) = {}
    BY <1>1, <2>7, <2>a DEF Adding
  <2> QED
    BY <1>1, <2>3, <2>8, <2>9, <2>10, <2>11, SeedMoves DEF SeedFits
<1> QED
  BY <1>2, <1>3

\* The row is changed, for this request alone.
LEMMA ChangingFits == ASSUME UniversesInv, NEW r \in Seeders, Y!Change(r) PROVE UniversesInv'
<1>a. PICK w : w = seeding[r]
  OBVIOUS
<1>b. PICK all : all = [row \in DOMAIN w.changed \cup {w.row} |->
                           IF row = w.row THEN w.symbols ELSE w.changed[row]]
  OBVIOUS
<1>c. PICK v : v = [w EXCEPT !.changed = all]
  OBVIOUS
<1>1. r \in Y!Busy /\ w.pc = "changing" /\ Y!Becomes(r, Y!Onwards(v))
  BY <1>a, <1>b, <1>c DEF Y!Change
<1>2. SeedFits(w) /\ w.todo # <<>>
  BY <1>1, <1>a, BusyFits DEF SeedFits, ChangesFit
<1>3. v = [pc |-> w.pc, todo |-> w.todo, alone |-> w.alone, row |-> w.row,
           symbols |-> w.symbols, added |-> w.added, changed |-> all]
  BY <1>2, <1>c DEF SeedFits, Shaped
<1>4. /\ v.pc = w.pc /\ v.todo = w.todo /\ v.alone = w.alone /\ v.row = w.row
      /\ v.symbols = w.symbols /\ v.added = w.added /\ v.changed = all
  BY <1>3
<1>5. Shaped(v)
  BY <1>2, <1>3, <1>4 DEF SeedFits, Shaped
<1>6. NamesNew(v)
  BY <1>2, <1>4 DEF SeedFits, NamesNew
<1>7. ChangesFit(v)
  BY <1>1, <1>2, <1>4, <1>b DEF SeedFits, ChangesFit
<1>8. SeedFits(v) /\ v.todo # <<>>
  BY <1>2, <1>4, <1>5, <1>6, <1>7 DEF SeedFits
<1>9. PICK q : q = Y!Onwards(v)
  OBVIOUS
<1>10. SeedFits(q) /\ q.added = w.added
  BY <1>4, <1>8, <1>9, OnwardsKeep
<1>11. ASSUME NEW name \in STRING
       PROVE  \/ \A i \in DOMAIN q.added : q.added[i].name # name
              \/ r \in Adding(name) \/ Y!RowsOf(name) = {}
  BY <1>1, <1>10, <1>a DEF Adding
<1> QED
  BY <1>1, <1>9, <1>10, <1>11, SeedMoves

\* A request begins, with nothing to add yet.
LEMMA SeedBegins == ASSUME UniversesInv, NEW r \in Seeders, Y!Begin(r) PROVE UniversesInv'
<1>1. PICK q \in Y!Jobs : seeding' = [seeding EXCEPT ![r] = q]
  BY DEF Y!Begin
<1>2. /\ seeding[r] = Y!Idle /\ UNCHANGED listed
      /\ crowd' = Y!AtLeast(crowd, Y!Cardinality(Y!Busy) + 1)
  BY DEF Y!Begin
<1>3. PICK todo \in Seq(STRING), alone \in BOOLEAN : q = Y!Work(todo, alone) /\ Distinct(todo)
  BY <1>1, JobsDistinct DEF Y!Jobs
<1>4. PICK nil : nil = [row \in {} |-> {}]
  OBVIOUS
<1>5. q = [pc |-> "looking", todo |-> todo, alone |-> alone, row |-> 0, symbols |-> {},
           added |-> <<>>, changed |-> nil]
  BY <1>3, <1>4 DEF Y!Work
<1>6. /\ q.pc = "looking" /\ q.todo = todo /\ q.alone = alone /\ q.row = 0
      /\ q.symbols = {} /\ q.added = <<>> /\ q.changed = nil
  BY <1>5
<1>7. SeedFits(q)
  <2>1. Shaped(q)
    BY <1>5, <1>6, EmptySeq DEF Shaped
  <2>2. NamesNew(q)
    BY <1>3, <1>6 DEF NamesNew
  <2>3. ChangesFit(q)
    BY <1>4, <1>6 DEF ChangesFit
  <2> QED
    BY <2>1, <2>2, <2>3 DEF SeedFits
<1>8. /\ seeding' = [s \in Seeders |-> seeding'[s]] /\ seeding'[r] = q
      /\ \A s \in Seeders : s # r => seeding'[s] = seeding[s]
  BY <1>1 DEF UniversesInv
<1>9. q # Y!Idle
  BY <1>7, FitsBusy DEF SeedFits
<1>10. Y!Busy' = Y!Busy \cup {r} /\ r \notin Y!Busy
  BY <1>2, <1>8, <1>9 DEF Y!Busy, Y!Idle
<1>11. listed \in Seq(Row) /\ crowd \in Nat
  BY DEF UniversesInv
<1>12. IsFiniteSet(Y!Busy) /\ Cardinality(Y!Busy) \in Nat
  BY <1>11, NamesFinite
<1>13. Cardinality(Y!Busy)' = Cardinality(Y!Busy) + 1
  BY <1>10, <1>12, FS_AddElement
<1>14. crowd' = Y!AtLeast(crowd, Cardinality(Y!Busy) + 1)
  BY <1>2, SameCardinality
<1>15. crowd' \in Nat /\ crowd' >= crowd /\ Cardinality(Y!Busy)' <= crowd'
  BY <1>11, <1>12, <1>13, <1>14 DEF Y!AtLeast
<1>16. ASSUME NEW s \in Seeders PROVE (seeding[s] = Y!Idle \/ SeedFits(seeding[s]))'
  <2>1. CASE s = r
    <3>1. SeedFits(q)'
      BY <1>2, <1>7 DEF SeedFits, ChangesFit
    <3> QED
      BY <1>8, <2>1, <3>1
  <2>2. CASE s # r
    <3>1. seeding'[s] = seeding[s] /\ (seeding[s] = Y!Idle \/ SeedFits(seeding[s]))
      BY <1>8, <2>2 DEF UniversesInv
    <3> QED
      BY <1>2, <3>1 DEF SeedFits, ChangesFit, Y!Idle
  <2> QED
    BY <2>1, <2>2
<1>17. ASSUME NEW name \in STRING PROVE NamedOnce(name)'
  <2>1. Y!RowsOf(name)' = Y!RowsOf(name) /\ NamedOnce(name)
    BY <1>2 DEF Y!RowsOf, UniversesInv
  <2>2. Adding(name)' = Adding(name)
    <3>1. r \notin Adding(name)'
      BY <1>6, <1>8 DEF Adding
    <3>2. \A s \in Y!Busy : s \in Seeders /\ s # r /\ seeding'[s] = seeding[s]
      BY <1>8, <1>10, BusyFits
    <3> QED
      BY <1>10, <3>1, <3>2 DEF Adding
  <2>3. Cardinality(Y!RowsOf(name)) \in Nat /\ Cardinality(Adding(name)) \in Nat
    BY <1>11, NamesFinite
  <2>4. Cardinality(Y!RowsOf(name)) + Cardinality(Adding(name)) <= crowd
    BY <2>1 DEF NamedOnce
  <2>5. Cardinality(Y!RowsOf(name)) + Cardinality(Adding(name)) <= crowd'
    <3>1. PICK a, b : a = Cardinality(Y!RowsOf(name)) /\ b = Cardinality(Adding(name))
      OBVIOUS
    <3>2. a \in Nat /\ b \in Nat /\ a + b <= crowd
      BY <2>3, <2>4, <3>1
    <3>3. a + b <= crowd'
      BY <1>11, <1>15, <3>2
    <3> QED
      BY <3>1, <3>3
  <2> QED
    BY <2>1, <2>2, <2>5 DEF NamedOnce
<1>18. /\ listed' \in Seq(Row)
       /\ \A w \in DOMAIN listed' : Y!IsIn(listed'[w].name, Indices) => listed'[w].symbols # {}
  BY <1>2 DEF UniversesInv
<1> QED
  BY <1>8, <1>15, <1>16, <1>17, <1>18 DEF UniversesInv, Y!IsIn

\* A request ends, and what it was going to add with it.
LEMMA SeedLeaves ==
    ASSUME UniversesInv, NEW r \in Y!Busy, seeding' = [seeding EXCEPT ![r] = Y!Idle]
    PROVE  /\ Y!Busy' = Y!Busy \ {r} /\ Cardinality(Y!Busy)' <= Cardinality(Y!Busy)
           /\ seeding' = [s \in Seeders |-> seeding'[s]] /\ seeding'[r] = Y!Idle
           /\ \A s \in Seeders : s # r => seeding'[s] = seeding[s]
           /\ \A name :
                 /\ r \in Adding(name) => Cardinality(Adding(name)') = Cardinality(Adding(name)) - 1
                 /\ r \notin Adding(name) => Cardinality(Adding(name)') = Cardinality(Adding(name))
<1>1. r \in Seeders
  BY BusyFits
<1>2. /\ seeding' = [s \in Seeders |-> seeding'[s]] /\ seeding'[r] = Y!Idle
      /\ \A s \in Seeders : s # r => seeding'[s] = seeding[s]
  BY <1>1 DEF UniversesInv
<1>3. Y!Busy' = Y!Busy \ {r}
  BY <1>2 DEF Y!Busy, Y!Idle
<1>4. listed \in Seq(Row)
  BY DEF UniversesInv
<1>5. IsFiniteSet(Y!Busy) /\ Cardinality(Y!Busy) \in Nat
  BY <1>4, NamesFinite
<1>6. Cardinality(Y!Busy)' <= Cardinality(Y!Busy)
  <2>1. Cardinality(Y!Busy \ {r}) = Cardinality(Y!Busy) - 1
    BY <1>5, FS_RemoveElement
  <2> QED
    BY <1>3, <1>5, <2>1
<1>7. ASSUME NEW name
      PROVE  /\ r \in Adding(name) => Cardinality(Adding(name)') = Cardinality(Adding(name)) - 1
             /\ r \notin Adding(name) => Cardinality(Adding(name)') = Cardinality(Adding(name))
  <2>1. \A s \in Y!Busy \ {r} : s \in Seeders /\ seeding'[s] = seeding[s]
    BY <1>2, BusyFits
  <2>2. Adding(name)' = Adding(name) \ {r}
    BY <1>3, <2>1 DEF Adding
  <2>3. IsFiniteSet(Adding(name)) /\ Cardinality(Adding(name)) \in Nat
    BY <1>4, NamesFinite
  <2>4. Cardinality(Adding(name) \ {r}) =
            IF r \in Adding(name) THEN Cardinality(Adding(name)) - 1 ELSE Cardinality(Adding(name))
    BY <2>3, FS_RemoveElement
  <2> QED
    BY <2>2, <2>3, <2>4
<1> QED
  BY <1>2, <1>3, <1>6, <1>7

LEMMA SeedFails == ASSUME UniversesInv, NEW r \in Seeders, Y!Fail(r) PROVE UniversesInv'
<1>1. r \in Y!Busy /\ seeding' = [seeding EXCEPT ![r] = Y!Idle] /\ UNCHANGED <<listed, crowd>>
  BY DEF Y!Fail, Y!Becomes
<1>2. listed \in Seq(Row) /\ crowd \in Nat /\ Cardinality(Y!Busy) <= crowd
  BY DEF UniversesInv
<1>3. Cardinality(Y!Busy)' <= crowd'
  <2>1. Cardinality(Y!Busy)' <= Cardinality(Y!Busy) /\ Y!Busy' = Y!Busy \ {r}
    BY <1>1, SeedLeaves
  <2>2. Cardinality(Y!Busy) \in Nat /\ IsFiniteSet(Y!Busy)
    BY <1>2, NamesFinite
  <2>3. Cardinality(Y!Busy)' \in Nat
    BY <2>1, <2>2, FS_RemoveElement, FS_CardinalityType
  <2> QED
    BY <1>1, <1>2, <2>1, <2>2, <2>3
<1>4. /\ seeding' = [s \in Seeders |-> seeding'[s]] /\ seeding'[r] = Y!Idle
      /\ \A s \in Seeders : s # r => seeding'[s] = seeding[s]
  BY <1>1, SeedLeaves
<1>5. \A s \in Seeders : (seeding[s] = Y!Idle \/ SeedFits(seeding[s]))'
  BY <1>1, <1>4, ZenonT(60) DEF UniversesInv, SeedFits, ChangesFit, Y!Idle
<1>6. ASSUME NEW name \in STRING PROVE NamedOnce(name)'
  <2>1. Y!RowsOf(name)' = Y!RowsOf(name) /\ NamedOnce(name)
    BY <1>1 DEF Y!RowsOf, UniversesInv
  <2>2. \/ Cardinality(Adding(name)') = Cardinality(Adding(name)) - 1
        \/ Cardinality(Adding(name)') = Cardinality(Adding(name))
    BY <1>1, SeedLeaves
  <2>3. Cardinality(Y!RowsOf(name)) \in Nat /\ Cardinality(Adding(name)) \in Nat
    BY <1>2, NamesFinite
  <2>4. Cardinality(Y!RowsOf(name)) + Cardinality(Adding(name)) <= crowd
    BY <2>1 DEF NamedOnce
  <2>5. Cardinality(Y!RowsOf(name)) + Cardinality(Adding(name)') <= crowd
    <3>1. PICK a, b, c : /\ a = Cardinality(Y!RowsOf(name)) /\ b = Cardinality(Adding(name))
                         /\ c = Cardinality(Adding(name)')
      OBVIOUS
    <3>2. a \in Nat /\ b \in Nat /\ a + b <= crowd /\ (c = b - 1 \/ c = b)
      BY <2>2, <2>3, <2>4, <3>1
    <3>3. a + c <= crowd
      BY <1>2, <3>2
    <3> QED
      BY <3>1, <3>3
  <2> QED
    BY <1>1, <2>1, <2>5 DEF NamedOnce
<1>7. /\ listed' \in Seq(Row) /\ crowd' \in Nat
      /\ \A w \in DOMAIN listed' : Y!IsIn(listed'[w].name, Indices) => listed'[w].symbols # {}
  BY <1>1 DEF UniversesInv
<1> QED
  BY <1>3, <1>4, <1>5, <1>6, <1>7 DEF UniversesInv, Y!IsIn

\* Rows after a commit: those there were, some with other symbols, and the
\* request's own after them.
LEMMA CommitLists ==
    ASSUME UniversesInv, NEW r \in Seeders, Y!Commit(r), NEW q, q = seeding[r]
    PROVE  /\ listed' \in Seq(Row) /\ DOMAIN listed' = 1..(Len(listed) + Len(q.added))
           /\ \A w \in DOMAIN listed : w \in DOMAIN listed' /\ listed'[w].name = listed[w].name
           /\ \A i \in DOMAIN q.added : listed'[Len(listed) + i] = q.added[i]
           /\ \A w \in DOMAIN listed' :
                 \/ w \in DOMAIN listed
                 \/ \E i \in DOMAIN q.added : w = Len(listed) + i
           /\ \A w \in DOMAIN listed' :
                 Y!IsIn(listed'[w].name, Indices) => listed'[w].symbols # {}
<1>1. r \in Y!Busy /\ SeedFits(q)
  <2>1. r \in Y!Busy
    BY DEF Y!Commit
  <2> QED
    BY <2>1, BusyFits
<1>b. PICK then : then = [row \in DOMAIN listed |->
                             IF row \in DOMAIN q.changed
                             THEN [listed[row] EXCEPT !.symbols = q.changed[row]] ELSE listed[row]]
  OBVIOUS
<1>2. listed' = then \o q.added
  BY <1>b DEF Y!Commit
<1>3. /\ Len(listed) \in Nat /\ DOMAIN listed = 1..Len(listed) /\ listed \in Seq(Row)
      /\ \A w \in DOMAIN listed : listed[w] \in Row
  BY LenProperties, ElementOfSeq DEF UniversesInv
<1>4. /\ q.added \in Seq(Row) /\ Len(q.added) \in Nat /\ DOMAIN q.added = 1..Len(q.added)
  BY <1>1, LenProperties DEF SeedFits, Shaped
<1>5. ASSUME NEW w \in DOMAIN listed
      PROVE  then[w] \in Row /\ then[w].name = listed[w].name
             /\ (Y!IsIn(then[w].name, Indices) => then[w].symbols # {})
  <2>1. listed[w] \in Row /\ (Y!IsIn(listed[w].name, Indices) => listed[w].symbols # {})
    BY <1>3 DEF UniversesInv
  <2>2. CASE w \in DOMAIN q.changed
    <3>1. then[w] = [listed[w] EXCEPT !.symbols = q.changed[w]]
      BY <1>b, <2>2
    <3>2. q.changed[w] \in SUBSET Stocks /\ (Y!IsIn(listed[w].name, Indices) => q.changed[w] # {})
      BY <1>1, <2>2 DEF SeedFits, ChangesFit
    <3>3. then[w] = [name |-> listed[w].name, symbols |-> q.changed[w]]
      BY <2>1, <3>1 DEF Row
    <3>4. then[w].name = listed[w].name /\ then[w].symbols = q.changed[w]
      BY <3>3
    <3>5. then[w] \in Row
      BY <2>1, <3>2, <3>3 DEF Row
    <3> QED
      BY <3>2, <3>4, <3>5
  <2>3. CASE w \notin DOMAIN q.changed
    BY <1>b, <2>1, <2>3
  <2> QED
    BY <2>2, <2>3
<1>6. then \in [1..Len(listed) -> Row]
  BY <1>3, <1>5, <1>b
<1>7. then \in Seq(Row) /\ Len(then) = Len(listed)
  BY <1>3, <1>6, SeqDef
<1>8. /\ listed' \in Seq(Row) /\ Len(listed') = Len(listed) + Len(q.added)
      /\ \A i \in 1..Len(listed) + Len(q.added) :
            listed'[i] = IF i <= Len(listed) THEN then[i] ELSE q.added[i - Len(listed)]
  <2>1. PICK both : both = then \o q.added
    OBVIOUS
  <2>2. PICK add : add = q.added
    OBVIOUS
  <2>3. add \in Seq(Row) /\ then \in Seq(Row) /\ both = then \o add
    BY <1>4, <1>7, <2>1, <2>2
  <2>4. /\ both \in Seq(Row) /\ Len(both) = Len(then) + Len(add)
        /\ \A i \in 1..Len(then) + Len(add) :
              both[i] = IF i <= Len(then) THEN then[i] ELSE add[i - Len(then)]
    BY <2>3, ConcatProperties
  <2> QED
    BY <1>2, <1>7, <2>1, <2>2, <2>4
<1>9. DOMAIN listed' = 1..(Len(listed) + Len(q.added))
  BY <1>8, LenProperties
<1>10. \A w \in DOMAIN listed : w \in DOMAIN listed' /\ listed'[w] = then[w]
  BY <1>3, <1>4, <1>8, <1>9
<1>11. \A i \in DOMAIN q.added : Len(listed) + i \in DOMAIN listed' /\ listed'[Len(listed) + i] = q.added[i]
  BY <1>3, <1>4, <1>8, <1>9
<1>12. ASSUME NEW w \in DOMAIN listed', w \notin DOMAIN listed
       PROVE  \E i \in DOMAIN q.added : w = Len(listed) + i
  <2>1. w - Len(listed) \in DOMAIN q.added /\ w = Len(listed) + (w - Len(listed))
    BY <1>3, <1>4, <1>9, <1>12
  <2> QED
    BY <2>1
<1>13. \A i \in DOMAIN q.added : Y!IsIn(q.added[i].name, Indices) => q.added[i].symbols # {}
  BY <1>1 DEF SeedFits, NamesNew
<1>14. ASSUME NEW w \in DOMAIN listed'
       PROVE  Y!IsIn(listed'[w].name, Indices) => listed'[w].symbols # {}
  <2>1. CASE w \in DOMAIN listed
    BY <1>5, <1>10, <2>1
  <2>2. CASE w \notin DOMAIN listed
    BY <1>11, <1>12, <1>13, <2>2
  <2> QED
    BY <2>1, <2>2
<1>15. \A w \in DOMAIN listed : w \in DOMAIN listed' /\ listed'[w].name = listed[w].name
  BY <1>5, <1>10
<1> QED
  BY <1>8, <1>9, <1>11, <1>12, <1>14, <1>15

LEMMA SeedCommits == ASSUME UniversesInv, NEW r \in Seeders, Y!Commit(r) PROVE UniversesInv'
<1>a. PICK q : q = seeding[r]
  OBVIOUS
<1>1. r \in Y!Busy /\ seeding' = [seeding EXCEPT ![r] = Y!Idle] /\ UNCHANGED crowd
  BY DEF Y!Commit
<1>2. /\ listed' \in Seq(Row) /\ DOMAIN listed' = 1..(Len(listed) + Len(q.added))
      /\ \A w \in DOMAIN listed : w \in DOMAIN listed' /\ listed'[w].name = listed[w].name
      /\ \A i \in DOMAIN q.added : listed'[Len(listed) + i] = q.added[i]
      /\ \A w \in DOMAIN listed' :
            \/ w \in DOMAIN listed
            \/ \E i \in DOMAIN q.added : w = Len(listed) + i
      /\ \A w \in DOMAIN listed' : Y!IsIn(listed'[w].name, Indices) => listed'[w].symbols # {}
  BY <1>a, CommitLists
<1>3. SeedFits(q)
  BY <1>1, <1>a, BusyFits
<1>4. listed \in Seq(Row) /\ crowd \in Nat /\ Cardinality(Y!Busy) <= crowd
  BY DEF UniversesInv
<1>5. /\ seeding' = [s \in Seeders |-> seeding'[s]] /\ seeding'[r] = Y!Idle
      /\ \A s \in Seeders : s # r => seeding'[s] = seeding[s]
  BY <1>1, SeedLeaves
<1>6. Cardinality(Y!Busy)' <= crowd'
  <2>1. Cardinality(Y!Busy)' <= Cardinality(Y!Busy) /\ Y!Busy' = Y!Busy \ {r}
    BY <1>1, SeedLeaves
  <2>2. Cardinality(Y!Busy) \in Nat /\ IsFiniteSet(Y!Busy)
    BY <1>4, NamesFinite
  <2>3. Cardinality(Y!Busy)' \in Nat
    BY <2>1, <2>2, FS_RemoveElement, FS_CardinalityType
  <2> QED
    BY <1>1, <1>4, <2>1, <2>2, <2>3
<1>7. ASSUME NEW s \in Seeders PROVE (seeding[s] = Y!Idle \/ SeedFits(seeding[s]))'
  <2>1. CASE s = r
    BY <1>5, <2>1 DEF Y!Idle
  <2>2. CASE s # r
    <3>1. seeding'[s] = seeding[s] /\ (seeding[s] = Y!Idle \/ SeedFits(seeding[s]))
      BY <1>5, <2>2 DEF UniversesInv
    <3>2. CASE SeedFits(seeding[s])
      <4>1. ChangesFit(seeding[s])'
        BY <1>2, <3>1, <3>2 DEF SeedFits, ChangesFit, Y!IsIn
      <4> QED
        BY <3>1, <3>2, <4>1 DEF SeedFits, Shaped, NamesNew, Y!IsIn
    <3> QED
      BY <3>1, <3>2 DEF Y!Idle
  <2> QED
    BY <2>1, <2>2
<1>8. ASSUME NEW name \in STRING PROVE NamedOnce(name)'
  <2>1. Cardinality(Y!RowsOf(name)) + Cardinality(Adding(name)) <= crowd
    BY DEF NamedOnce, UniversesInv
  <2>2. /\ IsFiniteSet(Y!RowsOf(name)) /\ Cardinality(Y!RowsOf(name)) \in Nat
        /\ Cardinality(Adding(name)) \in Nat
    BY <1>4, NamesFinite
  <2>4. ASSUME NEW w \in Y!RowsOf(name)'
        PROVE  w \in Y!RowsOf(name) \/ \E i \in DOMAIN q.added : q.added[i].name = name /\ w = Len(listed) + i
    <3>1. w \in DOMAIN listed' /\ listed'[w].name = name
      BY <2>4 DEF Y!RowsOf
    <3>2. CASE w \in DOMAIN listed
      BY <1>2, <3>1, <3>2 DEF Y!RowsOf
    <3>3. CASE \E i \in DOMAIN q.added : w = Len(listed) + i
      BY <1>2, <3>1, <3>3
    <3> QED
      BY <1>2, <3>1, <3>2, <3>3
  <2>5. CASE r \in Adding(name)
    <3>1. PICK i \in DOMAIN q.added : q.added[i].name = name
      BY <1>a, <2>5 DEF Adding
    <3>2. \A j \in DOMAIN q.added : q.added[j].name = name => j = i
      BY <1>3, <3>1 DEF SeedFits, NamesNew
    <3>3. PICK x : x = Len(listed) + i
      OBVIOUS
    <3>4. Y!RowsOf(name)' \in SUBSET (Y!RowsOf(name) \cup {x})
      BY <2>4, <3>2, <3>3
    <3>5. /\ IsFiniteSet(Y!RowsOf(name) \cup {x})
          /\ \/ Cardinality(Y!RowsOf(name) \cup {x}) = Cardinality(Y!RowsOf(name))
             \/ Cardinality(Y!RowsOf(name) \cup {x}) = Cardinality(Y!RowsOf(name)) + 1
      BY <2>2, FS_AddElement
    <3>6. Cardinality(Y!RowsOf(name)') <= Cardinality(Y!RowsOf(name) \cup {x}) /\ IsFiniteSet(Y!RowsOf(name)')
      BY <3>4, <3>5, FS_Subset
    <3>7. Cardinality(Y!RowsOf(name)') \in Nat
      BY <3>6, FS_CardinalityType
    <3>8. Cardinality(Adding(name)') = Cardinality(Adding(name)) - 1
      BY <1>1, <2>5, SeedLeaves
    <3>9. Cardinality(Y!RowsOf(name)') + Cardinality(Adding(name)') <= crowd
      <4>1. PICK a, b, c, d : /\ a = Cardinality(Y!RowsOf(name)) /\ b = Cardinality(Adding(name))
                              /\ c = Cardinality(Y!RowsOf(name)') /\ d = Cardinality(Adding(name)')
        OBVIOUS
      <4>2. a \in Nat /\ b \in Nat /\ a + b <= crowd /\ d = b - 1 /\ c \in Nat /\ c <= a + 1
        BY <2>1, <2>2, <3>5, <3>6, <3>7, <3>8, <4>1
      <4>3. c + d <= crowd
        BY <1>4, <4>2
      <4> QED
        BY <4>1, <4>3
    <3> QED
      BY <1>1, <3>9 DEF NamedOnce
  <2>6. CASE r \notin Adding(name)
    <3>1. Y!RowsOf(name)' \in SUBSET Y!RowsOf(name)
      BY <1>1, <1>a, <2>4, <2>6 DEF Adding
    <3>2. Cardinality(Y!RowsOf(name)') <= Cardinality(Y!RowsOf(name)) /\ IsFiniteSet(Y!RowsOf(name)')
      BY <2>2, <3>1, FS_Subset
    <3>3. Cardinality(Y!RowsOf(name)') \in Nat
      BY <3>2, FS_CardinalityType
    <3>4. Cardinality(Adding(name)') = Cardinality(Adding(name))
      BY <1>1, <2>6, SeedLeaves
    <3>5. Cardinality(Y!RowsOf(name)') + Cardinality(Adding(name)') <= crowd
      <4>1. PICK a, b, c : /\ a = Cardinality(Y!RowsOf(name)) /\ b = Cardinality(Adding(name))
                           /\ c = Cardinality(Y!RowsOf(name)')
        OBVIOUS
      <4>2. a \in Nat /\ b \in Nat /\ a + b <= crowd /\ c \in Nat /\ c <= a
        BY <2>1, <2>2, <3>2, <3>3, <4>1
      <4>3. c + b <= crowd
        BY <1>4, <4>2
      <4> QED
        BY <3>4, <4>1, <4>3
    <3> QED
      BY <1>1, <3>5 DEF NamedOnce
  <2> QED
    BY <2>5, <2>6
<1>9. /\ listed' \in Seq(Row) /\ crowd' \in Nat
      /\ \A w \in DOMAIN listed' : Y!IsIn(listed'[w].name, Indices) => listed'[w].symbols # {}
  BY <1>1, <1>2, <1>4
<1> QED
  BY <1>5, <1>6, <1>7, <1>8, <1>9 DEF UniversesInv, Y!IsIn

LEMMA UniversesStay == ASSUME UniversesInv, UNCHANGED Y!vars PROVE UniversesInv'
<1>1. UNCHANGED <<listed, seeding, crowd>>
  BY DEF Y!vars
<1>2. Y!Busy' = Y!Busy /\ \A name : Y!RowsOf(name)' = Y!RowsOf(name) /\ Adding(name)' = Adding(name)
  BY <1>1 DEF Y!Busy, Y!RowsOf, Adding, Y!Idle
<1>3. \A name \in STRING : NamedOnce(name)'
  BY <1>1, <1>2 DEF UniversesInv, NamedOnce
<1>4. \A r \in Seeders : (seeding[r] = Y!Idle \/ SeedFits(seeding[r]))'
  BY <1>1 DEF UniversesInv, SeedFits, ChangesFit, Y!Idle
<1> QED
  BY <1>1, <1>2, <1>3, <1>4 DEF UniversesInv

\* However many requests seed and refresh at once, and whichever of them fail,
\* the rows of a name and the requests that are going to add it are together no
\* more than were ever under way.
THEOREM SeedsHold == Y!Spec => []UniversesInv
<1>1. ASSUME UniversesInv, Y!Next PROVE UniversesInv'
  <2>1. PICK r \in Seeders :
           Y!Begin(r) \/ Y!Add(r) \/ Y!Find(r) \/ Y!Change(r) \/ Y!PassOver(r) \/ Y!Commit(r) \/ Y!Fail(r)
    BY <1>1 DEF Y!Next
  <2>2. CASE Y!PassOver(r)
    BY <1>1, <2>2, PassingFits DEF Y!PassOver, Y!Looking
  <2> QED
    BY <1>1, <2>1, <2>2, SeedBegins, AddingFits, FindingFits, ChangingFits, SeedCommits, SeedFails
<1> QED
  BY <1>1, UniversesStay, UniversesBegin, PTL DEF Y!Spec

-----------------------------------------------------------------------------
(* Users' universes *)

\* The universes are rows, and those of strategies came with them.
OwnInv ==
    /\ universes = [id \in O!Ids |-> universes[id]]
    /\ \A id \in O!Ids : universes[id] = O!UniverseRow(universes[id].purpose, universes[id].symbols)
    /\ O!ComeWithStrategies

\* One more row.
LEMMA OneMoreUniverse ==
    ASSUME OwnInv, NEW id, NEW purpose, NEW symbols,
           universes' = O!With(id, O!UniverseRow(purpose, symbols)), paired \subseteq paired',
           purpose = "strategy" => id \in paired'
    PROVE  OwnInv'
<1>1. PICK row : row = O!UniverseRow(purpose, symbols)
  OBVIOUS
<1>2. row = O!UniverseRow(row.purpose, row.symbols) /\ row.purpose = purpose
  BY <1>1 DEF O!UniverseRow
<1>3. universes' = [i \in O!Ids \cup {id} |-> IF i = id THEN row ELSE universes[i]]
  BY <1>1 DEF O!With
<1>4. O!Ids' = O!Ids \cup {id} /\ universes' = [i \in O!Ids' |-> universes'[i]]
  BY <1>3 DEF O!Ids
<1>5. \A i \in O!Ids' : universes'[i] = IF i = id THEN row ELSE universes[i]
  BY <1>3, <1>4
<1>6. ASSUME NEW i \in O!Ids'
      PROVE  /\ universes'[i] = O!UniverseRow(universes'[i].purpose, universes'[i].symbols)
             /\ universes'[i].purpose = "strategy" => i \in paired'
  <2>1. CASE i = id
    BY <1>2, <1>5, <2>1
  <2>2. CASE i # id
    <3>1. i \in O!Ids /\ universes'[i] = universes[i]
      BY <1>4, <1>5, <2>2
    <3> QED
      BY <3>1 DEF OwnInv, O!ComeWithStrategies
  <2> QED
    BY <2>1, <2>2
<1> QED
  BY <1>4, <1>6 DEF OwnInv, O!ComeWithStrategies, O!UniverseRow

LEMMA OwnStep == ASSUME OwnInv, [O!Next]_O!vars PROVE OwnInv'
<1>1. CASE O!CreateUniverse
  <2>1. PICK symbols \in SUBSET Stocks : universes' = O!With(issued + 1, O!UniverseRow("itself", symbols))
    BY <1>1 DEF O!CreateUniverse
  <2>2. PICK id : id = issued + 1
    OBVIOUS
  <2> QED
    BY <1>1, <2>1, <2>2, OneMoreUniverse DEF O!CreateUniverse
<1>2. CASE \E u \in Askers : O!CommitStrategy(u)
  <2>1. PICK id : id = issued + 1
    OBVIOUS
  <2>2. universes' = O!With(id, O!UniverseRow("strategy", Stocks)) /\ paired' = paired \cup {id}
    BY <1>2, <2>1 DEF O!CommitStrategy
  <2> QED
    BY <2>2, OneMoreUniverse
<1>3. CASE O!UpdateUniverse
  <2>1. PICK id \in O!Ids, symbols \in SUBSET Stocks : universes' = [universes EXCEPT ![id].symbols = symbols]
    BY <1>3 DEF O!UpdateUniverse
  <2>2. PICK row : row = [universes[id] EXCEPT !.symbols = symbols]
    OBVIOUS
  <2>3. universes[id] = [purpose |-> universes[id].purpose, symbols |-> universes[id].symbols]
    BY DEF OwnInv, O!UniverseRow
  <2>4. row = [purpose |-> universes[id].purpose, symbols |-> symbols]
    BY <2>2, <2>3
  <2>5. row.purpose = universes[id].purpose /\ row.symbols = symbols
    BY <2>4
  <2>6. O!Ids' = O!Ids /\ universes' = [i \in O!Ids |-> IF i = id THEN row ELSE universes[i]]
    BY <2>1, <2>2 DEF O!Ids, OwnInv
  <2>7. paired' = paired
    BY <1>3 DEF O!UpdateUniverse
  <2>8. ASSUME NEW i \in O!Ids'
        PROVE  /\ universes'[i] = O!UniverseRow(universes'[i].purpose, universes'[i].symbols)
               /\ universes'[i].purpose = "strategy" => i \in paired'
    <3>1. universes'[i].purpose = universes[i].purpose
      BY <2>5, <2>6
    <3>2. universes'[i] = IF i = id THEN row ELSE universes[i]
      BY <2>6
    <3>3. universes'[i] = O!UniverseRow(universes'[i].purpose, universes'[i].symbols)
      BY <2>4, <2>5, <2>6, <3>2 DEF OwnInv, O!UniverseRow
    <3> QED
      BY <2>6, <2>7, <3>1, <3>3 DEF OwnInv, O!ComeWithStrategies
  <2> QED
    BY <2>6, <2>8 DEF OwnInv, O!ComeWithStrategies, O!UniverseRow
<1>4. CASE O!DeleteUniverse
  <2>1. PICK id \in O!Ids : universes' = [i \in O!Ids \ {id} |-> universes[i]]
    BY <1>4 DEF O!DeleteUniverse
  <2>2. O!Ids' = O!Ids \ {id} /\ paired' = paired
    BY <1>4, <2>1 DEF O!Ids, O!DeleteUniverse
  <2> QED
    BY <2>1, <2>2 DEF OwnInv, O!ComeWithStrategies, O!UniverseRow
<1>5. CASE UNCHANGED <<universes, paired>>
  BY <1>5 DEF OwnInv, O!Ids, O!ComeWithStrategies, O!UniverseRow
<1> QED
  BY <1>1, <1>2, <1>3, <1>4, <1>5
  DEF O!Next, O!vars, O!CreateStrategy, O!UpdateStrategy, O!DeleteStrategy, O!FlushUniverse, O!RaiseStrategy

THEOREM OwnHold == O!Spec => []OwnInv
<1>1. O!Init => OwnInv
  BY DEF O!Init, OwnInv, O!Ids, O!ComeWithStrategies
<1> QED
  BY <1>1, OwnStep, PTL DEF O!Spec

\* A name of the system's has one row, or as many as requests were ever under
\* way together, an index that has had symbols keeps some, and a universe that
\* was made for a strategy was committed with it (seed_predefined_universes,
\* create_or_update_dynamic_universe, create_strategy_from_screener).
THEOREM UniversesAlwaysKept == Y!Spec /\ O!Spec => []UniversesKept
<1>1. ASSUME UniversesInv PROVE Y!OneRowEach /\ Y!IndicesKeepSymbols
  <2>1. ASSUME NEW row \in DOMAIN listed
        PROVE  Y!Cardinality({other \in DOMAIN listed : listed[other].name = listed[row].name}) <= crowd
    <3>1. PICK name : name = listed[row].name
      OBVIOUS
    <3>2. listed \in Seq(Row) /\ crowd \in Nat /\ \A n \in STRING : NamedOnce(n)
      BY <1>1 DEF UniversesInv
    <3>3. name \in STRING
      <4>1. row \in 1..Len(listed)
        BY <2>1, <3>2, LenProperties
      <4>2. listed[row] \in Row
        BY <3>2, <4>1, ElementOfSeq
      <4> QED
        BY <3>1, <4>2 DEF Row
    <3>4. Cardinality(Y!RowsOf(name)) + Cardinality(Adding(name)) <= crowd
      BY <3>2, <3>3 DEF NamedOnce
    <3>5. Cardinality(Y!RowsOf(name)) \in Nat /\ Cardinality(Adding(name)) \in Nat
      BY <3>2, NamesFinite
    <3>6. Cardinality(Y!RowsOf(name)) <= crowd
      BY <3>2, <3>4, <3>5
    <3>7. {other \in DOMAIN listed : listed[other].name = listed[row].name} = Y!RowsOf(name)
      BY <3>1 DEF Y!RowsOf
    <3> QED
      BY <3>6, <3>7, SameCardinality
  <2> QED
    BY <1>1, <2>1 DEF UniversesInv, Y!OneRowEach, Y!IndicesKeepSymbols
<1>2. OwnInv => O!ComeWithStrategies
  BY DEF OwnInv
<1> QED
  BY <1>1, <1>2, SeedsHold, OwnHold, PTL DEF UniversesKept

-----------------------------------------------------------------------------
(* Sums of parts *)

\* Amounts in a row have partial sums, of which the last is their total.
LEMMA AmountsSum ==
    ASSUME NEW n \in Nat, NEW v \in [1..n -> Int]
    PROVE  /\ v \in Seq(Int) /\ Len(v) = n /\ P!Total(v) \in Int
           /\ \E s : PartialSums(v, s, n) /\ P!Total(v) = s[n]
           /\ \A s : PartialSums(v, s, n) => P!Total(v) = s[n]
<1>1. v \in Seq(Int) /\ Len(v) = n
  BY SeqDef
<1>2. P!Total(v) = Total(v)
  BY DEF P!Total, Total
<1>3. n \in 0..Len(v)
  BY <1>1
<1>4. \A s : PartialSums(v, s, n) => P!Total(v) = s[n]
  BY <1>1, <1>2, TotalIsLast
<1>5. \E s : PartialSums(v, s, n)
  BY <1>1, <1>3, SumsExist
<1>6. Total(v) \in Int
  BY <1>1, TotalFacts
<1> QED
  BY <1>1, <1>2, <1>4, <1>5, <1>6

\* Totals add up.
LEMMA TotalsAdd ==
    ASSUME NEW n \in Nat, NEW v \in [1..n -> Int], NEW w \in [1..n -> Int], NEW u \in [1..n -> Int],
           \A i \in 1..n : u[i] = v[i] + w[i]
    PROVE  P!Total(u) = P!Total(v) + P!Total(w)
<1>1. PICK a : PartialSums(v, a, n) /\ P!Total(v) = a[n]
  BY AmountsSum
<1>2. PICK b : PartialSums(w, b, n) /\ P!Total(w) = b[n]
  BY AmountsSum
<1>3. PICK c : c = [k \in 0..n |-> a[k] + b[k]]
  OBVIOUS
<1>4. c \in [0..n -> Int]
  BY <1>1, <1>2, <1>3 DEF PartialSums
<1>5. ASSUME NEW k \in 0..n PROVE c[k] = IF k = 0 THEN 0 ELSE c[k - 1] + u[k]
  <2>1. CASE k = 0
    BY <1>1, <1>2, <1>3, <2>1 DEF PartialSums
  <2>2. CASE k # 0
    <3>1. k \in 1..n /\ k - 1 \in 0..n
      BY <1>5, <2>2
    <3>2. a[k] = a[k - 1] + v[k] /\ b[k] = b[k - 1] + w[k]
      BY <1>1, <1>2, <2>2, <3>1 DEF PartialSums
    <3>3. a[k - 1] \in Int /\ b[k - 1] \in Int /\ v[k] \in Int /\ w[k] \in Int
      BY <1>1, <1>2, <3>1 DEF PartialSums
    <3>4. c[k] = a[k] + b[k] /\ c[k - 1] = a[k - 1] + b[k - 1] /\ u[k] = v[k] + w[k]
      BY <1>3, <1>5, <3>1
    <3>5. c[k] = c[k - 1] + u[k]
      BY <3>2, <3>3, <3>4, SMTT(60)
    <3> QED
      BY <2>2, <3>5
  <2> QED
    BY <2>1, <2>2
<1>6. PartialSums(u, c, n)
  BY <1>4, <1>5 DEF PartialSums
<1>7. P!Total(u) = c[n]
  BY <1>6, AmountsSum
<1>8. n \in 0..n
  OBVIOUS
<1> QED
  BY <1>1, <1>2, <1>3, <1>7, <1>8

\* Nothing adds up to nothing.
LEMMA TotalOfNothing ==
    ASSUME NEW n \in Nat, NEW v, v = [i \in 1..n |-> 0] PROVE P!Total(v) = 0
<1>1. v \in [1..n -> Int] /\ \A i \in 1..n : v[i] = v[i] + v[i]
  OBVIOUS
<1>2. P!Total(v) \in Int /\ P!Total(v) = P!Total(v) + P!Total(v)
  BY <1>1, AmountsSum, TotalsAdd
<1>3. PICK t : t = P!Total(v)
  OBVIOUS
<1>4. t \in Int /\ t = t + t
  BY <1>2, <1>3
<1> QED
  BY <1>3, <1>4

\* And one amount to itself.
LEMMA TotalOfOne ==
    ASSUME NEW n \in Nat, NEW j \in 1..n, NEW x \in Int, NEW v, v = [i \in 1..n |-> IF i = j THEN x ELSE 0]
    PROVE  P!Total(v) = x
<1>1. v \in [1..n -> Int]
  OBVIOUS
<1>2. PICK c : c = [k \in 0..n |-> IF k >= j THEN x ELSE 0]
  OBVIOUS
<1>3. PartialSums(v, c, n)
  <2>1. c \in [0..n -> Int]
    BY <1>2
  <2>2. ASSUME NEW k \in 0..n PROVE c[k] = IF k = 0 THEN 0 ELSE c[k - 1] + v[k]
    <3>1. CASE k = 0
      BY <1>2, <3>1
    <3>2. CASE k # 0
      <4>1. k \in 1..n /\ k - 1 \in 0..n /\ v[k] = IF k = j THEN x ELSE 0
        BY <2>2, <3>2
      <4>2. c[k] = (IF k >= j THEN x ELSE 0) /\ c[k - 1] = (IF k - 1 >= j THEN x ELSE 0)
        BY <1>2, <4>1
      <4>3. c[k] = c[k - 1] + v[k]
        BY <4>1, <4>2
      <4> QED
        BY <3>2, <4>3
    <3> QED
      BY <3>1, <3>2
  <2> QED
    BY <2>1, <2>2 DEF PartialSums
<1>4. P!Total(v) = c[n]
  BY <1>1, <1>3, AmountsSum
<1> QED
  BY <1>2, <1>4

\* The amounts of those groups alone.
Portion(v, g, those, n) == [i \in 1..n |-> IF g[i] \in those THEN v[i] ELSE 0]

LEMMA PartsAdd ==
    ASSUME NEW n \in Nat, NEW v \in [1..n -> Int], NEW g, NEW some, NEW others, some \cap others = {}
    PROVE  /\ Portion(v, g, some, n) \in [1..n -> Int] /\ P!Total(Portion(v, g, some, n)) \in Int
           /\ P!Total(Portion(v, g, some \cup others, n)) =
                 P!Total(Portion(v, g, some, n)) + P!Total(Portion(v, g, others, n))
<1> DEFINE a == Portion(v, g, some, n)
           b == Portion(v, g, others, n)
           c == Portion(v, g, some \cup others, n)
<1>1. a \in [1..n -> Int] /\ b \in [1..n -> Int] /\ c \in [1..n -> Int]
  BY DEF Portion
<1>2. \A i \in 1..n : c[i] = a[i] + b[i]
  <2>1. ASSUME NEW i \in 1..n PROVE c[i] = a[i] + b[i]
    <3>1. v[i] \in Int
      OBVIOUS
    <3>2. CASE g[i] \in some
      <4>1. g[i] \notin others
        BY <3>2
      <4>2. a[i] = v[i] /\ b[i] = 0 /\ c[i] = v[i]
        BY <3>2, <4>1 DEF Portion
      <4> QED
        BY <3>1, <4>2
    <3>3. CASE g[i] \in others
      <4>1. g[i] \notin some
        BY <3>3
      <4>2. a[i] = 0 /\ b[i] = v[i] /\ c[i] = v[i]
        BY <3>3, <4>1 DEF Portion
      <4> QED
        BY <3>1, <4>2
    <3>4. CASE g[i] \notin some \cup others
      BY <3>4 DEF Portion
    <3> QED
      BY <3>2, <3>3, <3>4
  <2> QED
    BY <2>1
<1> HIDE DEF a, b, c
<1>3. P!Total(c) = P!Total(a) + P!Total(b)
  BY <1>1, <1>2, TotalsAdd, ZenonT(60)
<1>4. P!Total(a) \in Int
  BY <1>1, AmountsSum
<1> QED
  BY <1>1, <1>3, <1>4 DEF a, b, c

\* Group by group or all at once, the total is the same.
GroupSums(v, g, those, n, m) ==
    [k \in 1..m |-> IF k \in those THEN P!Total(Portion(v, g, {k}, n)) ELSE 0]
LEMMA GroupsAdd ==
    ASSUME NEW n \in Nat, NEW v \in [1..n -> Int], NEW g, NEW m \in Nat, NEW those, those \subseteq 1..m
    PROVE  P!Total(GroupSums(v, g, those, n, m)) = P!Total(Portion(v, g, those, n))
<1>c. PICK sums :
         sums = [k \in 1..m |-> IF k \in those THEN P!Total(Portion(v, g, {k}, n)) ELSE 0]
  OBVIOUS
<1>1. \A k \in 1..m : P!Total(Portion(v, g, {k}, n)) \in Int
  <2>1. ASSUME NEW k \in 1..m PROVE P!Total(Portion(v, g, {k}, n)) \in Int
    <3>1. {k} \cap {} = {}
      OBVIOUS
    <3> QED
      BY <3>1, PartsAdd
  <2> QED
    BY <2>1
<1>2. sums \in [1..m -> Int]
  BY <1>1, <1>c
<1>3. PICK s : PartialSums(sums, s, m) /\ P!Total(sums) = s[m]
  BY <1>2, AmountsSum
<1>a. s[0] = 0 /\ \A k \in 0..m : s[k] \in Int
  <2>1. 0 \in 0..m
    OBVIOUS
  <2> QED
    BY <1>3, <2>1 DEF PartialSums
<1>b. ASSUME NEW k \in 0..m, k < m PROVE s[k + 1] = s[k] + sums[k + 1]
  <2>1. k + 1 \in 0..m /\ k + 1 # 0 /\ (k + 1) - 1 = k
    BY <1>b
  <2> QED
    BY <1>3, <2>1 DEF PartialSums
<1> DEFINE First(k) == those \cap 1..k
           Numbers == {k \in 0..m : s[k] = P!Total(Portion(v, g, First(k), n))}
<1>4. 0 \in Numbers
  <2>1. Portion(v, g, First(0), n) = [i \in 1..n |-> 0]
    BY DEF Portion
  <2>2. P!Total(Portion(v, g, First(0), n)) = 0
    BY <2>1, TotalOfNothing
  <2> QED
    BY <1>a, <2>2
<1>5. ASSUME NEW k \in 0..m, k \in Numbers, k < m PROVE k + 1 \in Numbers
  <2>1. k + 1 \in 1..m /\ k + 1 \in 0..m /\ k \in Nat
    BY <1>5
  <2>2. s[k + 1] = s[k] + sums[k + 1]
    BY <1>5, <1>b
  <2>3. s[k] = P!Total(Portion(v, g, First(k), n))
    BY <1>5
  <2>4. CASE k + 1 \in those
    <3>1. First(k + 1) = First(k) \cup {k + 1} /\ First(k) \cap {k + 1} = {}
      BY <2>1, <2>4
    <3>2. P!Total(Portion(v, g, First(k) \cup {k + 1}, n)) =
             P!Total(Portion(v, g, First(k), n)) + P!Total(Portion(v, g, {k + 1}, n))
      <4> HIDE DEF First
      <4> QED
        BY <3>1, PartsAdd
    <3>3. sums[k + 1] = P!Total(Portion(v, g, {k + 1}, n))
      BY <1>c, <2>1, <2>4
    <3> HIDE DEF First
    <3>4. s[k + 1] = P!Total(Portion(v, g, First(k + 1), n))
      BY <2>2, <2>3, <3>1, <3>2, <3>3
    <3> QED
      BY <2>1, <3>4
  <2>5. CASE k + 1 \notin those
    <3>1. First(k + 1) = First(k)
      BY <2>1, <2>5
    <3>2. sums[k + 1] = 0 /\ s[k] \in Int
      BY <1>a, <1>c, <1>5, <2>1, <2>5
    <3> HIDE DEF First
    <3>3. s[k + 1] = P!Total(Portion(v, g, First(k + 1), n))
      BY <2>2, <2>3, <3>1, <3>2
    <3> QED
      BY <2>1, <3>3
  <2> QED
    BY <2>4, <2>5
<1>6. Climbs(Numbers, m)
  <2> HIDE DEF Numbers
  <2> QED
    BY <1>4, <1>5 DEF Climbs
<1>7. m \in Numbers
  <2>1. m \in 0..m
    OBVIOUS
  <2> HIDE DEF Numbers
  <2> QED
    BY <1>6, <2>1, UpTo
<1>8. First(m) = those
  OBVIOUS
<1>9. s[m] = P!Total(Portion(v, g, First(m), n))
  BY <1>7
<1> QED
  <2> HIDE DEF First
  <2> QED
    BY <1>3, <1>8, <1>9, <1>c DEF GroupSums

-----------------------------------------------------------------------------
(* Reports *)

\* Rows of algo_positions, and what those of a strategy have earned.
Positions == [strategy : 0..NStrategies, symbol : Stocks \cup {"NONE"}, side : P!Sides,
              status : P!Statuses, entryQty : Int, remaining : Nat, exitQty : Int, entry : Int,
              realized : Int, dated : Int]
GainsOf(s) == [i \in 1..NRows |-> IF held[i].strategy = s THEN held[i].realized ELSE 0]

\* A row that was never sold of has earned nothing, every row is a strategy's
\* there is, and none was changed in the future.
HoldingFits(r) ==
    /\ r.status \in {"OPEN", "NONE"} => r.realized = 0
    /\ r = P!NoPosition \/ r.strategy \in live
    /\ r.dated <= today
GainsAgree == \A s \in 1..NStrategies : earned[s] = P!Total(GainsOf(s))

ProfitsInv ==
    /\ held \in [1..NRows -> Positions] /\ live \subseteq 1..NStrategies /\ today \in Nat
    /\ earned \in [1..NStrategies -> Int]
    /\ \A i \in 1..NRows : HoldingFits(held[i])
    /\ GainsAgree
    /\ reader # P!Idle => reader.those \subseteq 1..NStrategies

LEMMA EmptyRows ==
    /\ P!NoPosition \in Positions /\ P!NoPosition.strategy = 0 /\ P!NoPosition.realized = 0
    /\ P!NoPosition.status = "NONE" /\ P!NoPosition.dated = 0 /\ ~P!IsOpen(P!NoPosition)
BY Reports DEF Positions, P!NoPosition, P!Sides, P!Statuses, P!OpenStatuses, P!IsOpen

LEMMA GainsTyped ==
    ASSUME held \in [1..NRows -> Positions], NEW s
    PROVE  GainsOf(s) \in [1..NRows -> Int] /\ P!Total(GainsOf(s)) \in Int
<1>1. \A i \in 1..NRows : held[i].realized \in Int
  BY DEF Positions
<1>2. GainsOf(s) \in [1..NRows -> Int]
  BY <1>1 DEF GainsOf
<1> QED
  BY <1>2, Reports, AmountsSum

LEMMA ReportsBegin == ASSUME P!Init PROVE ProfitsInv
<1>1. /\ held = [i \in 1..NRows |-> P!NoPosition] /\ live = {} /\ today = 1
      /\ reader = P!Idle /\ earned = [s \in 1..NStrategies |-> 0]
  BY DEF P!Init
<1>2. \A i \in 1..NRows : HoldingFits(held[i])
  BY <1>1, EmptyRows DEF HoldingFits
<1>3. ASSUME NEW s \in 1..NStrategies PROVE earned[s] = P!Total(GainsOf(s))
  <2>1. GainsOf(s) = [i \in 1..NRows |-> 0]
    BY <1>1, EmptyRows DEF GainsOf
  <2>2. P!Total(GainsOf(s)) = 0
    BY <2>1, Reports, TotalOfNothing
  <2> QED
    BY <1>1, <2>2
<1>4. held \in [1..NRows -> Positions] /\ earned \in [1..NStrategies -> Int] /\ today \in Nat
  BY <1>1, EmptyRows
<1> QED
  BY <1>1, <1>2, <1>3, <1>4 DEF ProfitsInv, GainsAgree

\* When nobody earns, accounts stay.
LEMMA AccountsStay ==
    ASSUME ProfitsInv, UNCHANGED earned,
           \A i \in 1..NRows : \A s \in 1..NStrategies :
              (IF held'[i].strategy = s THEN held'[i].realized ELSE 0) =
              (IF held[i].strategy = s THEN held[i].realized ELSE 0)
    PROVE  GainsAgree'
<1>1. ASSUME NEW s \in 1..NStrategies PROVE earned'[s] = P!Total(GainsOf(s)')
  <2>1. GainsOf(s)' = GainsOf(s)
    BY DEF GainsOf
  <2> QED
    BY <2>1 DEF ProfitsInv, GainsAgree
<1> QED
  BY <1>1 DEF GainsAgree

\* When a strategy does, so does its account.
LEMMA AccountsGrow ==
    ASSUME ProfitsInv, NEW s \in 1..NStrategies, NEW gain \in [1..NRows -> Int],
           held' \in [1..NRows -> Positions],
           earned' = [earned EXCEPT ![s] = @ + P!Total(gain)],
           \A i \in 1..NRows : /\ held'[i].strategy = held[i].strategy
                               /\ held'[i].realized = held[i].realized + gain[i]
                               /\ held[i].strategy # s => gain[i] = 0
    PROVE  GainsAgree' /\ earned' \in [1..NStrategies -> Int]
<1>1. P!Total(gain) \in Int /\ earned \in [1..NStrategies -> Int] /\ held \in [1..NRows -> Positions]
  BY Reports, AmountsSum DEF ProfitsInv
<1>2. /\ earned'[s] = earned[s] + P!Total(gain) /\ earned' \in [1..NStrategies -> Int]
      /\ \A t \in 1..NStrategies : t # s => earned'[t] = earned[t]
  BY <1>1
<1>3. \A i \in 1..NRows : held[i].realized \in Int
  BY <1>1 DEF Positions
<1>4. ASSUME NEW t \in 1..NStrategies, t # s PROVE earned'[t] = P!Total(GainsOf(t)')
  <2>1. ASSUME NEW i \in 1..NRows
        PROVE  (IF held'[i].strategy = t THEN held'[i].realized ELSE 0) =
               (IF held[i].strategy = t THEN held[i].realized ELSE 0)
    <3>1. CASE held[i].strategy = t
      <4>1. gain[i] = 0 /\ held'[i].strategy = t
        BY <1>4, <3>1
      <4>2. held'[i].realized = held[i].realized
        BY <1>3, <4>1
      <4> QED
        BY <3>1, <4>1, <4>2
    <3>2. CASE held[i].strategy # t
      BY <3>2
    <3> QED
      BY <3>1, <3>2
  <2>2. GainsOf(t)' = GainsOf(t)
    BY <2>1 DEF GainsOf
  <2> QED
    BY <1>2, <1>4, <2>2 DEF ProfitsInv, GainsAgree
<1>5. earned'[s] = P!Total(GainsOf(s)')
  <2>1. PICK was : was = GainsOf(s)
    OBVIOUS
  <2>2. PICK is : is = GainsOf(s)'
    OBVIOUS
  <2>3. was \in [1..NRows -> Int] /\ is \in [1..NRows -> Int]
    <3>1. \A i \in 1..NRows : held'[i].realized \in Int
      BY DEF Positions
    <3> QED
      BY <1>3, <2>1, <2>2, <3>1 DEF GainsOf
  <2>4. ASSUME NEW i \in 1..NRows PROVE is[i] = was[i] + gain[i]
    <3>1. CASE held[i].strategy = s
      BY <2>1, <2>2, <3>1 DEF GainsOf
    <3>2. CASE held[i].strategy # s
      BY <2>1, <2>2, <3>2 DEF GainsOf
    <3> QED
      BY <3>1, <3>2
  <2>5. P!Total(is) = P!Total(was) + P!Total(gain)
    <3>1. NRows \in Nat /\ \A i \in 1..NRows : is[i] = was[i] + gain[i]
      BY <2>4, Reports
    <3> QED
      BY <2>3, <3>1, TotalsAdd
  <2>6. earned[s] = P!Total(was)
    BY <2>1 DEF ProfitsInv, GainsAgree
  <2> QED
    BY <1>2, <2>2, <2>5, <2>6
<1> QED
  BY <1>2, <1>4, <1>5 DEF GainsAgree

\* A row of which some is sold.
SoldRow(r, q, p, d) == [P!Reduced(r, q, p) EXCEPT !.dated = d]
LEMMA SellingFits ==
    ASSUME NEW r \in Positions, P!IsOpen(r), NEW q \in Nat, NEW p \in Int, NEW d \in Int,
           NEW n, n = SoldRow(r, q, p, d)
    PROVE  /\ n \in Positions /\ n.strategy = r.strategy /\ n.dated = d /\ n.status \notin {"OPEN", "NONE"}
           /\ P!Gain(r.side, r.entry, p) * P!LeastOf(q, r.remaining) \in Int
           /\ n.realized = r.realized + P!Gain(r.side, r.entry, p) * P!LeastOf(q, r.remaining)
<1>1. PICK c : c = P!LeastOf(q, r.remaining)
  OBVIOUS
<1>2. PICK g : g = P!Gain(r.side, r.entry, p)
  OBVIOUS
<1>3. /\ r.remaining \in Nat /\ r.entry \in Int /\ r.realized \in Int
      /\ r.exitQty \in Int /\ r.entryQty \in Int
  BY DEF Positions
<1>4. c \in Nat /\ r.remaining - c \in Nat
  BY <1>1, <1>3 DEF P!LeastOf
<1>5. g \in Int
  BY <1>2, <1>3 DEF P!Gain
<1>6. g * c \in Int
  BY <1>4, <1>5
<1>7. PICK left, more, state, out :
         /\ left = r.remaining - c /\ more = r.realized + g * c
         /\ state = (IF left <= 0 THEN "CLOSED" ELSE "PARTIAL")
         /\ out = IF left <= 0 THEN r.entryQty ELSE r.exitQty + c
  OBVIOUS
<1>8. n = [r EXCEPT !.remaining = left, !.realized = more, !.status = state, !.exitQty = out, !.dated = d]
  BY <1>1, <1>2, <1>7 DEF SoldRow, P!Reduced, Positions
<1>9. left \in Nat /\ more \in Int /\ state \in {"CLOSED", "PARTIAL"} /\ out \in Int
  <2>1. more \in Int
    BY <1>3, <1>6, <1>7
  <2>2. left \in Nat /\ out \in Int
    BY <1>3, <1>4, <1>7
  <2> QED
    BY <1>7, <2>1, <2>2
<1>10. /\ n \in Positions /\ n.strategy = r.strategy /\ n.dated = d /\ n.status = state /\ n.realized = more
  BY <1>8, <1>9 DEF Positions, P!Statuses, P!OpenStatuses
<1> QED
  BY <1>1, <1>2, <1>6, <1>7, <1>9, <1>10

\* A position that is opened, or that becomes more, earns nothing.
LEMMA OpeningFits == ASSUME ProfitsInv, P!OpenPosition PROVE ProfitsInv'
<1>1. PICK s \in live, symbol \in Stocks, side \in P!Sides, q \in Lots, p \in Tape, i \in 1..NRows :
         /\ held[i] = P!NoPosition
         /\ held' = [held EXCEPT ![i] = P!Position(s, symbol, side, q, p)]
         /\ UNCHANGED <<live, today, reader, earned>>
  BY DEF P!OpenPosition
<1>2. PICK new : new = P!Position(s, symbol, side, q, p)
  OBVIOUS
<1>3. /\ today \in Nat /\ live \subseteq 1..NStrategies /\ q \in Nat /\ p \in Nat
      /\ held \in [1..NRows -> Positions]
  BY Reports DEF ProfitsInv
<1>4. /\ new \in Positions /\ new.realized = 0 /\ new.strategy = s /\ new.dated = today
  BY <1>2, <1>3 DEF P!Position, Positions, P!Statuses, P!OpenStatuses
<1>5. /\ held' \in [1..NRows -> Positions] /\ held'[i] = new
      /\ \A j \in 1..NRows : j # i => held'[j] = held[j]
  BY <1>1, <1>2, <1>3, <1>4
<1>6. ASSUME NEW j \in 1..NRows PROVE HoldingFits(held[j])'
  <2>1. CASE j = i
    BY <1>1, <1>3, <1>4, <1>5, <2>1 DEF HoldingFits
  <2>2. CASE j # i
    <3>1. HoldingFits(held[j]) /\ held'[j] = held[j]
      BY <1>5, <2>2 DEF ProfitsInv
    <3> QED
      BY <1>1, <3>1 DEF HoldingFits, P!NoPosition
  <2> QED
    BY <2>1, <2>2
<1>7. GainsAgree'
  <2>1. ASSUME NEW j \in 1..NRows, NEW t \in 1..NStrategies
        PROVE  (IF held'[j].strategy = t THEN held'[j].realized ELSE 0) =
               (IF held[j].strategy = t THEN held[j].realized ELSE 0)
    BY <1>1, <1>4, <1>5, EmptyRows
  <2> QED
    BY <1>1, <2>1, AccountsStay
<1> QED
  BY <1>1, <1>5, <1>6, <1>7 DEF ProfitsInv, P!Idle

LEMMA EnlargingFits == ASSUME ProfitsInv, P!Enlarge PROVE ProfitsInv'
<1>1. PICK i \in 1..NRows, q \in Lots, p \in Tape :
         /\ P!IsOpen(held[i])
         /\ held' = [held EXCEPT ![i] =
                [held[i] EXCEPT !.entryQty = held[i].remaining + q, !.remaining = held[i].remaining + q,
                                !.dated = today,
                                !.entry = P!RoundDiv(held[i].entry * held[i].remaining + p * q,
                                                     held[i].remaining + q)]]
         /\ UNCHANGED <<live, today, reader, earned>>
  BY DEF P!Enlarge
<1>a. UNCHANGED <<live, today, reader, earned>>
  BY <1>1
<1>2. PICK r : r = held[i]
  OBVIOUS
<1>3. PICK qty : qty = r.remaining + q
  OBVIOUS
<1>4. PICK entering : entering = P!RoundDiv(r.entry * r.remaining + p * q, qty)
  OBVIOUS
<1>5. PICK new : new = [r EXCEPT !.entryQty = qty, !.remaining = qty, !.dated = today, !.entry = entering]
  OBVIOUS
<1>6. /\ today \in Nat /\ q \in Nat \ {0} /\ p \in Nat /\ held \in [1..NRows -> Positions]
      /\ HoldingFits(r) /\ P!IsOpen(r)
  BY <1>1, <1>2, Reports DEF ProfitsInv
<1>7. r \in Positions /\ r.remaining \in Nat /\ r.entry \in Int
  BY <1>2, <1>6 DEF Positions
<1>8. qty \in Nat \ {0}
  BY <1>3, <1>6, <1>7
<1>9. entering \in Int
  <2>1. PICK sum : sum = r.entry * r.remaining + p * q
    OBVIOUS
  <2>2. sum \in Int
    BY <1>6, <1>7, <2>1
  <2>3. 2 * sum + qty \in Int /\ 2 * qty \in Nat \ {0}
    BY <1>8, <2>2
  <2>4. (2 * sum + qty) \div (2 * qty) \in Int
    BY <2>3
  <2> QED
    BY <1>4, <2>1, <2>4 DEF P!RoundDiv
<1>10. /\ new \in Positions /\ new.realized = r.realized /\ new.strategy = r.strategy
       /\ new.dated = today /\ new.status = r.status
  <2>1. qty \in Nat /\ qty \in Int /\ today \in Int
    BY <1>6, <1>8
  <2> QED
    BY <1>5, <1>7, <1>9, <2>1 DEF Positions
<1>11. /\ held' \in [1..NRows -> Positions] /\ held'[i] = new
       /\ \A j \in 1..NRows : j # i => held'[j] = held[j]
  <2>1. held' = [held EXCEPT ![i] = new]
    BY <1>1, <1>2, <1>3, <1>4, <1>5
  <2> QED
    BY <1>6, <1>10, <2>1
<1>12. ASSUME NEW j \in 1..NRows PROVE HoldingFits(held[j])'
  <2>1. CASE j = i
    <3>1. r.strategy \in live
      BY <1>6, EmptyRows DEF HoldingFits
    <3> QED
      BY <1>a, <1>6, <1>10, <1>11, <2>1, <3>1 DEF HoldingFits
  <2>2. CASE j # i
    <3>1. HoldingFits(held[j]) /\ held'[j] = held[j]
      BY <1>11, <2>2 DEF ProfitsInv
    <3> QED
      BY <1>a, <3>1 DEF HoldingFits, P!NoPosition
  <2> QED
    BY <2>1, <2>2
<1>13. GainsAgree'
  <2>1. ASSUME NEW j \in 1..NRows, NEW t \in 1..NStrategies
        PROVE  (IF held'[j].strategy = t THEN held'[j].realized ELSE 0) =
               (IF held[j].strategy = t THEN held[j].realized ELSE 0)
    BY <1>2, <1>10, <1>11
  <2> QED
    BY <1>a, <2>1, AccountsStay
<1> QED
  BY <1>a, <1>11, <1>12, <1>13 DEF ProfitsInv, P!Idle

\* A row that only has its day changed.
LEMMA TouchingFits == ASSUME ProfitsInv, P!Touch PROVE ProfitsInv'
<1>1. PICK i \in 1..NRows : /\ P!IsOpen(held[i]) /\ held' = [held EXCEPT ![i].dated = today]
                            /\ UNCHANGED <<live, today, reader, earned>>
  BY DEF P!Touch
<1>a. UNCHANGED <<live, today, reader, earned>>
  BY <1>1
<1>2. PICK r, new : r = held[i] /\ new = [r EXCEPT !.dated = today]
  OBVIOUS
<1>3. today \in Nat /\ held \in [1..NRows -> Positions] /\ HoldingFits(r) /\ P!IsOpen(r) /\ r \in Positions
  BY <1>1, <1>2 DEF ProfitsInv
<1>4. /\ new \in Positions /\ new.realized = r.realized /\ new.strategy = r.strategy
      /\ new.dated = today /\ new.status = r.status
  BY <1>2, <1>3 DEF Positions
<1>5. /\ held' \in [1..NRows -> Positions] /\ held'[i] = new
      /\ \A j \in 1..NRows : j # i => held'[j] = held[j]
  BY <1>1, <1>2, <1>3, <1>4
<1>6. ASSUME NEW j \in 1..NRows PROVE HoldingFits(held[j])'
  <2>1. CASE j = i
    <3>1. r.strategy \in live
      BY <1>3, EmptyRows DEF HoldingFits
    <3> QED
      BY <1>a, <1>3, <1>4, <1>5, <2>1, <3>1 DEF HoldingFits
  <2>2. CASE j # i
    <3>1. HoldingFits(held[j]) /\ held'[j] = held[j]
      BY <1>5, <2>2 DEF ProfitsInv
    <3> QED
      BY <1>a, <3>1 DEF HoldingFits, P!NoPosition
  <2> QED
    BY <2>1, <2>2
<1>7. GainsAgree'
  <2>1. ASSUME NEW j \in 1..NRows, NEW t \in 1..NStrategies
        PROVE  (IF held'[j].strategy = t THEN held'[j].realized ELSE 0) =
               (IF held[j].strategy = t THEN held[j].realized ELSE 0)
    BY <1>2, <1>4, <1>5
  <2> QED
    BY <1>a, <2>1, AccountsStay
<1> QED
  BY <1>a, <1>5, <1>6, <1>7 DEF ProfitsInv, P!Idle

\* A strategy goes with its rows and its account.
LEMMA DeletingFits == ASSUME ProfitsInv, P!DeleteStrategy PROVE ProfitsInv'
<1>1. PICK s \in live :
         /\ live' = live \ {s}
         /\ held' = [i \in 1..NRows |-> IF held[i].strategy = s THEN P!NoPosition ELSE held[i]]
         /\ earned' = [earned EXCEPT ![s] = 0] /\ UNCHANGED <<today, reader>>
  BY DEF P!DeleteStrategy
<1>2. /\ held \in [1..NRows -> Positions] /\ live \subseteq 1..NStrategies /\ s \in 1..NStrategies
      /\ today \in Nat /\ earned \in [1..NStrategies -> Int]
  BY DEF ProfitsInv
<1>3. /\ held' \in [1..NRows -> Positions]
      /\ \A i \in 1..NRows : held'[i] = IF held[i].strategy = s THEN P!NoPosition ELSE held[i]
  BY <1>1, <1>2, EmptyRows
<1>4. ASSUME NEW i \in 1..NRows PROVE HoldingFits(held[i])'
  <2>1. CASE held[i].strategy = s
    <3>1. held'[i] = P!NoPosition /\ today' = today
      BY <1>1, <1>3, <2>1
    <3> QED
      BY <1>2, <3>1, EmptyRows DEF HoldingFits, P!NoPosition
  <2>2. CASE held[i].strategy # s
    <3>1. held'[i] = held[i] /\ HoldingFits(held[i])
      BY <1>3, <2>2 DEF ProfitsInv
    <3> QED
      BY <1>1, <2>2, <3>1 DEF HoldingFits, P!NoPosition
  <2> QED
    BY <2>1, <2>2
<1>5. ASSUME NEW t \in 1..NStrategies PROVE earned'[t] = P!Total(GainsOf(t)')
  <2>1. CASE t = s
    <3>1. ASSUME NEW i \in 1..NRows PROVE (IF held'[i].strategy = t THEN held'[i].realized ELSE 0) = 0
      <4>1. CASE held[i].strategy = s
        BY <1>3, <3>1, <4>1, EmptyRows
      <4>2. CASE held[i].strategy # s
        BY <1>3, <2>1, <3>1, <4>2
      <4> QED
        BY <4>1, <4>2
    <3>2. GainsOf(t)' = [i \in 1..NRows |-> 0]
      BY <3>1 DEF GainsOf
    <3>3. PICK v : v = GainsOf(t)'
      OBVIOUS
    <3>4. P!Total(v) = 0
      BY <3>2, <3>3, Reports, TotalOfNothing
    <3> QED
      BY <1>1, <1>2, <2>1, <3>3, <3>4
  <2>2. CASE t # s
    <3>1. ASSUME NEW i \in 1..NRows
          PROVE  (IF held'[i].strategy = t THEN held'[i].realized ELSE 0) =
                 (IF held[i].strategy = t THEN held[i].realized ELSE 0)
      <4>1. CASE held[i].strategy = s
        BY <1>3, <2>2, <3>1, <4>1, EmptyRows
      <4>2. CASE held[i].strategy # s
        BY <1>3, <3>1, <4>2
      <4> QED
        BY <4>1, <4>2
    <3>2. GainsOf(t)' = GainsOf(t)
      BY <3>1 DEF GainsOf
    <3> QED
      BY <1>1, <1>2, <2>2, <3>2 DEF ProfitsInv, GainsAgree
  <2> QED
    BY <2>1, <2>2
<1>6. earned' \in [1..NStrategies -> Int] /\ live' \subseteq 1..NStrategies
  BY <1>1, <1>2
<1> QED
  BY <1>1, <1>2, <1>3, <1>4, <1>5, <1>6 DEF ProfitsInv, GainsAgree, P!Idle

\* A row that is sold of, in part or whole.
LEMMA ExitingFits == ASSUME ProfitsInv, P!Exit PROVE ProfitsInv'
<1>1. PICK i \in 1..NRows, q \in Lots, p \in Tape :
         /\ P!IsOpen(held[i])
         /\ held' = [held EXCEPT ![i] = [P!Reduced(held[i], q, p) EXCEPT !.dated = today]]
         /\ earned' = [earned EXCEPT ![held[i].strategy] =
                           @ + P!Gain(held[i].side, held[i].entry, p) * P!LeastOf(q, held[i].remaining)]
         /\ UNCHANGED <<live, today, reader>>
  BY DEF P!Exit
<1>a. UNCHANGED <<live, today, reader>>
  BY <1>1
<1>2. PICK r : r = held[i]
  OBVIOUS
<1>3. PICK new : new = [P!Reduced(r, q, p) EXCEPT !.dated = today]
  OBVIOUS
<1>4. PICK x : x = P!Gain(r.side, r.entry, p) * P!LeastOf(q, r.remaining)
  OBVIOUS
<1>5. PICK s : s = r.strategy
  OBVIOUS
<1>6. /\ today \in Nat /\ q \in Nat /\ p \in Int /\ held \in [1..NRows -> Positions]
      /\ HoldingFits(r) /\ P!IsOpen(r) /\ r \in Positions /\ live \subseteq 1..NStrategies
  BY <1>1, <1>2, Reports DEF ProfitsInv
<1>7. /\ new \in Positions /\ new.strategy = s /\ new.dated = today /\ new.status \notin {"OPEN", "NONE"}
      /\ x \in Int /\ new.realized = r.realized + x
  <2>1. today \in Int /\ r \in Positions /\ P!IsOpen(r) /\ q \in Nat /\ p \in Int
    BY <1>6
  <2>2. /\ new \in Positions /\ new.strategy = r.strategy /\ new.dated = today
        /\ new.status \notin {"OPEN", "NONE"}
        /\ P!Gain(r.side, r.entry, p) * P!LeastOf(q, r.remaining) \in Int
        /\ new.realized = r.realized + P!Gain(r.side, r.entry, p) * P!LeastOf(q, r.remaining)
    <3>1. new = SoldRow(r, q, p, today)
      BY <1>3 DEF SoldRow
    <3> QED
      BY <2>1, <3>1, SellingFits
  <2> QED
    BY <1>4, <1>5, <2>2
<1>8. s \in live /\ s \in 1..NStrategies
  BY <1>5, <1>6, EmptyRows DEF HoldingFits
<1>9. /\ held' \in [1..NRows -> Positions] /\ held'[i] = new
      /\ \A j \in 1..NRows : j # i => held'[j] = held[j]
  <2>1. held' = [held EXCEPT ![i] = new]
    BY <1>1, <1>2, <1>3
  <2> QED
    BY <1>6, <1>7, <2>1
<1>10. ASSUME NEW j \in 1..NRows PROVE HoldingFits(held[j])'
  <2>1. CASE j = i
    BY <1>a, <1>6, <1>7, <1>8, <1>9, <2>1 DEF HoldingFits
  <2>2. CASE j # i
    <3>1. HoldingFits(held[j]) /\ held'[j] = held[j]
      BY <1>9, <2>2 DEF ProfitsInv
    <3> QED
      BY <1>a, <3>1 DEF HoldingFits, P!NoPosition
  <2> QED
    BY <2>1, <2>2
<1>11. PICK gain : gain = [j \in 1..NRows |-> IF j = i THEN x ELSE 0]
  OBVIOUS
<1>12. gain \in [1..NRows -> Int] /\ P!Total(gain) = x
  <2>1. NRows \in Nat
    BY Reports
  <2> QED
    BY <1>7, <1>11, <2>1, TotalOfOne
<1>13. earned' = [earned EXCEPT ![s] = @ + P!Total(gain)]
  BY <1>1, <1>2, <1>4, <1>5, <1>12
<1>14. ASSUME NEW j \in 1..NRows
       PROVE  /\ held'[j].strategy = held[j].strategy /\ held'[j].realized = held[j].realized + gain[j]
              /\ held[j].strategy # s => gain[j] = 0
  <2>1. CASE j = i
    BY <1>2, <1>5, <1>7, <1>9, <1>11, <2>1
  <2>2. CASE j # i
    <3>1. held'[j] = held[j] /\ gain[j] = 0 /\ held[j].realized \in Int
      BY <1>6, <1>9, <1>11, <2>2 DEF Positions
    <3> QED
      BY <3>1
  <2> QED
    BY <2>1, <2>2
<1>15. GainsAgree' /\ earned' \in [1..NStrategies -> Int]
  BY <1>8, <1>9, <1>12, <1>13, <1>14, AccountsGrow, ZenonT(60)
<1> QED
  BY <1>a, <1>6, <1>9, <1>10, <1>15 DEF ProfitsInv, P!Idle

\* All of a strategy's open rows are sold.
LEMMA SquaringFits == ASSUME ProfitsInv, P!SquareOff PROVE ProfitsInv'
<1>1. PICK s \in live, prices \in UNION {[had -> Tape] : had \in SUBSET Stocks} :
         LET out == {i \in 1..NRows : held[i].strategy = s /\ P!IsOpen(held[i])}
             after == [i \in 1..NRows |-> IF i \in out THEN P!SquaredOff(held[i], prices) ELSE held[i]]
             gain == [i \in 1..NRows |-> after[i].realized - held[i].realized]
         IN  /\ held' = after /\ earned' = [earned EXCEPT ![s] = @ + P!Total(gain)]
             /\ UNCHANGED <<live, today, reader>>
  BY DEF P!SquareOff
<1>2. PICK out : out = {i \in 1..NRows : held[i].strategy = s /\ P!IsOpen(held[i])}
  OBVIOUS
<1>3. /\ held' = [i \in 1..NRows |-> IF i \in out THEN P!SquaredOff(held[i], prices) ELSE held[i]]
      /\ UNCHANGED <<live, today, reader>>
  BY <1>1, <1>2
<1>a. UNCHANGED <<live, today, reader>>
  BY <1>3
<1>4. PICK gain : gain = [i \in 1..NRows |-> held'[i].realized - held[i].realized]
  OBVIOUS
<1>5. earned' = [earned EXCEPT ![s] = @ + P!Total(gain)]
  BY <1>1, <1>2, <1>4
<1>6. /\ held \in [1..NRows -> Positions] /\ today \in Nat /\ live \subseteq 1..NStrategies /\ s \in 1..NStrategies
  BY DEF ProfitsInv
<1>7. ASSUME NEW i \in out
      PROVE  /\ held'[i] \in Positions /\ held'[i].strategy = s /\ held'[i].dated = today
             /\ held'[i].status \notin {"OPEN", "NONE"} /\ held[i].strategy = s
             /\ held'[i].realized \in Int /\ held[i].realized \in Int
  <2>1. i \in 1..NRows /\ held[i].strategy = s /\ P!IsOpen(held[i]) /\ held[i] \in Positions
    BY <1>2, <1>6
  <2>2. PICK r : r = held[i]
    OBVIOUS
  <2>3. PICK p : p = IF r.symbol \in DOMAIN prices THEN prices[r.symbol] ELSE r.entry
    OBVIOUS
  <2>4. r.remaining \in Nat /\ r.entry \in Int /\ r.realized \in Int
    BY <2>1, <2>2 DEF Positions
  <2>5. p \in Int
    <3>1. CASE r.symbol \in DOMAIN prices
      <4>1. PICK had : prices \in [had -> Tape]
        OBVIOUS
      <4>2. prices[r.symbol] \in Tape
        BY <3>1, <4>1
      <4>3. Tape \subseteq Int
        BY Reports
      <4> QED
        BY <2>3, <3>1, <4>2, <4>3
    <3>2. CASE r.symbol \notin DOMAIN prices
      BY <2>3, <2>4, <3>2
    <3> QED
      BY <3>1, <3>2
  <2>6. PICK new : new = [P!Reduced(r, r.remaining, p) EXCEPT !.dated = today]
    OBVIOUS
  <2>7. held'[i] = new
    BY <1>3, <2>1, <2>2, <2>3, <2>6 DEF P!SquaredOff
  <2>8. /\ new \in Positions /\ new.strategy = r.strategy /\ new.dated = today
        /\ new.status \notin {"OPEN", "NONE"}
    <3>1. today \in Int /\ r \in Positions /\ P!IsOpen(r)
      BY <1>6, <2>1, <2>2
    <3>2. PICK q \in Nat : q = r.remaining
      BY <2>4
    <3>3. new = SoldRow(r, q, p, today)
      BY <2>6, <3>2 DEF SoldRow
    <3> QED
      BY <2>5, <3>1, <3>3, SellingFits
  <2>9. new.realized \in Int
    BY <2>8 DEF Positions
  <2> QED
    BY <2>1, <2>2, <2>4, <2>7, <2>8, <2>9
<1>8. ASSUME NEW i \in 1..NRows, i \notin out
      PROVE  held'[i] = held[i] /\ held[i] \in Positions /\ held[i].realized \in Int
  BY <1>3, <1>6, <1>8 DEF Positions
<1>9. held' \in [1..NRows -> Positions]
  BY <1>3, <1>7, <1>8
<1>10. ASSUME NEW i \in 1..NRows PROVE HoldingFits(held[i])'
  <2>1. CASE i \in out
    <3>1. /\ held'[i].strategy = s /\ held'[i].dated = today /\ held'[i].status \notin {"OPEN", "NONE"}
      BY <1>7, <2>1
    <3> QED
      BY <1>a, <1>6, <3>1 DEF HoldingFits
  <2>2. CASE i \notin out
    <3>1. HoldingFits(held[i]) /\ held'[i] = held[i]
      BY <1>8, <2>2 DEF ProfitsInv
    <3> QED
      BY <1>a, <3>1 DEF HoldingFits, P!NoPosition
  <2> QED
    BY <2>1, <2>2
<1>11. ASSUME NEW i \in 1..NRows
       PROVE  /\ held'[i].strategy = held[i].strategy /\ gain[i] \in Int
              /\ held'[i].realized = held[i].realized + gain[i]
              /\ held[i].strategy # s => gain[i] = 0
  <2>1. gain[i] = held'[i].realized - held[i].realized
    BY <1>4
  <2>2. CASE i \in out
    <3>1. held'[i].realized \in Int /\ held[i].realized \in Int /\ held[i].strategy = s /\ held'[i].strategy = s
      BY <1>7, <2>2
    <3> QED
      BY <2>1, <3>1
  <2>3. CASE i \notin out
    <3>1. held'[i] = held[i] /\ held[i].realized \in Int
      BY <1>8, <2>3
    <3> QED
      BY <2>1, <3>1
  <2> QED
    BY <2>2, <2>3
<1>12. gain \in [1..NRows -> Int]
  BY <1>4, <1>11
<1>13. GainsAgree' /\ earned' \in [1..NStrategies -> Int]
  BY <1>5, <1>6, <1>9, <1>11, <1>12, AccountsGrow, ZenonT(60)
<1> QED
  BY <1>a, <1>6, <1>9, <1>10, <1>13 DEF ProfitsInv, P!Idle

\* Rows and accounts stay, and no fewer strategies and no earlier day come.
LEMMA BooksStay ==
    ASSUME ProfitsInv, UNCHANGED <<held, earned>>, live \subseteq live', live' \subseteq 1..NStrategies,
           today' \in Nat, today <= today',
           (reader # P!Idle => reader.those \subseteq 1..NStrategies)'
    PROVE  ProfitsInv'
<1>1. ASSUME NEW i \in 1..NRows PROVE HoldingFits(held[i])'
  <2>1. HoldingFits(held[i]) /\ held[i].dated \in Int /\ today \in Nat
    BY DEF ProfitsInv, Positions
  <2>2. held[i].dated <= today'
    BY <2>1 DEF HoldingFits
  <2> QED
    BY <2>1, <2>2 DEF HoldingFits, P!NoPosition
<1>2. GainsAgree'
  <2>1. \A s : GainsOf(s)' = GainsOf(s)
    BY DEF GainsOf
  <2> QED
    BY <2>1 DEF ProfitsInv, GainsAgree
<1> QED
  BY <1>1, <1>2 DEF ProfitsInv

LEMMA BooksStep == ASSUME ProfitsInv, [P!Next]_P!vars PROVE ProfitsInv'
<1>1. CASE P!CreateStrategy
  BY <1>1, BooksStay DEF P!CreateStrategy, ProfitsInv, P!Idle
<1>2. CASE P!NextDay
  BY <1>2, BooksStay DEF P!NextDay, ProfitsInv, P!Idle
<1>3. CASE UNCHANGED <<held, live, today, earned>> /\ (reader # P!Idle => reader.those \subseteq 1..NStrategies)'
  BY <1>3, BooksStay DEF ProfitsInv
<1>4. CASE P!Ask
  <2>1. reader'.those = {}
    BY <1>4 DEF P!Ask
  <2> QED
    BY <1>3, <1>4, <2>1 DEF P!Ask
<1>5. CASE P!ListStrategies
  <2>1. PICK r : r = reader
    OBVIOUS
  <2>2. reader' = [r EXCEPT !.pc = "listed", !.those = live]
    BY <1>5, <2>1 DEF P!ListStrategies
  <2>3. reader'.those = live \/ reader'.those = r.those
    BY <2>2
  <2>4. r.those \subseteq 1..NStrategies /\ live \subseteq 1..NStrategies
    BY <1>5, <2>1 DEF P!ListStrategies, ProfitsInv
  <2> QED
    BY <1>3, <1>5, <2>3, <2>4 DEF P!ListStrategies
<1>6. CASE P!ListUnpriced \/ P!History \/ UNCHANGED P!vars
  BY <1>3, <1>6 DEF P!ListUnpriced, P!History, P!vars, ProfitsInv, P!Idle
<1>7. CASE P!AddUp \/ P!ByStrategy
  BY <1>3, <1>7 DEF P!AddUp, P!ByStrategy, P!Idle
<1> QED
  BY <1>1, <1>2, <1>4, <1>5, <1>6, <1>7, OpeningFits, EnlargingFits, ExitingFits, SquaringFits,
     TouchingFits, DeletingFits DEF P!Next, P!Trade

\* Gains, strategies and days of the rows.
RowGains == [i \in 1..NRows |-> held[i].realized]
RowStrategies == [i \in 1..NRows |-> held[i].strategy]

\* What counts as realized is what was earned.
LEMMA RealizedIsEarned ==
    ASSUME ProfitsInv
    PROVE  /\ RowGains \in [1..NRows -> Int]
           /\ \A i \in 1..NRows : P!RealizedOf(held[i]) = RowGains[i]
           /\ \A s : GainsOf(s) = Portion(RowGains, RowStrategies, {s}, NRows)
<1>1. ASSUME NEW i \in 1..NRows
      PROVE  held[i].realized \in Int /\ P!RealizedOf(held[i]) = held[i].realized
  <2>1. held[i] \in Positions /\ HoldingFits(held[i])
    BY DEF ProfitsInv
  <2>2. held[i].status \in {"OPEN", "PARTIAL", "CLOSED", "NONE"} /\ held[i].realized \in Int
    BY <2>1 DEF Positions, P!Statuses, P!OpenStatuses
  <2> QED
    BY <2>1, <2>2 DEF HoldingFits, P!RealizedOf, P!Realizes
<1>2. \A s : GainsOf(s) = Portion(RowGains, RowStrategies, {s}, NRows)
  BY DEF GainsOf, Portion, RowGains, RowStrategies
<1> QED
  BY <1>1, <1>2 DEF RowGains

\* What is owed to strategies is what their rows have earned.
LEMMA OwedByRows ==
    ASSUME ProfitsInv, NEW those, those \subseteq 1..NStrategies
    PROVE  P!Listing(those, earned) = P!Total(Portion(RowGains, RowStrategies, those, NRows))
<1>1. RowGains \in [1..NRows -> Int] /\ NRows \in Nat /\ NStrategies \in Nat
  BY RealizedIsEarned, Reports
<1>2. \A s \in 1..NStrategies : earned[s] = P!Total(Portion(RowGains, RowStrategies, {s}, NRows))
  BY RealizedIsEarned DEF ProfitsInv, GainsAgree
<1>3. PICK sums : sums = [s \in 1..NStrategies |-> IF s \in those THEN earned[s] ELSE 0]
  OBVIOUS
<1>4. PICK v, g : v = RowGains /\ g = RowStrategies
  OBVIOUS
<1>5. sums = GroupSums(v, g, those, NRows, NStrategies)
  BY <1>2, <1>3, <1>4 DEF GroupSums
<1>6. P!Total(sums) = P!Total(Portion(v, g, those, NRows))
  BY <1>1, <1>4, <1>5, GroupsAdd
<1> QED
  BY <1>3, <1>4, <1>6 DEF P!Listing

\* All rows are owed to the strategies there are.
LEMMA AllIsOwed == ASSUME ProfitsInv PROVE P!Realized = P!Listing(live, earned) /\ P!Realized = P!Total(RowGains)
<1>1. [i \in 1..NRows |-> P!RealizedOf(held[i])] = RowGains
  BY RealizedIsEarned DEF RowGains
<1>2. P!Realized = P!Total(RowGains)
  BY <1>1 DEF P!Realized
<1>3. ASSUME NEW i \in 1..NRows
      PROVE  RowGains[i] = IF RowStrategies[i] \in live THEN RowGains[i] ELSE 0
  <2>1. HoldingFits(held[i])
    BY DEF ProfitsInv
  <2>2. CASE held[i].strategy \in live
    BY <2>2 DEF RowStrategies
  <2>3. CASE held[i].strategy \notin live
    <3>1. held[i] = P!NoPosition
      BY <2>1, <2>3 DEF HoldingFits
    <3> QED
      BY <2>3, <3>1, EmptyRows DEF RowGains, RowStrategies
  <2> QED
    BY <2>2, <2>3
<1>4. RowGains = Portion(RowGains, RowStrategies, live, NRows)
  <2>1. RowGains = [i \in 1..NRows |-> RowGains[i]]
    BY DEF RowGains
  <2> QED
    BY <1>3, <2>1 DEF Portion
<1>5. live \subseteq 1..NStrategies
  BY DEF ProfitsInv
<1>6. P!Listing(live, earned) = P!Total(Portion(RowGains, RowStrategies, live, NRows))
  BY <1>5, OwedByRows
<1> QED
  BY <1>2, <1>4, <1>6

\* Strategy by strategy, gains are what is owed, and worths add up.
LEMMA StrategiesAddUp ==
    ASSUME ProfitsInv, NEW those, those \subseteq 1..NStrategies, NEW prices,
           NEW had, prices \in [had -> Tape]
    PROVE  /\ P!Listing(those, [s \in 1..NStrategies |-> P!RealizedBy(s)]) = P!Listing(those, earned)
           /\ P!Listing(those, [s \in 1..NStrategies |-> P!WorthBy(s, prices)]) =
                 P!Total([i \in 1..NRows |->
                    IF held[i].strategy \in those THEN P!WorthOf(held[i], prices) ELSE 0])
<1>1. ASSUME NEW s \in 1..NStrategies PROVE P!RealizedBy(s) = earned[s]
  <2>1. [i \in 1..NRows |-> IF held[i].strategy = s THEN P!RealizedOf(held[i]) ELSE 0] = GainsOf(s)
    <3>1. \A i \in 1..NRows : P!RealizedOf(held[i]) = held[i].realized
      BY RealizedIsEarned DEF RowGains
    <3> QED
      BY <3>1 DEF GainsOf
  <2> QED
    BY <2>1 DEF P!RealizedBy, ProfitsInv, GainsAgree
<1>2. P!Listing(those, [s \in 1..NStrategies |-> P!RealizedBy(s)]) = P!Listing(those, earned)
  <2>1. [s \in 1..NStrategies |-> IF s \in those THEN [t \in 1..NStrategies |-> P!RealizedBy(t)][s] ELSE 0] =
        [s \in 1..NStrategies |-> IF s \in those THEN earned[s] ELSE 0]
    BY <1>1
  <2> QED
    BY <2>1 DEF P!Listing
<1>3. PICK w : w = [i \in 1..NRows |-> P!WorthOf(held[i], prices)]
  OBVIOUS
<1>4. ASSUME NEW i \in 1..NRows PROVE P!WorthOf(held[i], prices) \in Int
  <2>1. PICK r : r = held[i]
    OBVIOUS
  <2>2. r \in Positions /\ r.remaining \in Nat /\ r.entry \in Int
    BY <2>1 DEF ProfitsInv, Positions
  <2>3. CASE r.symbol \in DOMAIN prices
    <3>1. prices[r.symbol] \in Int
      <4>1. prices[r.symbol] \in Tape /\ Tape \subseteq Int
        BY <2>3, Reports
      <4> QED
        BY <4>1
    <3>2. PICK p : p = prices[r.symbol]
      OBVIOUS
    <3>3. P!Gain(r.side, r.entry, p) \in Int
      BY <2>2, <3>1, <3>2 DEF P!Gain
    <3>4. P!Gain(r.side, r.entry, p) * r.remaining \in Int
      BY <2>2, <3>3
    <3> QED
      BY <2>1, <3>2, <3>4 DEF P!WorthOf
  <2>4. CASE r.symbol \notin DOMAIN prices
    BY <2>1, <2>4 DEF P!WorthOf
  <2> QED
    BY <2>3, <2>4
<1>5. w \in [1..NRows -> Int] /\ NRows \in Nat /\ NStrategies \in Nat
  BY <1>3, <1>4, Reports
<1>6. PICK g : g = RowStrategies
  OBVIOUS
<1>7. \A s : P!WorthBy(s, prices) = P!Total(Portion(w, g, {s}, NRows))
  <2>1. ASSUME NEW s
        PROVE  [i \in 1..NRows |-> IF held[i].strategy = s THEN P!WorthOf(held[i], prices) ELSE 0] =
               Portion(w, g, {s}, NRows)
    BY <1>3, <1>6 DEF Portion, RowStrategies
  <2> QED
    BY <2>1 DEF P!WorthBy
<1>8. [i \in 1..NRows |-> IF held[i].strategy \in those THEN P!WorthOf(held[i], prices) ELSE 0] =
      Portion(w, g, those, NRows)
  BY <1>3, <1>6 DEF Portion, RowStrategies
<1>9. PICK sums : sums = [s \in 1..NStrategies |->
                            IF s \in those THEN [t \in 1..NStrategies |-> P!WorthBy(t, prices)][s] ELSE 0]
  OBVIOUS
<1>10. sums = GroupSums(w, g, those, NRows, NStrategies)
  BY <1>7, <1>9 DEF GroupSums
<1>11. P!Total(sums) = P!Total(Portion(w, g, those, NRows))
  BY <1>5, <1>10, GroupsAdd
<1> QED
  BY <1>2, <1>8, <1>9, <1>11 DEF P!Listing

\* Day by day, with all that was before, the last day has everything.
LEMMA DaysAddUp ==
    ASSUME ProfitsInv, NEW span \in Nat \ {0} PROVE P!Cumulative(span) = P!Total(RowGains)
<1>1. PICK start : start = today - span + 1
  OBVIOUS
<1>2. today \in Nat /\ start \in Int /\ NRows \in Nat
  BY <1>1, Reports DEF ProfitsInv
<1>3. PICK v, d : v = RowGains /\ d = [i \in 1..NRows |-> held[i].dated - start + 1]
  OBVIOUS
<1>4. v \in [1..NRows -> Int] /\ \A i \in 1..NRows : v[i] = P!RealizedOf(held[i])
  BY <1>3, RealizedIsEarned
<1>5. ASSUME NEW i \in 1..NRows PROVE held[i].dated \in Int /\ d[i] \in Int /\ d[i] <= span
  <2>1. held[i].dated \in Int /\ held[i].dated <= today
    BY DEF ProfitsInv, Positions, HoldingFits
  <2> QED
    BY <1>1, <1>2, <1>3, <2>1
<1>6. ASSUME NEW k \in 1..span PROVE P!RealizedOn(start + k - 1) = P!Total(Portion(v, d, {k}, NRows))
  <2>1. \A i \in 1..NRows : held[i].dated = start + k - 1 <=> d[i] = k
    BY <1>2, <1>3, <1>5, <1>6
  <2>2. [i \in 1..NRows |-> IF held[i].dated = start + k - 1 THEN P!RealizedOf(held[i]) ELSE 0] =
        Portion(v, d, {k}, NRows)
    BY <1>4, <2>1 DEF Portion
  <2> QED
    BY <2>2 DEF P!RealizedOn
<1>7. PICK earlier : earlier = {k \in Int : k < 1}
  OBVIOUS
<1>8. P!RealizedBefore(start) = P!Total(Portion(v, d, earlier, NRows))
  <2>1. \A i \in 1..NRows : held[i].dated < start <=> d[i] \in earlier
    BY <1>2, <1>3, <1>5, <1>7
  <2>2. [i \in 1..NRows |-> IF P!Before(held[i].dated, start) THEN P!RealizedOf(held[i]) ELSE 0] =
        Portion(v, d, earlier, NRows)
    BY <1>4, <2>1 DEF Portion, P!Before
  <2> QED
    BY <2>2 DEF P!RealizedBefore
<1>9. PICK sums : sums = [k \in 1..span |-> P!RealizedOn(start + k - 1)]
  OBVIOUS
<1>10. P!Total(sums) = P!Total(Portion(v, d, 1..span, NRows))
  <2>1. sums = GroupSums(v, d, 1..span, NRows, span)
    BY <1>6, <1>9 DEF GroupSums
  <2>2. span \in Nat
    OBVIOUS
  <2> QED
    BY <1>2, <1>4, <2>1, <2>2, GroupsAdd
<1>11. earlier \cap (1..span) = {} /\ \A i \in 1..NRows : d[i] \in earlier \cup 1..span
  BY <1>5, <1>7
<1>12. v = Portion(v, d, earlier \cup 1..span, NRows)
  BY <1>4, <1>11 DEF Portion
<1>13. P!Total(Portion(v, d, earlier \cup 1..span, NRows)) =
          P!Total(Portion(v, d, earlier, NRows)) + P!Total(Portion(v, d, 1..span, NRows))
  <2>1. PICK spanned : spanned = 1..span
    OBVIOUS
  <2> QED
    BY <1>2, <1>4, <1>11, <2>1, PartsAdd, ZenonT(60)
<1>14. P!Cumulative(span) = P!RealizedBefore(start) + P!Total(sums)
  BY <1>1, <1>9 DEF P!Cumulative
<1> QED
  BY <1>3, <1>8, <1>10, <1>12, <1>13, <1>14

\* What a request answers accounts for everything.
LEMMA AnswersAccount ==
    ASSUME ProfitsInv, P!ReportsAccount, [P!Next]_P!vars PROVE P!ReportsAccount'
<1>1. CASE report' = P!NoAnswer
  <2>1. P!NoAnswer.realized = 0 /\ P!NoAnswer.unrealized = 0 /\ P!NoAnswer.due.realized = 0
        /\ P!NoAnswer.due.unrealized = 0
    BY DEF P!NoAnswer, P!Answer
  <2> QED
    BY <1>1, <2>1 DEF P!ReportsAccount
<1>2. ASSUME NEW a, NEW b, NEW c, NEW e, report' = P!Answer(a, b, [realized |-> c, unrealized |-> e]), a = c, b = e
      PROVE  P!ReportsAccount'
  BY <1>2 DEF P!ReportsAccount, P!Answer
<1>3. ASSUME NEW prices, report' = P!Added(prices) PROVE P!ReportsAccount'
  BY <1>2, <1>3, AllIsOwed DEF P!Added, P!Owed
<1>4. CASE P!ListUnpriced
  BY <1>3, <1>4 DEF P!ListUnpriced
<1>5. CASE P!AddUp
  <2>1. PICK prices : \/ report' = P!Added(prices)
                      \/ report' = P!Answer(0, P!Worth(prices), P!Owed({}, P!Worth(prices)))
    BY <1>5 DEF P!AddUp
  <2>2. CASE report' = P!Answer(0, P!Worth(prices), P!Owed({}, P!Worth(prices)))
    <3>1. [s \in 1..NStrategies |-> IF s \in {} THEN earned[s] ELSE 0] = [s \in 1..NStrategies |-> 0]
      OBVIOUS
    <3>2. P!Listing({}, earned) = 0
      BY <3>1, Reports, TotalOfNothing DEF P!Listing
    <3> QED
      BY <1>2, <2>2, <3>2 DEF P!Owed
  <2> QED
    BY <1>3, <2>1, <2>2
<1>6. CASE P!ByStrategy
  <2>1. PICK those : those = reader.those
    OBVIOUS
  <2>2. those \subseteq 1..NStrategies
    BY <1>6, <2>1 DEF P!ByStrategy, ProfitsInv
  <2>3. PICK prices \in P!Quoted(reader.symbols) :
           report' = P!Answer(P!Listing(those, [s \in 1..NStrategies |-> P!RealizedBy(s)]),
                              P!Listing(those, [s \in 1..NStrategies |-> P!WorthBy(s, prices)]),
                              P!Owed(those, P!Total([i \in 1..NRows |->
                                 IF held[i].strategy \in those THEN P!WorthOf(held[i], prices) ELSE 0])))
    BY <1>6, <2>1 DEF P!ByStrategy
  <2>4. PICK had : prices \in [had -> Tape]
    BY DEF P!Quoted
  <2>5. /\ P!Listing(those, [s \in 1..NStrategies |-> P!RealizedBy(s)]) = P!Listing(those, earned)
        /\ P!Listing(those, [s \in 1..NStrategies |-> P!WorthBy(s, prices)]) =
              P!Total([i \in 1..NRows |->
                 IF held[i].strategy \in those THEN P!WorthOf(held[i], prices) ELSE 0])
    BY <2>2, <2>4, StrategiesAddUp
  <2> QED
    BY <1>2, <2>3, <2>5 DEF P!Owed
<1>7. CASE P!History
  <2>1. PICK span \in Spans : report' = P!Answer(P!Cumulative(span), 0, P!Owed(live, 0))
    BY <1>7 DEF P!History
  <2>2. P!Cumulative(span) = P!Listing(live, earned)
    <3>1. span \in Nat \ {0}
      BY Reports
    <3> QED
      BY <3>1, DaysAddUp, AllIsOwed
  <2> QED
    BY <1>2, <2>1, <2>2 DEF P!Owed
<1>8. CASE UNCHANGED P!vars
  BY <1>8 DEF P!vars, P!ReportsAccount
<1> QED
  BY <1>1, <1>4, <1>5, <1>6, <1>7, <1>8 DEF P!Next, P!Ask, P!ListStrategies

\* Each strategy's account is what its rows have earned, whatever is opened,
\* enlarged, sold of, squared off and deleted.
THEOREM BooksHold == P!Spec => []ProfitsInv
BY ReportsBegin, BooksStep, PTL DEF P!Spec

\* Every report accounts for all gains of the strategies that it is about, for
\* any number of rows, and for however many days (get_pnl_summary,
\* get_pnl_by_strategy, get_pnl_history).
THEOREM ReportsAlwaysAccount == P!Spec => []ReportsAccount
<1>1. ASSUME P!Init PROVE P!ReportsAccount
  BY <1>1 DEF P!Init, P!ReportsAccount, P!NoAnswer, P!Answer
<1>2. P!Spec => []P!ReportsAccount
  BY <1>1, AnswersAccount, BooksHold, PTL DEF P!Spec
<1> QED
  BY <1>2, PTL DEF ReportsAccount
=============================================================================
