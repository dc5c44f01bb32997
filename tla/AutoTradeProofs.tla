---------------------------- MODULE AutoTradeProofs ----------------------------
(***************************************************************************)
(* What AutoTrade guarantees for any number of symbols, of trades in the   *)
(* queue and of requests that answer them together: a screener keeps one   *)
(* strategy, its lists orphan no position, and strategies are the user's   *)
(* to enable and to configure, unless requests overtake one another.       *)
(***************************************************************************)
EXTENDS AutoTrade, FiniteSetTheorems, TLAPS

\* Ids of strategies: of a trade, or past them all where that is taken.
Keys == 0..(2 * MaxTrades)

\* What an approval has read of the strategies it found.
HasRead(q) ==
    /\ q = [pc |-> "approving", trade |-> q.trade, was |-> q.was, open |-> q.open]
    /\ q.was \in [DOMAIN q.was -> Strategies]
    /\ q.open \in [DOMAIN q.was -> SUBSET Symbols]

\* What a request has in hand at each place.
Fits(q) ==
    \/ q = Idle
    \/ q.pc = "looking" /\ q = [pc |-> "looking", trade |-> q.trade]
    \/ /\ q.pc = "closing" /\ q = [pc |-> "closing", trade |-> q.trade, verdict |-> q.verdict]
       /\ q.verdict \in {"REJECTED", "EXPIRED"}
    \/ q.pc = "approving" /\ HasRead(q)

QueueTyped ==
    /\ screener \in [on : BOOLEAN, running : BOOLEAN, made : 0..MaxTrades]
    /\ screener.running => screener.made < MaxTrades
    /\ config \in Configs
    /\ trades \in [DOMAIN trades -> Trades] /\ DOMAIN trades \subseteq 1..screener.made

BookTyped ==
    /\ Made \subseteq Keys /\ strategies \in [Made -> Strategies]
    /\ held \in [Made -> SUBSET Symbols] /\ turn \in [Made -> Symbols \cup {NoTurn}]

RequestsTyped ==
    /\ request = [r \in Requests |-> request[r]]
    /\ \A r \in Requests : Fits(request[r])

HistoryTyped ==
    /\ overtaken \in BOOLEAN /\ edits \in 0..MaxEdits
    /\ byUser \in [enabled : SUBSET Keys, dropped : SUBSET (Keys \X Symbols)]

Typed == QueueTyped /\ BookTyped /\ RequestsTyped /\ HistoryTyped

\* Approvals that found no strategy, and are about to make one.
Creators == {r \in Requests : At(r, "approving") /\ request[r].was = [s \in {} |-> Idle]}

\* Strategies that are there, and that are about to be made.
Counted ==
    /\ ~overtaken => Cardinality(Made) <= 1
    /\ Cardinality(Made) + Cardinality(Creators) <= Cardinality(Requests)

IInv == Typed /\ Counted /\ PositionsCovered /\ OnlyUserEnables

-----------------------------------------------------------------------------
(* What a step leaves alone *)

\* An approval that found no strategy.
Creates(q) == q.pc = "approving" /\ q.was = [s \in {} |-> Idle]

\* Where requests keep to their types, a step of one adds at most itself to
\* those about to make a strategy, and takes itself off when it is not one.
LEMMA OneRequest ==
    ASSUME RequestsTyped, NEW r \in Requests, NEW q, Fits(q), Goto(r, q)
    PROVE  /\ RequestsTyped'
           /\ Creators' \subseteq Creators \cup {r}
           /\ ~Creates(q) => Creators' = Creators \ {r}
<1>1. request' = [p \in Requests |-> IF p = r THEN q ELSE request[p]]
  BY DEF RequestsTyped, Goto
<1>2. \A p \in Requests : request'[p] = IF p = r THEN q ELSE request[p]
  BY <1>1
<1>3. \A p \in Requests : Fits(request'[p])
  BY <1>2 DEF RequestsTyped
<1>4. Creators' = {p \in Requests : Creates(request'[p])}
  BY DEF Creators, Creates, At
<1>5. Creators = {p \in Requests : Creates(request[p])}
  BY DEF Creators, Creates, At
<1>6. RequestsTyped'
  BY <1>1, <1>3 DEF RequestsTyped
<1> QED
  BY <1>2, <1>4, <1>5, <1>6

\* The requests about to make a strategy can be counted.
LEMMA CreatorsFinite ==
    /\ IsFiniteSet(Creators) /\ IsFiniteSet(Requests)
    /\ Cardinality(Creators) \in Nat /\ Cardinality(Requests) \in Nat \ {0}
    /\ Cardinality(Creators) <= Cardinality(Requests)
<1>1. IsFiniteSet(Requests) /\ Requests # {}
  BY Served
<1>2. Creators \in SUBSET Requests
  BY DEF Creators
<1> QED
  BY <1>1, <1>2, FS_Subset, FS_CardinalityType, FS_EmptySet

\* One of them the less, where it was one, is one less.
LEMMA FewerCreators ==
    ASSUME NEW r, Creators' = Creators \ {r}
    PROVE  /\ Cardinality(Creators') \in Nat
           /\ Cardinality(Creators') =
                 IF r \in Creators THEN Cardinality(Creators) - 1 ELSE Cardinality(Creators)
<1>1. IsFiniteSet(Creators)
  BY CreatorsFinite
<1> HIDE DEF Creators
<1> QED
  BY <1>1, FS_RemoveElement, FS_CardinalityType

\* So can the strategies.
LEMMA MadeFinite == ASSUME BookTyped PROVE IsFiniteSet(Made) /\ Cardinality(Made) \in Nat
<1>1. Made \in SUBSET Keys
  BY DEF BookTyped
<1>2. IsFiniteSet(Keys)
  BY Bounds, FS_Interval DEF Keys
<1> QED
  BY <1>1, <1>2, FS_Subset, FS_CardinalityType

\* A step that leaves the strategies and history as they are, of which no more
\* requests are about to make one, keeps all but the types.
LEMMA BookKept ==
    ASSUME IInv, UNCHANGED <<book, byUser>>, overtaken => overtaken',
           Creators' \subseteq Creators
    PROVE  Counted' /\ PositionsCovered' /\ OnlyUserEnables'
<1>1. /\ strategies' = strategies /\ held' = held /\ turn' = turn
      /\ overtaken => overtaken' /\ byUser' = byUser
  BY DEF book
<1>2. Cardinality(Creators') <= Cardinality(Creators) /\ Cardinality(Creators') \in Nat
  <2>1. Creators' \in SUBSET Creators /\ IsFiniteSet(Creators)
    BY CreatorsFinite
  <2> HIDE DEF Creators
  <2> QED
    BY <2>1, FS_Subset, FS_CardinalityType
<1>3. Made' = Made
  BY <1>1 DEF Made
<1>4. Counted'
  <2>1. Cardinality(Made) \in Nat
    BY MadeFinite DEF IInv, Typed
  <2> QED
    BY <1>1, <1>2, <1>3, <2>1, CreatorsFinite DEF IInv, Counted
<1> QED
  BY <1>1, <1>3, <1>4 DEF IInv, PositionsCovered, OnlyUserEnables

\* The types of the parts are the types of the module.
LEMMA TypesFollow == Typed => TypeOK
BY DEF Typed, TypeOK, QueueTyped, BookTyped, HistoryTyped, Made

\* The first states satisfy the invariant.
LEMMA InitIInv == Init => IInv
<1> SUFFICES ASSUME Init PROVE IInv
  OBVIOUS
<1>1. Made = {} \/ Made = {0}
  BY DEF Init, Made
<1>2. QueueTyped
  BY Bounds DEF Init, QueueTyped, Configs, Trades
<1>3. BookTyped
  BY <1>1, Bounds DEF Init, BookTyped, Strategies, Made, Keys
<1>4. RequestsTyped
  BY DEF Init, RequestsTyped, Fits
<1>5. HistoryTyped
  <2>1. byUser = [enabled |-> Made, dropped |-> {}]
    BY DEF Init, Nobody
  <2> QED
    <3>1. 0 \in Keys /\ edits \in 0..MaxEdits
      BY Bounds DEF Keys, Init
    <3>2. overtaken \in BOOLEAN
      BY DEF Init
    <3>3. byUser \in [enabled : SUBSET Keys, dropped : SUBSET (Keys \X Symbols)]
      BY <1>1, <2>1, <3>1
    <3> QED
      BY <3>1, <3>2, <3>3 DEF HistoryTyped
<1>6. Creators = {}
  BY DEF Init, Creators, At, Idle
<1>7. Counted
  <2>1. Cardinality(Made) \in {0, 1} /\ Cardinality(Creators) = 0
    BY <1>1, <1>6, FS_EmptySet, FS_Singleton
  <2> QED
    BY <2>1, CreatorsFinite DEF Counted
<1>8. PositionsCovered /\ OnlyUserEnables
  BY DEF Init, PositionsCovered, OnlyUserEnables, Nobody
<1> QED
  BY <1>2, <1>3, <1>4, <1>5, <1>7, <1>8 DEF IInv, Typed

-----------------------------------------------------------------------------
(* The screener, the configuration, and requests until they write *)

\* What runs find and users configure touches the queue alone.
LEMMA QueueKeeps ==
    ASSUME IInv, StartRun \/ EndRun \/ LinkScreener \/ SetConfig
    PROVE  IInv'
<1>1. UNCHANGED <<book, request, history>> /\ edits' \in 0..MaxEdits
  BY Bounds DEF StartRun, EndRun, LinkScreener, SetConfig, Edit, IInv, Typed, HistoryTyped
<1>2. QueueTyped'
  <2>1. /\ screener = [on |-> screener.on, running |-> screener.running, made |-> screener.made]
        /\ screener.on \in BOOLEAN /\ screener.running \in BOOLEAN /\ screener.made \in 0..MaxTrades
        /\ screener.running => screener.made < MaxTrades
    BY DEF IInv, Typed, QueueTyped
  <2>2. /\ config \in Configs /\ trades \in [DOMAIN trades -> Trades]
        /\ DOMAIN trades \subseteq 1..screener.made
    BY DEF IInv, Typed, QueueTyped
  <2>3. CASE StartRun
    <3>1. screener' = [on |-> screener.on, running |-> TRUE, made |-> screener.made]
      BY <2>1, <2>3 DEF StartRun
    <3> QED
      BY <2>1, <2>2, <2>3, <3>1 DEF StartRun, QueueTyped
  <2>4. CASE EndRun
    <3>0. config' = config
      BY <2>4 DEF EndRun
    <3>1. CASE screener' = [screener EXCEPT !.running = FALSE] /\ UNCHANGED trades
      <4>1. screener' = [on |-> screener.on, running |-> FALSE, made |-> screener.made]
        BY <2>1, <3>1
      <4> QED
        BY <2>1, <2>2, <2>4, <3>1, <4>1, <3>0 DEF QueueTyped
    <3>2. ASSUME NEW symbols \in (SUBSET Symbols) \ {{}}, NEW t, t = screener.made + 1,
                 screener' = [screener EXCEPT !.running = FALSE, !.made = t],
                 trades' = [i \in DOMAIN trades \cup {t} |->
                                 IF i # t THEN trades[i]
                                 ELSE [status |-> "PENDING", symbols |-> symbols]]
          PROVE  QueueTyped'
      <4>1. screener' = [on |-> screener.on, running |-> FALSE, made |-> t]
        BY <2>1, <3>2
      <4>2. trades' \in [DOMAIN trades' -> Trades] /\ DOMAIN trades' = DOMAIN trades \cup {t}
        BY <2>2, <3>2 DEF Trades, Statuses
      <4>3. t \in 1..MaxTrades
        BY <2>1, <2>4, <3>2, Bounds DEF EndRun
      <4> QED
        <5>1. DOMAIN trades' \subseteq 1..t
          BY <2>1, <2>2, <3>2, <4>2
        <5>2. screener' \in [on : BOOLEAN, running : BOOLEAN, made : 0..MaxTrades]
          BY <2>1, <4>1, <4>3
        <5>3. screener'.made = t /\ ~screener'.running
          BY <4>1
        <5> QED
          BY <2>2, <3>0, <4>2, <5>1, <5>2, <5>3 DEF QueueTyped
    <3> QED
      BY <2>4, <3>1, <3>2 DEF EndRun
  <2>5. CASE LinkScreener
    <3>1. screener' = [on |-> ~screener.on, running |-> screener.running, made |-> screener.made]
      BY <2>1, <2>5 DEF LinkScreener
    <3> QED
      BY <2>1, <2>2, <2>5, <3>1 DEF LinkScreener, QueueTyped
  <2>6. CASE SetConfig
    BY <2>1, <2>2, <2>6 DEF SetConfig, QueueTyped
  <2> QED
    BY <2>3, <2>4, <2>5, <2>6
<1>3. BookTyped' /\ RequestsTyped' /\ HistoryTyped'
  BY <1>1 DEF IInv, Typed, BookTyped, RequestsTyped, HistoryTyped, book, history, Made
<1>4. Creators' = Creators
  BY <1>1 DEF Creators, At
<1> QED
  BY <1>1, <1>2, <1>3, <1>4, BookKept DEF IInv, Typed, history

\* A request at rest has nothing in hand.
LEMMA IdleFits == Fits(Idle) /\ ~Creates(Idle)
BY DEF Fits, Creates, Idle

\* A request that only reads, or fails, changes nothing but its own place, and
\* finds no strategy only where there is none.
LEMMA ReadingKeeps ==
    ASSUME IInv, NEW r \in Requests,
           \/ \E t \in DOMAIN trades : AskApproval(r, t) \/ AskVerdict(r, t)
           \/ Fail(r)
    PROVE  IInv'
<1>1. \E q : Goto(r, q) /\ Fits(q) /\ ~Creates(q)
  <2>1. ASSUME NEW t, AskApproval(r, t)
        PROVE  \E q : Goto(r, q) /\ Fits(q) /\ ~Creates(q)
    <3> WITNESS [pc |-> "looking", trade |-> t]
    <3> QED
      BY <2>1 DEF AskApproval, Fits, Creates
  <2>2. ASSUME NEW t, AskVerdict(r, t)
        PROVE  \E q : Goto(r, q) /\ Fits(q) /\ ~Creates(q)
    <3>1. PICK verdict \in {"REJECTED", "EXPIRED"} :
             Goto(r, [pc |-> "closing", trade |-> t, verdict |-> verdict])
      BY <2>2 DEF AskVerdict
    <3> WITNESS [pc |-> "closing", trade |-> t, verdict |-> verdict]
    <3> QED
      BY <3>1 DEF Fits, Creates
  <2>3. CASE Fail(r)
    BY <2>3, IdleFits DEF Fail
  <2> QED
    BY <2>1, <2>2, <2>3
<1>2. UNCHANGED <<queue, book, history>>
  BY DEF AskApproval, AskVerdict, Fail
<1>5. edits' \in 0..MaxEdits
  <2>1. edits' = edits \/ (edits < MaxEdits /\ edits' = edits + 1)
    BY DEF AskApproval, AskVerdict, Fail, Edit
  <2> QED
    BY <2>1, Bounds DEF IInv, Typed, HistoryTyped
<1>6. PICK q : Goto(r, q) /\ Fits(q) /\ ~Creates(q)
  BY <1>1
<1>3. QueueTyped' /\ BookTyped' /\ HistoryTyped'
  BY <1>2, <1>5 DEF IInv, Typed, QueueTyped, BookTyped, HistoryTyped, queue, book, history, Made
<1>4. RequestsTyped' /\ Creators' \subseteq Creators
  BY <1>6, OneRequest DEF IInv, Typed
<1> QED
  BY <1>2, <1>3, <1>4, BookKept DEF IInv, Typed, history

\* So does the answer that rejects a trade or lets it expire, but for the trade.
LEMMA CloseTradeKeeps == ASSUME IInv, NEW r \in Requests, CloseTrade(r) PROVE IInv'
<1>1. Goto(r, Idle) /\ request[r].pc = "closing" /\ UNCHANGED <<screener, config, book, byUser, edits>>
  BY DEF CloseTrade, At
<1>2. request[r].verdict \in Statuses
  <2>1. Fits(request[r])
    BY DEF IInv, Typed, RequestsTyped
  <2> QED
    BY <1>1, <2>1 DEF Fits, Idle, Statuses
<1>3. QueueTyped'
  <2>1. trades' \in [DOMAIN trades -> Trades]
    BY <1>2 DEF CloseTrade, IInv, Typed, QueueTyped, Trades
  <2>2. DOMAIN trades' = DOMAIN trades
    BY <2>1
  <2> QED
    BY <1>1, <2>1, <2>2 DEF IInv, Typed, QueueTyped
<1>4. (overtaken => overtaken') /\ overtaken' \in BOOLEAN
  BY DEF CloseTrade, IInv, Typed, HistoryTyped
<1>5. BookTyped' /\ HistoryTyped'
  BY <1>1, <1>4 DEF IInv, Typed, BookTyped, HistoryTyped, book, Made
<1>6. RequestsTyped' /\ Creators' \subseteq Creators
  BY <1>1, OneRequest, IdleFits DEF IInv, Typed
<1> QED
  BY <1>1, <1>3, <1>4, <1>5, <1>6, BookKept DEF IInv, Typed

\* An approval finds no strategy only where there is none.
LEMMA LookKeeps == ASSUME IInv, NEW r \in Requests, Look(r) PROVE IInv'
<1> DEFINE q == IF Cardinality(Found) > 1 THEN Idle
                ELSE [pc |-> "approving", trade |-> request[r].trade,
                      was |-> [s \in Found |-> strategies[s]],
                      open |-> [s \in Found |-> held[s]]]
<1>1. Goto(r, q) /\ UNCHANGED <<queue, book, history, edits>>
  BY DEF Look
<1>2. QueueTyped' /\ BookTyped' /\ HistoryTyped'
  BY <1>1 DEF IInv, Typed, QueueTyped, BookTyped, HistoryTyped, queue, book, history, Made
<1>3. Fits(q)
  <2>1. CASE Cardinality(Found) > 1
    BY <2>1, IdleFits
  <2>2. CASE ~(Cardinality(Found) > 1)
    BY <2>2 DEF Fits, HasRead, Found, IInv, Typed, BookTyped
  <2> QED
    BY <2>1, <2>2
<1>4. Creates(q) => Made = {}
  BY DEF Creates, Found, Idle
<1> HIDE DEF q
<1>5. /\ RequestsTyped' /\ Creators' \subseteq Creators \cup {r}
      /\ ~Creates(q) => Creators' = Creators \ {r}
  BY <1>1, <1>3, OneRequest DEF IInv, Typed
<1>6. CASE ~Creates(q)
  BY <1>1, <1>2, <1>5, <1>6, BookKept DEF IInv, Typed, history
<1>7. CASE Creates(q)
  <2>1. Made' = {} /\ overtaken' = overtaken
    BY <1>1, <1>4, <1>7 DEF Made, book, history
  <2>2. Cardinality(Creators') <= Cardinality(Requests) /\ Cardinality(Creators') \in Nat
    <3>1. Creators' \in SUBSET Requests /\ IsFiniteSet(Requests)
      BY CreatorsFinite DEF Creators
    <3> HIDE DEF Creators
    <3> QED
      BY <3>1, FS_Subset, FS_CardinalityType
  <2>3. Cardinality(Made') = 0
    BY <2>1, FS_EmptySet
  <2>4. Counted'
    BY <2>2, <2>3, CreatorsFinite DEF Counted
  <2>5. PositionsCovered' /\ OnlyUserEnables'
    BY <2>1 DEF PositionsCovered, OnlyUserEnables
  <2> QED
    BY <1>2, <1>5, <2>4, <2>5 DEF IInv, Typed
<1> QED
  BY <1>6, <1>7

-----------------------------------------------------------------------------
(* Approvals that write *)

\* What an approval has read of a strategy it found is what it is now, unless
\* the approval is overtaken; and what it writes fits.
LEMMA UpdateKeeps ==
    ASSUME IInv, NEW r \in Requests, Approve(r), request[r].was # [s \in {} |-> Idle]
    PROVE  IInv'
<1> DEFINE read == request[r]
           symbols == trades[read.trade].symbols
<1>1. /\ At(r, "approving") /\ Goto(r, Idle) /\ read.trade \in DOMAIN trades
      /\ DOMAIN read.was \subseteq Made
      /\ trades' = [trades EXCEPT ![read.trade].status = "APPROVED"]
      /\ overtaken' = (overtaken \/ Overtaken(read))
      /\ UNCHANGED <<screener, config, byUser, edits, held, turn>>
  BY DEF Approve
<1>2. PICK s \in DOMAIN read.was : Update(s, read, symbols)
  BY DEF Approve
<1>3. HasRead(read)
  <2>1. Fits(read) /\ read.pc = "approving"
    BY <1>1 DEF IInv, Typed, RequestsTyped, At
  <2> QED
    BY <2>1 DEF Fits, Idle
<1>4. s \in Made /\ read.was[s] \in Strategies /\ symbols \in SUBSET Symbols
  BY <1>1, <1>2, <1>3 DEF HasRead, IInv, Typed, QueueTyped, Trades
<1>5. strategies \in [Made -> Strategies] /\ strategies[s] \in Strategies
  BY <1>4 DEF IInv, Typed, BookTyped
<1> DEFINE exits == ExitOnly(read.was[s], symbols, read.open[s])
           settled == Settled(read.was[s], strategies[s].settings)
           n == [status |-> strategies[s].status, symbols |-> symbols, exitOnly |-> exits,
                 synced |-> strategies[s].synced, settings |-> settled]
<1>7. strategies' = [strategies EXCEPT ![s] = n]
  BY <1>2 DEF Update
<1>20. exits \in SUBSET Symbols /\ settled \in {"user", "config"}
  BY <1>3, <1>4, <1>5 DEF HasRead, ExitOnly, Settled, Strategies
<1>21. n \in Strategies /\ n.symbols = symbols /\ n.exitOnly = exits
  <2> HIDE DEF exits, settled, symbols, read
  <2> QED
    BY <1>4, <1>5, <1>20 DEF Strategies
<1>8. n.status = strategies[s].status /\ exits = ExitOnly(read.was[s], symbols, read.open[s])
  OBVIOUS
<1> HIDE DEF n, read, symbols, exits, settled
<1>9. Made' = Made /\ \A i \in Made : strategies'[i] = IF i = s THEN n ELSE strategies[i]
  BY <1>5, <1>7 DEF Made
<1>10. QueueTyped'
  <2>1. trades' \in [DOMAIN trades -> Trades]
    BY <1>1 DEF IInv, Typed, QueueTyped, Trades, Statuses
  <2>2. DOMAIN trades' = DOMAIN trades
    BY <2>1
  <2> QED
    BY <1>1, <2>1, <2>2 DEF IInv, Typed, QueueTyped
<1>11. BookTyped'
  BY <1>1, <1>4, <1>5, <1>7, <1>9, <1>21 DEF IInv, Typed, BookTyped
<1>12. (overtaken => overtaken') /\ overtaken' \in BOOLEAN
  BY <1>1 DEF IInv, Typed, HistoryTyped, Overtaken
<1>13. HistoryTyped'
  BY <1>1, <1>12 DEF IInv, Typed, HistoryTyped
<1>14. RequestsTyped' /\ Creators' = Creators \ {r}
  BY <1>1, OneRequest, IdleFits DEF IInv, Typed
<1>15. Counted'
  <2>1. Cardinality(Creators') <= Cardinality(Creators) /\ Cardinality(Creators') \in Nat
    <3>1. /\ Cardinality(Creators') \in Nat
          /\ Cardinality(Creators') =
                IF r \in Creators THEN Cardinality(Creators) - 1 ELSE Cardinality(Creators)
      BY <1>14, FewerCreators
    <3>2. Cardinality(Creators) \in Nat
      BY CreatorsFinite
    <3> HIDE DEF Creators
    <3> QED
      BY <3>1, <3>2
  <2>2. Cardinality(Made) \in Nat
    BY MadeFinite DEF IInv, Typed
  <2> QED
    BY <1>9, <1>12, <2>1, <2>2, CreatorsFinite DEF IInv, Counted
<1>16. PositionsCovered'
  <2> SUFFICES ASSUME ~overtaken', NEW i \in Made, NEW x \in held[i]
               PROVE  \/ x \in strategies'[i].symbols \cup strategies'[i].exitOnly
                      \/ <<i, x>> \in byUser.dropped
    BY <1>1, <1>9 DEF PositionsCovered
  <2>1. ~overtaken /\ ~Overtaken(read)
    BY <1>1
  <2>2. read.was[s] = strategies[s] /\ read.open[s] = held[s]
    BY <1>4, <2>1 DEF Overtaken
  <2>3. \/ x \in strategies[i].symbols \cup strategies[i].exitOnly
        \/ <<i, x>> \in byUser.dropped
    BY <2>1 DEF IInv, PositionsCovered
  <2>4. CASE i = s
    <3>1. strategies'[i].symbols = symbols
          /\ strategies'[i].exitOnly = ExitOnly(strategies[s], symbols, held[s])
      BY <1>8, <1>9, <1>21, <2>2, <2>4
    <3> QED
      BY <2>3, <2>4, <3>1 DEF ExitOnly
  <2>5. CASE i # s
    BY <1>9, <2>3, <2>5
  <2> QED
    BY <2>4, <2>5
<1>17. OnlyUserEnables'
  <2>1. \A i \in Made : strategies'[i].status = strategies[i].status
    BY <1>8, <1>9
  <2> QED
    BY <1>1, <1>9, <2>1 DEF IInv, OnlyUserEnables
<1> QED
  BY <1>10, <1>11, <1>13, <1>14, <1>15, <1>16, <1>17 DEF IInv, Typed

\* An approval that found none makes one; where one was made meanwhile the
\* approval is overtaken, and those that may still do so are one less.
LEMMA CreateKeeps ==
    ASSUME IInv, NEW r \in Requests, Approve(r), request[r].was = [s \in {} |-> Idle]
    PROVE  IInv'
<1> DEFINE read == request[r]
           t == read.trade
           s == IF t \in Made THEN MaxTrades + t ELSE t
           fresh == New(trades[t].symbols)
<1>1. /\ At(r, "approving") /\ Goto(r, Idle) /\ t \in DOMAIN trades
      /\ trades' = [trades EXCEPT ![t].status = "APPROVED"]
      /\ overtaken' = (overtaken \/ Overtaken(read))
      /\ UNCHANGED <<screener, config, byUser, edits>>
      /\ Create(s, trades[t].symbols)
  BY DEF Approve
<1>2. /\ strategies' = [i \in Made \cup {s} |-> IF i = s THEN fresh ELSE strategies[i]]
      /\ held' = [i \in Made \cup {s} |-> IF i = s THEN {} ELSE held[i]]
      /\ turn' = [i \in Made \cup {s} |-> IF i = s THEN NoTurn ELSE turn[i]]
  BY <1>1 DEF Create
<1>3. trades[t].symbols \in SUBSET Symbols /\ t \in 1..MaxTrades
  <2>1. trades[t] \in Trades /\ t \in 1..screener.made /\ screener.made \in 0..MaxTrades
    BY <1>1 DEF IInv, Typed, QueueTyped
  <2> QED
    BY <2>1, Bounds DEF Trades
<1>4. s \in Keys
  BY <1>3, Bounds DEF Keys
<1>5. fresh \in Strategies /\ fresh.status = "DISABLED"
  BY <1>3 DEF New, Strategies
<1>6. Made' = Made \cup {s}
  BY <1>2 DEF Made
<1> HIDE DEF fresh, s, read, t
<1>7. QueueTyped'
  <2>1. trades' \in [DOMAIN trades -> Trades]
    BY <1>1 DEF IInv, Typed, QueueTyped, Trades, Statuses
  <2>2. DOMAIN trades' = DOMAIN trades
    BY <2>1
  <2> QED
    BY <1>1, <2>1, <2>2 DEF IInv, Typed, QueueTyped
<1>8. BookTyped'
  <2>1. /\ Made \subseteq Keys /\ strategies \in [Made -> Strategies]
        /\ held \in [Made -> SUBSET Symbols] /\ turn \in [Made -> Symbols \cup {NoTurn}]
    BY DEF IInv, Typed, BookTyped
  <2> QED
    BY <1>2, <1>4, <1>5, <1>6, <2>1 DEF BookTyped
<1>9. (overtaken => overtaken') /\ overtaken' \in BOOLEAN
  BY <1>1 DEF IInv, Typed, HistoryTyped, Overtaken
<1>10. HistoryTyped'
  BY <1>1, <1>9 DEF IInv, Typed, HistoryTyped
<1>11. RequestsTyped' /\ Creators' = Creators \ {r}
  BY <1>1, OneRequest, IdleFits DEF IInv, Typed
<1>12. ~overtaken' => ~overtaken /\ Made = {}
  BY <1>1 DEF Overtaken, read
<1>13. Counted'
  <2>1. r \in Creators
    BY <1>1 DEF Creators
  <2>2. Cardinality(Creators') = Cardinality(Creators) - 1 /\ Cardinality(Creators') \in Nat
    BY <1>11, <2>1, FewerCreators
  <2>3. /\ Cardinality(Made) \in Nat
        /\ Cardinality(Made') \in {Cardinality(Made), Cardinality(Made) + 1}
    <3>1. IsFiniteSet(Made) /\ Cardinality(Made) \in Nat
      BY MadeFinite DEF IInv, Typed
    <3> QED
      BY <1>6, <3>1, FS_AddElement
  <2>4. Made = {} => Cardinality(Made) = 0
    BY FS_EmptySet
  <2>5. /\ Cardinality(Made) + Cardinality(Creators) <= Cardinality(Requests)
        /\ Cardinality(Creators) \in Nat /\ Cardinality(Requests) \in Nat
    BY CreatorsFinite DEF IInv, Counted
  <2> QED
    BY <1>12, <2>2, <2>3, <2>4, <2>5 DEF Counted
<1>14. PositionsCovered'
  BY <1>1, <1>2, <1>6, <1>12 DEF PositionsCovered
<1>15. OnlyUserEnables'
  BY <1>1, <1>2, <1>5, <1>6 DEF IInv, OnlyUserEnables
<1> QED
  BY <1>7, <1>8, <1>10, <1>11, <1>13, <1>14, <1>15 DEF IInv, Typed

-----------------------------------------------------------------------------
(* Executions and the user *)

\* A strategy becomes n, holds h and is about to buy x; neither the queue nor a
\* request changes.
Moves(s, n, h, x) ==
    /\ UNCHANGED <<queue, request>> /\ HistoryTyped' /\ (overtaken => overtaken')
    /\ n \in Strategies /\ strategies' = [strategies EXCEPT ![s] = n]
    /\ h \in SUBSET Symbols /\ held' = [held EXCEPT ![s] = h]
    /\ x \in Symbols \cup {NoTurn} /\ turn' = [turn EXCEPT ![s] = x]
    /\ byUser.enabled \subseteq byUser'.enabled /\ byUser.dropped \subseteq byUser'.dropped

\* What it holds is covered, and it trades only if it is enabled.
Sound(s, n, h, x) ==
    /\ ~overtaken' => \A y \in h : y \in n.symbols \cup n.exitOnly \/ <<s, y>> \in byUser'.dropped
    /\ s \notin byUser'.enabled => n.status = "DISABLED" /\ x = NoTurn /\ h = {}

\* Such a step keeps the rest.
LEMMA OneStrategyMoves ==
    ASSUME IInv, NEW s \in Made, NEW n, NEW h, NEW x, Moves(s, n, h, x), Sound(s, n, h, x)
    PROVE  IInv'
<1> USE DEF Moves, Sound
<1>1. /\ Made \subseteq Keys /\ strategies \in [Made -> Strategies]
      /\ held \in [Made -> SUBSET Symbols] /\ turn \in [Made -> Symbols \cup {NoTurn}]
  BY DEF IInv, Typed, BookTyped
<1>2. Made' = Made
  BY <1>1 DEF Made
<1>3. \A i \in Made : /\ strategies'[i] = IF i = s THEN n ELSE strategies[i]
                      /\ held'[i] = IF i = s THEN h ELSE held[i]
                      /\ turn'[i] = IF i = s THEN x ELSE turn[i]
  BY <1>1
<1>4. QueueTyped' /\ RequestsTyped' /\ Creators' = Creators
  BY DEF IInv, Typed, QueueTyped, RequestsTyped, queue, Creators, At
<1>5. BookTyped'
  BY <1>1, <1>2 DEF BookTyped
<1>6. Counted'
  BY <1>2, <1>4 DEF IInv, Counted
<1>7. PositionsCovered'
  BY <1>2, <1>3 DEF IInv, PositionsCovered
<1>8. OnlyUserEnables'
  BY <1>2, <1>3 DEF IInv, OnlyUserEnables
<1> QED
  BY <1>4, <1>5, <1>6, <1>7, <1>8 DEF IInv, Typed

\* What an execution signals and buys is of the list it reads, or overtaken.
LEMMA TradeKeeps == ASSUME IInv, NEW s \in Made, Trade(s) PROVE IInv'
<1>1. /\ strategies \in [Made -> Strategies] /\ strategies[s] \in Strategies
      /\ held \in [Made -> SUBSET Symbols] /\ held[s] \in SUBSET Symbols
      /\ turn \in [Made -> Symbols \cup {NoTurn}] /\ turn[s] \in Symbols \cup {NoTurn}
  BY DEF IInv, Typed, BookTyped
<1>2. /\ strategies = [strategies EXCEPT ![s] = strategies[s]]
      /\ held = [held EXCEPT ![s] = held[s]] /\ turn = [turn EXCEPT ![s] = turn[s]]
  BY <1>1
<1>3. ~overtaken => \A y \in held[s] :
          \/ y \in strategies[s].symbols \cup strategies[s].exitOnly
          \/ <<s, y>> \in byUser.dropped
  BY DEF IInv, PositionsCovered
<1>4. s \notin byUser.enabled =>
          strategies[s].status = "DISABLED" /\ turn[s] = NoTurn /\ held[s] = {}
  BY DEF IInv, OnlyUserEnables
<1>5. UNCHANGED <<queue, request, byUser, edits>>
  BY DEF Trade, Buy, Signal, Close, history
<1>6. (overtaken => overtaken') /\ overtaken' \in BOOLEAN
  BY DEF Trade, Buy, Signal, Close, history, IInv, Typed, HistoryTyped
<1>7. HistoryTyped'
  BY <1>5, <1>6 DEF IInv, Typed, HistoryTyped
<1>8. ASSUME NEW x \in Symbols, Signal(s, x) PROVE IInv'
  <2>1. turn' = [turn EXCEPT ![s] = x] /\ UNCHANGED <<strategies, held, overtaken>>
    BY <1>8 DEF Signal, history
  <2>2. strategies[s].status = "ACTIVE"
    BY <1>8 DEF Signal
  <2> QED
    <3>1. Moves(s, strategies[s], held[s], x)
      BY <1>1, <1>2, <1>5, <1>6, <1>7, <2>1 DEF Moves
    <3>2. Sound(s, strategies[s], held[s], x)
      BY <1>3, <1>4, <1>5, <2>1, <2>2 DEF Sound
    <3> QED
      BY <3>1, <3>2, OneStrategyMoves
<1>9. ASSUME NEW x \in Symbols, Close(s, x) PROVE IInv'
  <2>1. PICK n : /\ strategies' = [strategies EXCEPT ![s] = n] /\ n \in Strategies
                 /\ n.status = strategies[s].status /\ n.symbols = strategies[s].symbols
                 /\ strategies[s].exitOnly \subseteq n.exitOnly \cup {x}
    <3>1. CASE strategies' = strategies
      BY <1>1, <1>2, <3>1
    <3>2. CASE strategies' = [strategies EXCEPT ![s].exitOnly = @ \ {x}]
      <4> DEFINE n == [strategies[s] EXCEPT !.exitOnly = @ \ {x}]
      <4>1. strategies' = [strategies EXCEPT ![s] = n]
        BY <3>2
      <4>2. /\ n \in Strategies /\ n.status = strategies[s].status
            /\ n.symbols = strategies[s].symbols
            /\ strategies[s].exitOnly \subseteq n.exitOnly \cup {x}
        BY <1>1 DEF Strategies
      <4> QED
        BY <4>1, <4>2
    <3> QED
      BY <1>9, <3>1, <3>2 DEF Close
  <2>2. held' = [held EXCEPT ![s] = held[s] \ {x}] /\ UNCHANGED <<turn, overtaken>>
    BY <1>9 DEF Close, history
  <2>3. held[s] \ {x} \in SUBSET Symbols
    BY <1>1
  <2> QED
    <3>1. Moves(s, n, held[s] \ {x}, turn[s])
      BY <1>1, <1>2, <1>5, <1>6, <1>7, <2>1, <2>2, <2>3 DEF Moves
    <3>2. Sound(s, n, held[s] \ {x}, turn[s])
      BY <1>3, <1>4, <1>5, <2>1, <2>2 DEF Sound
    <3> QED
      BY <3>1, <3>2, OneStrategyMoves
<1>10. CASE Buy(s)
  <2>1. turn' = [turn EXCEPT ![s] = NoTurn] /\ strategies' = strategies /\ turn[s] # NoTurn
    BY <1>10 DEF Buy
  <2>2. CASE UNCHANGED <<held, overtaken>>
    <3>1. Moves(s, strategies[s], held[s], NoTurn)
      BY <1>1, <1>2, <1>5, <1>6, <1>7, <2>1, <2>2 DEF Moves
    <3>2. Sound(s, strategies[s], held[s], NoTurn)
      BY <1>3, <1>4, <1>5, <2>1, <2>2 DEF Sound
    <3> QED
      BY <3>1, <3>2, OneStrategyMoves
  <2>3. CASE /\ held' = [held EXCEPT ![s] = held[s] \cup {turn[s]}]
             /\ overtaken' = (overtaken \/ turn[s] \notin Tradable(s))
    <3>1. held[s] \cup {turn[s]} \in SUBSET Symbols
      BY <1>1, <2>1
    <3>2. ~overtaken' => turn[s] \in strategies[s].symbols
      BY <2>3 DEF Tradable
    <3> QED
      <4>1. Moves(s, strategies[s], held[s] \cup {turn[s]}, NoTurn)
        BY <1>1, <1>2, <1>5, <1>6, <1>7, <2>1, <2>3, <3>1 DEF Moves
      <4>2. Sound(s, strategies[s], held[s] \cup {turn[s]}, NoTurn)
        BY <1>3, <1>4, <1>5, <2>1, <2>3, <3>2 DEF Sound
      <4> QED
        BY <4>1, <4>2, OneStrategyMoves
  <2> QED
    BY <1>10, <2>2, <2>3 DEF Buy
<1> QED
  BY <1>8, <1>9, <1>10 DEF Trade

\* What the user edits is the user's.
LEMMA EditsKeep ==
    ASSUME IInv, NEW s \in Made, SetStatus(s) \/ SetSynced(s) \/ UpdateStrategy(s)
    PROVE  IInv'
<1>1. /\ strategies \in [Made -> Strategies] /\ strategies[s] \in Strategies
      /\ held \in [Made -> SUBSET Symbols] /\ held[s] \in SUBSET Symbols
      /\ turn \in [Made -> Symbols \cup {NoTurn}] /\ turn[s] \in Symbols \cup {NoTurn}
      /\ s \in Keys
  BY DEF IInv, Typed, BookTyped
<1>2. held = [held EXCEPT ![s] = held[s]] /\ turn = [turn EXCEPT ![s] = turn[s]]
  BY <1>1
<1>3. ~overtaken => \A y \in held[s] :
          \/ y \in strategies[s].symbols \cup strategies[s].exitOnly
          \/ <<s, y>> \in byUser.dropped
  BY DEF IInv, PositionsCovered
<1>4. s \notin byUser.enabled =>
          strategies[s].status = "DISABLED" /\ turn[s] = NoTurn /\ held[s] = {}
  BY DEF IInv, OnlyUserEnables
<1>5. /\ UNCHANGED <<queue, request, held, turn, overtaken>>
      /\ edits' \in 0..MaxEdits /\ overtaken \in BOOLEAN
  <2>1. edits < MaxEdits /\ edits' = edits + 1 /\ UNCHANGED <<queue, request, held, turn, overtaken>>
    BY DEF SetStatus, SetSynced, UpdateStrategy, Edit, history
  <2> QED
    BY <2>1, Bounds DEF IInv, Typed, HistoryTyped
<1>6. byUser \in [enabled : SUBSET Keys, dropped : SUBSET (Keys \X Symbols)]
  BY DEF IInv, Typed, HistoryTyped
<1>7. CASE SetStatus(s)
  <2> DEFINE active == strategies[s].status = "ACTIVE"
             n == [strategies[s] EXCEPT !.status = IF active THEN "DISABLED" ELSE "ACTIVE"]
  <2>1. strategies' = [strategies EXCEPT ![s] = n]
    BY <1>7 DEF SetStatus
  <2>2. /\ n \in Strategies /\ n.symbols = strategies[s].symbols
        /\ n.exitOnly = strategies[s].exitOnly /\ (active => n.status = "DISABLED")
    BY <1>1 DEF Strategies
  <2>3. byUser' = IF active THEN byUser ELSE [byUser EXCEPT !.enabled = @ \cup {s}]
    BY <1>7 DEF SetStatus
  <2>4. HistoryTyped' /\ byUser'.dropped = byUser.dropped
        /\ byUser'.enabled = IF active THEN byUser.enabled ELSE byUser.enabled \cup {s}
    BY <1>1, <1>5, <1>6, <2>3 DEF HistoryTyped
  <2> HIDE DEF n, active
  <2> QED
    <3>1. Moves(s, n, held[s], turn[s])
      BY <1>1, <1>2, <1>5, <2>1, <2>2, <2>4 DEF Moves
    <3>2. Sound(s, n, held[s], turn[s])
      BY <1>3, <1>4, <1>5, <2>1, <2>2, <2>4 DEF Sound
    <3> QED
      BY <3>1, <3>2, OneStrategyMoves
<1>8. CASE SetSynced(s)
  <2> DEFINE n == [strategies[s] EXCEPT !.synced = ~@]
  <2>1. strategies' = [strategies EXCEPT ![s] = n] /\ byUser' = byUser
    BY <1>8 DEF SetSynced, history
  <2>2. /\ n \in Strategies /\ n.symbols = strategies[s].symbols
        /\ n.exitOnly = strategies[s].exitOnly /\ n.status = strategies[s].status
    BY <1>1 DEF Strategies
  <2>3. HistoryTyped'
    BY <1>5, <1>6, <2>1 DEF HistoryTyped
  <2> HIDE DEF n
  <2> QED
    <3>1. Moves(s, n, held[s], turn[s])
      BY <1>1, <1>2, <1>5, <2>1, <2>2, <2>3 DEF Moves
    <3>2. Sound(s, n, held[s], turn[s])
      BY <1>3, <1>4, <1>5, <2>1, <2>2, <2>3 DEF Sound
    <3> QED
      BY <3>1, <3>2, OneStrategyMoves
<1>9. CASE UpdateStrategy(s)
  <2>1. PICK symbols \in SUBSET Symbols :
          /\ strategies' = [strategies EXCEPT ![s].symbols = symbols, ![s].settings = "user"]
          /\ byUser' = [byUser EXCEPT !.dropped =
                           @ \cup {<<s, x>> : x \in strategies[s].symbols \ symbols}]
    BY <1>9 DEF UpdateStrategy
  <2>2. PICK n \in Strategies : /\ strategies' = [strategies EXCEPT ![s] = n]
                                /\ n.symbols = symbols /\ n.exitOnly = strategies[s].exitOnly
                                /\ n.status = strategies[s].status
    <3> DEFINE n == [strategies[s] EXCEPT !.symbols = symbols, !.settings = "user"]
    <3>1. strategies' = [strategies EXCEPT ![s] = n]
      BY <1>1, <2>1
    <3>2. n \in Strategies /\ n.symbols = symbols /\ n.exitOnly = strategies[s].exitOnly
          /\ n.status = strategies[s].status
      BY <1>1 DEF Strategies
    <3> QED
      BY <3>1, <3>2
  <2>3. /\ byUser'.enabled = byUser.enabled
        /\ byUser'.dropped = byUser.dropped \cup {<<s, x>> : x \in strategies[s].symbols \ symbols}
    BY <1>6, <2>1
  <2>4. HistoryTyped'
    <3>1. strategies[s].symbols \in SUBSET Symbols
      BY <1>1 DEF Strategies
    <3>2. {<<s, x>> : x \in strategies[s].symbols \ symbols} \in SUBSET (Keys \X Symbols)
      BY <1>1, <3>1
    <3>3. byUser' \in [enabled : SUBSET Keys, dropped : SUBSET (Keys \X Symbols)]
      BY <1>6, <2>1, <3>2
    <3> QED
      BY <1>5, <3>3 DEF HistoryTyped
  <2> QED
    <3>1. Moves(s, n, held[s], turn[s])
      BY <1>1, <1>2, <1>5, <2>2, <2>3, <2>4 DEF Moves
    <3>2. Sound(s, n, held[s], turn[s])
      BY <1>3, <1>4, <1>5, <2>2, <2>3, <2>4 DEF Sound
    <3> QED
      BY <3>1, <3>2, OneStrategyMoves
<1> QED
  BY <1>7, <1>8, <1>9

\* Deleting a strategy leaves the others covered.
LEMMA DeleteKeeps == ASSUME IInv, NEW s \in Made, DeleteStrategy(s) PROVE IInv'
<1>1. /\ strategies' = [i \in Made \ {s} |-> strategies[i]]
      /\ held' = [i \in Made \ {s} |-> held[i]]
      /\ turn' = [i \in Made \ {s} |-> turn[i]]
      /\ byUser' = [byUser EXCEPT !.enabled = @ \ {s}]
      /\ UNCHANGED <<queue, request, overtaken>>
      /\ edits < MaxEdits /\ edits' = edits + 1
  BY DEF DeleteStrategy, Edit
<1>2. Made' = Made \ {s}
  BY <1>1 DEF Made
<1>3. byUser \in [enabled : SUBSET Keys, dropped : SUBSET (Keys \X Symbols)]
  BY DEF IInv, Typed, HistoryTyped
<1>4. byUser'.enabled = byUser.enabled \ {s} /\ byUser'.dropped = byUser.dropped
  BY <1>1, <1>3
<1>5. HistoryTyped'
  <2>1. edits' \in 0..MaxEdits /\ overtaken' \in BOOLEAN
    BY <1>1, Bounds DEF IInv, Typed, HistoryTyped
  <2>2. byUser' \in [enabled : SUBSET Keys, dropped : SUBSET (Keys \X Symbols)]
    BY <1>1, <1>3
  <2> QED
    BY <2>1, <2>2 DEF HistoryTyped
<1>6. QueueTyped' /\ RequestsTyped' /\ Creators' = Creators
  BY <1>1 DEF IInv, Typed, QueueTyped, RequestsTyped, queue, Creators, At
<1>7. BookTyped'
  BY <1>1, <1>2 DEF IInv, Typed, BookTyped
<1>8. Counted'
  <2>1. IsFiniteSet(Made) /\ Cardinality(Made) \in Nat
    BY MadeFinite DEF IInv, Typed
  <2>2. Cardinality(Made') <= Cardinality(Made) /\ Cardinality(Made') \in Nat
    <3> HIDE DEF Made
    <3>1. IsFiniteSet(Made \ {s}) /\ Cardinality(Made \ {s}) = Cardinality(Made) - 1
      BY <2>1, FS_RemoveElement
    <3>2. Cardinality(Made \ {s}) \in Nat
      BY <3>1, FS_CardinalityType
    <3> QED
      BY <1>2, <2>1, <3>1, <3>2
  <2> QED
    BY <1>1, <1>6, <2>1, <2>2, CreatorsFinite DEF IInv, Counted
<1>9. PositionsCovered'
  BY <1>1, <1>2, <1>4 DEF IInv, PositionsCovered
<1>10. OnlyUserEnables'
  BY <1>1, <1>2, <1>4 DEF IInv, OnlyUserEnables
<1> QED
  BY <1>5, <1>6, <1>7, <1>8, <1>9, <1>10 DEF IInv, Typed

-----------------------------------------------------------------------------
(* The theorems *)

\* Every step keeps the invariant.
LEMMA NextKeeps == IInv /\ [Next]_vars => IInv'
<1> SUFFICES ASSUME IInv, [Next]_vars PROVE IInv'
  OBVIOUS
<1>1. CASE UNCHANGED vars
  <2>1. UNCHANGED <<book, byUser, queue, request, history, edits>>
    BY <1>1 DEF vars, history
  <2>2. /\ Typed' /\ Creators' = Creators
    BY <2>1 DEF IInv, Typed, QueueTyped, BookTyped, RequestsTyped, HistoryTyped, queue, book,
                history, Made, Creators, At
  <2> QED
    BY <2>1, <2>2, BookKept DEF IInv, history
<1>2. ASSUME NEW r \in Requests, Approve(r) PROVE IInv'
  BY <1>2, UpdateKeeps, CreateKeeps
<1> QED
  BY <1>1, <1>2, QueueKeeps, ReadingKeeps, CloseTradeKeeps, LookKeeps, TradeKeeps, EditsKeep,
     DeleteKeeps DEF Next, Answer

\* Requests that wait to make a strategy and strategies together never exceed
\* the requests under way, and every row fits its type, however runs, answers,
\* executions and edits interleave (approve_pending_trade).
THEOREM QueueAccounts == Spec => []IInv
BY InitIInv, NextKeeps, PTL DEF Spec

\* Every variable keeps its type, for any number of symbols and requests.
THEOREM TypeCorrect == Spec => []TypeOK
BY QueueAccounts, TypesFollow, PTL DEF IInv

\* A screener keeps one strategy however many requests answer its trades, and
\* where they overtake one another no more than were under way together.
THEOREM OneStrategyKept == Spec => []OneStrategy
<1>1. IInv => OneStrategy
  <2> SUFFICES ASSUME IInv PROVE OneStrategy
    OBVIOUS
  <2>1. Cardinality(Made) \in Nat
    BY MadeFinite DEF IInv, Typed
  <2> QED
    BY <2>1, CreatorsFinite DEF IInv, Counted, OneStrategy
<1> QED
  BY <1>1, QueueAccounts, PTL

\* No list of a screener orphans a position, for any lists and positions.
THEOREM PositionsStayCovered == Spec => []PositionsCovered
BY QueueAccounts, PTL DEF IInv

\* A strategy made of a recommendation trades only after its user enabled it.
THEOREM UserEnables == Spec => []OnlyUserEnables
BY QueueAccounts, PTL DEF IInv

\* The settings of an unlinked strategy stay the user's, whatever approvals
\* come, unless it is unlinked while one is under way.
THEOREM UnlinkedStaysUsers == Spec => UnlinkedKeepsSettings
<1> DEFINE Kept == \A s \in Made \cap Made' :
                      ~strategies[s].synced /\ strategies[s].settings = "user" /\ ~overtaken'
                      => strategies'[s].settings = "user"
<1>1. IInv /\ [Next]_vars => [Kept]_vars
  <2> SUFFICES ASSUME IInv, Next, NEW s \in Made, s \in Made', ~strategies[s].synced,
                      strategies[s].settings = "user", ~overtaken'
               PROVE  strategies'[s].settings = "user"
    OBVIOUS
  <2>1. strategies \in [Made -> Strategies] /\ strategies[s] \in Strategies
    BY DEF IInv, Typed, BookTyped
  <2>2. CASE strategies' = strategies
    BY <2>2
  <2>3. ASSUME NEW r \in Requests, Approve(r) PROVE strategies'[s].settings = "user"
    <3> DEFINE read == request[r]
    <3>1. Made = DOMAIN read.was /\ \A i \in Made : strategies[i] = read.was[i]
      BY <2>3 DEF Approve, Overtaken
    <3>2. read.was # [i \in {} |-> Idle]
      BY <3>1
    <3>3. PICK i \in DOMAIN read.was : Update(i, read, trades[read.trade].symbols)
      BY <2>3, <3>2 DEF Approve
    <3> QED
      BY <2>1, <3>1, <3>3 DEF Update, Settled
  <2>4. ASSUME NEW i \in Made,
               \/ Trade(i) \/ SetStatus(i) \/ SetSynced(i)
               \/ UpdateStrategy(i) \/ DeleteStrategy(i)
        PROVE  strategies'[s].settings = "user"
    <3> USE <2>1 DEF Strategies
    <3>1. CASE Trade(i)
      BY <3>1 DEF Trade, Buy, Signal, Close
    <3>2. CASE SetStatus(i)
      BY <3>2 DEF SetStatus
    <3>3. CASE SetSynced(i)
      BY <3>3 DEF SetSynced
    <3>4. CASE UpdateStrategy(i)
      BY <3>4 DEF UpdateStrategy
    <3>5. CASE DeleteStrategy(i)
      BY <3>5 DEF DeleteStrategy, Made
    <3> QED
      BY <2>4, <3>1, <3>2, <3>3, <3>4, <3>5
  <2> QED
    BY <2>2, <2>3, <2>4 DEF Next, Answer, StartRun, EndRun, LinkScreener, SetConfig, AskApproval,
       AskVerdict, CloseTrade, Look, Fail, book
<1> QED
  BY <1>1, QueueAccounts, PTL DEF Spec, UnlinkedKeepsSettings

=============================================================================
