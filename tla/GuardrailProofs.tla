----------------------------- MODULE GuardrailProofs -----------------------------
(***************************************************************************)
(* What Guardrail guarantees for any number of strategies, any sizes and   *)
(* prices, and any requests under way together: between requests the       *)
(* user's funds are what the rows say, unless sums were taken while        *)
(* another session had closes they could not see; and a square-off that    *)
(* commits leaves nothing open of what it set out to close, but for rows   *)
(* it passed over while the monitors and the other square-off were at it.  *)
(***************************************************************************)
EXTENDS Guardrail, TLAPS

-----------------------------------------------------------------------------
(* The inductive invariant *)

\* Sums are not looked into.
Totals == {SumFunction(f) : f \in [Strategies -> Int]}
Purses == [margin : Totals, realized : Totals, daily : Totals]
Rows == [status : {"NONE", "OPEN", "PARTIAL", "CLOSED"}, left : 0..Lot, realized : Int,
         today : BOOLEAN]

Places == {"idle", "judging", "checking", "stopping", "closing", "writing", "summing", "funding",
           "committing"}
Works == [pc : Places, todo : SUBSET Strategies, aim : SUBSET Strategies,
          held : [Strategies -> Rows], cur : Strategies \cup {None}, qty : Nat, gained : Int,
          sums : Purses, read : Purses]
Written == UNION {[S -> Rows] : S \in SUBSET Strategies}
Writes == [rows : Written, funds : {{}} \cup {{f} : f \in Purses}, stopped : SUBSET Strategies]

TypeInv ==
    /\ row \in [Strategies -> Rows] /\ funds \in Purses /\ active \subseteq Strategies
    /\ gain \in Int /\ mixed \in BOOLEAN
    /\ DOMAIN request \subseteq {"monitor", "squareoff", "estop", "turn"}
    /\ request \in [DOMAIN request -> Works] /\ session \in [DOMAIN request -> Writes]

\* Where request r may be, and what it has begun there: work q, writes w.
Placed(r, q, w) ==
    /\ q.pc = "idle" => q = Idle /\ w = NoWrites
    /\ q.pc \in {"judging", "stopping"} => w.rows = NoWrites.rows /\ w.funds = {} /\ q.aim = {}
    /\ q.pc = "checking" => q.aim = {}
    /\ q.pc = "closing" => q.aim # {}
    /\ r \in {"squareoff", "estop"} =>
          /\ q.pc \notin {"judging", "stopping", "checking"}
          /\ q.pc \in {"writing", "summing", "funding"} => q.aim # {}
    /\ r = "turn" =>
          /\ q.pc \in {"idle", "writing", "summing", "funding", "committing"}
          /\ q.aim = {} /\ q.todo = {}

\* Rows as they fit their status.
RowFits(w) ==
    /\ w \in Rows
    /\ w.status \in {"NONE", "OPEN"} => w.realized = 0
    /\ w.status \in {"NONE", "CLOSED"} => w.left = 0
    /\ w.status \in {"OPEN", "PARTIAL"} => w.left > 0
Opened(w) == RowFits(w) /\ IsOpen(w)

\* What a request holds of rows, and has written.  Only a turn opens one.
RowsKept(r, q, w, rows) ==
    /\ \A s \in DOMAIN w.rows : RowFits(w.rows[s]) /\ w.rows[s].status # "NONE"
    /\ r # "turn" => \A s \in DOMAIN w.rows \cup q.aim : rows[s].status # "NONE"
    /\ q.aim # {} => \A s \in q.todo : Opened(q.held[s]) /\ rows[s].status # "NONE"
    /\ q.pc = "writing" =>
          /\ q.cur \in Strategies \ q.todo
          /\ IF r = "turn"
             THEN q.held[q.cur] = NoRow /\ DOMAIN w.rows = {} /\ rows[q.cur].status = "NONE"
             ELSE /\ Opened(q.held[q.cur]) /\ rows[q.cur].status # "NONE" /\ q.qty > 0
                  /\ q.aim # {} \/ q.held[q.cur].status # "OPEN" => q.held[q.cur].left <= q.qty

\* Rows and funds as a session sees them.
Viewed(w, rows) == [s \in Strategies |-> IF s \in DOMAIN w.rows THEN w.rows[s] ELSE rows[s]]
Purse(w, f) == IF w.funds = {} THEN f ELSE CHOOSE g \in w.funds : TRUE

\* The funds agree; the sum of the day is not kept at midnight.
Same(f, g) == f.margin = g.margin /\ f.realized = g.realized

\* A session that has rows and will commit them without another sum.
Summed(r, q, w) ==
    /\ DOMAIN w.rows # {}
    /\ \/ q.pc \in {"funding", "checking", "committing"}
       \/ q.pc = "closing" /\ r # "monitor"

\* What a session will commit agrees.
FundsKept(r, q, w, rows, f) ==
    /\ Summed(r, q, w) /\ q.pc # "funding" => Same(Purse(w, f), Derived(Viewed(w, rows)))
    /\ Summed(r, q, w) /\ q.pc = "funding" =>
          Same(q.sums, Derived(Viewed(w, rows))) /\ Same(q.read, Purse(w, f))
    /\ ~Summed(r, q, w) /\ q.pc = "funding" => Same(q.sums, q.read)
    /\ DOMAIN w.rows = {} => Same(Purse(w, f), f)

PlaceInv == \A r \in DOMAIN request : Placed(r, request[r], session[r])
RowsInv ==
    /\ \A s \in Strategies : RowFits(row[s])
    /\ \A r \in DOMAIN request : RowsKept(r, request[r], session[r], row)
OneFlushed ==
    \A q, r \in DOMAIN request : q # r => session[q].funds = {} \/ session[r].funds = {}

\* As long as no sum missed another session's closes, at most one session has
\* summed up rows it has written, and nobody else's commit can disturb it.
OneSummed ==
    \A q, r \in DOMAIN request :
        q # r => ~Summed(q, request[q], session[q]) \/ ~Summed(r, request[r], session[r])
FundsInv ==
    /\ Same(funds, Derived(row))
    /\ \A r \in DOMAIN request : FundsKept(r, request[r], session[r], row, funds)

IInv ==
    /\ TypeInv /\ PlaceInv /\ RowsInv /\ OneFlushed
    /\ ~mixed => OneSummed /\ FundsInv

-----------------------------------------------------------------------------
(* Facts of rows and funds *)

LEMMA ValueFacts ==
    /\ NoRow \in Rows /\ RowFits(NoRow) /\ ~IsOpen(NoRow) /\ NoRow.status = "NONE"
    /\ NewRow \in Rows /\ RowFits(NewRow) /\ IsOpen(NewRow) /\ NewRow.status # "NONE"
    /\ [s \in Strategies |-> NoRow] \in [Strategies -> Rows]
<1>1. Lot \in Nat \ {0}
  BY Sizes
<1>2. /\ NoRow.status = "NONE" /\ NoRow.left = 0 /\ NoRow.realized = 0
      /\ NoRow \in Rows
  BY <1>1 DEF NoRow, Rows
<1>3. Lot \in 0..Lot
  BY <1>1
<1>4. NewRow \in Rows
  BY <1>2, <1>3 DEF NewRow, Rows
<1>5. NewRow.status = "OPEN" /\ NewRow.left = Lot /\ NewRow.realized = 0
  BY <1>2 DEF NewRow, Rows
<1> QED
  BY <1>1, <1>2, <1>4, <1>5 DEF RowFits, IsOpen

LEMMA DerivedTyped ==
    ASSUME NEW rows \in [Strategies -> Rows]
    PROVE  Derived(rows) \in Purses
<1>1. \A s \in Strategies : Blocks(s, rows[s]) \in Int /\ Gained(rows[s]) \in Int
  BY Sizes DEF Blocks, Gained, Rate, Rows
<1>2. /\ [s \in Strategies |-> Blocks(s, rows[s])] \in [Strategies -> Int]
      /\ [s \in Strategies |-> Gained(rows[s])] \in [Strategies -> Int]
      /\ [s \in Strategies |-> IF rows[s].today THEN Gained(rows[s]) ELSE 0] \in [Strategies -> Int]
  BY <1>1
<1> QED
  BY <1>2 DEF Derived, Purses, Totals

LEMMA IdleTyped ==
    /\ Empty \in Purses /\ Idle \in Works /\ NoWrites \in Writes
    /\ NoWrites.funds = {} /\ DOMAIN NoWrites.rows = {}
    /\ Idle.pc = "idle" /\ Idle.aim = {} /\ Idle.todo = {}
<1>1. Empty \in Purses
  BY DerivedTyped, ValueFacts DEF Empty
<1>2. Idle \in Works
  BY <1>1, ValueFacts DEF Idle, Works, Places
<1>3. [s \in {} |-> NoRow] \in [{} -> Rows]
  BY ValueFacts
<1>4. [s \in {} |-> NoRow] \in Written
  BY <1>3 DEF Written
<1>5. NoWrites \in Writes
  BY <1>4 DEF NoWrites, Writes
<1> QED
  BY <1>1, <1>2, <1>5 DEF Idle, NoWrites

LEMMA PurseTyped ==
    ASSUME NEW w \in Writes, NEW f \in Purses
    PROVE  /\ Purse(w, f) \in Purses
           /\ w.funds # {} => Purse(w, f) \in w.funds /\ \A g : Purse(w, g) = Purse(w, f)
<1>1. w.funds \in {{}} \cup {{g} : g \in Purses}
  BY DEF Writes
<1>2. CASE w.funds = {}
  BY <1>2 DEF Purse
<1>3. CASE w.funds # {}
  <2>1. PICK g \in Purses : w.funds = {g}
    BY <1>1, <1>3
  <2>2. (CHOOSE h \in w.funds : TRUE) = g
    BY <2>1
  <2>3. \A h : Purse(w, h) = g
    BY <1>3, <2>2 DEF Purse
  <2> QED
    BY <2>1, <2>3
<1> QED
  BY <1>2, <1>3

LEMMA ViewedTyped ==
    ASSUME NEW w \in Writes, NEW rows \in [Strategies -> Rows]
    PROVE  /\ Viewed(w, rows) \in [Strategies -> Rows]
           /\ w.rows \in [DOMAIN w.rows -> Rows] /\ DOMAIN w.rows \subseteq Strategies
           /\ DOMAIN w.rows = {} => Viewed(w, rows) = rows
<1>1. PICK S \in SUBSET Strategies : w.rows \in [S -> Rows]
  BY DEF Writes, Written
<1>2. DOMAIN w.rows = S
  BY <1>1
<1> QED
  BY <1>1, <1>2 DEF Viewed

\* What a session sees, in terms of Guardrail.
LEMMA Views ==
    ASSUME NEW r
    PROVE  View(r) = Viewed(session[r], row) /\ FundsSeen(r) = Purse(session[r], funds)
BY DEF View, Viewed, FundsSeen, Purse

-----------------------------------------------------------------------------
(* Steps of one request *)

\* One request goes on, with work q and writes w, and commits nothing.
Moves(r, q, w) ==
    /\ request' = [request EXCEPT ![r] = q] /\ session' = [session EXCEPT ![r] = w]
    /\ UNCHANGED <<db, world>>

\* A step of one request keeps the invariant if that request keeps its part,
\* flushes the funds only where nobody else has, and sums up only where nobody
\* else has summed.
LEMMA MovesKeep ==
    ASSUME IInv, NEW r \in DOMAIN request, NEW q \in Works, NEW w \in Writes, Moves(r, q, w),
           mixed' \in BOOLEAN, mixed => mixed',
           Placed(r, q, w), RowsKept(r, q, w, row),
           w.funds # {} => session[r].funds # {} \/ FundsFree(r),
           ~mixed' /\ OneSummed /\ FundsInv =>
              /\ FundsKept(r, q, w, row, funds)
              /\ Summed(r, q, w) => \/ Summed(r, request[r], session[r])
                                    \/ \A p \in DOMAIN request \ {r} : ~Summed(p, request[p], session[p])
    PROVE  IInv'
<1>1. /\ row' = row /\ funds' = funds /\ active' = active /\ gain' = gain
      /\ DOMAIN request' = DOMAIN request /\ DOMAIN session' = DOMAIN request
      /\ request'[r] = q /\ session'[r] = w
      /\ \A p \in DOMAIN request \ {r} : request'[p] = request[p] /\ session'[p] = session[p]
  BY DEF Moves, db, world, IInv, TypeInv
<1>2. TypeInv'
  BY <1>1 DEF IInv, TypeInv, Moves
<1>3. PlaceInv'
  BY <1>1 DEF IInv, PlaceInv
<1>4. RowsInv'
  BY <1>1 DEF IInv, RowsInv
<1>5. OneFlushed'
  <2> SUFFICES ASSUME NEW p \in DOMAIN request \ {r}
               PROVE  session[p].funds = {} \/ w.funds = {}
    BY <1>1 DEF IInv, OneFlushed
  <2> QED
    BY <1>1 DEF IInv, OneFlushed, FundsFree, TypeInv
<1>6. ASSUME ~mixed' PROVE OneSummed' /\ FundsInv'
  <2>1. OneSummed /\ FundsInv
    BY <1>6 DEF IInv
  <2>2. /\ FundsKept(r, q, w, row, funds)
        /\ Summed(r, q, w) => \/ Summed(r, request[r], session[r])
                              \/ \A p \in DOMAIN request \ {r} : ~Summed(p, request[p], session[p])
    BY <2>1, <1>6
  <2>3. OneSummed'
    BY <2>1, <2>2, <1>1 DEF OneSummed
  <2>4. FundsInv'
    BY <2>1, <2>2, <1>1 DEF FundsInv
  <2> QED
    BY <2>3, <2>4
<1> QED
  BY <1>2, <1>3, <1>4, <1>5, <1>6 DEF IInv

\* A request that is at rest disturbs nothing.
LEMMA RestFits ==
    ASSUME NEW r \in DOMAIN request, NEW rows, NEW f
    PROVE  /\ Placed(r, Idle, NoWrites) /\ RowsKept(r, Idle, NoWrites, rows)
           /\ FundsKept(r, Idle, NoWrites, rows, f) /\ ~Summed(r, Idle, NoWrites)
<1>1. Placed(r, Idle, NoWrites)
  BY IdleTyped DEF Placed
<1>2. RowsKept(r, Idle, NoWrites, rows)
  BY IdleTyped DEF RowsKept
<1>3. Purse(NoWrites, f) = f
  BY IdleTyped DEF Purse
<1>4. ~Summed(r, Idle, NoWrites)
  BY IdleTyped DEF Summed
<1> QED
  BY <1>1, <1>2, <1>3, <1>4, IdleTyped DEF FundsKept, Same

LEMMA EndKeeps ==
    ASSUME IInv, NEW r \in DOMAIN request, Fail(r) \/ Deadlock(r)
    PROVE  IInv'
<1>1. Moves(r, Idle, NoWrites)
  BY DEF Fail, Deadlock, Done, Moves
<1>2. mixed' = mixed /\ mixed \in BOOLEAN
  BY DEF Fail, Deadlock, history, IInv, TypeInv
<1> QED
  BY <1>1, <1>2, IdleTyped, RestFits, MovesKeep

LEMMA SameFacts ==
    ASSUME NEW w, NEW f, NEW g, Same(f, g)
    PROVE  /\ Same(g, f) /\ \A h : Same(g, h) => Same(f, h)
           /\ Same(Purse(w, f), Purse(w, g))
BY DEF Same, Purse

LEMMA CommitKeeps ==
    ASSUME IInv, NEW r \in DOMAIN request, Commit(r)
    PROVE  IInv'
<1> DEFINE q == request[r]
           w == session[r]
<1>1. /\ q \in Works /\ w \in Writes /\ row \in [Strategies -> Rows] /\ funds \in Purses
      /\ Placed(r, q, w) /\ RowsKept(r, q, w, row)
  BY DEF IInv, TypeInv, PlaceInv, RowsInv
<1>2. /\ row' = Viewed(w, row) /\ funds' = Purse(w, funds) /\ active' \subseteq Strategies
      /\ gain' = gain /\ mixed' = mixed
      /\ DOMAIN request' = DOMAIN request /\ DOMAIN session' = DOMAIN request
      /\ request'[r] = Idle /\ session'[r] = NoWrites
      /\ \A p \in DOMAIN request \ {r} : request'[p] = request[p] /\ session'[p] = session[p]
  BY Views DEF Commit, Done, world, history, IInv, TypeInv
<1>3. /\ row' \in [Strategies -> Rows] /\ funds' \in Purses
      /\ w.rows \in [DOMAIN w.rows -> Rows] /\ DOMAIN w.rows \subseteq Strategies
      /\ DOMAIN w.rows = {} => row' = row
  BY <1>1, <1>2, ViewedTyped, PurseTyped
<1>4. TypeInv'
  <2>1. request' = [request EXCEPT ![r] = Idle] /\ session' = [session EXCEPT ![r] = NoWrites]
    BY DEF Commit, Done
  <2> QED
    BY <1>2, <1>3, <2>1, IdleTyped DEF IInv, TypeInv
<1>5. PlaceInv'
  BY <1>2, RestFits DEF IInv, PlaceInv
<1>6. RowsInv'
  <2>1. \A s \in Strategies : row'[s] = IF s \in DOMAIN w.rows THEN w.rows[s] ELSE row[s]
    BY <1>2 DEF Viewed
  <2>2. \A s \in Strategies : RowFits(row'[s])
    BY <2>1, <1>1 DEF IInv, RowsInv, RowsKept
  <2>3. \A s \in Strategies : row[s].status # "NONE" => row'[s].status # "NONE"
    BY <2>1, <1>1 DEF RowsKept
  <2>4. ASSUME NEW p \in DOMAIN request \ {r} PROVE RowsKept(p, request[p], session[p], row')
    <3>1. RowsKept(p, request[p], session[p], row) /\ request[p] \in Works /\ session[p] \in Writes
      BY DEF IInv, RowsInv, TypeInv
    <3>2. DOMAIN session[p].rows \subseteq Strategies
      BY <1>1, <3>1, ViewedTyped
    <3>3. request[p].aim \subseteq Strategies /\ request[p].todo \subseteq Strategies
      BY <3>1 DEF Works
    <3>4. ASSUME p = "turn", request[p].pc = "writing"
          PROVE  row'[request[p].cur].status = "NONE"
      BY <3>1, <3>4, <2>1, <1>1 DEF RowsKept
    <3> QED
      BY <3>1, <3>2, <3>3, <3>4, <2>3 DEF RowsKept
  <2>5. RowsKept(r, Idle, NoWrites, row')
    BY RestFits
  <2> QED
    BY <2>2, <2>4, <2>5, <1>2 DEF RowsInv
<1>7. OneFlushed'
  BY <1>2, IdleTyped DEF IInv, OneFlushed
<1>8. ASSUME ~mixed' PROVE OneSummed' /\ FundsInv'
  <2>1. OneSummed /\ FundsInv
    BY <1>2, <1>8 DEF IInv
  <2>2. OneSummed'
    BY <2>1, <1>2, RestFits DEF OneSummed
  <2>3. FundsKept(r, q, w, row, funds)
    BY <2>1 DEF FundsInv
  <2>4. FundsKept(r, Idle, NoWrites, row', funds')
    BY RestFits
  <2>5. CASE DOMAIN w.rows = {}
    <3>1. row' = row /\ Same(funds', funds)
      BY <2>3, <2>5, <1>2, <1>3 DEF FundsKept
    <3>2. Same(funds', Derived(row'))
      BY <2>1, <3>1 DEF FundsInv, Same
    <3>3. ASSUME NEW p \in DOMAIN request \ {r}
          PROVE  FundsKept(p, request[p], session[p], row', funds')
      <4>1. FundsKept(p, request[p], session[p], row, funds)
        BY <2>1 DEF FundsInv
      <4>2. Same(Purse(session[p], funds'), Purse(session[p], funds))
        BY <3>1, SameFacts
      <4> QED
        BY <4>1, <4>2, <3>1 DEF FundsKept, Same
    <3> QED
      BY <2>2, <2>4, <3>2, <3>3, <1>2 DEF FundsInv
  <2>6. CASE DOMAIN w.rows # {}
    <3>1. Summed(r, q, w) /\ q.pc # "funding"
      BY <2>6, <1>1 DEF Commit, At, AfterWrite, Closes, Summed, Placed
    <3>2. Same(funds', Derived(row'))
      BY <3>1, <2>3, <1>2 DEF FundsKept
    <3>3. ASSUME NEW p \in DOMAIN request \ {r}
          PROVE  FundsKept(p, request[p], session[p], row', funds')
      <4>1. FundsKept(p, request[p], session[p], row, funds) /\ ~Summed(p, request[p], session[p])
        BY <2>1, <3>1 DEF FundsInv, OneSummed
      <4>2. session[p].funds = {} \/ w.funds = {}
        BY DEF IInv, OneFlushed
      <4>3. DOMAIN session[p].rows = {} => Same(Purse(session[p], funds'), funds')
        BY <4>1, <4>2, <1>2 DEF FundsKept, Purse, Same
      <4> QED
        BY <4>1, <4>3 DEF FundsKept
    <3> QED
      BY <2>2, <2>4, <3>2, <3>3, <1>2 DEF FundsInv
  <2> QED
    BY <2>5, <2>6
<1> QED
  BY <1>4, <1>5, <1>6, <1>7, <1>8 DEF IInv

\* The parts of the invariant that are about one request.
LEMMA Parts ==
    ASSUME IInv, NEW r \in DOMAIN request
    PROVE  /\ request[r] \in Works /\ session[r] \in Writes
           /\ row \in [Strategies -> Rows] /\ funds \in Purses /\ gain \in Int
           /\ Placed(r, request[r], session[r]) /\ RowsKept(r, request[r], session[r], row)
           /\ session[r].rows \in [DOMAIN session[r].rows -> Rows]
           /\ DOMAIN session[r].rows \subseteq Strategies
           /\ FundsInv => FundsKept(r, request[r], session[r], row, funds)
           /\ session = [session EXCEPT ![r] = session[r]]
<1>1. /\ request[r] \in Works /\ session[r] \in Writes
      /\ row \in [Strategies -> Rows] /\ funds \in Purses /\ gain \in Int
      /\ session = [session EXCEPT ![r] = session[r]]
  BY DEF IInv, TypeInv
<1>2. Placed(r, request[r], session[r]) /\ RowsKept(r, request[r], session[r], row)
  BY DEF IInv, PlaceInv, RowsInv
<1>3. FundsInv => FundsKept(r, request[r], session[r], row, funds)
  BY DEF FundsInv
<1> QED
  BY <1>1, <1>2, <1>3, ViewedTyped

\* The rows a session sees fit their status.
LEMMA SeenFits ==
    ASSUME IInv, NEW r \in DOMAIN request, NEW s \in Strategies
    PROVE  /\ RowFits(View(r)[s])
           /\ r # "turn" /\ View(r)[s].status # "NONE" => row[s].status # "NONE"
           /\ row[s].status # "NONE" => View(r)[s].status # "NONE"
<1>1. View(r)[s] = IF s \in DOMAIN session[r].rows THEN session[r].rows[s] ELSE row[s]
  BY DEF View
<1>2. RowsKept(r, request[r], session[r], row) /\ RowFits(row[s])
  BY DEF IInv, RowsInv
<1> QED
  BY <1>1, <1>2 DEF RowsKept

LEMMA TakeKeeps ==
    ASSUME IInv, NEW r \in DOMAIN request, Take(r)
    PROVE  IInv'
<1> DEFINE q == request[r]
           w == session[r]
<1>1. PICK s \in q.todo :
        request' = [request EXCEPT ![r] =
            IF StillOpen(r, s)
            THEN [request[r] EXCEPT !.pc = "writing", !.todo = @ \ {s}, !.cur = s, !.qty = Lot,
                           !.gained = gain]
            ELSE [request[r] EXCEPT !.todo = @ \ {s}]]
  BY DEF Take
<1>2. /\ q.pc = "closing" /\ q.aim # {} /\ r # "turn" /\ s \in Strategies
      /\ Opened(q.held[s]) /\ row[s].status # "NONE"
  BY Parts DEF Take, At, Placed, RowsKept, Works
<1>3. mixed' = mixed /\ mixed \in BOOLEAN /\ session' = session /\ UNCHANGED <<db, world>>
  BY DEF Take, history, IInv, TypeInv
<1>4. CASE StillOpen(r, s)
  <2> DEFINE q2 == [q EXCEPT !.pc = "writing", !.todo = @ \ {s}, !.cur = s, !.qty = Lot,
                             !.gained = gain]
  <2>1. Lot \in Nat /\ Lot > 0
    BY Sizes
  <2>2. q2 \in Works
    BY <2>1, <1>2, Parts, ZenonT(60) DEF Works, Places
  <2>3. /\ q2.pc = "writing" /\ q2.todo = q.todo \ {s} /\ q2.aim = q.aim /\ q2.held = q.held
        /\ q2.cur = s /\ q2.qty = Lot
    BY Parts DEF Works
  <2> HIDE DEF q2
  <2>4. Moves(r, q2, w)
    <3>1. request' = [request EXCEPT ![r] = q2]
      BY <1>1, <1>4 DEF q2
    <3> QED
      BY <3>1, <1>3, Parts DEF Moves
  <2>5. Placed(r, q2, w)
    BY <2>3, <1>2, Parts DEF Placed
  <2>6. q.held[s].left <= Lot
    BY <1>2, <2>1 DEF Opened, RowFits, Rows
  <2>7. RowsKept(r, q2, w, row)
    BY <2>3, <1>2, <2>1, <2>6, Parts DEF RowsKept
  <2>8. FundsInv => FundsKept(r, q2, w, row, funds)
    BY <2>3, Parts DEF FundsKept, Summed
  <2>9. ~Summed(r, q2, w)
    BY <2>3 DEF Summed
  <2> QED
    BY <2>2, <2>4, <2>5, <2>7, <2>8, <2>9, <1>3, Parts, MovesKeep
<1>5. CASE ~StillOpen(r, s)
  <2> DEFINE q2 == [q EXCEPT !.todo = @ \ {s}]
  <2>1. q2 \in Works
    BY Parts DEF Works, Places
  <2>2. q2.pc = "closing" /\ q2.todo = q.todo \ {s} /\ q2.aim = q.aim /\ q2.held = q.held
    BY <1>2, Parts DEF Works
  <2> HIDE DEF q2
  <2>3. Moves(r, q2, w)
    <3>1. request' = [request EXCEPT ![r] = q2]
      BY <1>1, <1>5 DEF q2
    <3> QED
      BY <3>1, <1>3, Parts DEF Moves
  <2>4. Placed(r, q2, w)
    BY <2>2, <1>2, Parts DEF Placed
  <2>5. RowsKept(r, q2, w, row)
    BY <2>2, Parts DEF RowsKept
  <2>6. FundsInv => FundsKept(r, q2, w, row, funds)
    BY <2>2, <1>2, Parts DEF FundsKept, Summed
  <2>7. Summed(r, q2, w) => Summed(r, q, w)
    BY <2>2, <1>2 DEF Summed
  <2> QED
    BY <2>1, <2>3, <2>4, <2>5, <2>6, <2>7, <1>3, Parts, MovesKeep
<1> QED
  BY <1>4, <1>5

\* What an UPDATE leaves is a row that fits, whatever was written in between.
LEMMA UpdateFits ==
    ASSUME NEW v, RowFits(v), NEW h \in Rows, NEW new \in Rows,
           \/ h = NoRow /\ new = NewRow /\ v.status = "NONE"
           \/ h.status = "OPEN" /\ new.status = "PARTIAL" /\ new.left > 0 /\ new.left # h.left
           \/ IsOpen(h) /\ h.left > 0 /\ new.status = "CLOSED" /\ new.left = 0
    PROVE  Updated(v, h, new) \in Rows /\ RowFits(Updated(v, h, new))
           /\ Updated(v, h, new).status = new.status
<1> DEFINE u == Updated(v, h, new)
<1>1. u = [f \in DOMAIN new |-> IF new[f] # h[f] THEN new[f] ELSE v[f]]
  BY DEF Updated
<1>2. DOMAIN new = {"status", "left", "realized", "today"} /\ v \in Rows
  BY DEF Rows, RowFits
<1>3. u \in Rows
  BY <1>1, <1>2 DEF Rows
<1>4. /\ u.status = IF new.status # h.status THEN new.status ELSE v.status
      /\ u.left = IF new.left # h.left THEN new.left ELSE v.left
      /\ u.realized = IF new.realized # h.realized THEN new.realized ELSE v.realized
  BY <1>1, <1>2 DEF Rows
<1>5. /\ NoRow.status = "NONE" /\ NoRow.left = 0 /\ NoRow.realized = 0
      /\ NewRow.status = "OPEN" /\ NewRow.left = Lot /\ NewRow.realized = 0 /\ Lot > 0
  <2>1. Lot \in Nat \ {0}
    BY Sizes
  <2> QED
    BY <2>1, ValueFacts DEF NoRow, NewRow
<1> HIDE DEF u
<1>6. RowFits(u) /\ u.status = new.status
  BY <1>3, <1>4, <1>5 DEF RowFits, IsOpen
<1> QED
  BY <1>3, <1>6 DEF u

\* The row a request is about to write.
Stored(r) ==
    LET s == request[r].cur
    IN  Updated(View(r)[s], request[r].held[s],
                IF r = "turn" THEN NewRow
                ELSE Closing(request[r].held[s], request[r].qty, request[r].gained))

LEMMA StoredFits ==
    ASSUME IInv, NEW r \in DOMAIN request, request[r].pc = "writing"
    PROVE  /\ Stored(r) \in Rows /\ RowFits(Stored(r)) /\ Stored(r).status # "NONE"
           /\ r # "turn" /\ request[r].aim # {} => Stored(r).status = "CLOSED"
<1> DEFINE q == request[r]
           w == session[r]
           s == q.cur
           h == q.held[s]
           v == View(r)[s]
           new == IF r = "turn" THEN NewRow ELSE Closing(h, q.qty, q.gained)
           u == Updated(v, h, new)
<1>1. /\ q.pc = "writing" /\ s \in Strategies /\ s \notin q.todo
      /\ IF r = "turn"
         THEN h = NoRow /\ DOMAIN w.rows = {} /\ row[s].status = "NONE"
         ELSE /\ Opened(h) /\ row[s].status # "NONE" /\ q.qty > 0
              /\ q.aim # {} \/ h.status # "OPEN" => h.left <= q.qty
  BY Parts DEF RowsKept
<1>2. q \in Works /\ w \in Writes /\ h \in Rows /\ Placed(r, q, w) /\ RowsKept(r, q, w, row)
  BY <1>1, Parts DEF Works
<1>3. RowFits(v) /\ (r # "turn" => v.status # "NONE") /\ (r = "turn" => v.status = "NONE")
  <2>1. r = "turn" => v = row[s]
    BY <1>1 DEF View
  <2> QED
    BY <1>1, <2>1, SeenFits
<1>4. /\ u \in Rows /\ RowFits(u) /\ u.status # "NONE"
      /\ r # "turn" /\ q.aim # {} => u.status = "CLOSED"
  <2>1. CASE r = "turn"
    <3>1. u.status = NewRow.status /\ u \in Rows /\ RowFits(u)
      BY <1>1, <1>2, <1>3, <2>1, UpdateFits, ValueFacts
    <3> QED
      BY <2>1, <3>1, ValueFacts
  <2>2. CASE r # "turn"
    <3>1. h.left \in 1..Lot /\ h.realized \in Int /\ h.status \in {"OPEN", "PARTIAL"}
      BY <1>1, <2>2, Sizes DEF Opened, RowFits, Rows, IsOpen
    <3>2. q.qty \in Nat /\ q.qty > 0 /\ q.gained \in Int
      BY <1>1, <1>2, <2>2 DEF Works
    <3>3. new = Closing(h, q.qty, q.gained)
      BY <2>2
    <3> HIDE DEF h, new, q
    <3>4. /\ new.status = (IF h.left <= q.qty THEN "CLOSED" ELSE "PARTIAL")
          /\ new.left = (IF h.left <= q.qty THEN 0 ELSE h.left - q.qty)
          /\ DOMAIN new = {"status", "left", "realized", "today"}
      BY <3>3 DEF Closing
    <3>5. h.realized + q.gained * (IF h.left <= q.qty THEN h.left ELSE q.qty) \in Int
      BY <3>1, <3>2
    <3>6. (IF h.left <= q.qty THEN 0 ELSE h.left - q.qty) \in 0..Lot
      BY <3>1, <3>2, Sizes
    <3>7. new \in Rows
      BY <3>3, <3>5, <3>6 DEF Closing, Rows
    <3>8. \/ h.status = "OPEN" /\ new.status = "PARTIAL" /\ new.left > 0 /\ new.left # h.left
          \/ IsOpen(h) /\ h.left > 0 /\ new.status = "CLOSED" /\ new.left = 0
      <4>1. CASE h.left <= q.qty
        BY <4>1, <3>1, <3>4 DEF IsOpen
      <4>2. CASE ~(h.left <= q.qty)
        <5>1. h.status = "OPEN"
          BY <4>2, <1>1, <2>2, <3>1
        <5> QED
          BY <5>1, <4>2, <3>1, <3>2, <3>4
      <4> QED
        BY <4>1, <4>2
    <3>9. RowFits(v) /\ h \in Rows
      BY <1>2, <1>3
    <3>10. u \in Rows /\ RowFits(u) /\ u.status = new.status
      <4> HIDE DEF v
      <4> QED
        BY <3>7, <3>8, <3>9, UpdateFits
    <3>11. new.status # "NONE" /\ (h.left <= q.qty => new.status = "CLOSED")
      BY <3>4
    <3>12. q.aim # {} => h.left <= q.qty
      BY <1>1, <2>2
    <3> QED
      BY <3>10, <3>11, <3>12
  <2> QED
    BY <2>1, <2>2
<1>5. u = Stored(r)
  BY DEF Stored
<1> QED
  BY <1>4, <1>5

LEMMA WriteKeeps ==
    ASSUME IInv, NEW r \in DOMAIN request, Write(r)
    PROVE  IInv'
<1> DEFINE q == request[r]
           w == session[r]
           s == q.cur
           u == Stored(r)
           q2 == request'[r]
           w2 == session'[r]
<1>1. /\ q.pc = "writing" /\ s \in Strategies /\ s \notin q.todo
      /\ r # "turn" => row[s].status # "NONE"
  BY Parts DEF Write, At, RowsKept
<1>2. q \in Works /\ w \in Writes /\ Placed(r, q, w) /\ RowsKept(r, q, w, row)
  BY Parts
<1>3. u \in Rows /\ RowFits(u) /\ u.status # "NONE"
  BY <1>1, StoredFits
<1>4. /\ session' = [session EXCEPT ![r].rows = With(@, s, u)]
      /\ request' = [request EXCEPT ![r].pc = AfterWrite(r), ![r].cur = None, ![r].qty = 0,
                                    ![r].gained = 0, ![r].held[s] = NoRow]
      /\ UNCHANGED <<db, world, mixed>>
  BY DEF Write, RowWrite, history, Stored
<1> HIDE DEF u
<1>5. /\ w2.funds = w.funds /\ w2.stopped = w.stopped /\ w2.rows = With(w.rows, s, u)
      /\ w2 = [rows |-> With(w.rows, s, u), funds |-> w.funds, stopped |-> w.stopped]
      /\ session' = [session EXCEPT ![r] = w2]
  BY <1>4, <1>2, Parts DEF IInv, TypeInv, Writes
<1>6. /\ DOMAIN w2.rows = DOMAIN w.rows \cup {s}
      /\ w2.rows[s] = u /\ \A x \in DOMAIN w.rows \ {s} : w2.rows[x] = w.rows[x]
      /\ w2.rows \in [DOMAIN w.rows \cup {s} -> Rows] /\ DOMAIN w.rows \cup {s} \subseteq Strategies
  BY <1>5, <1>3, <1>1, Parts DEF With
<1>7. w2 \in Writes
  <2>1. w2.rows \in Written
    BY <1>6 DEF Written
  <2> QED
    BY <2>1, <1>5, <1>2 DEF Writes
<1>8. /\ q2.pc = AfterWrite(r) /\ q2.todo = q.todo /\ q2.aim = q.aim
      /\ q2.held = [q.held EXCEPT ![s] = NoRow]
      /\ q2 = [q EXCEPT !.pc = AfterWrite(r), !.cur = None, !.qty = 0, !.gained = 0,
                        !.held = [q.held EXCEPT ![s] = NoRow]]
      /\ request' = [request EXCEPT ![r] = q2]
  BY <1>4, <1>2, Parts DEF IInv, TypeInv, Works
<1>9. (AfterWrite(r) = "closing" /\ r = "monitor" /\ q.aim # {}) \/ AfterWrite(r) = "summing"
  BY DEF AfterWrite, Closes
<1>10. q2 \in Works
  <2>1. [q.held EXCEPT ![s] = NoRow] \in [Strategies -> Rows]
    BY <1>2, ValueFacts DEF Works
  <2>2. AfterWrite(r) \in Places
    BY <1>9 DEF Places
  <2> DEFINE place == AfterWrite(r)
             held == [q.held EXCEPT ![s] = NoRow]
  <2>3. /\ q2 = [q EXCEPT !.pc = place, !.cur = None, !.qty = 0, !.gained = 0, !.held = held]
        /\ place \in Places /\ held \in [Strategies -> Rows]
    BY <2>1, <2>2, <1>8
  <2> HIDE DEF q2, place, held, q
  <2>4. q2 = [pc |-> place, todo |-> q.todo, aim |-> q.aim, held |-> held, cur |-> None,
              qty |-> 0, gained |-> 0, sums |-> q.sums, read |-> q.read]
    BY <2>3, <1>2 DEF Works
  <2> QED
    BY <2>3, <2>4, <1>2 DEF Works
<1>11. Moves(r, q2, w2) /\ mixed' = mixed
  BY <1>4, <1>5, <1>8 DEF Moves
<1> HIDE DEF q2, w2
<1>12. Placed(r, q2, w2)
  BY <1>8, <1>9, <1>2, <1>1 DEF Placed
<1>13. RowsKept(r, q2, w2, row)
  <2>1. \A x \in DOMAIN w2.rows : RowFits(w2.rows[x]) /\ w2.rows[x].status # "NONE"
    BY <1>6, <1>3, <1>2 DEF RowsKept
  <2>2. r # "turn" => \A x \in DOMAIN w2.rows \cup q2.aim : row[x].status # "NONE"
    BY <1>6, <1>8, <1>1, <1>2 DEF RowsKept
  <2>3. q2.aim # {} => \A x \in q2.todo : Opened(q2.held[x]) /\ row[x].status # "NONE"
    <3>1. \A x \in q.todo : q2.held[x] = q.held[x]
      BY <1>8, <1>1, <1>2 DEF Works
    <3> QED
      BY <3>1, <1>8, <1>2 DEF RowsKept
  <2>4. q2.pc # "writing"
    BY <1>8, <1>9
  <2> QED
    BY <2>1, <2>2, <2>3, <2>4 DEF RowsKept
<1>14. ~Summed(r, q2, w2) /\ (FundsInv => FundsKept(r, q2, w2, row, funds))
  BY <1>8, <1>9, <1>6 DEF Summed, FundsKept
<1>15. w2.funds # {} => w.funds # {}
  BY <1>5
<1>16. mixed \in BOOLEAN
  BY DEF IInv, TypeInv
<1> QED
  BY <1>7, <1>10, <1>11, <1>12, <1>13, <1>14, <1>15, <1>16, MovesKeep

LEMMA SumUpKeeps ==
    ASSUME IInv, NEW r \in DOMAIN request, SumUp(r)
    PROVE  IInv'
<1> DEFINE q == request[r]
           w == session[r]
           d == Derived(View(r))
           f == FundsSeen(r)
           q2 == [q EXCEPT !.pc = "funding", !.sums = d, !.read = f]
<1>1. q \in Works /\ w \in Writes /\ Placed(r, q, w) /\ RowsKept(r, q, w, row)
  BY Parts
<1>2. /\ q.pc \in {"summing", "closing"}
      /\ mixed' = (mixed \/ \E p \in DOMAIN session \ {r} : DOMAIN session[p].rows # {})
      /\ session' = session /\ UNCHANGED <<db, world>>
      /\ request' = [request EXCEPT ![r].pc = "funding", ![r].sums = d, ![r].read = f]
  BY DEF SumUp, At
<1>3. d \in Purses /\ f \in Purses /\ d = Derived(Viewed(w, row)) /\ f = Purse(w, funds)
  BY Views, Parts, ViewedTyped, DerivedTyped, PurseTyped
<1> HIDE DEF d, f
<1>4. q2 \in Works
  BY <1>1, <1>3 DEF Works, Places
<1>5. /\ q2.pc = "funding" /\ q2.todo = q.todo /\ q2.aim = q.aim /\ q2.held = q.held
      /\ q2.sums = d /\ q2.read = f
  BY <1>1 DEF Works
<1>6. Moves(r, q2, w)
  <2>1. request' = [request EXCEPT ![r] = q2]
    BY <1>2
  <2> QED
    BY <2>1, <1>2, Parts DEF Moves
<1> HIDE DEF q2
<1>7. Placed(r, q2, w)
  BY <1>1, <1>2, <1>5 DEF Placed
<1>8. RowsKept(r, q2, w, row)
  BY <1>1, <1>5 DEF RowsKept
<1>9. ASSUME ~mixed', OneSummed, FundsInv
      PROVE  /\ FundsKept(r, q2, w, row, funds)
             /\ \A p \in DOMAIN request \ {r} : ~Summed(p, request[p], session[p])
  <2>1. \A p \in DOMAIN request \ {r} : DOMAIN session[p].rows = {}
    BY <1>2, <1>9 DEF IInv, TypeInv
  <2>2. CASE DOMAIN w.rows = {}
    <3>1. Viewed(w, row) = row
      BY <2>2, Parts, ViewedTyped
    <3>2. Same(Purse(w, funds), funds) /\ Same(funds, Derived(row))
      BY <1>9, <2>2, Parts DEF FundsKept, FundsInv
    <3> QED
      BY <3>1, <3>2, <2>1, <2>2, <1>3, <1>5 DEF FundsKept, Summed, Same
  <2>3. CASE DOMAIN w.rows # {}
    BY <2>1, <2>3, <1>3, <1>5 DEF FundsKept, Summed, Same
  <2> QED
    BY <2>2, <2>3
<1>10. mixed' \in BOOLEAN /\ (mixed => mixed')
  BY <1>2 DEF IInv, TypeInv
<1> QED
  BY <1>1, <1>4, <1>6, <1>7, <1>8, <1>9, <1>10, MovesKeep

\* Funds that follow an UPDATE.
LEMMA PurseUpdated ==
    ASSUME NEW p \in Purses, NEW read \in Purses, NEW sums \in Purses
    PROVE  /\ Updated(p, read, sums) \in Purses
           /\ Same(read, p) => Same(Updated(p, read, sums), sums)
           /\ Same(sums, read) => Same(Updated(p, read, sums), p)
<1> DEFINE u == Updated(p, read, sums)
<1>1. u = [x \in {"margin", "realized", "daily"} |-> IF sums[x] # read[x] THEN sums[x] ELSE p[x]]
  BY DEF Updated, Purses
<1>2. /\ u.margin = IF sums.margin # read.margin THEN sums.margin ELSE p.margin
      /\ u.realized = IF sums.realized # read.realized THEN sums.realized ELSE p.realized
  BY <1>1
<1>3. u \in Purses
  BY <1>1 DEF Purses
<1> HIDE DEF u
<1>4. Same(read, p) => Same(u, sums)
  BY <1>2 DEF Same
<1>5. Same(sums, read) => Same(u, p)
  BY <1>2 DEF Same
<1> QED
  BY <1>3, <1>4, <1>5 DEF u

LEMMA WriteFundsKeeps ==
    ASSUME IInv, NEW r \in DOMAIN request, WriteFunds(r)
    PROVE  IInv'
<1> DEFINE q == request[r]
           w == session[r]
           p == Purse(w, funds)
           u == Updated(p, q.read, q.sums)
           same == q.sums = q.read
           q2 == [q EXCEPT !.pc = AfterFunds(r), !.sums = Empty, !.read = Empty]
           w2 == IF same THEN w ELSE [w EXCEPT !.funds = {u}]
<1>1. /\ q \in Works /\ w \in Writes /\ Placed(r, q, w) /\ RowsKept(r, q, w, row)
      /\ q.sums \in Purses /\ q.read \in Purses /\ q.pc = "funding"
  BY Parts DEF WriteFunds, At, Works
<1>2. p \in Purses /\ p = FundsSeen(r) /\ (w.funds = {} => p = funds)
  BY Parts, Views, PurseTyped DEF Purse
<1>3. /\ u \in Purses
      /\ Same(q.read, p) => Same(u, q.sums)
      /\ Same(q.sums, q.read) => Same(u, p)
  BY <1>1, <1>2, PurseUpdated
<1>4. /\ request' = [request EXCEPT ![r] = q2] /\ UNCHANGED <<db, world>> /\ mixed' = mixed
      /\ session' = [session EXCEPT ![r] = w2]
      /\ same \/ FundsFree(r)
  <2>1. session' = IF same THEN session ELSE [session EXCEPT ![r].funds = {u}]
    BY <1>2 DEF WriteFunds
  <2>2. session' = [session EXCEPT ![r] = w2]
    BY <2>1, Parts
  <2> QED
    BY <2>2 DEF WriteFunds, history
<1> HIDE DEF u, p
<1>5. w2 \in Writes /\ w2.rows = w.rows /\ w2.funds = IF same THEN w.funds ELSE {u}
  BY <1>1, <1>3 DEF Writes
<1>6. Purse(w2, funds) = IF same THEN p ELSE u
  <2>1. CASE same
    BY <2>1, <1>5 DEF Purse, p
  <2>2. CASE ~same
    <3>1. w2.funds = {u}
      BY <2>2, <1>5
    <3>2. (CHOOSE g \in w2.funds : TRUE) = u
      BY <3>1
    <3>3. w2.funds # {}
      BY <3>1
    <3>4. Purse(w2, funds) = u
      BY <3>2, <3>3 DEF Purse
    <3> QED
      BY <2>2, <3>4
  <2> QED
    BY <2>1, <2>2
<1>7. /\ AfterFunds(r) \in {"committing", "closing", "checking"}
      /\ AfterFunds(r) = "checking" => q.aim = {}
      /\ AfterFunds(r) = "closing" => q.aim # {}
      /\ r \in {"squareoff", "estop"} => AfterFunds(r) # "checking"
      /\ r = "turn" => AfterFunds(r) = "committing"
  BY <1>1 DEF AfterFunds, Closes, Placed
<1>8. q2 \in Works
  <2> DEFINE place == AfterFunds(r)
  <2>1. place \in Places
    BY <1>7 DEF Places
  <2> HIDE DEF place, q
  <2>2. q2 = [q EXCEPT !.pc = place, !.sums = Empty, !.read = Empty]
    BY DEF place
  <2> HIDE DEF q2
  <2>3. q2 = [pc |-> place, todo |-> q.todo, aim |-> q.aim, held |-> q.held, cur |-> q.cur,
              qty |-> q.qty, gained |-> q.gained, sums |-> Empty, read |-> Empty]
    BY <2>2, <1>1 DEF Works
  <2> QED
    BY <2>1, <2>3, <1>1, IdleTyped DEF Works
<1>9. /\ q2.pc = AfterFunds(r) /\ q2.todo = q.todo /\ q2.aim = q.aim /\ q2.held = q.held
  BY <1>1 DEF Works
<1>10. Moves(r, q2, w2)
  BY <1>4 DEF Moves
<1> HIDE DEF q2, w2
<1>11. Placed(r, q2, w2)
  BY <1>9, <1>7, <1>1 DEF Placed
<1>12. RowsKept(r, q2, w2, row)
  BY <1>1, <1>5, <1>7, <1>9 DEF RowsKept
<1>13. ASSUME FundsInv
       PROVE  /\ FundsKept(r, q2, w2, row, funds)
              /\ Summed(r, q2, w2) => Summed(r, q, w)
  <2>1. FundsKept(r, q, w, row, funds)
    BY <1>13, Parts
  <2>2. Viewed(w2, row) = Viewed(w, row)
    BY <1>5 DEF Viewed
  <2>3. Summed(r, q, w) <=> DOMAIN w.rows # {}
    BY <1>1 DEF Summed
  <2>4. CASE DOMAIN w.rows # {}
    <3>1. Same(q.sums, Derived(Viewed(w, row))) /\ Same(q.read, p)
      BY <2>1, <2>3, <2>4, <1>1 DEF FundsKept, p
    <3>2. Same(Purse(w2, funds), q.sums)
      BY <3>1, <1>3, <1>6 DEF Same
    <3>3. Same(Purse(w2, funds), Derived(Viewed(w2, row)))
      BY <3>1, <3>2, <2>2 DEF Same
    <3> QED
      BY <3>3, <2>3, <2>4, <1>5, <1>7, <1>9 DEF FundsKept
  <2>5. CASE DOMAIN w.rows = {}
    <3>1. Same(q.sums, q.read) /\ Same(p, funds)
      BY <2>1, <2>3, <2>5, <1>1 DEF FundsKept, p
    <3>2. Same(Purse(w2, funds), p)
      BY <3>1, <1>3, <1>6 DEF Same
    <3>3. Same(Purse(w2, funds), funds)
      BY <3>1, <3>2 DEF Same
    <3> QED
      BY <3>3, <2>5, <1>5, <1>7, <1>9 DEF FundsKept, Summed
  <2> QED
    BY <2>4, <2>5
<1>14. w2.funds # {} => w.funds # {} \/ FundsFree(r)
  BY <1>4, <1>5
<1>15. mixed \in BOOLEAN
  BY DEF IInv, TypeInv
<1> QED
  BY <1>4, <1>5, <1>8, <1>10, <1>11, <1>12, <1>13, <1>14, <1>15, MovesKeep

\* A step of a request that has written no row.
LEMMA RowlessKeeps ==
    ASSUME IInv, NEW r \in DOMAIN request, NEW q \in Works, NEW w \in Writes, Moves(r, q, w),
           mixed' = mixed, Placed(r, q, w), RowsKept(r, q, w, row),
           session[r].rows = NoWrites.rows, session[r].funds = {},
           w.rows = NoWrites.rows, w.funds = {}, q.pc # "funding"
    PROVE  IInv'
<1>1. DOMAIN w.rows = {} /\ Purse(w, funds) = funds /\ mixed \in BOOLEAN
  BY IdleTyped DEF Purse, IInv, TypeInv
<1>2. ~Summed(r, q, w)
  BY <1>1 DEF Summed
<1>3. FundsKept(r, q, w, row, funds)
  BY <1>1, <1>2 DEF FundsKept, Same
<1> QED
  BY <1>1, <1>2, <1>3, MovesKeep

\* At rest and until the strategies are stopped, nothing has been written.
LEMMA NothingYet ==
    ASSUME IInv, NEW r \in DOMAIN request, request[r].pc \in {"idle", "judging", "stopping"}
    PROVE  session[r].rows = NoWrites.rows /\ session[r].funds = {} /\ request[r].aim = {}
BY Parts, IdleTyped DEF Placed

LEMMA BeginKeeps ==
    ASSUME IInv, NEW r \in DOMAIN request, r = "monitor", Begin(r)
    PROVE  IInv'
<1> DEFINE q == request[r]
           q2 == [q EXCEPT !.pc = "judging", !.todo = active]
<1>1. /\ q \in Works /\ session[r] \in Writes /\ q.pc = "idle" /\ q.aim = {}
      /\ session[r].rows = NoWrites.rows /\ session[r].funds = {} /\ active \subseteq Strategies
  BY Parts, NothingYet DEF Begin, At, IInv, TypeInv
<1>2. q2 \in Works /\ q2.pc = "judging" /\ q2.aim = {}
  BY <1>1 DEF Works, Places
<1>3. Moves(r, q2, session[r]) /\ mixed' = mixed
  BY Parts DEF Moves, Begin, history
<1> HIDE DEF q2
<1>4. Placed(r, q2, session[r])
  BY <1>1, <1>2 DEF Placed
<1>5. RowsKept(r, q2, session[r], row)
  BY <1>1, <1>2, IdleTyped DEF RowsKept
<1> QED
  BY <1>1, <1>2, <1>3, <1>4, <1>5, RowlessKeeps

LEMMA JudgeKeeps ==
    ASSUME IInv, NEW r \in DOMAIN request, r = "monitor", Judge(r)
    PROVE  IInv'
<1> DEFINE q == request[r]
<1>1. /\ q \in Works /\ session[r] \in Writes /\ q.pc = "judging" /\ q.aim = {}
      /\ session[r].rows = NoWrites.rows /\ session[r].funds = {}
  BY Parts, NothingYet DEF Judge, At
<1>2. UNCHANGED <<db, world>> /\ mixed' = mixed
  BY DEF Judge, history
<1>3. CASE Done(r)
  <2>1. Moves(r, Idle, NoWrites)
    BY <1>2, <1>3 DEF Done, Moves
  <2> QED
    BY <1>1, <1>2, <2>1, IdleTyped, RestFits, RowlessKeeps
<1>4. ASSUME NEW place \in {"checking", "stopping"}, Goto(r, place), UNCHANGED session
      PROVE  IInv'
  <2> DEFINE q2 == [q EXCEPT !.pc = place]
  <2>1. q2 \in Works /\ q2.pc = place /\ q2.aim = {}
    BY <1>1 DEF Works, Places
  <2>2. request' = [request EXCEPT ![r] = q2]
    BY <1>4 DEF Goto
  <2> HIDE DEF q2
  <2>3. Moves(r, q2, session[r])
    BY <1>2, <1>4, <2>2, Parts DEF Moves
  <2>4. Placed(r, q2, session[r])
    BY <1>1, <2>1 DEF Placed
  <2>5. RowsKept(r, q2, session[r], row)
    BY <1>1, <2>1, IdleTyped DEF RowsKept
  <2>6. q2.pc # "funding"
    BY <2>1
  <2> QED
    BY <1>1, <1>2, <2>1, <2>3, <2>4, <2>5, <2>6, RowlessKeeps
<1> QED
  BY <1>3, <1>4 DEF Judge

\* The rows a square-off sets out to close are held as they are.
LEMMA AimKeeps ==
    ASSUME IInv, NEW r \in DOMAIN request, r # "turn", NEW S \in SUBSET OpenRows, S # {},
           request[r].pc \in {"idle", "judging", "stopping"},
           NEW w \in Writes, w.rows = session[r].rows, w.funds = session[r].funds,
           session' = [session EXCEPT ![r] = w], UNCHANGED <<row, funds, world, mixed, active>>,
           request' = [request EXCEPT ![r] =
              [request[r] EXCEPT !.pc = "closing", !.todo = S, !.aim = S, !.held = Holding(S)]]
    PROVE  IInv'
<1> DEFINE q == request[r]
           q2 == [q EXCEPT !.pc = "closing", !.todo = S, !.aim = S, !.held = Holding(S)]
<1>1. /\ q \in Works /\ session[r].rows = NoWrites.rows /\ session[r].funds = {}
      /\ S \subseteq Strategies /\ row \in [Strategies -> Rows]
  BY Parts, NothingYet DEF OpenRows
<1>2. Holding(S) \in [Strategies -> Rows]
  BY <1>1, ValueFacts DEF Holding
<1>3. /\ q2 \in Works /\ q2.pc = "closing" /\ q2.todo = S /\ q2.aim = S /\ q2.held = Holding(S)
  BY <1>1, <1>2 DEF Works, Places
<1>4. Moves(r, q2, w)
  BY DEF Moves, db
<1> HIDE DEF q2
<1>5. Placed(r, q2, w)
  BY <1>3 DEF Placed
<1>6. \A s \in S : Opened(Holding(S)[s]) /\ row[s].status # "NONE"
  BY <1>1 DEF Holding, Opened, OpenRows, IsOpen, IInv, RowsInv
<1>7. RowsKept(r, q2, w, row)
  BY <1>1, <1>3, <1>6, IdleTyped DEF RowsKept
<1> QED
  BY <1>1, <1>3, <1>4, <1>5, <1>7, RowlessKeeps

LEMMA StopAllKeeps ==
    ASSUME IInv, NEW r \in DOMAIN request, r # "turn", NEW squares \in BOOLEAN,
           request[r].pc \in {"idle", "stopping"}, StopAll(r, squares),
           UNCHANGED <<row, funds, active, world, mixed>>
    PROVE  IInv'
<1> DEFINE q == request[r]
           w2 == [session[r] EXCEPT !.stopped = active]
<1>1. /\ q \in Works /\ session[r] \in Writes /\ q.aim = {} /\ active \subseteq Strategies
      /\ session[r].rows = NoWrites.rows /\ session[r].funds = {}
  BY Parts, NothingYet DEF IInv, TypeInv
<1>2. w2 \in Writes /\ w2.rows = session[r].rows /\ w2.funds = session[r].funds
  BY <1>1 DEF Writes
<1>3. session' = [session EXCEPT ![r] = w2]
  BY DEF StopAll
<1> HIDE DEF w2
<1>4. CASE squares /\ OpenRows # {}
  <2>1. request' = [request EXCEPT ![r] =
            [request[r] EXCEPT !.pc = "closing", !.todo = OpenRows, !.aim = OpenRows,
                               !.held = Holding(OpenRows)]]
    BY <1>4 DEF StopAll
  <2> QED
    BY <1>2, <1>3, <1>4, <2>1, AimKeeps
<1>5. CASE ~(squares /\ OpenRows # {})
  <2> DEFINE q2 == [q EXCEPT !.pc = "committing", !.todo = {}]
  <2>1. q2 \in Works /\ q2.pc = "committing" /\ q2.aim = {} /\ q2.todo = {}
    BY <1>1 DEF Works, Places
  <2>2. request' = [request EXCEPT ![r] = q2]
    BY <1>5 DEF StopAll
  <2> HIDE DEF q2
  <2>3. Moves(r, q2, w2)
    BY <1>3, <2>2 DEF Moves, db
  <2>4. Placed(r, q2, w2)
    BY <2>1 DEF Placed
  <2>5. RowsKept(r, q2, w2, row)
    BY <1>1, <1>2, <2>1, IdleTyped DEF RowsKept
  <2>6. q2.pc # "funding"
    BY <2>1
  <2> QED
    BY <1>1, <1>2, <2>1, <2>3, <2>4, <2>5, <2>6, RowlessKeeps
<1> QED
  BY <1>4, <1>5

LEMMA StopKeeps ==
    ASSUME IInv, NEW r \in DOMAIN request,
           \/ r = "monitor" /\ Stop(r) /\ guard.squares \in BOOLEAN
           \/ r = "estop" /\ EmergencyStop(r)
    PROVE  IInv'
<1>1. PICK squares \in BOOLEAN : StopAll(r, squares)
  BY DEF Stop, EmergencyStop
<1>2. request[r].pc \in {"idle", "stopping"} /\ UNCHANGED <<row, funds, active, world, mixed>>
  BY DEF Stop, EmergencyStop, At, db, history
<1> QED
  BY <1>1, <1>2, StopAllKeeps

LEMMA LookKeeps ==
    ASSUME IInv, NEW r \in DOMAIN request, r = "monitor", Look(r)
    PROVE  IInv'
<1> DEFINE q == request[r]
           w == session[r]
<1>1. PICK s \in q.todo :
        LET seen == View(r)[s]
            n    == ExitOf(seen, gain)
        IN  request' = [request EXCEPT ![r] =
                IF n = 0 THEN [request[r] EXCEPT !.todo = @ \ {s}]
                ELSE [request[r] EXCEPT !.pc = "writing", !.todo = @ \ {s}, !.cur = s,
                                        !.qty = n, !.gained = gain, !.held[s] = seen]]
  BY DEF Look
<1> DEFINE seen == View(r)[s]
           n == ExitOf(seen, gain)
<1>2. /\ q.pc = "checking" /\ q.aim = {} /\ s \in Strategies /\ q \in Works /\ w \in Writes
      /\ Placed(r, q, w) /\ RowsKept(r, q, w, row)
  BY Parts DEF Look, At, Placed, Works
<1>3. mixed' = mixed /\ mixed \in BOOLEAN /\ session' = session /\ UNCHANGED <<db, world>>
  BY DEF Look, history, IInv, TypeInv
<1>4. RowFits(seen) /\ (seen.status # "NONE" => row[s].status # "NONE")
  BY <1>2, SeenFits
<1> HIDE DEF seen
<1>5. CASE n # 0
  <2>1. Opened(seen) /\ seen.status # "NONE" /\ seen \in Rows
    BY <1>4, <1>5 DEF ExitOf, Opened, IsOpen, RowFits
  <2>2. n \in Nat /\ n > 0 /\ (seen.status # "OPEN" => seen.left <= n)
    <3>1. seen.left \in Nat
      BY <2>1, Sizes DEF Rows
    <3> QED
      BY <1>5, <3>1, <2>1 DEF ExitOf, Opened
  <2> DEFINE held == [q.held EXCEPT ![s] = seen]
             q2 == [q EXCEPT !.pc = "writing", !.todo = @ \ {s}, !.cur = s, !.qty = n,
                             !.gained = gain, !.held[s] = seen]
  <2>3. request' = [request EXCEPT ![r] = q2]
    BY <1>1, <1>5 DEF seen
  <2> HIDE DEF n
  <2>4. held \in [Strategies -> Rows] /\ held[s] = seen
    BY <1>2, <2>1 DEF Works
  <2> HIDE DEF q
  <2>5. q2 = [q EXCEPT !.pc = "writing", !.todo = q.todo \ {s}, !.cur = s, !.qty = n,
                       !.gained = gain, !.held = held]
    BY <1>2 DEF Works
  <2> HIDE DEF q2, held
  <2>6. q2 = [pc |-> "writing", todo |-> q.todo \ {s}, aim |-> q.aim, held |-> held, cur |-> s,
              qty |-> n, gained |-> gain, sums |-> q.sums, read |-> q.read]
    BY <2>5, <1>2 DEF Works
  <2>7. q2 \in Works
    BY <2>6, <2>4, <2>2, <1>2, Parts DEF Works, Places
  <2>8. Moves(r, q2, w)
    BY <2>3, <1>3, Parts DEF Moves
  <2>9. Placed(r, q2, w)
    BY <2>6, <1>2 DEF Placed
  <2>10. RowsKept(r, q2, w, row)
    BY <2>1, <2>2, <2>4, <2>6, <1>2, <1>4 DEF RowsKept
  <2>11. ~Summed(r, q2, w) /\ (FundsInv => FundsKept(r, q2, w, row, funds))
    BY <2>6, Parts DEF FundsKept, Summed
  <2> QED
    BY <2>7, <2>8, <2>9, <2>10, <2>11, <1>2, <1>3, MovesKeep
<1>6. CASE n = 0
  <2> DEFINE q2 == [q EXCEPT !.todo = @ \ {s}]
  <2>1. request' = [request EXCEPT ![r] = q2]
    BY <1>1, <1>6 DEF seen
  <2> HIDE DEF n
  <2>2. q2 \in Works /\ q2.pc = "checking" /\ q2.aim = {}
    BY <1>2 DEF Works
  <2> HIDE DEF q2
  <2>3. Moves(r, q2, w)
    BY <2>1, <1>3, Parts DEF Moves
  <2>4. Placed(r, q2, w)
    BY <2>2, <1>2 DEF Placed
  <2>5. RowsKept(r, q2, w, row)
    BY <2>2, <1>2 DEF RowsKept
  <2>6. FundsInv => FundsKept(r, q2, w, row, funds)
    BY <2>2, <1>2, Parts DEF FundsKept, Summed
  <2>7. Summed(r, q2, w) => Summed(r, q, w)
    BY <2>2, <1>2 DEF Summed
  <2> QED
    BY <2>2, <2>3, <2>4, <2>5, <2>6, <2>7, <1>2, <1>3, MovesKeep
<1> QED
  BY <1>5, <1>6

LEMMA SquareOffKeeps ==
    ASSUME IInv, NEW r \in DOMAIN request, r = "squareoff", SquareOff(r)
    PROVE  IInv'
<1>1. PICK priced \in SUBSET (OpenRows \cap Intraday) :
        /\ priced # {}
        /\ request' = [request EXCEPT ![r].pc = "closing", ![r].todo = priced,
                                      ![r].aim = priced, ![r].held = Holding(priced)]
  BY DEF SquareOff
<1>2. /\ request[r].pc = "idle" /\ session' = session /\ session[r] \in Writes
      /\ session = [session EXCEPT ![r] = session[r]]
      /\ UNCHANGED <<row, funds, world, mixed, active>>
  BY Parts DEF SquareOff, At, db
<1>3. priced \in SUBSET OpenRows
  OBVIOUS
<1>4. request' = [request EXCEPT ![r] =
          [request[r] EXCEPT !.pc = "closing", !.todo = priced, !.aim = priced,
                             !.held = Holding(priced)]]
  BY <1>1
<1>5. PICK w \in Writes : w = session[r]
  BY <1>2
<1>6. session' = [session EXCEPT ![r] = w] /\ w.rows = session[r].rows /\ w.funds = session[r].funds
  BY <1>2, <1>5
<1>7. request[r].pc \in {"idle", "judging", "stopping"} /\ r # "turn" /\ priced # {}
  BY <1>1, <1>2
<1> QED
  BY <1>2, <1>3, <1>4, <1>6, <1>7, AimKeeps

LEMMA TurnKeeps ==
    ASSUME IInv, NEW r \in DOMAIN request, r = "turn", Turn(r)
    PROVE  IInv'
<1> DEFINE q == request[r]
           w == session[r]
<1>1. PICK s \in active :
        row[s] = NoRow /\ request' = [request EXCEPT ![r].pc = "writing", ![r].cur = s]
  BY DEF Turn
<1> DEFINE q2 == [q EXCEPT !.pc = "writing", !.cur = s]
<1>2. /\ q = Idle /\ w = NoWrites /\ q \in Works /\ w \in Writes /\ s \in Strategies
      /\ UNCHANGED <<db, world>> /\ session' = session /\ mixed' = mixed
  BY Parts DEF Turn, At, Placed, history, IInv, TypeInv
<1>3. /\ q2 \in Works /\ q2.pc = "writing" /\ q2.cur = s /\ q2.aim = {} /\ q2.todo = {}
      /\ q2.held = Idle.held
  BY <1>2, IdleTyped DEF Works, Places
<1>4. Moves(r, q2, w)
  <2>1. request' = [request EXCEPT ![r] = q2]
    BY <1>1
  <2> QED
    BY <2>1, <1>2, Parts DEF Moves
<1> HIDE DEF q2
<1>5. Placed(r, q2, w)
  BY <1>3 DEF Placed
<1>6. q2.held[s] = NoRow /\ row[s].status = "NONE"
  BY <1>1, <1>2, <1>3, ValueFacts DEF Idle
<1>7. RowsKept(r, q2, w, row)
  BY <1>2, <1>3, <1>6, IdleTyped DEF RowsKept
<1> QED
  BY <1>2, <1>3, <1>4, <1>5, <1>7, IdleTyped, RowlessKeeps

\* The sums are not of what a row says of the day.
LEMMA Undated ==
    ASSUME NEW rows \in [Strategies -> Rows]
    PROVE  /\ [s \in Strategies |-> [rows[s] EXCEPT !.today = FALSE]] \in [Strategies -> Rows]
           /\ \A s \in Strategies : RowFits(rows[s]) => RowFits([rows[s] EXCEPT !.today = FALSE])
           /\ Same(Derived(rows), Derived([s \in Strategies |-> [rows[s] EXCEPT !.today = FALSE]]))
<1> DEFINE undated == [s \in Strategies |-> [rows[s] EXCEPT !.today = FALSE]]
<1>1. \A s \in Strategies :
        /\ undated[s] \in Rows /\ undated[s] = [rows[s] EXCEPT !.today = FALSE]
        /\ undated[s].status = rows[s].status
        /\ undated[s].left = rows[s].left /\ undated[s].realized = rows[s].realized
  BY DEF Rows
<1>2. undated \in [Strategies -> Rows]
  BY <1>1
<1> HIDE DEF undated
<1>3. /\ [s \in Strategies |-> Blocks(s, undated[s])] = [s \in Strategies |-> Blocks(s, rows[s])]
      /\ [s \in Strategies |-> Gained(undated[s])] = [s \in Strategies |-> Gained(rows[s])]
  BY <1>1 DEF Blocks, Gained, IsOpen
<1>4. Same(Derived(rows), Derived(undated))
  BY <1>3 DEF Same, Derived
<1>5. \A s \in Strategies : RowFits(rows[s]) => RowFits(undated[s])
  BY <1>1 DEF RowFits
<1> QED
  BY <1>1, <1>2, <1>4, <1>5 DEF undated

LEMMA MidnightKeeps ==
    ASSUME IInv, Midnight
    PROVE  IInv'
<1>1. /\ row' = [s \in Strategies |-> [row[s] EXCEPT !.today = FALSE]]
      /\ UNCHANGED <<funds, active, gain, request, session, mixed>>
      /\ row \in [Strategies -> Rows] /\ \A s \in Strategies : RowFits(row[s])
  BY DEF Midnight, world, history, IInv, TypeInv, RowsInv
<1>2. row' \in [Strategies -> Rows] /\ Same(Derived(row), Derived(row'))
  BY <1>1, Undated
<1>3. \A s \in Strategies : RowFits(row'[s])
  BY <1>1, Undated
<1>4. \A r \in DOMAIN request : request[r] = Idle /\ session[r] = NoWrites
  BY IdleTyped DEF Midnight, IInv, PlaceInv, Placed
<1>5. TypeInv' /\ PlaceInv' /\ OneFlushed'
  BY <1>1, <1>2 DEF IInv, TypeInv, PlaceInv, OneFlushed
<1>6. RowsInv'
  BY <1>1, <1>3, <1>4, RestFits DEF RowsInv
<1>7. ASSUME ~mixed PROVE OneSummed' /\ FundsInv'
  <2>1. Same(funds, Derived(row'))
    BY <1>2, <1>7 DEF IInv, FundsInv, Same
  <2> QED
    BY <2>1, <1>1, <1>4, RestFits DEF OneSummed, FundsInv
<1> QED
  <2>1. mixed' = mixed
    BY <1>1
  <2>2. ~mixed' => OneSummed' /\ FundsInv'
    BY <2>1, <1>7, Zenon
  <2> QED
    BY <2>2, <1>5, <1>6, Zenon DEF IInv

-----------------------------------------------------------------------------
(* The invariant *)

\* Rows fit and the funds are theirs before the first request.
LEMMA InitIInv == Init => IInv
<1> SUFFICES ASSUME Init PROVE IInv
  OBVIOUS
<1>1. row \in [Strategies -> Rows] /\ \A s \in Strategies : RowFits(row[s])
  BY ValueFacts DEF Init
<1>2. /\ funds = Derived(row) /\ active = Strategies /\ gain = 0 /\ mixed = FALSE
  BY DEF Init
<1>3. PICK case \in Cases : request = [r \in case |-> Idle] /\ session = [r \in case |-> NoWrites]
  BY DEF Init
<1>4. case \subseteq {"monitor", "squareoff", "estop", "turn"}
  BY Universe
<1>5. DOMAIN request = case /\ \A r \in case : request[r] = Idle /\ session[r] = NoWrites
  BY <1>3
<1>6. TypeInv
  <2>1. funds \in Purses
    BY <1>1, <1>2, DerivedTyped
  <2>2. request \in [DOMAIN request -> Works] /\ session \in [DOMAIN request -> Writes]
    BY <1>3, <1>5, IdleTyped
  <2>3. mixed \in BOOLEAN
    BY <1>2
  <2>4. active \subseteq Strategies /\ gain \in Int
    BY <1>2
  <2>5. DOMAIN request \subseteq {"monitor", "squareoff", "estop", "turn"}
    BY <1>4, <1>5
  <2> QED
    BY <1>1, <2>1, <2>2, <2>3, <2>4, <2>5, Zenon DEF TypeInv
<1>7. PlaceInv /\ RowsInv /\ OneFlushed
  BY <1>1, <1>5, RestFits, IdleTyped DEF PlaceInv, RowsInv, OneFlushed
<1>8. OneSummed /\ FundsInv
  BY <1>2, <1>5, RestFits DEF OneSummed, FundsInv, Same
<1> QED
  BY <1>6, <1>7, <1>8 DEF IInv

\* The configuration is the user's, and is not touched.
GuardInv == guard \in Guards

\* Every step keeps the invariant: of a request, of the user, of the market
\* and of the clock.
LEMMA NextIInv ==
    ASSUME IInv, GuardInv, [Next]_vars
    PROVE  IInv'
<1>1. ASSUME NEW r \in DOMAIN request, Step(r) \/ Fail(r) PROVE IInv'
  <2>1. CASE Fail(r) \/ Deadlock(r)
    BY <2>1, EndKeeps
  <2>2. CASE Take(r)
    BY <2>2, TakeKeeps
  <2>3. CASE Write(r)
    BY <2>3, WriteKeeps
  <2>4. CASE SumUp(r)
    BY <2>4, SumUpKeeps
  <2>5. CASE WriteFunds(r)
    BY <2>5, WriteFundsKeeps
  <2>6. CASE Commit(r)
    BY <2>6, CommitKeeps
  <2>7. CASE r = "monitor" /\ Begin(r)
    BY <2>7, BeginKeeps
  <2>8. CASE r = "monitor" /\ Judge(r)
    BY <2>8, JudgeKeeps
  <2>9. CASE r = "monitor" /\ Stop(r)
    <3>1. guard.squares \in BOOLEAN
      BY Universe DEF GuardInv
    <3> QED
      BY <2>9, <3>1, StopKeeps
  <2>10. CASE r = "monitor" /\ Look(r)
    BY <2>10, LookKeeps
  <2> QED
    BY <1>1, <2>1, <2>2, <2>3, <2>4, <2>5, <2>6, <2>7, <2>8, <2>9, <2>10 DEF Step
<1>2. ASSUME NEW r \in DOMAIN request \cap {"squareoff"}, SquareOff(r) PROVE IInv'
  BY <1>2, SquareOffKeeps
<1>3. ASSUME NEW r \in DOMAIN request \cap {"estop"}, EmergencyStop(r) PROVE IInv'
  BY <1>3, StopKeeps
<1>4. ASSUME NEW r \in DOMAIN request \cap {"turn"}, Turn(r) PROVE IInv'
  BY <1>4, TurnKeeps
<1>5. CASE Resume
  <2>1. UNCHANGED <<row, funds, gain, request, session, mixed>> /\ active' = Strategies
    BY <1>5 DEF Resume, world
  <2> QED
    BY <2>1 DEF IInv, TypeInv, PlaceInv, RowsInv, OneFlushed, OneSummed, FundsInv
<1>6. CASE Market
  <2>1. UNCHANGED <<row, funds, active, request, session, mixed>> /\ gain' \in Int
    BY <1>6, Universe DEF Market, db, history
  <2> QED
    BY <2>1 DEF IInv, TypeInv, PlaceInv, RowsInv, OneFlushed, OneSummed, FundsInv
<1>7. CASE Midnight
  BY <1>7, MidnightKeeps
<1>8. CASE UNCHANGED vars
  <2>1. UNCHANGED <<row, funds, active, gain, request, session, mixed>>
    BY <1>8 DEF vars, db, world, history
  <2> QED
    BY <2>1 DEF IInv, TypeInv, PlaceInv, RowsInv, OneFlushed, OneSummed, FundsInv
<1> QED
  BY <1>1, <1>2, <1>3, <1>4, <1>5, <1>6, <1>7, <1>8 DEF Next

\* The configuration of the guardrail stays what the user has set.
LEMMA NextGuard ==
    ASSUME GuardInv, [Next]_vars
    PROVE  GuardInv'
<1>1. guard' = guard
  BY ZenonT(60) DEF Next, Step, Take, Write, SumUp, WriteFunds, Commit, Fail, Deadlock, Begin, Judge, Stop,
         Look, SquareOff, EmergencyStop, Turn, Resume, Market, Midnight, vars, world
<1> QED
  BY <1>1 DEF GuardInv

\* The inductive invariant holds in every state of the system.
THEOREM Invariant == Spec => [](IInv /\ GuardInv)
<1>1. Init => IInv /\ GuardInv
  BY InitIInv DEF Init, GuardInv
<1>2. IInv /\ GuardInv /\ [Next]_vars => (IInv /\ GuardInv)'
  BY NextIInv, NextGuard
<1> QED
  BY <1>1, <1>2, PTL DEF Spec

\* With every request at rest the kept funds are what the rows say: of the
\* margin, and of what was realized.
THEOREM FundsFollow == Spec => []FundsFollowRows
<1>1. IInv => FundsFollowRows
  <2> SUFFICES ASSUME IInv, ~mixed PROVE
                  /\ funds.margin = SumFunction([s \in Strategies |-> Rate(s) * row[s].left])
                  /\ funds.realized = SumFunction([s \in Strategies |-> row[s].realized])
    BY DEF FundsFollowRows
  <2>1. Same(funds, Derived(row))
    BY DEF IInv, FundsInv
  <2>2. ASSUME NEW s \in Strategies
        PROVE  Blocks(s, row[s]) = Rate(s) * row[s].left /\ Gained(row[s]) = row[s].realized
    <3>1. RowFits(row[s])
      BY DEF IInv, RowsInv
    <3>2. Rate(s) * 0 = 0
      BY DEF Rate
    <3> QED
      BY <3>1, <3>2 DEF RowFits, Rows, Blocks, Gained, IsOpen
  <2>3. /\ [s \in Strategies |-> Blocks(s, row[s])] = [s \in Strategies |-> Rate(s) * row[s].left]
        /\ [s \in Strategies |-> Gained(row[s])] = [s \in Strategies |-> row[s].realized]
    BY <2>2
  <2> QED
    BY <2>1, <2>3 DEF Same, Derived
<1> QED
  BY <1>1, Invariant, PTL

-----------------------------------------------------------------------------
(* Square-offs are complete *)

\* The monitors, where they are at work m with writes w, will not write row s
\* as open.
Passing(s, m, w) ==
    /\ ~(m.pc = "writing" /\ m.cur = s)
    /\ s \in DOMAIN w.rows => ~IsOpen(w.rows[s])

\* What request r set out to close is still to come, in hand, closed as it sees
\* it, or passed over while all three were under way; who squares off writes no
\* open row; a turn opens rows only.
Completing(r, q, w, rows, three) ==
    /\ \A s \in q.aim :
          \/ s \in q.todo \/ (q.pc = "writing" /\ q.cur = s) \/ ~IsOpen(Viewed(w, rows)[s])
          \/ three /\ r # "monitor" /\ s \notin DOMAIN w.rows
    /\ r # "turn" /\ (r # "monitor" \/ q.aim # {}) => \A s \in DOMAIN w.rows : ~IsOpen(w.rows[s])
    /\ q.pc = "committing" => q.todo = {}
    /\ r = "turn" => \A s \in DOMAIN w.rows : rows[s].status = "NONE"

\* Beside one square-off, the monitors may hold a row as open that it squares
\* off only as long as the row is open: who closes it is that request, and is
\* not done before.
CInv ==
    /\ DOMAIN request \in Cases
    /\ \A r \in DOMAIN request : Completing(r, request[r], session[r], row, AllThree)
    /\ "monitor" \in DOMAIN request /\ ~AllThree =>
          \A r \in DOMAIN request \cap {"squareoff", "estop"} : \A s \in request[r].aim :
              IsOpen(row[s]) \/ Passing(s, request["monitor"], session["monitor"])

\* One request goes on, and commits nothing.
Moved(r) ==
    /\ row' = row /\ DOMAIN request' = DOMAIN request
    /\ \A p \in DOMAIN request \ {r} : request'[p] = request[p] /\ session'[p] = session[p]

LEMMA MovedComplete ==
    ASSUME CInv, NEW r \in DOMAIN request, Moved(r),
           Completing(r, request'[r], session'[r], row, AllThree),
           r = "monitor" => \A s \in Strategies :
              \/ IsOpen(row[s]) \/ ~Passing(s, request[r], session[r])
              \/ Passing(s, request'[r], session'[r]),
           request'[r].aim = request[r].aim \/ \A s \in request'[r].aim : IsOpen(row[s]),
           \A p \in DOMAIN request : request[p].aim \subseteq Strategies
    PROVE  CInv'
<1>1. DOMAIN request' \in Cases
  BY DEF CInv, Moved
<1>2. \A p \in DOMAIN request : Completing(p, request'[p], session'[p], row, AllThree)
  BY DEF CInv, Moved
<1>3. ASSUME "monitor" \in DOMAIN request, ~AllThree,
             NEW p \in DOMAIN request \cap {"squareoff", "estop"}, NEW s \in request'[p].aim, ~IsOpen(row[s])
      PROVE  Passing(s, request'["monitor"], session'["monitor"])
  <2>1. s \in request[p].aim
    BY <1>3 DEF Moved
  <2>2. Passing(s, request["monitor"], session["monitor"]) /\ s \in Strategies
    BY <1>3, <2>1 DEF CInv
  <2>3. CASE r = "monitor"
    BY <1>3, <2>2, <2>3
  <2>4. CASE r # "monitor"
    BY <1>3, <2>2, <2>4 DEF Moved
  <2> QED
    BY <2>3, <2>4
<1>4. row' = row /\ DOMAIN request' = DOMAIN request
  BY DEF Moved
<1> QED
  BY <1>1, <1>2, <1>3, <1>4 DEF CInv, AllThree

LEMMA AimsTyped ==
    ASSUME IInv
    PROVE  \A p \in DOMAIN request : request[p].aim \subseteq Strategies
BY Parts DEF Works

\* What the steps of one request leave alone.
LEMMA StepMoves ==
    ASSUME IInv, NEW r \in DOMAIN request,
           \/ Begin(r) \/ Judge(r) \/ Stop(r) \/ Look(r) \/ Take(r) \/ Write(r) \/ SumUp(r)
           \/ WriteFunds(r) \/ Fail(r) \/ Deadlock(r) \/ SquareOff(r) \/ EmergencyStop(r) \/ Turn(r)
    PROVE  Moved(r)
<1>1. row' = row
  BY DEF Begin, Judge, Stop, Look, Take, Write, SumUp, WriteFunds, Fail, Deadlock, SquareOff,
         EmergencyStop, Turn, db
<1>2. /\ request \in [DOMAIN request -> Works] /\ session \in [DOMAIN request -> Writes]
  BY DEF IInv, TypeInv
<1>3. CASE Begin(r) \/ Look(r) \/ Take(r) \/ SumUp(r) \/ Turn(r) \/ SquareOff(r)
  BY <1>1, <1>2, <1>3 DEF Begin, Look, Take, SumUp, Turn, SquareOff, Moved
<1>4. CASE Judge(r) \/ Fail(r) \/ Deadlock(r)
  BY <1>1, <1>2, <1>4 DEF Judge, Fail, Deadlock, Goto, Done, Moved
<1>5. CASE Stop(r) \/ EmergencyStop(r)
  BY <1>1, <1>2, <1>5 DEF Stop, EmergencyStop, StopAll, Moved
<1>6. CASE Write(r) \/ WriteFunds(r)
  BY <1>1, <1>2, <1>6 DEF Write, RowWrite, WriteFunds, Moved
<1> QED
  BY <1>3, <1>4, <1>5, <1>6

LEMMA RestComplete ==
    ASSUME NEW r, NEW rows, NEW three
    PROVE  Completing(r, Idle, NoWrites, rows, three) /\ \A s : Passing(s, Idle, NoWrites)
BY IdleTyped DEF Completing, Passing

LEMMA EndComplete ==
    ASSUME IInv, CInv, NEW r \in DOMAIN request, Moved(r), Done(r)
    PROVE  CInv'
<1>1. request'[r] = Idle /\ session'[r] = NoWrites
  BY DEF Done, IInv, TypeInv
<1> QED
  BY <1>1, RestComplete, IdleTyped, AimsTyped, MovedComplete

\* A step to another place, that looks at no row and writes none.
LEMMA OnwardComplete ==
    ASSUME IInv, CInv, NEW r \in DOMAIN request, Moved(r), request[r].pc # "writing",
           request'[r].pc # "writing", request'[r].aim = request[r].aim,
           request'[r].aim # {} => request'[r].todo = request[r].todo,
           session'[r].rows = session[r].rows,
           request'[r].pc = "committing" => request'[r].todo = {}
    PROVE  CInv'
<1>1. Completing(r, request[r], session[r], row, AllThree)
  BY DEF CInv
<1>2. Completing(r, request'[r], session'[r], row, AllThree)
  BY <1>1 DEF Completing, Viewed
<1>3. \A s \in Strategies : Passing(s, request[r], session[r]) => Passing(s, request'[r], session'[r])
  BY DEF Passing
<1> QED
  BY <1>2, <1>3, AimsTyped, MovedComplete

LEMMA TakeComplete ==
    ASSUME IInv, CInv, NEW r \in DOMAIN request, Take(r)
    PROVE  CInv'
<1> DEFINE q == request[r]
           w == session[r]
           q2 == request'[r]
<1>1. PICK s \in q.todo :
        request' = [request EXCEPT ![r] =
            IF StillOpen(r, s)
            THEN [request[r] EXCEPT !.pc = "writing", !.todo = @ \ {s}, !.cur = s, !.qty = Lot,
                                    !.gained = gain]
            ELSE [request[r] EXCEPT !.todo = @ \ {s}]]
  BY DEF Take
<1>2. /\ q.pc = "closing" /\ q.aim # {} /\ r # "turn" /\ s \in Strategies /\ session' = session
      /\ q \in Works /\ Completing(r, q, w, row, AllThree) /\ View(r)[s] = Viewed(w, row)[s]
  BY Parts, Views DEF Take, At, Placed, Works, CInv
<1>3. /\ q2.aim = q.aim /\ q2.todo = q.todo \ {s}
      /\ StillOpen(r, s) => q2.pc = "writing" /\ q2.cur = s
      /\ ~StillOpen(r, s) => q2.pc = "closing"
  <2>1. CASE StillOpen(r, s)
    BY <2>1, <1>1, <1>2 DEF Works
  <2>2. CASE ~StillOpen(r, s)
    BY <2>2, <1>1, <1>2 DEF Works
  <2> QED
    BY <2>1, <2>2
<1> HIDE DEF q2
<1>4. StillOpen(r, s) <=> IsOpen(Viewed(w, row)[s])
  BY <1>2 DEF StillOpen
<1>5. Completing(r, q2, w, row, AllThree)
  BY <1>2, <1>3, <1>4 DEF Completing
<1>6. StillOpen(r, s) => s \notin DOMAIN w.rows /\ IsOpen(row[s])
  BY <1>2, <1>4 DEF Completing, Viewed
<1>7. \A x \in Strategies : IsOpen(row[x]) \/ ~Passing(x, q, w) \/ Passing(x, q2, w)
  BY <1>2, <1>3, <1>6 DEF Passing
<1>8. session'[r] = w /\ Moved(r)
  BY <1>2, StepMoves
<1> QED
  BY <1>3, <1>5, <1>7, <1>8, AimsTyped, MovedComplete DEF q2

LEMMA WriteComplete ==
    ASSUME IInv, CInv, NEW r \in DOMAIN request, Write(r)
    PROVE  CInv'
<1> DEFINE q == request[r]
           w == session[r]
           s == q.cur
           u == Stored(r)
           q2 == request'[r]
           w2 == session'[r]
<1>1. /\ q.pc = "writing" /\ s \in Strategies /\ q \in Works /\ w \in Writes
      /\ Completing(r, q, w, row, AllThree) /\ Placed(r, q, w)
      /\ r = "turn" => row[s].status = "NONE" /\ q.aim = {}
  BY Parts DEF Write, At, RowsKept, Placed, CInv
<1>2. r # "turn" /\ q.aim # {} => u.status = "CLOSED"
  BY <1>1, StoredFits
<1>3. /\ session' = [session EXCEPT ![r].rows = With(@, s, u)]
      /\ request' = [request EXCEPT ![r].pc = AfterWrite(r), ![r].cur = None, ![r].qty = 0,
                                    ![r].gained = 0, ![r].held[s] = NoRow]
  BY DEF Write, RowWrite, Stored
<1> HIDE DEF u
<1>4. w2.rows = With(w.rows, s, u)
  BY <1>3, <1>1 DEF IInv, TypeInv, Writes
<1>5. /\ DOMAIN w2.rows = DOMAIN w.rows \cup {s}
      /\ w2.rows[s] = u /\ \A x \in DOMAIN w.rows \ {s} : w2.rows[x] = w.rows[x]
  BY <1>4 DEF With
<1>6. /\ q2.pc = AfterWrite(r) /\ q2.todo = q.todo /\ q2.aim = q.aim
  BY <1>3, <1>1 DEF IInv, TypeInv, Works
<1>7. q2.pc \in {"closing", "summing"}
  BY <1>6 DEF AfterWrite
<1> HIDE DEF q2, w2
<1>8. r # "turn" /\ (r # "monitor" \/ q.aim # {}) => q.aim # {} /\ ~IsOpen(u)
  <2>1. r # "turn" /\ (r # "monitor" \/ q.aim # {}) => q.aim # {}
    BY <1>1, Universe DEF Placed, IInv, TypeInv
  <2> QED
    BY <2>1, <1>2 DEF IsOpen
<1>9. Completing(r, q2, w2, row, AllThree)
  <2>1. ASSUME NEW x \in q2.aim
        PROVE  \/ x \in q2.todo \/ ~IsOpen(Viewed(w2, row)[x])
               \/ AllThree /\ r # "monitor" /\ x \notin DOMAIN w2.rows
    <3>1. x \in Strategies /\ q.aim # {}
      BY <2>1, <1>6, <1>1 DEF Works
    <3>2. CASE x = s
      BY <3>1, <3>2, <1>5, <1>8, <1>1 DEF Viewed
    <3>3. CASE x # s
      BY <3>1, <3>3, <2>1, <1>5, <1>6, <1>1 DEF Completing, Viewed
    <3> QED
      BY <3>2, <3>3
  <2> QED
    BY <2>1, <1>1, <1>5, <1>6, <1>7, <1>8 DEF Completing
<1>10. r = "monitor" => \A x \in Strategies : ~Passing(x, q, w) \/ Passing(x, q2, w2)
  BY <1>1, <1>5, <1>7 DEF Passing
<1>11. Moved(r)
  BY StepMoves
<1> QED
  BY <1>6, <1>9, <1>10, <1>11, AimsTyped, MovedComplete DEF q2, w2

LEMMA FundsComplete ==
    ASSUME IInv, CInv, NEW r \in DOMAIN request, SumUp(r) \/ WriteFunds(r)
    PROVE  CInv'
<1> DEFINE q == request[r]
           q2 == request'[r]
<1>1. q \in Works /\ session[r] \in Writes /\ Placed(r, q, session[r]) /\ Moved(r)
  BY Parts, StepMoves
<1>2. CASE SumUp(r)
  <2>1. q.pc # "writing" /\ session'[r].rows = session[r].rows
    BY <1>2 DEF SumUp, At
  <2>2. q2.pc = "funding" /\ q2.aim = q.aim /\ q2.todo = q.todo
    BY <1>1, <1>2 DEF SumUp, Works
  <2> QED
    BY <1>1, <2>1, <2>2, OnwardComplete
<1>3. CASE WriteFunds(r)
  <2>1. q.pc = "funding"
    BY <1>3 DEF WriteFunds, At
  <2>2. q2.pc = AfterFunds(r) /\ q2.aim = q.aim /\ q2.todo = q.todo
    BY <1>1, <1>3 DEF WriteFunds, Works
  <2>3. session'[r].rows = session[r].rows
    BY <1>1, <1>3 DEF WriteFunds, IInv, TypeInv, Writes
  <2>4. q2.pc # "writing" /\ (q2.pc = "committing" => q2.todo = {})
    BY <1>1, <2>2 DEF AfterFunds, Placed
  <2> QED
    BY <1>1, <2>1, <2>2, <2>3, <2>4, OnwardComplete
<1> QED
  BY <1>2, <1>3

LEMMA BeginComplete ==
    ASSUME IInv, CInv, NEW r \in DOMAIN request, Begin(r) \/ Judge(r)
    PROVE  CInv'
<1>1. Moved(r) /\ request[r] \in Works /\ request[r].pc \in {"idle", "judging"}
  BY Parts, StepMoves DEF Begin, Judge, At
<1>2. request[r].aim = {}
  BY <1>1, NothingYet
<1>3. CASE Done(r)
  BY <1>1, <1>3, EndComplete
<1>4. CASE ~Done(r)
  <2>1. session' = session
    BY <1>4 DEF Begin, Judge
  <2>2. request'[r].pc \in {"judging", "checking", "stopping"} /\ request'[r].aim = {}
    BY <1>1, <1>2, <1>4 DEF Begin, Judge, Goto, Works
  <2> QED
    BY <1>1, <1>2, <2>1, <2>2, OnwardComplete
<1> QED
  BY <1>3, <1>4

\* A square-off sets out from what is open.
LEMMA AimComplete ==
    ASSUME IInv, GuardInv, CInv, NEW r \in DOMAIN request, r # "turn",
           Stop(r) \/ EmergencyStop(r) \/ SquareOff(r)
    PROVE  CInv'
<1> DEFINE q == request[r]
           q2 == request'[r]
<1>1. q \in Works /\ session[r] \in Writes /\ Moved(r) /\ q.pc \in {"idle", "stopping"}
  BY Parts, StepMoves DEF Stop, EmergencyStop, SquareOff, At
<1>2. session[r].rows = NoWrites.rows /\ DOMAIN session[r].rows = {} /\ q.aim = {}
  BY <1>1, NothingYet, IdleTyped
<1>3. /\ session'[r].rows = session[r].rows /\ q2.pc \in {"closing", "committing"}
      /\ q2.aim \subseteq OpenRows /\ q2.aim \subseteq q2.todo
      /\ q2.pc = "committing" => q2.todo = {}
  <2>1. ASSUME SquareOff(r)
        PROVE  /\ session'[r].rows = session[r].rows /\ q2.pc = "closing"
               /\ q2.aim \subseteq OpenRows /\ q2.todo = q2.aim
    <3>1. session' = session
      BY <2>1 DEF SquareOff
    <3>2. PICK priced \in SUBSET (OpenRows \cap Intraday) :
            request' = [request EXCEPT ![r].pc = "closing", ![r].todo = priced,
                                       ![r].aim = priced, ![r].held = Holding(priced)]
      BY <2>1 DEF SquareOff
    <3>3. q2.pc = "closing" /\ q2.todo = priced /\ q2.aim = priced
      BY <3>2, <1>1 DEF Works
    <3> QED
      BY <3>1, <3>3
  <2>2. ASSUME NEW squares \in BOOLEAN, StopAll(r, squares)
        PROVE  /\ session'[r].rows = session[r].rows /\ q2.pc \in {"closing", "committing"}
               /\ q2.aim \subseteq OpenRows /\ q2.aim \subseteq q2.todo
               /\ q2.pc = "committing" => q2.todo = {}
    <3>1. session'[r].rows = session[r].rows
      BY <1>1, <2>2 DEF StopAll, IInv, TypeInv, Writes
    <3>2. CASE squares /\ OpenRows # {}
      <4>1. request' = [request EXCEPT ![r] =
                [request[r] EXCEPT !.pc = "closing", !.todo = OpenRows, !.aim = OpenRows,
                                   !.held = Holding(OpenRows)]]
        BY <2>2, <3>2 DEF StopAll
      <4>2. q2.pc = "closing" /\ q2.todo = OpenRows /\ q2.aim = OpenRows
        BY <4>1, <1>1 DEF Works
      <4> QED
        BY <3>1, <4>2
    <3>3. CASE ~(squares /\ OpenRows # {})
      <4>1. request' = [request EXCEPT ![r] =
                [request[r] EXCEPT !.pc = "committing", !.todo = {}]]
        BY <2>2, <3>3 DEF StopAll
      <4>2. q2.pc = "committing" /\ q2.todo = {} /\ q2.aim = {}
        BY <4>1, <1>1, <1>2 DEF Works
      <4> QED
        BY <3>1, <4>2
    <3> QED
      BY <3>2, <3>3
  <2>3. CASE EmergencyStop(r)
    BY <2>2, <2>3 DEF EmergencyStop
  <2>4. CASE Stop(r)
    <3>1. guard.squares \in BOOLEAN
      BY Universe DEF GuardInv
    <3> QED
      BY <2>2, <2>4, <3>1 DEF Stop
  <2> QED
    BY <2>1, <2>3, <2>4
<1>4. Completing(r, q2, session'[r], row, AllThree)
  BY <1>2, <1>3 DEF Completing
<1>5. \A s \in Strategies : Passing(s, q2, session'[r])
  BY <1>2, <1>3 DEF Passing
<1>6. \A s \in q2.aim : IsOpen(row[s])
  BY <1>3 DEF OpenRows
<1> QED
  BY <1>1, <1>4, <1>5, <1>6, AimsTyped, MovedComplete

\* The exits of a strategy look at its row as the monitors see it.
LEMMA LookComplete ==
    ASSUME IInv, CInv, NEW r \in DOMAIN request, r = "monitor", Look(r)
    PROVE  CInv'
<1> DEFINE q == request[r]
           w == session[r]
           q2 == request'[r]
<1>1. PICK s \in q.todo :
        LET seen == View(r)[s]
            n    == ExitOf(seen, gain)
        IN  request' = [request EXCEPT ![r] =
                IF n = 0 THEN [request[r] EXCEPT !.todo = @ \ {s}]
                ELSE [request[r] EXCEPT !.pc = "writing", !.todo = @ \ {s}, !.cur = s,
                                        !.qty = n, !.gained = gain, !.held[s] = seen]]
  BY DEF Look
<1> DEFINE n == ExitOf(View(r)[s], gain)
<1>2. /\ q \in Works /\ q.pc = "checking" /\ q.aim = {} /\ s \in Strategies /\ Moved(r)
      /\ session' = session
  BY Parts, StepMoves DEF Look, At, Placed, Works
<1>3. /\ q2.aim = {} /\ q2.pc \in {"checking", "writing"}
      /\ q2.pc = "writing" => q2.cur = s /\ n # 0
  <2>1. CASE n = 0
    BY <1>1, <1>2, <2>1 DEF Works
  <2>2. CASE n # 0
    BY <1>1, <1>2, <2>2 DEF Works
  <2> QED
    BY <2>1, <2>2
<1>4. n # 0 => IsOpen(View(r)[s])
  BY DEF ExitOf
<1> HIDE DEF n, q2
<1>5. n # 0 => IsOpen(row[s]) \/ (s \in DOMAIN w.rows /\ IsOpen(w.rows[s]))
  BY <1>2, <1>4 DEF View
<1>6. Completing(r, q2, w, row, AllThree)
  BY <1>3 DEF Completing
<1>7. \A x \in Strategies : IsOpen(row[x]) \/ ~Passing(x, q, w) \/ Passing(x, q2, w)
  BY <1>2, <1>3, <1>5 DEF Passing
<1> QED
  BY <1>2, <1>3, <1>6, <1>7, AimsTyped, MovedComplete DEF q2

LEMMA TurnComplete ==
    ASSUME IInv, CInv, NEW r \in DOMAIN request, r = "turn", Turn(r)
    PROVE  CInv'
<1>1. /\ request[r] \in Works /\ request[r].pc = "idle" /\ request[r].aim = {}
      /\ DOMAIN session[r].rows = {} /\ session' = session /\ Moved(r)
  BY Parts, NothingYet, IdleTyped, StepMoves DEF Turn, At
<1>2. request'[r].pc = "writing" /\ request'[r].aim = {}
  BY <1>1 DEF Turn, Works
<1>3. Completing(r, request'[r], session'[r], row, AllThree)
  BY <1>1, <1>2 DEF Completing
<1> QED
  BY <1>1, <1>2, <1>3, AimsTyped, MovedComplete

\* Nobody's commit opens again what another has set out to close.
LEMMA CommitComplete ==
    ASSUME IInv, CInv, NEW r \in DOMAIN request, Commit(r)
    PROVE  CInv' /\ \A s \in request[r].aim : IsOpen(row'[s]) => PassedOver(r, s)
<1> DEFINE w == session[r]
<1>1. /\ row' = Viewed(w, row) /\ DOMAIN request' = DOMAIN request
      /\ request'[r] = Idle /\ session'[r] = NoWrites
      /\ \A p \in DOMAIN request \ {r} : request'[p] = request[p] /\ session'[p] = session[p]
  BY Views DEF Commit, Done, IInv, TypeInv
<1>2. \A s \in Strategies : row'[s] = IF s \in DOMAIN w.rows THEN w.rows[s] ELSE row[s]
  BY <1>1 DEF Viewed
<1>3. \A p \in DOMAIN request :
        /\ Completing(p, request[p], session[p], row, AllThree) /\ request[p].aim \subseteq Strategies
        /\ RowsKept(p, request[p], session[p], row) /\ Placed(p, request[p], session[p])
        /\ DOMAIN session[p].rows \subseteq Strategies
  BY Parts, AimsTyped DEF CInv
<1>4. \A s \in request[r].aim : IsOpen(row'[s]) => PassedOver(r, s)
  <2>1. request[r].pc # "writing" /\ (request[r].aim # {} => request[r].todo = {})
    BY <1>3 DEF Commit, At, Completing, Placed
  <2> QED
    BY <2>1, <1>1, <1>3 DEF Completing, PassedOver
<1>5. ASSUME NEW p \in DOMAIN request \ {r}, NEW s \in request[p].aim, s \in DOMAIN w.rows,
             ~AllThree \/ p = "monitor"
      PROVE  r # "turn" /\ (~IsOpen(row[s]) => ~IsOpen(w.rows[s]))
  <2>1. p # "turn" /\ row[s].status # "NONE"
    BY <1>3, <1>5 DEF Placed, RowsKept
  <2>2. r # "turn"
    BY <2>1, <1>3, <1>5 DEF Completing
  <2>3. CASE r # "monitor"
    BY <2>2, <2>3, <1>3, <1>5 DEF Completing
  <2>4. CASE r = "monitor"
    <3>1. p \in DOMAIN request \cap {"squareoff", "estop"}
      BY <2>1, <2>4 DEF IInv, TypeInv
    <3> QED
      BY <2>2, <2>4, <3>1, <1>5 DEF CInv, Passing
  <2> QED
    BY <2>2, <2>3, <2>4
<1>6. ASSUME NEW p \in DOMAIN request \ {r}
      PROVE  Completing(p, request[p], session[p], row', AllThree)
  <2> DEFINE q == request[p]
             v == session[p]
  <2>1. ASSUME NEW s \in q.aim, ~IsOpen(Viewed(v, row)[s])
        PROVE  \/ ~IsOpen(Viewed(v, row')[s])
               \/ AllThree /\ p # "monitor" /\ s \notin DOMAIN v.rows
    <3>1. s \in Strategies
      BY <1>3, <2>1
    <3>2. CASE s \in DOMAIN v.rows
      BY <2>1, <3>1, <3>2 DEF Viewed
    <3>3. CASE s \notin DOMAIN v.rows /\ (~AllThree \/ p = "monitor")
      <4>1. ~IsOpen(row[s])
        BY <2>1, <3>1, <3>3 DEF Viewed
      <4>2. ~IsOpen(row'[s])
        BY <4>1, <2>1, <3>1, <3>3, <1>2, <1>5
      <4> QED
        BY <4>2, <3>1, <3>3 DEF Viewed
    <3> QED
      BY <2>1, <3>2, <3>3
  <2>2. ASSUME p = "turn", NEW s \in DOMAIN v.rows PROVE row'[s].status = "NONE"
    <3>1. row[s].status = "NONE" /\ s \in Strategies
      BY <1>3, <2>2 DEF Completing
    <3>2. s \notin DOMAIN w.rows
      BY <1>3, <2>2, <3>1 DEF RowsKept
    <3> QED
      BY <3>1, <3>2, <1>2
  <2>3. Completing(p, q, v, row, AllThree)
    BY <1>3
  <2> QED
    BY <2>1, <2>2, <2>3 DEF Completing
<1>7. ASSUME "monitor" \in DOMAIN request, ~AllThree,
             NEW p \in DOMAIN request \cap {"squareoff", "estop"}, NEW s \in request'[p].aim, ~IsOpen(row'[s])
      PROVE  Passing(s, request'["monitor"], session'["monitor"])
  <2>1. p # r /\ s \in request[p].aim /\ s \in Strategies
    BY <1>1, <1>3, <1>7, IdleTyped
  <2>2. CASE r = "monitor"
    BY <2>2, <1>1, RestComplete
  <2>3. CASE r = "turn"
    <3>1. ~IsOpen(row[s])
      BY <2>1, <2>3, <1>2, <1>5, <1>7
    <3> QED
      BY <3>1, <2>1, <2>3, <1>1, <1>7 DEF CInv
  <2>4. r \notin {"squareoff", "estop"}
    BY <2>1, <1>7 DEF AllThree
  <2> QED
    BY <2>2, <2>3, <2>4 DEF IInv, TypeInv
<1>8. Completing(r, Idle, NoWrites, row', AllThree)
  BY RestComplete
<1>9. CInv'
  BY <1>1, <1>6, <1>7, <1>8 DEF CInv, AllThree
<1> QED
  BY <1>4, <1>9

LEMMA NextCInv ==
    ASSUME IInv, GuardInv, CInv, [Next]_vars
    PROVE  CInv'
<1>1. ASSUME NEW r \in DOMAIN request, Step(r) \/ Fail(r) PROVE CInv'
  <2>1. CASE Fail(r) \/ Deadlock(r)
    BY <2>1, StepMoves, EndComplete DEF Fail, Deadlock
  <2>2. CASE Take(r)
    BY <2>2, TakeComplete
  <2>3. CASE Write(r)
    BY <2>3, WriteComplete
  <2>4. CASE SumUp(r) \/ WriteFunds(r)
    BY <2>4, FundsComplete
  <2>5. CASE Commit(r)
    BY <2>5, CommitComplete
  <2>6. CASE Begin(r) \/ Judge(r)
    BY <2>6, BeginComplete
  <2>7. CASE r = "monitor" /\ Stop(r)
    BY <2>7, AimComplete
  <2>8. CASE r = "monitor" /\ Look(r)
    BY <2>8, LookComplete
  <2> QED
    BY <1>1, <2>1, <2>2, <2>3, <2>4, <2>5, <2>6, <2>7, <2>8 DEF Step
<1>2. ASSUME NEW r \in DOMAIN request \cap {"squareoff"}, SquareOff(r) PROVE CInv'
  BY <1>2, AimComplete
<1>3. ASSUME NEW r \in DOMAIN request \cap {"estop"}, EmergencyStop(r) PROVE CInv'
  BY <1>3, AimComplete
<1>4. ASSUME NEW r \in DOMAIN request \cap {"turn"}, Turn(r) PROVE CInv'
  BY <1>4, TurnComplete
<1>5. CASE Resume \/ Market \/ UNCHANGED vars
  <2>1. UNCHANGED <<row, request, session>>
    BY <1>5 DEF Resume, Market, vars, db
  <2> QED
    BY <2>1 DEF CInv, Completing, Viewed, Passing, AllThree
<1>6. CASE Midnight
  <2>1. \A r \in DOMAIN request : request[r] = Idle /\ session[r] = NoWrites
    BY <1>6, IdleTyped DEF Midnight, IInv, PlaceInv, Placed
  <2>2. UNCHANGED <<request, session>>
    BY <1>6 DEF Midnight
  <2> QED
    BY <2>1, <2>2, RestComplete, IdleTyped DEF CInv
<1> QED
  BY <1>1, <1>2, <1>3, <1>4, <1>5, <1>6 DEF Next

\* A square-off that commits leaves nothing open of what it set out to close,
\* whoever else closes, books or opens at the same time, but for a row it passed
\* over while the monitors and both square-offs were under way together.
THEOREM SquareOffs == Spec => SquareOffIsComplete
<1>1. Init => CInv
  <2> SUFFICES ASSUME Init PROVE CInv
    OBVIOUS
  <2>1. PICK case \in Cases : request = [r \in case |-> Idle] /\ session = [r \in case |-> NoWrites]
    BY DEF Init
  <2> QED
    BY <2>1, RestComplete, IdleTyped DEF CInv
<1>2. IInv /\ GuardInv /\ CInv /\ [Next]_vars => CInv'
  BY NextCInv
<1>3. IInv /\ CInv /\ [Next]_vars =>
        [\A r \in DOMAIN request :
            Commit(r) => \A s \in request[r].aim : IsOpen(row'[s]) => PassedOver(r, s)]_vars
  BY CommitComplete
<1> QED
  BY <1>1, <1>2, <1>3, Invariant, PTL DEF Spec, SquareOffIsComplete

=============================================================================
