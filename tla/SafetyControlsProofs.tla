------------------------ MODULE SafetyControlsProofs ------------------------
(***************************************************************************)
(* What the daily limits of SafetyControls guarantee for any limits and    *)
(* any size of a turn: the day's losses and trades pass them by a bounded  *)
(* amount, although the breaker and the count are read and written in      *)
(* separate calls, unless some of the day's state was lost.                *)
(***************************************************************************)
EXTENDS SafetyControls, TLAPS

Request == [pc : Places, read : Breakers, report : Reports, verdict : Verdict]

\* Where an execution has not traded yet, and where it has reported a loss that
\* the breaker does not hold yet.
Checking == {"circuit_breaker", "cooldown", "max_trades", "executing"}
Reported == {"recording", "expiring", "reading", "writing"}

\* What a request has in hand at each place.
Fits(r, q) ==
    /\ q \in Request
    /\ q.pc = "idle" => q = Idle
    /\ q.pc \in Checking => q = [Idle EXCEPT !.pc = q.pc] /\ r \in {"run", "manual"}
    /\ q.report # NoReport => q.pc \in Reported
    /\ q.report.lost > 0 => r = "run"

RequestsTyped ==
    /\ request \in [DOMAIN request -> Request]
    /\ DOMAIN request \subseteq Requests
    /\ \A r \in DOMAIN request : Fits(r, request[r])

\* The loss of the turn under way, as far as the breaker does not hold it.
Unwritten == IF "run" \in DOMAIN request THEN request["run"].report.lost ELSE 0

\* No loss of the day is missing in the breaker and the turn under way
\* together; nor in what the turn has read of the breaker and its own.
LossKept ==
    ~forgotten =>
        /\ booked.loss <= KeyRead.loss + Unwritten
        /\ "run" \in DOMAIN request /\ request["run"].pc = "writing" =>
              booked.loss <= request["run"].read.loss + request["run"].report.lost

\* A breaker with a loss over the limit has been triggered, also where it is
\* saved and about to be.
Tripped(b) == b # NoKey /\ b.loss >= MaxLoss => b.trip
BreakersTrip ==
    /\ Tripped(breaker)
    /\ Tripped(stored.breaker)
    /\ \A r \in DOMAIN request : request[r].pc = "committing" => Tripped(request[r].read)

\* A turn that the breaker let in finds the day's losses below the limit.
LetIn ==
    ~forgotten /\ "run" \in DOMAIN request
        /\ request["run"].pc \in {"cooldown", "max_trades", "executing"}
    => booked.loss <= MaxLoss - 1

\* The fills that an execution is about to be given, and has not counted yet.
ToFill(r) == IF r \in DOMAIN request /\ request[r].pc = "executing" THEN MaxFills ELSE 0
ToCount(r) == IF r \in DOMAIN request /\ request[r].pc = "recording" THEN request[r].report.fills ELSE 0

\* No trade of the day is missing in the count and the executions under way
\* together, and those that are let in cannot overshoot by more than theirs.
TradesKept ==
    /\ ~limited => booked.trades = 0
    /\ ~forgotten /\ limited =>
          /\ booked.trades <= trades.n + ToCount("run") + ToCount("manual")
          /\ booked.trades + ToFill("run") + ToFill("manual") <= MaxTrades - 1 + 2 * MaxFills

IInv ==
    /\ TypeOK /\ RequestsTyped
    /\ LossKept /\ BreakersTrip /\ LetIn /\ LossesBounded
    /\ TradesKept

-----------------------------------------------------------------------------
(* Types *)

\* What the initial values and the fallbacks are.
LEMMA ValueFacts ==
    /\ MaxFills \in Nat /\ MaxLost \in Nat /\ MaxLoss \in Nat \ {0} /\ MaxTrades \in Nat \ {0}
    /\ Fresh \in Breakers /\ NoKey \notin Breakers /\ NoReport \in Reports /\ Quiet \in Verdict
    /\ \A place \in Places : [Idle EXCEPT !.pc = place] \in Request
    /\ Idle \in Request
<1>1. /\ MaxFills \in Nat /\ MaxLost \in Nat
      /\ MaxLoss \in Nat \ {0} /\ MaxTrades \in Nat \ {0}
  BY Limits
<1>2. Fresh \in Breakers /\ NoReport \in Reports /\ Quiet \in Verdict
  BY <1>1 DEF Breakers, Fresh, NoReport, Reports, Quiet, Verdict
<1>3. NoKey \notin Breakers
  BY DEF NoKey, Breakers
<1>4. ASSUME NEW place \in Places PROVE [Idle EXCEPT !.pc = place] \in Request
  BY <1>2 DEF Idle, Request
<1>5. Idle \in Request
  BY <1>2 DEF Idle, Request, Places
<1> QED
  BY <1>1, <1>2, <1>3, <1>4, <1>5

\* What is read of the breaker, and restored of its row, is a breaker.
LEMMA ReadFacts ==
    ASSUME TypeOK
    PROVE  KeyRead \in Breakers /\ (stored # NoRow => Restored \in Breakers)
BY ValueFacts DEF TypeOK, KeyRead, Restored

\* One request moves; the others stay.
Moved(r, q) ==
    /\ DOMAIN request' = DOMAIN request
    /\ request'[r] = q
    /\ \A s \in DOMAIN request : s # r => request'[s] = request[s]
    /\ RequestsTyped'
    /\ \A s \in DOMAIN request' :
          /\ request'[s].pc \in Places /\ request'[s].read \in Breakers
          /\ request'[s].report \in Reports /\ request'[s].verdict \in Verdict
          /\ request'[s].pc = "idle" => request'[s] = Idle

\* Every move to a record that fits the place leaves all requests well typed.
LEMMA MoveFacts ==
    ASSUME RequestsTyped, NEW r \in DOMAIN request, NEW q, Fits(r, q),
           request' = [request EXCEPT ![r] = q]
    PROVE  Moved(r, q)
<1>1. /\ DOMAIN request' = DOMAIN request
      /\ request'[r] = q
      /\ \A s \in DOMAIN request : s # r => request'[s] = request[s]
  BY DEF RequestsTyped
<1>2. request' \in [DOMAIN request' -> Request]
  BY <1>1 DEF RequestsTyped, Fits
<1>3. \A s \in DOMAIN request : Fits(s, request'[s])
  BY <1>1 DEF RequestsTyped
<1>4. RequestsTyped'
  BY <1>1, <1>2, <1>3 DEF RequestsTyped, Fits
<1>5. \A s \in DOMAIN request' :
         /\ request'[s].pc \in Places /\ request'[s].read \in Breakers
         /\ request'[s].report \in Reports /\ request'[s].verdict \in Verdict
         /\ request'[s].pc = "idle" => request'[s] = Idle
  BY <1>1, <1>3 DEF Fits, Request
<1> QED
  BY <1>1, <1>4, <1>5 DEF Moved

\* What a move changes of the losses and trades under way is the mover's part.
LEMMA UnderWay ==
    ASSUME RequestsTyped, NEW r \in DOMAIN request, NEW q, Fits(r, q),
           request' = [request EXCEPT ![r] = q]
    PROVE  /\ Unwritten' = IF r = "run" THEN q.report.lost ELSE Unwritten
           /\ \A s \in {"run", "manual"} :
                 /\ ToFill(s)' = IF r = s THEN IF q.pc = "executing" THEN MaxFills ELSE 0
                                 ELSE ToFill(s)
                 /\ ToCount(s)' = IF r = s THEN IF q.pc = "recording" THEN q.report.fills ELSE 0
                                  ELSE ToCount(s)
BY MoveFacts DEF Moved, Unwritten, ToFill, ToCount

\* Each is a natural number, and an execution that has yet to be counted
\* fills no more.
LEMMA UnderWayTyped ==
    ASSUME RequestsTyped
    PROVE  /\ Unwritten \in 0..MaxLost
           /\ \A s \in {"run", "manual"} :
                 /\ ToFill(s) \in Nat /\ ToCount(s) \in Nat
                 /\ ToFill(s) + ToCount(s) <= MaxFills
BY ValueFacts DEF RequestsTyped, Fits, Request, Reports, Unwritten, ToFill, ToCount

\* A request that goes to a place changes nothing else of its record.
LEMMA GotoFacts ==
    ASSUME RequestsTyped, NEW r \in DOMAIN request, NEW place \in Places, Goto(r, place)
    PROVE  /\ [request[r] EXCEPT !.pc = place] \in Request
           /\ request' = [request EXCEPT ![r] = [request[r] EXCEPT !.pc = place]]
<1>1. request[r] \in Request
  BY DEF RequestsTyped
<1> QED
  BY <1>1 DEF Goto, Request

-----------------------------------------------------------------------------
(* Steps of a request *)

Allowed == {"cooldown", "max_trades", "executing"}

\* A request that only reads: what it holds of the breaker afterwards must be
\* enough, and it may be let in only where the day leaves room.
LEMMA ReadingKeeps ==
    ASSUME IInv, NEW r \in DOMAIN request, NEW q, Fits(r, q),
           request' = [request EXCEPT ![r] = q],
           UNCHANGED <<redis, database, history>>,
           q.report = request[r].report,
           q.pc # "recording" /\ request[r].pc # "recording",
           ~forgotten /\ r = "run" /\ q.pc = "writing" => booked.loss <= q.read.loss + q.report.lost,
           q.pc = "committing" => Tripped(q.read),
           ~forgotten /\ r = "run" /\ q.pc \in Allowed => booked.loss <= MaxLoss - 1,
           ~forgotten /\ limited /\ q.pc = "executing" =>
              booked.trades + MaxFills
                 + (IF r = "run" THEN ToFill("manual") ELSE ToFill("run"))
              <= MaxTrades - 1 + 2 * MaxFills
    PROVE  IInv'
<1>1. Moved(r, q)
  BY MoveFacts DEF IInv
<1> USE DEF Moved
<1>2. UNCHANGED <<breaker, trades, cooling, stored, status, limited, booked, forgotten, faults>>
  BY DEF redis, database, history
<1>3. TypeOK'
  BY <1>1, <1>2 DEF IInv, TypeOK, At
<1>4. LossKept'
  BY <1>1, <1>2 DEF IInv, LossKept, Unwritten, KeyRead
<1>5. BreakersTrip'
  BY <1>1, <1>2 DEF IInv, BreakersTrip, Tripped
<1>6. LetIn' /\ LossesBounded'
  BY <1>1, <1>2 DEF IInv, LetIn, LossesBounded, Allowed
<1>7. TradesKept'
  <2>1. /\ ToCount("run")' = ToCount("run") /\ ToCount("manual")' = ToCount("manual")
        /\ \A s \in {"run", "manual"} :
              ToFill(s)' = IF r = s THEN IF q.pc = "executing" THEN MaxFills ELSE 0 ELSE ToFill(s)
    BY UnderWay DEF IInv, ToCount
  <2>2. r \in {"run", "manual"} \/ q.pc # "executing"
    BY DEF Fits, Checking
  <2> QED
    BY <1>2, <2>1, <2>2, UnderWayTyped, ValueFacts DEF IInv, TradesKept, TypeOK
<1> QED
  BY <1>1, <1>3, <1>4, <1>5, <1>6, <1>7 DEF IInv

\* An execution starts with nothing in hand.
LEMMA BeginKeeps ==
    ASSUME IInv, NEW r \in DOMAIN request, r \in {"run", "manual"}, Begin(r)
    PROVE  IInv'
<1> DEFINE q == [request[r] EXCEPT !.pc = "circuit_breaker"]
<1>1. request[r] = Idle /\ UNCHANGED <<redis, database, history>>
  BY DEF IInv, Begin, TypeOK
<1>2. request' = [request EXCEPT ![r] = q] /\ q \in Request
  BY GotoFacts DEF IInv, Begin, Places
<1>3. /\ q = [Idle EXCEPT !.pc = "circuit_breaker"] /\ q.pc = "circuit_breaker"
      /\ q.report = NoReport /\ request[r].report = NoReport /\ request[r].pc = "idle"
  BY <1>1 DEF Idle
<1>4. Fits(r, q)
  BY <1>2, <1>3 DEF Fits, NoReport
<1> HIDE DEF q
<1> QED
  BY <1>1, <1>2, <1>3, <1>4, ReadingKeeps DEF Allowed

\* A breaker that lets a turn pass has not been triggered, so that the losses
\* of the day are below the limit; and a count that does is below its limit,
\* so that no more trades can come than this execution's and the other's.
LEMMA CheckKeeps ==
    ASSUME IInv, NEW r \in DOMAIN request, r \in {"run", "manual"}, Check(r)
    PROVE  IInv'
<1>1. PICK i \in 1..3 :
         /\ At(r, Checks[i])
         /\ Goto(r, IF Passes(Checks[i]) THEN Checks[i + 1] ELSE "idle")
         /\ UNCHANGED <<redis, database, history>>
  BY DEF Check
<1> DEFINE place == IF Passes(Checks[i]) THEN Checks[i + 1] ELSE "idle"
           q == [request[r] EXCEPT !.pc = place]
<1>2. /\ Checks[1] = "circuit_breaker" /\ Checks[2] = "cooldown"
      /\ Checks[3] = "max_trades" /\ Checks[4] = "executing"
  BY DEF Checks
<1>3. /\ request[r].pc \in Checking \ {"executing"} /\ request[r] = [Idle EXCEPT !.pc = request[r].pc]
      /\ RequestsTyped
  BY <1>1, <1>2 DEF IInv, RequestsTyped, Fits, At, Checking
<1>4. /\ place \in {"idle", "cooldown", "max_trades", "executing"}
      /\ place = "cooldown" => Passes("circuit_breaker")
      /\ place = "max_trades" => request[r].pc = "cooldown"
      /\ place = "executing" => request[r].pc = "max_trades" /\ Passes("max_trades")
  BY <1>1, <1>2 DEF At
<1>5. request' = [request EXCEPT ![r] = q] /\ q \in Request
  BY <1>1, <1>3, <1>4, GotoFacts, ZenonT(60) DEF Places
<1> HIDE DEF place
<1>6. /\ q = [Idle EXCEPT !.pc = place] /\ q.pc = place /\ q.report = NoReport
      /\ request[r].report = NoReport /\ (place = "idle" => q = Idle)
  BY <1>3 DEF Idle
<1>7. Fits(r, q)
  BY <1>4, <1>5, <1>6 DEF Fits, NoReport, Checking
<1>8. ~forgotten /\ r = "run" /\ q.pc \in Allowed => booked.loss <= MaxLoss - 1
  <2> SUFFICES ASSUME ~forgotten, r = "run", place \in Allowed PROVE booked.loss <= MaxLoss - 1
    BY <1>6
  <2>1. CASE place = "cooldown"
    <3>1. booked.loss <= KeyRead.loss
      BY <1>6, ValueFacts DEF IInv, LossKept, Unwritten, NoReport, TypeOK, KeyRead, Breakers, Fresh
    <3>2. ~KeyRead.trip
      BY <1>4, <2>1 DEF Passes
    <3> QED
      BY <3>1, <3>2, ValueFacts DEF IInv, BreakersTrip, Tripped, KeyRead, TypeOK, Breakers, Fresh
  <2>2. CASE place \in {"max_trades", "executing"}
    BY <1>4, <2>2 DEF IInv, LetIn
  <2> QED
    BY <2>1, <2>2 DEF Allowed
<1>9. ASSUME ~forgotten, limited, q.pc = "executing"
      PROVE  booked.trades + MaxFills + (IF r = "run" THEN ToFill("manual") ELSE ToFill("run"))
                <= MaxTrades - 1 + 2 * MaxFills
  <2> DEFINE o == IF r = "run" THEN "manual" ELSE "run"
  <2>1. trades.n <= MaxTrades - 1 /\ trades.n \in Nat /\ booked.trades \in Nat
    BY <1>4, <1>6, <1>9, ValueFacts DEF Passes, IInv, TypeOK
  <2>2. ToCount(r) = 0
    BY <1>3 DEF ToCount, Checking
  <2>3. ToFill(o) + ToCount(o) <= MaxFills /\ ToFill(o) \in Nat /\ ToCount(o) \in Nat
    BY <1>3, UnderWayTyped
  <2>4. booked.trades <= trades.n + ToCount(r) + ToCount(o)
    BY <1>9, <2>1, <2>2, <2>3 DEF IInv, TradesKept, ToCount
  <2> QED
    BY <2>1, <2>2, <2>3, <2>4, ValueFacts
<1> HIDE DEF q
<1> QED
  BY <1>1, <1>3, <1>4, <1>5, <1>6, <1>7, <1>8, <1>9, ReadingKeeps DEF Checking

\* The monitors turn to the strategy.
LEMMA WatchKeeps ==
    ASSUME IInv, NEW r \in DOMAIN request, r = "monitor", Watch(r)
    PROVE  IInv'
<1> DEFINE q == [request[r] EXCEPT !.pc = "reading"]
<1>1. request[r] = Idle /\ UNCHANGED <<redis, database, history>>
  BY DEF IInv, Watch, TypeOK
<1>2. request' = [request EXCEPT ![r] = q] /\ q \in Request
  BY GotoFacts DEF IInv, Watch, Places
<1>3. /\ q.pc = "reading" /\ q.report = NoReport
      /\ request[r].report = NoReport /\ request[r].pc = "idle"
  BY <1>1 DEF Idle
<1>4. Fits(r, q)
  BY <1>2, <1>3 DEF Fits, NoReport, Checking
<1> HIDE DEF q
<1> QED
  BY <1>1, <1>2, <1>3, <1>4, ReadingKeeps DEF Allowed

\* What a check reads of the breaker, and the loss of its own turn, are the
\* losses of the day.
LEMMA ReadKeeps ==
    ASSUME IInv, NEW r \in DOMAIN request, Read(r)
    PROVE  IInv'
<1> DEFINE q == [request[r] EXCEPT !.pc = "writing", !.read.loss = KeyRead.loss]
<1>1. /\ request[r] \in Request /\ request[r].pc = "reading" /\ Fits(r, request[r])
      /\ KeyRead \in Breakers /\ UNCHANGED <<redis, database, history>>
  BY ReadFacts DEF IInv, Read, RequestsTyped, At
<1>2. request' = [request EXCEPT ![r] = q]
  BY DEF Read
<1>3. /\ q \in Request /\ q.pc = "writing" /\ q.report = request[r].report
      /\ q.read.loss = KeyRead.loss
  BY <1>1 DEF Request, Breakers, Places
<1>4. Fits(r, q)
  BY <1>1, <1>3 DEF Fits, Checking, Reported
<1>5. ~forgotten /\ r = "run" => booked.loss <= q.read.loss + q.report.lost
  BY <1>3 DEF IInv, LossKept, Unwritten
<1> HIDE DEF q
<1> QED
  BY <1>1, <1>2, <1>3, <1>4, <1>5, ReadingKeeps DEF Allowed

\* Saving begins, and reads the key where there is one.
LEMMA BeginSyncKeeps ==
    ASSUME IInv, NEW r \in DOMAIN request, r = "sync", BeginSync(r)
    PROVE  IInv'
<1> DEFINE q == [request[r] EXCEPT !.pc = "saving"]
<1>1. request[r] = Idle /\ UNCHANGED <<redis, database, history>>
  BY DEF IInv, BeginSync, TypeOK
<1>2. request' = [request EXCEPT ![r] = q] /\ q \in Request
  BY GotoFacts DEF IInv, BeginSync, Places
<1>3. /\ q.pc = "saving" /\ q.report = NoReport
      /\ request[r].report = NoReport /\ request[r].pc = "idle"
  BY <1>1 DEF Idle
<1>4. Fits(r, q)
  BY <1>2, <1>3 DEF Fits, NoReport, Checking
<1> HIDE DEF q
<1> QED
  BY <1>1, <1>2, <1>3, <1>4, ReadingKeeps DEF Allowed

\* What a request does when it has saved the breaker.
AfterSave(r) == IF r = "sync" THEN Idle ELSE [request[r] EXCEPT !.pc = "stopping", !.read = Fresh]

\* Who has saved the breaker has nothing in hand; a check stops the strategy yet.
LEMMA SavedFacts ==
    ASSUME IInv, NEW r \in DOMAIN request, request[r].pc \in {"saving", "committing"}, Saved(r)
    PROVE  /\ request' = [request EXCEPT ![r] = AfterSave(r)]
           /\ Fits(r, AfterSave(r))
           /\ AfterSave(r).pc \in {"idle", "stopping"}
           /\ request[r].report = NoReport /\ AfterSave(r).report = NoReport
<1>1. request[r] \in Request /\ request[r].report = NoReport
  BY DEF IInv, RequestsTyped, Fits, Reported
<1>2. request' = [request EXCEPT ![r] = AfterSave(r)]
  BY <1>1 DEF Saved, Done, AfterSave
<1>3. CASE r = "sync"
  BY <1>1, <1>2, <1>3, ValueFacts DEF AfterSave, Fits, Idle, NoReport, Checking
<1>4. CASE r # "sync"
  <2> DEFINE q == [request[r] EXCEPT !.pc = "stopping", !.read = Fresh]
  <2>1. /\ q.pc = "stopping" /\ q.read = Fresh
        /\ q.report = request[r].report /\ q.verdict = request[r].verdict
    BY <1>1 DEF Request
  <2>2. q \in Request
    <3>1. Fresh \in Breakers /\ "stopping" \in Places
      BY ValueFacts DEF Places
    <3> QED
      BY <1>1, <3>1 DEF Request
  <2>3. Fits(r, q)
    BY <1>1, <2>1, <2>2 DEF Fits, NoReport, Checking
  <2> QED
    BY <1>1, <1>2, <1>4, <2>1, <2>3 DEF AfterSave
<1> QED
  BY <1>3, <1>4

\* What is read to be saved is the breaker, so triggered where it should be.
LEMMA ReadToSaveKeeps ==
    ASSUME IInv, NEW r \in DOMAIN request, ReadToSave(r)
    PROVE  IInv'
<1>1. /\ request[r] \in Request /\ request[r].pc = "saving" /\ request[r].report = NoReport
      /\ UNCHANGED <<redis, database, history>>
  BY DEF IInv, ReadToSave, RequestsTyped, At, Fits, Reported
<1>2. CASE breaker = NoKey
  <2>1. Saved(r)
    BY <1>2 DEF ReadToSave
  <2> QED
    BY <1>1, <2>1, SavedFacts, ReadingKeeps DEF Allowed
<1>3. CASE breaker # NoKey
  <2> DEFINE q == [request[r] EXCEPT !.pc = "committing", !.read = breaker]
  <2>1. request' = [request EXCEPT ![r] = q]
    BY <1>3 DEF ReadToSave
  <2>2. /\ q \in Request /\ q.pc = "committing" /\ q.report = NoReport /\ q.read = breaker
    BY <1>1, <1>3 DEF IInv, TypeOK, Request, Places
  <2>3. Fits(r, q)
    BY <2>2 DEF Fits, NoReport, Checking
  <2>4. Tripped(q.read)
    BY <2>2 DEF IInv, BreakersTrip
  <2> HIDE DEF q
  <2> QED
    BY <1>1, <2>1, <2>2, <2>3, <2>4, ReadingKeeps DEF Allowed
<1> QED
  BY <1>2, <1>3

\* A request that has written or saved goes on to where it holds nothing of the
\* breaker that matters: the part of the invariant that depends on where the
\* requests are follows from that of the step.
LEMMA LeavingKeeps ==
    ASSUME IInv, NEW r \in DOMAIN request, NEW q, Fits(r, q),
           request' = [request EXCEPT ![r] = q],
           q.pc \in {"idle", "reading", "expiring", "saving", "stopping"},
           limited' = limited, TypeOK', LossesBounded',
           Tripped(breaker)', Tripped(stored.breaker)',
           booked' = booked, forgotten => forgotten',
           ~forgotten' => booked.loss <= KeyRead.loss' + Unwritten',
           ~forgotten' /\ limited =>
              booked.trades <= trades'.n + ToCount("run")' + ToCount("manual")'
    PROVE  IInv'
<1>1. Moved(r, q)
  BY MoveFacts DEF IInv
<1> USE DEF Moved
<1>2. LossKept'
  BY <1>1 DEF IInv, LossKept
<1>3. BreakersTrip'
  BY <1>1 DEF IInv, BreakersTrip, Tripped
<1>4. LetIn'
  BY <1>1 DEF IInv, LetIn
<1>5. TradesKept'
  <2>1. \A s \in {"run", "manual"} : ToFill(s)' = IF r = s THEN 0 ELSE ToFill(s)
    BY UnderWay DEF IInv
  <2> QED
    BY <2>1, UnderWayTyped, ValueFacts DEF IInv, TradesKept, TypeOK
<1> QED
  BY <1>1, <1>2, <1>3, <1>4, <1>5 DEF IInv

\* The row is triggered where the breaker was that was read.
LEMMA SaveKeeps ==
    ASSUME IInv, NEW r \in DOMAIN request, Save(r)
    PROVE  IInv'
<1> DEFINE q == AfterSave(r)
<1>1. /\ request[r] \in Request /\ request[r].pc = "committing" /\ Saved(r)
      /\ stored' = [breaker |-> request[r].read, today |-> TRUE]
      /\ UNCHANGED <<breaker, trades, cooling, status, limited, booked, forgotten, faults>>
  BY DEF IInv, Save, RequestsTyped, At, redis, history
<1>2. /\ request' = [request EXCEPT ![r] = q] /\ Fits(r, q)
      /\ q.pc \in {"idle", "stopping"} /\ request[r].report = NoReport /\ q.report = NoReport
  BY <1>1, SavedFacts
<1>3. Moved(r, q)
  BY <1>2, MoveFacts DEF IInv
<1> USE DEF Moved
<1> HIDE DEF q
<1>4. TypeOK' /\ LossesBounded'
  BY <1>1, <1>3 DEF IInv, TypeOK, At, Request, LossesBounded
<1>5. Tripped(breaker)' /\ Tripped(stored.breaker)'
  BY <1>1 DEF IInv, BreakersTrip, Tripped
<1>6. Unwritten' = Unwritten /\ ToCount("run")' = ToCount("run") /\ ToCount("manual")' = ToCount("manual")
  BY <1>1, <1>2, <1>3 DEF Unwritten, ToCount
<1>7. /\ ~forgotten' => booked.loss <= KeyRead.loss' + Unwritten'
      /\ ~forgotten' /\ limited => booked.trades <= trades'.n + ToCount("run")' + ToCount("manual")'
  BY <1>1, <1>6 DEF IInv, LossKept, TradesKept, KeyRead
<1> QED
  BY <1>1, <1>2, <1>4, <1>5, <1>7, LeavingKeeps

\* Stopping changes the status only.
LEMMA StopKeeps ==
    ASSUME IInv, NEW r \in DOMAIN request, Stop(r)
    PROVE  IInv'
<1>1. /\ request[r] \in Request /\ request[r].pc = "stopping" /\ request[r].report = NoReport
      /\ request' = [request EXCEPT ![r] = Idle] /\ status' \in {"PAUSED", "DISABLED"}
      /\ UNCHANGED <<breaker, trades, cooling, stored, limited, booked, forgotten, faults>>
  BY DEF IInv, Stop, Done, Stopping, RequestsTyped, Fits, Reported, At, redis, history
<1> DEFINE q == Idle
<1>2. Fits(r, q) /\ q.pc = "idle" /\ q.report = NoReport
  BY ValueFacts DEF Fits, Idle, NoReport, Checking
<1>3. Moved(r, q)
  BY <1>1, <1>2, MoveFacts DEF IInv
<1> USE DEF Moved
<1> HIDE DEF q
<1>4. TypeOK' /\ LossesBounded'
  BY <1>1, <1>3 DEF IInv, TypeOK, At, LossesBounded
<1>5. Tripped(breaker)' /\ Tripped(stored.breaker)'
  BY <1>1 DEF IInv, BreakersTrip, Tripped
<1>6. Unwritten' = Unwritten /\ ToCount("run")' = ToCount("run") /\ ToCount("manual")' = ToCount("manual")
  BY <1>1, <1>2, <1>3 DEF Unwritten, ToCount
<1>7. /\ ~forgotten' => booked.loss <= KeyRead.loss' + Unwritten'
      /\ ~forgotten' /\ limited => booked.trades <= trades'.n + ToCount("run")' + ToCount("manual")'
  BY <1>1, <1>6 DEF IInv, LossKept, TradesKept, KeyRead
<1> QED
  BY <1>1, <1>2, <1>4, <1>5, <1>7, LeavingKeeps DEF q

\* What is written over the breaker holds at least its losses, or the day's
\* state is partly lost; that of a turn holds its own loss as well.
LEMMA WriteKeeps ==
    ASSUME IInv, NEW r \in DOMAIN request, r \in {"run", "monitor"}, Write(r)
    PROVE  IInv'
<1> DEFINE loss == request[r].read.loss + request[r].report.lost
<1>1. PICK other \in Verdict :
         /\ other.cutoff => other.trip
         /\ Replacing([loss |-> loss, trip |-> Judged(loss, other).trip])
         /\ request' = [request EXCEPT ![r] =
               IF Judged(loss, other).trip
               THEN [Idle EXCEPT !.pc = "saving", !.verdict = Judged(loss, other)]
               ELSE Idle]
  BY DEF Write
<1>2. /\ request[r] \in Request /\ request[r].pc = "writing" /\ Fits(r, request[r])
      /\ UNCHANGED <<trades, cooling, stored, status, limited, booked, faults>>
  BY DEF IInv, Write, RequestsTyped, At, database
<1>3. /\ loss \in Nat /\ request[r].read.loss \in Nat /\ request[r].report.lost \in Nat
      /\ KeyRead.loss \in Nat
  BY <1>2, ReadFacts, ValueFacts DEF IInv, Request, Breakers, Reports
<1> DEFINE verdict == Judged(loss, other)
           new == [loss |-> loss, trip |-> verdict.trip]
           q == IF verdict.trip THEN [Idle EXCEPT !.pc = "saving", !.verdict = verdict] ELSE Idle
<1> HIDE DEF loss
<1>4. verdict \in Verdict /\ new \in Breakers /\ (loss >= MaxLoss => verdict.trip) /\ new.loss = loss
  BY <1>3, ValueFacts DEF Judged, Verdict, Breakers
<1>5. /\ request' = [request EXCEPT ![r] = q] /\ breaker' = new
      /\ forgotten' = (forgotten \/ KeyRead.loss > new.loss)
  BY <1>1 DEF Replacing
<1> HIDE DEF verdict
<1>6. Fits(r, q) /\ q.pc \in {"idle", "saving"} /\ q.report = NoReport
  <2>1. CASE verdict.trip
    <3>1. q = [pc |-> "saving", read |-> Fresh, report |-> NoReport, verdict |-> verdict]
      BY <2>1 DEF Idle
    <3> HIDE DEF q
    <3>2. q \in Request
      BY <1>4, <3>1, ValueFacts DEF Request, Places
    <3>3. q.pc = "saving" /\ q.report = NoReport
      BY <3>1
    <3> QED
      BY <3>2, <3>3 DEF Fits, NoReport, Checking
  <2>2. CASE ~verdict.trip
    BY <2>2, ValueFacts DEF Fits, Idle, NoReport, Checking
  <2> QED
    BY <2>1, <2>2
<1> HIDE DEF q
<1>7. Moved(r, q)
  BY <1>5, <1>6, MoveFacts DEF IInv
<1> USE DEF Moved
<1>8. TypeOK' /\ LossesBounded'
  BY <1>2, <1>4, <1>5, <1>7 DEF IInv, TypeOK, At, LossesBounded
<1>9. Tripped(breaker)' /\ Tripped(stored.breaker)'
  BY <1>2, <1>4, <1>5 DEF IInv, BreakersTrip, Tripped
<1>10. ToCount("run")' = ToCount("run") /\ ToCount("manual")' = ToCount("manual")
  BY <1>2, <1>6, <1>7 DEF ToCount
<1>11. ~forgotten' => booked.loss <= KeyRead.loss' + Unwritten'
  <2> SUFFICES ASSUME ~forgotten' PROVE booked.loss <= KeyRead.loss' + Unwritten'
    OBVIOUS
  <2>1. ~forgotten /\ KeyRead.loss <= loss /\ KeyRead' = new
    <3>1. ~forgotten /\ ~(KeyRead.loss > new.loss)
      BY <1>5, Zenon
    <3>2. KeyRead' = new
      BY <1>4, <1>5, ValueFacts DEF KeyRead
    <3> QED
      BY <1>3, <1>4, <3>1, <3>2
  <2>2. CASE r = "run"
    <3>1. Unwritten' = 0 /\ booked.loss <= loss
      BY <1>2, <1>6, <1>7, <2>1, <2>2 DEF Unwritten, IInv, LossKept, loss, NoReport
    <3> QED
      BY <1>3, <1>4, <2>1, <3>1
  <2>3. CASE r # "run"
    <3>1. Unwritten' = Unwritten /\ Unwritten \in 0..MaxLost /\ booked.loss <= KeyRead.loss + Unwritten
      BY <1>7, <2>1, <2>3, UnderWayTyped DEF Unwritten, IInv, LossKept
    <3> QED
      BY <1>3, <1>4, <2>1, <3>1, ValueFacts DEF IInv, TypeOK
  <2> QED
    BY <2>2, <2>3
<1>12. ~forgotten' /\ limited => booked.trades <= trades'.n + ToCount("run")' + ToCount("manual")'
  BY <1>2, <1>5, <1>10 DEF IInv, TradesKept
<1> QED
  BY <1>2, <1>5, <1>6, <1>8, <1>9, <1>11, <1>12, LeavingKeeps

\* A turn that trades was let in below the limit of losses, and its execution
\* below that of trades: what it fills and loses stays within the margins.
LEMMA ExecuteKeeps ==
    ASSUME IInv, NEW r \in DOMAIN request, r \in {"run", "manual"}, Execute(r)
    PROVE  IInv'
<1>1. PICK result \in Reports :
         /\ result.lost > 0 => r = "run" /\ result.fills > 0
         /\ booked' = [loss |-> booked.loss + result.lost,
                       trades |-> booked.trades + IF limited THEN result.fills ELSE 0]
         /\ IF result.fills = 0 THEN Counts(r)
            ELSE request' = [request EXCEPT ![r].pc = "recording", ![r].report = result]
  BY DEF Execute
<1>2. /\ request[r] = [Idle EXCEPT !.pc = "executing"] /\ request[r].pc = "executing"
      /\ RequestsTyped
      /\ UNCHANGED <<breaker, trades, cooling, stored, status, limited, forgotten, faults>>
  BY DEF IInv, Execute, RequestsTyped, Fits, Checking, At, redis, database
<1>3. result.fills \in 0..MaxFills /\ result.lost \in 0..MaxLost
  BY DEF Reports
<1> DEFINE q == [pc |-> IF result.fills # 0 THEN "recording" ELSE IF r = "run" THEN "reading" ELSE "idle",
                 read |-> Fresh, report |-> result, verdict |-> Quiet]
<1>4. request' = [request EXCEPT ![r] = q]
  <2>1. CASE result.fills # 0
    BY <1>1, <1>2, <2>1 DEF Idle
  <2>2. CASE result.fills = 0
    <3>1. result = NoReport
      BY <1>1, <1>3, <2>2, ValueFacts DEF Reports, NoReport
    <3> QED
      BY <1>1, <1>2, <2>2, <3>1 DEF Counts, Goto, Done, Idle
  <2> QED
    BY <2>1, <2>2
<1>5. q.pc \in {"recording", "reading", "idle"} /\ q.report = result
      /\ (q.pc = "recording" <=> result.fills # 0)
  OBVIOUS
<1>6. Fits(r, q)
  <2>1. q \in Request
    BY ValueFacts DEF Request, Places
  <2>2. result # NoReport => q.pc \in Reported
    BY <1>1, <1>3, <1>5, ValueFacts DEF Reported, Reports, NoReport
  <2>3. q.pc = "idle" => q = Idle
    BY <1>1, <1>3, <1>5, ValueFacts DEF Reports, NoReport, Idle
  <2> HIDE DEF q
  <2> QED
    BY <1>1, <1>5, <2>1, <2>2, <2>3 DEF Fits, Checking
<1> HIDE DEF q
<1>7. Moved(r, q)
  BY <1>4, <1>6, MoveFacts DEF IInv
<1> USE DEF Moved
<1>8. /\ booked.loss \in Nat /\ booked.trades \in Nat
      /\ booked'.loss = booked.loss + result.lost
      /\ limited => booked'.trades = booked.trades + result.fills
      /\ ~limited => booked'.trades = booked.trades
      /\ r = "manual" => result.lost = 0
  BY <1>1, <1>3, ValueFacts DEF IInv, TypeOK
<1>9. TypeOK'
  <2>1. booked' \in [loss : Nat, trades : Nat]
    BY <1>1, <1>3, <1>8, ValueFacts
  <2> QED
    BY <1>2, <1>7, <2>1 DEF IInv, TypeOK, At
<1>10. LossesBounded'
  <2>1. CASE r = "run"
    <3>1. ~forgotten => booked.loss <= MaxLoss - 1
      BY <1>2, <2>1 DEF IInv, LetIn
    <3> QED
      BY <1>2, <1>3, <1>8, <3>1, ValueFacts DEF LossesBounded
  <2>2. CASE r = "manual"
    BY <1>2, <1>8, <2>2, ValueFacts DEF IInv, LossesBounded
  <2> QED
    BY <2>1, <2>2
<1>11. LossKept'
  <2>1. Unwritten' = IF r = "run" THEN result.lost ELSE Unwritten
    BY <1>4, <1>5, <1>6, UnderWay DEF IInv
  <2>2. r = "run" => Unwritten = 0
    BY <1>2 DEF Unwritten, Idle, NoReport
  <2>3. KeyRead' = KeyRead /\ KeyRead.loss \in Nat
    BY <1>2, ReadFacts DEF KeyRead, IInv, Breakers
  <2>4. ~forgotten' => booked'.loss <= KeyRead.loss' + Unwritten'
    BY <1>2, <1>3, <1>8, <2>1, <2>2, <2>3, UnderWayTyped, ValueFacts DEF IInv, LossKept
  <2> QED
    BY <1>2, <1>5, <1>7, <1>8, <2>4 DEF IInv, LossKept
<1>12. BreakersTrip' /\ LetIn'
  BY <1>2, <1>5, <1>7, <1>8 DEF IInv, BreakersTrip, Tripped, LetIn
<1>13. TradesKept'
  <2> DEFINE o == IF r = "run" THEN "manual" ELSE "run"
  <2>1. /\ ToFill(r)' = 0 /\ ToCount(r)' = result.fills
        /\ ToFill(o)' = ToFill(o) /\ ToCount(o)' = ToCount(o)
    BY <1>3, <1>4, <1>5, <1>6, UnderWay, ValueFacts DEF IInv
  <2>2. ToFill(r) = MaxFills /\ ToCount(r) = 0
    BY <1>2 DEF ToFill, ToCount
  <2> QED
    BY <1>2, <1>3, <1>8, <2>1, <2>2, UnderWayTyped, ValueFacts DEF IInv, TradesKept, TypeOK
<1> QED
  BY <1>7, <1>9, <1>10, <1>11, <1>12, <1>13 DEF IInv

\* Where a request goes when its execution has been counted.
Counted(r) == IF r = "run" THEN [request[r] EXCEPT !.pc = "reading"] ELSE Idle

\* A run keeps its report for the breaker to come; a manual execution is done.
LEMMA CountsFacts ==
    ASSUME IInv, NEW r \in DOMAIN request, r \in {"run", "manual"},
           request[r].pc \in {"recording", "expiring"}, Counts(r)
    PROVE  /\ request' = [request EXCEPT ![r] = Counted(r)] /\ Fits(r, Counted(r))
           /\ Counted(r).pc \in {"idle", "reading"}
           /\ r = "run" => Counted(r).report = request[r].report
<1>1. RequestsTyped /\ request[r] \in Request /\ Fits(r, request[r])
  BY DEF IInv, RequestsTyped
<1>2. CASE r = "run"
  <2>1. Counted(r) = [request[r] EXCEPT !.pc = "reading"] /\ Goto(r, "reading")
    BY <1>2 DEF Counted, Counts
  <2>2. /\ request' = [request EXCEPT ![r] = Counted(r)] /\ Counted(r) \in Request
    BY <1>1, <2>1, GotoFacts DEF Places
  <2>3. Counted(r).pc = "reading" /\ Counted(r).report = request[r].report
    BY <1>1, <2>1 DEF Request
  <2> QED
    BY <1>1, <1>2, <2>2, <2>3 DEF Fits, Checking, Reported
<1>3. CASE r # "run"
  BY <1>3, ValueFacts DEF Counts, Counted, Done, Fits, Checking, Idle, NoReport
<1> QED
  BY <1>2, <1>3

\* An execution is counted in full before it lets go of its report.
LEMMA RecordKeeps ==
    ASSUME IInv, NEW r \in DOMAIN request, r \in {"run", "manual"}, Record(r)
    PROVE  IInv'
<1>1. /\ request[r] \in Request /\ request[r].pc = "recording" /\ Fits(r, request[r]) /\ RequestsTyped
      /\ cooling' = limited
      /\ trades' = IF limited THEN [trades EXCEPT !.n = @ + request[r].report.fills] ELSE trades
      /\ IF trades'.n = 1 THEN Goto(r, "expiring") ELSE Counts(r)
      /\ UNCHANGED <<breaker, stored, status, limited, booked, forgotten, faults>>
  BY DEF IInv, Record, RequestsTyped, At, database, history
<1> DEFINE q == IF trades'.n = 1 THEN [request[r] EXCEPT !.pc = "expiring"] ELSE Counted(r)
<1>2. /\ request' = [request EXCEPT ![r] = q] /\ Fits(r, q)
      /\ q.pc \in {"idle", "reading", "expiring"}
      /\ r = "run" => q.report = request[r].report
  <2>1. CASE trades'.n = 1
    <3>1. q = [request[r] EXCEPT !.pc = "expiring"] /\ Goto(r, "expiring")
      BY <1>1, <2>1
    <3> HIDE DEF q
    <3>2. request' = [request EXCEPT ![r] = q] /\ q \in Request
      BY <1>1, <3>1, GotoFacts DEF Places
    <3>3. q.pc = "expiring" /\ q.report = request[r].report
      BY <1>1, <3>1 DEF Request
    <3> QED
      BY <1>1, <3>2, <3>3 DEF Fits, Checking, Reported
  <2>2. CASE trades'.n # 1
    BY <1>1, <2>2, CountsFacts
  <2> QED
    BY <2>1, <2>2
<1> HIDE DEF q
<1>3. Moved(r, q)
  BY <1>2, MoveFacts DEF IInv
<1> USE DEF Moved
<1>4. /\ trades' \in [n : Nat, expires : BOOLEAN] /\ (trades'.expires => trades'.n > 0)
      /\ limited => trades'.n = trades.n + request[r].report.fills
      /\ request[r].report.fills \in Nat /\ trades.n \in Nat
  BY <1>1, ValueFacts DEF IInv, TypeOK, Request, Reports
<1>5. TypeOK' /\ LossesBounded'
  <2>1. cooling' \in BOOLEAN
    BY <1>1, Limits DEF IInv, TypeOK
  <2> QED
    BY <1>1, <1>3, <1>4, <2>1 DEF IInv, TypeOK, At, LossesBounded
<1>6. Tripped(breaker)' /\ Tripped(stored.breaker)'
  BY <1>1 DEF IInv, BreakersTrip, Tripped
<1>7. Unwritten' = Unwritten /\ KeyRead' = KeyRead
  BY <1>1, <1>2, <1>3 DEF Unwritten, KeyRead
<1>8. ~forgotten' /\ limited => booked.trades <= trades'.n + ToCount("run")' + ToCount("manual")'
  <2>1. /\ ToCount(r) = request[r].report.fills /\ ToCount(r)' = 0
        /\ \A s \in {"run", "manual"} : s # r => ToCount(s)' = ToCount(s)
    BY <1>1, <1>2, UnderWay DEF ToCount
  <2> QED
    BY <1>1, <1>4, <2>1, UnderWayTyped, ValueFacts DEF IInv, TradesKept, TypeOK
<1>9. ~forgotten' => booked.loss <= KeyRead.loss' + Unwritten'
  BY <1>1, <1>7 DEF IInv, LossKept
<1> QED
  BY <1>1, <1>2, <1>5, <1>6, <1>8, <1>9, LeavingKeeps

\* The expiry leaves the count as it is.
LEMMA ExpireKeeps ==
    ASSUME IInv, NEW r \in DOMAIN request, r \in {"run", "manual"}, Expire(r)
    PROVE  IInv'
<1> DEFINE q == Counted(r)
<1>1. /\ request[r] \in Request /\ request[r].pc = "expiring" /\ Counts(r)
      /\ trades' = Expiring(trades)
      /\ UNCHANGED <<breaker, cooling, stored, status, limited, booked, forgotten, faults>>
  BY DEF IInv, Expire, RequestsTyped, At, database, history
<1>2. /\ request' = [request EXCEPT ![r] = q] /\ Fits(r, q) /\ q.pc \in {"idle", "reading"}
      /\ r = "run" => q.report = request[r].report
  BY <1>1, CountsFacts
<1> HIDE DEF q
<1>3. Moved(r, q)
  BY <1>2, MoveFacts DEF IInv
<1> USE DEF Moved
<1>4. /\ trades' \in [n : Nat, expires : BOOLEAN] /\ (trades'.expires => trades'.n > 0)
      /\ trades'.n = trades.n
  <2>1. trades \in [n : Nat, expires : BOOLEAN]
    BY DEF IInv, TypeOK
  <2>2. trades' = [n |-> trades.n, expires |-> (trades.n > 0)]
    BY <1>1, <2>1 DEF Expiring
  <2>3. (trades.n > 0) \in BOOLEAN
    OBVIOUS
  <2>4. trades'.expires = (trades.n > 0) /\ trades'.n = trades.n
    BY <2>2
  <2> QED
    BY <2>1, <2>2, <2>3, <2>4
<1>5. TypeOK' /\ LossesBounded'
  BY <1>1, <1>3, <1>4 DEF IInv, TypeOK, At, LossesBounded
<1>6. Tripped(breaker)' /\ Tripped(stored.breaker)'
  BY <1>1 DEF IInv, BreakersTrip, Tripped
<1>7. /\ Unwritten' = Unwritten /\ KeyRead' = KeyRead
      /\ ToCount("run")' = ToCount("run") /\ ToCount("manual")' = ToCount("manual")
  BY <1>1, <1>2, <1>3 DEF Unwritten, KeyRead, ToCount
<1>8. ~forgotten' => booked.loss <= KeyRead.loss' + Unwritten'
  BY <1>1, <1>7 DEF IInv, LossKept
<1>9. ~forgotten' /\ limited => booked.trades <= trades'.n + ToCount("run")' + ToCount("manual")'
  BY <1>1, <1>4, <1>7 DEF IInv, TradesKept
<1> QED
  BY <1>1, <1>2, <1>5, <1>6, <1>8, <1>9, LeavingKeeps

\* Whatever fails takes with it only what the day's state is known to miss.
LEMMA FailKeeps ==
    ASSUME IInv, NEW r \in DOMAIN request, Fail(r)
    PROVE  IInv'
<1> DEFINE q == Idle
<1>1. /\ request' = [request EXCEPT ![r] = q] /\ RequestsTyped
      /\ forgotten' = (forgotten \/ request[r].report # NoReport)
      /\ faults < MaxFaults /\ faults' = faults + 1
      /\ UNCHANGED <<breaker, trades, cooling, stored, status, limited, booked>>
  BY DEF IInv, Fail, Done, redis, database
<1>2. Fits(r, q) /\ q.pc = "idle" /\ q.report = NoReport
  BY ValueFacts DEF Fits, Idle, NoReport, Checking
<1>3. Moved(r, q)
  BY <1>1, <1>2, MoveFacts DEF IInv
<1> USE DEF Moved
<1> HIDE DEF q
<1>4. forgotten' \in BOOLEAN /\ (~forgotten' => ~forgotten /\ request[r].report = NoReport)
  BY <1>1, Zenon DEF IInv, TypeOK
<1>5. faults' \in 0..MaxFaults
  BY <1>1, Limits DEF IInv, TypeOK
<1>6. TypeOK' /\ LossesBounded'
  BY <1>1, <1>3, <1>4, <1>5 DEF IInv, TypeOK, At, LossesBounded
<1>7. Tripped(breaker)' /\ Tripped(stored.breaker)'
  BY <1>1 DEF IInv, BreakersTrip, Tripped
<1>8. request[r].report = NoReport =>
         /\ Unwritten' = Unwritten /\ KeyRead' = KeyRead
         /\ ToCount("run")' = ToCount("run") /\ ToCount("manual")' = ToCount("manual")
  BY <1>1, <1>2, <1>3 DEF Unwritten, KeyRead, ToCount, NoReport
<1>9. /\ ~forgotten' => booked.loss <= KeyRead.loss' + Unwritten'
      /\ ~forgotten' /\ limited => booked.trades <= trades'.n + ToCount("run")' + ToCount("manual")'
  BY <1>1, <1>4, <1>8 DEF IInv, LossKept, TradesKept
<1> QED
  BY <1>1, <1>2, <1>4, <1>6, <1>7, <1>9, LeavingKeeps

-----------------------------------------------------------------------------
(* What happens meanwhile *)

\* A key that is not there counts no trades.
LEMMA NoTradesFacts ==
    NoTrades \in [n : Nat, expires : BOOLEAN] /\ ~NoTrades.expires /\ NoTrades.n = 0
BY DEF NoTrades

\* The requests stay where they are.
LEMMA Unmoved ==
    ASSUME UNCHANGED request, RequestsTyped
    PROVE  /\ RequestsTyped'
           /\ Unwritten' = Unwritten
           /\ \A s \in {"run", "manual"} : ToFill(s)' = ToFill(s) /\ ToCount(s)' = ToCount(s)
BY DEF RequestsTyped, Unwritten, ToFill, ToCount

\* A row of the day is loaded over the breaker.
LEMMA LoadKeeps ==
    ASSUME IInv, Load
    PROVE  IInv'
<1>1. /\ faults < MaxFaults /\ faults' = faults + 1
      /\ breaker' = Restored /\ forgotten' = (forgotten \/ KeyRead.loss > Restored.loss)
      /\ UNCHANGED <<trades, cooling, stored, status, limited, request, booked>>
      /\ Restored \in Breakers /\ KeyRead \in Breakers
  BY ReadFacts DEF IInv, Load, Replacing, database
<1>2. /\ RequestsTyped' /\ Unwritten' = Unwritten /\ Unwritten \in 0..MaxLost
      /\ \A s \in {"run", "manual"} : ToFill(s)' = ToFill(s) /\ ToCount(s)' = ToCount(s)
  BY <1>1, Unmoved, UnderWayTyped DEF IInv
<1>3. KeyRead' = Restored
  BY <1>1, ValueFacts DEF KeyRead
<1>4. forgotten' \in BOOLEAN /\ (~forgotten' => ~forgotten /\ ~(KeyRead.loss > Restored.loss))
  BY <1>1, Zenon DEF IInv, TypeOK
<1>5. faults' \in 0..MaxFaults
  BY <1>1, Limits DEF IInv, TypeOK
<1>6. TypeOK' /\ LossesBounded'
  BY <1>1, <1>4, <1>5 DEF IInv, TypeOK, At, LossesBounded
<1>7. BreakersTrip'
  BY <1>1, ValueFacts DEF IInv, BreakersTrip, Tripped, Restored, Fresh
<1>8. LossKept'
  <2>1. ~forgotten' => booked.loss <= KeyRead.loss' + Unwritten'
    BY <1>1, <1>2, <1>3, <1>4, ValueFacts DEF IInv, LossKept, Breakers, TypeOK
  <2> QED
    BY <1>1, <1>4, <2>1 DEF IInv, LossKept
<1>9. LetIn' /\ TradesKept'
  BY <1>1, <1>2, <1>4 DEF IInv, LetIn, TradesKept
<1> QED
  BY <1>2, <1>6, <1>7, <1>8, <1>9 DEF IInv

\* Once something of the day is forgotten nothing is promised of it.
LEMMA LosingKeeps ==
    ASSUME IInv, LoseRedis \/ Reset
    PROVE  IInv'
<1>1. /\ faults < MaxFaults /\ faults' = faults + 1
      /\ breaker' = NoKey /\ forgotten' = TRUE
      /\ trades' \in {trades, NoTrades} /\ cooling' \in {cooling, FALSE}
      /\ UNCHANGED <<stored, status, limited, request, booked>>
  BY DEF LoseRedis, Reset, database
<1>2. faults' \in 0..MaxFaults
  BY <1>1, Limits DEF IInv, TypeOK
<1>3. TypeOK'
  <2>1. trades' \in [n : Nat, expires : BOOLEAN] /\ (trades'.expires => trades'.n > 0)
    BY <1>1, NoTradesFacts DEF IInv, TypeOK
  <2>2. breaker' \in Breakers \cup {NoKey} /\ cooling' \in BOOLEAN /\ forgotten' \in BOOLEAN
    BY <1>1 DEF IInv, TypeOK
  <2> QED
    BY <1>1, <1>2, <2>1, <2>2 DEF IInv, TypeOK, At
<1>4. RequestsTyped' /\ BreakersTrip'
  BY <1>1, Unmoved DEF IInv, BreakersTrip, Tripped
<1>5. LossKept' /\ LetIn' /\ LossesBounded' /\ TradesKept'
  BY <1>1 DEF IInv, LossKept, LetIn, LossesBounded, TradesKept
<1> QED
  BY <1>3, <1>4, <1>5 DEF IInv

\* The status and the cooldown are in none of what is kept.
LEMMA OthersKeep ==
    ASSUME IInv, SetStatus \/ CooldownEnds \/ UNCHANGED vars
    PROVE  IInv'
<1>1. /\ status' \in {status, "ACTIVE", "DISABLED"} /\ cooling' \in {cooling, FALSE}
      /\ UNCHANGED <<breaker, trades, stored, limited, request, booked, forgotten, faults>>
  BY DEF SetStatus, CooldownEnds, vars, redis, database, history
<1>2. TypeOK'
  BY <1>1 DEF IInv, TypeOK, At
<1>3. /\ RequestsTyped' /\ Unwritten' = Unwritten /\ KeyRead' = KeyRead
      /\ \A s \in {"run", "manual"} : ToFill(s)' = ToFill(s) /\ ToCount(s)' = ToCount(s)
  BY <1>1, Unmoved DEF IInv, KeyRead
<1>4. LossKept' /\ BreakersTrip' /\ LetIn' /\ LossesBounded' /\ TradesKept'
  BY <1>1, <1>3 DEF IInv, LossKept, BreakersTrip, Tripped, LetIn, LossesBounded, TradesKept
<1> QED
  BY <1>2, <1>3, <1>4 DEF IInv

\* The new day starts with nothing booked.
LEMMA MidnightKeeps ==
    ASSUME IInv, Midnight
    PROVE  IInv'
<1>1. /\ breaker' = NoKey /\ trades' \in {trades, NoTrades}
      /\ stored' = [stored EXCEPT !.today = FALSE]
      /\ booked' = [loss |-> 0, trades |-> 0] /\ forgotten' = FALSE
      /\ faults' = faults \/ (faults < MaxFaults /\ faults' = faults + 1)
      /\ UNCHANGED <<cooling, status, limited, request>>
  BY DEF Midnight
<1>2. /\ RequestsTyped' /\ Unwritten' = Unwritten /\ Unwritten \in 0..MaxLost
      /\ \A s \in {"run", "manual"} :
            /\ ToFill(s)' = ToFill(s) /\ ToCount(s)' = ToCount(s)
            /\ ToFill(s) \in Nat /\ ToCount(s) \in Nat /\ ToFill(s) <= MaxFills
  <2>1. \A s \in {"run", "manual"} :
           ToFill(s) \in Nat /\ ToCount(s) \in Nat /\ ToFill(s) + ToCount(s) <= MaxFills
    BY UnderWayTyped DEF IInv
  <2>2. \A s \in {"run", "manual"} : ToFill(s) <= MaxFills
    BY <2>1, ValueFacts
  <2> QED
    BY <1>1, <2>1, <2>2, Unmoved, UnderWayTyped DEF IInv
<1>3. faults' \in 0..MaxFaults
  BY <1>1, Limits DEF IInv, TypeOK
<1>4. /\ stored' \in [breaker : Breakers, today : BOOLEAN] \cup {NoRow}
      /\ stored'.breaker = stored.breaker
  <2>1. CASE stored = NoRow
    <3>1. stored' = NoRow
      BY <1>1, <2>1 DEF NoRow
    <3> QED
      BY <2>1, <3>1
  <2>2. CASE stored \in [breaker : Breakers, today : BOOLEAN]
    BY <1>1, <2>2
  <2> QED
    BY <2>1, <2>2 DEF IInv, TypeOK
<1>5. TypeOK'
  <2>1. trades' \in [n : Nat, expires : BOOLEAN] /\ (trades'.expires => trades'.n > 0)
    BY <1>1, NoTradesFacts DEF IInv, TypeOK
  <2>2. booked' \in [loss : Nat, trades : Nat]
    BY <1>1
  <2> QED
    BY <1>1, <1>3, <1>4, <2>1, <2>2 DEF IInv, TypeOK, At
<1>6. BreakersTrip'
  BY <1>1, <1>4 DEF IInv, BreakersTrip, Tripped
<1>7. LossKept'
  <2>1. KeyRead.loss' = 0
    BY <1>1 DEF KeyRead, Fresh
  <2>2. "run" \in DOMAIN request => request["run"].read.loss \in Nat /\ request["run"].report.lost \in Nat
    BY ValueFacts DEF IInv, RequestsTyped, Request, Breakers, Reports
  <2> QED
    BY <1>1, <1>2, <2>1, <2>2, ValueFacts DEF LossKept
<1>8. LetIn' /\ LossesBounded'
  BY <1>1, ValueFacts DEF LetIn, LossesBounded
<1>9. TradesKept'
  <2>1. trades'.n \in Nat
    BY <1>1 DEF IInv, TypeOK, NoTrades
  <2> QED
    BY <1>1, <1>2, <2>1, ValueFacts DEF TradesKept
<1> QED
  BY <1>2, <1>5, <1>6, <1>7, <1>8, <1>9 DEF IInv

-----------------------------------------------------------------------------
(* Theorems *)

\* Nothing is booked, nothing under way, and no key written.
LEMMA InitIInv == Init => IInv
<1> SUFFICES ASSUME Init PROVE IInv
  OBVIOUS
<1>1. PICK case \in Cases :
         limited = case.limited /\ request = [r \in case.requests |-> Idle]
  BY DEF Init
<1>2. /\ case \in [requests : SUBSET Requests, limited : BOOLEAN]
      /\ DOMAIN request = case.requests /\ \A r \in DOMAIN request : request[r] = Idle
  BY <1>1, Limits DEF Requests
<1>3. /\ breaker = NoKey /\ trades = NoTrades /\ cooling = FALSE /\ stored = NoRow
      /\ status = "ACTIVE" /\ booked = [loss |-> 0, trades |-> 0] /\ forgotten = FALSE /\ faults = 0
  BY DEF Init
<1>4. [requests |-> DOMAIN request, limited |-> limited] \in Cases
  BY <1>1, <1>2
<1>5. Idle.pc = "idle" /\ Idle.report = NoReport /\ Idle.read = Fresh /\ Idle.verdict = Quiet
  BY DEF Idle
<1>6. \A r \in DOMAIN request : Fits(r, request[r])
  BY <1>2, <1>5, ValueFacts DEF Fits, NoReport, Checking
<1>7. RequestsTyped
  BY <1>1, <1>2, <1>6, ValueFacts DEF RequestsTyped
<1>8. TypeOK
  <2>1. booked \in [loss : Nat, trades : Nat] /\ faults \in 0..MaxFaults
    BY <1>3, Limits
  <2>2. \A r \in DOMAIN request :
           /\ request[r].pc \in Places /\ request[r].read \in Breakers
           /\ request[r].report \in Reports /\ request[r].verdict \in Verdict
           /\ At(r, "idle") => request[r] = Idle
    BY <1>2, <1>5, ValueFacts DEF Places
  <2> QED
    BY <1>3, <1>4, <2>1, <2>2, NoTradesFacts DEF TypeOK
<1>9. Unwritten = 0 /\ ToFill("run") = 0 /\ ToFill("manual") = 0
      /\ ToCount("run") = 0 /\ ToCount("manual") = 0
  BY <1>2, <1>5 DEF Unwritten, ToFill, ToCount, NoReport
<1>10. LossKept /\ BreakersTrip /\ LetIn /\ LossesBounded
  BY <1>2, <1>3, <1>5, <1>9, ValueFacts DEF LossKept, BreakersTrip, Tripped, LetIn, LossesBounded, KeyRead,
     Fresh, NoRow
<1>11. TradesKept
  BY <1>3, <1>9, ValueFacts DEF TradesKept, NoTrades
<1> QED
  BY <1>7, <1>8, <1>10, <1>11 DEF IInv

\* Every step keeps the invariant: one lemma per action.
LEMMA NextKeeps == IInv /\ [Next]_vars => IInv'
<1> SUFFICES ASSUME IInv, [Next]_vars PROVE IInv'
  OBVIOUS
<1>1. ASSUME NEW r \in DOMAIN request, Step(r) PROVE IInv'
  <2>1. CASE r \in {"run", "manual"} /\ Executes(r)
    BY <2>1, BeginKeeps, CheckKeeps, ExecuteKeeps, RecordKeeps, ExpireKeeps DEF Executes
  <2>2. CASE r = "monitor" /\ Watch(r)
    BY <2>2, WatchKeeps
  <2>3. CASE r = "sync" /\ BeginSync(r)
    BY <2>3, BeginSyncKeeps
  <2>4. CASE r \in {"run", "monitor"} /\ Judges(r)
    BY <2>4, ReadKeeps, WriteKeeps, StopKeeps DEF Judges
  <2>5. CASE Saves(r)
    BY <2>5, ReadToSaveKeeps, SaveKeeps DEF Saves
  <2> QED
    BY <1>1, <2>1, <2>2, <2>3, <2>4, <2>5 DEF Step
<1>2. ASSUME NEW r \in DOMAIN request, Fail(r) PROVE IInv'
  BY <1>2, FailKeeps
<1> QED
  BY <1>1, <1>2, LoadKeeps, LosingKeeps, OthersKeep, MidnightKeeps DEF Next

\* The breaker and the executions under way account for the losses and the
\* trades of the day at every step of check_all, record_trade and
\* check_and_update, and whatever is read, saved and loaded meanwhile.
THEOREM ControlsAccount == Spec => []IInv
BY InitIInv, NextKeeps, PTL DEF Spec

\* Every key, row and request keeps its type.
THEOREM TypeCorrect == Spec => []TypeOK
BY ControlsAccount, PTL DEF IInv

\* The losses of the day's turns pass max_daily_loss by at most what one turn
\* loses, for every limit, unless some of the day's state was lost.
THEOREM DailyLossBounded == Spec => []LossesBounded
BY ControlsAccount, PTL DEF IInv

\* The trades of the day pass max_daily_trades by at most what two executions
\* fill that are let in together, for every limit, unless some of the day's
\* state was lost.
THEOREM DailyTradesBounded == Spec => []TradesBounded
<1>1. IInv => TradesBounded
  <2> SUFFICES ASSUME IInv, ~forgotten PROVE booked.trades <= MaxTrades - 1 + 2 * MaxFills
    BY DEF TradesBounded
  <2>1. ToFill("run") \in Nat /\ ToFill("manual") \in Nat
    BY UnderWayTyped DEF IInv
  <2> QED
    BY <2>1, ValueFacts DEF IInv, TradesKept, TypeOK
<1> QED
  BY <1>1, ControlsAccount, PTL

=============================================================================
