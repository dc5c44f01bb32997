------------------------ MODULE ScheduledRunsProofs ------------------------
(***************************************************************************)
(* What the per-strategy lock of ScheduledRuns guarantees for any number   *)
(* of strategies, users and requests, and however long the work on a       *)
(* strategy takes: a run at work that has not outlived its lock still owns *)
(* it, and the leases implement ExclusiveRun.                              *)
(***************************************************************************)
EXTENDS ScheduledRuns, TLAPS

\* A run at work on a strategy that has not outlived its lock owns it, and the
\* lock has at least as much life left as the work has not used up.
LockHeld ==
    \A w \in Workers :
        IF pc[w] \in Working
        THEN worked[w] < TTL => /\ lock[cur[w]].owner = w
                                /\ lock[cur[w]].left + worked[w] >= TTL
        ELSE worked[w] = 0

\* What happens to a key leaves it a key.
LEMMA KeyFacts ==
    /\ Free \in Key
    /\ \A w \in Workers : Taken(w) \in Key
    /\ \A key \in Key, w \in Workers :
          Released(key, w) \in Key /\ Aged(key) \in Key /\ Orphaned(key, w) \in Key
BY NaturalTimes, TokensDiffer DEF Key, Free, Taken, Released, Aged, Orphaned

\* TypeOK in the initial state.
LEMMA InitTypeOK == Init => TypeOK
BY KeyFacts, NaturalTimes DEF Init, TypeOK, Places, Working, Writes, Nothing, Undecided

\* Giving the strategy's lock back keeps the types.
LEMMA UnlockTypeOK ==
    ASSUME TypeOK, NEW w \in Workers, pc[w] \in Working,
           NEW place \in Places, Unlock(w, place)
    PROVE  /\ cur[w] \in Strategies
           /\ lock' \in [Strategies -> Key]
           /\ worked' \in [Workers -> 0..TTL]
           /\ pc' \in [Workers -> Places]
           /\ pc' = [pc EXCEPT ![w] = place]
<1>1. cur[w] \in Strategies
  BY DEF TypeOK, Working
<1>2. lock[cur[w]] \in Key
  BY <1>1 DEF TypeOK
<1>3. Released(lock[cur[w]], w) \in Key
  BY <1>2, KeyFacts
<1>4. lock' \in [Strategies -> Key]
  BY <1>1, <1>3 DEF TypeOK, Unlock
<1>5. 0 \in 0..TTL
  BY NaturalTimes
<1>6. worked' \in [Workers -> 0..TTL]
  BY <1>5 DEF TypeOK, Unlock
<1>7. pc' \in [Workers -> Places] /\ pc' = [pc EXCEPT ![w] = place]
  BY DEF TypeOK, Unlock
<1> QED
  BY <1>1, <1>4, <1>6, <1>7

\* Adding strategies to what a session wrote.
LEMMA SessionFacts ==
    ASSUME NEW s \in Writes, NEW X \in SUBSET Strategies, NEW Y \in SUBSET Strategies
    PROVE  /\ [s EXCEPT !.exits = s.exits \cup X] \in Writes
           /\ [s EXCEPT !.stopped = s.stopped \cup X, !.exits = s.exits \cup Y] \in Writes
BY DEF Writes

\* TypeOK over a run's step, a fault, and what others do.
LEMMA StepTypeOK ==
    ASSUME TypeOK, NEW w \in Workers, Step(w)
    PROVE  TypeOK'
<1> USE DEF vars, env, redis, db, run
<1>1. CASE Skipped(w)
  BY <1>1, NaturalTimes DEF TypeOK, Skipped
<1>2. CASE Start(w)
  BY <1>2, NaturalTimes, KeyFacts DEF TypeOK, Start, Due, Undecided, Places
<1>3. ASSUME NEW st \in Strategies, TakeStrategy(w, st) PROVE TypeOK'
  <2> USE <1>3 DEF TakeStrategy, Hold
  <2>1. lock' \in [Strategies -> Key]
    BY KeyFacts DEF TypeOK
  <2>2. /\ pc' \in [Workers -> Places] /\ pc' = [pc EXCEPT ![w] = "locked"]
        /\ cur' \in [Workers -> Strategies \cup {NoOne}] /\ cur' = [cur EXCEPT ![w] = st]
        /\ todo' \in [Workers -> SUBSET Strategies]
    BY DEF TypeOK, Places, Working
  <2>3. \A v \in Workers : cur'[v] = NoOne => pc'[v] \in {"idle", "next", "closing"}
    BY <2>2, StrategiesHaveOwners DEF TypeOK
  <2> QED
    BY <2>1, <2>2, <2>3 DEF TypeOK
<1>4. ASSUME NEW st \in Strategies, SkipStrategy(w, st) PROVE TypeOK'
  BY <1>4, NaturalTimes DEF TypeOK, SkipStrategy
<1>5. CASE Breach(w)
  <2>1. Unlock(w, "next") /\ pc[w] = "locked"
    BY <1>5 DEF Breach
  <2>2. /\ cur[w] \in Strategies
        /\ lock' \in [Strategies -> Key] /\ worked' \in [Workers -> 0..TTL]
        /\ pc' \in [Workers -> Places] /\ pc' = [pc EXCEPT ![w] = "next"]
    BY <2>1, UnlockTypeOK DEF Places, Working
  <2>3. Owner[cur[w]] \in Users
    BY <2>2, StrategiesHaveOwners
  <2>4. verdicts' \in [Workers -> [safe : SUBSET Users, breach : SUBSET Users]]
    BY <1>5, <2>3 DEF TypeOK, Breach
  <2>5. killed' \subseteq Users
    BY <1>5, <2>3 DEF TypeOK, Breach
  <2>6. session' \in [Workers -> Writes]
    <3>1. CASE session' = session
      BY <3>1 DEF TypeOK
    <3>2. CASE session' # session
      <4>1. PICK closed \in {{}, Owned(Owner[cur[w]])} :
               session' = [session EXCEPT ![w].stopped = @ \cup (Owned(Owner[cur[w]]) \cap active),
                                          ![w].exits = @ \cup closed]
        BY <1>5, <3>2 DEF Breach
      <4>2. closed \in SUBSET Strategies /\ Owned(Owner[cur[w]]) \cap active \in SUBSET Strategies
        BY DEF Owned
      <4> QED
        BY <4>1, <4>2, SessionFacts DEF TypeOK
    <3> QED
      BY <3>1, <3>2
  <2>7. cur' \in [Workers -> Strategies \cup {NoOne}] /\ cur' = [cur EXCEPT ![w] = NoOne]
    BY <1>5 DEF TypeOK, Breach
  <2>8. \A v \in Workers : cur'[v] = NoOne => pc'[v] \in {"idle", "next", "closing"}
    BY <2>2, <2>7 DEF TypeOK
  <2> QED
    BY <1>5, <2>2, <2>4, <2>5, <2>6, <2>7, <2>8 DEF TypeOK, Breach
<1>6. CASE CheckExits(w)
  <2> USE <1>6 DEF CheckExits, RunExitChecks
  <2>1. cur[w] \in Strategies /\ Owner[cur[w]] \in Users
    BY StrategiesHaveOwners DEF TypeOK
  <2>2. verdicts' \in [Workers -> [safe : SUBSET Users, breach : SUBSET Users]]
    BY <2>1 DEF TypeOK
  <2>3. session' \in [Workers -> Writes]
    <3>1. PICK closed \in {{}} \cup {{st} : st \in {st \in {cur[w]} : RowFree(w, st)}} :
             session' = [session EXCEPT ![w].exits = @ \cup closed]
      OBVIOUS
    <3>2. closed \in SUBSET Strategies
      BY <2>1
    <3> QED
      BY <3>1, <3>2, SessionFacts DEF TypeOK
  <2>4. /\ pc' \in [Workers -> Places]
        /\ \A v \in Workers : cur'[v] = NoOne => pc'[v] \in {"idle", "next", "closing"}
    BY <2>1, StrategiesHaveOwners DEF TypeOK, Places, Working
  <2> QED
    BY <2>2, <2>3, <2>4 DEF TypeOK
<1>7. CASE Block(w)
  <2>1. Unlock(w, "next") /\ pc[w] \in Working
    BY <1>7 DEF Block, Working
  <2>2. /\ cur[w] \in Strategies
        /\ lock' \in [Strategies -> Key] /\ worked' \in [Workers -> 0..TTL]
        /\ pc' \in [Workers -> Places] /\ pc' = [pc EXCEPT ![w] = "next"]
    BY <2>1, UnlockTypeOK DEF Places
  <2>3. \A v \in Workers : cur'[v] = NoOne => pc'[v] \in {"idle", "next", "closing"}
    BY <1>7, <2>2, StrategiesHaveOwners DEF TypeOK, Block
  <2> QED
    BY <1>7, <2>2, <2>3, NaturalTimes, StrategiesHaveOwners DEF TypeOK, Block
<1>8. CASE Execute(w)
  BY <1>8, NaturalTimes DEF TypeOK, Execute, Places, Working
<1>9. CASE Executed(w)
  BY <1>9, NaturalTimes, ZenonT(60) DEF TypeOK, Executed, Writes, Places, Working
<1>10. CASE Trip(w)
  <2> USE <1>10 DEF Trip
  <2>1. cur[w] \in Strategies
    BY DEF TypeOK
  <2>2. wait' \in [Strategies -> 0..Interval] /\ active' \subseteq Strategies
    BY NaturalTimes DEF TypeOK, Committed
  <2>3. (IF pc[w] = "executed" THEN {cur[w]} ELSE {}) \in SUBSET Strategies
    BY <2>1
  <2>4. [Nothing EXCEPT !.stopped = IF pc[w] = "executed" THEN {cur[w]} ELSE {}] \in Writes
    BY <2>3 DEF Nothing, Writes
  <2>5. session' \in [Workers -> Writes]
    BY <2>4 DEF TypeOK
  <2>6. /\ pc' \in [Workers -> Places]
        /\ \A v \in Workers : cur'[v] = NoOne => pc'[v] \in {"idle", "next", "closing"}
    BY <2>1, StrategiesHaveOwners DEF TypeOK, Places, Working
  <2> QED
    BY <2>2, <2>5, <2>6 DEF TypeOK
<1>11. CASE Unlocked(w)
  <2>1. Unlock(w, "unlocked") /\ pc[w] \in Working
    BY <1>11 DEF Unlocked, Working
  <2>2. /\ cur[w] \in Strategies
        /\ lock' \in [Strategies -> Key] /\ worked' \in [Workers -> 0..TTL]
        /\ pc' \in [Workers -> Places] /\ pc' = [pc EXCEPT ![w] = "unlocked"]
    BY <2>1, UnlockTypeOK DEF Places
  <2>3. \A v \in Workers : cur'[v] = NoOne => pc'[v] \in {"idle", "next", "closing"}
    BY <1>11, <2>2, StrategiesHaveOwners DEF TypeOK, Unlocked
  <2> QED
    BY <1>11, <2>2, <2>3, NaturalTimes, StrategiesHaveOwners DEF TypeOK, Unlocked
<1>12. CASE Commit(w)
  BY <1>12, NaturalTimes DEF TypeOK, Commit, Committed, Nothing, Writes, Places, Working
<1>13. CASE TimeOut(w)
  <2>1. Unlock(w, "failed") /\ pc[w] \in Working
    BY <1>13 DEF TimeOut, GiveUp, Working
  <2>2. /\ cur[w] \in Strategies
        /\ lock' \in [Strategies -> Key] /\ worked' \in [Workers -> 0..TTL]
        /\ pc' \in [Workers -> Places] /\ pc' = [pc EXCEPT ![w] = "failed"]
    BY <2>1, UnlockTypeOK DEF Places
  <2>3. \A v \in Workers : cur'[v] = NoOne => pc'[v] \in {"idle", "next", "closing"}
    BY <1>13, <2>2, StrategiesHaveOwners DEF TypeOK, TimeOut, GiveUp
  <2> QED
    BY <1>13, <2>2, <2>3, NaturalTimes, StrategiesHaveOwners DEF TypeOK, TimeOut, GiveUp
<1>14. CASE RollBack(w)
  BY <1>14, NaturalTimes DEF TypeOK, RollBack, Nothing, Writes, Places, Working
<1>15. CASE End(w)
  BY <1>15, NaturalTimes, KeyFacts DEF TypeOK, End, Places, Working
<1>16. CASE Close(w)
  BY <1>16, NaturalTimes DEF TypeOK, Close, Committed, Undecided, Nothing, Writes, Places, Working
<1> QED
  BY <1>1, <1>2, <1>3, <1>4, <1>5, <1>6, <1>7, <1>8, <1>9, <1>10, <1>11, <1>12,
     <1>13, <1>14, <1>15, <1>16 DEF Step

\* What fails in a process, and its recovery, keeps the types.
LEMMA FaultTypeOK ==
    ASSUME TypeOK, NEW w \in Workers, Fault(w)
    PROVE  TypeOK'
<1> USE DEF vars, env, redis, db, run
<1>1. CASE Recover(w)
  <2> USE <1>1 DEF Recover
  <2>1. cur[w] \in Strategies
    BY DEF TypeOK
  <2>2. wait' \in [Strategies -> 0..Interval]
    BY <2>1, NaturalTimes DEF TypeOK
  <2>3. session' \in [Workers -> Writes]
    BY DEF TypeOK, Nothing, Writes
  <2>4. /\ pc' \in [Workers -> Places]
        /\ \A v \in Workers : cur'[v] = NoOne => pc'[v] \in {"idle", "next", "closing"}
    BY <2>1, StrategiesHaveOwners DEF TypeOK, Places, Working
  <2> QED
    BY <2>2, <2>3, <2>4 DEF TypeOK
<1>2. CASE Fail(w)
  <2>1. Unlock(w, "failed") /\ pc[w] \in Working
    BY <1>2 DEF Fail, Working
  <2>2. /\ cur[w] \in Strategies
        /\ lock' \in [Strategies -> Key] /\ worked' \in [Workers -> 0..TTL]
        /\ pc' \in [Workers -> Places] /\ pc' = [pc EXCEPT ![w] = "failed"]
    BY <2>1, UnlockTypeOK DEF Places
  <2>3. \A v \in Workers : cur'[v] = NoOne => pc'[v] \in {"idle", "next", "closing"}
    BY <1>2, <2>2, StrategiesHaveOwners DEF TypeOK, Fail
  <2> QED
    BY <1>2, <2>2, <2>3, NaturalTimes, StrategiesHaveOwners DEF TypeOK, Fail
<1>3. CASE CommitFails(w)
  BY <1>3, NaturalTimes DEF TypeOK, CommitFails, Places, Working
<1>4. CASE Crash(w)
  <2> USE <1>4 DEF Crash
  <2>1. global' \in Key /\ lock' \in [Strategies -> Key]
    BY KeyFacts DEF TypeOK
  <2>2. /\ pc' \in [Workers -> Places] /\ todo' \in [Workers -> SUBSET Strategies]
        /\ cur' \in [Workers -> Strategies \cup {NoOne}]
        /\ \A v \in Workers : cur'[v] = NoOne => pc'[v] \in {"idle", "next", "closing"}
    BY DEF TypeOK, Places
  <2>3. worked' \in [Workers -> 0..TTL]
    BY NaturalTimes DEF TypeOK
  <2>4. /\ verdicts' \in [Workers -> [safe : SUBSET Users, breach : SUBSET Users]]
        /\ session' \in [Workers -> Writes]
    BY DEF TypeOK, Undecided, Nothing, Writes
  <2> QED
    BY <2>1, <2>2, <2>3, <2>4 DEF TypeOK
<1>5. CASE BreachFails(w)
  <2>1. Unlock(w, "failed") /\ pc[w] \in Working
    BY <1>5 DEF BreachFails, Working
  <2>2. /\ cur[w] \in Strategies
        /\ lock' \in [Strategies -> Key] /\ worked' \in [Workers -> 0..TTL]
        /\ pc' \in [Workers -> Places] /\ pc' = [pc EXCEPT ![w] = "failed"]
    BY <2>1, UnlockTypeOK DEF Places
  <2>3. \A v \in Workers : cur'[v] = NoOne => pc'[v] \in {"idle", "next", "closing"}
    BY <1>5, <2>2, StrategiesHaveOwners DEF TypeOK, BreachFails
  <2>4. killed' \subseteq Users
    BY <1>5, <2>2, StrategiesHaveOwners DEF TypeOK, BreachFails
  <2> QED
    BY <1>5, <2>2, <2>3, <2>4, NaturalTimes DEF TypeOK, BreachFails
<1> QED
  BY <1>1, <1>2, <1>3, <1>4, <1>5 DEF Fault

\* What users, manual runs and the clock do keeps the types.
LEMMA OthersTypeOK ==
    ASSUME TypeOK,
           \/ \E st \in Touched :
                \/ StartManual(st) \/ ManualBreach(st) \/ EndManual(st) \/ FailManual(st)
                \/ Enable(st) \/ Disable(st)
           \/ \E st \in Touched : TurnKillSwitch(Owner[st])
           \/ Tick
    PROVE  TypeOK'
<1> USE DEF vars, env, redis, db, run
<1>1. ASSUME NEW st \in Strategies,
             StartManual(st) \/ ManualBreach(st) \/ EndManual(st) \/ FailManual(st)
      PROVE  TypeOK'
  BY <1>1, NaturalTimes, StrategiesHaveOwners
  DEF TypeOK, StartManual, ManualBreach, EndManual, FailManual
<1>2. ASSUME NEW st \in Strategies, Enable(st) \/ Disable(st)
      PROVE  TypeOK'
  BY <1>2, NaturalTimes DEF TypeOK, Enable, Disable
<1>3. ASSUME NEW user \in Users, TurnKillSwitch(user)
      PROVE  TypeOK'
  BY <1>3, NaturalTimes DEF TypeOK, TurnKillSwitch
<1>4. CASE Tick
  <2> USE <1>4 DEF Tick
  <2>1. global' \in Key /\ lock' \in [Strategies -> Key]
    <3>1. \A key \in Key : Aged(key) \in Key
      BY NaturalTimes DEF Key, Aged, Free
    <3> QED
      BY <3>1 DEF TypeOK
  <2>2. wait' \in [Strategies -> 0..Interval]
    <3>1. \A n \in 0..Interval : (IF n = 0 THEN 0 ELSE n - 1) \in 0..Interval
      BY NaturalTimes
    <3>2. \A st \in Strategies : wait[st] \in 0..Interval
      BY DEF TypeOK
    <3> QED
      BY <3>1, <3>2
  <2>4. requests' \in 0..MaxRequests
    BY NaturalTimes DEF TypeOK
  <2>3. worked' \in [Workers -> 0..TTL]
    <3>1. ASSUME NEW w \in Workers
          PROVE  (IF pc[w] \in Working THEN Older(worked[w]) ELSE 0) \in 0..TTL
      BY <3>1, NaturalTimes DEF TypeOK, Older
    <3> QED
      BY <3>1
  <2> QED
    BY <2>1, <2>2, <2>3, <2>4 DEF TypeOK
<1> QED
  BY <1>1, <1>2, <1>3, <1>4, StrategiesHaveOwners

-----------------------------------------------------------------------------

\* A run keeps the lock of the strategy it works on for as long as the lock
\* lives.
LEMMA NextLockHeld ==
    ASSUME TypeOK, LockHeld, [Next]_vars
    PROVE  LockHeld'
<1> USE NaturalTimes, TokensDiffer DEF vars, env, redis, db, run
<1>1. ASSUME NEW w \in Workers, NEW st \in Strategies, TakeStrategy(w, st) PROVE LockHeld'
  BY <1>1 DEF TypeOK, LockHeld, TakeStrategy, Hold, Free, Taken, Working
<1>2. ASSUME NEW w \in Workers, NEW place \in Places \ Working,
             pc[w] \in Working, Unlock(w, place), UNCHANGED cur \/ cur' = [cur EXCEPT ![w] = NoOne]
      PROVE  LockHeld'
  BY <1>2 DEF TypeOK, LockHeld, Unlock, Released, Free
<1>3. ASSUME NEW w \in Workers, Crash(w) PROVE LockHeld'
  BY <1>3 DEF TypeOK, LockHeld, Crash, Orphaned, Working
<1>4. CASE Tick
  <2> SUFFICES ASSUME NEW w \in Workers, pc[w] \in Working, worked'[w] < TTL
               PROVE  /\ lock'[cur[w]].owner = w
                      /\ lock'[cur[w]].left + worked'[w] >= TTL
    BY <1>4 DEF LockHeld, Tick
  <2>1. cur[w] \in Strategies /\ lock[cur[w]] \in Key /\ worked[w] \in 0..TTL
    BY DEF TypeOK, Working
  <2>2. worked'[w] = worked[w] + 1 /\ worked[w] + 1 < TTL
    BY <1>4, <2>1 DEF Tick, Older
  <2>3. lock[cur[w]].owner = w /\ lock[cur[w]].left + worked[w] >= TTL
    BY <2>1, <2>2 DEF LockHeld
  <2>4. lock[cur[w]].left \in 2..TTL
    BY <2>1, <2>2, <2>3 DEF Key, Free
  <2>5. lock'[cur[w]] = [owner |-> w, left |-> lock[cur[w]].left - 1]
    BY <1>4, <2>1, <2>3, <2>4 DEF Tick, Aged
  <2>6. lock'[cur[w]].left + worked'[w] = lock[cur[w]].left + worked[w]
    BY <2>1, <2>2, <2>4, <2>5
  <2> QED
    BY <2>3, <2>5, <2>6
<1>5. ASSUME NEW w \in Workers, UNCHANGED <<lock, worked>>,
             NEW place \in Places, pc' = [pc EXCEPT ![w] = place],
             place \in Working <=> pc[w] \in Working,
             \A v \in Workers : pc[v] \in Working => cur'[v] = cur[v]
      PROVE  LockHeld'
  BY <1>5 DEF TypeOK, LockHeld
<1>6. CASE UNCHANGED <<lock, pc, cur, worked>>
  BY <1>6 DEF LockHeld
<1>7. ASSUME NEW w \in Workers, Step(w) PROVE LockHeld'
  <2>1. CASE Skipped(w)
    BY <2>1, <1>6 DEF Skipped
  <2>2. CASE \E st \in Strategies : TakeStrategy(w, st)
    BY <2>2, <1>1
  <2>3. CASE \E st \in Strategies : SkipStrategy(w, st)
    BY <2>3, <1>6 DEF SkipStrategy
  <2>4. CASE Breach(w) \/ Block(w)
    BY <2>4, <1>2 DEF Breach, Block, Places, Working
  <2>5. CASE Unlocked(w) \/ TimeOut(w)
    BY <2>5, <1>2 DEF Unlocked, TimeOut, GiveUp, Places, Working
  <2>6. CASE CheckExits(w) \/ Execute(w) \/ Executed(w) \/ Trip(w)
    BY <2>6, <1>5 DEF CheckExits, RunExitChecks, Execute, Executed, Trip, Places, Working
  <2>7. CASE Start(w) \/ Commit(w) \/ RollBack(w) \/ End(w) \/ Close(w)
    BY <2>7, <1>5 DEF TypeOK, Start, Commit, RollBack, End, Close, Places, Working
  <2> QED
    BY <1>7, <2>1, <2>2, <2>3, <2>4, <2>5, <2>6, <2>7 DEF Step
<1>8. ASSUME NEW w \in Workers, Fault(w) PROVE LockHeld'
  <2>1. CASE Recover(w) \/ CommitFails(w)
    BY <2>1, <1>5 DEF Recover, CommitFails, Places, Working
  <2>2. CASE Fail(w) \/ BreachFails(w)
    BY <2>2, <1>2 DEF Fail, BreachFails, Places, Working
  <2> QED
    BY <1>8, <1>3, <2>1, <2>2 DEF Fault
<1> QED
  BY <1>4, <1>6, <1>7, <1>8
  DEF Next, StartManual, ManualBreach, EndManual, FailManual, Enable, Disable, TurnKillSwitch

-----------------------------------------------------------------------------

\* The runs a strategy is leased to.
Leases == [st \in Strategies |-> InTime(st)]

\* A strategy is leased to nobody but the owner of its lock.
LEMMA LeaseIsOwners ==
    ASSUME LockHeld, NEW st \in Strategies, NEW w \in InTime(st)
    PROVE  w \in Workers /\ lock[st].owner = w
BY DEF LockHeld, InTime, InHands

\* Taking up a strategy, and putting it down, are steps of ExclusiveRun.
LEMMA LeaseTaken ==
    ASSUME TypeOK, LockHeld, NEW w \in Workers, NEW st \in Strategies, TakeStrategy(w, st)
    PROVE  Exclusive!Next
<1>1. InTime(st) = {}
  BY LeaseIsOwners, TokensDiffer DEF TakeStrategy, Free
<1>2. worked[w] = 0 /\ worked' = worked
  BY DEF LockHeld, TakeStrategy, Hold, Working, run
<1>3. InTime(st)' = {w}
  BY <1>1, <1>2, NaturalTimes DEF TypeOK, InTime, InHands, TakeStrategy, Hold, Working
<1>4. \A other \in Strategies \ {st} : InTime(other)' = InTime(other)
  BY <1>2 DEF TypeOK, InTime, InHands, TakeStrategy, Hold, Working
<1>5. Exclusive!Take(st, w)
  BY <1>1, <1>3, <1>4 DEF Exclusive!Take
<1> QED
  BY <1>5 DEF Exclusive!Next

\* A process that lets go of a strategy ends its lease, if it still has one.
LEMMA LeaseDropped ==
    ASSUME TypeOK, LockHeld, NEW w \in Workers, pc[w] \in Working,
           NEW place \in Places \ Working, pc' = [pc EXCEPT ![w] = place],
           \A v \in Workers \ {w} : cur'[v] = cur[v] /\ worked'[v] = worked[v]
    PROVE  Exclusive!Next
<1> DEFINE gone == {st \in Strategies : w \in InTime(st)}
<1>1. ASSUME NEW st \in gone PROVE InTime(st)' = {}
  <2>1. InTime(st) = {w}
    BY LeaseIsOwners DEF InTime
  <2> QED
    BY <2>1 DEF TypeOK, InTime, InHands
<1>2. ASSUME NEW st \in Strategies \ gone PROVE InTime(st)' = InTime(st)
  BY DEF TypeOK, InTime, InHands
<1>3. Exclusive!Drop(gone)
  BY <1>1, <1>2 DEF Exclusive!Drop
<1> QED
  BY <1>3 DEF Exclusive!Next

\* A tick ends the leases of the locks that expire with it.
LEMMA LeasesExpire ==
    ASSUME TypeOK, LockHeld, Tick
    PROVE  Exclusive!Next
<1> DEFINE gone == {st \in Strategies : InTime(st)' = {}}
<1>1. ASSUME NEW st \in Strategies \ gone PROVE InTime(st)' = InTime(st)
  <2>1. InTime(st)' \subseteq InTime(st)
    <3> SUFFICES ASSUME NEW w \in Workers, pc[w] \in Working, worked'[w] < TTL
                 PROVE  worked[w] < TTL
      BY DEF Tick, InTime, InHands
    <3>1. worked[w] \in 0..TTL /\ worked'[w] = Older(worked[w])
      BY DEF Tick, TypeOK
    <3> QED
      BY <3>1, NaturalTimes DEF Older
  <2>2. \A w \in InTime(st) : InTime(st) = {w}
    BY LeaseIsOwners
  <2> QED
    BY <2>1, <2>2
<1>2. Exclusive!Drop(gone)
  BY <1>1 DEF Exclusive!Drop
<1> QED
  BY <1>2 DEF Exclusive!Next

\* A step within the work on a strategy leaves every lease as it is.
LEMMA LeasesKept ==
    ASSUME TypeOK, NEW w \in Workers,
           NEW place \in Places, pc' = [pc EXCEPT ![w] = place],
           place \in Working <=> pc[w] \in Working,
           \A v \in Workers : pc[v] \in Working => cur'[v] = cur[v] /\ worked'[v] = worked[v]
    PROVE  Leases' = Leases
<1>1. \A st \in Strategies : InTime(st)' = InTime(st)
  BY DEF TypeOK, InTime, InHands
<1> QED
  BY <1>1 DEF Leases

\* A run's step, or a fault, is a step of ExclusiveRun or leaves it alone.
LEMMA StepExclusive ==
    ASSUME TypeOK, LockHeld, NEW w \in Workers, Step(w) \/ Fault(w)
    PROVE  [Exclusive!Next]_Leases
<1> USE DEF run
<1>1. CASE Skipped(w) \/ \E st \in Strategies : SkipStrategy(w, st)
  BY <1>1 DEF Skipped, SkipStrategy, InTime, InHands, Leases
<1>2. CASE \E st \in Strategies : TakeStrategy(w, st)
  BY <1>2, LeaseTaken
<1>3. CASE Breach(w) \/ Block(w) \/ Unlocked(w) \/ TimeOut(w) \/ BreachFails(w) \/ Fail(w)
  <2>1. pc[w] \in Working
    BY <1>3 DEF Breach, Block, Unlocked, TimeOut, GiveUp, BreachFails, Fail, Working
  <2>2. PICK place \in Places \ Working : Unlock(w, place)
    BY <1>3
    DEF Breach, Block, Unlocked, TimeOut, GiveUp, BreachFails, Fail, Places, Working
  <2>3. \A v \in Workers \ {w} : cur'[v] = cur[v]
    BY <1>3 DEF TypeOK, Breach, Block, Unlocked, TimeOut, GiveUp, BreachFails, Fail
  <2>4. \A v \in Workers \ {w} : worked'[v] = worked[v]
    BY <2>2 DEF TypeOK, Unlock
  <2> QED
    BY <2>1, <2>2, <2>3, <2>4, LeaseDropped DEF Unlock
<1>4. CASE CheckExits(w) \/ Execute(w) \/ Executed(w) \/ Trip(w) \/ Recover(w) \/ CommitFails(w)
  BY <1>4, LeasesKept
  DEF CheckExits, RunExitChecks, Execute, Executed, Trip, Recover, CommitFails, Places, Working
<1>5. CASE Start(w) \/ Commit(w) \/ RollBack(w) \/ End(w) \/ Close(w)
  BY <1>5, LeasesKept DEF TypeOK, Start, Commit, RollBack, End, Close, Places, Working
<1>6. CASE Crash(w)
  <2>1. /\ pc' = [pc EXCEPT ![w] = "idle"]
        /\ \A v \in Workers \ {w} : cur'[v] = cur[v] /\ worked'[v] = worked[v]
    BY <1>6 DEF TypeOK, Crash
  <2>2. CASE pc[w] \in Working
    BY <2>1, <2>2, LeaseDropped DEF Places, Working
  <2>3. CASE pc[w] \notin Working
    BY <2>1, <2>3, LeasesKept DEF Places, Working
  <2> QED
    BY <2>2, <2>3
<1> QED
  BY <1>1, <1>2, <1>3, <1>4, <1>5, <1>6 DEF Step, Fault

-----------------------------------------------------------------------------

\* Every variable keeps its type, whatever the constants are.
THEOREM RunsTypeOK == Spec => []TypeOK
<1>1. TypeOK /\ [Next]_vars => TypeOK'
  <2>1. TypeOK /\ UNCHANGED vars => TypeOK'
    BY DEF vars, env, redis, db, run, TypeOK
  <2> QED
    BY <2>1, StepTypeOK, FaultTypeOK, OthersTypeOK DEF Next
<1> QED
  BY <1>1, InitTypeOK, PTL DEF Spec

\* A run at work on a strategy owns its lock until the lock's life is over,
\* however long the work takes and whatever other runs, users and failures do.
THEOREM LocksAreHeld == Spec => []LockHeld
<1>1. Init => LockHeld
  BY DEF Init, LockHeld, Working
<1>2. TypeOK /\ LockHeld /\ [Next]_vars => LockHeld'
  BY NextLockHeld
<1> QED
  BY <1>1, <1>2, RunsTypeOK, PTL DEF Spec

\* The leases implement ExclusiveRun: of the runs at work on a strategy at most
\* one has not outlived its lock (run_scheduled_strategies).
THEOREM RunsAreExclusive == Spec => ImplementsExclusive
<1>1. Init => Exclusive!Init
  BY DEF Init, Exclusive!Init, InTime, InHands, Working
<1>2. TypeOK /\ LockHeld /\ [Next]_vars => [Exclusive!Next]_Leases
  <2>1. CASE UNCHANGED <<pc, cur, worked>>
    BY <2>1 DEF InTime, InHands, Leases
  <2> QED
    BY <2>1, StepExclusive, LeasesExpire
    DEF Next, StartManual, ManualBreach, EndManual, FailManual, Enable, Disable,
        TurnKillSwitch, vars, run
<1> QED
  BY <1>1, <1>2, RunsTypeOK, LocksAreHeld, PTL
  DEF Spec, ImplementsExclusive, Exclusive!Spec, Leases

-----------------------------------------------------------------------------
(* Whose step ends a lock *)

\* No step but its owner's, or its expiry, ends a lock.
KeysKept ==
    /\ Kept(global, global')
    /\ \A st \in Strategies : Kept(lock[st], lock'[st])

\* A key that nobody's step touches is kept.
LEMMA SameIsKept ==
    ASSUME UNCHANGED <<global, lock>>
    PROVE  KeysKept
BY DEF KeysKept, Kept

\* The release of a strategy's lock ends only the lock of the run that gives it
\* back, which moves on with that step.
LEMMA UnlockKeeps ==
    ASSUME TypeOK, NEW w \in Workers, pc[w] \in Working,
           NEW place \in Places, place \notin Working, Unlock(w, place), UNCHANGED global
    PROVE  KeysKept
<1>1. pc'[w] # pc[w] /\ cur[w] \in Strategies
  BY DEF TypeOK, Unlock, Working
<1>2. \A st \in Strategies : lock'[st] = lock[st] \/ (lock[st].owner = w /\ lock'[st] = Free)
  BY <1>1 DEF TypeOK, Unlock, Released
<1> QED
  BY <1>1, <1>2 DEF KeysKept, Kept

\* Taking a lock ends nobody's.
LEMMA FreeIsKept ==
    ASSUME NEW after
    PROVE  Kept(Free, after)
BY TokensDiffer DEF Kept, Lives, Free

\* No step of a run ends the lock of another,
LEMMA StepKeepsKeys ==
    ASSUME TypeOK, NEW w \in Workers, Step(w)
    PROVE  KeysKept
<1> USE DEF vars, env, redis, db, run
<1>1. CASE Start(w)
  BY <1>1, FreeIsKept DEF Start, KeysKept, Kept
<1>2. ASSUME NEW st \in Strategies, TakeStrategy(w, st) PROVE KeysKept
  <2>1. \A other \in Strategies : lock[other] = Free \/ lock'[other] = lock[other]
    BY <1>2 DEF TypeOK, TakeStrategy, Hold
  <2>2. \A other \in Strategies : Kept(lock[other], lock'[other])
    <3> SUFFICES ASSUME NEW other \in Strategies PROVE Kept(lock[other], lock'[other])
      OBVIOUS
    <3>1. CASE lock[other] = Free
      BY <3>1, FreeIsKept
    <3>2. CASE lock'[other] = lock[other]
      BY <3>2 DEF Kept
    <3> QED
      BY <2>1, <3>1, <3>2
  <2> QED
    BY <1>2, <2>2 DEF KeysKept, Kept, TakeStrategy, Hold
<1>3. ASSUME NEW st \in Strategies, SkipStrategy(w, st) PROVE KeysKept
  BY <1>3, SameIsKept DEF SkipStrategy
<1>4. CASE Breach(w) \/ Block(w)
  <2>1. Unlock(w, "next") /\ pc[w] \in Working /\ UNCHANGED global
    BY <1>4 DEF Breach, Block, Working
  <2> QED
    BY <2>1, UnlockKeeps DEF Places, Working
<1>5. CASE Unlocked(w)
  <2>1. Unlock(w, "unlocked") /\ pc[w] \in Working /\ UNCHANGED global
    BY <1>5 DEF Unlocked, Working
  <2> QED
    BY <2>1, UnlockKeeps DEF Places, Working
<1>6. CASE TimeOut(w)
  <2>1. Unlock(w, "failed") /\ pc[w] \in Working /\ UNCHANGED global
    BY <1>6 DEF TimeOut, GiveUp, Working
  <2> QED
    BY <2>1, UnlockKeeps DEF Places, Working
<1>7. CASE End(w)
  BY <1>7 DEF End, Released, KeysKept, Kept, TypeOK
<1>8. CASE \/ Skipped(w) \/ CheckExits(w) \/ Execute(w) \/ Executed(w) \/ Trip(w)
           \/ Commit(w) \/ RollBack(w) \/ Close(w)
  <2>1. UNCHANGED <<global, lock>>
    BY <1>8 DEF Skipped, CheckExits, RunExitChecks, Execute, Executed, Trip, Commit, RollBack, Close
  <2> QED
    BY <2>1, SameIsKept
<1> QED
  BY <1>1, <1>2, <1>3, <1>4, <1>5, <1>6, <1>7, <1>8 DEF Step

\* nor does its failure or its death.
LEMMA FaultKeepsKeys ==
    ASSUME TypeOK, NEW w \in Workers, Fault(w)
    PROVE  KeysKept
<1> USE DEF vars, env, redis, db, run
<1>1. CASE Fail(w) \/ BreachFails(w)
  <2>1. Unlock(w, "failed") /\ pc[w] \in Working /\ UNCHANGED global
    BY <1>1 DEF Fail, BreachFails, Working
  <2> QED
    BY <2>1, UnlockKeeps DEF Places, Working
<1>2. CASE Crash(w)
  <2>1. pc'[w] # pc[w]
    BY <1>2 DEF Crash, TypeOK
  <2>2. \A key \in Key : Orphaned(key, w) = key \/ key.owner = w
    BY DEF Orphaned
  <2>3. /\ global' = global \/ global.owner = w
        /\ \A st \in Strategies : lock'[st] = lock[st] \/ lock[st].owner = w
    BY <1>2, <2>2 DEF Crash, TypeOK
  <2> QED
    BY <2>1, <2>3 DEF KeysKept, Kept
<1>3. CASE Recover(w) \/ CommitFails(w)
  BY <1>3, SameIsKept DEF Recover, CommitFails
<1> QED
  BY <1>1, <1>2, <1>3 DEF Fault

\* A key with more than a tick to live outlives the tick.
LEMMA TickKeepsKeys ==
    ASSUME TypeOK, Tick
    PROVE  KeysKept
<1>1. \A key \in Key : Kept(key, Aged(key))
  BY NaturalTimes DEF Key, Kept, Lives, Aged, Free
<1> QED
  BY <1>1 DEF Tick, TypeOK, KeysKept

\* A key with more than a tick to live is lost only by a step of its owner, its
\* death among them: no run gives back a lock that another has taken since
\* (DistributedLock.release), whatever the work takes.
THEOREM OwnersFree == Spec => OnlyOwnerFrees
<1>1. TypeOK /\ [Next]_vars => [KeysKept]_vars
  <2> SUFFICES ASSUME TypeOK, Next PROVE KeysKept
    OBVIOUS
  <2>1. CASE \/ \E st \in Touched :
                   \/ StartManual(st) \/ ManualBreach(st) \/ EndManual(st) \/ FailManual(st)
                   \/ Enable(st) \/ Disable(st)
             \/ \E st \in Touched : TurnKillSwitch(Owner[st])
    BY <2>1, SameIsKept DEF StartManual, ManualBreach, EndManual, FailManual, Enable, Disable,
       TurnKillSwitch, redis
  <2> QED
    BY <2>1, StepKeepsKeys, FaultKeepsKeys, TickKeepsKeys DEF Next
<1> QED
  BY <1>1, RunsTypeOK, PTL DEF Spec, OnlyOwnerFrees, KeysKept

=============================================================================
