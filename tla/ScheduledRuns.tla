---------------------------- MODULE ScheduledRuns ----------------------------
(***************************************************************************)
(* The scheduled runs of trading-engine/engine/routes/execution.py under   *)
(* the Redis locks of engine/core/locks.py.  A Celery tick may start a run *)
(* while an earlier one is still going.  A run takes a global lock, reads  *)
(* which strategies are due, and takes each one's lock while it works on   *)
(* it.  Both locks expire after a fixed time and are never extended.       *)
(*                                                                         *)
(* One database session serves the whole run.  What it writes about a      *)
(* strategy keeps that strategy's row locked, and is visible to others     *)
(* only once it commits.  Redis (locks, kill switch) changes at once.      *)
(*                                                                         *)
(* Time is counted in ticks.  A lock's remaining life and the time to a    *)
(* strategy's next run count down, so no clock grows.                      *)
(***************************************************************************)
EXTENDS Integers, FiniteSets

CONSTANTS
    Strategies,   \* the scheduled strategies
    Users,
    Owner,        \* strategy -> its user
    Workers,      \* scheduled-run requests that may overlap
    NoOne,        \* the token of a lock nobody holds; no strategy in hand
    Lost,         \* the token of a request that died
    TTL,          \* the life of a lock
    Interval,     \* time from one run of a strategy to the next
    MaxRequests,  \* bound: scheduled-run requests waiting for a worker
    Touched       \* bound: the strategies users turn to while runs go on

ASSUME NaturalTimes ==
    TTL \in Nat \ {0} /\ Interval \in Nat /\ MaxRequests \in Nat \ {0}
ASSUME TokensDiffer == NoOne \notin Workers /\ Lost \notin Workers /\ NoOne # Lost
ASSUME StrategiesHaveOwners ==
    Owner \in [Strategies -> Users] /\ NoOne \notin Strategies /\ Touched \subseteq Strategies

VARIABLES
    requests,  \* requests beat has sent and no worker has taken up
    global,    \* lock:scheduled_run, the token in it and its remaining life
    lock,      \* strategy -> lock:strategy:<id>, likewise
    killed,    \* users whose kill switch is on
    wait,      \* strategy -> ticks until next_run_at, 0 when due
    active,    \* strategies with status ACTIVE
    pc,        \* worker -> where its run is
    todo,      \* worker -> due strategies it has still to look at
    cur,       \* worker -> the strategy in hand
    worked,    \* worker -> ticks since it took that strategy's lock, TTL for more
    verdicts,  \* worker -> user_safety_cache: users found safe, users found in breach
    session,   \* worker -> what its session wrote and has not committed
    manual     \* strategies being executed on a user's request

env == <<requests, manual>>
redis == <<global, lock, killed>>
db == <<wait, active>>
run == <<pc, todo, cur, worked, verdicts, session>>
vars == <<env, redis, db, run>>

\* Where a run is while it has a strategy's lock.
Working == {"locked", "checked", "executing", "executed", "recovered", "tripped"}
Places == Working \cup {"idle", "next", "unlocked", "failed", "closing"}

Free == [owner |-> NoOne, left |-> 0]
Taken(w) == [owner |-> w, left |-> TTL]
Key == {Free} \cup [owner : Workers \cup {Lost}, left : 1..TTL]

\* DistributedLock.release: the Lua script deletes the key only while it
\* still holds this request's token.
\* In the variant it deletes whatever is there.
ReleasedUnchecked(key, w) == Free
Released(key, w) == IF key.owner = w THEN Free ELSE key

\* A tick in the life of a key: at 0 Redis drops it.
\* In the variants the key was set without an expiry, or stays a tick too long.
AgedNever(key) == key
AgedLate(key) == IF key.left = 0 THEN Free ELSE [owner |-> key.owner, left |-> key.left - 1]
Aged(key) == IF key.left <= 1 THEN Free ELSE [owner |-> key.owner, left |-> key.left - 1]

\* A key whose owner died stays until it expires.
Orphaned(key, w) == IF key.owner = w THEN [owner |-> Lost, left |-> key.left] ELSE key

\* What a session wrote: next_run_at moved on, exits (with the statistics)
\* booked, status no longer ACTIVE.
Writes == [moved : SUBSET Strategies, exits : SUBSET Strategies, stopped : SUBSET Strategies]
Nothing == [moved |-> {}, exits |-> {}, stopped |-> {}]
Written(w) == session[w].moved \cup session[w].exits \cup session[w].stopped

\* The rows a write of w's would have to wait for.
RowFree(w, st) == \A other \in Workers \ {w} : st \notin Written(other)

Undecided == [safe |-> {}, breach |-> {}]

Due == {st \in active : wait[st] = 0}
Owned(user) == {st \in Strategies : Owner[st] = user}

Init ==
    /\ requests = 1
    /\ global = Free
    /\ lock = [st \in Strategies |-> Free]
    /\ killed = {}
    /\ wait = [st \in Strategies |-> 0]
    /\ active = Strategies
    /\ pc = [w \in Workers |-> "idle"]
    /\ todo = [w \in Workers |-> {}]
    /\ cur = [w \in Workers |-> NoOne]
    /\ worked = [w \in Workers |-> 0]
    /\ verdicts = [w \in Workers |-> Undecided]
    /\ session = [w \in Workers |-> Nothing]
    /\ manual = {}

-----------------------------------------------------------------------------
(* run_scheduled_strategies *)

\* The non-blocking acquire of the global lock.  A request that finds it taken
\* returns "skipped".
Skipped(w) ==
    /\ pc[w] = "idle" /\ requests > 0 /\ global # Free
    /\ requests' = requests - 1
    /\ UNCHANGED <<redis, db, run, manual>>

\* One that gets it asks get_due_strategies.  The list is read once, and not
\* looked at again.
Start(w) ==
    /\ pc[w] = "idle" /\ requests > 0 /\ global = Free
    /\ requests' = requests - 1
    /\ global' = Taken(w)
    /\ todo' = [todo EXCEPT ![w] = Due]
    /\ verdicts' = [verdicts EXCEPT ![w] = Undecided]
    /\ pc' = [pc EXCEPT ![w] = "next"]
    /\ UNCHANGED <<lock, killed, db, cur, worked, session, manual>>

\* w has the strategy's lock, and turns to it.
Hold(w, st) ==
    /\ pc[w] = "next" /\ st \in todo[w]
    /\ lock' = [lock EXCEPT ![st] = Taken(w)]
    /\ todo' = [todo EXCEPT ![w] = @ \ {st}]
    /\ cur' = [cur EXCEPT ![w] = st]
    /\ pc' = [pc EXCEPT ![w] = "locked"]
    /\ UNCHANGED <<global, killed, db, worked, verdicts, session, env>>

TakeStrategy(w, st) == lock[st] = Free /\ Hold(w, st)

\* "already_executing"
SkipStrategy(w, st) ==
    /\ pc[w] = "next" /\ st \in todo[w] /\ lock[st] # Free
    /\ todo' = [todo EXCEPT ![w] = @ \ {st}]
    /\ UNCHANGED <<redis, db, pc, cur, worked, verdicts, session, env>>

\* The inner finally: the strategy's lock goes, and the run is at place.
Unlock(w, place) ==
    /\ lock' = [lock EXCEPT ![cur[w]] = Released(@, w)]
    /\ worked' = [worked EXCEPT ![w] = 0]
    /\ pc' = [pc EXCEPT ![w] = place]

\* _evaluate_portfolio_safety finds the daily loss of the strategy's user over
\* the limit.  It turns the kill switch on, which takes effect at once, and in
\* the session disables all the user's strategies and, if so configured,
\* squares off their positions.  When the switch is on already it does
\* neither.  The turn ends with a continue, which passes by the commit.
Breach(w) ==
    LET user == Owner[cur[w]]
        theirs == Owned(user) \cap active
    IN  /\ pc[w] = "locked"
        /\ user \notin verdicts[w].safe
        /\ verdicts' = [verdicts EXCEPT ![w].breach = @ \cup {user}]
        /\ IF user \in verdicts[w].breach \cup killed
              THEN UNCHANGED <<killed, session>>
              ELSE /\ killed' = killed \cup {user}
                   /\ \E closed \in {{}, Owned(user)} :
                      /\ \A st \in theirs \cup closed : RowFree(w, st)
                      /\ session' = [session EXCEPT ![w].stopped = @ \cup theirs,
                                                    ![w].exits = @ \cup closed]
        /\ Unlock(w, "next")
        /\ cur' = [cur EXCEPT ![w] = NoOne]
        /\ UNCHANGED <<global, db, todo, env>>

\* The strategy's user is within the limit: the exit conditions are checked
\* before anything may block the strategy, and what they close is booked in
\* the session.
RunExitChecks(w) ==
    /\ pc[w] = "locked"
    /\ verdicts' = [verdicts EXCEPT ![w].safe = @ \cup {Owner[cur[w]]}]
    /\ \E closed \in {{}} \cup {{st} : st \in {st \in {cur[w]} : RowFree(w, st)}} :
          session' = [session EXCEPT ![w].exits = @ \cup closed]
    /\ pc' = [pc EXCEPT ![w] = "checked"]
    /\ UNCHANGED <<redis, db, todo, cur, worked, env>>

\* A user found in breach earlier in the run is not looked at again.
CheckExits(w) ==
    /\ pc[w] = "locked" /\ Owner[cur[w]] \notin verdicts[w].breach
    /\ RunExitChecks(w)

\* A failed pre-execution check or a closed market end the turn, again past
\* the commit.
Block(w) ==
    /\ pc[w] = "checked"
    /\ Unlock(w, "next")
    /\ cur' = [cur EXCEPT ![w] = NoOne]
    /\ UNCHANGED <<global, killed, db, todo, verdicts, session, env>>

\* check_all passes, and the executor starts.
Execute(w) ==
    /\ pc[w] = "checked" /\ Owner[cur[w]] \notin killed
    /\ pc' = [pc EXCEPT ![w] = "executing"]
    /\ UNCHANGED <<redis, db, todo, cur, worked, verdicts, session, env>>

\* The executor is back: next_run_at and the statistics are written.
Executed(w) ==
    /\ pc[w] = "executing" /\ RowFree(w, cur[w])
    /\ pc' = [pc EXCEPT ![w] = "executed"]
    /\ session' = [session EXCEPT ![w].moved = @ \cup {cur[w]}]
    /\ UNCHANGED <<redis, db, todo, cur, worked, verdicts, env>>

\* _retry_with_fresh_session: the run's session failed under the executor.  It
\* is rolled back, and next_run_at is written and committed in another.  The
\* strategy in hand is from now on an object no session knows.
Recover(w) ==
    /\ pc[w] = "executing" /\ RowFree(w, cur[w])
    /\ session' = [session EXCEPT ![w] = Nothing]
    /\ wait' = [wait EXCEPT ![cur[w]] = Interval]
    /\ pc' = [pc EXCEPT ![w] = "recovered"]
    /\ UNCHANGED <<redis, active, todo, cur, worked, verdicts, requests, manual>>

\* Everything this session wrote becomes visible.
Committed(w) ==
    /\ wait' = [st \in Strategies |-> IF st \in session[w].moved THEN Interval ELSE wait[st]]
    /\ active' = active \ session[w].stopped

\* The circuit breaker triggers: recording it commits the session, and then
\* the strategy is disabled in it, if the session still knows the strategy.
Trip(w) ==
    /\ pc[w] \in {"executed", "recovered"}
    /\ Committed(w)
    /\ session' = [session EXCEPT ![w] =
          [Nothing EXCEPT !.stopped = IF pc[w] = "executed" THEN {cur[w]} ELSE {}]]
    /\ pc' = [pc EXCEPT ![w] = "tripped"]
    /\ UNCHANGED <<redis, todo, cur, worked, verdicts, env>>

Unlocked(w) ==
    /\ pc[w] \in {"executed", "recovered", "tripped"}
    /\ Unlock(w, "unlocked")
    /\ UNCHANGED <<global, killed, db, todo, cur, verdicts, session, env>>

\* The commit after each strategy comes after its lock was released.
Commit(w) ==
    /\ pc[w] = "unlocked"
    /\ Committed(w)
    /\ session' = [session EXCEPT ![w] = Nothing]
    /\ cur' = [cur EXCEPT ![w] = NoOne]
    /\ pc' = [pc EXCEPT ![w] = "next"]
    /\ UNCHANGED <<redis, todo, worked, verdicts, env>>

\* An exception in a strategy's turn.
Fail(w) ==
    /\ pc[w] \in Working
    /\ Unlock(w, "failed")
    /\ UNCHANGED <<global, killed, db, todo, cur, verdicts, session, requests, manual>>

CommitFails(w) ==
    /\ pc[w] = "unlocked"
    /\ pc' = [pc EXCEPT ![w] = "failed"]
    /\ UNCHANGED <<redis, db, todo, cur, worked, verdicts, session, requests, manual>>

\* A write of the turn's - exits, or next_run_at - waits for another session's
\* row until the statement times out.
\* In the variant the statement that writes next_run_at has no such limit.
GiveUp(w, places) ==
    /\ pc[w] \in places /\ ~RowFree(w, cur[w])
    /\ Unlock(w, "failed")
    /\ UNCHANGED <<global, killed, db, todo, cur, verdicts, session, env>>
TimeOutOfChecks(w) == GiveUp(w, {"locked"})
TimeOut(w) == GiveUp(w, {"locked", "executing"})

\* The evaluation of a user in breach raises after the kill switch was turned
\* on: the disabling or the square-off fails, or waits too long for a row.  The
\* verdict is not kept, so the user is evaluated again at the next turn.
BreachFails(w) ==
    LET user == Owner[cur[w]]
    IN  /\ pc[w] = "locked"
        /\ user \notin verdicts[w].safe \cup verdicts[w].breach \cup killed
        /\ killed' = killed \cup {user}
        /\ Unlock(w, "failed")
        /\ UNCHANGED <<global, db, todo, cur, verdicts, session, env>>

\* The handler rolls the session back, with everything earlier strategies left
\* in it.  The rollback also expires the strategy objects of the due list:
\* where reading one again raises, the rest of the list is given up.
RollBack(w) ==
    /\ pc[w] = "failed"
    /\ session' = [session EXCEPT ![w] = Nothing]
    /\ \E rest \in {todo[w], {}} : todo' = [todo EXCEPT ![w] = rest]
    /\ cur' = [cur EXCEPT ![w] = NoOne]
    /\ pc' = [pc EXCEPT ![w] = "next"]
    /\ UNCHANGED <<redis, db, worked, verdicts, env>>

\* The outer finally releases the global lock.
End(w) ==
    /\ pc[w] = "next" /\ todo[w] = {}
    /\ global' = Released(global, w)
    /\ pc' = [pc EXCEPT ![w] = "closing"]
    /\ UNCHANGED <<lock, killed, db, todo, cur, worked, verdicts, session, env>>

\* get_db commits what is left in the session once the handler returned.
Close(w) ==
    /\ pc[w] = "closing"
    /\ Committed(w)
    /\ session' = [session EXCEPT ![w] = Nothing]
    /\ verdicts' = [verdicts EXCEPT ![w] = Undecided]
    /\ pc' = [pc EXCEPT ![w] = "idle"]
    /\ UNCHANGED <<redis, todo, cur, worked, env>>

\* The process dies: its session is rolled back, its keys live on.
Crash(w) ==
    /\ pc[w] # "idle"
    /\ global' = Orphaned(global, w)
    /\ lock' = [st \in Strategies |-> Orphaned(lock[st], w)]
    /\ pc' = [pc EXCEPT ![w] = "idle"]
    /\ todo' = [todo EXCEPT ![w] = {}]
    /\ cur' = [cur EXCEPT ![w] = NoOne]
    /\ worked' = [worked EXCEPT ![w] = 0]
    /\ verdicts' = [verdicts EXCEPT ![w] = Undecided]
    /\ session' = [session EXCEPT ![w] = Nothing]
    /\ UNCHANGED <<killed, db, requests, manual>>

Step(w) ==
    \/ Skipped(w) \/ Start(w)
    \/ \E st \in Strategies : TakeStrategy(w, st) \/ SkipStrategy(w, st)
    \/ Breach(w) \/ CheckExits(w) \/ Block(w)
    \/ Execute(w) \/ Executed(w) \/ Trip(w) \/ Unlocked(w) \/ Commit(w)
    \/ TimeOut(w) \/ RollBack(w) \/ End(w) \/ Close(w)

Fault(w) == Recover(w) \/ BreachFails(w) \/ Fail(w) \/ CommitFails(w) \/ Crash(w)

-----------------------------------------------------------------------------
(* What users do meanwhile *)

\* execute_strategy_by_id takes no lock.  It evaluates the user's safety and
\* the pre-execution checks, and trades the strategy whatever its status.
StartManual(st) ==
    /\ st \notin manual /\ Owner[st] \notin killed
    /\ manual' = manual \cup {st}
    /\ UNCHANGED <<redis, db, run, requests>>

Untouched(strategies) == \A w \in Workers : Written(w) \cap strategies = {}

ManualBreach(st) ==
    LET theirs == Owned(Owner[st]) \cap active
    IN  /\ st \notin manual /\ Owner[st] \notin killed
        /\ Untouched(theirs)
        /\ killed' = killed \cup {Owner[st]}
        /\ active' = active \ theirs
        /\ UNCHANGED <<global, lock, wait, run, env>>

EndManual(st) ==
    /\ st \in manual /\ Untouched({st})
    /\ manual' = manual \ {st}
    /\ wait' = [wait EXCEPT ![st] = Interval]
    /\ UNCHANGED <<redis, active, run, requests>>

\* An exception, or a row that stayed locked: next_run_at is as it was.
FailManual(st) ==
    /\ st \in manual
    /\ manual' = manual \ {st}
    /\ UNCHANGED <<redis, db, run, requests>>

\* The backend's enable and disable of a strategy, its kill switch; an
\* emergency stop is the kill switch and then each strategy's disabling.
Enable(st) ==
    /\ Untouched({st})
    /\ active' = active \cup {st}
    /\ \E soon \in {0, wait[st]} : wait' = [wait EXCEPT ![st] = soon]
    /\ UNCHANGED <<redis, run, env>>

Disable(st) ==
    /\ st \in active /\ Untouched({st})
    /\ active' = active \ {st}
    /\ UNCHANGED <<redis, wait, run, env>>

TurnKillSwitch(user) ==
    /\ killed' \in {killed \cup {user}, killed \ {user}}
    /\ UNCHANGED <<global, lock, db, run, env>>

-----------------------------------------------------------------------------
\* Time passes whatever runs do, and nothing bounds the work on a strategy.
\* With every tick beat sends a request.
Older(age) == IF age < TTL THEN age + 1 ELSE TTL
Tick ==
    /\ global' = Aged(global)
    /\ lock' = [st \in Strategies |-> Aged(lock[st])]
    /\ wait' = [st \in Strategies |-> IF wait[st] = 0 THEN 0 ELSE wait[st] - 1]
    /\ worked' = [w \in Workers |-> IF pc[w] \in Working THEN Older(worked[w]) ELSE 0]
    /\ requests' = IF requests = MaxRequests THEN requests ELSE requests + 1
    /\ UNCHANGED <<killed, active, pc, todo, cur, verdicts, session, manual>>

Next ==
    \/ \E w \in Workers : Step(w) \/ Fault(w)
    \/ \E st \in Touched :
          \/ StartManual(st) \/ ManualBreach(st) \/ EndManual(st) \/ FailManual(st)
          \/ Enable(st) \/ Disable(st)
    \/ \E st \in Touched : TurnKillSwitch(Owner[st])
    \/ Tick

Spec == Init /\ [][Next]_vars

\* A request is taken up and a started run goes on until it ends, and time
\* passes, with which beat sends requests.  Users need not ask for anything,
\* and nothing has to fail.
FairSpec == Spec /\ WF_vars(Tick) /\ \A w \in Workers : WF_vars(Step(w))

-----------------------------------------------------------------------------
(* Properties *)

\* Types, and the bounds that time puts on locks and work: no key lives
\* longer than its TTL or past its expiry, and whoever works, fails or has
\* unlocked has a strategy in hand (run_scheduled_strategies).
TypeOK ==
    /\ requests \in 0..MaxRequests
    /\ global \in Key /\ lock \in [Strategies -> Key]
    /\ killed \subseteq Users
    /\ wait \in [Strategies -> 0..Interval] /\ active \subseteq Strategies
    /\ pc \in [Workers -> Places]
    /\ todo \in [Workers -> SUBSET Strategies]
    /\ cur \in [Workers -> Strategies \cup {NoOne}]
    /\ worked \in [Workers -> 0..TTL]
    /\ verdicts \in [Workers -> [safe : SUBSET Users, breach : SUBSET Users]]
    /\ session \in [Workers -> Writes]
    /\ manual \subseteq Strategies
    /\ \A w \in Workers : cur[w] = NoOne => pc[w] \in {"idle", "next", "closing"}

\* The runs at work on a strategy, and those of them that have not outlived its
\* lock.
InHands(st) == {w \in Workers : pc[w] \in Working /\ cur[w] = st}
InTime(st) == {w \in InHands(st) : worked[w] < TTL}
Exclusive == INSTANCE ExclusiveRun WITH holders <- [st \in Strategies |-> InTime(st)]

\* Of the runs at work on a strategy at most one has not outlived its lock: it
\* is taken while it is free only, and a run that comes back late, when the lock
\* has expired under it and another run is at work, does not open it to a third
\* (TakeStrategy and Unlock implement ExclusiveRun; the strategy lock of
\* run_scheduled_strategies).  See OneRunPerStrategy for what it does not say.
ImplementsExclusive == Exclusive!Spec

\* A key with more than a tick to live; only a step of its owner ends it.
Lives(key) == key.owner \in Workers /\ key.left > 1
Kept(before, after) ==
    Lives(before) /\ after.owner # before.owner => pc'[before.owner] # pc[before.owner]

\* A key is lost to its owner by the owner's own step, by the owner's death
\* or by expiry: never because a run that outlived its lock gives it back
\* (DistributedLock.release).
OnlyOwnerFrees ==
    [][/\ Kept(global, global')
       /\ \A st \in Strategies : Kept(lock[st], lock'[st])]_vars

\* A list that still had the strategy on it is given up after a rollback, or
\* lost with its process.
Obstructed(st) ==
    \E w \in Workers : st \in todo[w] /\ st \notin todo'[w] /\ (RollBack(w) \/ Crash(w))

\* A strategy that is due is taken up by a run, executed by its user, or
\* stopped, however often turns fail, rows time out and processes die, and
\* whatever keys the dead leave behind.  The one thing that can keep it waiting
\* for good is a list given up before it again and again: a strategy ahead of it
\* that fails at every run does that (the rollback of run_scheduled_strategies).
EveryDueStrategyIsReached ==
    \A st \in Strategies :
        \/ []<><<Obstructed(st)>>_vars
        \/ st \in Due ~> (InHands(st) # {} \/ st \notin Due)

\* The rows a run has written do not stay locked, although turns that end in a
\* continue pass by the commit and the run goes on to wait for rows of other
\* runs, which may wait for its own ("Commit after each strategy to release
\* locks quickly", run_scheduled_strategies).
RowsAreReleased ==
    \A w \in Workers : Written(w) # {} ~> Written(w) = {}

\* "Prevents duplicate strategy executions when multiple workers run
\* concurrently" (locks.py).  It does not when a run outlasts the lock, which
\* nothing extends.
OneRunPerStrategy ==
    \A st \in Strategies : Cardinality(InHands(st)) <= 1

\* "This prevents multiple Celery workers from running scheduled strategies
\* at the same time" (the comment on the global lock).  It does not when a run
\* outlasts the lock, which nothing extends.
OneScheduledRun ==
    \A w, other \in Workers :
        pc[w] \notin {"idle", "closing"} /\ pc[other] \notin {"idle", "closing"} => w = other

\* "Rollback any partial changes from the failed strategy" (the comment on the
\* rollback): what earlier strategies of the run wrote is not in the session
\* any more.  It is, when their turn ended in a continue.
RollsBackOnlyItsOwn ==
    \A w \in Workers : pc[w] = "failed" => Written(w) \subseteq {cur[w]}

=============================================================================
