---------------------------- MODULE ExclusiveRun ----------------------------
(***************************************************************************)
(* What the per-strategy lock promises to scheduled runs: a strategy is    *)
(* leased to at most one of them at a time.  A lease ends with the work or *)
(* when the lock expires, and several may end in one tick.  It is about    *)
(* leases, not about work: ScheduledRuns says who still works without one. *)
(***************************************************************************)
CONSTANTS
    Strategies,   \* the strategies with a schedule
    Workers       \* the requests that may process them

VARIABLE holders  \* strategy -> the requests it is leased to

Init == holders = [st \in Strategies |-> {}]

Take(st, w) ==
    /\ holders[st] = {}
    /\ holders' = [holders EXCEPT ![st] = {w}]

\* The leases of some strategies end.
Drop(gone) == holders' = [st \in Strategies |-> IF st \in gone THEN {} ELSE holders[st]]

Next ==
    \/ \E gone \in SUBSET Strategies : Drop(gone)
    \/ \E st \in Strategies, w \in Workers : Take(st, w)

Spec == Init /\ [][Next]_holders
=============================================================================
