-------------------------- MODULE MCScheduledRuns --------------------------
(***************************************************************************)
(* Instances of ScheduledRuns for TLC.                                     *)
(***************************************************************************)
EXTENDS ScheduledRuns, TLC

\* Every strategy belongs to one and the same user.
OneUser == [st \in Strategies |-> CHOOSE user \in Users : TRUE]

\* Requests do not differ from one another.
Symmetry == Permutations(Workers)
=============================================================================
