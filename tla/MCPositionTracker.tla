------------------------- MODULE MCPositionTracker -------------------------
(***************************************************************************)
(* Instances of PositionTracker for TLC.                                   *)
(***************************************************************************)
EXTENDS PositionTracker

Half == [target |-> 10, share |-> 50]
Rest == [target |-> 25, share |-> 100]

\* Settings that use every exit the tracker knows.
Trailing ==
    [direction |-> "LONG", slPct |-> 0, tpPct |-> 0, trailOn |-> TRUE,
     trailPct |-> 10, lockOn |-> FALSE, booking |-> NoBooking]
Locking ==
    [direction |-> "BOTH", slPct |-> 20, tpPct |-> 0, trailOn |-> FALSE,
     trailPct |-> 5, lockOn |-> TRUE, booking |-> Booking({Half, Rest})]
Fixed ==
    [direction |-> "SHORT", slPct |-> 20, tpPct |-> 30, trailOn |-> TRUE,
     trailPct |-> 20, lockOn |-> FALSE, booking |-> Booking({Half})]
MCStrategies == {Trailing, Locking, Fixed}
=============================================================================
