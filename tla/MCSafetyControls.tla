-------------------------- MODULE MCSafetyControls --------------------------
(***************************************************************************)
(* Instances of SafetyControls for TLC.                                    *)
(***************************************************************************)
EXTENDS SafetyControls

\* Two executions of a strategy with limits; a turn of one without beside the
\* stop monitors, or beside the task that saves breakers.
TwoExecutions == [requests |-> {"run", "manual"}, limited |-> TRUE]
TurnAndMonitor == [requests |-> {"run", "monitor"}, limited |-> FALSE]
TurnAndSync == [requests |-> {"run", "sync"}, limited |-> FALSE]
Pairs == {TwoExecutions, TurnAndMonitor, TurnAndSync}
=============================================================================
