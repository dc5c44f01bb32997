---------------------------- MODULE MCGuardrail ----------------------------
(***************************************************************************)
(* Instances of Guardrail for TLC.                                         *)
(***************************************************************************)
EXTENDS Guardrail

\* Guardrails by amount and by percentage, that pause or also square off.
Pausing == {[kind |-> "AMOUNT", value |-> 4, squares |-> FALSE]}
Both == Pausing \cup {[kind |-> "PERCENT", value |-> 10, squares |-> TRUE]}

\* What a share may have gained: less than nothing at its stop.
Moves == {-2, 1}

\* The stop monitors beside each of the other requests, the square-off beside
\* an emergency stop, and all three of these.
Pairs == {{"monitor", "squareoff"}, {"monitor", "estop"}, {"monitor", "turn"},
          {"squareoff", "estop"}}
Together == Pairs \cup {{"monitor", "squareoff", "estop"}}

\* Of the three together the instance has the behaviours that start with one
\* open position, the intraday one, which all of them may write.
BoundedInit ==
    /\ Init
    /\ AllThree => \A s \in Strategies : row[s] = IF s \in Intraday THEN NewRow ELSE NoRow
BoundedSpec == BoundedInit /\ [][Next]_vars /\ Fairness
=============================================================================
