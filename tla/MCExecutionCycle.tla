-------------------------- MODULE MCExecutionCycle --------------------------
(***************************************************************************)
(* Instances of ExecutionCycle for TLC.                                    *)
(***************************************************************************)
EXTENDS ExecutionCycle, TLC

\* All symbols in one position at most; or one symbol with room for two
\* positions, so that a blind read lets a second one be opened on it.
Narrow == {[symbols |-> Symbols, open |-> 1]}
Single == {[symbols |-> {s}, open |-> 2] : s \in Symbols \ ExitOnly}
NarrowOrSingle == Narrow \cup {CHOOSE c \in Single : TRUE}
Wide == {[symbols |-> Symbols, open |-> 2]}

\* Symbols that may be bought do not differ from one another.
Symmetry == Permutations(Symbols \ ExitOnly)
=============================================================================
