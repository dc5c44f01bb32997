----------------------------- MODULE MCOrderDesk -----------------------------
EXTENDS OrderDesk, TLC

Symmetry == Permutations(Requests)
=============================================================================
