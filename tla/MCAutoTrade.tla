----------------------------- MODULE MCAutoTrade -----------------------------
(***************************************************************************)
(* Two symbols, of which one list may drop what another had; two requests, *)
(* that may answer the same trade; two trades, so that the second updates  *)
(* what the first has made.                                                *)
(***************************************************************************)
EXTENDS AutoTrade, TLC

CONSTANTS a, b, r1, r2

MCSymbols == {a, b}
MCRequests == {r1, r2}
Symmetry == Permutations(MCSymbols) \cup Permutations(MCRequests)
=============================================================================
