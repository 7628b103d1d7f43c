--------------------------- MODULE MCInstructions ---------------------------
(***************************************************************************)
(* Instructions for TLC: two permissions and two bind rules shared by two  *)
(* permission bind rules of at most MaxItems items altogether.             *)
(***************************************************************************)
EXTENDS Instructions, TLC, FiniteSetsExt

CONSTANT MaxItems

Sym == Permutations(Perms) \cup Permutations(Rules) \cup Permutations(PBRs)

FewItems == MapThenSumSet(LAMBDA o : Len(pbr[o]), PBRs) <= MaxItems
=============================================================================
