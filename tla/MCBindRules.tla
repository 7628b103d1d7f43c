---------------------------- MODULE MCBindRules ----------------------------
(***************************************************************************)
(* BindRules for TLC: the objects of the heap are interchangeable, so are  *)
(* the keywords.                                                           *)
(***************************************************************************)
EXTENDS BindRules, TLC

Sym == Permutations(Objs)
=============================================================================
