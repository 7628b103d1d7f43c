---------------------------- MODULE MCRefinements ----------------------------
(***************************************************************************)
(* Refinements for TLC: two OIDs and the object classes person and         *)
(* groupOfNames, the second in two cases.                                  *)
(***************************************************************************)
EXTENDS Refinements

CONSTANTS person, groupOfNames, groupofnames

MCDescrs == {person, groupOfNames, groupofnames}
MCLower  == [d \in MCDescrs |-> IF d = groupOfNames THEN groupofnames ELSE d]
MCLists  == {<< >>} \cup {<<x>> : x \in {Odd, Malformed, Empty} \cup OIDs \cup {person, groupOfNames}}
              \cup {<<person, groupOfNames>>, <<groupofnames, Empty>>}
=============================================================================
