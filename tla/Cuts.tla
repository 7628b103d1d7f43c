-------------------------------- MODULE Cuts --------------------------------
(***************************************************************************)
(* Lists of values written with a separator between any two, and texts cut *)
(* at every separator, which is what strings.Split does and what           *)
(* marshalSubstrings (substr.go) does by hand: the segments of a substring *)
(* assertion, the attributes of a list, the filters of an operation.       *)
(***************************************************************************)
EXTENDS Naturals, Sequences, FiniteSets, SequencesExt

\* The elements at these positions, in order.
Pick(s, is) == [j \in 1..Cardinality(is) |-> s[CHOOSE i \in is : Cardinality({k \in is : k <= i}) = j]]

\* How many separators are among the first n elements, what lies between the k-th and the
\* next, and all there is between them.
Passed(c, s, n) == Cardinality({i \in 1..n : s[i] = c})
CutAt(c, s, k)  == Pick(s, {i \in DOMAIN s : s[i] # c /\ Passed(c, s, i) = k})
CutBy(c, s)     == [k \in 1..(Passed(c, s, Len(s)) + 1) |-> CutAt(c, s, k - 1)]

Joined(c, ss) == FlattenSeq([k \in DOMAIN ss |-> IF k = 1 THEN ss[k] ELSE <<c>> \o ss[k]])
=============================================================================
