----------------------------- MODULE Substrings -----------------------------
(***************************************************************************)
(* Substring assertions (substr.go) and the matching of a value against    *)
(* one (cbm.go): marshalSubstrings, String, substringsSplit and the loop   *)
(* of substringsMatch, which takes the first occurrence of each inner      *)
(* substring in what is left of the value.                                 *)
(*                                                                         *)
(* Values and assertions are lists of tokens: "x", "X" and "y" are letters *)
(* ("X" in upper case), "u" is a character of several bytes and "ue" the   *)
(* same character written as escaped bytes, "bs" a backslash that is no    *)
(* part of escaped bytes.                                                  *)
(***************************************************************************)
EXTENDS Naturals, Sequences, FiniteSets, SequencesExt, Cuts

CONSTANTS
    Rules,      \* which matching rules are called
    Calls       \* the values and the assertions they are called with

Tokens == {"x", "X", "y", "u", "ue", "bs", "*", "$", "blank"}

ASSUME RulesAssumption == Rules \subseteq {"caseIgnore", "caseExact", "ia5", "list"}
\* A backslash in front of escaped bytes would be escaped by theirs: no text of these
\* tokens is that one.
Distinct(s) == \A i \in 1..(Len(s) - 1) : s[i] = "bs" => s[i + 1] # "ue"

ASSUME CallsAssumption ==
    /\ Calls \subseteq [value : Seq(Tokens), assertion : Seq(Tokens)]
    /\ \A c \in Calls : Distinct(c.value) /\ Distinct(c.assertion)

VARIABLES
    rule, value, assertion,     \* the call
    subs,       \* the assertion as it was parsed
    rest,       \* what is left of the value
    segs,       \* the inner substrings still to be found
    mode,       \* what the matcher does next, or how it ended
    answer      \* the result returned

vars == <<rule, value, assertion, subs, rest, segs, mode, answer>>

Final == {"done", "error"}

-----------------------------------------------------------------------------
(* Assertions                                                              *)

\* buildSubstrings: the initial and the final are left out if they are empty, the list
\* of inner ones never is.
Parsed(i, a, f) == [ok |-> TRUE, initial |-> i, any |-> a, final |-> f]
Malformed == [ok |-> FALSE, initial |-> << >>, any |-> << >>, final |-> << >>]

Blank(s) == \A i \in DOMAIN s : s[i] = "blank"
Trim(s)  == IF Blank(s) THEN << >>
            ELSE SubSeq(s, CHOOSE i \in DOMAIN s : s[i] # "blank" /\ \A j \in 1..(i - 1) : s[j] = "blank",
                           CHOOSE i \in DOMAIN s : s[i] # "blank" /\ \A j \in (i + 1)..Len(s) : s[j] = "blank")

\* The segments between the asterisks that are not empty.
Parts(s) == LET segments == CutBy("*", s)
            IN  Pick(segments, {k \in DOMAIN segments : segments[k] # << >>})

\* getSubstringTokens.
TokensOf(s, parts) ==
    LET first == s[1] = "*"
        last  == s[Len(s)] = "*"
        n     == Len(parts)
    IN  Parsed(IF first THEN << >> ELSE parts[1],
               SubSeq(parts, IF first THEN 1 ELSE 2, IF last THEN n ELSE n - 1),
               IF last THEN << >> ELSE parts[n])

Marshalled(t) ==
    LET s == Trim(t)
    IN  IF \/ Passed("*", s, Len(s)) = 0
           \/ \E i \in 1..(Len(s) - 1) : s[i] = "*" /\ s[i + 1] = "*"
           \/ "bs" \in Range(s)
           \/ Parts(s) = << >>
        THEN Malformed
        ELSE TokensOf(s, Parts(s))

\* Mutant: the asterisk is between the inner substrings only.
WrittenJoined(p) == p.initial \o <<"*">> \o FlattenSeq([k \in DOMAIN p.any |-> p.any[k]]) \o p.final

\* Escaped, and String.
Escaped(s) == [i \in DOMAIN s |-> IF s[i] = "u" THEN "ue" ELSE s[i]]
Written(p) == Escaped(p.initial) \o <<"*">>
                \o FlattenSeq([k \in DOMAIN p.any |-> Escaped(p.any[k]) \o <<"*">>]) \o Escaped(p.final)

-----------------------------------------------------------------------------
(* The matcher                                                             *)

Folds == rule # "caseExact"
Fold(s) == IF Folds THEN [i \in DOMAIN s |-> IF s[i] = "X" THEN "x" ELSE s[i]] ELSE s

\* The backslashes that bytes.ReplaceAll finds in pairs, from left to right.
Paired(s) ==
    LET second[i \in 1..Len(s)] == i > 1 /\ s[i] = "bs" /\ s[i - 1] = "bs" /\ ~second[i - 1]
    IN  {i \in DOMAIN s : second[i] \/ (i < Len(s) /\ second[i + 1])}

\* prepareStringListAssertion: the pairs of backslashes and the dollars are removed.
Prepared(s) == IF rule = "list" THEN Pick(s, {i \in DOMAIN s : s[i] # "$"} \ Paired(s)) ELSE s

\* prepareIA5StringAssertion.
IsIA5(s)    == s # << >> /\ "u" \notin Range(s)

\* marshalIA5String refuses an empty string.
Admitted == rule = "ia5" => IsIA5(value) /\ IsIA5(assertion)

Occurs(seg, s, i) == i + Len(seg) - 1 <= Len(s) /\ SubSeq(s, i, i + Len(seg) - 1) = seg
FirstAt(seg, s)   == CHOOSE i \in DOMAIN s : Occurs(seg, s, i) /\ \A j \in 1..(i - 1) : ~Occurs(seg, s, j)
From(s, i) == SubSeq(s, i, Len(s))

Init ==
    /\ rule \in Rules
    /\ \E c \in Calls : value = c.value /\ assertion = c.assertion
    /\ subs = Malformed /\ rest = << >> /\ segs = << >>
    /\ mode = "entry" /\ answer = FALSE

Called == UNCHANGED <<rule, value, assertion>>
Answer(a) == mode' = "done" /\ answer' = a /\ UNCHANGED <<rest, segs>>
Fail == mode' = "error" /\ UNCHANGED <<rest, segs, answer>>

\* The two arguments; substringsSplit then wants one inner substring at least.
Parse ==
    LET p == Marshalled(Prepared(assertion))
    IN  /\ mode = "entry"
        /\ subs' = IF Admitted /\ Prepared(value) # << >> THEN p ELSE Malformed
        /\ IF subs'.ok THEN mode' = "initial" /\ rest' = Fold(Prepared(value)) /\ UNCHANGED <<segs, answer>> ELSE Fail
        /\ Called

MatchInitial ==
    /\ mode = "initial"
    /\ IF subs.any = << >> THEN Fail
       ELSE IF ~IsPrefix(Fold(subs.initial), rest) THEN Answer(FALSE)
       ELSE /\ rest' = From(rest, Len(subs.initial) + 1)
            /\ segs' = [k \in DOMAIN subs.any |-> Fold(subs.any[k])]
            /\ mode' = "any" /\ UNCHANGED answer
    /\ UNCHANGED subs /\ Called

\* Mutant: what is left begins at the occurrence, not after it.
LeftOfSegment(seg) == From(rest, FirstAt(seg, rest))

LeftOf(seg) == From(rest, FirstAt(seg, rest) + Len(seg))

MatchAny ==
    /\ mode = "any" /\ segs # << >>
    /\ IF \A i \in DOMAIN rest : ~Occurs(segs[1], rest, i) THEN Answer(FALSE)
       ELSE rest' = LeftOf(segs[1]) /\ segs' = Tail(segs) /\ UNCHANGED <<mode, answer>>
    /\ UNCHANGED subs /\ Called

MatchFinal ==
    /\ mode = "any" /\ segs = << >>
    /\ Answer(IsSuffix(Fold(subs.final), rest))
    /\ UNCHANGED subs /\ Called

Next == Parse \/ MatchInitial \/ MatchAny \/ MatchFinal

Spec == Init /\ [][Next]_vars

-----------------------------------------------------------------------------
(* Properties                                                              *)

\* RFC 4517 (4.2.6, 4.2.13): the value begins with the initial and ends with the final,
\* and the inner substrings are between them in order, without an overlap.
Concatenated ==
    LET v == Fold(Prepared(value))
        n == Len(subs.any)
        seg(k)  == Fold(subs.any[k])
        Begin(at, k) == IF k > n THEN Len(v) - Len(subs.final) + 1 ELSE at[k]
        End(at, k)   == IF k = 0 THEN Len(subs.initial) ELSE at[k] + Len(seg(k)) - 1
    IN  /\ IsPrefix(Fold(subs.initial), v) /\ IsSuffix(Fold(subs.final), v)
        /\ \E at \in [1..n -> DOMAIN v] :
              /\ \A k \in 1..n : Occurs(seg(k), v, at[k])
              /\ \A k \in 0..n : End(at, k) < Begin(at, k + 1)

\* The first occurrence of each inner substring is never the wrong one to take: the
\* matcher says yes exactly if there is some way to place all of them in order and
\* without an overlap, the initial and the final among them.
FirstOccurrenceSuffices == mode = "done" => (answer <=> Concatenated)

\* What String writes of an assertion is accepted, as the same substrings but for the
\* escapes; they are not what matching compares, so a second writing changes nothing.
EscapedSubs == [subs EXCEPT !.initial = Escaped(@), !.final = Escaped(@),
                            !.any = [k \in DOMAIN @ |-> Escaped(@[k])]]
ReadsBack == subs.ok => Marshalled(Written(subs)) = EscapedSubs /\ Written(EscapedSubs) = Written(subs)
=============================================================================
