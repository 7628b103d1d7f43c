----------------------- MODULE SubtreeSpecifications -----------------------
(***************************************************************************)
(* The text of a specification (subtree.go): NewSubtreeSpecification       *)
(* calls a marshal function for each of the five components, which looks   *)
(* for the word of its component anywhere in the text, and then returns    *)
(* the first error.  Names in quotes, braces and commas are cut by         *)
(* subtreeBase, findMatchingBrace and splitRefinementParts, each in its    *)
(* own way.                                                                *)
(*                                                                         *)
(* A text is a list of tokens: "x" is any letter, "0" and "1" are digits,  *)
(* "quote" is a double quote, "esc" a backslash, "unsafe" a character that *)
(* isSafeUTF8 refuses.  "chopBefore" stands for both keys of an exclusion  *)
(* and "and:" for both kinds of set; their code is the same.  No registry  *)
(* of object classes is in use; module Refinements has it.                 *)
(***************************************************************************)
EXTENDS Naturals, Sequences, FiniteSets, SequencesExt

CONSTANT Texts      \* what callers pass, without the empty text

Components == {"base", "specificExclusions", "minimum", "maximum", "specificationFilter"}
Digits  == {"0", "1"}
Letters == Components \cup {"x", "chopBefore"}
Kinds   == {"item:", "and:", "not:"}
Tokens  == Components \cup Letters \cup Digits \cup Kinds
             \cup {"{", "}", ",", "quote", "blank", "esc", "unsafe"}

ASSUME TextsAssumption == Texts \subseteq Seq(Tokens) \ {<< >>}

VARIABLES
    text,       \* the argument
    mode,       \* the component that is read next, or how it ended
    spec,       \* the specification, which every step adds to
    erred       \* whether an error is among those collected

subVars == <<text, mode, spec, erred>>

Final == {"done", "error", "panic"}

Refinement(c, toks, kids) == [choice |-> c, toks |-> toks, kids |-> kids]
NoFilter == Refinement("none", << >>, << >>)
Invalid  == Refinement("invalid", << >>, << >>)

Specification(b, e, min, max, f) ==
    [base |-> b, exclusions |-> e, minimum |-> min, maximum |-> max, filter |-> f]
EmptySpecification == Specification(<< >>, << >>, 0, 0, NoFilter)

\* What a component is read as, and whether that is an error or a fault.
Read(out)     == [out |-> out, error |-> FALSE, fault |-> FALSE]
Erroneous(out)  == [out |-> out, error |-> TRUE,  fault |-> FALSE]
Faulted       == [out |-> << >>, error |-> FALSE, fault |-> TRUE]

-----------------------------------------------------------------------------
(* Texts                                                                   *)

Blank(s) == \A i \in DOMAIN s : s[i] = "blank"
Trim(s)  == IF Blank(s) THEN << >>
            ELSE SubSeq(s, CHOOSE i \in DOMAIN s : s[i] # "blank" /\ \A j \in 1..(i - 1) : s[j] = "blank",
                           CHOOSE i \in DOMAIN s : s[i] # "blank" /\ \A j \in (i + 1)..Len(s) : s[j] = "blank")
From(s, i) == SubSeq(s, i, Len(s))
FirstOf(s, t, i) == CHOOSE j \in i..Len(s) : s[j] = t /\ \A k \in i..(j - 1) : s[k] # t

\* The part between the braces.
Raw == Trim(SubSeq(text, 2, Len(text) - 1))

\* strings.Index(raw, "base "): the word is found wherever it stands, in a name too.
Found(s, c) == \E i \in 1..(Len(s) - 1) : s[i] = c /\ s[i + 1] = "blank"
After(s, c) == From(s, 2 + CHOOSE i \in 1..(Len(s) - 1) : /\ s[i] = c /\ s[i + 1] = "blank"
                                                          /\ \A j \in 1..(i - 1) : s[j] # c \/ s[j + 1] # "blank")

\* Mutant: a comma in a name is a comma.
SplitPartsUnquoted(s) ==
    LET Step(a, t) == IF t = "," /\ a.depth = 0 THEN [a EXCEPT !.parts = Append(@, Trim(a.part)), !.part = << >>]
                      ELSE [a EXCEPT !.part = Append(@, t), !.depth = IF t = "{" THEN @ + 1 ELSE IF t = "}" /\ @ > 0 THEN @ - 1 ELSE @]
        end == FoldLeft(Step, [parts |-> << >>, part |-> << >>, depth |-> 0], s)
    IN  SelectSeq(Append(end.parts, Trim(end.part)), LAMBDA part : part # << >>)

\* splitRefinementParts: the parts between the commas that are in no braces and no
\* quotes.  A brace that closes nothing is passed over, and in quotes a backslash
\* takes the meaning of the next character away.
SplitParts(s) ==
    LET Deeper(a, t) == IF a.quoted THEN a.depth
                       ELSE IF t = "{" THEN a.depth + 1
                       ELSE IF t = "}" /\ a.depth > 0 THEN a.depth - 1 ELSE a.depth
        Step(a, t) ==
            IF a.escaped THEN [a EXCEPT !.part = Append(@, t), !.escaped = FALSE]
            ELSE IF t = "esc" /\ a.quoted THEN [a EXCEPT !.part = Append(@, t), !.escaped = TRUE]
            ELSE IF t = "quote" THEN [a EXCEPT !.part = Append(@, t), !.quoted = ~@]
            ELSE IF t = "," /\ a.depth = 0 /\ ~a.quoted
                 THEN [a EXCEPT !.parts = Append(@, Trim(a.part)), !.part = << >>]
            ELSE [a EXCEPT !.part = Append(@, t), !.depth = Deeper(a, t)]
        end == FoldLeft(Step, [parts |-> << >>, part |-> << >>, depth |-> 0, quoted |-> FALSE, escaped |-> FALSE], s)
    IN  SelectSeq(Append(end.parts, Trim(end.part)), LAMBDA part : part # << >>)

-----------------------------------------------------------------------------
(* The components                                                          *)

\* subtreeBase: what is between the quote that must follow at once and the next one,
\* escaped or not.  Without a next one the slice raw[1:-1] is taken.
BaseOf(s) ==
    LET close == FirstOf(s, "quote", 2)
        name  == SubSeq(s, 2, close - 1)
    IN  IF s[1] # "quote" THEN Erroneous(<< >>)
        ELSE IF \A i \in 2..Len(s) : s[i] # "quote" THEN Faulted
        ELSE IF "unsafe" \in Range(name) THEN Erroneous(<< >>)
        ELSE Read(name)

\* findMatchingBrace, from an opening brace at 1: quotes are not looked at.
Depth(s, n) == Cardinality({i \in 1..n : s[i] = "{"}) - Cardinality({i \in 1..n : s[i] = "}"})
Closes(s, n) == Depth(s, n) = 0 /\ \A i \in 1..(n - 1) : Depth(s, i) > 0

\* strings.Trim(val, `"`).
Unquoted(s) == IF \A i \in DOMAIN s : s[i] = "quote" THEN << >>
               ELSE SubSeq(s, CHOOSE i \in DOMAIN s : s[i] # "quote" /\ \A j \in 1..(i - 1) : s[j] = "quote",
                              CHOOSE i \in DOMAIN s : s[i] # "quote" /\ \A j \in (i + 1)..Len(s) : s[j] = "quote")

\* Mutant: the quotes stay.
ExclusionNameQuoted(part) == Trim(From(part, FirstOf(part, "blank", 1)))

KeyFits(part)       == Len(part) > 2 /\ part[1] = "chopBefore" /\ part[2] = "blank"
ExclusionName(part) == Unquoted(Trim(From(part, FirstOf(part, "blank", 1))))

\* Mutant: a brace that is not closed is not noticed.
ExclusionsOfUnchecked(s) ==
    LET t == Trim(s)
        parts == SplitParts(SubSeq(t, 2, (CHOOSE n \in DOMAIN t : Closes(t, n)) - 1))
    IN  IF t = << >> \/ t[1] # "{" THEN Erroneous(<< >>)
        ELSE IF \A n \in DOMAIN t : ~Closes(t, n) THEN Faulted
        ELSE IF \E k \in DOMAIN parts : ~KeyFits(parts[k]) THEN Erroneous(<< >>)
        ELSE Read([k \in DOMAIN parts |-> ExclusionName(parts[k])])

\* subtreeExclusions: the first part that does not fit ends it, and those before it
\* are kept.
ExclusionsOf(s) ==
    LET t == Trim(s)
        parts == SplitParts(SubSeq(t, 2, (CHOOSE n \in DOMAIN t : Closes(t, n)) - 1))
        fit   == CHOOSE n \in 0..Len(parts) : /\ \A k \in 1..n : KeyFits(parts[k])
                                              /\ n = Len(parts) \/ ~KeyFits(parts[n + 1])
        names == [k \in 1..fit |-> ExclusionName(parts[k])]
    IN  IF t[1] # "{" \/ \A n \in DOMAIN t : ~Closes(t, n) THEN Erroneous(<< >>)
        ELSE IF fit < Len(parts) THEN Erroneous(names)
        ELSE Read(names)

\* subtreeMinMax: the digits that follow at once.
DistanceOf(s) ==
    LET run == CHOOSE n \in 0..Len(s) : /\ \A i \in 1..n : s[i] \in Digits
                                        /\ n = Len(s) \/ s[n + 1] \notin Digits
        Value[n \in 0..run] == IF n = 0 THEN 0 ELSE 10 * Value[n - 1] + (IF s[n] = "1" THEN 1 ELSE 0)
    IN  IF run = 0 THEN Erroneous(0) ELSE Read(Value[run])

\* parseItem: IsObjectClass is oID, which looks at an identifier only if it begins
\* with a letter or a digit.
ItemFits(s) == s # << >> /\ (s[1] \in Letters \cup Digits => s[1] \in Letters /\ Range(s) \subseteq Letters \cup Digits)

\* parseComplexRefinement takes a brace from either end if there is one.
Inner(s) == LET opened == IF s # << >> /\ s[1] = "{" THEN Tail(s) ELSE s
            IN  IF opened # << >> /\ opened[Len(opened)] = "}" THEN Front(opened) ELSE opened

\* subtreeRefinement, parseItem, parseNot and parseComplexRefinement, of a trimmed text.
Refined[s \in Seq(Tokens)] ==
    LET parts == SplitParts(Inner(Trim(Tail(s))))
        subs  == << >> \o [k \in DOMAIN parts |-> Refined[parts[k]]]
        good  == CHOOSE n \in 0..Len(subs) : (\A k \in 1..n : ~subs[k].error) /\ (n = Len(subs) \/ subs[n + 1].error)
        kids  == [k \in 1..good |-> subs[k].out]
        sub   == Refined[Trim(Tail(s))]
    IN  CASE s = << >> \/ s[1] \notin Kinds -> Erroneous(Invalid)
          [] s[1] = "item:" -> IF ItemFits(Tail(s)) THEN Read(Refinement("item", Tail(s), << >>)) ELSE Erroneous(Invalid)
          [] s[1] = "and:"  -> IF good < Len(subs) THEN Erroneous(Refinement("and", << >>, kids))
                               ELSE Read(Refinement("and", << >>, kids))
          [] s[1] = "not:"  -> IF sub.error THEN Erroneous(NoFilter) ELSE Read(Refinement("not", << >>, <<sub.out>>))

\* marshalSpecFilter: all that follows, and an error that is dropped with its scope.
FilterOf(s) == Read(Refined[Trim(s)].out)

-----------------------------------------------------------------------------
(* NewSubtreeSpecification                                                 *)

SubtreeInit == text \in Texts /\ mode = "entry" /\ spec = EmptySpecification /\ erred = FALSE

\* checkSubtreeEncaps; a text of one brace has the wrong one at an end.
Open ==
    /\ mode = "entry"
    /\ mode' = IF text[1] = "{" /\ text[Len(text)] = "}" THEN "base" ELSE "error"
    /\ UNCHANGED <<text, spec, erred>>

\* One marshal function: the component is left alone if its word is not found.
Marshal(c, field, r, next) ==
    /\ mode = c
    /\ IF ~Found(Raw, c) THEN mode' = next /\ UNCHANGED <<spec, erred>>
       ELSE IF r.fault THEN mode' = "panic" /\ UNCHANGED <<spec, erred>>
       ELSE /\ spec' = [spec EXCEPT ![field] = r.out]
            /\ erred' = (erred \/ r.error)
            /\ mode' = next
    /\ UNCHANGED text

MarshalBase       == Marshal("base", "base", BaseOf(After(Raw, "base")), "specificExclusions")
MarshalExclusions == Marshal("specificExclusions", "exclusions", ExclusionsOf(After(Raw, "specificExclusions")), "minimum")
MarshalMinimum    == Marshal("minimum", "minimum", DistanceOf(After(Raw, "minimum")), "maximum")
MarshalMaximum    == Marshal("maximum", "maximum", DistanceOf(After(Raw, "maximum")), "specificationFilter")
MarshalSpecFilter == Marshal("specificationFilter", "filter", FilterOf(After(Raw, "specificationFilter")), "answer")

\* The list of errors is complete before its first one is looked for, so that a failed
\* component stops none of the others.
Answer == mode = "answer" /\ mode' = (IF erred THEN "error" ELSE "done") /\ UNCHANGED <<text, spec, erred>>

SubtreeNext == Open \/ MarshalBase \/ MarshalExclusions \/ MarshalMinimum \/ MarshalMaximum \/ MarshalSpecFilter \/ Answer

SubtreeSpec == SubtreeInit /\ [][SubtreeNext]_subVars

-----------------------------------------------------------------------------
(* Properties                                                              *)

\* Of the cuts that the five functions make with indices they searched for, one is out
\* of range: that of a base whose quote is not closed.  No other text faults.
FaultsOnlyOnOpenBase ==
    mode = "panic" =>
        /\ Found(Raw, "base")
        /\ LET s == After(Raw, "base") IN s[1] = "quote" /\ \A i \in 2..Len(s) : s[i] # "quote"
=============================================================================
