------------------------------- MODULE Guides -------------------------------
(***************************************************************************)
(* Guide and EnhancedGuide values (guide.go): marshalGuide,                *)
(* marshalEnhancedGuide and the recursive descent of criteriaParser.  The  *)
(* calls under way (tokenizeCriteria, tokenizeAndTerm, tokenizeTerm) are a *)
(* stack of frames; tokenizeCriteria is an "or" frame and the "and" frame  *)
(* of its first term.                                                      *)
(*                                                                         *)
(* A text is a list of tokens: "x" is a letter of a name, "oid" a numeric  *)
(* OID, "whole" stands for the three subsets, "esc" is the backslash.  The *)
(* parser reads bytes, and after a criteria in parentheses it skips one    *)
(* whatever it is, so that a token has a width, and "cut" says how much of *)
(* the next one is gone.                                                   *)
(***************************************************************************)
EXTENDS Naturals, Sequences, FiniteSets, SequencesExt

CONSTANTS
    Entries,    \* which of "guide" and "enhanced" is called
    Texts       \* what callers pass

MatchTypes == {"EQ", "SUBSTR", "GE", "LE", "APPROX"}
Words   == {"x", "oid", "true", "false", "whole"} \cup MatchTypes
Symbols == {"!", "(", ")", "&", "|", "?", "$", "#", "esc", "blank"}
Tokens  == Words \cup Symbols

Width(t) == CASE t \in {"EQ", "GE", "LE"} -> 2 [] t \in {"SUBSTR", "APPROX"} -> 6
              [] t = "oid" -> 3 [] t = "true" -> 4 [] t = "false" -> 5
              [] t = "whole" -> 13 [] OTHER -> 1

ASSUME EntriesAssumption == Entries \subseteq {"guide", "enhanced"}
ASSUME TextsAssumption   == Texts \subseteq Seq(Tokens)

VARIABLES
    entry,      \* the function called
    text,       \* its argument
    raws,       \* the parts of it between "#"
    input,      \* the part of it that criteriaParser is given, trimmed
    pos, cut,   \* tokens consumed, and bytes consumed of the next one
    stack,      \* the calls under way, outermost first
    mode,       \* what the parser does next, or how it ended
    val,        \* the criteria the last call returned
    guide       \* the value returned, with or without an error

vars == <<entry, text, raws, input, pos, cut, stack, mode, val, guide>>

Final == {"done", "error"}

-----------------------------------------------------------------------------
(* Criteria.  "sound" is what Valid answers: no item of an unknown match   *)
(* type.  The OID check of an item never fails, for oID is given a value   *)
(* whose type is none of its cases.                                        *)

Criteria(c, attr, match, kids) ==
    [choice |-> c, attr |-> attr, match |-> match, kids |-> kids,
     sound |-> c # "invalid" /\ \A i \in DOMAIN kids : kids[i].sound]

Item(attr, match) == Criteria("item", attr, match, << >>)
InvalidItem       == Criteria("invalid", << >>, "", << >>)
And(cs) == Criteria("and", << >>, "", cs)
Or(cs)  == Criteria("or", << >>, "", cs)
Not(c)  == Criteria("not", << >>, "", <<c>>)

Guide(oc, c, subset) == [oc |-> oc, criteria |-> c, subset |-> subset]
NoGuide == Guide("", InvalidItem, "")

-----------------------------------------------------------------------------
(* Texts                                                                   *)

Size(s) == LET w[n \in 0..Len(s)] == IF n = 0 THEN 0 ELSE w[n - 1] + Width(s[n]) IN w[Len(s)]

\* bytes.TrimSpace.
Blank(s) == \A i \in DOMAIN s : s[i] = "blank"
Trim(s)  == IF Blank(s) THEN << >>
            ELSE SubSeq(s, CHOOSE i \in DOMAIN s : s[i] # "blank" /\ \A j \in 1..(i - 1) : s[j] = "blank",
                           CHOOSE i \in DOMAIN s : s[i] # "blank" /\ \A j \in (i + 1)..Len(s) : s[j] = "blank")

\* splitUnescapedBytes: a "#" ends a part unless a backslash precedes it, and the
\* backslashes that escape are dropped.
Escaped(s, i) == LET e[n \in 1..Len(s)] == n > 1 /\ s[n - 1] = "esc" /\ ~e[n - 1] IN e[i]
Sharps(s, n)  == Cardinality({i \in 1..n : s[i] = "#" /\ ~Escaped(s, i)})
Parts(s) ==
    [k \in 1..(Sharps(s, Len(s)) + 1) |->
        LET kept == SelectSeq([i \in DOMAIN s |-> i], LAMBDA i :
                        Sharps(s, i) = k - 1 /\ (s[i] \notin {"#", "esc"} \/ Escaped(s, i)))
        IN  [j \in DOMAIN kept |-> s[kept[j]]]]

-----------------------------------------------------------------------------
(* The entries                                                             *)

Frame(kind, cs) == [kind |-> kind, kids |-> cs]
Calls == <<Frame("or", << >>), Frame("and", << >>)>>

Init ==
    /\ entry \in Entries /\ text \in Texts /\ raws = Parts(text)
    /\ input = << >> /\ pos = 0 /\ cut = 0
    /\ stack = << >>
    /\ mode = "entry"
    /\ val = InvalidItem /\ guide = NoGuide

Fail(g) == mode' = "error" /\ guide' = g /\ UNCHANGED <<input, stack>>

\* marshalGuide has an object class or not, marshalEnhancedGuide one and a subset.
WithClass == Len(raws) > 1
PartsFit  == IF entry = "guide" THEN Len(raws) \in {1, 2} ELSE Len(raws) = 3

\* assertBytes, the number of parts and the object class; then tokenizeCriteria is
\* called on what is left.
Open ==
    /\ mode = "entry"
    /\ IF Size(text) < 5 \/ ~PartsFit \/ (WithClass /\ Trim(raws[1]) # <<"oid">>)
       THEN Fail(NoGuide)
       ELSE /\ mode' = "term"
            /\ stack' = Calls
            /\ input' = Trim(raws[IF WithClass THEN 2 ELSE 1])
            /\ guide' = [NoGuide EXCEPT !.oc = IF WithClass THEN "oid" ELSE ""]
    /\ UNCHANGED <<entry, text, raws, pos, cut, val>>

\* subsetToInt: -1 is "none" here.
SubsetOf(part) == IF Trim(part) = <<"whole">> THEN "whole" ELSE "none"

\* The outermost call has returned: Valid, and then the subset, are what may still
\* fail, and the guide is returned as far as it was filled.
Close ==
    LET filled == [guide EXCEPT !.criteria = val]
    IN  /\ mode = "value" /\ stack = << >>
        /\ IF ~val.sound THEN Fail(filled)
           ELSE IF entry = "enhanced" /\ SubsetOf(raws[3]) = "none" THEN Fail([filled EXCEPT !.subset = "none"])
           ELSE /\ mode' = "done"
                /\ guide' = [filled EXCEPT !.subset = IF entry = "enhanced" THEN SubsetOf(raws[3]) ELSE ""]
                /\ UNCHANGED <<input, stack>>
        /\ UNCHANGED <<entry, text, raws, pos, cut, val>>

-----------------------------------------------------------------------------
(* criteriaParser                                                          *)

AtEnd == pos >= Len(input)
Peek  == IF AtEnd THEN "end" ELSE IF cut > 0 THEN "rest" ELSE input[pos + 1]
Ahead(n) == IF pos + n <= Len(input) THEN input[pos + n] ELSE "end"

Static == UNCHANGED <<entry, text, raws, input, guide>>
Consume(n) == pos' = pos + n /\ cut' = cut
Returns(c) == mode' = "value" /\ val' = c
Top == stack[Len(stack)]
Pop == stack' = Front(stack)
Collect(c) == [Top EXCEPT !.kids = Append(@, c)]

TermNot ==
    /\ mode = "term" /\ Peek = "!"
    /\ stack' = Append(stack, Frame("not", << >>))
    /\ Consume(1) /\ UNCHANGED <<mode, val>> /\ Static

TermGroup ==
    /\ mode = "term" /\ Peek = "("
    /\ stack' = Append(stack, Frame("group", << >>)) \o Calls
    /\ Consume(1) /\ UNCHANGED <<mode, val>> /\ Static

IsConstant == Peek = "?" /\ Ahead(2) \in {"true", "false"}

TermConstant ==
    /\ mode = "term" /\ IsConstant
    /\ Returns(IF Ahead(2) = "true" THEN And(<< >>) ELSE Or(<< >>))
    /\ Consume(2) /\ UNCHANGED stack /\ Static

\* tokenizeMatchType, at token i.
MatchTypeAt(i) == IF i <= Len(input) /\ input[i] \in MatchTypes THEN input[i] ELSE ""

\* Everything else is taken for an item: a "?" is skipped, all that precedes the next
\* "$" is the attribute, and what follows the "$" must be a match type.
TermItem ==
    LET from  == pos + (IF Peek = "?" THEN 1 ELSE 0)
        marks == {i \in (from + 1)..Len(input) : input[i] = "$"}
        mark  == IF marks = {} THEN Len(input) + 1 ELSE CHOOSE i \in marks : \A j \in (from + 1)..(i - 1) : input[j] # "$"
        match == MatchTypeAt(mark + 1)
    IN  /\ mode = "term" /\ Peek \notin {"!", "("} /\ ~IsConstant
        /\ Returns(IF match = "" THEN InvalidItem ELSE Item(SubSeq(input, from + 1, mark - 1), match))
        /\ pos' = IF marks = {} THEN Len(input) ELSE mark + (IF match = "" THEN 0 ELSE 1)
        /\ UNCHANGED <<stack, cut>> /\ Static

ReturnNot ==
    /\ mode = "value" /\ stack # << >> /\ Top.kind = "not"
    /\ Pop /\ Returns(Not(val))
    /\ UNCHANGED <<pos, cut>> /\ Static

\* Mutant: one member is a set too.
GatheredAlways(kind, cs) == IF kind = "and" THEN And(cs) ELSE Or(cs)

\* A set of one is that one.
Gathered(kind, cs) == IF Len(cs) = 1 THEN cs[1] ELSE IF kind = "and" THEN And(cs) ELSE Or(cs)

\* Mutant: both kinds go on at either operator.
SeparatorEither(kind) == IF Peek = "|" THEN "|" ELSE "&"

Separator(kind) == IF kind = "and" THEN "&" ELSE "|"

\* The loops of tokenizeAndTerm and tokenizeCriteria: a set goes on at its separator,
\* and is returned at anything else.
MoreOfSet ==
    /\ mode = "value" /\ stack # << >> /\ Top.kind \in {"and", "or"}
    /\ Peek = Separator(Top.kind)
    /\ stack' = Append(Front(stack), Collect(val)) \o (IF Top.kind = "or" THEN <<Calls[2]>> ELSE << >>)
    /\ mode' = "term"
    /\ Consume(1) /\ UNCHANGED val /\ Static

ReturnSet ==
    /\ mode = "value" /\ stack # << >> /\ Top.kind \in {"and", "or"}
    /\ Peek # Separator(Top.kind)
    /\ Pop /\ Returns(Gathered(Top.kind, Collect(val).kids))
    /\ UNCHANGED <<pos, cut>> /\ Static

\* Mutant: nothing is skipped at the end of a group.
SkipNothing == pos' = pos /\ cut' = cut

\* next(), whatever the byte is.
Skip ==
    /\ pos' = IF AtEnd \/ cut + 1 < Width(input[pos + 1]) THEN pos ELSE pos + 1
    /\ cut' = IF ~AtEnd /\ cut + 1 < Width(input[pos + 1]) THEN cut + 1 ELSE 0

\* Mutant: the criteria of a group is returned at ")" only.
ReturnGroupClosed ==
    /\ mode = "value" /\ stack # << >> /\ Top.kind = "group" /\ Peek = ")"
    /\ Pop /\ Returns(val)
    /\ Skip /\ Static

ReturnGroup ==
    /\ mode = "value" /\ stack # << >> /\ Top.kind = "group"
    /\ Pop /\ Returns(val)
    /\ Skip /\ Static

Next == \/ Open \/ Close
        \/ TermNot \/ TermGroup \/ TermConstant \/ TermItem
        \/ ReturnNot \/ MoreOfSet \/ ReturnSet \/ ReturnGroup

\* A call runs to its end: the parser is sequential.
Spec == Init /\ [][Next]_vars /\ WF_vars(Next)

-----------------------------------------------------------------------------
(* Properties                                                              *)

\* The types, a position inside the text, calls that nest (the terms of a set inside a
\* criteria, a criteria inside a group), and: no term begins in the middle of a word.
TypeOK ==
    /\ entry \in Entries /\ text \in Texts /\ raws = Parts(text) /\ input \in Seq(Tokens)
    /\ mode \in {"entry", "term", "value"} \cup Final
    /\ pos \in 0..Len(input)
    /\ cut > 0 => mode # "term" /\ pos < Len(input) /\ cut < Width(input[pos + 1])
    /\ \A i \in DOMAIN stack :
          /\ stack[i].kind \in {"or", "and", "not", "group"}
          /\ stack[i].kind = "and" => i > 1 /\ stack[i - 1].kind = "or"
          /\ stack[i].kind = "or"  => i = 1 \/ stack[i - 1].kind = "group"

\* Whatever the text, NewGuide and NewEnhancedGuide return: no term is read twice.
Answers == <>(mode \in Final)
=============================================================================
