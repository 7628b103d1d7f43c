----------------------------- MODULE TargetRules -----------------------------
(***************************************************************************)
(* ACIv3 target rules (aci/aci.go): TargetRuleItem, a pointer to a keyword,*)
(* an operator and an expression, its constructor and setters, and a       *)
(* TargetRule, the slice of items Push appends to and the parser Push runs *)
(* on an argument that is text.                                            *)
(*                                                                         *)
(* Items are shared: what was pushed is still the caller's, who may set    *)
(* its parts afterwards.  A text is met token by token; of the tokens the  *)
(* model keeps what the parser's loop looks at, and whether the values of  *)
(* an item are accepted for its keyword is chosen when it is closed.       *)
(***************************************************************************)
EXTENDS Naturals, Sequences, FiniteSets, SequencesExt

CONSTANTS
    Items,          \* the items a program may make
    Keywords,       \* the target keywords
    Unwritable,     \* those no text is accepted for ("targattrfilters")
    MaxItems,       \* the most items of a rule: nine
    NoKw            \* invalidACIv3TargetKeyword

ASSUME KeywordsAssumption == Unwritable \subseteq Keywords /\ NoKw \notin Keywords
ASSUME MaxItemsAssumption == MaxItems \in Nat

VARIABLES
    item,       \* the heap: the items made so far, and what they hold
    slice,      \* the rule: the items pushed to it, in order
    mode,       \* what Push is doing, if one is under way
    text        \* what the parser of a text argument has seen of the next item

vars == <<item, slice, mode, text>>

Free     == [kw |-> NoKw, op |-> FALSE, ex |-> FALSE, live |-> FALSE]
Holding(kw, op, ex) == [kw |-> kw, op |-> op, ex |-> ex, live |-> TRUE]
Cells    == [kw : Keywords \cup {NoKw}, op : BOOLEAN, ex : BOOLEAN, live : BOOLEAN]

\* read: how many of the first three tokens; fits: whether they are "(", a keyword
\* and an operator so far; owed: how many more the text is known to have; vals:
\* whether a value was among those after the operator.
NoText == [read |-> 0, fits |-> TRUE, kw |-> NoKw, owed |-> 0, vals |-> FALSE]
Texts  == [read : 0..3, fits : BOOLEAN, kw : Keywords \cup {NoKw}, owed : 0..2, vals : BOOLEAN]

-----------------------------------------------------------------------------
ValidItem(i) == item[i].live /\ item[i].kw # NoKw /\ item[i].op /\ item[i].ex

Held        == Range(slice)
\* TargetRule.Contains.
HasKeyword(k) == \E i \in Held : item[i].kw = k

\* TargetRule.Valid: an empty rule is valid.
Valid == \A i \in Held : ValidItem(i)

\* NewTargetRuleItem and TargetRuleItem{}: any part may be missing or refused, and
\* the item is returned all the same.
NewTargetRuleItem(i, kw, op, ex) ==
    /\ mode = "idle" /\ ~item[i].live
    /\ item' = [item EXCEPT ![i] = Holding(kw, op, ex)]
    /\ UNCHANGED <<slice, mode, text>>

\* The setters: any keyword, an operator (others are ignored), any expression or nil.
SetKeyword(i, kw) ==
    /\ mode = "idle" /\ item[i].live
    /\ item' = [item EXCEPT ![i] = Holding(kw, item[i].op, item[i].ex)]
    /\ UNCHANGED <<slice, mode, text>>

SetOperator(i) ==
    /\ mode = "idle" /\ item[i].live
    /\ item' = [item EXCEPT ![i] = Holding(item[i].kw, TRUE, item[i].ex)]
    /\ UNCHANGED <<slice, mode, text>>

SetExpression(i, ex) ==
    /\ mode = "idle" /\ item[i].live
    /\ item' = [item EXCEPT ![i] = Holding(item[i].kw, item[i].op, ex)]
    /\ UNCHANGED <<slice, mode, text>>

-----------------------------------------------------------------------------
(* Push                                                                    *)

PushStart ==
    /\ mode = "idle"
    /\ mode' = "push"
    /\ UNCHANGED <<item, slice, text>>

Room == Len(slice) < MaxItems

\* Mutant: the keyword is not looked for among the items.
PushItemAnyKeyword(i) ==
    /\ mode = "push" /\ Room /\ item[i].live
    /\ slice' = IF ValidItem(i) THEN Append(slice, i) ELSE slice
    /\ UNCHANGED <<item, mode, text>>

\* Mutant: Valid is not asked.
PushItemUnchecked(i) ==
    /\ mode = "push" /\ Room /\ item[i].live
    /\ slice' = IF ~HasKeyword(item[i].kw) THEN Append(slice, i) ELSE slice
    /\ UNCHANGED <<item, mode, text>>

\* An argument that is an item; the loop's condition is the limit.
PushItem(i) ==
    /\ mode = "push" /\ Room /\ item[i].live
    /\ slice' = IF ValidItem(i) /\ ~HasKeyword(item[i].kw) THEN Append(slice, i) ELSE slice
    /\ UNCHANGED <<item, mode, text>>

\* An argument that is text; its error is dropped.  The tokenizer reads past the end
\* of a text that ends in a blank.
PushText ==
    /\ mode = "push" /\ Room
    /\ mode' \in {"head", "panic"} /\ text' = NoText
    /\ UNCHANGED <<item, slice>>

PushEnd ==
    /\ mode = "push"
    /\ mode' = "idle" /\ text' = NoText
    /\ UNCHANGED <<item, slice>>

-----------------------------------------------------------------------------
(* TargetRule.parse                                                        *)

\* The next of the first three tokens: the one an item has in that place, or another.
HeadToken(fits, kw) ==
    /\ mode = "head" /\ text.read < 3
    /\ kw # NoKw => fits /\ text.read = 1
    /\ text' = [text EXCEPT !.read = @ + 1,
                            !.fits = @ /\ fits,
                            !.kw = IF text.read = 1 THEN kw ELSE @]
    /\ UNCHANGED <<item, slice, mode>>

\* Fewer than five tokens are left: an error in the first round, the end in others.
TextTooShort ==
    /\ mode = "head"
    /\ mode' = "push" /\ text' = NoText
    /\ UNCHANGED <<item, slice>>

\* There are five or more.  If they do not begin an item, the loop's body does
\* nothing, and its condition stays true for ever.
TextGoesOn ==
    /\ mode = "head" /\ text.read = 3
    /\ mode' = IF text.fits THEN "scan" ELSE "stuck"
    /\ text' = [text EXCEPT !.owed = 2]
    /\ UNCHANGED <<item, slice>>

\* A token after the operator that is not ")": a value is kept, others are skipped.
ScanToken(value) ==
    /\ mode = "scan"
    /\ text' = [text EXCEPT !.vals = @ \/ value, !.owed = IF @ = 0 THEN 0 ELSE @ - 1]
    /\ UNCHANGED <<item, slice, mode>>

\* newACIv3TargetRuleItem accepts the values the scan collected.
Acceptable == text.vals /\ text.kw \in Keywords \ Unwritable

\* Mutant: the parser appends the item itself.
CloseItemAppends(i) ==
    /\ mode = "scan" /\ Acceptable /\ ~item[i].live
    /\ slice' = Append(slice, i)
    /\ item' = [item EXCEPT ![i] = Holding(text.kw, TRUE, TRUE)]
    /\ mode' = "head" /\ text' = NoText

\* ")" after an item that is accepted: it goes through Push as any other, and is
\* forgotten if there is no room or its keyword is in use.
CloseItem(i) ==
    /\ mode = "scan" /\ Acceptable /\ ~item[i].live
    /\ IF Room /\ ~HasKeyword(text.kw)
       THEN /\ slice' = Append(slice, i)
            /\ item' = [item EXCEPT ![i] = Holding(text.kw, TRUE, TRUE)]
       ELSE UNCHANGED <<slice, item>>
    /\ mode' = "head" /\ text' = NoText

\* ")", or the end of the text, after an item that is refused: an error.
RefuseItem ==
    /\ mode = "scan"
    /\ mode' = "push" /\ text' = NoText
    /\ UNCHANGED <<item, slice>>

\* The end of the text before ")" of an item that is accepted: tkz[i+1:] is out of
\* range.
TextUnclosed ==
    /\ mode = "scan" /\ text.owed = 0 /\ Acceptable
    /\ mode' = "panic"
    /\ UNCHANGED <<item, slice, text>>

-----------------------------------------------------------------------------
Init ==
    /\ item = [i \in Items |-> Free]
    /\ slice = << >> /\ mode = "idle" /\ text = NoText

Next ==
    \/ \E i \in Items, kw \in Keywords \cup {NoKw} :
         \/ \E op, ex \in BOOLEAN : NewTargetRuleItem(i, kw, op, ex)
         \/ SetKeyword(i, kw)
    \/ \E i \in Items : \/ SetOperator(i)
                        \/ \E ex \in BOOLEAN : SetExpression(i, ex)
                        \/ PushItem(i)
                        \/ CloseItem(i)
    \/ PushStart \/ PushText \/ PushEnd
    \/ \E fits \in BOOLEAN, kw \in Keywords \cup {NoKw} : HeadToken(fits, kw)
    \/ \E value \in BOOLEAN : ScanToken(value)
    \/ TextTooShort \/ TextGoesOn \/ RefuseItem \/ TextUnclosed

Spec == Init /\ [][Next]_vars

-----------------------------------------------------------------------------
(* Properties                                                              *)

TypeOK ==
    /\ item \in [Items -> Cells]
    /\ slice \in Seq(Items)
    /\ mode \in {"idle", "push", "head", "scan", "stuck", "panic"}
    /\ text \in Texts

\* However items and texts alternate in the calls, the parser's own pushes included,
\* a rule never has more than nine items, and all of them were made.
WithinLimit == Len(slice) <= MaxItems /\ \A i \in Held : item[i].live

\* TargetRule (comment): "no single TargetKeyword shall ever appear in more than one
\* TargetRuleItem instance found within instances of this type."
DistinctKeywords ==
    \A a, b \in DOMAIN slice : item[slice[a]].kw = item[slice[b]].kw => a = b

\* Only a setter called on an item the rule holds can give the rule two items of one
\* keyword; no Push of items or texts can.
DuplicatesComeFromSetKeyword ==
    [][DistinctKeywords /\ ~DistinctKeywords' =>
         mode = "idle" /\ \E i \in Held : item'[i].kw # item[i].kw]_vars

\* A valid rule stays valid in every Push, and becomes invalid only when a setter
\* takes the keyword or the expression of an item it holds; SetOperator never does.
ValidityIsLostFor ==
    [][Valid /\ ~Valid' =>
         /\ slice' = slice
         /\ \E i \in Held : item'[i].op = item[i].op
                           /\ (item'[i].kw = NoKw \/ ~item'[i].ex)]_vars

\* What was pushed stays, in its place.
AppendOnly == [][IsPrefix(slice, slice')]_vars
=============================================================================
