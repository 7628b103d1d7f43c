--------------------- MODULE AttributeFilterOperations ---------------------
(***************************************************************************)
(* The values of targattrfilters (aci/aci.go): an AttributeFilter pairs an *)
(* attribute with a search filter, an AttributeFilterOperationItem adds or *)
(* deletes some of them, an AttributeFilterOperation has one item to add   *)
(* and one to delete.                                                      *)
(*                                                                         *)
(* Filters and items are pointers the caller keeps; an operation made from *)
(* an item shares it, one made from a text has items of its own, which no  *)
(* method answers.  A text is a list of tokens; blanks are left out.  Of   *)
(* the filters (Filters) there are those of one comparison, by its value,  *)
(* the one that is invalid and whose error NewFilter drops, and nil.       *)
(***************************************************************************)
EXTENDS Naturals, Sequences, SequencesExt, Cuts

CONSTANTS
    FilterValues,   \* the values of the filters that are compared with
    OperationTexts, \* the texts given to NewAttributeFilterOperation
    ItemTexts,      \* those given to NewAttributeFilterOperationItem and its Push
    MaxFilters, MaxOperationItems, MaxPieces    \* bounds: how many of them are made

Unnamed    == "<invalid_attribute_type>"    \* what an Attribute without a first value writes
Attributes == {"cn", "sn"}
Delimiters == {",", ";"}
OperationWords   == {"add=", "delete="}
NilFilter     == <<"nil">>
InvalidFilter == <<"invalid">>
DefaultValue  == <<"any">>
NilItem == [op |-> "nil", slice |-> << >>]

\* A value is no text of its own: neither the parentheses of a filter are in it, nor what
\* NewFilter refuses.
ASSUME FilterValuesAssumption ==
    \A v \in FilterValues : v # << >> /\ v \in Seq(Range(v)) /\ Range(v) \cap {"(o=", ")", "bad"} = {}
ASSUME TextsAssumption == \A s \in OperationTexts \cup ItemTexts : s \in Seq(Range(s))

VARIABLES
    filter,     \* the AttributeFilters made
    operItem,   \* the AttributeFilterOperationItems made: the operation, and which filters
    oper,       \* an operation made from an item: which one, if any, and its delimiter
    read        \* the operation read from a text: the text, the error, what was returned

afoVars == <<filter, operItem, oper, read>>

-----------------------------------------------------------------------------
(* Texts                                                                   *)

Before(s, i) == SubSeq(s, 1, i - 1)
After(s, i)  == SubSeq(s, i + 1, Len(s))
First(s, S)  == CHOOSE i \in DOMAIN s : s[i] \in S /\ \A j \in 1..(i - 1) : s[j] \notin S
Holds(s, S)  == \E i \in DOMAIN s : s[i] \in S

\* AttributeFilter.Valid, and String: nothing is written of one that is not valid.
ValidFilter(f) == f.attribute # "nil" /\ f.value # NilFilter
FilterText(v)  == IF v = InvalidFilter THEN << >> ELSE <<"(o=">> \o v \o <<")">>
PieceText(f)   == IF ValidFilter(f) THEN <<f.attribute, ":">> \o FilterText(f.value) ELSE << >>

ItemText(item) == <<IF item.op = "delete" THEN "delete=" ELSE "add=">>
                    \o Joined("&&", [k \in DOMAIN item.slice |-> PieceText(item.slice[k])])

\* The items an operation has, the one to add first.
ItemsOf(o) == (IF o.add = NilItem THEN << >> ELSE <<o.add>>) \o (IF o.del = NilItem THEN << >> ELSE <<o.del>>)
OperationText(o) == LET items == ItemsOf(o)
                    IN  Joined(IF o.semi THEN ";" ELSE ",", [k \in DOMAIN items |-> ItemText(items[k])])

-----------------------------------------------------------------------------
(* Parsers                                                                 *)

\* NewFilter: blanks are the default filter; a value that is refused is no error.
FilterRead(s) ==
    IF s = << >> THEN DefaultValue
    ELSE IF Len(s) < 3 \/ s[1] # "(o=" \/ Last(s) # ")" \/ Holds(SubSeq(s, 2, Len(s) - 1), {"(o=", ")"}) THEN NilFilter
    ELSE IF "bad" \in Range(s) THEN InvalidFilter
    ELSE SubSeq(s, 2, Len(s) - 1)

\* Attribute texts: "*" is one without a first value.
AttributeRead(s) == CASE s = <<"*">> -> Unnamed
                      [] Len(s) = 1 /\ s[1] \in Attributes -> s[1]
                      [] OTHER -> "nil"

\* AttributeFilter.parse.
PieceRead(s) ==
    IF ~Holds(s, {":"}) THEN [attribute |-> "nil", value |-> NilFilter]
    ELSE LET i == First(s, {":"})
         IN  [attribute |-> AttributeRead(Before(s, i)), value |-> FilterRead(After(s, i))]

Pieces(s) == LET texts == CutBy("&&", s) IN [k \in DOMAIN texts |-> PieceRead(texts[k])]
Good(pieces) == Pick(pieces, {k \in DOMAIN pieces : ValidFilter(pieces[k])})

\* AttributeFilterOperationItem.parse: each piece sets the error, so that the last tells;
\* those that are good are kept whatever is returned.
ItemRead(s) ==
    IF s = << >> \/ s[1] \notin OperationWords THEN [item |-> [op |-> "none", slice |-> << >>], ok |-> FALSE]
    ELSE LET pieces == Pieces(Tail(s))
         IN  [item |-> [op |-> IF s[1] = "add=" THEN "add" ELSE "delete", slice |-> Good(pieces)],
              ok   |-> ValidFilter(Last(pieces))]

\* Mutant: the text is cut at its last delimiter.
SplitLast(s) ==
    IF ~Holds(s, Delimiters) THEN [first |-> s, second |-> << >>, semi |-> FALSE]
    ELSE LET i == CHOOSE i \in DOMAIN s : s[i] \in Delimiters /\ \A j \in (i + 1)..Len(s) : s[j] \notin Delimiters
         IN  [first |-> Before(s, i), second |-> After(s, i), semi |-> s[i] = ";"]

\* splitACIv3AttributeFilterOperation.
Split(s) ==
    IF ~Holds(s, Delimiters) THEN [first |-> s, second |-> << >>, semi |-> FALSE]
    ELSE LET i == First(s, Delimiters)
         IN  [first |-> Before(s, i), second |-> After(s, i), semi |-> s[i] = ";"]

\* What it and checkACIv3AFOSubstr call a conflict.
Occurrences(s, prefix) == Len(SelectSeq(s, LAMBDA c : c = prefix))
Conflicts(s) ==
    LET parts == Split(s)
    IN  \/ parts.first = << >> \/ parts.first[1] \notin OperationWords
        \/ parts.second = << >> /\ Holds(s, Delimiters)
        \/ parts.second # << >> /\ (parts.second[1] \notin OperationWords \/ parts.first[1] = parts.second[1])
        \/ \E prefix \in OperationWords : Occurrences(parts.first, prefix) > 1 \/ Occurrences(parts.second, prefix) > 1

\* marshalACIv3AttributeFilterOperation: each part that is there sets the error anew, the
\* conflict is returned only if there is none; the slots are by place.
OperationRead(s) ==
    LET parts == Split(s)
        add   == ItemRead(parts.first)
        del   == ItemRead(parts.second)
    IN  [add  |-> IF parts.first = << >> THEN NilItem ELSE add.item,
         del  |-> IF parts.second = << >> THEN NilItem ELSE del.item,
         semi |-> parts.semi,
         ok   |-> IF parts.second # << >> THEN del.ok ELSE parts.first # << >> /\ add.ok]

-----------------------------------------------------------------------------
(* Operations                                                              *)

Item(i) == [op |-> operItem[i].op, slice |-> [k \in DOMAIN operItem[i].slice |-> filter[operItem[i].slice[k]]]]

AfoInit == /\ filter = << >> /\ operItem = << >>
           /\ oper = [item |-> 0, semi |-> FALSE]
           /\ read = [text |-> << >>, ok |-> FALSE, add |-> NilItem, del |-> NilItem, semi |-> FALSE]

\* NewAttributeFilter of an attribute and a filter, or of a text: either part may be missing.
NewAttributeFilter(a, v) ==
    /\ Len(filter) < MaxFilters
    /\ filter' = Append(filter, [attribute |-> a, value |-> v])
    /\ UNCHANGED <<operItem, oper, read>>

\* AttributeFilter.Set; or "*" is pushed to the Attribute the filter holds.
SetAttribute(f, a) == filter' = [filter EXCEPT ![f].attribute = a] /\ UNCHANGED <<operItem, oper, read>>
SetFilter(f, v)    == filter' = [filter EXCEPT ![f].value = v] /\ UNCHANGED <<operItem, oper, read>>

NewItem(op, slice) ==
    /\ Len(operItem) < MaxOperationItems
    /\ operItem' = Append(operItem, [op |-> op, slice |-> slice])

\* NewAttributeFilterOperationItem, of nothing or an operation and a filter, which is not
\* asked whether it is valid.
NewAttributeFilterOperationItem ==
    /\ \/ NewItem("none", << >>)
       \/ \E op \in {"add", "delete"} : \E f \in DOMAIN filter : NewItem(op, <<f>>)
    /\ UNCHANGED <<filter, oper, read>>

\* Of a text. Push of a text makes such an item as well, which only its result holds.
NewItemFromText(s) ==
    LET r == ItemRead(s).item
    IN  /\ Len(filter) + Len(r.slice) <= MaxFilters
        /\ NewItem(r.op, [k \in DOMAIN r.slice |-> Len(filter) + k])
        /\ filter' = filter \o r.slice
        /\ UNCHANGED <<oper, read>>

PushFilter(i, f) ==
    /\ ValidFilter(filter[f]) /\ Len(operItem[i].slice) < MaxPieces
    /\ operItem' = [operItem EXCEPT ![i].slice = Append(@, f)]
    /\ UNCHANGED <<filter, oper, read>>

\* NewAttributeFilterOperation of an operation, which is not looked at, and an item,
\* whose own operation is.
NewAttributeFilterOperation(i) ==
    /\ operItem[i].op # "none"
    /\ oper' = [item |-> i, semi |-> FALSE]
    /\ UNCHANGED <<filter, operItem, read>>

NewOperationFromText(s) ==
    LET r == OperationRead(s)
    IN  /\ read.text = << >>
        /\ read' = [text |-> s, ok |-> r.ok, add |-> r.add, del |-> r.del, semi |-> r.semi]
        /\ UNCHANGED <<filter, operItem, oper>>

\* SetDelimiter does nothing to an operation without an item.
SetDelimiter(semi) ==
    /\ oper.item # 0
    /\ oper' = [oper EXCEPT !.semi = semi]
    /\ UNCHANGED <<filter, operItem, read>>

SetReadDelimiter(semi) ==
    /\ ItemsOf(read) # << >>
    /\ read' = [read EXCEPT !.semi = semi]
    /\ UNCHANGED <<filter, operItem, oper>>

MadeNext ==
    \/ \E a \in Attributes \cup {Unnamed, "nil"} :
          \/ \E v \in FilterValues \cup {NilFilter, InvalidFilter} : NewAttributeFilter(a, v)
          \/ \E f \in DOMAIN filter : SetAttribute(f, a)
    \/ \E v \in FilterValues \cup {NilFilter, InvalidFilter}, f \in DOMAIN filter : SetFilter(f, v)
    \/ NewAttributeFilterOperationItem
    \/ \E s \in ItemTexts : NewItemFromText(s)
    \/ \E i \in DOMAIN operItem : NewAttributeFilterOperation(i) \/ \E f \in DOMAIN filter : PushFilter(i, f)
    \/ \E semi \in BOOLEAN : SetDelimiter(semi)

ReadNext ==
    \/ \E s \in OperationTexts : NewOperationFromText(s)
    \/ \E semi \in BOOLEAN : SetReadDelimiter(semi)

AfoSpec == AfoInit /\ [][MadeNext \/ ReadNext]_afoVars

-----------------------------------------------------------------------------
(* Properties                                                              *)

\* What is written of an operation is accepted, as one that writes the same, exactly if
\* none of the filters it is cut at: no "&&" is in a value, and no delimiter in the
\* first part; every piece has an attribute to name and a filter that is valid, and the
\* last part has a piece.
Made == [add |-> IF operItem[oper.item].op = "add" THEN Item(oper.item) ELSE NilItem,
         del |-> IF operItem[oper.item].op = "add" THEN NilItem ELSE Item(oper.item), semi |-> oper.semi]

ReadsBackAsWritten(o) == LET r == OperationRead(OperationText(o)) IN r.ok /\ OperationText(r) = OperationText(o)

Kept(f) == ValidFilter(f) /\ f.attribute # Unnamed /\ f.value # InvalidFilter /\ ~Holds(f.value, {"&&"})
Readable(o) ==
    LET items == ItemsOf(o)
    IN  /\ \A k \in DOMAIN items : \A f \in Range(items[k].slice) : Kept(f)
        /\ \A f \in Range(items[1].slice) : ~Holds(f.value, Delimiters)
        /\ Last(items).slice # << >>

OperationsReadBack ==
    /\ oper.item # 0 => (ReadsBackAsWritten(Made) <=> Readable(Made))
    /\ ItemsOf(read) # << >> => (ReadsBackAsWritten(read) <=> Readable(read))

\* "Scan final result for conflicts": a text with one is refused.
ConflictsAreRefused == read.ok => ~Conflicts(read.text)
=============================================================================
