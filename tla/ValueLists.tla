------------------------------ MODULE ValueLists ------------------------------
(***************************************************************************)
(* The lists of values a target rule item may have (aci/aci.go): the       *)
(* distinguished names of target, target_to and target_from (those of      *)
(* userdn, groupdn and roledn are such lists too), the object identifiers  *)
(* of targetcontrol and extop, the attributes of targetattr.               *)
(*                                                                         *)
(* A list is a pointer. Eq and Ne of names and identifiers make an item    *)
(* with a list of its own, those of attributes one that shares the list;   *)
(* SetExpression shares any.  A text is a list of tokens: a name has its   *)
(* prefix and a word in it, blanks are left out.                           *)
(***************************************************************************)
EXTENDS Naturals, Sequences, SequencesExt, Cuts

CONSTANTS
    Lists,          \* the lists a program may make
    ListTexts,      \* the texts given to Push of each kind of list
    MaxValues       \* bound: how many values a list may have

Kinds == {"dn", "oid", "attr"}
None  == "none"

ASSUME ListsAssumption == None \notin Lists
ASSUME ListTextsAssumption == \A kind \in Kinds : \A s \in ListTexts[kind] : s \in Seq(Range(s))

VARIABLES
    list,       \* the lists: kind, none before it is made, the values, and whether "*" was pushed
    merged,     \* history: the lists another list, or the list itself, was pushed to
    target      \* a target rule item: its expression, a list shared or its own, and its style

listVars == <<list, merged, target>>

NoList == [kind |-> None, all |-> FALSE, slice |-> << >>]
Empty(kind) == [NoList EXCEPT !.kind = kind]

-----------------------------------------------------------------------------
(* Values                                                                  *)

Prefix   == "ldap:///"
Specials == {<<Prefix, "anyone">>, <<Prefix, "all">>}
Names    == {"cn=a", "CN=A", "cn=b"}    \* with an equals sign
OIDs     == {"1.2.3", "2.5.4"}          \* with two dots or more
Words    == {"cn", "sn", "1.2.3", "2.5.4"}  \* what isAttribute accepts

Lower(c) == CASE c = "CN=A" -> "cn=a" [] c = "LDAP:///" -> Prefix [] c = "ALL" -> "all" [] OTHER -> c
Fold(s)  == [i \in DOMAIN s |-> Lower(s[i])]

\* aCIDistinguishedName.push: what it accepts, and what it makes of it.
IsName(s)   == Range(s) \cap Names # {} \/ Fold(s) \in Specials
Prefixed(s) == IF s # << >> /\ s[1] = Prefix THEN s ELSE <<Prefix>> \o s

\* isObjectIdentifier: the last arc is not looked at, so that a word without a dot may follow.
IsOID(s) == s # << >> /\ s[1] \in OIDs /\ \A i \in 2..Len(s) : s[i] \notin OIDs

\* strInSlice of a name ignores case, contains of an identifier does not.
Among(kind, s, slice) == IF kind = "dn" THEN Fold(s) \in {Fold(v) : v \in Range(slice)} ELSE s \in Range(slice)

-----------------------------------------------------------------------------
(* Push                                                                    *)

\* The words between the delimiters.
Cut(s) == CutBy("||", s)
IsWord(s) == Len(s) = 1 /\ s[1] \in Words

\* Mutant: the name is looked for as it is given.
NamePushedEarly(slice, s) == IF IsName(s) /\ ~Among("dn", s, slice) THEN Append(slice, Prefixed(s)) ELSE slice

NamePushed(slice, s) == IF IsName(s) /\ ~Among("dn", Prefixed(s), slice) THEN Append(slice, Prefixed(s)) ELSE slice
OIDPushed(slice, s)  == IF IsOID(s) /\ ~Among("oid", s, slice) THEN Append(slice, s) ELSE slice

\* Attribute.push: "*" empties and closes the list; of other texts, the words before
\* the first that is refused.
AttributePushed(l, s) ==
    IF l.all THEN l
    ELSE IF s = <<"*">> THEN [l EXCEPT !.slice = << >>, !.all = TRUE]
    ELSE LET words == Cut(s)
             good  == {k \in 0..Len(words) : \A j \in 1..k : IsWord(words[j])}
         IN  [l EXCEPT !.slice = @ \o SubSeq(words, 1, CHOOSE k \in good : \A j \in good : j <= k)]

Pushed(l, s) == CASE l.kind = "dn"  -> [l EXCEPT !.slice = NamePushed(@, s)]
                  [] l.kind = "oid" -> [l EXCEPT !.slice = OIDPushed(@, s)]
                  [] OTHER          -> AttributePushed(l, s)

\* The errors of the constructors, which Push drops: there is none for an identifier.
Refused(l, s) == CASE l.kind = "dn"  -> ~IsName(s)
                   [] l.kind = "oid" -> FALSE
                   [] OTHER -> ~l.all /\ s # <<"*">> /\ \E k \in DOMAIN Cut(s) : ~IsWord(Cut(s)[k])

\* Texts pushed one after another: the list before the first, and after each.
PushedInTurn(l, texts) ==
    LET after[k \in 0..Len(texts)] == IF k = 0 THEN l ELSE Pushed(after[k - 1], texts[k])
    IN  after

\* A list pushed to a list: names one by one, identifiers as they are; Push of
\* attributes ignores one.
Merged(l, m) == CASE l.kind = "dn"  -> PushedInTurn(l, m.slice)[Len(m.slice)]
                  [] l.kind = "oid" -> [l EXCEPT !.slice = @ \o m.slice]
                  [] OTHER          -> l

-----------------------------------------------------------------------------
(* A target rule item                                                      *)

Expression(i) == IF i.of # None THEN list[i.of] ELSE i.own

\* newACIv3TargetRuleItem, of a list: a new list it is pushed to, or the list itself.
Copied(l) == IF l.kind = "oid" THEN l ELSE Merged(Empty(l.kind), l)

Owned(kind) == kind # "attr"

\* TargetRuleItem.String: the tokens of its values, of which each is a text. The style
\* is that of names and identifiers; an empty list of those is written as "".
Values(l, mvq) ==
    CASE l.all                                          -> <<<<"*">>>>
      [] ~l.all /\ l.kind = "attr" /\ l.slice = << >>   -> <<<<"<invalid_attribute_type>">>>>
      [] ~l.all /\ l.kind # "attr" /\ mvq /\ l.slice # << >> -> l.slice
      [] OTHER                                          -> <<Joined("||", l.slice)>>

\* Mutant: the values are joined, as when they are written between two quotes.
ReadByRuleJoined(kind, values) ==
    [list |-> Pushed(Empty(kind), Joined("||", values)), ok |-> ~Refused(Empty(kind), Joined("||", values))]

\* TargetRule.parse gives all the values to the constructor, which stops at the first
\* that is refused.
ReadByRule(kind, values) ==
    LET after == PushedInTurn(Empty(kind), values)
    IN  [list |-> after[Len(values)], ok |-> \A k \in DOMAIN values : ~Refused(after[k - 1], values[k])]

\* TargetRuleItem.parse wants the closing parenthesis after one value.
ReadByItem(kind, values) == [ReadByRule(kind, values) EXCEPT !.ok = @ /\ Len(values) = 1]

-----------------------------------------------------------------------------
(* Operations                                                              *)

Within(l) == Len(l.slice) <= MaxValues

ListsInit == /\ list = [l \in Lists |-> NoList] /\ merged = {}
             /\ target = [of |-> None, own |-> NoList, mvq |-> FALSE]

\* The constructors, of nothing; of texts, they push them.
NewList(l, kind) ==
    /\ list[l].kind = None
    /\ list' = [list EXCEPT ![l] = Empty(kind)]
    /\ UNCHANGED <<merged, target>>

Push(l, s) ==
    /\ list[l].kind # None /\ Within(Pushed(list[l], s))
    /\ list' = [list EXCEPT ![l] = Pushed(@, s)]
    /\ UNCHANGED <<merged, target>>

PushList(l, m) ==
    /\ list[l].kind # None /\ list[m].kind = list[l].kind /\ Within(Merged(list[l], list[m]))
    /\ list' = [list EXCEPT ![l] = Merged(@, list[m])]
    /\ merged' = merged \cup {l}
    /\ UNCHANGED target

\* Eq and Ne. Names and attributes want a value, and "*" is none.
NewRuleItem(l) ==
    /\ list[l].kind # None
    /\ list[l].kind # "oid" => list[l].slice # << >>
    /\ target' = IF Owned(list[l].kind) THEN [of |-> None, own |-> Copied(list[l]), mvq |-> FALSE]
               ELSE [of |-> l, own |-> NoList, mvq |-> FALSE]
    /\ UNCHANGED <<list, merged>>

\* SetExpression, of a list of the kind its keyword wants.
ShareList(l) ==
    /\ Expression(target).kind # None /\ list[l].kind = Expression(target).kind
    /\ target' = [target EXCEPT !.of = l, !.own = NoList]
    /\ UNCHANGED <<list, merged>>

SetQuotationStyle(mvq) ==
    /\ Expression(target).kind # None
    /\ target' = [target EXCEPT !.mvq = mvq]
    /\ UNCHANGED <<list, merged>>

ListsNext ==
    \/ \E l \in Lists : \E kind \in Kinds : NewList(l, kind)
    \/ \E l \in Lists : list[l].kind # None /\ \E s \in ListTexts[list[l].kind] : Push(l, s)
    \/ \E l, m \in Lists : PushList(l, m)
    \/ \E l \in Lists : NewRuleItem(l) \/ ShareList(l)
    \/ \E mvq \in BOOLEAN : SetQuotationStyle(mvq)

ListsSpec == ListsInit /\ [][ListsNext]_listVars

-----------------------------------------------------------------------------
(* Properties                                                              *)

\* The same name, in any case, is never twice in a list, however it was written and
\* whichever lists were pushed to it; an identifier only where a list was pushed, and a
\* list that "*" closed is empty.
Distinct(l) == \A j, k \in DOMAIN l.slice : j # k => ~Among(l.kind, l.slice[j], <<l.slice[k]>>)
NoRepeats ==
    \A l \in Lists : /\ list[l].kind = "dn" \/ (list[l].kind = "oid" /\ l \notin merged) => Distinct(list[l])
                     /\ list[l].all => list[l].slice = << >>

\* What a rule reads of an item is the list the item has, for attributes always; for
\* names and identifiers if there is one value or they are quoted one by one, none is
\* there twice, and no name is a special one whose prefix was put in front of another.
\* Between two quotes, identifiers are no list at all, and names are one name written the
\* same, or refused if none has an equals sign.  An item by itself is read with one value.
QuotedReadsBack ==
    LET l      == Expression(target)
        values == Values(l, target.mvq)
        read   == ReadByRule(l.kind, values)
        same   == read.ok /\ read.list = l
        named  == \E v \in Range(l.slice) : Range(v) \cap Names # {}
    IN  l.kind # None =>
          /\ ReadByItem(l.kind, values).ok <=> read.ok /\ Len(values) = 1
          /\ l.slice = << >> => (same <=> l.all \/ l.kind = "oid")
          /\ l.slice # << >> /\ l.kind = "attr" => same
          /\ l.slice # << >> /\ l.kind # "attr" /\ (target.mvq \/ Len(l.slice) = 1) =>
               (same <=> Distinct(l) /\ (l.kind = "dn" => \A v \in Range(l.slice) : IsName(v)))
          /\ Len(l.slice) > 1 /\ ~target.mvq =>
               /\ l.kind = "oid" => read.ok /\ read.list = Empty("oid")
               /\ l.kind = "dn"  => (read.ok <=> named) /\ (named => Values(read.list, FALSE) = values)
=============================================================================
