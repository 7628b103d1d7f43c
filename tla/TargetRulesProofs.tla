-------------------------- MODULE TargetRulesProofs --------------------------
(***************************************************************************)
(* Proofs about TargetRules, for any number of items and keywords and any  *)
(* limit.  WithinLimit is inductive by itself once the types are known;    *)
(* the two action properties need it, because an item the rule holds must  *)
(* not be made anew.  Then two about ValueLists, for any number of lists   *)
(* of any length and any texts pushed to them: none has a name twice, and  *)
(* what is written of them is read back as QuotedReadsBack says.  The last *)
(* is about AttributeFilterOperations: an operation's text is read back    *)
(* exactly if it is cut where its pieces and items meet.                   *)
(***************************************************************************)
EXTENDS TargetRules, ValueLists, AttributeFilterOperations, SequenceLemmas

IInv == TypeOK /\ WithinLimit

-----------------------------------------------------------------------------
LEMMA HoldingIsCell ==
    ASSUME NEW kw \in Keywords \cup {NoKw}, NEW op \in BOOLEAN, NEW ex \in BOOLEAN
    PROVE  /\ Holding(kw, op, ex) \in Cells
           /\ Holding(kw, op, ex).kw = kw /\ Holding(kw, op, ex).op = op
           /\ Holding(kw, op, ex).ex = ex /\ Holding(kw, op, ex).live
BY DEF Holding, Cells

LEMMA NoTextIsText == NoText \in Texts
BY DEF NoText, Texts

\* Appending an item to the slice.
LEMMA AppendItem ==
    ASSUME TypeOK, NEW i \in Items
    PROVE  /\ Append(slice, i) \in Seq(Items)
           /\ Len(Append(slice, i)) = Len(slice) + 1
           /\ Range(Append(slice, i)) = Held \cup {i}
           /\ DOMAIN Append(slice, i) = 1..(Len(slice) + 1)
           /\ DOMAIN slice = 1..Len(slice) /\ Len(slice) \in Nat
           /\ \A a \in DOMAIN slice : Append(slice, i)[a] = slice[a]
           /\ Append(slice, i)[Len(slice) + 1] = i
<1>. DEFINE s == Append(slice, i)
<1>1. slice \in Seq(Items)
    BY DEF TypeOK
<1>2. /\ s \in Seq(Items) /\ Len(s) = Len(slice) + 1 /\ Len(slice) \in Nat
      /\ \A a \in 1..Len(slice) : s[a] = slice[a]
      /\ s[Len(slice) + 1] = i
    BY <1>1
<1>3. DOMAIN s = 1..(Len(slice) + 1) /\ DOMAIN slice = 1..Len(slice)
    BY <1>1, <1>2, LenProperties
<1>. HIDE DEF s
<1>4. Range(s) = Held \cup {i}
    BY <1>2, <1>3 DEF Range, Held
<1>. QED BY <1>2, <1>3, <1>4 DEF s

LEMMA HeldItems ==
    ASSUME TypeOK
    PROVE  Held \subseteq Items
BY LenProperties, ElementOfSeq DEF TypeOK, Held, Range

-----------------------------------------------------------------------------
(* The invariant                                                           *)

LEMMA InitIInv == Init => IInv
<1>. SUFFICES ASSUME Init PROVE IInv
    OBVIOUS
<1>1. Free \in Cells
    BY DEF Free, Cells
<1>2. slice \in Seq(Items) /\ Len(slice) = 0
    BY DEF Init
<1>3. TypeOK
    BY <1>1, <1>2, NoTextIsText DEF Init, TypeOK
<1>4. Held = {}
    BY <1>2, LenProperties DEF Held, Range
<1>5. WithinLimit
    BY <1>2, <1>4, MaxItemsAssumption DEF WithinLimit
<1>. QED BY <1>3, <1>5 DEF IInv

\* The constructor and the setters: one item gets new contents.
LEMMA HeapStep ==
    ASSUME IInv, NEW i \in Items, NEW kw \in Keywords \cup {NoKw}, NEW op \in BOOLEAN, NEW ex \in BOOLEAN,
           item' = [item EXCEPT ![i] = Holding(kw, op, ex)], UNCHANGED <<slice, mode, text>>
    PROVE  IInv'
<1>1. item \in [Items -> Cells] /\ Held \subseteq Items
    BY HeldItems DEF IInv, TypeOK
<1>2. item' \in [Items -> Cells]
    BY <1>1, HoldingIsCell
<1>3. TypeOK'
    BY <1>2 DEF IInv, TypeOK
<1>4. \A j \in Held : item'[j].live
    BY <1>1, HoldingIsCell DEF IInv, WithinLimit
<1>5. WithinLimit'
    BY <1>4 DEF IInv, WithinLimit, Held
<1>. QED BY <1>3, <1>5 DEF IInv

\* A push: an item, made before or now, is appended where there is room.
LEMMA GrowStep ==
    ASSUME IInv, NEW i \in Items, Room, slice' = Append(slice, i),
           item' \in [Items -> Cells], \A j \in Held \cup {i} : item'[j].live,
           mode' \in {"push", "head"}, text' \in Texts
    PROVE  IInv'
<1>1. slice' \in Seq(Items) /\ Len(slice') = Len(slice) + 1 /\ Range(slice') = Held \cup {i} /\ Len(slice) \in Nat
    BY AppendItem DEF IInv
<1>2. TypeOK'
    BY <1>1 DEF TypeOK
<1>3. Len(slice') <= MaxItems
    BY <1>1, MaxItemsAssumption DEF Room
<1>4. WithinLimit'
    BY <1>1, <1>3 DEF WithinLimit, Held
<1>. QED BY <1>2, <1>4 DEF IInv

\* A step of Push or of the parser that appends nothing.
LEMMA TextStep ==
    ASSUME IInv, UNCHANGED <<item, slice>>, text' \in Texts,
           mode' \in {"idle", "push", "head", "scan", "stuck", "panic"}
    PROVE  IInv'
BY DEF IInv, TypeOK, WithinLimit, Held

LEMMA HeadTokenText ==
    ASSUME TypeOK, NEW fits \in BOOLEAN, NEW kw \in Keywords \cup {NoKw}, HeadToken(fits, kw)
    PROVE  text' \in Texts
<1>. DEFINE r == text.read + 1
            f == text.fits /\ fits
            k == IF text.read = 1 THEN kw ELSE text.kw
<1>1. text \in Texts /\ text.read \in 0..3 /\ text.read < 3
    BY DEF TypeOK, Texts, HeadToken
<1>2. r \in 0..3
    BY <1>1
<1>3. f \in BOOLEAN
    OBVIOUS
<1>4. text.kw \in Keywords \cup {NoKw}
    BY <1>1 DEF Texts
<1>5. k \in Keywords \cup {NoKw}
    BY <1>4
<1>6. text' = [text EXCEPT !.read = r, !.fits = f, !.kw = k]
    BY DEF HeadToken
<1>. HIDE DEF r, f, k
<1>. QED BY <1>1, <1>2, <1>3, <1>5, <1>6 DEF Texts

LEMMA ScanTokenText ==
    ASSUME TypeOK, NEW value \in BOOLEAN, ScanToken(value)
    PROVE  text' \in Texts
<1>. DEFINE o == IF text.owed = 0 THEN 0 ELSE text.owed - 1
            v == text.vals \/ value
<1>1. text \in Texts /\ text.owed \in 0..2
    BY DEF TypeOK, Texts
<1>2. o \in 0..2
    BY <1>1
<1>3. v \in BOOLEAN
    OBVIOUS
<1>4. text' = [text EXCEPT !.vals = v, !.owed = o]
    BY DEF ScanToken
<1>. HIDE DEF o, v
<1>. QED BY <1>1, <1>2, <1>3, <1>4 DEF Texts

LEMMA NextIInv == IInv /\ [Next]_vars => IInv'
<1>. SUFFICES ASSUME IInv, [Next]_vars PROVE IInv'
    OBVIOUS
<1>1. ASSUME NEW i \in Items, NEW kw \in Keywords \cup {NoKw}, NEW op \in BOOLEAN, NEW ex \in BOOLEAN,
             NewTargetRuleItem(i, kw, op, ex)
      PROVE  IInv'
    BY <1>1, HeapStep DEF NewTargetRuleItem
<1>2. ASSUME NEW i \in Items PROVE item[i].op \in BOOLEAN /\ item[i].ex \in BOOLEAN /\ item[i].kw \in Keywords \cup {NoKw}
    BY DEF IInv, TypeOK, Cells
<1>3. ASSUME NEW i \in Items, NEW kw \in Keywords \cup {NoKw}, SetKeyword(i, kw) PROVE IInv'
    BY <1>2, <1>3, HeapStep DEF SetKeyword
<1>4. ASSUME NEW i \in Items, SetOperator(i) PROVE IInv'
    BY <1>2, <1>4, HeapStep DEF SetOperator
<1>5. ASSUME NEW i \in Items, NEW ex \in BOOLEAN, SetExpression(i, ex) PROVE IInv'
    BY <1>2, <1>5, HeapStep DEF SetExpression
<1>6. ASSUME NEW i \in Items, PushItem(i) PROVE IInv'
    <2>1. CASE slice' = slice
        BY <1>6, <2>1, TextStep DEF PushItem, IInv, TypeOK
    <2>2. CASE slice' = Append(slice, i)
        <3>1. \A j \in Held \cup {i} : item'[j].live
            BY <1>6 DEF PushItem, IInv, WithinLimit
        <3>2. item' \in [Items -> Cells] /\ Room /\ mode' \in {"push", "head"} /\ text' \in Texts
            BY <1>6 DEF PushItem, IInv, TypeOK
        <3>. QED BY <2>2, <3>1, <3>2, GrowStep
    <2>. QED BY <1>6, <2>1, <2>2 DEF PushItem
<1>7. ASSUME NEW i \in Items, CloseItem(i) PROVE IInv'
    <2>1. CASE UNCHANGED <<slice, item>>
        BY <1>7, <2>1, TextStep, NoTextIsText DEF CloseItem
    <2>2. CASE /\ Room
               /\ slice' = Append(slice, i)
               /\ item' = [item EXCEPT ![i] = Holding(text.kw, TRUE, TRUE)]
        <3>1. item \in [Items -> Cells] /\ Held \subseteq Items /\ text.kw \in Keywords
            BY <1>7, HeldItems DEF IInv, TypeOK, CloseItem, Acceptable
        <3>2. item' \in [Items -> Cells] /\ item'[i].live
            BY <2>2, <3>1, HoldingIsCell
        <3>3. \A j \in Held \cup {i} : item'[j].live
            BY <2>2, <3>1, <3>2 DEF IInv, WithinLimit
        <3>4. mode' \in {"push", "head"} /\ text' \in Texts
            BY <1>7, NoTextIsText DEF CloseItem
        <3>. QED BY <2>2, <3>2, <3>3, <3>4, GrowStep
    <2>. QED BY <1>7, <2>1, <2>2 DEF CloseItem
<1>8. ASSUME NEW fits \in BOOLEAN, NEW kw \in Keywords \cup {NoKw}, HeadToken(fits, kw) PROVE IInv'
    <2>1. text' \in Texts
        BY <1>8, HeadTokenText DEF IInv
    <2>. QED BY <1>8, <2>1, TextStep DEF HeadToken, IInv, TypeOK
<1>9. ASSUME NEW value \in BOOLEAN, ScanToken(value) PROVE IInv'
    <2>1. text' \in Texts
        BY <1>9, ScanTokenText DEF IInv
    <2>. QED BY <1>9, <2>1, TextStep DEF ScanToken, IInv, TypeOK
<1>10. CASE TextGoesOn
    <2>1. text' \in Texts
        BY <1>10 DEF TextGoesOn, IInv, TypeOK, Texts
    <2>. QED BY <1>10, <2>1, TextStep DEF TextGoesOn
<1>11. CASE PushStart \/ PushText \/ PushEnd \/ TextTooShort \/ RefuseItem \/ TextUnclosed
    BY <1>11, TextStep, NoTextIsText
       DEF PushStart, PushText, PushEnd, TextTooShort, RefuseItem, TextUnclosed, IInv, TypeOK
<1>12. CASE UNCHANGED vars
    BY <1>12 DEF vars, IInv, TypeOK, WithinLimit, Held
<1>. QED BY <1>1, <1>3, <1>4, <1>5, <1>6, <1>7, <1>8, <1>9, <1>10, <1>11, <1>12 DEF Next

\* A rule never has more than nine items, whatever items and texts are pushed to it.
THEOREM LimitHolds == Spec => [](TypeOK /\ WithinLimit)
BY InitIInv, NextIInv, PTL DEF Spec, IInv

-----------------------------------------------------------------------------
(* What a step does to the rule: it keeps the items and what they hold, it *)
(* sets parts of one item, or it appends a valid item of a new keyword.    *)

Keeps == slice' = slice /\ \A j \in Held : item'[j] = item[j]

Sets ==
    /\ mode = "idle" /\ slice' = slice
    /\ \E i \in Items :
         /\ \A j \in Held \ {i} : item'[j] = item[j]
         /\ item'[i].live
         /\ \/ item'[i].op = item[i].op
            \/ item'[i].op /\ item'[i].kw = item[i].kw /\ item'[i].ex = item[i].ex

Grows ==
    \E i \in Items :
       /\ slice' = Append(slice, i)
       /\ \A j \in Held : item'[j] = item[j]
       /\ ~HasKeyword(item'[i].kw)
       /\ item'[i].live /\ item'[i].kw # NoKw /\ item'[i].op /\ item'[i].ex

\* Setting the parts of one item.
LEMMA SetsItem ==
    ASSUME IInv, mode = "idle", UNCHANGED slice, NEW i \in Items,
           NEW kw \in Keywords \cup {NoKw}, NEW op \in BOOLEAN, NEW ex \in BOOLEAN,
           item' = [item EXCEPT ![i] = Holding(kw, op, ex)],
           op = item[i].op \/ (op /\ kw = item[i].kw /\ ex = item[i].ex)
    PROVE  Sets
<1>1. item \in [Items -> Cells] /\ Held \subseteq Items
    BY HeldItems DEF IInv, TypeOK
<1>2. \A j \in Held \ {i} : item'[j] = item[j]
    BY <1>1
<1>3. item'[i] = Holding(kw, op, ex)
    BY <1>1
<1>. QED BY <1>2, <1>3, HoldingIsCell DEF Sets

LEMMA StepKinds ==
    ASSUME IInv, [Next]_vars
    PROVE  Keeps \/ Sets \/ Grows
<1>0. /\ item \in [Items -> Cells] /\ Held \subseteq Items
      /\ \A j \in Held : item[j].live
      /\ \A i \in Items : item[i].kw \in Keywords \cup {NoKw} /\ item[i].op \in BOOLEAN /\ item[i].ex \in BOOLEAN
    BY HeldItems DEF IInv, TypeOK, WithinLimit, Cells
<1>1. ASSUME NEW i \in Items, NEW kw \in Keywords \cup {NoKw}, NEW op \in BOOLEAN, NEW ex \in BOOLEAN,
             NewTargetRuleItem(i, kw, op, ex)
      PROVE  Keeps
    BY <1>0, <1>1 DEF NewTargetRuleItem, Keeps
<1>2. ASSUME NEW i \in Items, NEW kw \in Keywords \cup {NoKw}, SetKeyword(i, kw) PROVE Sets
    BY <1>0, <1>2, SetsItem DEF SetKeyword
<1>3. ASSUME NEW i \in Items, SetOperator(i) PROVE Sets
    BY <1>0, <1>3, SetsItem DEF SetOperator
<1>4. ASSUME NEW i \in Items, NEW ex \in BOOLEAN, SetExpression(i, ex) PROVE Sets
    BY <1>0, <1>4, SetsItem DEF SetExpression
<1>5. ASSUME NEW i \in Items, PushItem(i) PROVE Keeps \/ Grows
    BY <1>5 DEF PushItem, ValidItem, Keeps, Grows
<1>6. ASSUME NEW i \in Items, CloseItem(i) PROVE Keeps \/ Grows
    <2>1. CASE UNCHANGED <<slice, item>>
        BY <2>1 DEF Keeps
    <2>2. CASE /\ ~HasKeyword(text.kw)
               /\ slice' = Append(slice, i)
               /\ item' = [item EXCEPT ![i] = Holding(text.kw, TRUE, TRUE)]
        <3>1. item'[i] = Holding(text.kw, TRUE, TRUE) /\ \A j \in Held : item'[j] = item[j]
            BY <1>0, <1>6, <2>2 DEF CloseItem
        <3>2. text.kw \in Keywords \cup {NoKw} /\ text.kw # NoKw
            BY <1>6, KeywordsAssumption DEF CloseItem, Acceptable
        <3>3. /\ item'[i].kw = text.kw /\ item'[i].op = TRUE /\ item'[i].ex = TRUE /\ item'[i].live
            BY <3>1, <3>2, HoldingIsCell
        <3>. QED BY <2>2, <3>1, <3>2, <3>3 DEF Grows
    <2>. QED BY <1>6, <2>1, <2>2 DEF CloseItem
<1>7. CASE UNCHANGED <<item, slice>>
    BY <1>7 DEF Keeps
<1>. QED BY <1>1, <1>2, <1>3, <1>4, <1>5, <1>6, <1>7
         DEF Next, vars, PushStart, PushText, PushEnd, HeadToken, ScanToken, TextTooShort, TextGoesOn,
             RefuseItem, TextUnclosed

(* The action properties                                                   *)

\* A step that keeps the keywords of the items held keeps them distinct.
LEMMA KeywordsKept ==
    ASSUME IInv, DistinctKeywords, slice' = slice, \A i \in Held : item'[i].kw = item[i].kw
    PROVE  DistinctKeywords'
<1>1. \A a \in DOMAIN slice : slice[a] \in Held
    BY DEF Held, Range
<1>. QED BY <1>1 DEF DistinctKeywords

\* So does one that appends an item of a keyword that none has.
LEMMA NewKeyword ==
    ASSUME IInv, DistinctKeywords, NEW i \in Items, slice' = Append(slice, i),
           \A j \in Held : item'[j].kw = item[j].kw, ~HasKeyword(item'[i].kw)
    PROVE  DistinctKeywords'
<1>1. slice \in Seq(Items)
    BY DEF IInv, TypeOK
<1>2. /\ DOMAIN slice = 1..Len(slice) /\ DOMAIN slice' = 1..(Len(slice) + 1) /\ Len(slice) \in Nat
      /\ slice'[Len(slice) + 1] = i
      /\ \A a \in DOMAIN slice : slice'[a] = slice[a]
    BY <1>1
<1>3. \A a \in DOMAIN slice : slice[a] \in Held
    BY DEF Held, Range
<1>4. \A a \in DOMAIN slice : item'[slice'[a]].kw = item[slice[a]].kw /\ item[slice[a]].kw # item'[i].kw
    BY <1>2, <1>3 DEF HasKeyword
<1>5. ASSUME NEW a \in DOMAIN slice', NEW b \in DOMAIN slice', item'[slice'[a]].kw = item'[slice'[b]].kw
      PROVE  a = b
    <2>1. CASE a \in DOMAIN slice /\ b \in DOMAIN slice
        BY <1>4, <1>5, <2>1 DEF DistinctKeywords
    <2>2. CASE a = Len(slice) + 1 /\ b \in DOMAIN slice
        BY <1>2, <1>4, <1>5, <2>2
    <2>3. CASE b = Len(slice) + 1 /\ a \in DOMAIN slice
        BY <1>2, <1>4, <1>5, <2>3
    <2>4. CASE a = Len(slice) + 1 /\ b = Len(slice) + 1
        BY <2>4
    <2>. QED BY <1>2, <2>1, <2>2, <2>3, <2>4
<1>. QED BY <1>5 DEF DistinctKeywords

LEMMA DuplicateStep ==
    ASSUME IInv, [Next]_vars, DistinctKeywords, ~DistinctKeywords'
    PROVE  mode = "idle" /\ \E i \in Held : item'[i].kw # item[i].kw
<1>1. CASE Keeps
    BY <1>1, KeywordsKept DEF Keeps
<1>2. CASE Sets
    BY <1>2, KeywordsKept DEF Sets
<1>3. CASE Grows
    BY <1>3, NewKeyword DEF Grows
<1>. QED BY <1>1, <1>2, <1>3, StepKinds

LEMMA ValidityStep ==
    ASSUME IInv, [Next]_vars, Valid, ~Valid'
    PROVE  /\ slice' = slice
           /\ \E i \in Held : item'[i].op = item[i].op /\ (item'[i].kw = NoKw \/ ~item'[i].ex)
<1>1. CASE Keeps
    BY <1>1 DEF Keeps, Valid, ValidItem, Held
<1>2. CASE Sets
    <2>1. PICK i \in Items :
            /\ \A j \in Held \ {i} : item'[j] = item[j]
            /\ item'[i].live
            /\ \/ item'[i].op = item[i].op
               \/ item'[i].op /\ item'[i].kw = item[i].kw /\ item'[i].ex = item[i].ex
        BY <1>2 DEF Sets
    <2>2. slice' = slice /\ i \in Held /\ ~(item'[i].live /\ item'[i].kw # NoKw /\ item'[i].op /\ item'[i].ex)
        BY <1>2, <2>1 DEF Sets, Valid, ValidItem, Held
    <2>3. item[i].kw # NoKw /\ item[i].op /\ item[i].ex
        BY <2>2 DEF Valid, ValidItem
    <2>. QED BY <2>1, <2>2, <2>3
<1>3. CASE Grows
    <2>1. PICK i \in Items :
            /\ slice' = Append(slice, i)
            /\ \A j \in Held : item'[j] = item[j]
            /\ item'[i].live /\ item'[i].kw # NoKw /\ item'[i].op /\ item'[i].ex
        BY <1>3 DEF Grows
    <2>2. Held' = Held \cup {i}
        BY <2>1, AppendItem DEF IInv, Held
    <2>. QED BY <2>1, <2>2 DEF Valid, ValidItem
<1>. QED BY <1>1, <1>2, <1>3, StepKinds

LEMMA AppendStep ==
    ASSUME IInv, [Next]_vars
    PROVE  IsPrefix(slice, slice')
<1>1. slice \in Seq(Items)
    BY DEF IInv, TypeOK
<1>2. CASE slice' = slice
    BY <1>1, <1>2, LenProperties, SeqDef DEF IsPrefix
<1>3. CASE \E i \in Items : slice' = Append(slice, i)
    BY <1>1, <1>3 DEF IsPrefix
<1>. QED BY <1>2, <1>3, StepKinds DEF Keeps, Sets, Grows

LEMMA InvariantHolds == Spec => []IInv
BY InitIInv, NextIInv, PTL DEF Spec

\* No Push, of items or of texts, gives a rule two items of one keyword: a setter
\* called on an item the rule holds does.
THEOREM DuplicatesOnlyFromSetters == Spec => DuplicatesComeFromSetKeyword
<1>1. IInv /\ [Next]_vars =>
        [DistinctKeywords /\ ~DistinctKeywords' => mode = "idle" /\ \E i \in Held : item'[i].kw # item[i].kw]_vars
    BY DuplicateStep
<1>. QED BY <1>1, InvariantHolds, PTL DEF Spec, DuplicatesComeFromSetKeyword

\* A valid rule becomes invalid only when a setter takes the keyword or the expression
\* of an item it holds.
THEOREM ValidityKept == Spec => ValidityIsLostFor
<1>1. IInv /\ [Next]_vars =>
        [Valid /\ ~Valid' => /\ slice' = slice
                            /\ \E i \in Held : item'[i].op = item[i].op
                                              /\ (item'[i].kw = NoKw \/ ~item'[i].ex)]_vars
    BY ValidityStep
<1>. QED BY <1>1, InvariantHolds, PTL DEF Spec, ValidityIsLostFor

\* Every step leaves what was pushed where it is.
THEOREM NothingMoves == Spec => AppendOnly
<1>1. IInv /\ [Next]_vars => [IsPrefix(slice, slice')]_vars
    BY AppendStep
<1>. QED BY <1>1, InvariantHolds, PTL DEF Spec, AppendOnly

-----------------------------------------------------------------------------
(* ValueLists: values pushed one after another                             *)

NoTwice(kind, s) == \A j, k \in DOMAIN s : j # k => ~Among(kind, s[j], <<s[k]>>)

\* A value is among those of a list if it is, but for the case of a name, one of them.
LEMMA AmongOne ==
    ASSUME NEW kind, NEW s, NEW v
    PROVE  /\ Among(kind, v, s) <=> \E k \in DOMAIN s : Among(kind, v, <<s[k]>>)
           /\ \A w : Among(kind, v, <<w>>) <=> Among(kind, w, <<v>>)
<1>1. \A w : Range(<<w>>) = {w}
    BY SingletonAny DEF Range
<1>2. \A w : Among(kind, v, <<w>>) <=> IF kind = "dn" THEN Fold(v) = Fold(w) ELSE v = w
    BY <1>1 DEF Among
<1>3. \A w : Among(kind, w, <<v>>) <=> IF kind = "dn" THEN Fold(v) = Fold(w) ELSE v = w
    BY <1>1 DEF Among
<1>4. Range(s) = {s[k] : k \in DOMAIN s}
    BY DEF Range
<1>. QED BY <1>2, <1>3, <1>4 DEF Among

\* A value that is not among those of a list is pushed to it.
LEMMA AppendKeeps ==
    ASSUME NEW kind, NEW s, s \in Seq(Range(s)), NoTwice(kind, s), NEW v, ~Among(kind, v, s)
    PROVE  Append(s, v) \in Seq(Range(Append(s, v))) /\ NoTwice(kind, Append(s, v))
<1>. DEFINE t == Append(s, v)
<1>1. /\ t \in Seq(Range(t)) /\ DOMAIN t = 1..(Len(s) + 1) /\ t[Len(s) + 1] = v
      /\ \A i \in 1..Len(s) : t[i] = s[i]
      /\ Len(s) \in Nat /\ DOMAIN s = 1..Len(s)
    BY AppendAny, LenProperties
<1>. HIDE DEF t
<1>2. \A i \in DOMAIN s : ~Among(kind, v, <<s[i]>>) /\ ~Among(kind, s[i], <<v>>)
    BY AmongOne
<1>3. ASSUME NEW j \in DOMAIN t, NEW k \in DOMAIN t, j # k PROVE ~Among(kind, t[j], <<t[k]>>)
    <2>1. CASE j = Len(s) + 1
        <3>1. k \in DOMAIN s
            BY <1>1, <1>3, <2>1
        <3>. QED BY <1>1, <1>2, <2>1, <3>1
    <2>2. CASE k = Len(s) + 1
        <3>1. j \in DOMAIN s
            BY <1>1, <1>3, <2>2
        <3>. QED BY <1>1, <1>2, <2>2, <3>1
    <2>3. CASE j # Len(s) + 1 /\ k # Len(s) + 1
        <3>1. j \in DOMAIN s /\ k \in DOMAIN s
            BY <1>1, <2>3
        <3>. QED BY <1>1, <1>3, <3>1 DEF NoTwice
    <2>. QED BY <2>1, <2>2, <2>3
<1>. QED BY <1>1, <1>3 DEF NoTwice, t

Sound(kind, s) == s \in Seq(Range(s)) /\ NoTwice(kind, s)

LEMMA NamePushedKeeps ==
    ASSUME NEW s, Sound("dn", s), NEW v
    PROVE  Sound("dn", NamePushed(s, v))
BY AppendKeeps DEF NamePushed, Sound

-----------------------------------------------------------------------------
(* ValueLists: the invariant                                               *)

\* Names are never there twice; identifiers are not if no list was pushed.
GoodList(v, l, S) ==
    /\ v = [kind |-> v.kind, all |-> v.all, slice |-> v.slice]
    /\ v.kind \in {"dn", "oid"} => v.slice \in Seq(Range(v.slice))
    /\ v.kind = "dn" \/ (v.kind = "oid" /\ l \notin S) => NoTwice(v.kind, v.slice)
    /\ v.all => v.kind \notin {"dn", "oid"} /\ v.slice = << >>

ListsInv ==
    /\ list = [l \in Lists |-> list[l]]
    /\ \A l \in Lists : GoodList(list[l], l, merged)

LEMMA PushedKeeps ==
    ASSUME NEW v, NEW l, NEW S, GoodList(v, l, S), NEW s
    PROVE  GoodList(Pushed(v, s), l, S) /\ Pushed(v, s).kind = v.kind
<1>1. v = [kind |-> v.kind, all |-> v.all, slice |-> v.slice]
    BY DEF GoodList
<1>2. CASE v.kind = "dn"
    <2>. DEFINE t == NamePushed(v.slice, s)
    <2>1. Pushed(v, s) = [kind |-> "dn", all |-> v.all, slice |-> t]
        <3>1. Pushed(v, s) = [v EXCEPT !.slice = t]
            BY <1>2 DEF Pushed
        <3>. HIDE DEF t
        <3>. QED BY <1>1, <1>2, <3>1
    <2>2. Sound("dn", t)
        BY <1>2, NamePushedKeeps DEF GoodList, Sound
    <2>. HIDE DEF t
    <2>. QED BY <1>2, <2>1, <2>2 DEF GoodList, Sound
<1>3. CASE v.kind = "oid"
    <2>. DEFINE t == OIDPushed(v.slice, s)
    <2>1. Pushed(v, s) = [kind |-> "oid", all |-> v.all, slice |-> t]
        <3>1. Pushed(v, s) = [v EXCEPT !.slice = t]
            BY <1>3 DEF Pushed
        <3>. HIDE DEF t
        <3>. QED BY <1>1, <1>3, <3>1
    <2>2. t \in Seq(Range(t))
        BY <1>3, AppendAny DEF GoodList, OIDPushed
    <2>3. l \notin S => NoTwice("oid", t)
        BY <1>3, AppendKeeps DEF GoodList, OIDPushed
    <2>. HIDE DEF t
    <2>. QED BY <1>3, <2>1, <2>2, <2>3 DEF GoodList
<1>4. CASE v.kind \notin {"dn", "oid"}
    <2>1. Pushed(v, s) = AttributePushed(v, s)
        BY <1>4 DEF Pushed
    <2>2. CASE v.all
        BY <2>1, <2>2 DEF AttributePushed
    <2>3. CASE ~v.all /\ s = <<"*">>
        <3>1. Pushed(v, s) = [kind |-> v.kind, all |-> TRUE, slice |-> << >>]
            <4>1. Pushed(v, s) = [v EXCEPT !.slice = << >>, !.all = TRUE]
                BY <2>1, <2>3 DEF AttributePushed
            <4>. QED BY <1>1, <4>1
        <3>. QED BY <1>4, <3>1 DEF GoodList
    <2>4. CASE ~v.all /\ s # <<"*">>
        <3>1. PICK t : Pushed(v, s) = [v EXCEPT !.slice = t]
            BY <2>1, <2>4, Zenon DEF AttributePushed
        <3>2. Pushed(v, s) = [kind |-> v.kind, all |-> v.all, slice |-> t]
            BY <1>1, <3>1
        <3>. QED BY <1>4, <2>4, <3>2 DEF GoodList
    <2>. QED BY <2>2, <2>3, <2>4
<1>. QED BY <1>2, <1>3, <1>4

\* The lists that PushedInTurn makes, one for each of the first n texts.
Turns(v, texts, n, f) == f = [k \in 0..n |-> IF k = 0 THEN v ELSE Pushed(f[k - 1], texts[k])]

LEMMA TurnsExist ==
    ASSUME NEW v, NEW texts, NEW n \in Nat
    PROVE  \E f : Turns(v, texts, n, f)
<1>. SUFFICES ASSUME ~\E f : Turns(v, texts, n, f) PROVE FALSE
    OBVIOUS
<1>. DEFINE T == {m \in 1..(n + 1) : ~\E f : Turns(v, texts, m - 1, f)}
<1>1. n + 1 \in 1..(n + 1) /\ (n + 1) - 1 = n
    OBVIOUS
<1>2. T \subseteq 1..(n + 1) /\ T # {} /\ n + 1 \in Nat
    <2>1. ~\E f : Turns(v, texts, (n + 1) - 1, f)
        BY <1>1, Zenon
    <2>2. n + 1 \in T
        BY <1>1, <2>1
    <2>3. T \subseteq 1..(n + 1)
        BY Zenon
    <2>. HIDE DEF T
    <2>. QED BY <2>2, <2>3
<1>3. PICK m \in T : \A y \in T : m <= y
    <2>. HIDE DEF T
    <2>. QED BY <1>2, FirstPosition
<1>4. CASE m = 1
    <2>. DEFINE f == [k \in 0..0 |-> v]
    <2>1. f = [k \in 0..0 |-> IF k = 0 THEN v ELSE Pushed(f[k - 1], texts[k])]
        OBVIOUS
    <2>2. Turns(v, texts, m - 1, f)
        BY <1>4, <2>1 DEF Turns
    <2>. QED BY <2>2
<1>5. CASE m # 1
    <2>1. m \in 1..(n + 1) /\ m - 1 \in 1..(n + 1) /\ ~(m <= m - 1)
        BY <1>5
    <2>2. m - 1 \notin T
        BY <1>3, <2>1, Zenon
    <2>3. PICK g : Turns(v, texts, (m - 1) - 1, g)
        BY <2>1, <2>2
    <2>. DEFINE d == m - 1
                f == [k \in 0..d |-> IF k = d THEN Pushed(g[d - 1], texts[d]) ELSE g[k]]
    <2>4. d \in Nat /\ d >= 1
        BY <2>1
    <2>5. \A k \in 0..(d - 1) : g[k] = IF k = 0 THEN v ELSE Pushed(g[k - 1], texts[k])
        BY <2>3 DEF Turns
    <2>. HIDE DEF d
    <2>6. \A k \in 0..d : f[k] = IF k = d THEN Pushed(g[d - 1], texts[d]) ELSE g[k]
        OBVIOUS
    <2>7. f = [k \in 0..d |-> f[k]]
        OBVIOUS
    <2>. HIDE DEF f
    <2>8. ASSUME NEW k \in 0..d
          PROVE  f[k] = IF k = 0 THEN v ELSE Pushed(f[k - 1], texts[k])
        <3>1. k # 0 => f[k - 1] = g[k - 1]
            BY <2>4, <2>6
        <3>2. CASE k = d
            BY <2>4, <2>6, <3>1, <3>2
        <3>3. CASE k # d
            <4>1. k \in 0..(d - 1)
                BY <2>4, <3>3
            <4>. QED BY <2>5, <2>6, <3>1, <3>3, <4>1
        <3>. QED BY <3>2, <3>3
    <2>9. Turns(v, texts, d, f)
        BY <2>7, <2>8 DEF Turns
    <2>. QED BY <2>9 DEF d
<1>. QED BY <1>4, <1>5

LEMMA InTurn ==
    ASSUME NEW v, NEW texts, Len(texts) \in Nat, NEW f, f = PushedInTurn(v, texts)
    PROVE  f[0] = v /\ \A k \in 1..Len(texts) : f[k] = Pushed(f[k - 1], texts[k])
<1>. DEFINE n == Len(texts)
            g == CHOOSE g : Turns(v, texts, n, g)
<1>1. Turns(v, texts, n, g)
    BY TurnsExist
<1>2. f = g
    BY DEF PushedInTurn, Turns
<1>. HIDE DEF g, n
<1>3. \A k \in 0..n : f[k] = IF k = 0 THEN v ELSE Pushed(f[k - 1], texts[k])
    BY <1>1, <1>2 DEF Turns
<1>4. n \in Nat
    BY DEF n
<1>5. 0 \in 0..n /\ \A k \in 1..n : k \in 0..n /\ k # 0
    BY <1>4
<1>. QED BY <1>3, <1>5 DEF n

\* However many texts are pushed in turn, each leaves a list with nothing there twice.
LEMMA InTurnKeeps ==
    ASSUME NEW v, NEW l, NEW S, GoodList(v, l, S), NEW texts, Len(texts) \in Nat,
           NEW f, f = PushedInTurn(v, texts), NEW k \in 0..Len(texts)
    PROVE  GoodList(f[k], l, S) /\ f[k].kind = v.kind
<1>. DEFINE Fine(j) == GoodList(f[j], l, S) /\ f[j].kind = v.kind
            n == Len(texts)
            T == {j \in 1..n : ~Fine(j)}
<1>1. f[0] = v /\ \A j \in 1..n : f[j] = Pushed(f[j - 1], texts[j])
    BY InTurn
<1>2. Fine(0) /\ n \in Nat
    BY <1>1
<1>3. ASSUME T # {} PROVE FALSE
    <2>1. T \subseteq 1..n
        OBVIOUS
    <2>2. PICK m \in T : \A y \in T : m <= y
        <3>. HIDE DEF T
        <3>. QED BY <1>2, <1>3, <2>1, FirstPosition
    <2>3. m \in 1..n /\ ~Fine(m)
        OBVIOUS
    <2>4. Fine(m - 1)
        <3>1. m - 1 = 0 \/ (m - 1 \in 1..n /\ ~(m <= m - 1))
            BY <1>2, <2>3
        <3>2. ASSUME m - 1 \in 1..n, ~(m <= m - 1) PROVE Fine(m - 1)
            <4>1. m - 1 \notin T
                BY <2>2, <3>2, Zenon
            <4>. QED BY <3>2, <4>1
        <3>. HIDE DEF Fine
        <3>. QED BY <1>2, <3>1, <3>2
    <2>5. f[m] = Pushed(f[m - 1], texts[m])
        BY <1>1, <2>3
    <2>6. Fine(m)
        BY <2>4, <2>5, PushedKeeps
    <2>. QED BY <2>3, <2>6
<1>4. k = 0 \/ k \in 1..n
    BY <1>2
<1>5. \A j \in 1..n : Fine(j)
    <2>. HIDE DEF Fine
    <2>. QED BY <1>3, Zenon
<1>. QED BY <1>2, <1>4, <1>5

LEMMA ConcatAny ==
    ASSUME NEW s, s \in Seq(Range(s)), NEW t, t \in Seq(Range(t))
    PROVE  s \o t \in Seq(Range(s \o t))
<1>1. s \in Seq(Range(s) \cup Range(t)) /\ t \in Seq(Range(s) \cup Range(t))
    BY SeqMonotonic
<1>2. s \o t \in Seq(Range(s) \cup Range(t))
    BY <1>1, ConcatProperties
<1>. QED BY <1>2, SeqOfItsRange

LEMMA MergedKeeps ==
    ASSUME NEW v, NEW w, NEW l, NEW m, NEW S, NEW T,
           GoodList(v, l, S), GoodList(w, m, S), v.kind = w.kind, l \in T
    PROVE  GoodList(Merged(v, w), l, T) /\ Merged(v, w).kind = v.kind
<1>1. v = [kind |-> v.kind, all |-> v.all, slice |-> v.slice]
    BY DEF GoodList
<1>2. CASE v.kind = "dn"
    <2>1. Len(w.slice) \in Nat
        BY <1>2, LenProperties DEF GoodList
    <2>2. \A texts : Len(texts) \in Nat =>
            GoodList(PushedInTurn(v, texts)[Len(texts)], l, S) /\ PushedInTurn(v, texts)[Len(texts)].kind = v.kind
        <3>. SUFFICES ASSUME NEW texts, Len(texts) \in Nat
                      PROVE  GoodList(PushedInTurn(v, texts)[Len(texts)], l, S) /\ PushedInTurn(v, texts)[Len(texts)].kind = v.kind
            OBVIOUS
        <3>1. Len(texts) \in 0..Len(texts)
            OBVIOUS
        <3>. QED BY <3>1, InTurnKeeps
    <2>3. Merged(v, w) = PushedInTurn(v, w.slice)[Len(w.slice)]
        BY <1>2 DEF Merged
    <2>. QED BY <1>2, <2>1, <2>2, <2>3 DEF GoodList
<1>3. CASE v.kind = "oid"
    <2>. DEFINE t == v.slice \o w.slice
    <2>1. Merged(v, w) = [kind |-> "oid", all |-> v.all, slice |-> t]
        <3>1. Merged(v, w) = [v EXCEPT !.slice = t]
            BY <1>3 DEF Merged
        <3>. HIDE DEF t
        <3>. QED BY <1>1, <1>3, <3>1
    <2>2. t \in Seq(Range(t))
        BY <1>3, ConcatAny DEF GoodList
    <2>. HIDE DEF t
    <2>. QED BY <1>3, <2>1, <2>2 DEF GoodList
<1>4. CASE v.kind \notin {"dn", "oid"}
    BY <1>4 DEF Merged, GoodList
<1>. QED BY <1>2, <1>3, <1>4

\* One list of the program is another one; the others are as they were.
LEMMA OneList ==
    ASSUME ListsInv, NEW l \in Lists, NEW v,
           list' = [list EXCEPT ![l] = v], merged \subseteq merged', merged' \subseteq merged \cup {l},
           GoodList(v, l, merged')
    PROVE  ListsInv'
<1>1. list' = [m \in Lists |-> IF m = l THEN v ELSE list[m]]
    BY DEF ListsInv
<1>2. \A m \in Lists : list'[m] = IF m = l THEN v ELSE list[m]
    BY <1>1
<1>3. list' = [m \in Lists |-> list'[m]]
    BY <1>1
<1>4. ASSUME NEW m \in Lists PROVE GoodList(list'[m], m, merged')
    <2>1. CASE m = l
        BY <1>2, <2>1
    <2>2. CASE m # l
        <3>1. GoodList(list[m], m, merged)
            BY DEF ListsInv
        <3>2. m \in merged <=> m \in merged'
            BY <2>2
        <3>3. list'[m] = list[m]
            BY <1>2, <2>2
        <3>. QED BY <3>1, <3>2, <3>3 DEF GoodList
    <2>. QED BY <2>1, <2>2
<1>. QED BY <1>3, <1>4 DEF ListsInv, GoodList, NoTwice, Among, Fold

\* However its names are written, and whichever lists are pushed to it and to those, a
\* list has no name twice in any case; one of identifiers none as long as no list is
\* pushed; and one that "*" closed stays empty.
THEOREM ListsHaveNoRepeats == ListsSpec => []NoRepeats
<1>1. ListsInit => ListsInv
    <2>. SUFFICES ASSUME ListsInit PROVE ListsInv
        OBVIOUS
    <2>1. list = [l \in Lists |-> NoList]
        BY DEF ListsInit
    <2>2. \A l \in Lists : GoodList(NoList, l, merged)
        BY DEF NoList, None, GoodList
    <2>. QED BY <2>1, <2>2 DEF ListsInv
<1>2. ListsInv /\ [ListsNext]_listVars => ListsInv'
    <2>. SUFFICES ASSUME ListsInv, [ListsNext]_listVars PROVE ListsInv'
        OBVIOUS
    <2>0. \A l \in Lists : GoodList(list[l], l, merged)
        BY DEF ListsInv
    <2>1. ASSUME NEW l \in Lists, NEW kind \in Kinds, NewList(l, kind) PROVE ListsInv'
        <3>1. list' = [list EXCEPT ![l] = Empty(kind)] /\ merged' = merged
            BY <2>1 DEF NewList
        <3>2. Empty(kind) = [kind |-> kind, all |-> FALSE, slice |-> << >>]
            <4>. DEFINE n == NoList
            <4>1. n = [kind |-> n.kind, all |-> n.all, slice |-> n.slice] /\ n.all = FALSE /\ n.slice = << >>
                BY DEF NoList
            <4>2. Empty(kind) = [n EXCEPT !.kind = kind]
                BY DEF Empty
            <4>. HIDE DEF n
            <4>. QED BY <4>1, <4>2
        <3>3. GoodList(Empty(kind), l, merged')
            <4>1. DOMAIN << >> = {} /\ << >> \in Seq(Range(<< >>))
                BY EmptyAny
            <4>. QED BY <3>2, <4>1 DEF GoodList, NoTwice
        <3>. QED BY <3>1, <3>3, OneList
    <2>2. ASSUME NEW l \in Lists, NEW s, Push(l, s) PROVE ListsInv'
        <3>1. list' = [list EXCEPT ![l] = Pushed(list[l], s)] /\ merged' = merged
            BY <2>2 DEF Push, ListsInv
        <3>2. GoodList(Pushed(list[l], s), l, merged)
            BY <2>0, PushedKeeps
        <3>. QED BY <3>1, <3>2, OneList
    <2>3. ASSUME NEW l \in Lists, NEW m \in Lists, PushList(l, m) PROVE ListsInv'
        <3>1. list' = [list EXCEPT ![l] = Merged(list[l], list[m])] /\ merged' = merged \cup {l} /\ list[l].kind = list[m].kind
            BY <2>3 DEF PushList, ListsInv
        <3>2. GoodList(Merged(list[l], list[m]), l, merged')
            BY <2>0, <3>1, MergedKeeps
        <3>. QED BY <3>1, <3>2, OneList
    <2>4. CASE UNCHANGED <<list, merged>>
        BY <2>4 DEF ListsInv, GoodList, NoTwice, Among, Fold
    <2>. QED BY <2>1, <2>2, <2>3, <2>4 DEF ListsNext, NewRuleItem, ShareList, SetQuotationStyle, listVars
<1>3. ListsInv => NoRepeats
    BY DEF ListsInv, GoodList, NoTwice, NoRepeats, Distinct
<1>. QED BY <1>1, <1>2, <1>3, PTL DEF ListsSpec

-----------------------------------------------------------------------------
(* ValueLists: what is written of a list, read again                       *)

\* All that is in texts.
Tokens == {Prefix, "||", "*", "<invalid_attribute_type>"} \cup UNION {Range(s) : s \in UNION {ListTexts[kind] : kind \in Kinds}}

LEMMA TextsType == \A kind \in Kinds : ListTexts[kind] \subseteq Seq(Tokens)
<1>. SUFFICES ASSUME NEW kind \in Kinds, NEW s \in ListTexts[kind] PROVE s \in Seq(Tokens)
    OBVIOUS
<1>1. s \in Seq(Range(s))
    BY ListTextsAssumption
<1>2. Range(s) \subseteq Tokens
    BY DEF Tokens
<1>. QED BY <1>1, <1>2, SeqMonotonic

\* Names begin with the prefix, and the other values are what they should be.
ValueOf(kind, x) ==
    /\ x \in Seq(Tokens)
    /\ kind = "dn" => Len(x) > 0 /\ x[1] = Prefix
    /\ kind = "oid" => IsOID(x)
    /\ kind = "attr" => IsWord(x)

RealList(v) ==
    /\ v = [kind |-> v.kind, all |-> v.all, slice |-> v.slice]
    /\ v.kind \in Kinds \cup {None} /\ v.all \in BOOLEAN
    /\ v.slice \in Seq(Seq(Tokens)) /\ \A k \in DOMAIN v.slice : ValueOf(v.kind, v.slice[k])
    /\ v.all => v.kind = "attr" /\ v.slice = << >>

LEMMA EmptyIs ==
    ASSUME NEW kind
    PROVE  Empty(kind) = [kind |-> kind, all |-> FALSE, slice |-> << >>]
<1>. DEFINE n == NoList
<1>1. n = [kind |-> n.kind, all |-> n.all, slice |-> n.slice] /\ n.all = FALSE /\ n.slice = << >>
    BY DEF NoList
<1>2. Empty(kind) = [n EXCEPT !.kind = kind]
    BY DEF Empty
<1>. HIDE DEF n
<1>. QED BY <1>1, <1>2

LEMMA EmptyReal ==
    ASSUME NEW kind \in Kinds \cup {None}
    PROVE  RealList(Empty(kind)) /\ Empty(kind).kind = kind
<1>. DEFINE e == Empty(kind)
<1>1. e = [kind |-> kind, all |-> FALSE, slice |-> << >>]
    BY EmptyIs
<1>2. << >> \in Seq(Seq(Tokens)) /\ DOMAIN << >> = {}
    BY EmptyAny
<1>. HIDE DEF e
<1>3. e.kind = kind /\ e.all = FALSE /\ e.slice = << >> /\ e = [kind |-> e.kind, all |-> e.all, slice |-> e.slice]
    BY <1>1
<1>4. RealList(e)
    BY <1>2, <1>3 DEF RealList
<1>. QED BY <1>3, <1>4 DEF e

\* One more value.
LEMMA OneMore ==
    ASSUME NEW kind, NEW s, s \in Seq(Seq(Tokens)), \A k \in DOMAIN s : ValueOf(kind, s[k]), NEW x, ValueOf(kind, x)
    PROVE  Append(s, x) \in Seq(Seq(Tokens)) /\ \A k \in DOMAIN Append(s, x) : ValueOf(kind, Append(s, x)[k])
<1>. DEFINE t == Append(s, x)
<1>1. x \in Seq(Tokens)
    BY DEF ValueOf
<1>2. t \in Seq(Seq(Tokens)) /\ Len(t) = Len(s) + 1 /\ (\A k \in 1..Len(s) : t[k] = s[k]) /\ t[Len(s) + 1] = x
    BY <1>1, AppendProperties
<1>3. Len(s) \in Nat /\ DOMAIN s = 1..Len(s) /\ DOMAIN t = 1..Len(t)
    BY <1>2, LenProperties
<1>. HIDE DEF t
<1>4. \A k \in DOMAIN t : k = Len(s) + 1 \/ k \in DOMAIN s
    BY <1>2, <1>3
<1>5. \A k \in DOMAIN t : ValueOf(kind, t[k])
    BY <1>2, <1>3, <1>4
<1>. QED BY <1>2, <1>5 DEF t

LEMMA PrefixedIs ==
    ASSUME NEW s \in Seq(Tokens)
    PROVE  /\ Prefixed(s) \in Seq(Tokens) /\ Len(Prefixed(s)) > 0 /\ Prefixed(s)[1] = Prefix
           /\ Len(s) > 0 /\ s[1] = Prefix => Prefixed(s) = s
<1>1. Len(s) \in Nat /\ (s # << >> <=> Len(s) > 0)
    BY LenProperties, EmptySeq
<1>2. Prefix \in Tokens
    BY DEF Tokens
<1>. DEFINE p == Prefix
            t == <<p>> \o s
<1>. HIDE DEF p
<1>3. <<p>> \in Seq(Tokens) /\ Len(<<p>>) = 1 /\ <<p>>[1] = p
    <2>1. p \in Tokens
        BY <1>2 DEF p
    <2>. QED BY <2>1
<1>4. t \in Seq(Tokens) /\ Len(t) = 1 + Len(s) /\ t[1] = p
    <2>. DEFINE q == <<p>>
    <2>1. q \in Seq(Tokens) /\ Len(q) = 1 /\ q[1] = p
        BY <1>3
    <2>. HIDE DEF q
    <2>2. /\ q \o s \in Seq(Tokens) /\ Len(q \o s) = Len(q) + Len(s)
          /\ \A i \in 1..(Len(q) + Len(s)) : (q \o s)[i] = IF i <= Len(q) THEN q[i] ELSE s[i - Len(q)]
        BY <2>1, ConcatProperties
    <2>3. 1 \in 1..(Len(q) + Len(s)) /\ 1 <= Len(q)
        BY <1>1, <2>1
    <2>4. q \o s \in Seq(Tokens) /\ Len(q \o s) = 1 + Len(s) /\ (q \o s)[1] = p
        BY <2>1, <2>2, <2>3
    <2>. QED BY <2>4 DEF q
<1>. HIDE DEF t
<1>5. Prefixed(s) = IF s # << >> /\ s[1] = p THEN s ELSE t
    BY DEF Prefixed, p, t
<1>6. Len(t) > 0
    BY <1>1, <1>4
<1>. QED BY <1>1, <1>4, <1>5, <1>6 DEF p

\* The words in front of the first that is refused.
WordsTo(words)   == {k \in 0..Len(words) : \A j \in 1..k : IsWord(words[j])}
WordsUntil(good) == CHOOSE k \in good : \A j \in good : j <= k

LEMMA WordsBefore ==
    ASSUME NEW words \in Seq(Seq(Tokens))
    PROVE  /\ WordsUntil(WordsTo(words)) \in WordsTo(words) /\ WordsUntil(WordsTo(words)) \in 0..Len(words)
           /\ \A j \in WordsTo(words) : j <= WordsUntil(WordsTo(words))
           /\ \A j \in 1..WordsUntil(WordsTo(words)) : IsWord(words[j])
<1>. DEFINE n == Len(words)
            good == WordsTo(words)
            m == WordsUntil(good)
            T == {k \in 1..(n + 1) : k - 1 \in good}
<1>1. n \in Nat /\ 0 \in good
    BY LenProperties DEF WordsTo
<1>9. \A k \in good : k \in 0..Len(words) /\ \A j \in 1..k : IsWord(words[j])
    BY DEF WordsTo
<1>. HIDE DEF good, m
<1>2. T \subseteq 1..(n + 1) /\ T # {} /\ n + 1 \in Nat
    <2>1. 1 \in 1..(n + 1) /\ 1 - 1 = 0
        BY <1>1
    <2>2. 1 \in T
        BY <1>1, <2>1
    <2>. QED BY <1>1, <2>2
<1>3. PICK x \in T : \A y \in T : y <= x
    <2>. HIDE DEF T
    <2>. QED BY <1>2, LastPosition
<1>4. \A j \in good : j + 1 \in T
    <2>1. \A j \in good : j + 1 \in 1..(n + 1) /\ (j + 1) - 1 = j
        BY <1>1, <1>9
    <2>. QED BY <2>1
<1>5. x \in 1..(n + 1) /\ x - 1 \in good
    BY <1>3
<1>6. \A j \in good : j <= x - 1
    <2>1. \A j \in good : j \in 0..n /\ j + 1 <= x
        BY <1>3, <1>4, <1>9
    <2>. HIDE DEF n
    <2>. QED BY <1>1, <1>5, <2>1
<1>7. \E k \in good : \A j \in good : j <= k
    BY <1>5, <1>6
<1>8. m \in good /\ \A j \in good : j <= m
    BY <1>7, Zenon DEF m, WordsUntil
<1>. QED BY <1>8, <1>9, Zenon DEF good, m

LEMMA ValuesTogether ==
    ASSUME NEW kind, NEW s \in Seq(Seq(Tokens)), NEW t \in Seq(Seq(Tokens)),
           \A k \in DOMAIN s : ValueOf(kind, s[k]), \A k \in DOMAIN t : ValueOf(kind, t[k])
    PROVE  s \o t \in Seq(Seq(Tokens)) /\ \A k \in DOMAIN (s \o t) : ValueOf(kind, (s \o t)[k])
<1>. DEFINE r == s \o t
            y == Len(s)
            z == Len(t)
<1>1. y \in Nat /\ z \in Nat /\ DOMAIN t = 1..z /\ DOMAIN s = 1..y
    BY LenProperties
<1>2. r \in Seq(Seq(Tokens)) /\ Len(r) = y + z /\ \A k \in 1..(y + z) : r[k] = IF k <= y THEN s[k] ELSE t[k - y]
    BY ConcatProperties
<1>3. DOMAIN r = 1..(y + z)
    BY <1>2, LenProperties
<1>. HIDE DEF r, y, z
<1>4. \A k \in DOMAIN r : k <= y => k \in DOMAIN s /\ r[k] = s[k]
    BY <1>1, <1>2, <1>3
<1>5. \A k \in DOMAIN r : ~(k <= y) => k - y \in DOMAIN t /\ r[k] = t[k - y]
    BY <1>1, <1>2, <1>3
<1>6. \A k \in DOMAIN r : ValueOf(kind, r[k])
    BY <1>4, <1>5
<1>. QED BY <1>2, <1>6 DEF r

LEMMA PushedReal ==
    ASSUME NEW v, RealList(v), v.kind # None, NEW s \in Seq(Tokens)
    PROVE  RealList(Pushed(v, s)) /\ Pushed(v, s).kind = v.kind
<1>1. v = [kind |-> v.kind, all |-> v.all, slice |-> v.slice] /\ v.slice \in Seq(Seq(Tokens))
      /\ v.kind \in Kinds /\ v.all \in BOOLEAN /\ \A k \in DOMAIN v.slice : ValueOf(v.kind, v.slice[k])
    BY DEF RealList
<1>2. CASE v.kind = "dn"
    <2>. DEFINE t == NamePushed(v.slice, s)
    <2>1. Pushed(v, s) = [kind |-> "dn", all |-> v.all, slice |-> t]
        <3>1. Pushed(v, s) = [v EXCEPT !.slice = t]
            BY <1>2 DEF Pushed
        <3>. HIDE DEF t
        <3>. QED BY <1>1, <1>2, <3>1
    <2>2. ValueOf("dn", Prefixed(s))
        BY PrefixedIs DEF ValueOf
    <2>3. t \in Seq(Seq(Tokens)) /\ \A k \in DOMAIN t : ValueOf("dn", t[k])
        <3>1. CASE t = v.slice
            BY <1>1, <1>2, <3>1
        <3>2. CASE t = Append(v.slice, Prefixed(s))
            BY <1>1, <1>2, <2>2, <3>2, OneMore
        <3>. QED BY <3>1, <3>2 DEF NamePushed
    <2>4. ~v.all
        BY <1>2 DEF RealList
    <2>. HIDE DEF t
    <2>. QED BY <1>2, <2>1, <2>3, <2>4 DEF RealList, Kinds
<1>3. CASE v.kind = "oid"
    <2>. DEFINE t == OIDPushed(v.slice, s)
    <2>1. Pushed(v, s) = [kind |-> "oid", all |-> v.all, slice |-> t]
        <3>1. Pushed(v, s) = [v EXCEPT !.slice = t]
            BY <1>3 DEF Pushed
        <3>. HIDE DEF t
        <3>. QED BY <1>1, <1>3, <3>1
    <2>2. IsOID(s) => ValueOf("oid", s)
        BY DEF ValueOf
    <2>3. t \in Seq(Seq(Tokens)) /\ \A k \in DOMAIN t : ValueOf("oid", t[k])
        <3>1. CASE t = v.slice
            BY <1>1, <1>3, <3>1
        <3>2. CASE IsOID(s) /\ t = Append(v.slice, s)
            BY <1>1, <1>3, <2>2, <3>2, OneMore
        <3>. QED BY <3>1, <3>2 DEF OIDPushed
    <2>4. ~v.all
        BY <1>3 DEF RealList
    <2>. HIDE DEF t
    <2>. QED BY <1>3, <2>1, <2>3, <2>4 DEF RealList, Kinds
<1>4. CASE v.kind = "attr"
    <2>1. Pushed(v, s) = AttributePushed(v, s)
        BY <1>4 DEF Pushed
    <2>2. CASE v.all
        BY <2>1, <2>2 DEF AttributePushed
    <2>3. CASE ~v.all /\ s = <<"*">>
        <3>1. Pushed(v, s) = [kind |-> v.kind, all |-> TRUE, slice |-> << >>]
            <4>1. Pushed(v, s) = [v EXCEPT !.slice = << >>, !.all = TRUE]
                BY <2>1, <2>3 DEF AttributePushed
            <4>. QED BY <1>1, <4>1
        <3>2. << >> \in Seq(Seq(Tokens)) /\ DOMAIN << >> = {}
            BY EmptyAny
        <3>. QED BY <1>4, <3>1, <3>2 DEF RealList, Kinds
    <2>4. CASE ~v.all /\ s # <<"*">>
        <3>. DEFINE words == Cut(s)
                    good == {k \in 0..Len(words) : \A j \in 1..k : IsWord(words[j])}
                    m == CHOOSE k \in good : \A j \in good : j <= k
                    t == SubSeq(words, 1, m)
                    r == v.slice \o t
        <3>1. words \in Seq(Seq(Tokens))
            BY CutByType DEF Cut
        <3>2. m \in 0..Len(words) /\ \A j \in 1..m : IsWord(words[j])
            <4>1. good = WordsTo(words) /\ m = WordsUntil(WordsTo(words))
                BY DEF WordsTo, WordsUntil
            <4>. HIDE DEF words, good, m
            <4>. QED BY <3>1, <4>1, WordsBefore
        <3>3. Pushed(v, s) = [v EXCEPT !.slice = r]
            BY <2>1, <2>4 DEF AttributePushed
        <3>. HIDE DEF words, m
        <3>4. t \in Seq(Seq(Tokens)) /\ \A k \in DOMAIN t : ValueOf("attr", t[k])
            <4>1. Len(words) \in Nat /\ \A j \in 1..Len(words) : words[j] \in Seq(Tokens)
                BY <3>1, LenProperties, ElementOfSeq
            <4>2. m \in Nat /\ \A j \in 1..m : words[j] \in Seq(Tokens)
                BY <3>2, <4>1
            <4>3. t \in Seq(Seq(Tokens)) /\ Len(t) = m /\ \A j \in 1..m : t[j] = words[j]
                <5>1. 1 \in Int /\ m \in Int /\ m - 1 + 1 = m /\ (IF 1 <= m THEN m - 1 + 1 ELSE 0) = m
                    BY <4>2
                <5>2. t \in Seq(Seq(Tokens)) /\ Len(t) = m /\ \A j \in 1..m : t[j] = words[1 + j - 1]
                    BY <4>2, <5>1, SubSeqProperties
                <5>. QED BY <5>2
            <4>4. DOMAIN t = 1..m
                BY <4>3, LenProperties
            <4>. HIDE DEF t
            <4>. QED BY <3>2, <4>2, <4>3, <4>4 DEF ValueOf
        <3>. HIDE DEF t
        <3>5. r \in Seq(Seq(Tokens)) /\ \A k \in DOMAIN r : ValueOf("attr", r[k])
            BY <1>1, <1>4, <3>4, ValuesTogether
        <3>. HIDE DEF r
        <3>6. Pushed(v, s) = [kind |-> "attr", all |-> v.all, slice |-> r]
            BY <1>1, <1>4, <3>3
        <3>. QED BY <1>4, <2>4, <3>5, <3>6 DEF RealList, Kinds
    <2>. QED BY <2>2, <2>3, <2>4
<1>. QED BY <1>1, <1>2, <1>3, <1>4 DEF Kinds

LEMMA RealInTurn ==
    ASSUME NEW v, RealList(v), v.kind # None, NEW texts \in Seq(Seq(Tokens)), NEW k \in 0..Len(texts)
    PROVE  RealList(PushedInTurn(v, texts)[k]) /\ PushedInTurn(v, texts)[k].kind = v.kind
<1>. DEFINE f == PushedInTurn(v, texts)
            Fine(j) == RealList(f[j]) /\ f[j].kind = v.kind
            n == Len(texts)
            T == {j \in 1..n : ~Fine(j)}
<1>0. Len(texts) \in Nat /\ \A j \in 1..Len(texts) : texts[j] \in Seq(Tokens)
    BY LenProperties, ElementOfSeq
<1>1. f[0] = v /\ \A j \in 1..n : f[j] = Pushed(f[j - 1], texts[j])
    BY <1>0, InTurn
<1>. HIDE DEF f
<1>2. Fine(0) /\ n \in Nat
    BY <1>0, <1>1
<1>3. ASSUME T # {} PROVE FALSE
    <2>1. T \subseteq 1..n
        OBVIOUS
    <2>2. PICK m \in T : \A y \in T : m <= y
        <3>. HIDE DEF T
        <3>. QED BY <1>2, <1>3, <2>1, FirstPosition
    <2>3. m \in 1..n /\ ~Fine(m)
        OBVIOUS
    <2>4. Fine(m - 1)
        <3>1. m - 1 = 0 \/ (m - 1 \in 1..n /\ ~(m <= m - 1))
            BY <1>2, <2>3
        <3>2. ASSUME m - 1 \in 1..n, ~(m <= m - 1) PROVE Fine(m - 1)
            <4>1. m - 1 \notin T
                BY <2>2, <3>2, Zenon
            <4>. QED BY <3>2, <4>1
        <3>. HIDE DEF Fine
        <3>. QED BY <1>2, <3>1, <3>2
    <2>5. f[m] = Pushed(f[m - 1], texts[m]) /\ texts[m] \in Seq(Tokens)
        BY <1>0, <1>1, <2>3
    <2>6. Fine(m)
        BY <2>4, <2>5, PushedReal
    <2>. QED BY <2>3, <2>6
<1>4. k = 0 \/ k \in 1..n
    BY <1>2
<1>5. \A j \in 1..n : Fine(j)
    <2>. HIDE DEF Fine
    <2>. QED BY <1>3, Zenon
<1>. QED BY <1>2, <1>4, <1>5 DEF f

LEMMA MergedReal ==
    ASSUME NEW v, NEW w, RealList(v), RealList(w), v.kind # None, v.kind = w.kind
    PROVE  RealList(Merged(v, w)) /\ Merged(v, w).kind = v.kind
<1>1. v = [kind |-> v.kind, all |-> v.all, slice |-> v.slice] /\ v.kind \in Kinds /\ v.all \in BOOLEAN
      /\ v.slice \in Seq(Seq(Tokens)) /\ w.slice \in Seq(Seq(Tokens))
      /\ (\A k \in DOMAIN v.slice : ValueOf(v.kind, v.slice[k])) /\ (\A k \in DOMAIN w.slice : ValueOf(v.kind, w.slice[k]))
    BY DEF RealList
<1>2. CASE v.kind = "dn"
    <2>1. Merged(v, w) = PushedInTurn(v, w.slice)[Len(w.slice)]
        BY <1>2 DEF Merged
    <2>2. Len(w.slice) \in 0..Len(w.slice)
        BY <1>1, LenProperties
    <2>. QED BY <1>1, <2>1, <2>2, RealInTurn
<1>3. CASE v.kind = "oid"
    <2>. DEFINE s == v.slice
                t == w.slice
                r == s \o t
    <2>1. Merged(v, w) = [kind |-> "oid", all |-> v.all, slice |-> r]
        <3>1. Merged(v, w) = [v EXCEPT !.slice = r]
            BY <1>3 DEF Merged
        <3>. HIDE DEF r
        <3>. QED BY <1>1, <1>3, <3>1
    <2>2. s \in Seq(Seq(Tokens)) /\ t \in Seq(Seq(Tokens)) /\ (\A k \in DOMAIN s : ValueOf("oid", s[k])) /\ \A k \in DOMAIN t : ValueOf("oid", t[k])
        BY <1>1, <1>3
    <2>. HIDE DEF s, t
    <2>3. r \in Seq(Seq(Tokens)) /\ \A k \in DOMAIN r : ValueOf("oid", r[k])
        BY <2>2, ValuesTogether
    <2>. HIDE DEF r
    <2>4. ~v.all
        BY <1>3 DEF RealList
    <2>. QED BY <1>3, <2>1, <2>3, <2>4 DEF RealList, Kinds
<1>4. CASE v.kind = "attr"
    BY <1>4 DEF Merged
<1>. QED BY <1>1, <1>2, <1>3, <1>4 DEF Kinds

LEMMA ReadIs ==
    ASSUME NEW kind, NEW values, Len(values) \in Nat, DOMAIN values = 1..Len(values),
           NEW f, f = PushedInTurn(Empty(kind), values)
    PROVE  /\ ReadByRule(kind, values).list = f[Len(values)]
           /\ ReadByRule(kind, values).ok <=> \A k \in 1..Len(values) : ~Refused(f[k - 1], values[k])
           /\ ReadByItem(kind, values).ok <=> ReadByRule(kind, values).ok /\ Len(values) = 1
<1>. DEFINE r == ReadByRule(kind, values)
            ok == \A k \in DOMAIN values : ~Refused(f[k - 1], values[k])
            last == f[Len(values)]
<1>1. r = [list |-> last, ok |-> ok]
    BY DEF ReadByRule
<1>2. ReadByItem(kind, values) = [r EXCEPT !.ok = @ /\ Len(values) = 1]
    BY DEF ReadByItem
<1>3. ok <=> \A k \in 1..Len(values) : ~Refused(f[k - 1], values[k])
    BY Zenon
<1>. HIDE DEF r, ok, last
<1>4. r.list = last /\ r.ok = ok
    BY <1>1
<1>5. ReadByItem(kind, values).ok = (r.ok /\ Len(values) = 1)
    BY <1>1, <1>2
<1>6. r.ok <=> ok
    BY <1>4
<1>7. ReadByItem(kind, values).ok <=> r.ok /\ Len(values) = 1
    BY <1>5
<1>. QED BY <1>3, <1>4, <1>6, <1>7 DEF r, last

LEMMA ReadOne ==
    ASSUME NEW kind, NEW x
    PROVE  /\ ReadByRule(kind, <<x>>).list = Pushed(Empty(kind), x)
           /\ ReadByRule(kind, <<x>>).ok <=> ~Refused(Empty(kind), x)
           /\ Len(<<x>>) = 1
<1>. DEFINE values == <<x>>
            f == PushedInTurn(Empty(kind), values)
<1>1. Len(values) = 1 /\ DOMAIN values = 1..1 /\ values[1] = x
    BY SingletonAny
<1>. HIDE DEF values
<1>2. f[0] = Empty(kind) /\ \A k \in 1..1 : f[k] = Pushed(f[k - 1], values[k])
    BY <1>1, InTurn
<1>3. f = PushedInTurn(Empty(kind), values)
    OBVIOUS
<1>. HIDE DEF f
<1>4. f[1] = Pushed(Empty(kind), x)
    <2>1. 1 \in 1..1 /\ 1 - 1 = 0
        OBVIOUS
    <2>. QED BY <1>1, <1>2, <2>1
<1>5. /\ ReadByRule(kind, values).list = f[Len(values)]
      /\ ReadByRule(kind, values).ok <=> \A k \in 1..Len(values) : ~Refused(f[k - 1], values[k])
    <2>1. Len(values) \in Nat /\ DOMAIN values = 1..Len(values)
        BY <1>1
    <2>. QED BY <1>3, <2>1, ReadIs
<1>6. (\A k \in 1..1 : ~Refused(f[k - 1], values[k])) <=> ~Refused(Empty(kind), x)
    <2>1. 1 \in 1..1 /\ 1 - 1 = 0 /\ \A k \in 1..1 : k = 1
        OBVIOUS
    <2>. QED BY <1>1, <1>2, <2>1
<1>. QED BY <1>1, <1>4, <1>5, <1>6 DEF values

\* Values read one after another, of which none is there twice, are all kept.
LEMMA TurnStep ==
    ASSUME NEW kind \in {"dn", "oid"}, NEW s \in Seq(Seq(Tokens)), \A j \in 1..Len(s) : ValueOf(kind, s[j]),
           NEW k \in 1..Len(s), NoTwice(kind, s), kind = "dn" => IsName(s[k])
    PROVE  Pushed([kind |-> kind, all |-> FALSE, slice |-> SubSeq(s, 1, k - 1)], s[k])
             = [kind |-> kind, all |-> FALSE, slice |-> SubSeq(s, 1, k)]
<1>. DEFINE t == SubSeq(s, 1, k - 1)
            u == SubSeq(s, 1, k)
            x == s[k]
            v == [kind |-> kind, all |-> FALSE, slice |-> t]
<1>1. Len(s) \in Nat /\ DOMAIN s = 1..Len(s) /\ x \in Seq(Tokens) /\ \A j \in 1..Len(s) : s[j] \in Seq(Tokens)
    BY LenProperties, ElementOfSeq
<1>2. Append(t, x) = u
    <2>1. SubSeq(s, 1, k) = SubSeq(s, 1, k - 1) \o <<s[k]>>
        <3>1. 1 \in 1..Len(s) /\ k \in 1..Len(s)
            BY <1>1
        <3>. QED BY <3>1, SubSeqRecursiveSecond
    <2>2. t \in Seq(Seq(Tokens))
        <3>1. 1 \in 1..(Len(s) + 1) /\ k - 1 \in 0..Len(s)
            BY <1>1
        <3>. QED BY <3>1, PieceAny
    <2>3. t \o <<x>> = Append(t, x)
        <3>. HIDE DEF t, x
        <3>. QED BY <1>1, <2>2, AppendIsConcat
    <2>. QED BY <2>1, <2>3
<1>3. ~Among(kind, x, t)
    <2>1. Len(t) = k - 1 /\ DOMAIN t = 1..(k - 1) /\ \A j \in 1..(k - 1) : t[j] = s[j]
        <3>1. 1 \in Int /\ k - 1 \in Int /\ k - 1 \in Nat /\ (k - 1) - 1 + 1 = k - 1 /\ (IF 1 <= k - 1 THEN (k - 1) - 1 + 1 ELSE 0) = k - 1
            BY <1>1
        <3>2. \A j \in 1..(k - 1) : s[j] \in Seq(Tokens) /\ 1 + j - 1 = j
            BY <1>1
        <3>3. t \in Seq(Seq(Tokens)) /\ Len(t) = k - 1 /\ \A j \in 1..(k - 1) : t[j] = s[1 + j - 1]
            BY <3>1, <3>2, SubSeqProperties
        <3>4. DOMAIN t = 1..(k - 1)
            BY <3>3, LenProperties
        <3>. HIDE DEF t
        <3>. QED BY <3>2, <3>3, <3>4
    <2>. HIDE DEF t
    <2>2. \A j \in DOMAIN t : j \in DOMAIN s /\ j # k /\ k \in DOMAIN s /\ t[j] = s[j]
        BY <1>1, <2>1
    <2>3. \A j \in DOMAIN t : ~Among(kind, x, <<t[j]>>)
        BY <2>2 DEF NoTwice
    <2>. QED BY <2>3, AmongOne
<1>4. ValueOf(kind, x)
    OBVIOUS
<1>. HIDE DEF t, u, x
<1>5. CASE kind = "dn"
    <2>1. Prefixed(x) = x
        BY <1>1, <1>4, <1>5, PrefixedIs DEF ValueOf
    <2>2. NamePushed(t, x) = u
        BY <1>2, <1>3, <1>5, <2>1 DEF NamePushed, x
    <2>3. Pushed(v, x) = [v EXCEPT !.slice = NamePushed(@, x)]
        BY <1>5 DEF Pushed
    <2>. HIDE DEF v
    <2>4. v = [kind |-> kind, all |-> FALSE, slice |-> t]
        BY DEF v
    <2>5. Pushed(v, x) = [kind |-> kind, all |-> FALSE, slice |-> u]
        BY <2>2, <2>3, <2>4
    <2>. QED BY <2>5 DEF v, t, u, x
<1>6. CASE kind = "oid"
    <2>1. OIDPushed(t, x) = u
        BY <1>2, <1>3, <1>4, <1>6 DEF OIDPushed, ValueOf
    <2>2. Pushed(v, x) = [v EXCEPT !.slice = OIDPushed(@, x)]
        BY <1>6 DEF Pushed
    <2>. HIDE DEF v
    <2>3. v = [kind |-> kind, all |-> FALSE, slice |-> t]
        BY DEF v
    <2>4. Pushed(v, x) = [kind |-> kind, all |-> FALSE, slice |-> u]
        BY <2>1, <2>2, <2>3
    <2>. QED BY <2>4 DEF v, t, u, x
<1>. QED BY <1>5, <1>6

\* A list of names or identifiers whose values are read in turn.
LEMMA TurnsReadBack ==
    ASSUME NEW l, RealList(l), l.kind \in {"dn", "oid"}
    PROVE  ReadByRule(l.kind, l.slice).ok /\ ReadByRule(l.kind, l.slice).list = l
             <=> Distinct(l) /\ (l.kind = "dn" => \A v \in Range(l.slice) : IsName(v))
<1>. DEFINE s == l.slice
            kind == l.kind
            n == Len(s)
            f == PushedInTurn(Empty(kind), s)
            r == ReadByRule(kind, s)
            Names2 == kind = "dn" => \A v \in Range(s) : IsName(v)
<1>1. l = [kind |-> kind, all |-> FALSE, slice |-> s] /\ s \in Seq(Seq(Tokens)) /\ \A k \in DOMAIN s : ValueOf(kind, s[k])
    <2>1. l = [kind |-> l.kind, all |-> l.all, slice |-> l.slice] /\ l.all = FALSE
        BY DEF RealList
    <2>. QED BY <2>1 DEF RealList
<1>2. n \in Nat /\ DOMAIN s = 1..n /\ \A k \in 1..n : s[k] \in Seq(Tokens)
    BY <1>1, LenProperties, ElementOfSeq
<1>3. f[0] = Empty(kind) /\ \A k \in 1..n : f[k] = Pushed(f[k - 1], s[k])
    BY <1>2, InTurn
<1>4. r.list = f[n] /\ (r.ok <=> \A k \in 1..n : ~Refused(f[k - 1], s[k]))
    BY <1>2, ReadIs
<1>5. \A k \in 0..n : f[k].kind = kind /\ GoodList(f[k], None, {})
    <2>1. GoodList(Empty(kind), None, {}) /\ Empty(kind).kind = kind
        <3>1. Empty(kind) = [kind |-> kind, all |-> FALSE, slice |-> << >>]
            BY EmptyIs
        <3>2. DOMAIN << >> = {} /\ << >> \in Seq(Range(<< >>))
            BY EmptyAny
        <3>. HIDE DEF kind
        <3>. QED BY <3>1, <3>2 DEF GoodList, NoTwice
    <2>. QED BY <1>2, <2>1, InTurnKeeps
<1>6. r.ok <=> Names2
    <2>1. \A k \in 1..n : k - 1 \in 0..n
        BY <1>2
    <2>2. \A k \in 1..n : f[k - 1].kind = kind
        BY <1>5, <2>1
    <2>3. \A k \in 1..n : Refused(f[k - 1], s[k]) <=> kind = "dn" /\ ~IsName(s[k])
        <3>. HIDE DEF f, s
        <3>1. CASE kind = "dn"
            BY <2>2, <3>1 DEF Refused
        <3>2. CASE kind = "oid"
            BY <2>2, <3>2 DEF Refused
        <3>. QED BY <3>1, <3>2
    <2>4. \A v : v \in Range(s) <=> \E k \in 1..n : v = s[k]
        BY <1>2 DEF Range
    <2>. HIDE DEF f, s, r, kind, n
    <2>. QED BY <1>4, <2>3, <2>4
<1>7. Distinct(l) <=> NoTwice(kind, s)
    BY DEF Distinct, NoTwice
<1>8. r.list = l => NoTwice(kind, s)
    <2>1. n \in 0..n
        BY <1>2
    <2>2. GoodList(f[n], None, {})
        BY <1>5, <2>1
    <2>3. GoodList(l, None, {}) => NoTwice(kind, s)
        BY DEF GoodList
    <2>. QED BY <1>4, <2>2, <2>3
<1>9. ASSUME NoTwice(kind, s), Names2 PROVE r.list = l
    <2>. DEFINE At(k) == f[k] = [kind |-> kind, all |-> FALSE, slice |-> SubSeq(s, 1, k)]
                T == {k \in 1..n : ~At(k)}
    <2>1. At(0)
        <3>1. Empty(kind) = [kind |-> kind, all |-> FALSE, slice |-> << >>]
            BY EmptyIs
        <3>2. SubSeq(s, 1, 0) = << >>
            BY <1>1, SubSeqEmpty
        <3>. QED BY <1>3, <3>1, <3>2
    <2>2. ASSUME T # {} PROVE FALSE
        <3>1. T \subseteq 1..n
            OBVIOUS
        <3>2. PICK m \in T : \A y \in T : m <= y
            <4>. HIDE DEF T
            <4>. QED BY <1>2, <2>2, <3>1, FirstPosition
        <3>3. m \in 1..n /\ ~At(m)
            OBVIOUS
        <3>4. At(m - 1)
            <4>1. m - 1 = 0 \/ (m - 1 \in 1..n /\ ~(m <= m - 1))
                BY <1>2, <3>3
            <4>2. ASSUME m - 1 \in 1..n, ~(m <= m - 1) PROVE At(m - 1)
                <5>1. m - 1 \notin T
                    BY <3>2, <4>2, Zenon
                <5>. QED BY <4>2, <5>1
            <4>. HIDE DEF At
            <4>. QED BY <2>1, <4>1, <4>2
        <3>5. kind = "dn" => IsName(s[m])
            BY <1>2, <1>9, <3>3 DEF Range
        <3>6. f[m] = Pushed(f[m - 1], s[m])
            BY <1>3, <3>3
        <3>7. \A j \in 1..n : ValueOf(kind, s[j])
            BY <1>1, <1>2
        <3>. HIDE DEF s, kind, f
        <3>8. Pushed([kind |-> kind, all |-> FALSE, slice |-> SubSeq(s, 1, m - 1)], s[m])
                = [kind |-> kind, all |-> FALSE, slice |-> SubSeq(s, 1, m)]
            <4>1. kind \in {"dn", "oid"} /\ m \in 1..Len(s)
                BY <3>3 DEF kind
            <4>. QED BY <1>1, <1>9, <3>5, <3>7, <4>1, TurnStep
        <3>. QED BY <3>3, <3>4, <3>6, <3>8
    <2>3. \A k \in 1..n : At(k)
        <3>. HIDE DEF At
        <3>. QED BY <2>2, Zenon
    <2>4. n = 0 \/ n \in 1..n
        BY <1>2
    <2>5. At(n)
        <3>. HIDE DEF At
        <3>. QED BY <2>1, <2>3, <2>4
    <2>6. SubSeq(s, 1, n) = s
        BY <1>1, SubSeqFull
    <2>. HIDE DEF f, s, r, kind
    <2>. QED BY <1>1, <1>4, <2>5, <2>6
<1>. HIDE DEF Names2, r, f
<1>10. r.ok /\ r.list = l <=> NoTwice(kind, s) /\ Names2
    BY <1>6, <1>8, <1>9
<1>. QED BY <1>7, <1>10 DEF Names2, r

LEMMA ValuesIs ==
    ASSUME NEW l, RealList(l), l.kind # None, NEW mvq \in BOOLEAN
    PROVE  /\ l.all => Values(l, mvq) = <<<<"*">>>>
           /\ ~l.all /\ l.kind = "attr" /\ l.slice = << >> => Values(l, mvq) = <<<<"<invalid_attribute_type>">>>>
           /\ ~l.all /\ l.kind # "attr" /\ mvq /\ l.slice # << >> => Values(l, mvq) = l.slice
           /\ ~l.all /\ l.kind = "attr" /\ l.slice # << >> => Values(l, mvq) = <<Joined("||", l.slice)>>
           /\ ~l.all /\ l.kind # "attr" /\ (~mvq \/ l.slice = << >>) => Values(l, mvq) = <<Joined("||", l.slice)>>
<1>1. l.all => ~(l.kind # "attr")
    BY DEF RealList
<1>2. CASE l.all
    BY <1>1, <1>2 DEF Values, RealList
<1>3. CASE ~l.all /\ l.kind = "attr" /\ l.slice = << >>
    BY <1>3 DEF Values
<1>4. CASE ~l.all /\ l.kind # "attr" /\ mvq /\ l.slice # << >>
    BY <1>4 DEF Values
<1>5. CASE ~l.all /\ l.kind = "attr" /\ l.slice # << >>
    BY <1>5 DEF Values
<1>6. CASE ~l.all /\ l.kind # "attr" /\ (~mvq \/ l.slice = << >>)
    BY <1>6 DEF Values
<1>. QED BY <1>2, <1>3, <1>4, <1>5, <1>6

\* A word is cut nowhere.
LEMMA CutOne ==
    ASSUME NEW x \in Seq(Tokens), Len(x) = 1, x[1] # "||"
    PROVE  Cut(x) = <<x>>
<1>. DEFINE ss == <<x>>
<1>1. ss \in Seq(Seq(Tokens)) /\ Len(ss) = 1 /\ ss[1] = x
    OBVIOUS
<1>2. "||" \in Tokens
    BY DEF Tokens
<1>3. Joined("||", ss) = x
    BY <1>2, JoinedFew
<1>. HIDE DEF ss
<1>4. \A k \in 1..Len(ss) : \A i \in 1..Len(ss[k]) : ss[k][i] # "||"
    BY <1>1
<1>5. CutBy("||", Joined("||", ss)) = ss
    <2>1. Len(ss) > 0
        BY <1>1
    <2>. QED BY <1>1, <1>2, <1>4, <2>1, CutOfJoined
<1>. QED BY <1>3, <1>5 DEF Cut, ss

\* Lists with nothing in them.
LEMMA EmptyReadsBack ==
    ASSUME NEW l, RealList(l), l.kind # None, l.slice = << >>, NEW mvq \in BOOLEAN, NEW values, values = Values(l, mvq)
    PROVE  /\ ReadByRule(l.kind, values).ok /\ ReadByRule(l.kind, values).list = l <=> l.all \/ l.kind = "oid"
           /\ \E x : values = <<x>>
<1>. DEFINE e == Empty(l.kind)
<1>1. l = [kind |-> l.kind, all |-> l.all, slice |-> << >>] /\ l.kind \in Kinds /\ (l.all => l.kind = "attr") /\ l.all \in BOOLEAN
    BY DEF RealList
<1>2. e = [kind |-> l.kind, all |-> FALSE, slice |-> << >>]
    BY EmptyIs
<1>3. e.kind = l.kind /\ e.all = FALSE /\ e.slice = << >>
    BY <1>2
<1>4. CASE l.all
    <2>. DEFINE x == <<"*">>
    <2>1. values = <<x>>
        BY <1>4, ValuesIs
    <2>2. ReadByRule(l.kind, values).list = Pushed(e, x) /\ (ReadByRule(l.kind, values).ok <=> ~Refused(e, x))
        BY <2>1, ReadOne
    <2>3. Pushed(e, x) = [e EXCEPT !.slice = << >>, !.all = TRUE]
        BY <1>1, <1>3, <1>4 DEF Pushed, AttributePushed
    <2>4. Pushed(e, x) = l
        <3>. HIDE DEF e, x
        <3>. QED BY <1>1, <1>2, <1>4, <2>3
    <2>5. ~Refused(e, x)
        BY <1>1, <1>3, <1>4 DEF Refused
    <2>. HIDE DEF e, x
    <2>. QED BY <1>4, <2>1, <2>2, <2>4, <2>5
<1>5. CASE ~l.all /\ l.kind = "attr"
    <2>. DEFINE x == <<"<invalid_attribute_type>">>
    <2>1. values = <<x>>
        BY <1>5, ValuesIs
    <2>2. ReadByRule(l.kind, values).ok <=> ~Refused(e, x)
        BY <2>1, ReadOne
    <2>3. x # <<"*">> /\ Len(x) = 1 /\ x[1] = "<invalid_attribute_type>" /\ x[1] # "||"
        OBVIOUS
    <2>4. x \in Seq(Tokens)
        <3>1. "<invalid_attribute_type>" \in Tokens
            BY DEF Tokens
        <3>. QED BY <3>1
    <2>. HIDE DEF x
    <2>5. Cut(x) = <<x>>
        BY <2>3, <2>4, CutOne
    <2>6. ~IsWord(x)
        BY <2>3 DEF IsWord, Words
    <2>7. 1 \in DOMAIN Cut(x) /\ Cut(x)[1] = x
        BY <2>5, SingletonAny
    <2>8. Refused(e, x)
        BY <1>3, <1>5, <2>3, <2>6, <2>7 DEF Refused
    <2>. QED BY <1>5, <2>1, <2>2, <2>8
<1>6. CASE l.kind \in {"dn", "oid"}
    <2>. DEFINE x == Joined("||", << >>)
    <2>1. values = <<x>>
        BY <1>1, <1>6, ValuesIs
    <2>2. ReadByRule(l.kind, values).list = Pushed(e, x) /\ (ReadByRule(l.kind, values).ok <=> ~Refused(e, x))
        BY <2>1, ReadOne
    <2>3. x = << >>
        <3>1. "||" \in Tokens
            BY DEF Tokens
        <3>2. << >> \in Seq(Tokens)
            BY EmptySeq
        <3>. QED BY <3>1, <3>2, JoinedFew
    <2>. HIDE DEF x
    <2>4. CASE l.kind = "dn"
        <3>1. ~IsName(x)
            <4>1. DOMAIN x = {} /\ Range(x) = {}
                BY <2>3, EmptyAny DEF Range
            <4>2. Fold(x) \notin Specials
                <5>1. DOMAIN Fold(x) = {}
                    BY <4>1 DEF Fold
                <5>2. \A p, q : DOMAIN <<p, q>> = 1..2 /\ 1 \in 1..2
                    OBVIOUS
                <5>3. \A s \in Specials : DOMAIN s # {}
                    BY <5>2 DEF Specials
                <5>. QED BY <5>1, <5>3
            <4>. QED BY <4>1, <4>2 DEF IsName
        <3>2. Refused(e, x)
            BY <1>3, <2>4, <3>1 DEF Refused
        <3>. QED BY <1>1, <2>1, <2>2, <2>4, <3>2
    <2>5. CASE l.kind = "oid"
        <3>1. ~IsOID(x)
            BY <2>3 DEF IsOID
        <3>2. Pushed(e, x) = [e EXCEPT !.slice = << >>]
            BY <1>3, <2>5, <3>1 DEF Pushed, OIDPushed
        <3>3. Pushed(e, x) = l
            <4>1. l.all = FALSE
                BY <1>1, <2>5
            <4>. HIDE DEF e
            <4>. QED BY <1>1, <1>2, <3>2, <4>1
        <3>4. ~Refused(e, x)
            BY <1>3, <2>5 DEF Refused
        <3>. QED BY <2>1, <2>2, <2>5, <3>3, <3>4
    <2>. QED BY <1>6, <2>4, <2>5
<1>. QED BY <1>1, <1>4, <1>5, <1>6 DEF Kinds

\* Words and attributes.
LEMMA WordsReadBack ==
    ASSUME NEW l, RealList(l), l.kind = "attr", l.slice # << >>, NEW mvq \in BOOLEAN, NEW values, values = Values(l, mvq)
    PROVE  /\ ReadByRule(l.kind, values).ok /\ ReadByRule(l.kind, values).list = l
           /\ \E x : values = <<x>>
<1>. DEFINE e == Empty("attr")
            s == l.slice
            n == Len(s)
            x == Joined("||", s)
<1>1. l = [kind |-> "attr", all |-> FALSE, slice |-> s] /\ s \in Seq(Seq(Tokens)) /\ (\A k \in DOMAIN s : IsWord(s[k])) /\ ~l.all
    BY DEF RealList, ValueOf
<1>2. n \in Nat /\ n > 0 /\ DOMAIN s = 1..n /\ \A k \in 1..n : s[k] \in Seq(Tokens)
    BY <1>1, LenProperties, ElementOfSeq, EmptySeq
<1>3. e = [kind |-> "attr", all |-> FALSE, slice |-> << >>]
    BY EmptyIs
<1>4. \A k \in 1..n : Len(s[k]) = 1 /\ s[k][1] # "||" /\ s[k][1] # "*"
    BY <1>1, <1>2 DEF IsWord, Words
<1>5. Cut(x) = s
    <2>1. \A k \in 1..Len(s) : \A i \in 1..Len(s[k]) : s[k][i] # "||"
        BY <1>4
    <2>2. "||" \in Tokens
        BY DEF Tokens
    <2>. HIDE DEF s
    <2>3. CutBy("||", Joined("||", s)) = s
        <3>1. Len(s) > 0
            BY <1>2
        <3>. QED BY <1>1, <2>1, <2>2, <3>1, CutOfJoined
    <2>. QED BY <2>3 DEF Cut
<1>6. x # <<"*">>
    <2>1. SUFFICES ASSUME x = <<"*">> PROVE FALSE
        OBVIOUS
    <2>2. <<"*">> \in Seq(Tokens) /\ Len(<<"*">>) = 1 /\ <<"*">>[1] = "*" /\ "*" # "||"
        <3>1. "*" \in Tokens
            BY DEF Tokens
        <3>. QED BY <3>1
    <2>3. Cut(x) = <<x>>
        <3>. HIDE DEF x
        <3>. QED BY <2>1, <2>2, CutOne
    <2>4. s[1] = x
        <3>. HIDE DEF x
        <3>. QED BY <1>5, <2>3, SingletonAny
    <2>5. 1 \in 1..n
        BY <1>2
    <2>. QED BY <1>4, <2>1, <2>4, <2>5
<1>7. values = <<x>>
    <2>1. ~l.all /\ l.kind # None
        BY <1>1 DEF None
    <2>. QED BY <2>1, ValuesIs
<1>8. ReadByRule("attr", values).list = Pushed(e, x) /\ (ReadByRule("attr", values).ok <=> ~Refused(e, x))
    BY <1>7, ReadOne
<1>9. ~Refused(e, x)
    <2>1. e.kind = "attr"
        BY <1>3
    <2>. HIDE DEF e, x
    <2>2. \A k \in DOMAIN Cut(x) : IsWord(Cut(x)[k])
        BY <1>1, <1>5
    <2>. QED BY <2>1, <2>2 DEF Refused
<1>10. Pushed(e, x) = l
    <2>1. e.kind = "attr" /\ ~e.all /\ e.slice = << >>
        BY <1>3
    <2>. DEFINE good == {k \in 0..Len(s) : \A j \in 1..k : IsWord(s[j])}
                m == CHOOSE k \in good : \A j \in good : j <= k
                t == << >> \o SubSeq(s, 1, m)
    <2>2. Pushed(e, x) = [e EXCEPT !.slice = @ \o SubSeq(s, 1, m)]
        <3>. HIDE DEF e, s
        <3>1. Pushed(e, x) = AttributePushed(e, x)
            BY <2>1 DEF Pushed
        <3>. QED BY <1>5, <1>6, <2>1, <3>1 DEF AttributePushed
    <2>3. m \in good /\ m \in 0..Len(s) /\ \A j \in good : j <= m
        <3>. HIDE DEF s
        <3>1. good = WordsTo(s) /\ m = WordsUntil(WordsTo(s))
            BY DEF WordsTo, WordsUntil
        <3>. HIDE DEF good, m
        <3>. QED BY <1>1, <3>1, WordsBefore
    <2>4. n \in good
        <3>1. n \in 0..Len(s) /\ \A j \in 1..n : IsWord(s[j])
            BY <1>1, <1>2
        <3>. QED BY <3>1
    <2>5. m = n
        <3>1. n <= m
            <4>. HIDE DEF m, good, n
            <4>. QED BY <2>3, <2>4
        <3>. HIDE DEF m, good
        <3>. QED BY <1>2, <2>3, <3>1
    <2>. HIDE DEF m
    <2>6. t = s
        <3>1. SubSeq(s, 1, n) = s
            BY <1>1, SubSeqFull
        <3>2. << >> \o s = s
            BY <1>1, ConcatEmptySeq
        <3>. QED BY <2>5, <3>1, <3>2
    <2>7. Pushed(e, x) = [kind |-> "attr", all |-> FALSE, slice |-> t]
        <3>. HIDE DEF e
        <3>. QED BY <1>3, <2>2
    <2>. QED BY <1>1, <2>6, <2>7
<1>. HIDE DEF e, x, s
<1>. QED BY <1>7, <1>8, <1>9, <1>10

\* Names and identifiers between two quotes.
LEMMA OneValueIs ==
    ASSUME NEW l, RealList(l), l.kind \in {"dn", "oid"}, l.slice # << >>
    PROVE  /\ Values(l, TRUE) = l.slice
           /\ Len(l.slice) = 1 => Values(l, FALSE) = l.slice
<1>1. ~l.all /\ l.slice \in Seq(Seq(Tokens)) /\ l.kind # None
    BY DEF RealList, None
<1>2. Values(l, TRUE) = l.slice /\ Values(l, FALSE) = <<Joined("||", l.slice)>>
    BY <1>1, ValuesIs
<1>3. ASSUME Len(l.slice) = 1 PROVE <<Joined("||", l.slice)>> = l.slice
    <2>. DEFINE x == l.slice[1]
                s == l.slice
    <2>1. x \in Seq(Tokens) /\ DOMAIN s = 1..1
        BY <1>1, <1>3, ElementOfSeq, LenProperties
    <2>. HIDE DEF x
    <2>2. s = <<x>>
        <3>1. <<x>> \in Seq(Seq(Tokens)) /\ Len(<<x>>) = 1 /\ <<x>>[1] = x
            BY <2>1
        <3>2. \A i \in 1..1 : <<x>>[i] = s[i]
            BY <3>1 DEF x
        <3>. QED BY <1>1, <1>3, <3>1, <3>2, SeqEqual
    <2>3. "||" \in Tokens
        BY DEF Tokens
    <2>4. Joined("||", <<x>>) = x
        BY <2>1, <2>3, JoinedFew
    <2>. HIDE DEF s
    <2>. QED BY <2>2, <2>4 DEF s
<1>. QED BY <1>2, <1>3

\* The second of several identifiers is one too many, wherever it is.
LEMMA IdentifiersTogether ==
    ASSUME NEW s \in Seq(Seq(Tokens)), Len(s) > 1, \A k \in 1..Len(s) : IsOID(s[k])
    PROVE  ~IsOID(Joined("||", s))
<1>. DEFINE B == Joined("||", s)
            n == Len(s)
<1>1. Len(s) \in Nat /\ Len(s) > 0 /\ 2 \in 1..Len(s) /\ 2 \in 2..Len(s) /\ 1 \in 1..Len(s) /\ "||" \in Tokens
    BY LenProperties DEF Tokens
<1>2. PICK st : B \in Seq(Tokens) /\ Placing("||", s, n, B, st)
    BY <1>1, JoinedPlaces
<1>. HIDE DEF B
<1>3. /\ st[1] = 0 /\ st[2] = st[1] + Len(s[1]) + 1 /\ st[2] \in 0..Len(B) /\ st[2] + Len(s[2]) <= Len(B)
      /\ \A i \in 1..Len(s[2]) : B[st[2] + i] = s[2][i]
    <2>1. 2 - 1 = 1
        OBVIOUS
    <2>. QED BY <1>1, <1>2, <2>1 DEF Placing
<1>4. s[2] # << >> /\ s[2][1] \in OIDs /\ s[2] \in Seq(Tokens) /\ s[1] \in Seq(Tokens)
    BY <1>1, ElementOfSeq DEF IsOID
<1>5. Len(s[1]) \in Nat /\ Len(s[2]) \in Nat /\ Len(s[2]) > 0 /\ Len(B) \in Nat
    BY <1>2, <1>4, LenProperties, EmptySeq
<1>. DEFINE i == st[2] + 1
            y == Len(s[1])
            z == Len(s[2])
            x == st[2]
            l == Len(B)
<1>6. i \in 2..Len(B) /\ B[i] \in OIDs
    <2>1. y \in Nat /\ z \in Nat /\ z > 0 /\ l \in Nat /\ x = 0 + y + 1 /\ x + z <= l
        BY <1>3, <1>5
    <2>2. B[i] = s[2][1]
        <3>1. 1 \in 1..Len(s[2])
            BY <1>5
        <3>. QED BY <1>3, <3>1
    <2>. HIDE DEF x, y, z, l
    <2>3. x + 1 \in 2..l
        BY <2>1
    <2>. QED BY <1>4, <2>2, <2>3 DEF x, l
<1>. HIDE DEF i
<1>7. ~IsOID(B)
    BY <1>6 DEF IsOID
<1>. QED BY <1>7 DEF B

\* The tokens of texts that are joined are those of the texts, and the separators.
LEMMA TokensJoined ==
    ASSUME NEW s \in Seq(Seq(Tokens)), Len(s) > 1
    PROVE  /\ Joined("||", s) \in Seq(Tokens)
           /\ "||" \in Range(Joined("||", s))
           /\ \A t : t # "||" => (t \in Range(Joined("||", s)) <=> \E k \in 1..Len(s) : t \in Range(s[k]))
           /\ Len(s[1]) > 0 => Len(Joined("||", s)) > 0 /\ Joined("||", s)[1] = s[1][1]
<1>. DEFINE B == Joined("||", s)
            n == Len(s)
            l == Len(B)
<1>1. n \in Nat /\ n > 1 /\ 2 \in 2..n /\ 1 \in 1..n /\ "||" \in Tokens /\ \A k \in 1..n : s[k] \in Seq(Tokens)
    BY LenProperties, ElementOfSeq DEF Tokens
<1>2. PICK st : B \in Seq(Tokens) /\ Placing("||", s, n, B, st)
    <2>1. Len(s) > 0
        BY <1>1
    <2>. QED BY <1>1, <2>1, JoinedPlaces
<1>. HIDE DEF B
<1>3. l \in Nat /\ DOMAIN B = 1..l /\ \A k \in 1..n : Len(s[k]) \in Nat /\ DOMAIN s[k] = 1..Len(s[k])
    BY <1>1, <1>2, LenProperties
<1>4. /\ \A k \in 1..n : st[k] \in 0..l /\ st[k] + Len(s[k]) <= l /\ \A i \in 1..Len(s[k]) : B[st[k] + i] = s[k][i]
      /\ \A k \in 2..n : st[k] = st[k - 1] + Len(s[k - 1]) + 1 /\ B[st[k]] = "||"
      /\ \A p \in 1..l : \E k \in 1..n : p \in st[k]..(st[k] + Len(s[k]))
      /\ st[1] = 0
    BY <1>2 DEF Placing
<1>. HIDE DEF n, l
<1>5. ASSUME NEW k \in 1..n, NEW i \in 1..Len(s[k]) PROVE st[k] + i \in 1..l /\ B[st[k] + i] = s[k][i]
    <2>. DEFINE x == st[k]
                y == Len(s[k])
    <2>1. x \in 0..l /\ y \in Nat /\ x + y <= l /\ i \in 1..y
        BY <1>3, <1>4
    <2>2. B[st[k] + i] = s[k][i]
        BY <1>4
    <2>. HIDE DEF x, y
    <2>3. x + i \in 1..l
        BY <1>3, <2>1
    <2>. QED BY <2>2, <2>3 DEF x
<1>6. "||" \in Range(B)
    <2>1. st[2] = st[1] + Len(s[1]) + 1 /\ B[st[2]] = "||" /\ st[2] \in 0..l
        <3>1. 2 \in 1..n /\ 2 - 1 = 1
            BY <1>1
        <3>. QED BY <1>1, <1>4, <3>1
    <2>2. st[2] \in 1..l
        BY <1>1, <1>3, <1>4, <2>1
    <2>. QED BY <1>3, <2>1, <2>2 DEF Range
<1>7. ASSUME NEW t, t # "||", t \in Range(B) PROVE \E k \in 1..n : t \in Range(s[k])
    <2>1. PICK p \in 1..l : B[p] = t
        BY <1>3, <1>7 DEF Range
    <2>2. PICK k \in 1..n : p \in st[k]..(st[k] + Len(s[k]))
        BY <1>4
    <2>3. p # st[k]
        <3>1. k = 1 \/ k \in 2..n
            BY <1>1
        <3>2. CASE k = 1
            BY <1>3, <1>4, <3>2
        <3>3. CASE k \in 2..n
            BY <1>4, <1>7, <2>1, <3>3
        <3>. QED BY <3>1, <3>2, <3>3
    <2>. DEFINE x == st[k]
                y == Len(s[k])
    <2>4. x \in 0..l /\ y \in Nat /\ p \in x..(x + y) /\ p # x
        BY <1>3, <1>4, <2>2, <2>3
    <2>. HIDE DEF x, y
    <2>5. p - x \in 1..y /\ x + (p - x) = p
        BY <1>3, <2>4
    <2>6. p - x \in 1..Len(s[k]) /\ B[p] = s[k][p - x]
        <3>1. B[x + (p - x)] = s[k][p - x]
            BY <1>5, <2>5 DEF x, y
        <3>. QED BY <2>5, <3>1 DEF y
    <2>. QED BY <1>3, <2>1, <2>6 DEF Range
<1>8. ASSUME NEW t, NEW k \in 1..n, t \in Range(s[k]) PROVE t \in Range(B)
    <2>1. PICK i \in 1..Len(s[k]) : s[k][i] = t
        BY <1>3, <1>8 DEF Range
    <2>2. st[k] + i \in 1..l /\ B[st[k] + i] = s[k][i]
        BY <1>5
    <2>. QED BY <1>3, <2>1, <2>2 DEF Range
<1>9. ASSUME Len(s[1]) > 0 PROVE l > 0 /\ B[1] = s[1][1]
    <2>1. 1 \in 1..Len(s[1])
        BY <1>1, <1>3, <1>9
    <2>2. st[1] + 1 \in 1..l /\ B[st[1] + 1] = s[1][1] /\ st[1] + 1 = 1
        BY <1>1, <1>4, <1>5, <2>1
    <2>. QED BY <1>3, <2>2
<1>. QED BY <1>2, <1>6, <1>7, <1>8, <1>9 DEF n, l, B

\* Names and identifiers that are read as one value.
LEMMA TogetherReadBack ==
    ASSUME NEW l, RealList(l), l.kind # None, Len(l.slice) > 1, NEW values, values = Values(l, FALSE)
    PROVE  /\ \E x : values = <<x>>
           /\ l.kind = "oid" => ReadByRule(l.kind, values).ok /\ ReadByRule(l.kind, values).list = Empty("oid")
           /\ l.kind = "dn" => LET named == \E v \in Range(l.slice) : Range(v) \cap Names # {}
                               IN  /\ ReadByRule(l.kind, values).ok <=> named
                                   /\ named => Values(ReadByRule(l.kind, values).list, FALSE) = values
<1>. DEFINE s == l.slice
            x == Joined("||", s)
            e == Empty(l.kind)
            named == \E v \in Range(s) : Range(v) \cap Names # {}
<1>1. ~l.all /\ s \in Seq(Seq(Tokens)) /\ (\A k \in DOMAIN s : ValueOf(l.kind, s[k])) /\ s # << >>
    <2>1. s \in Seq(Seq(Tokens)) /\ (\A k \in DOMAIN s : ValueOf(l.kind, s[k])) /\ (l.all => s = << >>)
        BY DEF RealList
    <2>2. s # << >>
        BY EmptySeq
    <2>. QED BY <2>1, <2>2
<1>2. ~(l.kind = None) /\ l.kind # "attr" => values = <<x>>
    BY <1>1, ValuesIs
<1>3. l.kind = "attr" => values = <<x>>
    <2>1. l.kind = "attr" => l.kind # None
        BY DEF None
    <2>. QED BY <1>1, <2>1, ValuesIs
<1>4. ReadByRule(l.kind, <<x>>).list = Pushed(e, x) /\ (ReadByRule(l.kind, <<x>>).ok <=> ~Refused(e, x))
    BY ReadOne
<1>5. e = [kind |-> l.kind, all |-> FALSE, slice |-> << >>] /\ e.kind = l.kind /\ e.slice = << >>
    BY EmptyIs
<1>6. DOMAIN s = 1..Len(s) /\ Len(s) \in Nat /\ 1 \in DOMAIN s
    BY <1>1, LenProperties
<1>7. /\ x \in Seq(Tokens) /\ "||" \in Range(x)
      /\ \A t : t # "||" => (t \in Range(x) <=> \E k \in 1..Len(s) : t \in Range(s[k]))
      /\ Len(s[1]) > 0 => Len(x) > 0 /\ x[1] = s[1][1]
    BY <1>1, TokensJoined
<1>. HIDE DEF x, e
<1>8. ASSUME l.kind = "oid" PROVE ReadByRule(l.kind, <<x>>).ok /\ ReadByRule(l.kind, <<x>>).list = Empty("oid")
    <2>1. ~IsOID(x)
        <3>1. \A k \in 1..Len(s) : IsOID(s[k])
            BY <1>1, <1>6, <1>8 DEF ValueOf
        <3>. QED BY <1>1, <3>1, IdentifiersTogether DEF x
    <2>2. Pushed(e, x) = [e EXCEPT !.slice = << >>]
        BY <1>5, <1>8, <2>1 DEF Pushed, OIDPushed
    <2>3. Pushed(e, x) = e
        BY <1>5, <2>2
    <2>4. ~Refused(e, x)
        BY <1>5, <1>8 DEF Refused
    <2>. QED BY <1>4, <1>8, <2>3, <2>4 DEF e
<1>9. ASSUME l.kind = "dn"
      PROVE  /\ ReadByRule(l.kind, <<x>>).ok <=> named
             /\ named => Values(ReadByRule(l.kind, <<x>>).list, FALSE) = <<x>>
    <2>1. Range(x) \cap Names # {} <=> named
        <3>1. \A t \in Names : t # "||"
            BY DEF Names
        <3>2. \A v : v \in Range(s) <=> \E k \in 1..Len(s) : v = s[k]
            BY <1>6 DEF Range
        <3>3. \A t \in Names : t \in Range(x) <=> \E k \in 1..Len(s) : t \in Range(s[k])
            BY <1>7, <3>1
        <3>. HIDE DEF s
        <3>. QED BY <3>2, <3>3
    <2>2. Fold(x) \notin Specials
        <3>1. PICK i \in DOMAIN x : x[i] = "||"
            BY <1>7 DEF Range
        <3>2. i \in DOMAIN Fold(x) /\ Fold(x)[i] = Lower("||")
            BY <3>1 DEF Fold
        <3>3. Lower("||") = "||"
            BY DEF Lower
        <3>4. \A p, q : DOMAIN <<p, q>> = 1..2 /\ <<p, q>>[1] = p /\ <<p, q>>[2] = q
            OBVIOUS
        <3>5. ASSUME NEW w \in Specials, NEW j \in DOMAIN w PROVE w[j] # "||"
            <4>1. Prefix # "||" /\ "anyone" # "||" /\ "all" # "||"
                BY DEF Prefix
            <4>2. PICK q \in {"anyone", "all"} : w = <<Prefix, q>>
                BY <3>5 DEF Specials
            <4>3. j \in 1..2 /\ w[1] = Prefix /\ w[2] = q
                BY <3>4, <3>5, <4>2
            <4>4. j = 1 \/ j = 2
                BY <4>3
            <4>. QED BY <4>1, <4>2, <4>3, <4>4
        <3>. QED BY <3>2, <3>3, <3>5
    <2>3. IsName(x) <=> named
        BY <2>1, <2>2 DEF IsName
    <2>4. ReadByRule(l.kind, <<x>>).ok <=> named
        BY <1>4, <1>5, <1>9, <2>3 DEF Refused
    <2>5. ASSUME named PROVE Values(Pushed(e, x), FALSE) = <<x>>
        <3>1. Prefixed(x) = x
            <4>1. Len(s[1]) > 0 /\ s[1][1] = Prefix
                BY <1>1, <1>6, <1>9 DEF ValueOf
            <4>. QED BY <1>7, <4>1, PrefixedIs
        <3>2. ~Among("dn", x, << >>)
            BY EmptyAny, AmongOne
        <3>3. NamePushed(<< >>, x) = <<x>>
            <4>1. NamePushed(<< >>, x) = Append(<< >>, x)
                BY <2>3, <2>5, <3>1, <3>2 DEF NamePushed
            <4>2. Append(<< >>, x) = <<x>>
                OBVIOUS
            <4>. QED BY <4>1, <4>2
        <3>4. Pushed(e, x) = [e EXCEPT !.slice = <<x>>]
            BY <1>5, <1>9, <3>3 DEF Pushed
        <3>. DEFINE p == Pushed(e, x)
        <3>5. p = [kind |-> "dn", all |-> FALSE, slice |-> <<x>>]
            BY <1>5, <1>9, <3>4
        <3>6. RealList(p)
            <4>1. RealList(e) /\ e.kind # None
                BY <1>5, <1>9, EmptyReal DEF e, Kinds, None
            <4>. QED BY <1>7, <4>1, PushedReal
        <3>. HIDE DEF p
        <3>7. p.kind = "dn" /\ p.all = FALSE /\ p.slice = <<x>> /\ p.kind # None
            BY <3>5 DEF None
        <3>8. Values(p, FALSE) = <<Joined("||", <<x>>)>>
            BY <3>6, <3>7, ValuesIs
        <3>9. Joined("||", <<x>>) = x
            <4>1. "||" \in Tokens
                BY DEF Tokens
            <4>. QED BY <1>7, <4>1, JoinedFew
        <3>. QED BY <3>8, <3>9 DEF p
    <2>. QED BY <1>4, <2>4, <2>5
<1>10. l.kind # None => values = <<x>>
    BY <1>2, <1>3
<1>. QED BY <1>8, <1>9, <1>10

LEMMA ItemReads ==
    ASSUME NEW l, RealList(l), l.kind # None, NEW mvq \in BOOLEAN, NEW values, values = Values(l, mvq)
    PROVE  ReadByItem(l.kind, values).ok <=> ReadByRule(l.kind, values).ok /\ Len(values) = 1
<1>1. l.slice \in Seq(Seq(Tokens))
    BY DEF RealList
<1>2. \A x : Len(<<x>>) \in Nat /\ DOMAIN <<x>> = 1..Len(<<x>>)
    OBVIOUS
<1>3. Len(l.slice) \in Nat /\ DOMAIN l.slice = 1..Len(l.slice)
    BY <1>1, LenProperties
<1>4. values = l.slice \/ \E x : values = <<x>>
    BY ValuesIs
<1>5. Len(values) \in Nat /\ DOMAIN values = 1..Len(values)
    BY <1>2, <1>3, <1>4
<1>. QED BY <1>5, ReadIs

\* The lists and the target rule item are as they can be written and read.
QuotedInv ==
    /\ list = [l \in Lists |-> list[l]] /\ \A l \in Lists : RealList(list[l])
    /\ target = [of |-> target.of, own |-> target.own, mvq |-> target.mvq]
    /\ target.of \in Lists \cup {None} /\ target.mvq \in BOOLEAN /\ RealList(target.own)

LEMMA OneRealList ==
    ASSUME QuotedInv, NEW l \in Lists, NEW v, RealList(v), list' = [list EXCEPT ![l] = v], target' = target
    PROVE  QuotedInv'
<1>1. list' = [m \in Lists |-> IF m = l THEN v ELSE list[m]]
    BY DEF QuotedInv
<1>2. \A m \in Lists : list'[m] = IF m = l THEN v ELSE list[m]
    BY <1>1
<1>3. list' = [m \in Lists |-> list'[m]]
    BY <1>1
<1>4. \A m \in Lists : RealList(list'[m])
    BY <1>2 DEF QuotedInv
<1>. QED BY <1>3, <1>4 DEF QuotedInv, RealList, ValueOf, IsOID, IsWord

\* What is written of a target rule item, whatever its list went through and whoever
\* shares it, is read again as the property says, by a rule and by an item alone.
THEOREM WhatIsQuotedIsReadBack == ListsSpec => []QuotedReadsBack
<1>1. ListsInit => QuotedInv
    <2>. SUFFICES ASSUME ListsInit PROVE QuotedInv
        OBVIOUS
    <2>1. RealList(NoList)
        <3>1. NoList = Empty(None)
            BY EmptyIs DEF NoList
        <3>. QED BY <3>1, EmptyReal
    <2>2. list = [l \in Lists |-> NoList] /\ target = [of |-> None, own |-> NoList, mvq |-> FALSE]
        BY DEF ListsInit
    <2>. QED BY <2>1, <2>2 DEF QuotedInv
<1>2. QuotedInv /\ [ListsNext]_listVars => QuotedInv'
    <2>. SUFFICES ASSUME QuotedInv, [ListsNext]_listVars PROVE QuotedInv'
        OBVIOUS
    <2>0. (\A l \in Lists : RealList(list[l])) /\ RealList(target.own)
        BY DEF QuotedInv
    <2>1. ASSUME NEW l \in Lists, NEW kind \in Kinds, NewList(l, kind) PROVE QuotedInv'
        <3>1. RealList(Empty(kind))
            BY EmptyReal
        <3>. QED BY <2>1, <3>1, OneRealList DEF NewList
    <2>2. ASSUME NEW l \in Lists, NEW s, list[l].kind # None, s \in ListTexts[list[l].kind], Push(l, s) PROVE QuotedInv'
        <3>1. list[l].kind \in Kinds
            BY <2>0, <2>2 DEF RealList
        <3>2. s \in Seq(Tokens)
            BY <2>2, <3>1, TextsType
        <3>3. RealList(Pushed(list[l], s))
            BY <2>0, <2>2, <3>2, PushedReal
        <3>4. list' = [list EXCEPT ![l] = Pushed(list[l], s)] /\ target' = target
            BY <2>2 DEF Push, QuotedInv
        <3>. QED BY <3>3, <3>4, OneRealList
    <2>3. ASSUME NEW l \in Lists, NEW m \in Lists, PushList(l, m) PROVE QuotedInv'
        <3>1. RealList(Merged(list[l], list[m]))
            BY <2>0, <2>3, MergedReal DEF PushList
        <3>2. list' = [list EXCEPT ![l] = Merged(list[l], list[m])] /\ target' = target
            BY <2>3 DEF PushList, QuotedInv
        <3>. QED BY <3>1, <3>2, OneRealList
    <2>4. ASSUME list' = list, target'.of \in Lists \cup {None}, target'.mvq \in BOOLEAN, RealList(target'.own),
                 target' = [of |-> target'.of, own |-> target'.own, mvq |-> target'.mvq]
          PROVE  QuotedInv'
        BY <2>4 DEF QuotedInv
    <2>5. ASSUME NEW l \in Lists, NewRuleItem(l) PROVE QuotedInv'
        <3>. DEFINE w == list[l]
        <3>1. RealList(w) /\ w.kind # None /\ list' = list
            BY <2>0, <2>5 DEF NewRuleItem
        <3>2. w.kind \in Kinds /\ RealList(NoList)
            <4>1. NoList = Empty(None)
                BY EmptyIs DEF NoList
            <4>. QED BY <3>1, <4>1, EmptyReal DEF RealList
        <3>3. RealList(Copied(w))
            <4>1. RealList(Empty(w.kind)) /\ Empty(w.kind).kind = w.kind
                BY <3>2, EmptyReal
            <4>2. RealList(Merged(Empty(w.kind), w))
                BY <3>1, <4>1, MergedReal
            <4>. QED BY <3>1, <4>2 DEF Copied
        <3>4. target' = [of |-> None, own |-> Copied(w), mvq |-> FALSE] \/ target' = [of |-> l, own |-> NoList, mvq |-> FALSE]
            BY <2>5 DEF NewRuleItem
        <3>5. \A v : \A o \in Lists \cup {None} : RealList(v) /\ target' = [of |-> o, own |-> v, mvq |-> FALSE] => QuotedInv'
            BY <2>4, <3>1
        <3>. HIDE DEF w
        <3>. QED BY <3>2, <3>3, <3>4, <3>5
    <2>6. ASSUME NEW l \in Lists, ShareList(l) PROVE QuotedInv'
        <3>1. RealList(NoList)
            <4>1. NoList = Empty(None)
                BY EmptyIs DEF NoList
            <4>. QED BY <4>1, EmptyReal
        <3>2. list' = list /\ target' = [target EXCEPT !.of = l, !.own = NoList]
            BY <2>6 DEF ShareList
        <3>3. target' = [of |-> l, own |-> NoList, mvq |-> target.mvq]
            BY <3>2 DEF QuotedInv
        <3>. QED BY <2>4, <3>1, <3>2, <3>3 DEF QuotedInv
    <2>7. ASSUME NEW mvq \in BOOLEAN, SetQuotationStyle(mvq) PROVE QuotedInv'
        <3>1. list' = list /\ target' = [target EXCEPT !.mvq = mvq]
            BY <2>7 DEF SetQuotationStyle
        <3>2. target' = [of |-> target.of, own |-> target.own, mvq |-> mvq]
            BY <3>1 DEF QuotedInv
        <3>. QED BY <2>0, <2>4, <3>1, <3>2 DEF QuotedInv
    <2>8. CASE UNCHANGED listVars
        BY <2>8 DEF QuotedInv, listVars
    <2>. QED BY <2>1, <2>2, <2>3, <2>5, <2>6, <2>7, <2>8 DEF ListsNext
<1>3. QuotedInv => QuotedReadsBack
    <2>. SUFFICES ASSUME QuotedInv, Expression(target).kind # None PROVE QuotedReadsBack
        BY Zenon DEF QuotedReadsBack
    <2>. DEFINE l == Expression(target)
                mvq == target.mvq
                values == Values(l, mvq)
                back == ReadByRule(l.kind, values)
    <2>1. RealList(l) /\ mvq \in BOOLEAN /\ l.slice \in Seq(Seq(Tokens)) /\ l.kind \in Kinds /\ l.kind # None
        BY DEF QuotedInv, Expression, RealList
    <2>2. (l.slice # << >> <=> Len(l.slice) > 0) /\ Len(l.slice) \in Nat /\ (l.kind # "attr" <=> l.kind \in {"dn", "oid"})
        BY <2>1, EmptySeq, LenProperties DEF Kinds
    <2>. HIDE DEF l, mvq
    <2>3. ReadByItem(l.kind, values).ok <=> back.ok /\ Len(values) = 1
        BY <2>1, ItemReads
    <2>4. l.slice = << >> => (back.ok /\ back.list = l <=> l.all \/ l.kind = "oid")
        BY <2>1, EmptyReadsBack
    <2>5. l.slice # << >> /\ l.kind = "attr" => back.ok /\ back.list = l
        BY <2>1, WordsReadBack
    <2>6. l.slice # << >> /\ l.kind # "attr" /\ (mvq \/ Len(l.slice) = 1) =>
            (back.ok /\ back.list = l <=> Distinct(l) /\ (l.kind = "dn" => \A v \in Range(l.slice) : IsName(v)))
        <3>1. SUFFICES ASSUME l.slice # << >>, l.kind # "attr", mvq \/ Len(l.slice) = 1
                       PROVE  back.ok /\ back.list = l <=> Distinct(l) /\ (l.kind = "dn" => \A v \in Range(l.slice) : IsName(v))
            OBVIOUS
        <3>2. Values(l, mvq) = l.slice
            BY <2>1, <2>2, <3>1, OneValueIs
        <3>. QED BY <2>1, <2>2, <3>1, <3>2, TurnsReadBack
    <2>7. Len(l.slice) > 1 /\ ~mvq =>
            /\ l.kind = "oid" => back.ok /\ back.list = Empty("oid")
            /\ l.kind = "dn"  => LET named == \E v \in Range(l.slice) : Range(v) \cap Names # {}
                                 IN  (back.ok <=> named) /\ (named => Values(back.list, FALSE) = values)
        <3>1. SUFFICES ASSUME Len(l.slice) > 1, ~mvq
                       PROVE  /\ l.kind = "oid" => back.ok /\ back.list = Empty("oid")
                              /\ l.kind = "dn"  => LET named == \E v \in Range(l.slice) : Range(v) \cap Names # {}
                                                   IN  (back.ok <=> named) /\ (named => Values(back.list, FALSE) = values)
            OBVIOUS
        <3>2. values = Values(l, FALSE)
            BY <2>1, <3>1
        <3>. QED BY <2>1, <3>1, <3>2, TogetherReadBack
    <2>. HIDE DEF values, back
    <2>8. QuotedReadsBack <=>
            (l.kind # None =>
              /\ ReadByItem(l.kind, values).ok <=> back.ok /\ Len(values) = 1
              /\ l.slice = << >> => (back.ok /\ back.list = l <=> l.all \/ l.kind = "oid")
              /\ l.slice # << >> /\ l.kind = "attr" => back.ok /\ back.list = l
              /\ l.slice # << >> /\ l.kind # "attr" /\ (mvq \/ Len(l.slice) = 1) =>
                   (back.ok /\ back.list = l <=> Distinct(l) /\ (l.kind = "dn" => \A v \in Range(l.slice) : IsName(v)))
              /\ Len(l.slice) > 1 /\ ~mvq =>
                   /\ l.kind = "oid" => back.ok /\ back.list = Empty("oid")
                   /\ l.kind = "dn"  => LET named == \E v \in Range(l.slice) : Range(v) \cap Names # {}
                                        IN  (back.ok <=> named) /\ (named => Values(back.list, FALSE) = values))
        BY Zenon DEF QuotedReadsBack, l, mvq, values, back
    <2>. QED BY <2>3, <2>4, <2>5, <2>6, <2>7, <2>8, Zenon
<1>. QED BY <1>1, <1>2, <1>3, PTL DEF ListsSpec

-----------------------------------------------------------------------------
(* AttributeFilterOperations: the text of a piece                          *)

AfoTokens ==
    {"add=", "delete=", "&&", ",", ";", ":", "(o=", ")", "*", "nil", "any", "invalid", Unnamed} \cup Attributes
      \cup UNION {Range(s) : s \in FilterValues \cup OperationTexts \cup ItemTexts}
AfoTexts  == Seq(AfoTokens)
AfoValues == {v \in AfoTexts : Len(v) > 0 /\ \A i \in 1..Len(v) : v[i] \notin {"(o=", ")", "bad"}}
AfoPieces == [attribute : Attributes \cup {Unnamed, "nil"}, value : AfoValues]

LEMMA TokensType ==
    /\ {"add=", "delete=", "&&", ",", ";", ":", "(o=", ")", "*", "nil", "any", "invalid", "cn", "sn", Unnamed} \subseteq AfoTokens
    /\ OperationTexts \subseteq AfoTexts /\ ItemTexts \subseteq AfoTexts /\ FilterValues \subseteq AfoValues
<1>1. {"add=", "delete=", "&&", ",", ";", ":", "(o=", ")", "*", "nil", "any", "invalid", "cn", "sn", Unnamed} \subseteq AfoTokens
    BY DEF AfoTokens, Attributes
<1>2. \A s \in FilterValues \cup OperationTexts \cup ItemTexts : s \in Seq(Range(s)) /\ Range(s) \subseteq AfoTokens
    BY FilterValuesAssumption, TextsAssumption DEF AfoTokens
<1>3. \A s \in FilterValues \cup OperationTexts \cup ItemTexts : s \in AfoTexts
    BY <1>2, SeqMonotonic DEF AfoTexts
<1>4. ASSUME NEW v \in FilterValues PROVE v \in AfoValues
    <2>1. v \in AfoTexts /\ v # << >> /\ Range(v) \cap {"(o=", ")", "bad"} = {}
        BY <1>3, FilterValuesAssumption
    <2>2. Len(v) > 0 /\ DOMAIN v = 1..Len(v)
        BY <2>1, LenProperties, EmptySeq DEF AfoTexts
    <2>3. \A i \in 1..Len(v) : v[i] \in Range(v)
        BY <2>2 DEF Range
    <2>. QED BY <2>1, <2>2, <2>3 DEF AfoValues
<1>. QED BY <1>1, <1>3, <1>4

LEMMA SingleValue ==
    ASSUME NEW t \in AfoTokens, t \notin {"(o=", ")", "bad"}
    PROVE  <<t>> \in AfoValues
<1>1. <<t>> \in Seq(AfoTokens) /\ Len(<<t>>) = 1 /\ <<t>>[1] = t
    OBVIOUS
<1>2. \A i \in 1..1 : i = 1
    OBVIOUS
<1>. DEFINE v == <<t>>
<1>. HIDE DEF v
<1>3. v \in Seq(AfoTokens) /\ Len(v) = 1 /\ v[1] = t
    BY <1>1 DEF v
<1>4. v \in AfoValues
    <2>1. \A i \in 1..Len(v) : v[i] = t
        BY <1>2, <1>3
    <2>2. Len(v) > 0 /\ \A i \in 1..Len(v) : v[i] \notin {"(o=", ")", "bad"}
        BY <1>3, <2>1
    <2>. QED BY <1>3, <2>2 DEF AfoValues, AfoTexts
<1>. QED BY <1>4 DEF v

LEMMA SpecialValues == NilFilter \in AfoValues /\ InvalidFilter \in AfoValues /\ DefaultValue \in AfoValues
<1>1. "nil" \in AfoTokens /\ "invalid" \in AfoTokens /\ "any" \in AfoTokens
    BY TokensType
<1>. QED BY <1>1, SingleValue DEF NilFilter, InvalidFilter, DefaultValue

\* What is written of a filter, token by token.
LEMMA FilterTextIs ==
    ASSUME NEW v \in AfoValues, v # InvalidFilter
    PROVE  LET x == FilterText(v)
           IN  /\ x \in AfoTexts /\ Len(x) = Len(v) + 2 /\ x[1] = "(o=" /\ x[Len(v) + 2] = ")"
               /\ \A i \in 1..Len(v) : x[i + 1] = v[i]
               /\ SubSeq(x, 2, Len(x) - 1) = v
<1>. DEFINE p == "(o="
            q == ")"
            n == Len(v)
            u == v \o <<q>>
            x == <<p>> \o u
<1>1. p \in AfoTokens /\ q \in AfoTokens /\ v \in Seq(AfoTokens) /\ n \in Nat
    BY TokensType, LenProperties DEF AfoValues, AfoTexts
<1>2. (<<p>> \o v) \o <<q>> = x
    <2>1. <<p>> \in Seq(AfoTokens) /\ <<q>> \in Seq(AfoTokens)
        BY <1>1
    <2>. HIDE DEF p, q
    <2>. QED BY <1>1, <2>1, ConcatAssociative
<1>3. FilterText(v) = x
    BY <1>2 DEF FilterText
<1>. HIDE DEF p, q
<1>4. <<p>> \in Seq(AfoTokens) /\ Len(<<p>>) = 1 /\ <<p>>[1] = p /\ <<q>> \in Seq(AfoTokens) /\ Len(<<q>>) = 1 /\ <<q>>[1] = q
    BY <1>1
<1>5. u \in Seq(AfoTokens) /\ Len(u) = n + 1 /\ u[n + 1] = q /\ \A i \in 1..n : u[i] = v[i]
    <2>. DEFINE b == <<q>>
    <2>1. b \in Seq(AfoTokens) /\ Len(b) = 1 /\ b[1] = q
        BY <1>4
    <2>. HIDE DEF b
    <2>2. v \o b \in Seq(AfoTokens) /\ Len(v \o b) = n + 1 /\ \A i \in 1..(n + 1) : (v \o b)[i] = IF i <= n THEN v[i] ELSE b[i - n]
        BY <1>1, <2>1, ConcatProperties
    <2>. HIDE DEF n
    <2>3. n + 1 \in 1..(n + 1) /\ ~(n + 1 <= n) /\ (n + 1) - n = 1 /\ \A i \in 1..n : i \in 1..(n + 1) /\ i <= n
        BY <1>1
    <2>. QED BY <2>1, <2>2, <2>3 DEF b
<1>. HIDE DEF u, n
<1>6. x \in Seq(AfoTokens) /\ Len(x) = n + 2 /\ x[1] = p /\ \A i \in 1..(n + 1) : x[i + 1] = u[i]
    <2>. DEFINE a == <<p>>
    <2>1. a \in Seq(AfoTokens) /\ Len(a) = 1 /\ a[1] = p
        BY <1>4
    <2>. HIDE DEF a
    <2>2. a \o u \in Seq(AfoTokens) /\ Len(a \o u) = 1 + (n + 1)
          /\ \A i \in 1..(1 + (n + 1)) : (a \o u)[i] = IF i <= 1 THEN a[i] ELSE u[i - 1]
        <3>1. /\ a \o u \in Seq(AfoTokens) /\ Len(a \o u) = Len(a) + Len(u)
              /\ \A i \in 1..(Len(a) + Len(u)) : (a \o u)[i] = IF i <= Len(a) THEN a[i] ELSE u[i - Len(a)]
            BY <1>5, <2>1, ConcatProperties
        <3>2. Len(a) = 1 /\ Len(u) = n + 1
            BY <1>5, <2>1
        <3>. HIDE DEF n
        <3>. QED BY <3>1, <3>2
    <2>3. 1 \in 1..(1 + (n + 1)) /\ \A i \in 1..(n + 1) : i + 1 \in 1..(1 + (n + 1)) /\ ~(i + 1 <= 1) /\ (i + 1) - 1 = i
        BY <1>1
    <2>4. 1 + (n + 1) = n + 2 /\ 1 <= 1
        BY <1>1
    <2>. QED BY <2>1, <2>2, <2>3, <2>4 DEF a
<1>. HIDE DEF x
<1>7. x[n + 2] = q /\ \A i \in 1..n : x[i + 1] = v[i]
    <2>1. n + 1 \in 1..(n + 1) /\ (n + 1) + 1 = n + 2 /\ \A i \in 1..n : i \in 1..(n + 1)
        BY <1>1
    <2>. QED BY <1>5, <1>6, <2>1
<1>8. SubSeq(x, 2, n + 1) = v
    <2>. DEFINE w == SubSeq(x, 2, n + 1)
    <2>1. 2 \in Int /\ n + 1 \in Int /\ (n + 1) - 2 + 1 = n /\ (IF 2 <= n + 1 THEN (n + 1) - 2 + 1 ELSE 0) = n
        BY <1>1
    <2>2. \A i \in 2..(n + 1) : x[i] \in AfoTokens
        <3>1. \A i \in 2..(n + 1) : i \in 1..Len(x)
            BY <1>1, <1>6
        <3>. QED BY <1>6, <3>1, ElementOfSeq
    <2>3. w \in Seq(AfoTokens) /\ Len(w) = n /\ \A i \in 1..n : w[i] = x[2 + i - 1]
        BY <2>1, <2>2, SubSeqProperties
    <2>4. \A i \in 1..n : 2 + i - 1 = i + 1
        BY <1>1
    <2>. HIDE DEF w
    <2>5. \A i \in 1..n : w[i] = v[i]
        BY <1>7, <2>3, <2>4
    <2>6. Len(v) = n
        BY DEF n
    <2>7. w = v
        BY <1>1, <2>3, <2>5, <2>6, SeqEqual
    <2>. QED BY <2>7 DEF w
<1>9. Len(x) - 1 = n + 1
    BY <1>1, <1>6
<1>. QED BY <1>3, <1>6, <1>7, <1>8, <1>9 DEF p, q, n, AfoTexts

\* The attribute and the colon in front of a filter's text.
LEMMA HeadOfPiece ==
    ASSUME NEW a \in Attributes \cup {Unnamed}, NEW y \in AfoTexts
    PROVE  LET x == <<a, ":">> \o y
           IN  /\ x \in AfoTexts /\ Len(x) = Len(y) + 2 /\ x[1] = a /\ x[2] = ":" /\ \A i \in 1..Len(y) : x[i + 2] = y[i]
               /\ PieceRead(x) = [attribute |-> AttributeRead(<<a>>), value |-> FilterRead(y)]
<1>. DEFINE c == ":"
            u == <<a, c>>
            x == u \o y
            n == Len(y)
<1>1. a \in AfoTokens /\ c \in AfoTokens /\ y \in Seq(AfoTokens) /\ n \in Nat
    BY TokensType, LenProperties DEF AfoTexts, Attributes
<1>2. u \in Seq(AfoTokens) /\ Len(u) = 2 /\ u[1] = a /\ u[2] = c
    <2>. HIDE DEF c
    <2>. QED BY <1>1
<1>. HIDE DEF u
<1>3. /\ x \in Seq(AfoTokens) /\ Len(x) = 2 + n
      /\ \A i \in 1..(2 + n) : x[i] = IF i <= 2 THEN u[i] ELSE y[i - 2]
    <2>1. /\ x \in Seq(AfoTokens) /\ Len(x) = Len(u) + Len(y)
          /\ \A i \in 1..(Len(u) + Len(y)) : x[i] = IF i <= Len(u) THEN u[i] ELSE y[i - Len(u)]
        BY <1>1, <1>2, ConcatProperties
    <2>2. Len(u) = 2 /\ Len(y) = n
        BY <1>2
    <2>. HIDE DEF x, n
    <2>. QED BY <2>1, <2>2
<1>4. SubSeq(x, 1, 2) = u /\ SubSeq(x, 3, Len(x)) = y
    <2>1. SubSeq(u \o y, 1, Len(u)) = u /\ SubSeq(u \o y, Len(u) + 1, Len(u \o y)) = y
        BY <1>1, <1>2, CutConcat
    <2>2. Len(u) = 2 /\ Len(u) + 1 = 3
        BY <1>2
    <2>. QED BY <2>1, <2>2, Zenon
<1>. HIDE DEF x, n
<1>5. x[1] = a /\ x[2] = c /\ \A i \in 1..n : x[i + 2] = y[i]
    <2>1. 1 \in 1..(2 + n) /\ 2 \in 1..(2 + n) /\ \A i \in 1..n : i + 2 \in 1..(2 + n) /\ ~(i + 2 <= 2) /\ (i + 2) - 2 = i
        BY <1>1
    <2>. QED BY <1>2, <1>3, <2>1
<1>6. a # ":"
    BY DEF Attributes, Unnamed
<1>7. DOMAIN x = 1..Len(x) /\ 1 \in DOMAIN x /\ 2 \in DOMAIN x
    BY <1>1, <1>3, LenProperties
<1>8. Holds(x, {":"})
    BY <1>5, <1>7 DEF Holds
<1>9. First(x, {":"}) = 2
    <2>1. \A i \in DOMAIN x : x[i] \in {":"} /\ (\A j \in 1..(i - 1) : x[j] \notin {":"}) <=> i = 2
        <3>1. ASSUME NEW i \in DOMAIN x, x[i] = ":", \A j \in 1..(i - 1) : x[j] # ":" PROVE i = 2
            <4>1. i \in Nat /\ i # 1 /\ i >= 1
                BY <1>1, <1>3, <1>5, <1>6, <1>7, <3>1
            <4>2. ~(2 \in 1..(i - 1))
                BY <1>5, <3>1
            <4>. QED BY <4>1, <4>2
        <3>2. \A j \in 1..(2 - 1) : j = 1
            OBVIOUS
        <3>3. x[2] \in {":"} /\ \A j \in 1..(2 - 1) : x[j] \notin {":"}
            BY <1>5, <1>6, <3>2
        <3>. QED BY <3>1, <3>3
    <2>. QED BY <1>7, <2>1 DEF First
<1>10. Before(x, 2) = <<a>> /\ After(x, 2) = y
    <2>1. SubSeq(x, 1, 1) = <<x[1]>>
        <3>1. 1 \in 1..Len(x)
            BY <1>7
        <3>. QED BY <1>3, <3>1, OneToken
    <2>2. 2 - 1 = 1 /\ 2 + 1 = 3
        OBVIOUS
    <2>. QED BY <1>4, <1>5, <2>1, <2>2 DEF Before, After
<1>11. PieceRead(x) = [attribute |-> AttributeRead(<<a>>), value |-> FilterRead(y)]
    BY <1>8, <1>9, <1>10 DEF PieceRead
<1>12. Len(x) = n + 2
    BY <1>1, <1>3
<1>. QED BY <1>3, <1>5, <1>11, <1>12 DEF x, u, n, AfoTexts

LEMMA AttributeReads ==
    /\ \A a \in Attributes : AttributeRead(<<a>>) = a
    /\ AttributeRead(<<Unnamed>>) = "nil"
    /\ \A s : AttributeRead(s) \in Attributes \cup {Unnamed, "nil"}
<1>1. ASSUME NEW a \in Attributes PROVE AttributeRead(<<a>>) = a
    <2>1. Len(<<a>>) = 1 /\ <<a>>[1] = a /\ <<a>> # <<"*">>
        <3>1. a # "*"
            BY DEF Attributes
        <3>. QED BY <3>1
    <2>. QED BY <2>1 DEF AttributeRead
<1>2. AttributeRead(<<Unnamed>>) = "nil"
    <2>1. Len(<<Unnamed>>) = 1 /\ <<Unnamed>>[1] = Unnamed /\ Unnamed # "*" /\ Unnamed \notin Attributes
        BY DEF Unnamed, Attributes
    <2>2. <<Unnamed>> # <<"*">>
        BY <2>1
    <2>. QED BY <2>1, <2>2 DEF AttributeRead
<1>3. ASSUME NEW s PROVE AttributeRead(s) \in Attributes \cup {Unnamed, "nil"}
    <2>1. CASE s = <<"*">>
        <3>1. ~(Len(s) = 1 /\ s[1] \in Attributes)
            <4>1. s[1] = "*"
                BY <2>1
            <4>. QED BY <4>1 DEF Attributes
        <3>. QED BY <2>1, <3>1 DEF AttributeRead
    <2>2. CASE s # <<"*">> /\ Len(s) = 1 /\ s[1] \in Attributes
        BY <2>2 DEF AttributeRead
    <2>3. CASE s # <<"*">> /\ ~(Len(s) = 1 /\ s[1] \in Attributes)
        BY <2>3 DEF AttributeRead
    <2>. QED BY <2>1, <2>2, <2>3
<1>. QED BY <1>1, <1>2, <1>3

\* A value is read again as it is written; the invalid one is not.
LEMMA FilterAgain ==
    ASSUME NEW v \in AfoValues
    PROVE  FilterRead(FilterText(v)) = v <=> v # InvalidFilter
<1>1. CASE v = InvalidFilter
    <2>1. FilterText(v) = << >>
        BY <1>1 DEF FilterText
    <2>2. FilterRead(<< >>) = DefaultValue
        BY DEF FilterRead
    <2>3. DefaultValue # InvalidFilter
        <3>1. <<"any">>[1] = "any" /\ <<"invalid">>[1] = "invalid"
            OBVIOUS
        <3>. QED BY <3>1 DEF DefaultValue, InvalidFilter
    <2>. QED BY <1>1, <2>1, <2>2, <2>3
<1>2. CASE v # InvalidFilter
    <2>. DEFINE x == FilterText(v)
                n == Len(v)
    <2>1. /\ x \in AfoTexts /\ Len(x) = n + 2 /\ x[1] = "(o=" /\ x[n + 2] = ")"
          /\ (\A i \in 1..n : x[i + 1] = v[i]) /\ SubSeq(x, 2, Len(x) - 1) = v
        BY <1>2, FilterTextIs
    <2>2. n \in Nat /\ n > 0 /\ DOMAIN v = 1..n /\ \A i \in 1..n : v[i] \notin {"(o=", ")", "bad"}
        BY LenProperties DEF AfoValues, AfoTexts
    <2>. HIDE DEF x, n
    <2>3. x # << >> /\ ~(Len(x) < 3) /\ Last(x) = ")"
        <3>1. Len(x) # 0
            BY <2>1, <2>2
        <3>2. x # << >>
            BY <3>1, EmptySeq
        <3>3. ~(Len(x) < 3)
            BY <2>1, <2>2
        <3>. QED BY <2>1, <3>2, <3>3 DEF Last
    <2>4. ~Holds(SubSeq(x, 2, Len(x) - 1), {"(o=", ")"})
        BY <2>1, <2>2 DEF Holds
    <2>5. "bad" \notin Range(x)
        <3>1. DOMAIN x = 1..(n + 2)
            BY <2>1, LenProperties DEF AfoTexts
        <3>2. \A i \in 1..(n + 2) : i = 1 \/ i = n + 2 \/ (i - 1 \in 1..n /\ (i - 1) + 1 = i)
            BY <2>2
        <3>3. \A i \in 1..(n + 2) : x[i] # "bad"
            BY <2>1, <2>2, <3>2
        <3>. QED BY <3>1, <3>3 DEF Range
    <2>6. FilterRead(x) = SubSeq(x, 2, Len(x) - 1)
        BY <2>1, <2>3, <2>4, <2>5 DEF FilterRead
    <2>. QED BY <1>2, <2>1, <2>6 DEF x
<1>. QED BY <1>1, <1>2

\* What NewFilter makes of a text.
LEMMA FilterReads ==
    ASSUME NEW s \in AfoTexts
    PROVE  FilterRead(s) \in AfoValues /\ Range(FilterRead(s)) \subseteq Range(s) \cup {"any", "nil", "invalid"}
<1>1. Len(s) \in Nat /\ DOMAIN s = 1..Len(s) /\ s \in Seq(AfoTokens)
    BY LenProperties DEF AfoTexts
<1>2. Range(DefaultValue) = {"any"} /\ Range(NilFilter) = {"nil"} /\ Range(InvalidFilter) = {"invalid"}
    <2>1. \A e : DOMAIN <<e>> = {1} /\ <<e>>[1] = e
        BY SingletonAny
    <2>. QED BY <2>1 DEF Range, DefaultValue, NilFilter, InvalidFilter
<1>3. CASE FilterRead(s) \in {DefaultValue, NilFilter, InvalidFilter}
    BY <1>2, <1>3, SpecialValues
<1>4. CASE FilterRead(s) \notin {DefaultValue, NilFilter, InvalidFilter}
    <2>. DEFINE v == SubSeq(s, 2, Len(s) - 1)
    <2>1. FilterRead(s) = v /\ ~(Len(s) < 3) /\ ~Holds(v, {"(o=", ")"}) /\ "bad" \notin Range(s)
        BY <1>4 DEF FilterRead
    <2>2. 2 \in 1..(Len(s) + 1) /\ Len(s) - 1 \in 0..Len(s)
        BY <1>1, <2>1
    <2>3. v \in Seq(AfoTokens) /\ Range(v) \subseteq Range(s)
        BY <1>1, <2>2, PieceAny
    <2>4. Len(v) = Len(s) - 2
        <3>1. \A i \in 2..(Len(s) - 1) : s[i] \in AfoTokens
            <4>1. \A i \in 2..(Len(s) - 1) : i \in 1..Len(s)
                BY <1>1
            <4>. QED BY <1>1, <4>1, ElementOfSeq
        <3>2. 2 \in Int /\ Len(s) - 1 \in Int
            BY <1>1
        <3>3. Len(v) = IF 2 <= Len(s) - 1 THEN (Len(s) - 1) - 2 + 1 ELSE 0
            BY <3>1, <3>2, SubSeqProperties
        <3>4. Len(s) \in Nat /\ 2 <= Len(s) - 1 /\ (Len(s) - 1) - 2 + 1 = Len(s) - 2
            BY <1>1, <2>1
        <3>. HIDE DEF v
        <3>. QED BY <3>3, <3>4
    <2>. HIDE DEF v
    <2>5. Len(v) > 0 /\ DOMAIN v = 1..Len(v)
        BY <1>1, <2>1, <2>3, <2>4, LenProperties
    <2>6. \A i \in 1..Len(v) : v[i] \notin {"(o=", ")"} /\ v[i] \in Range(s)
        BY <2>1, <2>3, <2>5 DEF Holds, Range
    <2>7. v \in AfoValues
        BY <2>1, <2>3, <2>5, <2>6 DEF AfoValues, AfoTexts
    <2>. QED BY <2>1, <2>3, <2>7
<1>. QED BY <1>3, <1>4

LEMMA PieceFields ==
    ASSUME NEW f \in AfoPieces
    PROVE  /\ f.value \in AfoValues /\ f.attribute \in Attributes \cup {Unnamed, "nil"}
           /\ f = [attribute |-> f.attribute, value |-> f.value]
           /\ ValidFilter(f) => f.attribute \in Attributes \cup {Unnamed}
BY DEF AfoPieces, ValidFilter

LEMMA PieceTextIs ==
    ASSUME NEW f \in AfoPieces
    PROVE  LET x == PieceText(f)
               n == Len(f.value)
           IN  /\ x \in AfoTexts /\ n \in Nat /\ n > 0
               /\ ~ValidFilter(f) => x = << >>
               /\ ValidFilter(f) => /\ PieceRead(x) = [attribute |-> AttributeRead(<<f.attribute>>), value |-> FilterRead(FilterText(f.value))]
                                    /\ Len(x) >= 2 /\ x[1] = f.attribute /\ x[2] = ":"
               /\ ValidFilter(f) /\ f.value = InvalidFilter => Len(x) = 2
               /\ ValidFilter(f) /\ f.value # InvalidFilter =>
                    Len(x) = n + 4 /\ x[3] = "(o=" /\ x[n + 4] = ")" /\ \A i \in 1..n : x[i + 3] = f.value[i]
<1>. DEFINE x == PieceText(f)
            v == f.value
            n == Len(v)
            a == f.attribute
            y == FilterText(v)
<1>1. v \in AfoValues /\ (ValidFilter(f) => a \in Attributes \cup {Unnamed})
    BY PieceFields
<1>2. n \in Nat /\ n > 0
    BY <1>1, LenProperties DEF AfoValues, AfoTexts
<1>3. CASE ~ValidFilter(f)
    <2>1. x = << >> /\ << >> \in AfoTexts
        BY <1>3, EmptySeq DEF PieceText, AfoTexts
    <2>. QED BY <1>2, <1>3, <2>1
<1>4. CASE ValidFilter(f)
    <2>1. x = <<a, ":">> \o y
        BY <1>4 DEF PieceText
    <2>2. y \in AfoTexts /\ (v = InvalidFilter => y = << >>)
        <3>1. v = InvalidFilter => y = << >> /\ << >> \in AfoTexts
            BY EmptySeq DEF FilterText, AfoTexts
        <3>2. v # InvalidFilter => y \in AfoTexts
            BY <1>1, FilterTextIs
        <3>. QED BY <3>1, <3>2
    <2>. DEFINE w == <<a, ":">> \o y
    <2>3. /\ w \in AfoTexts /\ Len(w) = Len(y) + 2 /\ w[1] = a /\ w[2] = ":" /\ \A i \in 1..Len(y) : w[i + 2] = y[i]
          /\ PieceRead(w) = [attribute |-> AttributeRead(<<a>>), value |-> FilterRead(y)]
        BY <1>1, <1>4, <2>2, HeadOfPiece
    <2>4. Len(y) \in Nat
        BY <2>2, LenProperties DEF AfoTexts
    <2>5. v = InvalidFilter => Len(w) = 2
        <3>1. v = InvalidFilter => Len(y) = 0
            BY <2>2, EmptySeq
        <3>. HIDE DEF w, y, v
        <3>. QED BY <2>3, <3>1
    <2>6. ASSUME v # InvalidFilter
          PROVE  Len(w) = n + 4 /\ w[3] = "(o=" /\ w[n + 4] = ")" /\ \A i \in 1..n : w[i + 3] = v[i]
        <3>1. Len(y) = n + 2 /\ y[1] = "(o=" /\ y[n + 2] = ")" /\ \A i \in 1..n : y[i + 1] = v[i]
            BY <1>1, <2>6, FilterTextIs
        <3>. HIDE DEF w, y, v, n
        <3>2. 1 \in 1..Len(y) /\ n + 2 \in 1..Len(y) /\ (n + 2) + 2 = n + 4 /\ 1 + 2 = 3
              /\ \A i \in 1..n : i + 1 \in 1..Len(y) /\ (i + 1) + 2 = i + 3
            BY <1>2, <3>1
        <3>. QED BY <2>3, <3>1, <3>2
    <2>. HIDE DEF y, v, w, n, a
    <2>7. Len(w) >= 2
        BY <2>3, <2>4
    <2>8. x = w
        BY <2>1 DEF w
    <2>. QED BY <1>2, <1>4, <2>3, <2>5, <2>6, <2>7, <2>8 DEF y, v, n, a
<1>. QED BY <1>3, <1>4

\* A piece that has all it should have is read again as it is written, and only such a one.
LEMMA PieceAgain ==
    ASSUME NEW f \in AfoPieces, ValidFilter(f), f.attribute # Unnamed, f.value # InvalidFilter
    PROVE  PieceRead(PieceText(f)) = f
<1>1. PieceRead(PieceText(f)) = [attribute |-> AttributeRead(<<f.attribute>>), value |-> FilterRead(FilterText(f.value))]
    BY PieceTextIs
<1>2. f.attribute \in Attributes /\ f.value \in AfoValues /\ f = [attribute |-> f.attribute, value |-> f.value]
    BY PieceFields
<1>3. AttributeRead(<<f.attribute>>) = f.attribute /\ FilterRead(FilterText(f.value)) = f.value
    BY <1>2, AttributeReads, FilterAgain
<1>. QED BY <1>1, <1>2, <1>3

LEMMA PieceReads ==
    ASSUME NEW s \in AfoTexts
    PROVE  PieceRead(s) \in AfoPieces /\ Range(PieceRead(s).value) \subseteq Range(s) \cup {"any", "nil", "invalid"}
<1>1. Len(s) \in Nat /\ DOMAIN s = 1..Len(s) /\ s \in Seq(AfoTokens)
    BY LenProperties DEF AfoTexts
<1>2. CASE ~Holds(s, {":"})
    <2>1. PieceRead(s) = [attribute |-> "nil", value |-> NilFilter]
        BY <1>2 DEF PieceRead
    <2>2. Range(NilFilter) = {"nil"}
        <3>1. DOMAIN <<"nil">> = {1} /\ <<"nil">>[1] = "nil"
            BY SingletonAny
        <3>. QED BY <3>1 DEF Range, NilFilter
    <2>3. NilFilter \in AfoValues
        BY SpecialValues
    <2>. QED BY <2>1, <2>2, <2>3 DEF AfoPieces
<1>3. CASE Holds(s, {":"})
    <2>. DEFINE i == First(s, {":"})
                y == After(s, i)
                T == {k \in 1..Len(s) : s[k] \in {":"}}
    <2>1. i \in 1..Len(s)
        <3>1. T # {} /\ T \subseteq 1..Len(s)
            BY <1>1, <1>3 DEF Holds
        <3>2. PICK m \in T : \A k \in T : m <= k
            <4>. HIDE DEF T
            <4>. QED BY <1>1, <3>1, FirstPosition
        <3>3. m \in DOMAIN s /\ s[m] \in {":"} /\ \A j \in 1..(m - 1) : s[j] \notin {":"}
            <4>1. m \in 1..Len(s) /\ s[m] \in {":"}
                OBVIOUS
            <4>2. \A j \in 1..(m - 1) : j \in 1..Len(s) /\ ~(m <= j)
                BY <1>1, <4>1
            <4>3. \A j \in 1..(m - 1) : j \notin T
                <5>. HIDE DEF T
                <5>. QED BY <3>2, <4>2
            <4>. QED BY <1>1, <4>1, <4>2, <4>3
        <3>4. \E k \in DOMAIN s : s[k] \in {":"} /\ \A j \in 1..(k - 1) : s[j] \notin {":"}
            BY <3>3
        <3>5. i \in DOMAIN s
            BY <3>4, Zenon DEF First
        <3>. QED BY <1>1, <3>5
    <2>. HIDE DEF i
    <2>2. y \in AfoTexts /\ Range(y) \subseteq Range(s)
        <3>1. i + 1 \in 1..(Len(s) + 1) /\ Len(s) \in 0..Len(s)
            BY <1>1, <2>1
        <3>. QED BY <1>1, <3>1, PieceAny DEF After, AfoTexts
    <2>3. PieceRead(s) = [attribute |-> AttributeRead(Before(s, i)), value |-> FilterRead(y)]
        BY <1>3 DEF PieceRead, i
    <2>4. FilterRead(y) \in AfoValues /\ Range(FilterRead(y)) \subseteq Range(y) \cup {"any", "nil", "invalid"}
        BY <2>2, FilterReads
    <2>5. AttributeRead(Before(s, i)) \in Attributes \cup {Unnamed, "nil"}
        BY AttributeReads
    <2>. HIDE DEF y
    <2>. QED BY <2>2, <2>3, <2>4, <2>5 DEF AfoPieces
<1>. QED BY <1>2, <1>3

\* The tokens of a piece are those of its value, and those that are always there.
LEMMA PieceTokens ==
    ASSUME NEW f \in AfoPieces, NEW i \in 1..Len(PieceText(f))
    PROVE  PieceText(f)[i] \in Attributes \cup {Unnamed, ":", "(o=", ")"} \cup Range(f.value)
<1>. DEFINE x == PieceText(f)
            v == f.value
            n == Len(v)
<1>1. /\ x \in AfoTexts /\ n \in Nat /\ n > 0
      /\ ~ValidFilter(f) => x = << >>
      /\ ValidFilter(f) => Len(x) >= 2 /\ x[1] = f.attribute /\ x[2] = ":"
      /\ ValidFilter(f) /\ f.value = InvalidFilter => Len(x) = 2
      /\ ValidFilter(f) /\ f.value # InvalidFilter =>
           Len(x) = n + 4 /\ x[3] = "(o=" /\ x[n + 4] = ")" /\ \A j \in 1..n : x[j + 3] = v[j]
    BY PieceTextIs
<1>2. DOMAIN v = 1..n /\ (ValidFilter(f) => f.attribute \in Attributes \cup {Unnamed})
    BY PieceFields, LenProperties DEF AfoValues, AfoTexts
<1>3. ValidFilter(f)
    <2>1. Len(<< >>) = 0
        BY EmptySeq
    <2>. QED BY <1>1, <2>1
<1>4. i \in 1..Len(x)
    OBVIOUS
<1>. HIDE DEF x, n
<1>5. CASE f.value = InvalidFilter
    <2>1. i = 1 \/ i = 2
        <3>1. Len(x) = 2
            BY <1>1, <1>3, <1>5
        <3>2. i \in 1..2
            BY <1>4, <3>1
        <3>. QED BY <3>2
    <2>2. x[i] \in Attributes \cup {Unnamed, ":"}
        BY <1>1, <1>2, <1>3, <2>1
    <2>. QED BY <2>2 DEF x
<1>6. CASE f.value # InvalidFilter
    <2>1. i = 1 \/ i = 2 \/ i = 3 \/ i = n + 4 \/ (i - 3 \in 1..n /\ (i - 3) + 3 = i)
        BY <1>1, <1>3, <1>4, <1>6
    <2>2. i - 3 \in 1..n /\ (i - 3) + 3 = i => x[i] = v[i - 3] /\ v[i - 3] \in Range(v)
        BY <1>1, <1>2, <1>3, <1>6 DEF Range
    <2>3. x[i] \in Attributes \cup {Unnamed, ":", "(o=", ")"} \cup Range(v)
        BY <1>1, <1>2, <1>3, <1>6, <2>1, <2>2
    <2>. QED BY <2>3 DEF x
<1>. QED BY <1>5, <1>6

\* How a text begins and ends that is the piece it is read as.
NormalText(x) == x \in AfoTexts /\ Len(x) > 3 /\ x[1] \in Attributes /\ x[Len(x)] = ")"

LEMMA NormalTexts ==
    ASSUME NEW x \in AfoTexts, ValidFilter(PieceRead(x)), PieceText(PieceRead(x)) = x
    PROVE  NormalText(x)
<1>. DEFINE f == PieceRead(x)
            n == Len(f.value)
<1>1. f \in AfoPieces
    BY PieceReads
<1>. HIDE DEF f
<1>2. ValidFilter(f) /\ PieceText(f) = x /\ f = PieceRead(x)
    BY DEF f
<1>3. /\ f = [attribute |-> AttributeRead(<<f.attribute>>), value |-> FilterRead(FilterText(f.value))]
      /\ x[1] = f.attribute /\ n \in Nat /\ n > 0
      /\ f.value # InvalidFilter => Len(x) = n + 4 /\ x[n + 4] = ")"
    BY <1>1, <1>2, PieceTextIs
<1>4. f.attribute = AttributeRead(<<f.attribute>>) /\ f.value = FilterRead(FilterText(f.value))
    BY <1>3
<1>5. f.attribute \in Attributes
    <2>1. f.attribute \in Attributes \cup {Unnamed} /\ Unnamed # "nil"
        BY <1>1, <1>2, PieceFields DEF Unnamed
    <2>. QED BY <1>4, <2>1, AttributeReads
<1>6. f.value # InvalidFilter
    BY <1>1, <1>4, PieceFields, FilterAgain
<1>. QED BY <1>3, <1>5, <1>6 DEF NormalText

\* What is kept of the pieces an item is read from.
LEMMA GoodIs ==
    ASSUME NEW pieces \in Seq(AfoPieces)
    PROVE  /\ Good(pieces) \in Seq(AfoPieces) /\ Len(Good(pieces)) \in 0..Len(pieces)
           /\ \A k \in 1..Len(Good(pieces)) : \E j \in 1..Len(pieces) : Good(pieces)[k] = pieces[j] /\ ValidFilter(pieces[j])
           /\ Len(Good(pieces)) = Len(pieces) <=> \A j \in 1..Len(pieces) : ValidFilter(pieces[j])
           /\ (\A j \in 1..Len(pieces) : ValidFilter(pieces[j])) => Good(pieces) = pieces
<1>. DEFINE n == Len(pieces)
            is == {k \in DOMAIN pieces : ValidFilter(pieces[k])}
            m == Cardinality(is)
            G == Good(pieces)
<1>1. n \in Nat /\ DOMAIN pieces = 1..n
    BY LenProperties
<1>2. is \subseteq 1..n /\ IsFiniteSet(1..n) /\ Cardinality(1..n) = n
    BY <1>1, FS_Interval
<1>3. IsFiniteSet(is) /\ m \in Nat /\ m <= n /\ (m = n <=> is = 1..n)
    <2>. HIDE DEF is, n
    <2>1. IsFiniteSet(is) /\ m <= n /\ (m = n => is = 1..n)
        BY <1>2, FS_Subset
    <2>. QED BY <1>2, <2>1, FS_CardinalityType
<1>4. G = [j \in 1..m |-> pieces[CHOOSE i \in is : Cardinality({k \in is : k <= i}) = j]]
    BY DEF Good, Pick
<1>5. is \subseteq DOMAIN pieces
    BY <1>1, <1>2
<1>6. G \in Seq(AfoPieces)
    <2>. HIDE DEF is
    <2>1. Pick(pieces, is) \in Seq(AfoPieces)
        BY <1>5, PickAny
    <2>. QED BY <2>1 DEF Good, is
<1>7. Len(G) = m
    <2>1. DOMAIN G = 1..m
        BY <1>4
    <2>. HIDE DEF G, m
    <2>. QED BY <1>3, <1>6, <2>1, LenProperties
<1>8. ASSUME NEW j \in 1..m PROVE G[j] \in {pieces[i] : i \in is}
    <2>. DEFINE c == CHOOSE i \in is : Cardinality({k \in is : k <= i}) = j
    <2>1. \E i \in is : Cardinality({k \in is : k <= i}) = j
        <3>. HIDE DEF is
        <3>. QED BY <1>1, <1>2, KthPosition
    <2>2. c \in is
        BY <2>1, Zenon
    <2>3. G[j] = pieces[c]
        <3>. HIDE DEF G, is, c
        <3>. QED BY <1>4 DEF c
    <2>. HIDE DEF c, G, is
    <2>. QED BY <2>2, <2>3
<1>9. is = 1..n <=> \A j \in 1..n : ValidFilter(pieces[j])
    BY <1>1
<1>10. is = 1..n => G = pieces
    <2>1. Pick(pieces, 1..n) = SubSeq(pieces, 1, n)
        <3>1. 1 \in 1..(n + 1) /\ n \in 0..n /\ 1 <= n + 1
            BY <1>1
        <3>. QED BY <3>1, PickInterval
    <2>2. SubSeq(pieces, 1, n) = pieces
        BY SubSeqFull
    <2>. QED BY <2>1, <2>2 DEF Good
<1>11. \A k \in 1..m : \E j \in 1..n : G[k] = pieces[j] /\ ValidFilter(pieces[j])
    <2>1. \A i \in is : i \in 1..n /\ ValidFilter(pieces[i])
        BY <1>2
    <2>. HIDE DEF is, G, m
    <2>. QED BY <1>8, <2>1
<1>. HIDE DEF is, G, m
<1>12. m \in 0..n
    <2>1. m \in Nat /\ n \in Nat /\ m <= n
        BY <1>1, <1>3
    <2>. HIDE DEF n
    <2>. QED BY <2>1
<1>13. m = n <=> \A j \in 1..n : ValidFilter(pieces[j])
    BY <1>3, <1>9
<1>. QED BY <1>6, <1>7, <1>9, <1>10, <1>11, <1>12, <1>13 DEF G

\* The text behind the first word of an item.
TailText(given) == Joined("&&", [k \in DOMAIN given |-> PieceText(given[k])])

LEMMA TextsOfSlice ==
    ASSUME NEW given \in Seq(AfoPieces), NEW texts, texts = [k \in DOMAIN given |-> PieceText(given[k])]
    PROVE  texts \in Seq(Seq(AfoTokens)) /\ Len(texts) = Len(given) /\ \A k \in 1..Len(given) : texts[k] = PieceText(given[k])
<1>1. Len(given) \in Nat /\ DOMAIN given = 1..Len(given) /\ \A k \in 1..Len(given) : given[k] \in AfoPieces
    BY LenProperties, ElementOfSeq
<1>2. \A k \in 1..Len(given) : PieceText(given[k]) \in Seq(AfoTokens)
    BY <1>1, PieceTextIs DEF AfoTexts
<1>3. texts \in [1..Len(given) -> Seq(AfoTokens)]
    BY <1>1, <1>2
<1>. QED BY <1>1, <1>3, SeqDef, LenProperties

LEMMA TailType ==
    ASSUME NEW given \in Seq(AfoPieces)
    PROVE  TailText(given) \in AfoTexts /\ (given = << >> => TailText(given) = << >>)
<1>. DEFINE texts == [k \in DOMAIN given |-> PieceText(given[k])]
<1>1. texts \in Seq(Seq(AfoTokens)) /\ Len(texts) = Len(given)
    BY TextsOfSlice
<1>2. "&&" \in AfoTokens
    BY TokensType
<1>3. TailText(given) = Joined("&&", texts)
    BY DEF TailText
<1>. HIDE DEF texts
<1>4. CASE Len(given) > 0
    <2>1. Joined("&&", texts) \in Seq(AfoTokens)
        BY <1>1, <1>2, <1>4, JoinedPlaces
    <2>2. given # << >>
        BY <1>4, EmptySeq
    <2>. QED BY <1>3, <2>1, <2>2 DEF AfoTexts
<1>5. CASE Len(given) = 0
    <2>1. texts = << >>
        BY <1>1, <1>5, EmptySeq
    <2>2. << >> \in Seq(AfoTokens)
        BY EmptySeq
    <2>3. Joined("&&", << >>) = << >>
        BY <1>2, <2>2, JoinedFew
    <2>. QED BY <1>3, <2>1, <2>2, <2>3 DEF AfoTexts
<1>6. Len(given) \in Nat
    BY LenProperties
<1>. QED BY <1>4, <1>5, <1>6

\* A piece that is read from a text without separators has none in its text.
LEMMA NoSeparator ==
    ASSUME NEW s \in AfoTexts, NEW D, D \cap (Attributes \cup {Unnamed, ":", "(o=", ")", "any", "nil", "invalid"}) = {},
           \A i \in 1..Len(s) : s[i] \notin D
    PROVE  \A i \in 1..Len(PieceText(PieceRead(s))) : PieceText(PieceRead(s))[i] \notin D
<1>. DEFINE f == PieceRead(s)
<1>1. f \in AfoPieces /\ Range(f.value) \subseteq Range(s) \cup {"any", "nil", "invalid"}
    BY PieceReads
<1>2. \A t \in Range(s) : t \notin D
    <2>1. DOMAIN s = 1..Len(s)
        BY LenProperties DEF AfoTexts
    <2>. QED BY <2>1 DEF Range
<1>. HIDE DEF f
<1>3. \A i \in 1..Len(PieceText(f)) : PieceText(f)[i] \in Attributes \cup {Unnamed, ":", "(o=", ")"} \cup Range(f.value)
    BY <1>1, PieceTokens
<1>4. \A i \in 1..Len(PieceText(f)) : PieceText(f)[i] \notin D
    <2>. SUFFICES ASSUME NEW i \in 1..Len(PieceText(f)) PROVE PieceText(f)[i] \notin D
        OBVIOUS
    <2>. DEFINE t == PieceText(f)[i]
    <2>1. t \in Attributes \cup {Unnamed, ":", "(o=", ")"} \cup Range(f.value)
        BY <1>3
    <2>. HIDE DEF t
    <2>2. t \in Range(f.value) => t \notin D
        BY <1>1, <1>2
    <2>3. t \in Attributes \cup {Unnamed, ":", "(o=", ")"} => t \notin D
        OBVIOUS
    <2>4. t \notin D
        BY <2>1, <2>2, <2>3
    <2>. QED BY <2>4 DEF t
<1>. QED BY <1>4 DEF f

\* What a text is cut into has no separator, and all of it is from the text.
FreeOf(c, x)   == \A i \in 1..Len(x) : x[i] # c
TakenOf(s, x)  == \A i \in 1..Len(x) : \E j \in 1..Len(s) : x[i] = s[j]

LEMMA CutTokens ==
    ASSUME NEW S, NEW c, NEW s \in Seq(S), NEW k \in 1..Len(CutBy(c, s))
    PROVE  CutBy(c, s)[k] \in Seq(S) /\ FreeOf(c, CutBy(c, s)[k]) /\ TakenOf(s, CutBy(c, s)[k])
<1>. DEFINE m == Passed(c, s, Len(s))
            n == Len(s)
            x == CutAt(c, s, k - 1)
<1>1. m \in Nat /\ n \in Nat /\ Len(CutBy(c, s)) = m + 1 /\ (k \in 1..(m + 1) => CutBy(c, s)[k] = x)
    BY CutByType, LenProperties
<1>2. k \in 1..(m + 1) /\ k - 1 \in 0..m /\ (k - 1) + 1 = k
    BY <1>1
<1>3. PICK at : CutMarks(c, s, at)
    BY MarksExist
<1>. DEFINE a == at[k - 1]
            b == at[k]
<1>4. /\ a \in 0..n /\ b \in 1..(n + 1) /\ a < b
      /\ x = SubSeq(s, a + 1, b - 1) /\ x \in Seq(S) /\ Len(x) = b - a - 1
      /\ {i \in 1..n : s[i] # c /\ Passed(c, s, i) = k - 1} = (a + 1)..(b - 1)
    <2>. DEFINE h == k - 1
    <2>1. h \in 0..m /\ h + 1 = k
        BY <1>2
    <2>. HIDE DEF h
    <2>2. at[h] \in 0..n /\ at[h + 1] \in 1..(n + 1) /\ at[h] < at[h + 1]
        BY <1>3, <2>1, MarksType
    <2>3. CutAt(c, s, h) = CutOut(s, at, h) /\ CutOut(s, at, h) \in Seq(S) /\ Len(CutOut(s, at, h)) = at[h + 1] - at[h] - 1
        BY <1>3, <2>1, CutIsInside
    <2>4. {i \in 1..n : s[i] # c /\ Passed(c, s, i) = h} = (at[h] + 1)..(at[h + 1] - 1)
        BY <1>3, <2>1, InsidePositions
    <2>5. CutOut(s, at, h) = SubSeq(s, at[h] + 1, at[h + 1] - 1)
        BY DEF CutOut
    <2>. QED BY <2>1, <2>2, <2>3, <2>4, <2>5 DEF h
<1>. HIDE DEF a, b, x
<1>5. ASSUME NEW i \in 1..Len(x) PROVE x[i] # c /\ \E j \in 1..n : x[i] = s[j]
    <2>1. x[i] = s[a + i]
        <3>1. i \in 1..((b - 1) - (a + 1) + 1) /\ (a + 1) + i - 1 = a + i /\ a + 1 \in Int /\ b - 1 \in Int
              /\ a + 1 >= 1 /\ b - 1 <= n
            BY <1>1, <1>4
        <3>2. x[i] = s[(a + 1) + i - 1]
            BY <1>4, <3>1, SubSeqProperties
        <3>. QED BY <3>1, <3>2
    <2>2. a + i \in (a + 1)..(b - 1)
        BY <1>1, <1>4
    <2>3. a + i \in 1..n /\ s[a + i] # c
        BY <1>4, <2>2
    <2>. QED BY <2>1, <2>3
<1>6. CutBy(c, s)[k] = x
    BY <1>1, <1>2
<1>7. FreeOf(c, x) /\ TakenOf(s, x)
    BY <1>5 DEF FreeOf, TakenOf
<1>. QED BY <1>4, <1>6, <1>7

\* An item's text, of which the first word is that of the operation.
AfoWord(op) == IF op = "delete" THEN "delete=" ELSE "add="

LEMMA ItemTextIs ==
    ASSUME NEW unit, unit.slice \in Seq(AfoPieces)
    PROVE  /\ ItemText(unit) \in AfoTexts /\ ItemText(unit) = <<AfoWord(unit.op)>> \o TailText(unit.slice)
           /\ Len(ItemText(unit)) = Len(TailText(unit.slice)) + 1
           /\ ItemText(unit)[1] = AfoWord(unit.op) /\ AfoWord(unit.op) \in OperationWords
           /\ \A i \in 1..Len(TailText(unit.slice)) : ItemText(unit)[i + 1] = TailText(unit.slice)[i]
           /\ ItemText(unit) # << >> /\ Tail(ItemText(unit)) = TailText(unit.slice)
<1>. DEFINE w == AfoWord(unit.op)
            t == TailText(unit.slice)
            x == <<w>> \o t
<1>1. w \in AfoTokens /\ w \in OperationWords
    BY TokensType DEF AfoWord, OperationWords
<1>2. t \in Seq(AfoTokens) /\ Len(t) \in Nat
    BY TailType, LenProperties DEF AfoTexts
<1>3. ItemText(unit) = x
    BY Zenon DEF ItemText, TailText, AfoWord
<1>. HIDE DEF w, t
<1>4. <<w>> \in Seq(AfoTokens) /\ Len(<<w>>) = 1 /\ <<w>>[1] = w
    BY <1>1
<1>5. x \in Seq(AfoTokens) /\ Len(x) = 1 + Len(t) /\ x[1] = w /\ \A i \in 1..Len(t) : x[1 + i] = t[i]
    <2>1. x \in Seq(AfoTokens) /\ Len(x) = Len(<<w>>) + Len(t)
        BY <1>2, <1>4, ConcatProperties
    <2>2. \A i \in 1..Len(<<w>>) : x[i] = <<w>>[i]
        BY <1>2, <1>4, ConcatProperties
    <2>3. \A i \in 1..Len(t) : Len(<<w>>) + i \in (Len(<<w>>) + 1)..(Len(<<w>>) + Len(t)) /\ (Len(<<w>>) + i) - Len(<<w>>) = i
        BY <1>2, <1>4
    <2>4. \A i \in 1..Len(t) : x[Len(<<w>>) + i] = t[i]
        BY <1>2, <1>4, <2>3, ConcatProperties
    <2>. HIDE DEF x
    <2>. QED BY <1>4, <2>1, <2>2, <2>4
<1>6. x # << >> /\ Tail(x) = t
    <2>1. SubSeq(x, Len(<<w>>) + 1, Len(x)) = t
        BY <1>2, <1>4, CutConcat
    <2>2. SubSeq(x, 2, Len(x)) = t
        BY <1>4, <2>1
    <2>3. Len(x) > 0
        BY <1>2, <1>5
    <2>4. x # << >>
        BY <2>3, EmptySeq
    <2>. HIDE DEF x
    <2>5. Tail(x) = SubSeq(x, 2, Len(x))
        BY <1>5, <2>4, TailIsSubSeq
    <2>. QED BY <2>2, <2>4, <2>5
<1>7. \A i \in 1..Len(t) : 1 + i = i + 1
    OBVIOUS
<1>8. Len(x) = Len(t) + 1 /\ \A i \in 1..Len(t) : x[i + 1] = t[i]
    <2>. HIDE DEF x
    <2>. QED BY <1>2, <1>5, <1>7
<1>. HIDE DEF x
<1>. QED BY <1>1, <1>3, <1>5, <1>6, <1>8 DEF w, t, x, AfoTexts

\* The pieces a text is read as, one for each fragment.
LEMMA PiecesAre ==
    ASSUME NEW t \in AfoTexts
    PROVE  LET fr == CutBy("&&", t)
           IN  /\ fr \in Seq(Seq(AfoTokens)) /\ Len(fr) > 0 /\ Pieces(t) \in Seq(AfoPieces) /\ Len(Pieces(t)) = Len(fr)
               /\ \A k \in 1..Len(fr) : Pieces(t)[k] = PieceRead(fr[k]) /\ fr[k] \in AfoTexts
<1>. DEFINE fr == CutBy("&&", t)
<1>1. t \in Seq(AfoTokens)
    BY DEF AfoTexts
<1>2. fr \in Seq(Seq(AfoTokens)) /\ Passed("&&", t, Len(t)) \in Nat /\ Len(fr) = Passed("&&", t, Len(t)) + 1
    BY <1>1, CutByType
<1>3. Pieces(t) = [k \in DOMAIN fr |-> PieceRead(fr[k])]
    BY DEF Pieces
<1>. HIDE DEF fr
<1>4. Len(fr) \in Nat /\ Len(fr) > 0 /\ DOMAIN fr = 1..Len(fr) /\ \A k \in 1..Len(fr) : fr[k] \in AfoTexts
    BY <1>2, LenProperties, ElementOfSeq DEF AfoTexts
<1>5. Pieces(t) \in [1..Len(fr) -> AfoPieces]
    BY <1>3, <1>4, PieceReads
<1>6. Pieces(t) \in Seq(AfoPieces) /\ DOMAIN Pieces(t) = 1..Len(fr)
    BY <1>4, <1>5, SeqDef
<1>7. Len(Pieces(t)) = Len(fr)
    BY <1>4, <1>6, LenProperties
<1>. QED BY <1>2, <1>3, <1>4, <1>6, <1>7 DEF fr

\* What is kept of an item's text: its operation, and the good pieces.
LEMMA ItemReadIs ==
    ASSUME NEW s \in AfoTexts
    PROVE  LET r == ItemRead(s)
           IN  /\ r.item.op \in {"none", "add", "delete"} /\ r.item.slice \in Seq(AfoPieces)
               /\ r.item = [op |-> r.item.op, slice |-> r.item.slice]
               /\ \A k \in 1..Len(r.item.slice) : ValidFilter(r.item.slice[k])
               /\ s # << >> /\ s[1] \in OperationWords =>
                    /\ AfoWord(r.item.op) = s[1] /\ r.item.slice = Good(Pieces(Tail(s))) /\ Tail(s) \in AfoTexts
                    /\ r.ok = ValidFilter(Last(Pieces(Tail(s))))
               /\ ~(s # << >> /\ s[1] \in OperationWords) => r.item.op = "none" /\ r.item.slice = << >> /\ ~r.ok
<1>. DEFINE r == ItemRead(s)
<1>1. CASE s = << >> \/ s[1] \notin OperationWords
    <2>1. r = [item |-> [op |-> "none", slice |-> << >>], ok |-> FALSE]
        BY <1>1, Zenon DEF ItemRead
    <2>2. << >> \in Seq(AfoPieces) /\ Len(<< >>) = 0
        BY EmptySeq
    <2>3. r.ok = FALSE /\ r.item = [op |-> "none", slice |-> << >>]
        BY <2>1
    <2>4. r.item.op = "none" /\ r.item.slice = << >>
        BY <2>3
    <2>. HIDE DEF r
    <2>5. \A k \in 1..Len(r.item.slice) : FALSE
        BY <2>2, <2>4
    <2>. QED BY <1>1, <2>2, <2>3, <2>4, <2>5 DEF r
<1>2. CASE ~(s = << >> \/ s[1] \notin OperationWords)
    <2>. DEFINE t == Tail(s)
                ps == Pieces(t)
                op == IF s[1] = "add=" THEN "add" ELSE "delete"
    <2>1. r = [item |-> [op |-> op, slice |-> Good(ps)], ok |-> ValidFilter(Last(ps))]
        BY <1>2, Zenon DEF ItemRead
    <2>2. t \in AfoTexts
        BY <1>2, HeadTailProperties DEF AfoTexts
    <2>. HIDE DEF t
    <2>3. ps \in Seq(AfoPieces)
        BY <2>2, PiecesAre
    <2>. HIDE DEF ps
    <2>4. Good(ps) \in Seq(AfoPieces) /\ \A k \in 1..Len(Good(ps)) : ValidFilter(Good(ps)[k])
        BY <2>3, GoodIs
    <2>5. op \in {"add", "delete"} /\ AfoWord(op) = s[1]
        BY <1>2 DEF AfoWord, OperationWords
    <2>. HIDE DEF op
    <2>. QED BY <1>2, <2>1, <2>2, <2>4, <2>5 DEF t, ps
<1>. QED BY <1>1, <1>2

\* A text that is read as what it is written from has good pieces only.
LEMMA ItemBack ==
    ASSUME NEW P \in AfoTexts, P # << >>, P[1] \in OperationWords, Tail(P) # << >>, ItemText(ItemRead(P).item) = P
    PROVE  /\ \A k \in 1..Len(CutBy("&&", Tail(P))) : NormalText(CutBy("&&", Tail(P))[k])
           /\ ItemRead(P).ok /\ P[Len(P)] = ")"
<1>. DEFINE t == Tail(P)
            fr == CutBy("&&", t)
            n == Len(fr)
            ps == Pieces(t)
            unit == ItemRead(P).item
            G == Good(ps)
            texts == [k \in DOMAIN G |-> PieceText(G[k])]
<1>1. t \in AfoTexts /\ unit.slice = G /\ ItemRead(P).ok = ValidFilter(Last(ps)) /\ unit.slice \in Seq(AfoPieces)
    BY ItemReadIs
<1>2. ItemText(unit) = P /\ Tail(ItemText(unit)) = TailText(unit.slice)
    BY <1>1, ItemTextIs
<1>3. Joined("&&", texts) = t
    BY <1>1, <1>2 DEF TailText
<1>4. t \in Seq(AfoTokens) /\ "&&" \in AfoTokens
    BY <1>1, TokensType DEF AfoTexts
<1>5. t # << >>
    OBVIOUS
<1>. HIDE DEF t, unit
<1>6. /\ fr \in Seq(Seq(AfoTokens)) /\ n > 0 /\ ps \in Seq(AfoPieces) /\ Len(ps) = n
      /\ \A k \in 1..n : ps[k] = PieceRead(fr[k]) /\ fr[k] \in AfoTexts
    BY <1>1, PiecesAre
<1>7. \A k \in 1..n : FreeOf("&&", fr[k])
    BY <1>4, CutTokens
<1>8. n \in Nat
    BY <1>6, LenProperties
<1>. HIDE DEF fr, n, ps
<1>9. /\ G \in Seq(AfoPieces) /\ Len(G) \in 0..n
      /\ \A k \in 1..Len(G) : \E j \in 1..n : G[k] = ps[j] /\ ValidFilter(ps[j])
      /\ Len(G) = n <=> \A j \in 1..n : ValidFilter(ps[j])
      /\ (\A j \in 1..n : ValidFilter(ps[j])) => G = ps
    BY <1>6, GoodIs
<1>. HIDE DEF G
<1>10. texts \in Seq(Seq(AfoTokens)) /\ Len(texts) = Len(G) /\ \A k \in 1..Len(G) : texts[k] = PieceText(G[k])
    BY <1>9, TextsOfSlice
<1>. HIDE DEF texts
<1>11. Len(texts) > 0
    <2>1. SUFFICES ASSUME Len(texts) = 0 PROVE FALSE
        BY <1>8, <1>9, <1>10
    <2>2. texts = << >>
        BY <1>10, <2>1, EmptySeq
    <2>3. Joined("&&", << >>) = << >>
        BY <1>4, EmptySeq, JoinedFew
    <2>. QED BY <1>3, <1>5, <2>2, <2>3
<1>12. \A k \in 1..Len(texts) : \A i \in 1..Len(texts[k]) : texts[k][i] # "&&"
    <2>. SUFFICES ASSUME NEW k \in 1..Len(texts) PROVE \A i \in 1..Len(texts[k]) : texts[k][i] # "&&"
        OBVIOUS
    <2>1. PICK j \in 1..n : G[k] = ps[j]
        BY <1>9, <1>10
    <2>2. texts[k] = PieceText(PieceRead(fr[j])) /\ fr[j] \in AfoTexts
        BY <1>6, <1>10, <2>1
    <2>3. {"&&"} \cap (Attributes \cup {Unnamed, ":", "(o=", ")", "any", "nil", "invalid"}) = {}
        BY DEF Attributes, Unnamed
    <2>4. \A i \in 1..Len(fr[j]) : fr[j][i] \notin {"&&"}
        BY <1>7 DEF FreeOf
    <2>5. \A i \in 1..Len(PieceText(PieceRead(fr[j]))) : PieceText(PieceRead(fr[j]))[i] \notin {"&&"}
        BY <2>2, <2>3, <2>4, NoSeparator
    <2>. QED BY <2>2, <2>5
<1>13. CutBy("&&", Joined("&&", texts)) = texts
    BY <1>4, <1>10, <1>11, <1>12, CutOfJoined
<1>14. fr = texts
    BY <1>3, <1>13 DEF fr
<1>15. Len(G) = n /\ G = ps /\ \A j \in 1..n : ValidFilter(ps[j])
    BY <1>9, <1>10, <1>14 DEF n
<1>16. ASSUME NEW k \in 1..n PROVE NormalText(fr[k])
    <2>1. ValidFilter(PieceRead(fr[k])) /\ PieceText(PieceRead(fr[k])) = fr[k] /\ fr[k] \in AfoTexts
        BY <1>6, <1>10, <1>14, <1>15
    <2>. QED BY <2>1, NormalTexts
<1>17. ItemRead(P).ok
    <2>1. Last(ps) = ps[n] /\ n \in 1..n
        BY <1>6, <1>8 DEF Last
    <2>. QED BY <1>1, <1>15, <2>1
<1>18. PICK st : Placing("&&", texts, Len(texts), Joined("&&", texts), st)
    BY <1>4, <1>10, <1>11, JoinedPlaces
<1>19. P[Len(P)] = ")"
    <2>1. n \in 1..n /\ Len(texts) = n
        BY <1>6, <1>8, <1>10, <1>15
    <2>2. Len(fr[n]) \in Nat /\ Len(fr[n]) > 3 /\ fr[n][Len(fr[n])] = ")"
        BY <1>16, <2>1, LenProperties DEF NormalText, AfoTexts
    <2>3. st[n] \in 0..Len(t) /\ Len(t) = st[n] + Len(fr[n]) /\ \A i \in 1..Len(fr[n]) : t[st[n] + i] = fr[n][i]
        BY <1>3, <1>14, <1>18, <2>1 DEF Placing
    <2>4. Len(t) \in Nat
        BY <1>4, LenProperties
    <2>5. Len(fr[n]) \in 1..Len(fr[n]) /\ st[n] + Len(fr[n]) = Len(t) /\ Len(t) \in 1..Len(t)
        BY <2>2, <2>3, <2>4
    <2>6. t[Len(t)] = ")"
        BY <2>2, <2>3, <2>5
    <2>7. t = TailText(unit.slice) /\ Len(P) = Len(t) + 1 /\ \A i \in 1..Len(t) : P[i + 1] = t[i]
        BY <1>1, <1>2, ItemTextIs DEF t
    <2>. QED BY <2>5, <2>6, <2>7
<1>. QED BY <1>16, <1>17, <1>19 DEF fr, t, n

LEMMA KeptIsFree ==
    ASSUME NEW f \in AfoPieces, Kept(f)
    PROVE  FreeOf("&&", PieceText(f)) /\ PieceRead(PieceText(f)) = f /\ ValidFilter(f)
<1>1. ValidFilter(f) /\ f.attribute # Unnamed /\ f.value # InvalidFilter /\ ~Holds(f.value, {"&&"})
    BY DEF Kept
<1>2. \A i \in 1..Len(PieceText(f)) : PieceText(f)[i] \in Attributes \cup {Unnamed, ":", "(o=", ")"} \cup Range(f.value)
    BY PieceTokens
<1>3. "&&" \notin Range(f.value)
    BY <1>1 DEF Holds, Range
<1>4. "&&" \notin Attributes \cup {Unnamed, ":", "(o=", ")"}
    BY DEF Attributes, Unnamed
<1>5. FreeOf("&&", PieceText(f))
    <2>. SUFFICES ASSUME NEW i \in 1..Len(PieceText(f)) PROVE PieceText(f)[i] # "&&"
        BY DEF FreeOf
    <2>. QED BY <1>2, <1>3, <1>4
<1>. QED BY <1>1, <1>5, PieceAgain

\* If every fragment of an item's text is normal, no piece is cut, and all are written.
LEMMA KeptOfNormal ==
    ASSUME NEW given \in Seq(AfoPieces), NEW k \in 1..Len(given),
           \A j \in 1..Len(CutBy("&&", TailText(given))) : NormalText(CutBy("&&", TailText(given))[j])
    PROVE  Kept(given[k])
<1>. DEFINE B == TailText(given)
            texts == [j \in DOMAIN given |-> PieceText(given[j])]
            n == Len(given)
            f == given[k]
            x == PieceText(f)
            v == f.value
            l == Len(B)
            fr == CutBy("&&", B)
<1>1. texts \in Seq(Seq(AfoTokens)) /\ Len(texts) = n /\ \A j \in 1..n : texts[j] = PieceText(given[j])
    BY TextsOfSlice
<1>2. "&&" \in AfoTokens /\ n \in Nat /\ n > 0 /\ f \in AfoPieces
    <2>1. k \in 1..n
        OBVIOUS
    <2>2. n \in Nat
        BY LenProperties
    <2>3. f \in AfoPieces
        BY <2>1, ElementOfSeq
    <2>. HIDE DEF n, f
    <2>4. "&&" \in AfoTokens
        BY TokensType
    <2>5. n > 0
        BY <2>1, <2>2
    <2>. QED BY <2>2, <2>3, <2>4, <2>5
<1>3. B = Joined("&&", texts)
    BY DEF TailText
<1>4. B \in Seq(AfoTokens) /\ l \in Nat
    BY TailType, LenProperties DEF AfoTexts
<1>5. \A j \in 1..Len(fr) : NormalText(fr[j])
    OBVIOUS
<1>6. k \in 1..n /\ f = given[k]
    OBVIOUS
<1>. HIDE DEF B, texts, n, f, l
<1>7. PICK st : Placing("&&", texts, n, B, st)
    BY <1>1, <1>2, <1>3, JoinedPlaces
<1>. DEFINE p == st[k]
            h == Len(x)
<1>8. /\ x \in AfoTexts /\ Len(v) \in Nat /\ Len(v) > 0
      /\ ~ValidFilter(f) => x = << >>
      /\ ValidFilter(f) => Len(x) >= 2 /\ x[1] = f.attribute /\ x[2] = ":"
      /\ ValidFilter(f) /\ f.value = InvalidFilter => Len(x) = 2
      /\ ValidFilter(f) /\ f.value # InvalidFilter =>
           Len(x) = Len(v) + 4 /\ x[3] = "(o=" /\ x[Len(v) + 4] = ")" /\ \A i \in 1..Len(v) : x[i + 3] = f.value[i]
    BY <1>2, PieceTextIs
<1>9. h \in Nat
    BY <1>8, LenProperties DEF AfoTexts
<1>10. texts[k] = x
    BY <1>1, <1>6 DEF f
<1>11. /\ p \in 0..l /\ p + h <= l /\ \A i \in 1..h : B[p + i] = x[i]
       /\ p # 0 => B[p] = "&&"
       /\ p + h = l \/ B[p + h + 1] = "&&"
    <2>1. /\ st \in [1..n -> 0..l] /\ st[1] = 0
          /\ \A j \in 1..n : st[j] + Len(texts[j]) <= l /\ \A i \in 1..Len(texts[j]) : B[st[j] + i] = texts[j][i]
          /\ \A j \in 2..n : st[j] = st[j - 1] + Len(texts[j - 1]) + 1 /\ B[st[j]] = "&&"
          /\ l = st[n] + Len(texts[n])
        BY <1>7 DEF Placing, l
    <2>2. p # 0 => B[p] = "&&"
        <3>1. p # 0 => k # 1
            BY <2>1
        <3>2. k # 1 => k \in 2..n
            BY <1>2, <1>6
        <3>. QED BY <2>1, <3>1, <3>2
    <2>3. p + h = l \/ B[p + h + 1] = "&&"
        <3>1. CASE k = n
            BY <1>10, <2>1, <3>1
        <3>2. CASE k # n
            <4>1. k + 1 \in 2..n /\ (k + 1) - 1 = k
                BY <1>2, <1>6, <3>2
            <4>2. st[k + 1] = st[k] + Len(texts[k]) + 1 /\ B[st[k + 1]] = "&&"
                BY <2>1, <4>1
            <4>. QED BY <1>10, <4>2
        <3>. QED BY <3>1, <3>2
    <2>. QED BY <1>6, <1>10, <2>1, <2>2, <2>3
<1>. HIDE DEF p, x, v, h, fr
<1>12. p \in 0..Len(B) /\ (p # 0 => B[p] = "&&")
    BY <1>11 DEF l
<1>13. PICK j \in 1..Len(fr) : IsCutBehind("&&", B, p, fr[j])
    BY <1>4, <1>12, CutBehind DEF fr
<1>. DEFINE y == fr[j]
<1>14. PICK e \in p..Len(B) : /\ y = SubSeq(B, p + 1, e) /\ \A i \in (p + 1)..e : B[i] # "&&"
                              /\ e = Len(B) \/ B[e + 1] = "&&"
    BY <1>13 DEF IsCutBehind
<1>. DEFINE d == e - p
<1>15. e \in p..l
    BY <1>14 DEF l
<1>16. Len(y) > 3 /\ y[1] \in Attributes /\ y[Len(y)] = ")"
    BY <1>5 DEF NormalText
<1>17. Len(y) = d /\ \A i \in 1..d : y[i] = B[p + i]
    <2>. DEFINE u == p + 1
    <2>1. u \in Int /\ e \in Int /\ e - u + 1 = d /\ u >= 1 /\ e <= Len(B) /\ e - u + 1 >= 0
        BY <1>4, <1>11, <1>15 DEF l
    <2>2. \A i \in 1..d : i \in 1..(e - u + 1) /\ u + i - 1 = p + i
        BY <1>11, <1>15, <2>1
    <2>3. y = SubSeq(B, u, e)
        BY <1>14
    <2>. HIDE DEF u, y, d
    <2>4. u \in 1..(Len(B) + 1) /\ e \in 0..Len(B)
        BY <1>4, <1>11, <1>15 DEF u, l
    <2>5. Len(y) = IF u <= e THEN e - u + 1 ELSE 0
        BY <1>4, <2>1, <2>3, <2>4, SubSeqProperties
    <2>6. Len(y) = d
        BY <2>1, <2>5
    <2>7. \A i \in 1..(e - u + 1) : y[i] = B[u + i - 1]
        BY <1>4, <2>1, <2>3, <2>4, SubSeqProperties
    <2>. QED BY <2>2, <2>6, <2>7
<1>. HIDE DEF y, d
<1>18. d > 3 /\ d \in Nat /\ p \in Nat /\ p + d = e /\ B[p + 1] \in Attributes /\ B[p + d] = ")"
    <2>1. d > 3 /\ d \in Nat /\ p \in Nat /\ p + d = e
        BY <1>11, <1>15, <1>16, <1>17 DEF d
    <2>2. 1 \in 1..d /\ d \in 1..d
        BY <2>1
    <2>. QED BY <1>16, <1>17, <2>1, <2>2
<1>19. \A i \in 1..d : B[p + i] # "&&"
    <2>1. \A i \in 1..d : p + i \in (p + 1)..e
        BY <1>18
    <2>. QED BY <1>14, <2>1
<1>20. h >= d
    <2>. SUFFICES ASSUME h < d PROVE FALSE
        BY <1>9, <1>18
    <2>1. p + h # l
        BY <1>9, <1>15, <1>18
    <2>2. h + 1 \in 1..d /\ p + (h + 1) = p + h + 1
        BY <1>9, <1>18
    <2>3. B[p + h + 1] = "&&"
        BY <1>11, <2>1
    <2>. QED BY <1>19, <2>2, <2>3
<1>21. ValidFilter(f)
    <2>1. x = << >> => h = 0
        BY EmptySeq DEF h
    <2>. QED BY <1>8, <1>18, <1>20, <2>1
<1>22. f.attribute # Unnamed
    <2>1. 1 \in 1..h /\ p + 1 = p + 1
        BY <1>9, <1>18, <1>20
    <2>2. f.attribute \in Attributes
        BY <1>8, <1>11, <1>18, <1>21, <2>1
    <2>. QED BY <2>2 DEF Attributes, Unnamed
<1>23. f.value # InvalidFilter
    <2>. SUFFICES ASSUME f.value = InvalidFilter PROVE FALSE
        OBVIOUS
    <2>1. h = 2
        BY <1>8, <1>21 DEF h
    <2>. QED BY <1>18, <1>20, <2>1
<1>24. ~Holds(f.value, {"&&"})
    <2>. SUFFICES ASSUME Holds(v, {"&&"}) PROVE FALSE
        BY DEF v
    <2>0. f.value = v /\ v \in AfoValues
        BY <1>2, PieceFields DEF v
    <2>1. PICK i \in 1..Len(v) : v[i] = "&&"
        <3>1. DOMAIN v = 1..Len(v)
            BY <2>0, LenProperties DEF AfoValues, AfoTexts
        <3>. QED BY <3>1 DEF Holds
    <2>2. h = Len(v) + 4 /\ \A a \in 1..Len(v) : x[a + 3] = v[a]
        BY <1>8, <1>21, <1>23, <2>0 DEF h
    <2>3. i + 3 \in 1..h /\ B[p + (i + 3)] = "&&"
        <3>1. i + 3 \in 1..h
            BY <1>8, <2>2
        <3>. QED BY <1>11, <2>1, <2>2, <3>1
    <2>4. d < i + 3
        <3>1. i + 3 \notin 1..d
            BY <1>19, <2>3
        <3>. QED BY <1>18, <3>1
    <2>5. d - 3 \in 1..Len(v) /\ (d - 3) + 3 = d /\ d \in 1..h
        BY <1>8, <1>18, <1>20, <2>4, <1>9
    <2>6. v[d - 3] = ")"
        BY <1>11, <1>18, <2>2, <2>5
    <2>. QED BY <2>0, <2>5, <2>6 DEF AfoValues
<1>. QED BY <1>21, <1>22, <1>23, <1>24 DEF Kept, f

\* An item that is written of pieces to be kept is read again as it is.
LEMMA ItemAgain ==
    ASSUME NEW unit, unit.slice \in Seq(AfoPieces), \A k \in 1..Len(unit.slice) : Kept(unit.slice[k])
    PROVE  LET r == ItemRead(ItemText(unit))
           IN  ItemText(r.item) = ItemText(unit) /\ (r.ok <=> unit.slice # << >>)
<1>. DEFINE given == unit.slice
            P == ItemText(unit)
            t == TailText(given)
            r == ItemRead(P)
            ps == Pieces(t)
            texts == [k \in DOMAIN given |-> PieceText(given[k])]
            n == Len(given)
<1>1. P \in AfoTexts /\ P # << >> /\ P[1] = AfoWord(unit.op) /\ P[1] \in OperationWords /\ Tail(P) = t /\ P = <<P[1]>> \o t
    BY ItemTextIs
<1>2. /\ AfoWord(r.item.op) = P[1] /\ r.item.slice = Good(ps) /\ r.ok = ValidFilter(Last(ps)) /\ t \in AfoTexts
      /\ r.item.slice \in Seq(AfoPieces)
    BY <1>1, ItemReadIs
<1>3. given \in Seq(AfoPieces) /\ n \in Nat /\ DOMAIN given = 1..n /\ \A k \in 1..n : Kept(given[k]) /\ given[k] \in AfoPieces
    <2>1. \A k \in 1..n : given[k] \in AfoPieces
        BY ElementOfSeq
    <2>. QED BY <2>1, LenProperties
<1>4. texts \in Seq(Seq(AfoTokens)) /\ Len(texts) = n /\ \A k \in 1..n : texts[k] = PieceText(given[k])
    BY TextsOfSlice
<1>5. t = Joined("&&", texts)
    BY DEF TailText
<1>6. "&&" \in AfoTokens
    BY TokensType
<1>7. ItemText(r.item) = <<AfoWord(r.item.op)>> \o TailText(r.item.slice)
    BY <1>2, ItemTextIs
<1>8. /\ CutBy("&&", t) \in Seq(Seq(AfoTokens)) /\ ps \in Seq(AfoPieces) /\ Len(ps) = Len(CutBy("&&", t)) /\ Len(ps) > 0
      /\ \A k \in 1..Len(ps) : ps[k] = PieceRead(CutBy("&&", t)[k])
    BY <1>2, PiecesAre
<1>. HIDE DEF given, P, t, r, ps, texts, n
<1>9. CASE n > 0
    <2>1. \A k \in 1..n : FreeOf("&&", PieceText(given[k])) /\ PieceRead(PieceText(given[k])) = given[k] /\ ValidFilter(given[k])
        BY <1>3, KeptIsFree
    <2>2. \A k \in 1..Len(texts) : \A i \in 1..Len(texts[k]) : texts[k][i] # "&&"
        BY <1>4, <2>1 DEF FreeOf
    <2>3. CutBy("&&", t) = texts
        BY <1>4, <1>5, <1>6, <1>9, <2>2, CutOfJoined
    <2>4. Len(ps) = n /\ \A k \in 1..n : ps[k] = given[k]
        BY <1>4, <1>8, <2>1, <2>3
    <2>5. ps = given
        BY <1>3, <1>8, <2>4, SeqEqual DEF n
    <2>6. Good(ps) = ps
        BY <1>8, <2>1, <2>4, GoodIs
    <2>7. Last(ps) = given[n] /\ n \in 1..n
        BY <1>3, <1>9, <2>4, <2>5 DEF Last
    <2>8. r.ok
        BY <1>2, <2>1, <2>7
    <2>9. ItemText(r.item) = P
        BY <1>1, <1>2, <1>7, <2>5, <2>6 DEF t
    <2>10. given # << >>
        BY <1>9, EmptySeq DEF n
    <2>. QED BY <2>8, <2>9, <2>10 DEF r, P, given
<1>10. CASE n = 0
    <2>1. given = << >>
        BY <1>3, <1>10, EmptySeq DEF n
    <2>2. t = << >> /\ TailText(<< >>) = << >>
        BY <1>3, <2>1, TailType DEF t
    <2>3. Passed("&&", t, Len(t)) = 0
        <3>1. Len(t) = 0
            BY <2>2, EmptySeq
        <3>2. {i \in 1..0 : t[i] = "&&"} = {}
            OBVIOUS
        <3>. QED BY <3>1, <3>2, FS_EmptySet DEF Passed
    <2>4. Len(ps) = 1
        <3>. DEFINE m == Passed("&&", t, Len(t))
        <3>1. t \in Seq(AfoTokens)
            BY <1>2 DEF AfoTexts
        <3>2. Len(CutBy("&&", t)) = m + 1
            BY <3>1, CutByType
        <3>3. m = 0
            BY <2>3
        <3>. HIDE DEF m
        <3>. QED BY <1>8, <3>2, <3>3
    <2>5. CutBy("&&", t)[1] = << >>
        <3>. DEFINE z == CutBy("&&", t)[1]
        <3>1. t \in Seq(AfoTokens) /\ 1 \in 1..Len(CutBy("&&", t))
            BY <1>2, <1>8, <2>4 DEF AfoTexts
        <3>2. z \in Seq(AfoTokens) /\ TakenOf(t, z)
            BY <3>1, CutTokens
        <3>. HIDE DEF z
        <3>3. \A i \in 1..Len(z) : FALSE
            <4>1. \A j \in 1..Len(t) : FALSE
                <5>1. Len(t) = 0
                    BY <2>2, EmptySeq
                <5>. QED BY <5>1
            <4>. QED BY <3>2, <4>1 DEF TakenOf
        <3>4. Len(z) \in Nat /\ (Len(z) > 0 => 1 \in 1..Len(z))
            BY <3>2, LenProperties
        <3>5. Len(z) = 0
            BY <3>3, <3>4
        <3>6. z = << >>
            BY <3>2, <3>5, EmptySeq
        <3>. QED BY <3>6 DEF z
    <2>6. ps[1] = PieceRead(<< >>)
        BY <1>8, <2>4, <2>5
    <2>7. ~ValidFilter(ps[1])
        <3>1. ~Holds(<< >>, {":"})
            BY EmptyAny DEF Holds
        <3>2. PieceRead(<< >>) = [attribute |-> "nil", value |-> NilFilter]
            BY <3>1 DEF PieceRead
        <3>. QED BY <2>6, <3>2 DEF ValidFilter
    <2>8. Last(ps) = ps[1]
        BY <2>4 DEF Last
    <2>9. Good(ps) \in Seq(AfoPieces) /\ Len(Good(ps)) \in 0..1 /\ ~(Len(Good(ps)) = 1)
        BY <1>8, <2>4, <2>7, GoodIs
    <2>10. Good(ps) = << >>
        <3>1. Len(Good(ps)) = 0
            BY <2>9
        <3>. QED BY <2>9, <3>1, EmptySeq
    <2>11. ItemText(r.item) = P
        BY <1>1, <1>2, <1>7, <2>2, <2>10
    <2>. QED BY <1>2, <2>1, <2>7, <2>8, <2>11 DEF r, P, given
<1>. QED BY <1>3, <1>9, <1>10

\* The converse of ItemAgain, for an item whose pieces are valid or that is accepted.
LEMMA ItemKept ==
    ASSUME NEW unit, unit.slice \in Seq(AfoPieces), unit.slice # << >>,
           ItemText(ItemRead(ItemText(unit)).item) = ItemText(unit),
           (\A k \in 1..Len(unit.slice) : ValidFilter(unit.slice[k])) \/ ItemRead(ItemText(unit)).ok
    PROVE  /\ \A k \in 1..Len(unit.slice) : Kept(unit.slice[k])
           /\ ItemRead(ItemText(unit)).ok
<1>. DEFINE given == unit.slice
            P == ItemText(unit)
            t == TailText(given)
            r == ItemRead(P)
            n == Len(given)
            texts == [k \in DOMAIN given |-> PieceText(given[k])]
<1>1. P \in AfoTexts /\ P # << >> /\ P[1] \in OperationWords /\ Tail(P) = t /\ P = <<AfoWord(unit.op)>> \o t
    BY ItemTextIs
<1>2. n \in Nat /\ n > 0
    BY LenProperties, EmptySeq
<1>3. t # << >>
    <2>. SUFFICES ASSUME t = << >> PROVE FALSE
        OBVIOUS
    <2>1. ~r.ok
        <3>. DEFINE none == [op |-> unit.op, slice |-> << >>]
        <3>1. none.slice = << >> /\ none.op = unit.op /\ << >> \in Seq(AfoPieces) /\ Len(<< >>) = 0
            BY EmptySeq
        <3>. HIDE DEF none
        <3>2. \A k \in 1..Len(none.slice) : Kept(none.slice[k])
            BY <3>1
        <3>3. ItemText(none) = <<AfoWord(unit.op)>> \o TailText(<< >>) /\ TailText(<< >>) = << >>
            BY <3>1, ItemTextIs, TailType
        <3>4. ItemText(none) = P
            BY <1>1, <3>3
        <3>5. ItemRead(ItemText(none)).ok <=> none.slice # << >>
            BY <3>1, <3>2, ItemAgain
        <3>. QED BY <3>1, <3>4, <3>5
    <2>2. \A k \in 1..n : ValidFilter(given[k])
        BY <2>1
    <2>. HIDE DEF P, r
    <2>3. texts \in Seq(Seq(AfoTokens)) /\ Len(texts) = n /\ \A k \in 1..n : texts[k] = PieceText(given[k])
        BY TextsOfSlice
    <2>4. t = Joined("&&", texts) /\ "&&" \in AfoTokens
        BY TokensType DEF TailText
    <2>5. 1 \in 1..n
        BY <1>2
    <2>6. given[1] \in AfoPieces /\ ValidFilter(given[1])
        BY <2>2, <2>5, ElementOfSeq
    <2>7. Len(PieceText(given[1])) >= 2 /\ PieceText(given[1]) \in AfoTexts
        BY <2>6, PieceTextIs
    <2>. HIDE DEF t, texts, given, n
    <2>8. PICK st : Placing("&&", texts, n, t, st)
        BY <1>2, <2>3, <2>4, JoinedPlaces
    <2>9. st[1] + Len(texts[1]) <= Len(t) /\ st[1] = 0 /\ texts[1] = PieceText(given[1])
        BY <2>3, <2>5, <2>8 DEF Placing
    <2>10. Len(PieceText(given[1])) \in Nat /\ Len(t) = 0
        BY <2>7, LenProperties, EmptySeq DEF AfoTexts
    <2>. QED BY <2>7, <2>9, <2>10
<1>4. (\A k \in 1..Len(CutBy("&&", t)) : NormalText(CutBy("&&", t)[k])) /\ r.ok
    BY <1>1, <1>3, ItemBack
<1>. HIDE DEF P, t, r
<1>5. \A k \in 1..n : Kept(given[k])
    BY <1>4, KeptOfNormal DEF t
<1>. QED BY <1>4, <1>5 DEF r, P

\* A delimiter that is written is in a value, and not behind its last parenthesis.
LEMMA DelimiterInside ==
    ASSUME NEW unit, unit.slice \in Seq(AfoPieces), NEW i \in 1..Len(ItemText(unit)), ItemText(unit)[i] \in Delimiters
    PROVE  /\ i > 2 /\ ItemText(unit)[i - 1] # ")"
           /\ \E k \in 1..Len(unit.slice) : Holds(unit.slice[k].value, Delimiters)
<1>. DEFINE given == unit.slice
            P == ItemText(unit)
            t == TailText(given)
            n == Len(given)
            texts == [k \in DOMAIN given |-> PieceText(given[k])]
            l == Len(t)
            j == i - 1
<1>1. /\ P \in AfoTexts /\ Len(P) = l + 1 /\ P[1] \in OperationWords /\ \A a \in 1..l : P[a + 1] = t[a]
    BY ItemTextIs
<1>2. given \in Seq(AfoPieces) /\ n \in Nat
    BY LenProperties
<1>3. texts \in Seq(Seq(AfoTokens)) /\ Len(texts) = n /\ \A k \in 1..n : texts[k] = PieceText(given[k])
    BY TextsOfSlice
<1>4. t = Joined("&&", texts) /\ "&&" \in AfoTokens
    BY TokensType DEF TailText
<1>5. t \in Seq(AfoTokens) /\ l \in Nat
    BY TailType, LenProperties DEF AfoTexts
<1>6. i \in 1..Len(P) /\ P[i] \in Delimiters
    OBVIOUS
<1>7. \A w \in OperationWords \cup {"&&", ":", "(o=", ")"} \cup Attributes \cup {Unnamed} : w \notin Delimiters
    BY DEF OperationWords, Delimiters, Attributes, Unnamed
<1>. HIDE DEF P, t, texts, l
<1>8. i # 1
    BY <1>1, <1>6, <1>7
<1>9. j \in 1..l /\ j + 1 = i /\ t[j] \in Delimiters
    <2>1. j \in 1..l /\ j + 1 = i
        BY <1>1, <1>5, <1>6, <1>8
    <2>. QED BY <1>1, <1>6, <2>1
<1>. HIDE DEF j
<1>10. n > 0
    <2>. SUFFICES ASSUME n = 0 PROVE FALSE
        BY <1>2
    <2>1. given = << >>
        BY <1>2, EmptySeq
    <2>. HIDE DEF given, n
    <2>2. t = << >>
        BY <1>2, <2>1, TailType DEF t
    <2>3. l = 0
        BY <2>2, EmptySeq DEF l
    <2>. QED BY <1>9, <2>3
<1>. HIDE DEF given, n
<1>11. PICK st : Placing("&&", texts, n, t, st)
    BY <1>3, <1>4, <1>10, JoinedPlaces
<1>12. /\ st \in [1..n -> 0..l] /\ st[1] = 0
       /\ \A k \in 1..n : st[k] + Len(texts[k]) <= l /\ \A a \in 1..Len(texts[k]) : t[st[k] + a] = texts[k][a]
       /\ \A k \in 2..n : t[st[k]] = "&&"
       /\ \A p \in 1..l : \E k \in 1..n : p \in st[k]..(st[k] + Len(texts[k]))
    BY <1>11 DEF Placing, l
<1>13. PICK k \in 1..n : j \in st[k]..(st[k] + Len(texts[k]))
    BY <1>9, <1>12
<1>. DEFINE f == given[k]
            x == PieceText(f)
            v == f.value
            p == st[k]
            a == j - p
            h == Len(x)
            m == Len(v)
<1>14. f \in AfoPieces /\ texts[k] = x
    BY <1>2, <1>3, ElementOfSeq DEF n
<1>15. /\ x \in AfoTexts /\ m \in Nat /\ m > 0
       /\ ~ValidFilter(f) => x = << >>
       /\ ValidFilter(f) => Len(x) >= 2 /\ x[1] = f.attribute /\ x[2] = ":"
       /\ ValidFilter(f) /\ v = InvalidFilter => Len(x) = 2
       /\ ValidFilter(f) /\ v # InvalidFilter =>
            Len(x) = m + 4 /\ x[3] = "(o=" /\ x[m + 4] = ")" /\ \A b \in 1..m : x[b + 3] = v[b]
    BY <1>14, PieceTextIs
<1>16. h \in Nat /\ (x = << >> => h = 0) /\ v \in AfoValues /\ (ValidFilter(f) => f.attribute \in Attributes \cup {Unnamed})
    BY <1>14, <1>15, LenProperties, EmptySeq, PieceFields DEF AfoTexts
<1>17. p \in 0..l /\ j \in p..(p + h) /\ \A b \in 1..h : t[p + b] = x[b]
    BY <1>12, <1>13, <1>14
<1>18. p # 0 => t[p] = "&&"
    <2>1. p # 0 => k # 1
        BY <1>12
    <2>2. k # 1 => k \in 2..n
        BY <1>2, <1>13 DEF n
    <2>. QED BY <1>12, <2>1, <2>2
<1>. HIDE DEF f, x, v, p, a, h, m
<1>19. j # p
    <2>. SUFFICES ASSUME j = p PROVE FALSE
        OBVIOUS
    <2>1. p # 0
        BY <1>9
    <2>. QED BY <1>7, <1>9, <1>18, <2>1
<1>20. a \in 1..h /\ p + a = j
    BY <1>9, <1>16, <1>17, <1>19 DEF a
<1>21. x[a] \in Delimiters
    BY <1>9, <1>17, <1>20
<1>22. ValidFilter(f)
    BY <1>15, <1>16, <1>20
<1>23. a # 1 /\ a # 2
    BY <1>7, <1>15, <1>16, <1>21, <1>22
<1>24. v # InvalidFilter
    <2>. SUFFICES ASSUME v = InvalidFilter PROVE FALSE
        OBVIOUS
    <2>1. h = 2
        BY <1>15, <1>22 DEF h
    <2>. QED BY <1>20, <1>23, <2>1
<1>25. h = m + 4 /\ x[3] = "(o=" /\ x[m + 4] = ")" /\ \A b \in 1..m : x[b + 3] = v[b]
    BY <1>15, <1>22, <1>24 DEF h
<1>26. a # 3 /\ a # m + 4
    BY <1>7, <1>21, <1>25
<1>27. a - 3 \in 1..m /\ (a - 3) + 3 = a /\ a - 1 \in 1..h /\ p + (a - 1) = j - 1 /\ j - 1 \in 1..l /\ (j - 1) + 1 = j
    BY <1>9, <1>15, <1>16, <1>17, <1>20, <1>23, <1>25, <1>26, <1>5
<1>28. v[a - 3] \in Delimiters
    BY <1>21, <1>25, <1>27
<1>29. Holds(v, Delimiters)
    <2>1. DOMAIN v = 1..m
        BY <1>16, LenProperties DEF AfoValues, AfoTexts, m
    <2>. QED BY <1>27, <1>28, <2>1 DEF Holds
<1>30. x[a - 1] # ")"
    <2>1. CASE a = 4
        <3>1. a - 1 = 3
            BY <2>1
        <3>. QED BY <1>25, <3>1
    <2>2. CASE a # 4
        <3>1. a - 4 \in 1..m /\ (a - 4) + 3 = a - 1
            BY <1>15, <1>20, <1>27, <2>2
        <3>2. v[a - 4] # ")"
            BY <1>16, <3>1 DEF AfoValues, m
        <3>. QED BY <1>25, <3>1, <3>2
    <2>. QED BY <2>1, <2>2
<1>31. P[i - 1] # ")"
    <2>1. P[(j - 1) + 1] = t[j - 1] /\ t[j - 1] = x[a - 1]
        BY <1>1, <1>17, <1>27
    <2>2. i - 1 = (j - 1) + 1
        BY <1>9, <1>6, <1>27
    <2>. QED BY <1>30, <2>1, <2>2
<1>32. i > 2
    BY <1>6, <1>9, <1>27
<1>33. \E b \in 1..n : Holds(given[b].value, Delimiters)
    BY <1>13, <1>29 DEF v, f
<1>. QED BY <1>31, <1>32, <1>33 DEF P, given, n

\* What is read of a text without delimiters is written without them.
LEMMA NoDelimiterRead ==
    ASSUME NEW s \in AfoTexts, ~Holds(s, Delimiters)
    PROVE  \A i \in 1..Len(ItemText(ItemRead(s).item)) : ItemText(ItemRead(s).item)[i] \notin Delimiters
<1>. DEFINE unit == ItemRead(s).item
            G == unit.slice
            t == Tail(s)
            fr == CutBy("&&", t)
            ps == Pieces(t)
<1>. SUFFICES ASSUME NEW i \in 1..Len(ItemText(unit)), ItemText(unit)[i] \in Delimiters PROVE FALSE
    OBVIOUS
<1>1. /\ G \in Seq(AfoPieces)
      /\ s # << >> /\ s[1] \in OperationWords => G = Good(ps) /\ t \in AfoTexts
      /\ ~(s # << >> /\ s[1] \in OperationWords) => G = << >>
    BY ItemReadIs
<1>2. PICK k \in 1..Len(G) : Holds(G[k].value, Delimiters)
    <2>. HIDE DEF unit
    <2>. QED BY <1>1, DelimiterInside
<1>. HIDE DEF unit, G
<1>3. s # << >> /\ s[1] \in OperationWords
    <2>. SUFFICES ASSUME G = << >> PROVE FALSE
        BY <1>1
    <2>1. Len(G) = 0
        BY EmptySeq
    <2>. QED BY <1>2, <2>1
<1>4. G = Good(ps) /\ t \in AfoTexts
    BY <1>1, <1>3
<1>5. /\ ps \in Seq(AfoPieces) /\ Len(ps) = Len(fr)
      /\ \A j \in 1..Len(fr) : ps[j] = PieceRead(fr[j]) /\ fr[j] \in AfoTexts
    BY <1>4, PiecesAre
<1>6. PICK j \in 1..Len(ps) : G[k] = ps[j]
    <2>. HIDE DEF ps
    <2>. QED BY <1>2, <1>4, <1>5, GoodIs
<1>. DEFINE x == fr[j]
            v == PieceRead(x).value
<1>7. x \in AfoTexts /\ Holds(v, Delimiters)
    BY <1>2, <1>5, <1>6
<1>8. TakenOf(t, x)
    <2>1. t \in Seq(AfoTokens) /\ j \in 1..Len(CutBy("&&", t))
        BY <1>4, <1>5 DEF AfoTexts
    <2>. QED BY <2>1, CutTokens
<1>. HIDE DEF fr, ps
<1>9. Range(v) \subseteq Range(x) \cup {"any", "nil", "invalid"}
    BY <1>7, PieceReads
<1>. HIDE DEF x, v
<1>10. PICK d \in Delimiters : d \in Range(v)
    BY <1>7 DEF Holds, Range
<1>11. d \in Range(x)
    BY <1>9, <1>10 DEF Delimiters
<1>12. DOMAIN x = 1..Len(x) /\ DOMAIN s = 1..Len(s)
    BY <1>7, LenProperties DEF AfoTexts
<1>13. PICK a \in 1..Len(x) : x[a] = d
    BY <1>11, <1>12 DEF Range
<1>14. PICK b \in 1..Len(t) : t[b] = d
    BY <1>8, <1>13 DEF TakenOf
<1>15. Len(t) = Len(s) - 1 /\ t[b] = s[b + 1] /\ Len(s) \in Nat
    BY <1>3, HeadTailProperties, LenProperties DEF AfoTexts
<1>16. b + 1 \in 1..Len(s)
    <2>. HIDE DEF t
    <2>. QED BY <1>15
<1>17. Holds(s, Delimiters)
    BY <1>10, <1>12, <1>14, <1>15, <1>16 DEF Holds
<1>. QED BY <1>17

\* A text is split at its first delimiter.
SplitAt(T, i) ==
    /\ i \in 1..Len(T) /\ T[i] \in Delimiters /\ \A j \in 1..(i - 1) : T[j] \notin Delimiters
    /\ Split(T) = [first |-> SubSeq(T, 1, i - 1), second |-> SubSeq(T, i + 1, Len(T)), semi |-> T[i] = ";"]

LEMMA SplitIs ==
    ASSUME NEW T \in AfoTexts
    PROVE  /\ ~Holds(T, Delimiters) => Split(T) = [first |-> T, second |-> << >>, semi |-> FALSE]
           /\ Holds(T, Delimiters) => \E i \in 1..Len(T) : SplitAt(T, i)
<1>1. DOMAIN T = 1..Len(T) /\ Len(T) \in Nat
    BY LenProperties DEF AfoTexts
<1>2. ~Holds(T, Delimiters) => Split(T) = [first |-> T, second |-> << >>, semi |-> FALSE]
    BY DEF Split
<1>3. ASSUME Holds(T, Delimiters) PROVE \E i \in 1..Len(T) : SplitAt(T, i)
    <2>. DEFINE Q == {k \in 1..Len(T) : T[k] \in Delimiters}
                i == First(T, Delimiters)
    <2>1. Q # {} /\ Q \subseteq 1..Len(T)
        BY <1>1, <1>3 DEF Holds
    <2>2. PICK m \in Q : \A k \in Q : m <= k
        <3>. HIDE DEF Q
        <3>. QED BY <1>1, <2>1, FirstPosition
    <2>3. m \in DOMAIN T /\ T[m] \in Delimiters /\ \A j \in 1..(m - 1) : T[j] \notin Delimiters
        <3>1. m \in 1..Len(T) /\ T[m] \in Delimiters
            OBVIOUS
        <3>2. \A j \in 1..(m - 1) : j \in 1..Len(T) /\ ~(m <= j)
            BY <1>1, <3>1
        <3>3. \A j \in 1..(m - 1) : j \notin Q
            <4>. HIDE DEF Q
            <4>. QED BY <2>2, <3>2
        <3>. QED BY <1>1, <3>1, <3>2, <3>3
    <2>4. i \in DOMAIN T /\ T[i] \in Delimiters /\ \A j \in 1..(i - 1) : T[j] \notin Delimiters
        <3>1. \E k \in DOMAIN T : T[k] \in Delimiters /\ \A j \in 1..(k - 1) : T[j] \notin Delimiters
            BY <2>3
        <3>. QED BY <3>1, Zenon DEF First
    <2>5. Split(T) = [first |-> SubSeq(T, 1, i - 1), second |-> SubSeq(T, i + 1, Len(T)), semi |-> T[i] = ";"]
        BY <1>3, Zenon DEF Split, Before, After
    <2>6. i \in 1..Len(T)
        BY <1>1, <2>4
    <2>. HIDE DEF i
    <2>7. SplitAt(T, i)
        BY <2>4, <2>5, <2>6 DEF SplitAt
    <2>. QED BY <2>6, <2>7
<1>. QED BY <1>2, <1>3

\* The parts have what is around the delimiter.
LEMMA PartsOfSplit ==
    ASSUME NEW T \in AfoTexts, NEW i \in 1..Len(T), SplitAt(T, i)
    PROVE  /\ Split(T).first \in AfoTexts /\ Len(Split(T).first) = i - 1
           /\ \A j \in 1..(i - 1) : Split(T).first[j] = T[j]
           /\ ~Holds(Split(T).first, Delimiters)
           /\ Split(T).second \in AfoTexts /\ Len(Split(T).second) = Len(T) - i
           /\ \A j \in 1..(Len(T) - i) : Split(T).second[j] = T[i + j]
<1>. DEFINE a == Split(T).first
            b == Split(T).second
            l == Len(T)
<1>1. T \in Seq(AfoTokens) /\ l \in Nat /\ i \in 1..l
    BY LenProperties DEF AfoTexts
<1>2. a = SubSeq(T, 1, i - 1) /\ b = SubSeq(T, i + 1, l)
    <2>. DEFINE p == SubSeq(T, 1, i - 1)
                q == SubSeq(T, i + 1, l)
                semi == (T[i] = ";")
    <2>1. Split(T) = [first |-> p, second |-> q, semi |-> semi]
        BY DEF SplitAt
    <2>. HIDE DEF p, q, semi, l
    <2>2. Split(T).first = p /\ Split(T).second = q
        BY <2>1
    <2>. QED BY <2>2 DEF p, q, a, b
<1>3. \A j \in 1..(i - 1) : T[j] \notin Delimiters
    BY DEF SplitAt
<1>. HIDE DEF a, b, l
<1>4. a \in Seq(AfoTokens) /\ Len(a) = i - 1 /\ \A j \in 1..(i - 1) : a[j] = T[j]
    <2>. DEFINE u == 1
                w == i - 1
    <2>1. u \in 1..(Len(T) + 1) /\ w \in 0..Len(T) /\ (IF u <= w THEN w - u + 1 ELSE 0) = i - 1
          /\ w - u + 1 = i - 1 /\ \A j \in 1..(i - 1) : u + j - 1 = j
        BY <1>1 DEF l
    <2>. HIDE DEF u, w
    <2>2. a = SubSeq(T, u, w)
        BY <1>2 DEF u, w
    <2>3. a \in Seq(AfoTokens) /\ Len(a) = (IF u <= w THEN w - u + 1 ELSE 0)
        BY <1>1, <2>1, <2>2, SubSeqProperties
    <2>4. \A j \in 1..(w - u + 1) : a[j] = T[u + j - 1]
        BY <1>1, <2>1, <2>2, SubSeqProperties
    <2>. QED BY <2>1, <2>3, <2>4
<1>5. b \in Seq(AfoTokens) /\ Len(b) = l - i /\ \A j \in 1..(l - i) : b[j] = T[i + j]
    <2>. DEFINE u == i + 1
    <2>1. u \in 1..(Len(T) + 1) /\ l \in 0..Len(T) /\ (IF u <= l THEN l - u + 1 ELSE 0) = l - i
          /\ l - u + 1 = l - i /\ \A j \in 1..(l - i) : u + j - 1 = i + j
        BY <1>1 DEF l
    <2>. HIDE DEF u
    <2>2. b = SubSeq(T, u, l)
        BY <1>2 DEF u
    <2>3. b \in Seq(AfoTokens) /\ Len(b) = (IF u <= l THEN l - u + 1 ELSE 0)
        BY <1>1, <2>1, <2>2, SubSeqProperties
    <2>4. \A j \in 1..(l - u + 1) : b[j] = T[u + j - 1]
        BY <1>1, <2>1, <2>2, SubSeqProperties
    <2>. QED BY <2>1, <2>3, <2>4
<1>6. ~Holds(a, Delimiters)
    <2>1. DOMAIN a = 1..(i - 1)
        BY <1>4, LenProperties
    <2>. QED BY <1>3, <1>4, <2>1 DEF Holds
<1>. QED BY <1>2, <1>4, <1>5, <1>6 DEF AfoTexts, a, b, l

\* Two texts with a delimiter between them, of which the first has none.
LEMMA SplitOfTwo ==
    ASSUME NEW a \in AfoTexts, NEW b \in AfoTexts, NEW d \in Delimiters, ~Holds(a, Delimiters)
    PROVE  LET T == a \o (<<d>> \o b)
           IN  /\ T \in AfoTexts /\ Split(T) = [first |-> a, second |-> b, semi |-> d = ";"]
               /\ Len(T) = Len(a) + Len(b) + 1 /\ \A i \in 1..Len(a) : T[i] = a[i]
<1>. DEFINE T == a \o (<<d>> \o b)
            l == Len(a)
            m == Len(b)
<1>1. a \in Seq(AfoTokens) /\ b \in Seq(AfoTokens) /\ l \in Nat /\ m \in Nat /\ DOMAIN a = 1..l
    BY LenProperties DEF AfoTexts
<1>2. d \in AfoTokens
    BY TokensType DEF Delimiters
<1>3. /\ T \in Seq(AfoTokens) /\ Len(T) = l + m + 1 /\ \A i \in 1..l : T[i] = a[i]
      /\ T[l + 1] = d /\ \A j \in 1..m : T[l + 1 + j] = b[j]
    <2>. DEFINE u == <<d>> \o b
    <2>1. <<d>> \in Seq(AfoTokens) /\ Len(<<d>>) = 1 /\ <<d>>[1] = d
        BY <1>2
    <2>2. u \in Seq(AfoTokens) /\ Len(u) = m + 1 /\ u[1] = d /\ \A j \in 1..m : u[j + 1] = b[j]
        <3>. DEFINE e == <<d>>
        <3>. HIDE DEF e, l, m
        <3>0. e \in Seq(AfoTokens) /\ Len(e) = 1 /\ e[1] = d
            BY <2>1 DEF e
        <3>1. e \o b \in Seq(AfoTokens) /\ Len(e \o b) = Len(e) + Len(b)
            BY <1>1, <3>0, ConcatProperties
        <3>2. \A j \in 1..Len(e) : (e \o b)[j] = e[j]
            BY <1>1, <3>0, ConcatProperties
        <3>3. \A j \in (Len(e) + 1)..(Len(e) + Len(b)) : (e \o b)[j] = b[j - Len(e)]
            <4>. SUFFICES ASSUME NEW j \in (Len(e) + 1)..(Len(e) + Len(b)) PROVE (e \o b)[j] = b[j - Len(e)]
                OBVIOUS
            <4>1. j \in (Len(e) + 1)..(Len(e) + Len(b))
                OBVIOUS
            <4>2. j \in 1..(Len(e) + Len(b)) /\ ~(j <= Len(e))
                BY <1>1, <3>0, <4>1
            <4>. QED BY <1>1, <3>0, <4>1, <4>2, ConcatProperties
        <3>4. \A j \in 1..m : j + 1 \in (Len(e) + 1)..(Len(e) + Len(b)) /\ (j + 1) - Len(e) = j
            BY <1>1, <3>0 DEF m
        <3>5. u = e \o b
            BY DEF e
        <3>. HIDE DEF u
        <3>6. \A j \in 1..m : u[j + 1] = b[j]
            BY <3>3, <3>4, <3>5
        <3>7. Len(u) = m + 1 /\ u[1] = d
            BY <1>1, <3>0, <3>1, <3>2, <3>5 DEF m
        <3>. QED BY <3>1, <3>5, <3>6, <3>7
    <2>. HIDE DEF u
    <2>3. T = a \o u
        BY DEF u
    <2>4. a \o u \in Seq(AfoTokens) /\ Len(a \o u) = Len(a) + Len(u)
        BY <1>1, <2>2, ConcatProperties
    <2>5. \A j \in 1..Len(a) : (a \o u)[j] = a[j]
        BY <1>1, <2>2, ConcatProperties
    <2>6. \A j \in (Len(a) + 1)..(Len(a) + Len(u)) : (a \o u)[j] = u[j - Len(a)]
        BY <1>1, <2>2, ConcatProperties
    <2>. HIDE DEF T, m
    <2>7. l + 1 \in (Len(a) + 1)..(Len(a) + Len(u)) /\ (l + 1) - Len(a) = 1
          /\ \A j \in 1..m : l + 1 + j \in (Len(a) + 1)..(Len(a) + Len(u)) /\ (l + 1 + j) - Len(a) = j + 1
        BY <1>1, <2>2
    <2>8. T[l + 1] = d
        BY <2>2, <2>3, <2>6, <2>7
    <2>9. \A j \in 1..m : T[l + 1 + j] = b[j]
        BY <2>2, <2>3, <2>6, <2>7
    <2>10. Len(T) = l + m + 1
        BY <1>1, <2>2, <2>3, <2>4
    <2>. QED BY <2>3, <2>4, <2>5, <2>8, <2>9, <2>10
<1>. HIDE DEF T
<1>4. T \in AfoTexts /\ DOMAIN T = 1..Len(T)
    BY <1>3, LenProperties DEF AfoTexts
<1>5. l + 1 \in 1..Len(T)
    BY <1>1, <1>3
<1>6. Holds(T, Delimiters)
    BY <1>3, <1>4, <1>5 DEF Holds
<1>7. PICK i \in 1..Len(T) : SplitAt(T, i)
    BY <1>4, <1>6, SplitIs
<1>8. i = l + 1
    <2>1. T[i] \in Delimiters /\ \A j \in 1..(i - 1) : T[j] \notin Delimiters
        BY <1>7 DEF SplitAt
    <2>2. \A j \in 1..l : T[j] \notin Delimiters
        BY <1>1, <1>3 DEF Holds
    <2>3. i \notin 1..l
        BY <2>1, <2>2
    <2>4. l + 1 \notin 1..(i - 1)
        BY <1>3, <2>1
    <2>. HIDE DEF l, m
    <2>. QED BY <1>1, <1>3, <2>3, <2>4
<1>9. /\ Split(T).first \in AfoTexts /\ Len(Split(T).first) = i - 1 /\ \A j \in 1..(i - 1) : Split(T).first[j] = T[j]
      /\ Split(T).second \in AfoTexts /\ Len(Split(T).second) = Len(T) - i
      /\ \A j \in 1..(Len(T) - i) : Split(T).second[j] = T[i + j]
    BY <1>4, <1>7, PartsOfSplit
<1>10. i - 1 = l /\ Len(T) - i = m
    <2>. HIDE DEF l, m
    <2>. QED BY <1>1, <1>3, <1>8
<1>11. Split(T).first = a
    <2>. DEFINE z == Split(T).first
    <2>1. z \in Seq(AfoTokens) /\ Len(z) = l /\ \A j \in 1..l : z[j] = a[j]
        BY <1>3, <1>9, <1>10 DEF AfoTexts
    <2>. HIDE DEF z
    <2>2. z = a
        BY <1>1, <2>1, SeqEqual
    <2>. QED BY <2>2 DEF z
<1>12. Split(T).second = b
    <2>. DEFINE z == Split(T).second
    <2>1. \A j \in 1..m : i + j = l + 1 + j
        BY <1>8
    <2>2. z \in Seq(AfoTokens) /\ Len(z) = m /\ \A j \in 1..m : z[j] = b[j]
        BY <1>3, <1>9, <1>10, <2>1 DEF AfoTexts
    <2>. HIDE DEF z
    <2>3. z = b
        BY <1>1, <2>2, SeqEqual
    <2>. QED BY <2>3 DEF z
<1>13. Split(T) = [first |-> a, second |-> b, semi |-> d = ";"]
    <2>1. Split(T) = [first |-> SubSeq(T, 1, i - 1), second |-> SubSeq(T, i + 1, Len(T)), semi |-> T[i] = ";"]
        BY <1>7 DEF SplitAt
    <2>2. T[i] = d
        BY <1>3, <1>8
    <2>3. SubSeq(T, 1, i - 1) = a /\ SubSeq(T, i + 1, Len(T)) = b
        <3>. DEFINE p == SubSeq(T, 1, i - 1)
                    q == SubSeq(T, i + 1, Len(T))
                    semi == (T[i] = ";")
        <3>1. Split(T) = [first |-> p, second |-> q, semi |-> semi]
            BY <2>1
        <3>. HIDE DEF p, q, semi
        <3>2. Split(T).first = p /\ Split(T).second = q
            BY <3>1
        <3>. QED BY <1>11, <1>12, <3>2 DEF p, q
    <2>. QED BY <2>1, <2>2, <2>3
<1>. QED BY <1>3, <1>4, <1>13 DEF T

\* The items of an operation, and what is written of them.
AfoItems == [op : {"none", "add", "delete"}, slice : Seq(AfoPieces)]
Sign(semi) == IF semi THEN ";" ELSE ","

LEMMA ItemFields ==
    ASSUME NEW X \in AfoItems
    PROVE  X.slice \in Seq(AfoPieces) /\ X.op \in {"none", "add", "delete"} /\ X # NilItem
BY DEF AfoItems, NilItem

LEMMA ReadItem ==
    ASSUME NEW s \in AfoTexts
    PROVE  ItemRead(s).item \in AfoItems
<1>. DEFINE x == ItemRead(s).item
<1>1. x = [op |-> x.op, slice |-> x.slice] /\ x.op \in {"none", "add", "delete"} /\ x.slice \in Seq(AfoPieces)
    BY ItemReadIs
<1>. HIDE DEF x
<1>2. x \in AfoItems
    BY <1>1 DEF AfoItems
<1>. QED BY <1>2 DEF x

LEMMA TextOfOperation ==
    ASSUME NEW o
    PROVE  /\ o.add # NilItem /\ o.del = NilItem => ItemsOf(o) = <<o.add>>
           /\ o.add = NilItem /\ o.del # NilItem => ItemsOf(o) = <<o.del>>
           /\ o.add # NilItem /\ o.del # NilItem => ItemsOf(o) = <<o.add, o.del>>
           /\ o.add = NilItem /\ o.del = NilItem => ItemsOf(o) = << >>
<1>1. \A X : <<X>> \o << >> = <<X>> /\ << >> \o <<X>> = <<X>>
    <2>. SUFFICES ASSUME NEW X PROVE <<X>> \o << >> = <<X>> /\ << >> \o <<X>> = <<X>>
        OBVIOUS
    <2>. DEFINE y == <<X>>
    <2>1. y \in Seq({X})
        OBVIOUS
    <2>. HIDE DEF y
    <2>2. y \o << >> = y /\ << >> \o y = y
        BY <2>1, ConcatEmptySeq
    <2>. QED BY <2>2 DEF y
<1>2. \A X, Y : <<X>> \o <<Y>> = <<X, Y>>
    <2>. SUFFICES ASSUME NEW X, NEW Y PROVE <<X>> \o <<Y>> = <<X, Y>>
        OBVIOUS
    <2>. DEFINE S == {X, Y}
                x == <<X>>
                y == <<Y>>
                z == <<X, Y>>
    <2>1. x \in Seq(S) /\ y \in Seq(S) /\ z \in Seq(S) /\ Len(x) = 1 /\ Len(y) = 1 /\ Len(z) = 2
          /\ x[1] = X /\ y[1] = Y /\ z[1] = X /\ z[2] = Y
        OBVIOUS
    <2>. HIDE DEF S, x, y, z
    <2>. DEFINE w == x \o y
    <2>2. w \in Seq(S) /\ Len(w) = Len(x) + Len(y)
          /\ \A i \in 1..(Len(x) + Len(y)) : w[i] = IF i <= Len(x) THEN x[i] ELSE y[i - Len(x)]
        BY <2>1, ConcatProperties
    <2>. HIDE DEF w
    <2>3. Len(w) = Len(z) /\ \A i \in 1..Len(w) : w[i] = z[i]
        <3>1. Len(w) = 2 /\ \A i \in 1..2 : i = 1 \/ i = 2
            BY <2>1, <2>2
        <3>2. w[1] = X /\ w[2] = Y
            BY <2>1, <2>2
        <3>. QED BY <2>1, <3>1, <3>2
    <2>4. w = z
        BY <2>1, <2>2, <2>3, SeqEqual
    <2>. QED BY <2>4 DEF w, x, y, z
<1>3. << >> \o << >> = << >>
    OBVIOUS
<1>. QED BY <1>1, <1>2, <1>3, Zenon DEF ItemsOf

LEMMA TextOfOne ==
    ASSUME NEW o, NEW X, ItemText(X) \in AfoTexts, ItemsOf(o) = <<X>>
    PROVE  OperationText(o) = ItemText(X)
<1>. DEFINE d == IF o.semi THEN ";" ELSE ","
            items == ItemsOf(o)
            q == [k \in DOMAIN items |-> ItemText(items[k])]
            a == ItemText(X)
<1>1. OperationText(o) = Joined(d, q)
    BY DEF OperationText
<1>2. DOMAIN <<X>> = {1} /\ <<X>>[1] = X
    BY SingletonAny
<1>3. q = <<a>>
    <2>1. q = [k \in DOMAIN <<X>> |-> ItemText(<<X>>[k])]
        OBVIOUS
    <2>. DEFINE y == <<X>>
    <2>. HIDE DEF y, a
    <2>2. DOMAIN y = {1} /\ y[1] = X
        BY <1>2 DEF y
    <2>3. q = [k \in {1} |-> ItemText(y[k])]
        BY <2>1, <2>2 DEF y
    <2>4. q = [k \in {1} |-> a]
        BY <2>2, <2>3 DEF a
    <2>5. <<a>> = [k \in {1} |-> a]
        <3>1. 1..1 = {1}
            OBVIOUS
        <3>2. <<a>> = [k \in 1..1 |-> a]
            OBVIOUS
        <3>. QED BY <3>1, <3>2
    <2>. QED BY <2>4, <2>5
<1>4. d \in AfoTokens /\ a \in Seq(AfoTokens)
    BY TokensType DEF AfoTexts
<1>. HIDE DEF d, a, q
<1>5. Joined(d, <<a>>) = a
    BY <1>4, JoinedFew
<1>. QED BY <1>1, <1>3, <1>5 DEF a

LEMMA TextOfTwo ==
    ASSUME NEW o, NEW X, NEW Y, ItemText(X) \in AfoTexts, ItemText(Y) \in AfoTexts, ItemsOf(o) = <<X, Y>>
    PROVE  OperationText(o) = ItemText(X) \o (<<Sign(o.semi)>> \o ItemText(Y))
<1>. DEFINE d == IF o.semi THEN ";" ELSE ","
            items == ItemsOf(o)
            q == [k \in DOMAIN items |-> ItemText(items[k])]
            y == <<X, Y>>
<1>1. OperationText(o) = Joined(d, q)
    BY DEF OperationText
<1>2. DOMAIN y = 1..2 /\ y[1] = X /\ y[2] = Y
    OBVIOUS
<1>3. items = y
    OBVIOUS
<1>. HIDE DEF y, items
<1>4. q = [k \in 1..2 |-> ItemText(y[k])] /\ q[1] = ItemText(X) /\ q[2] = ItemText(Y)
    BY <1>2, <1>3
<1>5. q \in [1..2 -> Seq(AfoTokens)] /\ DOMAIN q = 1..2
    <2>1. \A k \in 1..2 : k = 1 \/ k = 2
        OBVIOUS
    <2>2. \A k \in 1..2 : ItemText(y[k]) \in Seq(AfoTokens)
        BY <1>2, <2>1 DEF AfoTexts
    <2>. HIDE DEF q
    <2>. QED BY <1>4, <2>2
<1>. HIDE DEF q
<1>6. q \in Seq(Seq(AfoTokens)) /\ Len(q) = 2
    <2>. DEFINE n == 2
    <2>1. n \in Nat /\ q \in [1..n -> Seq(AfoTokens)]
        BY <1>5
    <2>. HIDE DEF n
    <2>2. q \in Seq(Seq(AfoTokens))
        BY <2>1, SeqDef
    <2>. QED BY <1>5, <2>2, LenProperties
<1>7. d \in AfoTokens /\ d = Sign(o.semi)
    BY TokensType DEF Sign
<1>. HIDE DEF d
<1>8. Joined(d, q) = q[1] \o (<<d>> \o q[2])
    BY <1>6, <1>7, JoinedTwo
<1>. QED BY <1>1, <1>4, <1>7, <1>8

\* What an operation is that is read from a text.
LEMMA OperationReadIs ==
    ASSUME NEW T \in AfoTexts, NEW a \in AfoTexts, NEW b \in AfoTexts, NEW semi \in BOOLEAN,
           Split(T) = [first |-> a, second |-> b, semi |-> semi], a # << >>
    PROVE  LET r == OperationRead(T)
           IN  /\ r.add = ItemRead(a).item /\ r.del = (IF b = << >> THEN NilItem ELSE ItemRead(b).item) /\ r.semi = semi
               /\ r.ok <=> IF b = << >> THEN ItemRead(a).ok ELSE ItemRead(b).ok
               /\ b = << >> => OperationText(r) = ItemText(ItemRead(a).item)
               /\ b # << >> => OperationText(r) = ItemText(ItemRead(a).item) \o (<<Sign(semi)>> \o ItemText(ItemRead(b).item))
<1>. DEFINE r == OperationRead(T)
            X == ItemRead(a).item
            Y == ItemRead(b).item
            xok == ItemRead(a).ok
            yok == ItemRead(b).ok
            parts == Split(T)
<1>1. parts.first = a /\ parts.second = b /\ parts.semi = semi
    OBVIOUS
<1>2. r = [add |-> IF a = << >> THEN NilItem ELSE X, del |-> IF b = << >> THEN NilItem ELSE Y, semi |-> semi,
           ok |-> IF b # << >> THEN yok ELSE a # << >> /\ xok]
    BY <1>1, Zenon DEF OperationRead
<1>3. X \in AfoItems /\ Y \in AfoItems
    BY ReadItem
<1>. HIDE DEF r, X, Y
<1>4. r.add = X /\ r.del = (IF b = << >> THEN NilItem ELSE Y) /\ r.semi = semi
    BY <1>2
<1>5. r.ok <=> IF b = << >> THEN xok ELSE yok
    BY <1>2
<1>6. X # NilItem /\ Y # NilItem /\ ItemText(X) \in AfoTexts /\ ItemText(Y) \in AfoTexts
    BY <1>3, ItemFields, ItemTextIs
<1>7. b = << >> => OperationText(r) = ItemText(X)
    <2>. SUFFICES ASSUME b = << >> PROVE OperationText(r) = ItemText(X)
        OBVIOUS
    <2>1. r.add = X /\ r.del = NilItem
        BY <1>4
    <2>2. ItemsOf(r) = <<X>>
        BY <1>6, <2>1, TextOfOperation
    <2>. QED BY <1>6, <2>2, TextOfOne
<1>8. b # << >> => OperationText(r) = ItemText(X) \o (<<Sign(semi)>> \o ItemText(Y))
    <2>. SUFFICES ASSUME b # << >> PROVE OperationText(r) = ItemText(X) \o (<<Sign(semi)>> \o ItemText(Y))
        OBVIOUS
    <2>1. r.add = X /\ r.del = Y /\ r.semi = semi
        BY <1>4
    <2>2. ItemsOf(r) = <<X, Y>>
        BY <1>6, <2>1, TextOfOperation
    <2>3. OperationText(r) = ItemText(X) \o (<<Sign(r.semi)>> \o ItemText(Y))
        BY <1>6, <2>2, TextOfTwo
    <2>. QED BY <2>1, <2>3
<1>. QED BY <1>4, <1>5, <1>7, <1>8 DEF r, X, Y

AllKept(X)  == \A k \in 1..Len(X.slice) : Kept(X.slice[k])
AllClear(X) == \A k \in 1..Len(X.slice) : ~Holds(X.slice[k].value, Delimiters)
AllValid(X) == \A k \in 1..Len(X.slice) : ValidFilter(X.slice[k])

\* A delimiter in a value to be kept is written.
LEMMA DelimiterWritten ==
    ASSUME NEW X \in AfoItems, AllKept(X), ~Holds(ItemText(X), Delimiters)
    PROVE  AllClear(X)
<1>. SUFFICES ASSUME NEW k \in 1..Len(X.slice), Holds(X.slice[k].value, Delimiters) PROVE FALSE
    BY DEF AllClear
<1>. DEFINE given == X.slice
            P == ItemText(X)
            t == TailText(given)
            n == Len(given)
            texts == [j \in DOMAIN given |-> PieceText(given[j])]
            f == given[k]
            v == f.value
            m == Len(v)
            x == PieceText(f)
<1>1. given \in Seq(AfoPieces) /\ n \in Nat /\ k \in 1..n
    BY ItemFields, LenProperties
<1>2. P \in AfoTexts /\ Len(P) = Len(t) + 1 /\ \A a \in 1..Len(t) : P[a + 1] = t[a]
    BY <1>1, ItemTextIs
<1>3. texts \in Seq(Seq(AfoTokens)) /\ Len(texts) = n /\ \A j \in 1..n : texts[j] = PieceText(given[j])
    BY <1>1, TextsOfSlice
<1>4. t = Joined("&&", texts) /\ "&&" \in AfoTokens
    BY TokensType DEF TailText
<1>5. f \in AfoPieces /\ Kept(f) /\ Holds(v, Delimiters)
    BY <1>1, ElementOfSeq DEF AllKept
<1>6. Len(t) \in Nat
    BY <1>1, TailType, LenProperties DEF AfoTexts
<1>7. ~Holds(P, Delimiters)
    OBVIOUS
<1>. HIDE DEF P, t, texts, f, given, n
<1>8. PICK st : Placing("&&", texts, n, t, st)
    <2>1. Len(texts) > 0
        BY <1>1, <1>3
    <2>. QED BY <1>3, <1>4, <2>1, JoinedPlaces
<1>9. ValidFilter(f) /\ v # InvalidFilter /\ v \in AfoValues
    BY <1>5, PieceFields DEF Kept
<1>10. m \in Nat /\ Len(x) = m + 4 /\ \A i \in 1..m : x[i + 3] = v[i]
    BY <1>5, <1>9, PieceTextIs
<1>11. texts[k] = x
    BY <1>1, <1>3 DEF f
<1>12. st[k] \in 0..Len(t) /\ st[k] + Len(texts[k]) <= Len(t) /\ \A i \in 1..Len(texts[k]) : t[st[k] + i] = texts[k][i]
    BY <1>1, <1>8 DEF Placing
<1>13. PICK i \in 1..m : v[i] \in Delimiters
    <2>1. DOMAIN v = 1..m
        BY <1>9, LenProperties DEF AfoValues, AfoTexts
    <2>. QED BY <1>5, <2>1 DEF Holds
<1>. HIDE DEF v, x, m
<1>14. i + 3 \in 1..Len(x) /\ x[i + 3] \in Delimiters
    BY <1>10, <1>13
<1>. DEFINE a == st[k] + (i + 3)
<1>15. a \in 1..Len(t) /\ t[a] \in Delimiters /\ a + 1 \in 1..Len(P)
    <2>1. t[a] = x[i + 3]
        BY <1>11, <1>12, <1>14
    <2>2. st[k] + Len(x) <= Len(t) /\ st[k] \in Nat /\ Len(x) \in Nat
        BY <1>10, <1>11, <1>12
    <2>3. a \in 1..Len(t)
        BY <1>6, <1>14, <2>2
    <2>. HIDE DEF a
    <2>. QED BY <1>2, <1>6, <1>14, <2>1, <2>3
<1>. HIDE DEF a
<1>16. P[a + 1] \in Delimiters /\ DOMAIN P = 1..Len(P)
    BY <1>2, <1>15, LenProperties DEF AfoTexts
<1>. QED BY <1>7, <1>15, <1>16 DEF Holds

\* A text that is cut inside a value is not the one that is written of what is read.
LEMMA BrokenText ==
    ASSUME NEW T \in AfoTexts, NEW i \in 1..Len(T), SplitAt(T, i), T[1] \in OperationWords, i > 2, T[i - 1] # ")"
    PROVE  OperationText(OperationRead(T)) # T
<1>. SUFFICES ASSUME OperationText(OperationRead(T)) = T PROVE FALSE
    OBVIOUS
<1>. DEFINE a == Split(T).first
            b == Split(T).second
            semi == Split(T).semi
            A == ItemText(ItemRead(a).item)
            B == ItemText(ItemRead(b).item)
<1>1. /\ a \in AfoTexts /\ Len(a) = i - 1 /\ \A j \in 1..(i - 1) : a[j] = T[j]
      /\ ~Holds(a, Delimiters) /\ b \in AfoTexts
    BY PartsOfSplit
<1>2. semi \in BOOLEAN /\ Split(T) = [first |-> a, second |-> b, semi |-> semi]
    <2>. DEFINE s == (T[i] = ";")
                p == SubSeq(T, 1, i - 1)
                q == SubSeq(T, i + 1, Len(T))
    <2>1. Split(T) = [first |-> p, second |-> q, semi |-> s] /\ s \in BOOLEAN
        BY DEF SplitAt
    <2>. HIDE DEF s, p, q
    <2>. QED BY <2>1
<1>3. a # << >> /\ a[1] = T[1] /\ a[Len(a)] = T[i - 1] /\ Tail(a) # << >>
    <2>1. 1 \in 1..(i - 1) /\ i - 1 \in 1..(i - 1) /\ Len(a) > 1
        BY <1>1
    <2>. HIDE DEF a
    <2>2. a # << >>
        BY <2>1, EmptySeq
    <2>3. Len(Tail(a)) = Len(a) - 1
        BY <1>1, <2>2, HeadTailProperties DEF AfoTexts
    <2>4. Tail(a) # << >>
        <3>1. Len(Tail(a)) # 0
            BY <1>1, <2>1, <2>3
        <3>. QED BY <3>1, EmptySeq
    <2>. QED BY <1>1, <2>1, <2>2, <2>4
<1>4. T[i] \in Delimiters
    BY DEF SplitAt
<1>5. A \in AfoTexts /\ B \in AfoTexts
    BY <1>1, ReadItem, ItemFields, ItemTextIs
<1>6. ~Holds(A, Delimiters)
    <2>1. \A j \in 1..Len(A) : A[j] \notin Delimiters
        BY <1>1, NoDelimiterRead
    <2>2. DOMAIN A = 1..Len(A)
        BY <1>5, LenProperties DEF AfoTexts
    <2>. QED BY <2>1, <2>2 DEF Holds
<1>. HIDE DEF a, b, semi
<1>7. /\ b = << >> => T = A
      /\ b # << >> => T = A \o (<<Sign(semi)>> \o B)
    BY <1>1, <1>2, <1>3, OperationReadIs
<1>8. b # << >>
    <2>. SUFFICES ASSUME T = A PROVE FALSE
        BY <1>7
    <2>1. DOMAIN T = 1..Len(T)
        BY LenProperties DEF AfoTexts
    <2>2. Holds(T, Delimiters)
        BY <1>4, <2>1 DEF Holds
    <2>. HIDE DEF A
    <2>. QED BY <1>6, <2>2
<1>9. Sign(semi) \in Delimiters
    BY DEF Sign, Delimiters
<1>10. a = A
    <2>. DEFINE p == <<Sign(semi)>> \o B
                s == (Sign(semi) = ";")
    <2>1. Split(A \o p) = [first |-> A, second |-> B, semi |-> s]
        BY <1>5, <1>6, <1>9, SplitOfTwo
    <2>2. T = A \o p
        BY <1>7, <1>8
    <2>. HIDE DEF A, B, s, p
    <2>3. Split(T) = [first |-> A, second |-> B, semi |-> s]
        BY <2>1, <2>2
    <2>4. Split(T).first = A
        BY <2>3
    <2>. QED BY <2>4 DEF a
<1>11. a[Len(a)] = ")"
    BY <1>1, <1>3, <1>10, ItemBack
<1>. QED BY <1>3, <1>11

LEMMA DelimiterPlaces ==
    ASSUME NEW X \in AfoItems, Holds(ItemText(X), Delimiters)
    PROVE  ~AllClear(X) /\ ItemText(X) \in AfoTexts /\ ItemText(X)[1] \in OperationWords
           /\ \A i \in 1..Len(ItemText(X)) : ItemText(X)[i] \in Delimiters => i > 2 /\ ItemText(X)[i - 1] # ")"
<1>1. X.slice \in Seq(AfoPieces)
    BY ItemFields
<1>2. ItemText(X) \in AfoTexts /\ ItemText(X)[1] \in OperationWords
    BY <1>1, ItemTextIs
<1>3. DOMAIN ItemText(X) = 1..Len(ItemText(X))
    BY <1>2, LenProperties DEF AfoTexts
<1>4. PICK i \in 1..Len(ItemText(X)) : ItemText(X)[i] \in Delimiters
    BY <1>3 DEF Holds
<1>5. ~AllClear(X)
    BY <1>1, <1>4, DelimiterInside DEF AllClear
<1>6. \A j \in 1..Len(ItemText(X)) : ItemText(X)[j] \in Delimiters => j > 2 /\ ItemText(X)[j - 1] # ")"
    BY <1>1, DelimiterInside
<1>. QED BY <1>2, <1>5, <1>6

\* One item, which may be one that the caller made.
LEMMA OneReadBack ==
    ASSUME NEW o, NEW X \in AfoItems, ItemsOf(o) = <<X>>
    PROVE  ReadsBackAsWritten(o) <=> AllKept(X) /\ AllClear(X) /\ X.slice # << >>
<1>. DEFINE T == ItemText(X)
            r == OperationRead(T)
            x == ItemRead(T)
<1>1. X.slice \in Seq(AfoPieces) /\ T \in AfoTexts /\ T # << >>
    BY ItemFields, ItemTextIs
<1>2. OperationText(o) = T
    BY <1>1, TextOfOne
<1>3. ReadsBackAsWritten(o) <=> r.ok /\ OperationText(r) = T
    BY <1>2 DEF ReadsBackAsWritten
<1>4. CASE Holds(T, Delimiters)
    <2>1. ~AllClear(X) /\ T[1] \in OperationWords
          /\ \A i \in 1..Len(T) : T[i] \in Delimiters => i > 2 /\ T[i - 1] # ")"
        BY <1>4, DelimiterPlaces
    <2>. HIDE DEF T
    <2>2. PICK i \in 1..Len(T) : SplitAt(T, i)
        BY <1>1, <1>4, SplitIs
    <2>3. i > 2 /\ T[i - 1] # ")"
        BY <2>1, <2>2 DEF SplitAt
    <2>4. OperationText(r) # T
        BY <1>1, <2>1, <2>2, <2>3, BrokenText
    <2>. QED BY <1>3, <2>1, <2>4
<1>5. CASE ~Holds(T, Delimiters)
    <2>1. Split(T) = [first |-> T, second |-> << >>, semi |-> FALSE] /\ << >> \in AfoTexts /\ FALSE \in BOOLEAN
        BY <1>1, <1>5, SplitIs, EmptySeq DEF AfoTexts
    <2>2. (r.ok <=> x.ok) /\ OperationText(r) = ItemText(x.item)
        <3>. HIDE DEF T
        <3>. QED BY <1>1, <2>1, OperationReadIs
    <2>3. AllKept(X) => AllClear(X)
        BY <1>5, DelimiterWritten
    <2>4. AllKept(X) => ItemText(x.item) = T /\ (x.ok <=> X.slice # << >>)
        BY <1>1, ItemAgain DEF AllKept
    <2>5. ASSUME x.ok, ItemText(x.item) = T PROVE AllKept(X) /\ X.slice # << >>
        <3>1. X.slice # << >>
            <4>. SUFFICES ASSUME X.slice = << >> PROVE FALSE
                OBVIOUS
            <4>1. Len(X.slice) = 0
                BY EmptySeq
            <4>2. AllKept(X)
                BY <4>1 DEF AllKept
            <4>. QED BY <2>4, <2>5, <4>2
        <3>2. AllKept(X)
            BY <1>1, <2>5, <3>1, ItemKept DEF AllKept
        <3>. QED BY <3>1, <3>2
    <2>. HIDE DEF T, r, x
    <2>. QED BY <1>3, <2>2, <2>3, <2>4, <2>5
<1>. QED BY <1>4, <1>5

\* Two items, of which the caller made none.
LEMMA TwoReadBack ==
    ASSUME NEW o, NEW X \in AfoItems, NEW Y \in AfoItems, ItemsOf(o) = <<X, Y>>, o.semi \in BOOLEAN, AllValid(X)
    PROVE  ReadsBackAsWritten(o) <=> AllKept(X) /\ AllClear(X) /\ AllKept(Y) /\ Y.slice # << >>
<1>. DEFINE a == ItemText(X)
            b == ItemText(Y)
            d == Sign(o.semi)
            T == a \o (<<d>> \o b)
            r == OperationRead(T)
            x == ItemRead(a)
            y == ItemRead(b)
            semi == (d = ";")
<1>1. /\ X.slice \in Seq(AfoPieces) /\ a \in AfoTexts /\ a # << >> /\ a[1] \in OperationWords /\ Len(a) \in Nat
      /\ Y.slice \in Seq(AfoPieces) /\ b \in AfoTexts /\ b # << >>
    BY ItemFields, ItemTextIs, LenProperties DEF AfoTexts
<1>2. OperationText(o) = T
    BY <1>1, TextOfTwo
<1>3. ReadsBackAsWritten(o) <=> r.ok /\ OperationText(r) = T
    BY <1>2 DEF ReadsBackAsWritten
<1>4. d \in Delimiters /\ semi \in BOOLEAN /\ Sign(semi) = d
    BY DEF Sign, Delimiters
<1>5. CASE Holds(a, Delimiters)
    <2>1. ~AllClear(X) /\ \A i \in 1..Len(a) : a[i] \in Delimiters => i > 2 /\ a[i - 1] # ")"
        BY <1>5, DelimiterPlaces
    <2>2. T \in AfoTexts /\ Len(T) = Len(a) + Len(<<d>> \o b) /\ \A i \in 1..Len(a) : T[i] = a[i]
        <3>. DEFINE p == <<d>> \o b
        <3>1. p \in Seq(AfoTokens) /\ a \in Seq(AfoTokens)
            <4>1. d \in AfoTokens
                BY <1>4, TokensType DEF Delimiters
            <4>. HIDE DEF d
            <4>2. <<d>> \in Seq(AfoTokens)
                BY <4>1
            <4>. QED BY <1>1, <4>2, ConcatProperties DEF AfoTexts
        <3>. HIDE DEF p, a
        <3>2. a \o p \in Seq(AfoTokens) /\ Len(a \o p) = Len(a) + Len(p)
            BY <3>1, ConcatProperties
        <3>3. \A i \in 1..Len(a) : (a \o p)[i] = a[i]
            BY <3>1, ConcatProperties
        <3>. QED BY <3>2, <3>3 DEF p, AfoTexts
    <2>3. DOMAIN T = 1..Len(T) /\ DOMAIN a = 1..Len(a) /\ Len(T) \in Nat
        BY <1>1, <2>2, LenProperties DEF AfoTexts
    <2>4. PICK j \in 1..Len(a) : a[j] \in Delimiters
        BY <1>5, <2>3 DEF Holds
    <2>. DEFINE h == Len(<<d>> \o b)
    <2>5. h \in Nat
        <3>1. d \in AfoTokens
            BY <1>4, TokensType DEF Delimiters
        <3>. HIDE DEF d
        <3>2. <<d>> \in Seq(AfoTokens)
            BY <3>1
        <3>3. <<d>> \o b \in Seq(AfoTokens)
            BY <1>1, <3>2, ConcatProperties DEF AfoTexts
        <3>. QED BY <3>3, LenProperties
    <2>. HIDE DEF a, T, h
    <2>6. \A i \in 1..Len(a) : i \in 1..Len(T)
        BY <1>1, <2>2, <2>5 DEF h
    <2>7. Holds(T, Delimiters) /\ T[j] \in Delimiters
        BY <2>2, <2>3, <2>4, <2>6 DEF Holds
    <2>8. PICK i \in 1..Len(T) : SplitAt(T, i)
        BY <2>2, <2>7, SplitIs
    <2>9. T[i] \in Delimiters /\ \A e \in 1..(i - 1) : T[e] \notin Delimiters
        BY <2>8 DEF SplitAt
    <2>10. i <= j
        <3>1. j \notin 1..(i - 1)
            BY <2>7, <2>9
        <3>. QED BY <1>1, <2>3, <3>1
    <2>11. i \in 1..Len(a) /\ 1 \in 1..Len(a)
        BY <1>1, <2>10, <2>3
    <2>12. a[i] \in Delimiters
        BY <2>2, <2>9, <2>11
    <2>13. i > 2 /\ a[i - 1] # ")"
        BY <2>1, <2>11, <2>12
    <2>14. i - 1 \in 1..Len(a)
        BY <1>1, <2>11, <2>13
    <2>15. T[i - 1] # ")" /\ T[1] \in OperationWords
        BY <1>1, <2>2, <2>11, <2>13, <2>14
    <2>16. OperationText(r) # T
        BY <2>2, <2>8, <2>13, <2>15, BrokenText
    <2>. QED BY <1>3, <2>1, <2>16
<1>6. CASE ~Holds(a, Delimiters)
    <2>1. T \in AfoTexts /\ Split(T) = [first |-> a, second |-> b, semi |-> semi]
        BY <1>1, <1>4, <1>6, SplitOfTwo
    <2>. DEFINE A == ItemText(x.item)
                B == ItemText(y.item)
    <2>2. (r.ok <=> y.ok) /\ OperationText(r) = A \o (<<d>> \o B)
        <3>. HIDE DEF T, a, b, d, semi
        <3>. QED BY <1>1, <1>4, <2>1, OperationReadIs
    <2>3. A \in AfoTexts /\ B \in AfoTexts /\ ~Holds(A, Delimiters)
        <3>1. A \in AfoTexts /\ B \in AfoTexts
            BY <1>1, ReadItem, ItemFields, ItemTextIs
        <3>2. \A j \in 1..Len(A) : A[j] \notin Delimiters
            BY <1>1, <1>6, NoDelimiterRead
        <3>3. DOMAIN A = 1..Len(A)
            BY <3>1, LenProperties DEF AfoTexts
        <3>. QED BY <3>1, <3>2, <3>3 DEF Holds
    <2>4. OperationText(r) = T <=> A = a /\ B = b
        <3>1. ASSUME A \o (<<d>> \o B) = T PROVE A = a /\ B = b
            <4>1. Split(A \o (<<d>> \o B)) = [first |-> A, second |-> B, semi |-> semi]
                BY <1>4, <2>3, SplitOfTwo
            <4>2. Split(T) = [first |-> A, second |-> B, semi |-> semi]
                BY <3>1, <4>1
            <4>. DEFINE p == Split(T)
            <4>. HIDE DEF p, A, B, a, b, semi
            <4>3. p.first = A /\ p.second = B
                BY <4>2 DEF p
            <4>4. p.first = a /\ p.second = b
                BY <2>1 DEF p
            <4>. QED BY <4>3, <4>4
        <3>2. A = a /\ B = b => A \o (<<d>> \o B) = T
            OBVIOUS
        <3>. HIDE DEF A, B, a, b, T, r
        <3>. QED BY <2>2, <3>1, <3>2
    <2>5. AllKept(X) => AllClear(X)
        BY <1>6, DelimiterWritten
    <2>6. AllKept(X) => A = a
        BY <1>1, ItemAgain DEF AllKept
    <2>7. AllKept(Y) => B = b /\ (y.ok <=> Y.slice # << >>)
        BY <1>1, ItemAgain DEF AllKept
    <2>8. A = a => AllKept(X)
        <3>1. CASE X.slice = << >>
            <4>1. Len(X.slice) = 0
                BY <3>1, EmptySeq
            <4>. QED BY <4>1 DEF AllKept
        <3>2. CASE X.slice # << >>
            BY <1>1, <3>2, ItemKept DEF AllKept, AllValid
        <3>. QED BY <3>1, <3>2
    <2>9. ASSUME y.ok, B = b PROVE AllKept(Y) /\ Y.slice # << >>
        <3>1. Y.slice # << >>
            <4>. SUFFICES ASSUME Y.slice = << >> PROVE FALSE
                OBVIOUS
            <4>1. Len(Y.slice) = 0
                BY EmptySeq
            <4>2. AllKept(Y)
                BY <4>1 DEF AllKept
            <4>. QED BY <2>7, <2>9, <4>2
        <3>2. AllKept(Y)
            BY <1>1, <2>9, <3>1, ItemKept DEF AllKept
        <3>. QED BY <3>1, <3>2
    <2>. HIDE DEF A, B, a, b, T, r, x, y
    <2>. QED BY <1>3, <2>2, <2>4, <2>5, <2>6, <2>7, <2>8, <2>9
<1>. QED BY <1>5, <1>6

LEMMA RangeOfSlice ==
    ASSUME NEW X \in AfoItems
    PROVE  /\ (\A f \in Range(X.slice) : Kept(f)) <=> AllKept(X)
           /\ (\A f \in Range(X.slice) : ~Holds(f.value, Delimiters)) <=> AllClear(X)
<1>1. DOMAIN X.slice = 1..Len(X.slice)
    BY ItemFields, LenProperties
<1>. QED BY <1>1 DEF Range, AllKept, AllClear

LEMMA ReadableIs ==
    ASSUME NEW o, NEW X \in AfoItems, NEW Y \in AfoItems
    PROVE  /\ ItemsOf(o) = <<X>> => (Readable(o) <=> AllKept(X) /\ AllClear(X) /\ X.slice # << >>)
           /\ ItemsOf(o) = <<X, Y>> => (Readable(o) <=> AllKept(X) /\ AllKept(Y) /\ AllClear(X) /\ Y.slice # << >>)
<1>. DEFINE items == ItemsOf(o)
<1>1. Readable(o) <=> /\ \A k \in DOMAIN items : \A f \in Range(items[k].slice) : Kept(f)
                      /\ \A f \in Range(items[1].slice) : ~Holds(f.value, Delimiters)
                      /\ Last(items).slice # << >>
    BY DEF Readable
<1>2. ASSUME items = <<X>> PROVE Readable(o) <=> AllKept(X) /\ AllClear(X) /\ X.slice # << >>
    <2>1. DOMAIN items = {1} /\ items[1] = X /\ Len(items) = 1
        BY <1>2, SingletonAny
    <2>. HIDE DEF items
    <2>2. Last(items) = X
        BY <2>1 DEF Last
    <2>. QED BY <1>1, <2>1, <2>2, RangeOfSlice
<1>3. ASSUME items = <<X, Y>> PROVE Readable(o) <=> AllKept(X) /\ AllKept(Y) /\ AllClear(X) /\ Y.slice # << >>
    <2>1. DOMAIN items = 1..2 /\ items[1] = X /\ items[2] = Y /\ Len(items) = 2
        BY <1>3
    <2>. HIDE DEF items
    <2>2. Last(items) = Y
        BY <2>1 DEF Last
    <2>3. \A k \in 1..2 : k = 1 \/ k = 2
        OBVIOUS
    <2>4. (\A k \in DOMAIN items : \A f \in Range(items[k].slice) : Kept(f)) <=> AllKept(X) /\ AllKept(Y)
        <3>1. (\A k \in DOMAIN items : \A f \in Range(items[k].slice) : Kept(f))
                 <=> (\A f \in Range(X.slice) : Kept(f)) /\ \A f \in Range(Y.slice) : Kept(f)
            <4>1. 1 \in 1..2 /\ 2 \in 1..2
                OBVIOUS
            <4>. QED BY <2>1, <2>3, <4>1
        <3>. QED BY <3>1, RangeOfSlice
    <2>. QED BY <1>1, <2>1, <2>2, <2>4, RangeOfSlice
<1>. QED BY <1>2, <1>3

\* An operation whose items are what they can be, with valid filters if it was read.
ValidItems == {X \in AfoItems : AllValid(X)}

LEMMA OperationBack ==
    ASSUME NEW o, o.add \in AfoItems \cup {NilItem}, o.del \in AfoItems \cup {NilItem}, o.semi \in BOOLEAN,
           ItemsOf(o) # << >>, o.add # NilItem /\ o.del # NilItem => AllValid(o.add)
    PROVE  ReadsBackAsWritten(o) <=> Readable(o)
<1>1. CASE o.add # NilItem /\ o.del = NilItem
    <2>1. ItemsOf(o) = <<o.add>> /\ o.add \in AfoItems
        BY <1>1, TextOfOperation
    <2>. QED BY <2>1, OneReadBack, ReadableIs
<1>2. CASE o.add = NilItem /\ o.del # NilItem
    <2>1. ItemsOf(o) = <<o.del>> /\ o.del \in AfoItems
        BY <1>2, TextOfOperation
    <2>. QED BY <2>1, OneReadBack, ReadableIs
<1>3. CASE o.add # NilItem /\ o.del # NilItem
    <2>1. ItemsOf(o) = <<o.add, o.del>> /\ o.add \in AfoItems /\ o.del \in AfoItems
        BY <1>3, TextOfOperation
    <2>2. ReadsBackAsWritten(o) <=> AllKept(o.add) /\ AllClear(o.add) /\ AllKept(o.del) /\ o.del.slice # << >>
        BY <1>3, <2>1, TwoReadBack
    <2>3. Readable(o) <=> AllKept(o.add) /\ AllKept(o.del) /\ AllClear(o.add) /\ o.del.slice # << >>
        BY <2>1, ReadableIs
    <2>. QED BY <2>2, <2>3
<1>4. CASE o.add = NilItem /\ o.del = NilItem
    BY <1>4, TextOfOperation
<1>. QED BY <1>1, <1>2, <1>3, <1>4

\* The items an operation can have that is read from a text.
LEMMA ReadValid ==
    ASSUME NEW s \in AfoTexts
    PROVE  ItemRead(s).item \in ValidItems
<1>1. ItemRead(s).item \in AfoItems
    BY ReadItem
<1>2. AllValid(ItemRead(s).item)
    BY ItemReadIs DEF AllValid
<1>. QED BY <1>1, <1>2 DEF ValidItems

LEMMA OperationReadType ==
    ASSUME NEW s \in AfoTexts
    PROVE  LET r == OperationRead(s)
           IN  r.add \in ValidItems \cup {NilItem} /\ r.del \in ValidItems \cup {NilItem} /\ r.semi \in BOOLEAN
<1>. DEFINE r == OperationRead(s)
            parts == Split(s)
            add == ItemRead(parts.first)
            del == ItemRead(parts.second)
<1>1. parts.first \in AfoTexts /\ parts.second \in AfoTexts /\ parts.semi \in BOOLEAN
    <2>1. CASE ~Holds(s, Delimiters)
        <3>1. parts = [first |-> s, second |-> << >>, semi |-> FALSE]
            BY <2>1, SplitIs
        <3>2. << >> \in AfoTexts
            BY EmptySeq DEF AfoTexts
        <3>. HIDE DEF parts
        <3>. QED BY <3>1, <3>2
    <2>2. CASE Holds(s, Delimiters)
        <3>1. PICK i \in 1..Len(s) : SplitAt(s, i)
            BY <2>2, SplitIs
        <3>2. parts.first \in AfoTexts /\ parts.second \in AfoTexts
            BY <3>1, PartsOfSplit
        <3>. DEFINE a == SubSeq(s, 1, i - 1)
                    b == SubSeq(s, i + 1, Len(s))
                    c == (s[i] = ";")
        <3>3. parts = [first |-> a, second |-> b, semi |-> c] /\ c \in BOOLEAN
            BY <3>1 DEF SplitAt
        <3>. HIDE DEF parts, a, b, c
        <3>4. parts.semi \in BOOLEAN
            BY <3>3
        <3>. QED BY <3>2, <3>4
    <2>. QED BY <2>1, <2>2
<1>2. add.item \in ValidItems /\ del.item \in ValidItems
    BY <1>1, ReadValid
<1>. DEFINE x == IF parts.first = << >> THEN NilItem ELSE add.item
            y == IF parts.second = << >> THEN NilItem ELSE del.item
            z == parts.semi
            k == IF parts.second # << >> THEN del.ok ELSE parts.first # << >> /\ add.ok
<1>3. r = [add |-> x, del |-> y, semi |-> z, ok |-> k]
    BY Zenon DEF OperationRead
<1>4. x \in ValidItems \cup {NilItem} /\ y \in ValidItems \cup {NilItem} /\ z \in BOOLEAN
    BY <1>1, <1>2
<1>. HIDE DEF r, x, y, z, k
<1>5. r.add = x /\ r.del = y /\ r.semi = z
    BY <1>3
<1>. QED BY <1>4, <1>5 DEF r

\* What the program has is of the types the parsers and the writers are about: an item
\* has filters that were made, an operation an item that was made, and an operation that
\* was read has only filters that are valid.
SlicedFrom(n) == [op : {"none", "add", "delete"}, slice : Seq(1..n)]
MadeInv ==
    /\ filter \in Seq(AfoPieces)
    /\ operItem \in Seq(SlicedFrom(Len(filter)))
    /\ oper = [item |-> oper.item, semi |-> oper.semi] /\ oper.item \in 0..Len(operItem) /\ oper.semi \in BOOLEAN
ReadInv ==
    /\ read = [text |-> read.text, ok |-> read.ok, add |-> read.add, del |-> read.del, semi |-> read.semi]
    /\ read.add \in ValidItems \cup {NilItem} /\ read.del \in ValidItems \cup {NilItem} /\ read.semi \in BOOLEAN
AfoInv == MadeInv /\ ReadInv

LEMMA ItemsOfMore ==
    ASSUME NEW n \in Nat, NEW m \in Nat, n <= m
    PROVE  SlicedFrom(n) \subseteq SlicedFrom(m)
<1>1. 1..n \subseteq 1..m
    OBVIOUS
<1>2. Seq(1..n) \subseteq Seq(1..m)
    BY <1>1, SeqMonotonic
<1>. QED BY <1>2 DEF SlicedFrom

LEMMA ItemMade ==
    ASSUME AfoInv, NEW i \in 1..Len(operItem)
    PROVE  Item(i) \in AfoItems
<1>. DEFINE x == operItem[i]
            n == Len(filter)
            given == [k \in DOMAIN x.slice |-> filter[x.slice[k]]]
<1>1. x \in SlicedFrom(n)
    <2>. DEFINE S == SlicedFrom(n)
    <2>1. operItem \in Seq(S)
        BY DEF AfoInv, MadeInv, ReadInv
    <2>. HIDE DEF S
    <2>2. x \in S
        BY <2>1, ElementOfSeq
    <2>. QED BY <2>2 DEF S
<1>. HIDE DEF x
<1>2. x.op \in {"none", "add", "delete"} /\ x.slice \in Seq(1..n)
    BY <1>1 DEF SlicedFrom
<1>3. Len(x.slice) \in Nat /\ DOMAIN x.slice = 1..Len(x.slice)
    BY <1>2, LenProperties
<1>4. \A k \in 1..Len(x.slice) : x.slice[k] \in 1..n
    BY <1>2, ElementOfSeq
<1>5. filter \in Seq(AfoPieces)
    BY DEF AfoInv, MadeInv, ReadInv
<1>6. \A k \in 1..Len(x.slice) : filter[x.slice[k]] \in AfoPieces
    BY <1>4, <1>5, ElementOfSeq
<1>7. given \in [1..Len(x.slice) -> AfoPieces]
    BY <1>3, <1>6
<1>. HIDE DEF given
<1>8. given \in Seq(AfoPieces)
    <2>. DEFINE l == Len(x.slice)
    <2>. HIDE DEF l
    <2>1. l \in Nat /\ given \in [1..l -> AfoPieces]
        BY <1>3, <1>7 DEF l
    <2>. QED BY <2>1, SeqDef
<1>9. [op |-> x.op, slice |-> given] \in AfoItems
    BY <1>2, <1>8 DEF AfoItems
<1>. QED BY <1>9 DEF x, given, Item

LEMMA AfoInvInit == AfoInit => AfoInv
<1>. SUFFICES ASSUME AfoInit PROVE AfoInv
    OBVIOUS
<1>1. filter = << >> /\ operItem = << >>
    BY DEF AfoInit
<1>2. filter \in Seq(AfoPieces) /\ operItem \in Seq(SlicedFrom(Len(filter))) /\ Len(operItem) = 0
    BY <1>1, EmptySeq
<1>3. oper.item = 0 /\ oper.semi = FALSE /\ oper = [item |-> oper.item, semi |-> oper.semi]
    BY DEF AfoInit
<1>4. /\ read = [text |-> read.text, ok |-> read.ok, add |-> read.add, del |-> read.del, semi |-> read.semi]
      /\ read.add = NilItem /\ read.del = NilItem /\ read.semi = FALSE
    BY DEF AfoInit
<1>5. oper.item \in 0..Len(operItem)
    <2>1. 0 \in 0..0
        OBVIOUS
    <2>. QED BY <1>2, <1>3, <2>1, Zenon
<1>6. oper.semi \in BOOLEAN /\ read.semi \in BOOLEAN
    BY <1>3, <1>4, Zenon
<1>. QED BY <1>2, <1>3, <1>4, <1>5, <1>6, Zenon DEF AfoInv, MadeInv, ReadInv

LEMMA AfoInvBack == AfoInv => OperationsReadBack
<1>. SUFFICES ASSUME AfoInv PROVE OperationsReadBack
    OBVIOUS
<1>1. ASSUME oper.item # 0 PROVE ReadsBackAsWritten(Made) <=> Readable(Made)
    <2>. DEFINE o == Made
                X == Item(oper.item)
    <2>1. oper.item \in 1..Len(operItem) /\ oper.semi \in BOOLEAN
        <3>1. Len(operItem) \in Nat
            <4>. DEFINE S == SlicedFrom(Len(filter))
            <4>1. operItem \in Seq(S)
                BY DEF AfoInv, MadeInv, ReadInv
            <4>. HIDE DEF S
            <4>. QED BY <4>1, LenProperties
        <3>2. oper.item \in 0..Len(operItem) /\ oper.semi \in BOOLEAN
            BY DEF AfoInv, MadeInv, ReadInv
        <3>. QED BY <1>1, <3>1, <3>2
    <2>2. X \in AfoItems
        BY <2>1, ItemMade
    <2>3. X # NilItem
        BY <2>2, ItemFields
    <2>. DEFINE b == operItem[oper.item].op = "add"
    <2>4. o = [add |-> IF b THEN X ELSE NilItem, del |-> IF b THEN NilItem ELSE X, semi |-> oper.semi]
        BY Zenon DEF Made
    <2>. HIDE DEF o, X, b
    <2>5. /\ o.add = (IF b THEN X ELSE NilItem) /\ o.del = (IF b THEN NilItem ELSE X)
          /\ o.semi = oper.semi
        BY <2>4
    <2>6. (o.add = X /\ o.del = NilItem) \/ (o.add = NilItem /\ o.del = X)
        BY <2>5
    <2>7. ItemsOf(o) = <<X>>
        BY <2>3, <2>6, TextOfOperation
    <2>8. ItemsOf(o) # << >>
        BY <2>7
    <2>9. ReadsBackAsWritten(o) <=> Readable(o)
        BY <2>1, <2>2, <2>5, <2>6, <2>8, OperationBack
    <2>. QED BY <2>9 DEF o
<1>2. ASSUME ItemsOf(read) # << >> PROVE ReadsBackAsWritten(read) <=> Readable(read)
    <2>1. read.add \in ValidItems \cup {NilItem} /\ read.del \in ValidItems \cup {NilItem} /\ read.semi \in BOOLEAN
        BY DEF AfoInv, MadeInv, ReadInv
    <2>2. read.add \in AfoItems \cup {NilItem} /\ read.del \in AfoItems \cup {NilItem}
          /\ (read.add # NilItem => AllValid(read.add))
        BY <2>1 DEF ValidItems
    <2>. QED BY <1>2, <2>1, <2>2, OperationBack
<1>. QED BY <1>1, <1>2 DEF OperationsReadBack

LEMMA PieceMade ==
    ASSUME NEW a \in Attributes \cup {Unnamed, "nil"}, NEW v \in FilterValues \cup {NilFilter, InvalidFilter}
    PROVE  [attribute |-> a, value |-> v] \in AfoPieces /\ v \in AfoValues
<1>1. v \in AfoValues
    BY TokensType, SpecialValues
<1>. QED BY <1>1 DEF AfoPieces

\* A filter that is changed, or made, is still there for the items.
LEMMA FilterChanged ==
    ASSUME MadeInv, filter' \in Seq(AfoPieces), Len(filter') = Len(filter), UNCHANGED <<operItem, oper>>
    PROVE  MadeInv'
BY DEF MadeInv

LEMMA FiltersMore ==
    ASSUME MadeInv, filter' \in Seq(AfoPieces), Len(filter) <= Len(filter'), UNCHANGED <<operItem, oper>>
    PROVE  MadeInv'
<1>1. Len(filter) \in Nat /\ Len(filter') \in Nat
    BY LenProperties DEF MadeInv
<1>. DEFINE S == SlicedFrom(Len(filter))
            T == SlicedFrom(Len(filter'))
<1>2. S \subseteq T
    BY <1>1, ItemsOfMore
<1>3. operItem \in Seq(S)
    BY DEF MadeInv
<1>. HIDE DEF S, T
<1>4. operItem \in Seq(T)
    BY <1>2, <1>3, SeqMonotonic
<1>5. operItem' \in Seq(T) /\ Len(operItem') = Len(operItem) /\ oper' = oper
    BY <1>4
<1>. QED BY <1>5 DEF MadeInv, T

\* An item that is made is none that an operation has yet.
LEMMA ItemsMore ==
    ASSUME MadeInv, NEW x \in SlicedFrom(Len(filter)), operItem' = Append(operItem, x), UNCHANGED <<filter, oper>>
    PROVE  MadeInv'
<1>. DEFINE S == SlicedFrom(Len(filter))
<1>1. operItem \in Seq(S) /\ x \in S
    BY DEF MadeInv
<1>. HIDE DEF S
<1>2. operItem' \in Seq(S) /\ Len(operItem') = Len(operItem) + 1 /\ Len(operItem) \in Nat
    BY <1>1, AppendProperties, LenProperties
<1>3. S' = S
    BY DEF S, SlicedFrom
<1>4. oper'.item \in 0..Len(operItem')
    <2>1. oper.item \in 0..Len(operItem)
        BY DEF MadeInv
    <2>. QED BY <1>2, <2>1
<1>5. oper' = oper /\ oper'.semi \in BOOLEAN /\ filter' \in Seq(AfoPieces)
    BY DEF MadeInv
<1>6. operItem' \in Seq(SlicedFrom(Len(filter)))'
    BY <1>2, <1>3 DEF S
<1>. QED BY <1>4, <1>5, <1>6 DEF MadeInv

LEMMA MadeStep ==
    ASSUME MadeInv, MadeNext
    PROVE  MadeInv' /\ UNCHANGED read
<1>. DEFINE n == Len(filter)
            l == Len(operItem)
            S == SlicedFrom(n)
<1>1. filter \in Seq(AfoPieces) /\ operItem \in Seq(S)
      /\ oper = [item |-> oper.item, semi |-> oper.semi] /\ oper.item \in 0..l /\ oper.semi \in BOOLEAN
    BY DEF MadeInv
<1>2. n \in Nat /\ DOMAIN filter = 1..n
    BY <1>1, LenProperties
<1>3. l \in Nat /\ DOMAIN operItem = 1..l
    <2>. HIDE DEF S
    <2>. QED BY <1>1, LenProperties
<1>4. \A i \in 1..l : operItem[i] \in S
    <2>. HIDE DEF S
    <2>. QED BY <1>1, ElementOfSeq
<1>5. << >> \in Seq(1..n) /\ \A f \in 1..n : <<f>> \in Seq(1..n)
    BY EmptySeq
<1>6. ASSUME NEW a \in Attributes \cup {Unnamed, "nil"}, NEW v \in FilterValues \cup {NilFilter, InvalidFilter},
             NewAttributeFilter(a, v)
      PROVE  MadeInv' /\ UNCHANGED read
    <2>. DEFINE x == [attribute |-> a, value |-> v]
    <2>1. x \in AfoPieces
        BY PieceMade
    <2>2. filter' = Append(filter, x) /\ UNCHANGED <<operItem, oper, read>>
        BY <1>6 DEF NewAttributeFilter
    <2>. HIDE DEF x
    <2>3. filter' \in Seq(AfoPieces) /\ Len(filter') = n + 1
        BY <1>1, <2>1, <2>2, AppendProperties
    <2>. QED BY <1>2, <2>2, <2>3, FiltersMore
<1>7. ASSUME NEW a \in Attributes \cup {Unnamed, "nil"}, NEW f \in DOMAIN filter, SetAttribute(f, a)
      PROVE  MadeInv' /\ UNCHANGED read
    <2>1. filter[f] \in AfoPieces
        BY <1>1, <1>2, ElementOfSeq
    <2>2. [filter[f] EXCEPT !.attribute = a] \in AfoPieces
        BY <2>1 DEF AfoPieces
    <2>. DEFINE x == [filter[f] EXCEPT !.attribute = a]
    <2>3. filter' = [filter EXCEPT ![f] = x] /\ UNCHANGED <<operItem, oper, read>>
        BY <1>7 DEF SetAttribute
    <2>. HIDE DEF x
    <2>4. filter' \in Seq(AfoPieces) /\ Len(filter') = n
        BY <1>1, <1>2, <2>2, <2>3, ExceptSeq DEF x
    <2>. QED BY <2>3, <2>4, FilterChanged
<1>8. ASSUME NEW v \in FilterValues \cup {NilFilter, InvalidFilter}, NEW f \in DOMAIN filter, SetFilter(f, v)
      PROVE  MadeInv' /\ UNCHANGED read
    <2>1. filter[f] \in AfoPieces /\ v \in AfoValues
        BY <1>1, <1>2, ElementOfSeq, PieceMade
    <2>2. [filter[f] EXCEPT !.value = v] \in AfoPieces
        BY <2>1 DEF AfoPieces
    <2>. DEFINE x == [filter[f] EXCEPT !.value = v]
    <2>3. filter' = [filter EXCEPT ![f] = x] /\ UNCHANGED <<operItem, oper, read>>
        BY <1>8 DEF SetFilter
    <2>. HIDE DEF x
    <2>4. filter' \in Seq(AfoPieces) /\ Len(filter') = n
        BY <1>1, <1>2, <2>2, <2>3, ExceptSeq DEF x
    <2>. QED BY <2>3, <2>4, FilterChanged
<1>9. ASSUME NewAttributeFilterOperationItem
      PROVE  MadeInv' /\ UNCHANGED read
    <2>1. UNCHANGED <<filter, oper, read>>
        BY <1>9 DEF NewAttributeFilterOperationItem
    <2>2. CASE NewItem("none", << >>)
        <3>. DEFINE x == [op |-> "none", slice |-> << >>]
        <3>1. x \in S
            BY <1>5 DEF SlicedFrom
        <3>2. operItem' = Append(operItem, x)
            BY <2>2 DEF NewItem
        <3>. QED BY <2>1, <3>1, <3>2, ItemsMore
    <2>3. ASSUME NEW op \in {"add", "delete"}, NEW f \in DOMAIN filter, NewItem(op, <<f>>)
          PROVE  MadeInv'
        <3>. DEFINE x == [op |-> op, slice |-> <<f>>]
        <3>1. x \in S
            BY <1>2, <1>5 DEF SlicedFrom
        <3>2. operItem' = Append(operItem, x)
            BY <2>3 DEF NewItem
        <3>. HIDE DEF x
        <3>. QED BY <2>1, <3>1, <3>2, ItemsMore
    <2>. QED BY <1>9, <2>1, <2>2, <2>3 DEF NewAttributeFilterOperationItem
<1>10. ASSUME NEW s \in ItemTexts, NewItemFromText(s)
       PROVE  MadeInv' /\ UNCHANGED read
    <2>. DEFINE r == ItemRead(s).item
                m == Len(r.slice)
                ks == [k \in DOMAIN r.slice |-> n + k]
                x == [op |-> r.op, slice |-> ks]
    <2>1. r.op \in {"none", "add", "delete"} /\ r.slice \in Seq(AfoPieces)
        BY TokensType, ItemReadIs
    <2>2. operItem' = Append(operItem, x) /\ filter' = filter \o r.slice /\ UNCHANGED <<oper, read>>
        BY <1>10 DEF NewItemFromText, NewItem
    <2>. HIDE DEF r
    <2>3. m \in Nat /\ DOMAIN r.slice = 1..m
        BY <2>1, LenProperties
    <2>4. ks \in Seq(1..(n + m))
        <3>. HIDE DEF n
        <3>1. \A k \in 1..m : n + k \in 1..(n + m)
            BY <1>2, <2>3
        <3>2. ks \in [1..m -> 1..(n + m)]
            BY <2>3, <3>1
        <3>. HIDE DEF ks, m
        <3>. QED BY <2>3, <3>2, SeqDef
    <2>5. filter' \in Seq(AfoPieces) /\ Len(filter') = n + m
        BY <1>1, <2>1, <2>2, ConcatProperties
    <2>6. x \in SlicedFrom(n + m)
        BY <2>1, <2>4 DEF SlicedFrom
    <2>7. operItem' \in Seq(SlicedFrom(n + m)) /\ Len(operItem') = l + 1
        <3>. DEFINE T == SlicedFrom(n + m)
        <3>1. S \subseteq T
            <4>. HIDE DEF n, m
            <4>1. n + m \in Nat /\ n <= n + m
                BY <1>2, <2>3
            <4>. QED BY <1>2, <4>1, ItemsOfMore
        <3>2. x \in T
            BY <2>6
        <3>. HIDE DEF S, T, x
        <3>3. operItem \in Seq(T)
            BY <1>1, <3>1, SeqMonotonic
        <3>4. operItem' \in Seq(T) /\ Len(operItem') = l + 1
            BY <2>2, <3>2, <3>3, AppendProperties
        <3>. QED BY <3>4 DEF T
    <2>8. oper' = oper /\ oper.item \in 0..(l + 1)
        BY <1>1, <1>3, <2>2
    <2>9. operItem' \in Seq(SlicedFrom(Len(filter)))'
        BY <2>5, <2>7
    <2>10. oper'.item \in 0..Len(operItem') /\ oper'.semi \in BOOLEAN
           /\ oper' = [item |-> oper'.item, semi |-> oper'.semi]
        BY <1>1, <2>7, <2>8
    <2>. QED BY <2>2, <2>5, <2>9, <2>10 DEF MadeInv
<1>11. ASSUME NEW i \in DOMAIN operItem, NewAttributeFilterOperation(i)
       PROVE  MadeInv' /\ UNCHANGED read
    <2>1. oper' = [item |-> i, semi |-> FALSE] /\ UNCHANGED <<filter, operItem, read>>
        BY <1>11 DEF NewAttributeFilterOperation
    <2>2. i \in 0..l
        BY <1>3
    <2>3. oper'.item = i /\ oper'.semi = FALSE /\ oper' = [item |-> oper'.item, semi |-> oper'.semi]
        BY <2>1
    <2>. QED BY <1>1, <2>1, <2>2, <2>3 DEF MadeInv
<1>12. ASSUME NEW i \in DOMAIN operItem, NEW f \in DOMAIN filter, PushFilter(i, f)
       PROVE  MadeInv' /\ UNCHANGED read
    <2>1. operItem[i].op \in {"none", "add", "delete"} /\ operItem[i].slice \in Seq(1..n)
          /\ operItem[i] = [op |-> operItem[i].op, slice |-> operItem[i].slice]
        BY <1>3, <1>4 DEF SlicedFrom
    <2>. DEFINE x == [operItem[i] EXCEPT !.slice = Append(@, f)]
    <2>2. Append(operItem[i].slice, f) \in Seq(1..n)
        BY <1>2, <2>1, AppendProperties
    <2>3. x \in S
        BY <2>1, <2>2 DEF SlicedFrom
    <2>4. operItem' = [operItem EXCEPT ![i] = x] /\ UNCHANGED <<filter, oper, read>>
        BY <1>12 DEF PushFilter
    <2>5. operItem' \in Seq(S) /\ Len(operItem') = l
        <3>. HIDE DEF S, x
        <3>. QED BY <1>1, <1>3, <2>3, <2>4, ExceptSeq
    <2>6. operItem' \in Seq(SlicedFrom(Len(filter)))'
        BY <2>4, <2>5
    <2>. QED BY <1>1, <2>4, <2>5, <2>6 DEF MadeInv
<1>13. ASSUME NEW semi \in BOOLEAN, SetDelimiter(semi)
       PROVE  MadeInv' /\ UNCHANGED read
    <2>1. oper' = [oper EXCEPT !.semi = semi] /\ UNCHANGED <<filter, operItem, read>>
        BY <1>13 DEF SetDelimiter
    <2>2. oper'.item = oper.item /\ oper'.semi = semi /\ oper' = [item |-> oper'.item, semi |-> oper'.semi]
        BY <1>1, <2>1
    <2>. QED BY <1>1, <2>1, <2>2 DEF MadeInv
<1>. QED BY <1>6, <1>7, <1>8, <1>9, <1>10, <1>11, <1>12, <1>13 DEF MadeNext

LEMMA ReadStep ==
    ASSUME ReadInv, ReadNext
    PROVE  ReadInv' /\ UNCHANGED <<filter, operItem, oper>>
<1>1. ASSUME NEW s \in OperationTexts, NewOperationFromText(s)
      PROVE  ReadInv' /\ UNCHANGED <<filter, operItem, oper>>
    <2>. DEFINE r == OperationRead(s)
    <2>1. r.add \in ValidItems \cup {NilItem} /\ r.del \in ValidItems \cup {NilItem} /\ r.semi \in BOOLEAN
        BY TokensType, OperationReadType
    <2>2. read' = [text |-> s, ok |-> r.ok, add |-> r.add, del |-> r.del, semi |-> r.semi]
          /\ UNCHANGED <<filter, operItem, oper>>
        BY <1>1 DEF NewOperationFromText
    <2>. DEFINE x == r.add
                y == r.del
                z == r.semi
                k == r.ok
    <2>. HIDE DEF r, x, y, z, k
    <2>3. read' = [text |-> s, ok |-> k, add |-> x, del |-> y, semi |-> z]
        BY <2>2 DEF x, y, z, k
    <2>4. read'.add = x /\ read'.del = y /\ read'.semi = z /\ read'.text = s /\ read'.ok = k
        BY <2>3
    <2>5. read' = [text |-> read'.text, ok |-> read'.ok, add |-> read'.add, del |-> read'.del, semi |-> read'.semi]
        BY <2>3, <2>4, Zenon
    <2>6. x \in ValidItems \cup {NilItem} /\ y \in ValidItems \cup {NilItem} /\ z \in BOOLEAN
        BY <2>1 DEF x, y, z
    <2>7. read'.add \in ValidItems \cup {NilItem} /\ read'.del \in ValidItems \cup {NilItem} /\ read'.semi \in BOOLEAN
        BY <2>4, <2>6
    <2>8. ValidItems' = ValidItems
        BY DEF ValidItems, AllValid
    <2>. QED BY <2>2, <2>5, <2>7, <2>8 DEF ReadInv
<1>2. ASSUME NEW semi \in BOOLEAN, SetReadDelimiter(semi)
      PROVE  ReadInv' /\ UNCHANGED <<filter, operItem, oper>>
    <2>1. read' = [read EXCEPT !.semi = semi] /\ UNCHANGED <<filter, operItem, oper>>
        BY <1>2 DEF SetReadDelimiter
    <2>. DEFINE x == read.add
                y == read.del
                t == read.text
                k == read.ok
                z == read.semi
    <2>2. read = [text |-> t, ok |-> k, add |-> x, del |-> y, semi |-> z]
          /\ x \in ValidItems \cup {NilItem} /\ y \in ValidItems \cup {NilItem}
        BY DEF ReadInv
    <2>. HIDE DEF x, y, t, k, z
    <2>3. read' = [text |-> t, ok |-> k, add |-> x, del |-> y, semi |-> semi]
        BY <2>1, <2>2
    <2>4. read'.add = x /\ read'.del = y /\ read'.semi = semi /\ read'.text = t /\ read'.ok = k
        BY <2>3
    <2>5. read' = [text |-> read'.text, ok |-> read'.ok, add |-> read'.add, del |-> read'.del, semi |-> read'.semi]
        BY <2>3, <2>4, Zenon
    <2>6. read'.add \in ValidItems \cup {NilItem} /\ read'.del \in ValidItems \cup {NilItem} /\ read'.semi \in BOOLEAN
        BY <2>2, <2>4
    <2>. QED BY <2>1, <2>5, <2>6 DEF ReadInv
<1>. QED BY <1>1, <1>2 DEF ReadNext

\* AttributeFilterOperation.String and NewAttributeFilterOperation: whatever filters and
\* items the caller makes, changes and shares, and whatever was read before, what is
\* written of an operation is accepted, as one that writes the same, exactly if none of
\* its filters is cut at.
THEOREM WhatIsWrittenOfOperationsIsReadBack == AfoSpec => []OperationsReadBack
<1>1. AfoInit => AfoInv
    BY AfoInvInit
<1>2. AfoInv /\ [MadeNext \/ ReadNext]_afoVars => AfoInv'
    <2>. SUFFICES ASSUME AfoInv, [MadeNext \/ ReadNext]_afoVars PROVE AfoInv'
        OBVIOUS
    <2>1. MadeInv /\ ReadInv
        BY DEF AfoInv
    <2>2. MadeInv' /\ ReadInv' => AfoInv'
        BY DEF AfoInv
    <2>3. UNCHANGED read => ReadInv'
        BY <2>1 DEF ReadInv
    <2>4. UNCHANGED <<filter, operItem, oper>> => MadeInv'
        BY <2>1 DEF MadeInv
    <2>5. CASE MadeNext
        BY <2>1, <2>2, <2>3, <2>5, MadeStep
    <2>6. CASE ReadNext
        BY <2>1, <2>2, <2>4, <2>6, ReadStep
    <2>7. CASE UNCHANGED afoVars
        BY <2>2, <2>3, <2>4, <2>7 DEF afoVars
    <2>. QED BY <2>5, <2>6, <2>7
<1>3. AfoInv => OperationsReadBack
    BY AfoInvBack
<1>. QED BY <1>1, <1>2, <1>3, PTL DEF AfoSpec
=============================================================================
