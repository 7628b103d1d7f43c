------------------------- MODULE RefinementsProofs -------------------------
(***************************************************************************)
(* What is proved of subtree.go: of Refinements, for any OIDs,             *)
(* descriptors, case folding and lists of names, and a receiver of any     *)
(* length, and of SubtreeSpecifications, for texts of any length.          *)
(***************************************************************************)
EXTENDS Refinements, SubtreeSpecifications, SequenceLemmas

IInv == TypeOK /\ RegisteredTogether

\* What a registration does to the two maps.
LEMMA RegisterEffect ==
    ASSUME NEW o \in OIDs \cup {Empty}, NEW ds \in Seq(Descrs \cup {Empty}), RegisterOID(o, ds), TypeOK
    PROVE  /\ o \in OIDs
           /\ Range(ds) \subseteq Descrs
           /\ DOMAIN rev' = DOMAIN rev \cup {o}
           /\ \A x \in DOMAIN rev' : rev'[x] = IF x = o THEN << >> ELSE rev[x]
           /\ DOMAIN fwd' = DOMAIN fwd \cup Range(ds)
           /\ \A d \in DOMAIN fwd' : fwd'[d] = IF d \in Range(ds) THEN o ELSE fwd[d]
           /\ fwd' \in [DOMAIN fwd' -> OIDs]
           /\ rev' \in [DOMAIN rev' -> Seq(Descrs)]
<1>1. o \in OIDs
    BY DEF RegisterOID
<1>2. Range(ds) \subseteq Descrs
    <2>1. \A i \in DOMAIN ds : ds[i] \in Descrs \cup {Empty}
        BY LenProperties, ElementOfSeq
    <2>. QED BY <2>1 DEF RegisterOID, Range
<1>3. fwd' = Entered(fwd, Range(ds), o) /\ rev' = Entered(rev, {o}, << >>)
    BY DEF RegisterOID
<1>6. fwd' = [d \in DOMAIN fwd \cup Range(ds) |-> IF d \in Range(ds) THEN o ELSE fwd[d]]
    BY <1>3 DEF Entered
<1>4. /\ DOMAIN fwd' = DOMAIN fwd \cup Range(ds)
      /\ \A d \in DOMAIN fwd' : fwd'[d] = IF d \in Range(ds) THEN o ELSE fwd[d]
    BY <1>6
<1>7. rev' = [x \in DOMAIN rev \cup {o} |-> IF x \in {o} THEN << >> ELSE rev[x]]
    BY <1>3 DEF Entered
<1>5. /\ DOMAIN rev' = DOMAIN rev \cup {o}
      /\ \A x \in DOMAIN rev' : rev'[x] = IF x = o THEN << >> ELSE rev[x]
    BY <1>7
<1>9. \A d \in DOMAIN fwd' : fwd'[d] \in OIDs
    BY <1>1, <1>4 DEF TypeOK
<1>10. << >> \in Seq(Descrs)
    OBVIOUS
<1>11. \A x \in DOMAIN rev' : rev'[x] \in Seq(Descrs)
    BY <1>5, <1>10 DEF TypeOK
<1>12. fwd' \in [DOMAIN fwd' -> OIDs]
    BY <1>4, <1>6, <1>9
<1>13. rev' \in [DOMAIN rev' -> Seq(Descrs)]
    BY <1>5, <1>7, <1>11
<1>. QED BY <1>1, <1>2, <1>4, <1>5, <1>12, <1>13

-----------------------------------------------------------------------------
LEMMA InitIInv == Init => IInv
<1>. SUFFICES ASSUME Init PROVE IInv
    OBVIOUS
<1>1. DOMAIN NoEntries = {}
    BY DEF NoEntries
<1>2. fwd = [x \in DOMAIN fwd |-> fwd[x]] /\ rev = [x \in DOMAIN rev |-> rev[x]]
    BY DEF Init, NoEntries
<1>3. fwd \in [DOMAIN fwd -> OIDs] /\ rev \in [DOMAIN rev -> Seq(Descrs)]
    BY <1>1, <1>2 DEF Init
<1>4. refs \in Seq([choice : {"item", "not", "set", "invalid"}, ids : Seq(Ids)])
    BY DEF Init
<1>5. DOMAIN fwd = {} /\ DOMAIN rev = {}
    BY <1>1 DEF Init
<1>7. base \in Nat /\ given \in Seq({"parsed", "refused", "refinement"})
    BY DEF Init
<1>6. TypeOK
    BY <1>3, <1>4, <1>5, <1>7 DEF Init, TypeOK
<1>. QED BY <1>5, <1>6 DEF IInv, RegisteredTogether

\* A refinement as the state holds it.
AnyRef == [choice : {"item", "not", "set", "invalid"}, ids : Seq(Ids)]

\* The names Resolve returns are names.
LEMMA ResolveType ==
    ASSUME TypeOK, NEW id \in Ids
    PROVE  Resolve(id) \in Ids \cup {Refused}
<1>1. CASE id \in OIDs
    <2>1. ASSUME id \in DOMAIN rev, rev[id] # << >> PROVE rev[id][1] \in Descrs
        <3>1. rev[id] \in Seq(Descrs)
            BY <2>1 DEF TypeOK
        <3>2. 1 \in 1..Len(rev[id])
            BY <2>1, <3>1, EmptySeq
        <3>. QED BY <3>1, <3>2, ElementOfSeq
    <2>. QED BY <1>1, <2>1 DEF Resolve, resolveO2D, Ids
<1>2. CASE id \notin OIDs
    BY <1>2 DEF Resolve, resolveD2O, Ids
<1>. QED BY <1>1, <1>2

LEMMA ParsedType ==
    ASSUME TypeOK, NEW t \in AnyRef, Accepted(t)
    PROVE  Parsed(t) \in AnyRef
<1>1. t.ids \in Seq(Ids)
    BY DEF AnyRef
<1>2. Len(t.ids) \in Nat /\ DOMAIN t.ids = 1..Len(t.ids) /\ \A i \in DOMAIN t.ids : t.ids[i] \in Ids
    BY <1>1, LenProperties, ElementOfSeq
<1>3. \A i \in DOMAIN t.ids : Resolve(t.ids[i]) \in Ids
    BY <1>2, ResolveType DEF Accepted, Parses
<1>4. [i \in DOMAIN t.ids |-> Resolve(t.ids[i])] \in [1..Len(t.ids) -> Ids]
    BY <1>2, <1>3
<1>5. [i \in DOMAIN t.ids |-> Resolve(t.ids[i])] \in Seq(Ids)
    BY <1>2, <1>4, SeqDef
<1>. QED BY <1>5 DEF Parsed, Ref, AnyRef

LEMMA RefsAreRefs == Refs \subseteq AnyRef
BY ListsAssumption DEF Refs, AnyRef, Ids

LEMMA NextIInv == IInv /\ [Next]_vars => IInv'
<1>. SUFFICES ASSUME IInv, [Next]_vars PROVE IInv'
    OBVIOUS
<1>. USE DEF registry, push
<1>1. ASSUME NEW o \in OIDs \cup {Empty}, NEW ds \in Lists \cap Seq(Descrs \cup {Empty}), RegisterOID(o, ds)
      PROVE  IInv'
    <2>1. UNCHANGED push
        BY <1>1 DEF RegisterOID
    <2>4. /\ DOMAIN fwd' \subseteq Descrs /\ fwd' \in [DOMAIN fwd' -> OIDs]
          /\ DOMAIN rev' \subseteq OIDs /\ rev' \in [DOMAIN rev' -> Seq(Descrs)]
        <3>1. TypeOK /\ ds \in Seq(Descrs \cup {Empty})
            BY DEF IInv
        <3>2. /\ o \in OIDs /\ Range(ds) \subseteq Descrs
              /\ DOMAIN rev' = DOMAIN rev \cup {o} /\ DOMAIN fwd' = DOMAIN fwd \cup Range(ds)
              /\ fwd' \in [DOMAIN fwd' -> OIDs] /\ rev' \in [DOMAIN rev' -> Seq(Descrs)]
            BY <1>1, <3>1, RegisterEffect
        <3>. QED BY <3>1, <3>2 DEF TypeOK
    <2>2. TypeOK'
        BY <2>1, <2>4 DEF IInv, TypeOK
    <2>3. RegisteredTogether'
        BY <1>1, RegisterEffect DEF IInv, RegisteredTogether
    <2>. QED BY <2>2, <2>3 DEF IInv
<1>2. CASE Reset
    <2>1. DOMAIN NoEntries = {}
        BY DEF NoEntries
    <2>2. fwd' = [x \in DOMAIN fwd' |-> fwd'[x]] /\ rev' = [x \in DOMAIN rev' |-> rev'[x]]
        BY <1>2 DEF Reset, NoEntries
    <2>3. fwd' \in [DOMAIN fwd' -> OIDs] /\ rev' \in [DOMAIN rev' -> Seq(Descrs)]
        BY <1>2, <2>1, <2>2 DEF Reset
    <2>. QED BY <1>2, <2>1, <2>3 DEF Reset, IInv, TypeOK, RegisteredTogether
<1>3. ASSUME NEW r \in Refs, PushText(r) \/ PushRef(r)
      PROVE  IInv'
    <2>1. refs' \in Seq(AnyRef)
        <3>1. refs \in Seq(AnyRef)
            BY DEF IInv, TypeOK, AnyRef
        <3>2. CASE refs' = refs
            BY <3>1, <3>2
        <3>3. CASE refs' = Append(refs, r)
            BY <3>1, <3>3, RefsAreRefs
        <3>4. CASE refs' = Append(refs, Parsed(r)) /\ Accepted(r)
            BY <3>1, <3>4, ParsedType, RefsAreRefs DEF IInv
        <3>. QED BY <1>3, <3>2, <3>3, <3>4 DEF PushText, PushRef
    <2>2. UNCHANGED registry /\ pushing' \in BOOLEAN /\ failed' \in BOOLEAN /\ base' \in Nat
        BY <1>3 DEF PushText, PushRef, IInv, TypeOK
    <2>3. given' \in Seq({"parsed", "refused", "refinement"})
        <3>1. given \in Seq({"parsed", "refused", "refinement"})
            BY DEF IInv, TypeOK
        <3>2. PICK x \in {"parsed", "refused", "refinement"} : given' = Append(given, x)
            BY <1>3 DEF PushText, PushRef
        <3>. QED BY <3>1, <3>2
    <2>. QED BY <2>1, <2>2, <2>3 DEF IInv, TypeOK, RegisteredTogether, AnyRef
<1>4. CASE PushStart \/ PushEnd
    <2>1. Len(refs) \in Nat
        BY LenProperties DEF IInv, TypeOK
    <2>2. base' \in Nat /\ given' = << >>
        BY <1>4, <2>1 DEF PushStart, PushEnd
    <2>3. given' \in Seq({"parsed", "refused", "refinement"})
        BY <2>2
    <2>. QED BY <1>4, <2>2, <2>3 DEF PushStart, PushEnd, IInv, TypeOK, RegisteredTogether
<1>5. CASE UNCHANGED vars
    BY <1>5 DEF vars, IInv, TypeOK, RegisteredTogether
<1>. QED BY <1>1, <1>2, <1>3, <1>4, <1>5 DEF Next

\* The numeric OID any descriptor is entered with is itself entered, whatever is
\* registered and in whatever order.
THEOREM MapsAgree == Spec => [](TypeOK /\ RegisteredTogether)
BY InitIInv, NextIInv, PTL DEF Spec, IInv

-----------------------------------------------------------------------------
(* VerificationIsLostFor                                                   *)

\* A registration refuses no name that was resolved before it.
LEMMA RegisterKeepsResolving ==
    ASSUME TypeOK, TypeOK', InUse, NEW o \in OIDs \cup {Empty},
           NEW ds \in Seq(Descrs \cup {Empty}), RegisterOID(o, ds),
           NEW id \in Ids, Resolve(id) # Refused
    PROVE  Resolve(id)' # Refused
<1>1. /\ DOMAIN rev' = DOMAIN rev \cup {o} /\ DOMAIN fwd' = DOMAIN fwd \cup Range(ds)
    BY RegisterEffect
<1>2. InUse'
    BY <1>1 DEF InUse, useRevMap, useFwdMap
<1>3. CASE id \in OIDs
    <2>1. id \in DOMAIN rev
        BY <1>3 DEF Resolve, resolveO2D
    <2>2. id \in DOMAIN rev' /\ id \in Ids /\ id # Refused
        BY <1>1, <2>1, <1>3, NamesAssumption
    <2>3. ASSUME rev'[id] # << >> PROVE rev'[id][1] # Refused
        <3>1. rev'[id] \in Seq(Descrs)
            BY <2>2 DEF TypeOK
        <3>2. 1 \in 1..Len(rev'[id])
            BY <2>3, <3>1, EmptySeq
        <3>3. rev'[id][1] \in Descrs
            BY <3>1, <3>2, ElementOfSeq
        <3>. QED BY <3>3, NamesAssumption
    <2>. QED BY <1>2, <1>3, <2>2, <2>3 DEF Resolve, resolveO2D
<1>4. CASE id \notin OIDs
    <2>1. id \in Descrs /\ Lower[id] \in DOMAIN fwd
        BY <1>4 DEF Resolve, resolveD2O
    <2>2. Lower[id] \in DOMAIN fwd' /\ id # Refused
        BY <1>1, <2>1, NamesAssumption
    <2>. QED BY <1>2, <1>4, <2>1, <2>2 DEF Resolve, resolveD2O
<1>. QED BY <1>3, <1>4

\* With no entry in either map, every name is returned as it is.
LEMMA UnusedResolves ==
    ASSUME ~InUse, NEW id \in Ids
    PROVE  Resolve(id) # Refused
BY NamesAssumption DEF Resolve, Ids

LEMMA HeldNames ==
    ASSUME TypeOK, NEW i \in DOMAIN refs, NEW j \in DOMAIN refs[i].ids
    PROVE  refs[i].ids[j] \in Ids
<1>1. i \in 1..Len(refs)
    BY LenProperties DEF TypeOK
<1>2. refs[i].ids \in Seq(Ids)
    <2>1. refs \in Seq(AnyRef)
        BY DEF TypeOK, AnyRef
    <2>2. refs[i] \in AnyRef
        BY <1>1, <2>1, ElementOfSeq
    <2>. QED BY <2>2 DEF AnyRef
<1>. QED BY <1>2, LenProperties, ElementOfSeq

\* Once the registry is in use, no call other than emptying it makes Verify refuse a
\* refinement it accepted; emptying it accepts every name.
THEOREM VerificationIsKept == Spec => VerificationIsLostFor
<1>. DEFINE Lost == \A i \in DOMAIN refs : Verified(refs[i]) /\ ~(Verified(refs[i]))' => ~InUse /\ InUse'
<1>1. IInv /\ IInv' /\ [Next]_vars => [Lost]_vars
    <2>. SUFFICES ASSUME IInv, IInv', Next, NEW i \in DOMAIN refs,
                         Verified(refs[i]), ~(Verified(refs[i]))'
                  PROVE  ~InUse /\ InUse'
        BY DEF vars
    <2>. USE DEF registry
    <2>1. refs'[i] = refs[i]
        <3>1. CASE refs' = refs
            BY <3>1
        <3>2. ASSUME NEW r, refs' = Append(refs, r) PROVE refs'[i] = refs[i]
            <4>1. refs \in Seq(AnyRef)
                BY DEF IInv, TypeOK, AnyRef
            <4>2. refs \in Seq(AnyRef \cup {r}) /\ i \in 1..Len(refs)
                BY <4>1, LenProperties, SeqMonotonic
            <4>. QED BY <3>2, <4>2
        <3>. QED BY <3>1, <3>2 DEF Next, RegisterOID, Reset, PushStart, PushEnd, PushText, PushRef, push
    <2>2. PICK j \in DOMAIN refs[i].ids : Resolve(refs[i].ids[j]) # Refused /\ ~(Resolve(refs[i].ids[j]) # Refused)'
        BY <2>1 DEF Verified
    <2>. DEFINE id == refs[i].ids[j]
    <2>3. id \in Ids /\ id' = id
        BY <2>1, HeldNames DEF IInv
    <2>4. Resolve(id) # Refused /\ Resolve(id)' = Refused
        BY <2>2
    <2>. HIDE DEF id
    <2>5. InUse'
        BY <2>3, <2>4, NamesAssumption DEF Resolve, Ids
    <2>6. ~UNCHANGED registry
        BY <2>3, <2>4 DEF Resolve, resolveO2D, resolveD2O, InUse, useRevMap, useFwdMap
    <2>7. ~Reset
        BY <2>5 DEF Reset, InUse, useRevMap, useFwdMap, NoEntries
    <2>8. PICK o \in OIDs \cup {Empty}, ds \in Lists \cap Seq(Descrs \cup {Empty}) : RegisterOID(o, ds)
        BY <2>6, <2>7 DEF Next, PushStart, PushEnd, PushText, PushRef
    <2>9. ASSUME InUse PROVE FALSE
        BY <2>3, <2>4, <2>8, <2>9, RegisterKeepsResolving DEF IInv
    <2>. QED BY <2>5, <2>9
<1>2. Spec => []IInv
    BY InitIInv, NextIInv, PTL DEF Spec
<1>. QED BY <1>1, <1>2, PTL DEF Spec, VerificationIsLostFor

-----------------------------------------------------------------------------
(* What is parsed verifies                                                 *)

\* No entry of OIDRevMap has a descriptor in it, whatever was registered.
NoDescriptorKept == \A o \in DOMAIN rev : rev[o] = << >>

LEMMA NoDescriptorIsKept == Spec => []NoDescriptorKept
<1>1. Init => NoDescriptorKept
    BY DEF Init, NoEntries, NoDescriptorKept
<1>2. IInv /\ NoDescriptorKept /\ [Next]_vars => NoDescriptorKept'
    <2>. SUFFICES ASSUME IInv, NoDescriptorKept, [Next]_vars PROVE NoDescriptorKept'
        OBVIOUS
    <2>1. ASSUME NEW o \in OIDs \cup {Empty}, NEW ds \in Lists \cap Seq(Descrs \cup {Empty}), RegisterOID(o, ds)
          PROVE  NoDescriptorKept'
        <3>1. DOMAIN rev' = DOMAIN rev \cup {o} /\ \A x \in DOMAIN rev' : rev'[x] = IF x = o THEN << >> ELSE rev[x]
            BY <2>1, RegisterEffect DEF IInv
        <3>. QED BY <3>1 DEF NoDescriptorKept
    <2>2. CASE Reset
        BY <2>2 DEF Reset, NoEntries, NoDescriptorKept
    <2>3. CASE UNCHANGED rev
        BY <2>3 DEF NoDescriptorKept
    <2>. QED BY <2>1, <2>2, <2>3 DEF Next, PushStart, PushEnd, PushText, PushRef, vars, registry
<1>3. Spec => []IInv
    BY InitIInv, NextIInv, PTL DEF Spec
<1>. QED BY <1>1, <1>2, <1>3, PTL DEF Spec

\* A text that is parsed gives a refinement that its own Verify accepts, if it has names.
ParsedVerifies ==
    \A t \in Refs : Accepted(t) => (Verified(Parsed(t)) <=> t.ids # << >>) /\ Parsed(t).ids = t.ids

\* Hence a name that is resolved is resolved as it is written, and resolved again.
LEMMA ResolvedAsWritten ==
    ASSUME NoDescriptorKept, NEW id \in Ids, Resolve(id) # Refused
    PROVE  Resolve(id) = id
<1>1. CASE ~InUse
    BY <1>1 DEF Resolve
<1>2. CASE InUse /\ id \in OIDs
    BY <1>2 DEF Resolve, resolveO2D, NoDescriptorKept
<1>3. CASE InUse /\ id \notin OIDs
    BY <1>3 DEF Resolve, resolveD2O
<1>. QED BY <1>1, <1>2, <1>3

LEMMA ParsedAsWritten ==
    ASSUME NoDescriptorKept
    PROVE  ParsedVerifies
<1>. SUFFICES ASSUME NEW t \in Refs, Accepted(t)
              PROVE  (Verified(Parsed(t)) <=> t.ids # << >>) /\ Parsed(t).ids = t.ids
    BY DEF ParsedVerifies
<1>1. t.ids \in Seq(Ids)
    BY RefsAreRefs DEF AnyRef
<1>2. DOMAIN t.ids = 1..Len(t.ids) /\ \A i \in DOMAIN t.ids : t.ids[i] \in Ids
    BY <1>1, LenProperties, ElementOfSeq
<1>3. \A i \in DOMAIN t.ids : Resolve(t.ids[i]) = t.ids[i] /\ Resolve(t.ids[i]) # Refused
    BY <1>2, ResolvedAsWritten DEF Accepted, Parses
<1>4. [i \in DOMAIN t.ids |-> Resolve(t.ids[i])] = t.ids
    <2>1. t.ids = [i \in DOMAIN t.ids |-> t.ids[i]]
        BY <1>1, <1>2
    <2>. QED BY <1>3, <2>1, Zenon
<1>5. Parsed(t).choice = t.choice /\ Parsed(t).ids = t.ids
    BY <1>4 DEF Parsed, Ref
<1>. QED BY <1>3, <1>5 DEF Verified, Accepted

\* Whatever the registry holds, a text with names in it that is parsed is a refinement
\* that Verify accepts, and its names are those that were written: a descriptor that is
\* registered stays one, and so does a numeric OID, for which no descriptor is kept.
THEOREM ParsedAlwaysVerifies == Spec => []ParsedVerifies
<1>1. NoDescriptorKept => ParsedVerifies
    BY ParsedAsWritten
<1>. QED BY <1>1, NoDescriptorIsKept, PTL

-----------------------------------------------------------------------------
(* What Push keeps                                                         *)

Outcomes == {"parsed", "refused", "refinement"}

\* No error is left of the arguments before the i-th.
Clear(g, i) == \A j \in 1..(i - 1) : g[j] = "refused" => \E k \in (j + 1)..(i - 1) : g[k] = "parsed"

KeptOf(g) == {i \in DOMAIN g : g[i] = "parsed" \/ (g[i] = "refinement" /\ Clear(g, i))}

LEMMA KeptIsKept == Kept = KeptOf(given) /\ Kept' = KeptOf(given)'
BY DEF Kept, KeptOf, Clear

\* What one more argument does: a text that parses leaves no error behind, one that is
\* refused leaves one, and a refinement leaves what there was.
LEMMA OneMoreArgument ==
    ASSUME NEW g \in Seq(Outcomes), NEW x \in Outcomes
    PROVE  /\ Clear(Append(g, x), Len(g) + 2) <=> x = "parsed" \/ (x = "refinement" /\ Clear(g, Len(g) + 1))
           /\ KeptOf(Append(g, x)) =
                 KeptOf(g) \cup (IF x = "parsed" \/ (x = "refinement" /\ Clear(g, Len(g) + 1))
                                 THEN {Len(g) + 1} ELSE {})
<1>. DEFINE s == Append(g, x)
            n == Len(g)
<1>1. /\ n \in Nat /\ DOMAIN g = 1..n /\ DOMAIN s = 1..(n + 1)
      /\ s[n + 1] = x /\ \A i \in 1..n : s[i] = g[i]
    BY LenProperties
<1>. HIDE DEF s, n
<1>2. \A i \in 1..(n + 1) : Clear(s, i) <=> Clear(g, i)
    <2>. SUFFICES ASSUME NEW i \in 1..(n + 1) PROVE Clear(s, i) <=> Clear(g, i)
        OBVIOUS
    <2>1. \A j \in 1..(i - 1) : s[j] = g[j] /\ \A k \in (j + 1)..(i - 1) : s[k] = g[k]
        BY <1>1
    <2>. QED BY <2>1 DEF Clear
<1>3. Clear(s, n + 2) <=> x = "parsed" \/ (x = "refinement" /\ Clear(g, n + 1))
    <2>0. (n + 2) - 1 = n + 1 /\ (n + 1) - 1 = n
        BY <1>1
    <2>1. CASE x = "parsed"
        <3>1. ASSUME NEW j \in 1..(n + 1), s[j] = "refused" PROVE n + 1 \in (j + 1)..(n + 1)
            <4>1. j # n + 1
                BY <1>1, <2>1, <3>1
            <4>. QED BY <1>1, <4>1
        <3>2. s[n + 1] = "parsed"
            BY <1>1, <2>1
        <3>. QED BY <2>0, <2>1, <3>1, <3>2 DEF Clear
    <2>2. CASE x = "refused"
        <3>1. n + 1 \in 1..(n + 1) /\ s[n + 1] = "refused" /\ ((n + 1) + 1)..(n + 1) = {}
            BY <1>1, <2>2
        <3>. QED BY <2>0, <2>2, <3>1 DEF Clear
    <2>3. CASE x = "refinement"
        <3>1. \A j \in 1..(n + 1) : s[j] = "refused" => j \in 1..n
            BY <1>1, <2>3
        <3>2. \A j \in 1..n : \A k \in (j + 1)..(n + 1) : s[k] = "parsed" => k \in (j + 1)..n
            BY <1>1, <2>3
        <3>3. \A j \in 1..n : j \in 1..(n + 1) /\ s[j] = g[j]
            BY <1>1
        <3>4. \A j \in 1..n : \A k \in (j + 1)..n : k \in (j + 1)..(n + 1) /\ s[k] = g[k]
            BY <1>1
        <3>5. Clear(s, n + 2) => Clear(g, n + 1)
            BY <2>0, <3>2, <3>3, <3>4 DEF Clear
        <3>6. Clear(g, n + 1) => Clear(s, n + 2)
            BY <2>0, <3>1, <3>3, <3>4 DEF Clear
        <3>. QED BY <2>3, <3>5, <3>6
    <2>. QED BY <2>1, <2>2, <2>3 DEF Outcomes
<1>4. KeptOf(s) = KeptOf(g) \cup (IF x = "parsed" \/ (x = "refinement" /\ Clear(g, n + 1)) THEN {n + 1} ELSE {})
    <2>1. \A i \in 1..n : i \in KeptOf(s) <=> i \in KeptOf(g)
        <3>1. \A i \in 1..n : i \in 1..(n + 1)
            BY <1>1
        <3>. QED BY <1>1, <1>2, <3>1 DEF KeptOf
    <2>2. n + 1 \in KeptOf(s) <=> x = "parsed" \/ (x = "refinement" /\ Clear(g, n + 1))
        <3>1. n + 1 \in 1..(n + 1)
            BY <1>1
        <3>. QED BY <1>1, <1>2, <3>1 DEF KeptOf
    <2>3. KeptOf(s) \subseteq 1..(n + 1) /\ KeptOf(g) \subseteq 1..n
        BY <1>1 DEF KeptOf
    <2>4. \A i \in 1..(n + 1) : i \in 1..n \/ i = n + 1
        BY <1>1
    <2>5. 1..n \subseteq 1..(n + 1)
        BY <1>1
    <2>. QED BY <2>1, <2>2, <2>3, <2>4, <2>5
<1>. QED BY <1>3, <1>4 DEF s, n

\* The places of a finite set of numbers, counted from the least.
LEMMA PlacesOf ==
    ASSUME NEW n \in Nat, NEW K \in SUBSET (1..n)
    PROVE  /\ IsFiniteSet(K) /\ Cardinality(K) \in Nat
           /\ \A i \in K : Cardinality({k \in K : k <= i}) \in 1..Cardinality(K)
           /\ Cardinality(K \cup {n + 1}) = Cardinality(K) + 1
<1>. DEFINE I == 1..n
<1>0. IsFiniteSet(I) /\ K \subseteq I
    BY FS_Interval
<1>. HIDE DEF I
<1>1. IsFiniteSet(K) /\ Cardinality(K) \in Nat
    BY <1>0, FS_Subset, FS_CardinalityType
<1>2. ASSUME NEW i \in K PROVE Cardinality({k \in K : k <= i}) \in 1..Cardinality(K)
    <2>. DEFINE L == {k \in K : k <= i}
    <2>1. L \subseteq K /\ i \in L
        OBVIOUS
    <2>. HIDE DEF L
    <2>2. IsFiniteSet(L) /\ Cardinality(L) <= Cardinality(K) /\ Cardinality(L) \in Nat
        BY <1>1, <2>1, FS_Subset, FS_CardinalityType
    <2>3. Cardinality(L) # 0
        BY <2>1, <2>2, FS_EmptySet
    <2>4. \A c, d \in Nat : c # 0 /\ c <= d => c \in 1..d
        OBVIOUS
    <2>5. Cardinality(L) \in 1..Cardinality(K)
        BY <1>1, <2>2, <2>3, <2>4, Zenon
    <2>. QED BY <2>5 DEF L
<1>3. n + 1 \notin K
    OBVIOUS
<1>4. Cardinality(K \cup {n + 1}) = Cardinality(K) + 1
    BY <1>1, <1>3, FS_AddElement
<1>. QED BY <1>1, <1>2, <1>4

\* What Verify says is what the parser says of names.
Fit(r) == Verified(r) <=> r.ids # << >>

PlaceIn(K, b, i) == b + Cardinality({k \in K : k <= i})

KeepInv == PushKeeps /\ (pushing => (failed <=> ~Clear(given, Len(given) + 1)))

\* One argument more, of which something is appended to the receiver or not.
LEMMA ArgumentIsKept ==
    ASSUME IInv, KeepInv, pushing, UNCHANGED <<registry, base>>,
           NEW x \in Outcomes, given' = Append(given, x),
           NEW r, IF x = "parsed" \/ (x = "refinement" /\ ~failed) THEN refs' = Append(refs, r) ELSE refs' = refs,
           x = "parsed" => Fit(r)
    PROVE  PushKeeps' /\ Clear(given, Len(given) + 1)' = (x = "parsed" \/ (x = "refinement" /\ ~failed))
<1>. DEFINE n == Len(given)
            K == KeptOf(given)
            m == Len(refs)
            new == x = "parsed" \/ (x = "refinement" /\ ~failed)
<1>1. given \in Seq(Outcomes) /\ n \in Nat /\ DOMAIN given = 1..n
    BY LenProperties DEF IInv, TypeOK, Outcomes
<1>2. refs \in Seq(AnyRef) /\ m \in Nat /\ base \in Nat
    BY LenProperties DEF IInv, TypeOK, AnyRef
<1>3. failed <=> ~Clear(given, n + 1)
    BY DEF KeepInv
<1>4. failed \in BOOLEAN
    BY DEF IInv, TypeOK
<1>5. /\ Clear(given', n + 2) <=> new
      /\ KeptOf(given') = K \cup (IF new THEN {n + 1} ELSE {})
    BY <1>1, <1>3, OneMoreArgument
<1>6. Len(given') = n + 1 /\ given'[n + 1] = x /\ \A i \in 1..n : given'[i] = given[i]
    BY <1>1
<1>7. K \subseteq 1..n
    BY <1>1 DEF KeptOf
<1>8. m = base + Cardinality(K) /\ \A i \in K : given[i] = "parsed" => Fit(refs[PlaceIn(K, base, i)])
    BY KeptIsKept DEF KeepInv, PushKeeps, PlaceOf, PlaceIn, Fit
<1>9. /\ IsFiniteSet(K) /\ Cardinality(K) \in Nat
      /\ \A i \in K : Cardinality({k \in K : k <= i}) \in 1..Cardinality(K)
      /\ Cardinality(K \cup {n + 1}) = Cardinality(K) + 1
    BY <1>1, <1>7, PlacesOf
<1>. DEFINE L == K \cup (IF new THEN {n + 1} ELSE {})
<1>10. Len(refs') = base + Cardinality(L) /\ \A j \in 1..m : refs'[j] = refs[j]
    <2>1. CASE new
        <3>1. refs' = Append(refs, r) /\ Cardinality(L) = Cardinality(K) + 1
            BY <1>9, <2>1
        <3>2. Len(refs') = m + 1 /\ \A j \in 1..m : refs'[j] = refs[j]
            <4>1. refs \in Seq(AnyRef \cup {r})
                BY <1>2, SeqMonotonic
            <4>. QED BY <3>1, <4>1
        <3>. QED BY <1>2, <1>8, <1>9, <3>1, <3>2
    <2>2. CASE ~new
        <3>1. refs' = refs /\ L = K
            BY <2>2
        <3>. QED BY <1>8, <3>1
    <2>. QED BY <2>1, <2>2
<1>11. ASSUME NEW i \in K PROVE PlaceIn(L, base, i) = PlaceIn(K, base, i) /\ PlaceIn(K, base, i) \in 1..m
    <2>1. {k \in L : k <= i} = {k \in K : k <= i}
        BY <1>1, <1>7
    <2>2. \A c, d, b \in Nat : c \in 1..d => b + c \in 1..(b + d)
        OBVIOUS
    <2>3. Cardinality({k \in K : k <= i}) \in 1..Cardinality(K)
        BY <1>9
    <2>4. 1..Cardinality(K) \subseteq Nat
        OBVIOUS
    <2>. DEFINE c == Cardinality({k \in K : k <= i})
                d == Cardinality(K)
    <2>5. c \in Nat /\ d \in Nat /\ c \in 1..d
        BY <1>9, <2>3, <2>4
    <2>. HIDE DEF c, d
    <2>6. base + c \in 1..(base + d)
        BY <1>2, <2>2, <2>5
    <2>. QED BY <1>8, <2>1, <2>6 DEF PlaceIn, c, d
<1>12. ASSUME new PROVE PlaceIn(L, base, n + 1) = m + 1 /\ refs'[m + 1] = r
    <2>1. L = K \cup {n + 1} /\ Cardinality(L) = Cardinality(K) + 1
        BY <1>9, <1>12
    <2>2. {k \in L : k <= n + 1} = L
        BY <1>1, <1>7, <2>1
    <2>3. PlaceIn(L, base, n + 1) = base + (Cardinality(K) + 1)
        BY <2>1, <2>2 DEF PlaceIn
    <2>4. refs' = Append(refs, r)
        BY <1>12
    <2>5. refs \in Seq(AnyRef \cup {r})
        BY <1>2, SeqMonotonic
    <2>. QED BY <1>2, <1>8, <1>9, <2>3, <2>4, <2>5
<1>13. \A q : Fit(q)' <=> Fit(q)
    BY DEF Fit, Verified, Resolve, resolveO2D, resolveD2O, InUse, useRevMap, useFwdMap, registry
<1>14. Kept' = L /\ given' = Append(given, x) /\ base' = base
    BY <1>5, KeptIsKept
<1>15. ASSUME NEW i \in L, given'[i] = "parsed" PROVE Fit(refs'[PlaceIn(L, base, i)])
    <2>1. CASE i \in K
        <3>1. given[i] = "parsed"
            BY <1>6, <1>7, <1>15, <2>1
        <3>. QED BY <1>8, <1>10, <1>11, <2>1, <3>1
    <2>2. CASE i \notin K
        <3>1. new /\ i = n + 1
            BY <2>2
        <3>2. x = "parsed"
            BY <1>6, <1>15, <3>1
        <3>. QED BY <1>12, <3>1, <3>2
    <2>. QED BY <2>1, <2>2
<1>. HIDE DEF L, K, n, m
<1>16. PushKeeps'
    <2>1. Len(refs') = base' + Cardinality(Kept')
        BY <1>10, <1>14
    <2>2. ASSUME NEW i \in Kept', given'[i] = "parsed"
          PROVE  (Verified(refs[PlaceOf(i)]) <=> refs[PlaceOf(i)].ids # << >>)'
        <3>1. PlaceOf(i)' = PlaceIn(L, base, i)
            BY <1>14 DEF PlaceOf, PlaceIn
        <3>2. Fit(refs'[PlaceIn(L, base, i)])
            BY <1>14, <1>15, <2>2
        <3>. DEFINE q == refs'[PlaceIn(L, base, i)]
        <3>3. refs'[PlaceOf(i)'] = q
            BY <3>1
        <3>4. Verified(refs[PlaceOf(i)])' <=> Verified(q)
            BY <3>3 DEF Verified, Resolve, resolveO2D, resolveD2O, InUse, useRevMap, useFwdMap, registry
        <3>. QED BY <3>2, <3>3, <3>4 DEF Fit
    <2>. QED BY <2>1, <2>2 DEF PushKeeps
<1>17. Clear(given, Len(given) + 1)' = new
    <2>1. Len(given') + 1 = n + 2
        BY <1>1, <1>6 DEF n
    <2>. QED BY <1>4, <1>5, <2>1 DEF n, Clear
<1>. QED BY <1>16, <1>17

LEMMA InitKeepInv == Init => KeepInv
BY DEF Init, KeepInv, PushKeeps

LEMMA NextKeepInv == IInv /\ NoDescriptorKept /\ KeepInv /\ [Next]_vars => KeepInv'
<1>. SUFFICES ASSUME IInv, NoDescriptorKept, KeepInv, [Next]_vars PROVE KeepInv'
    OBVIOUS
<1>1. ASSUME ~pushing' PROVE KeepInv'
    BY <1>1 DEF KeepInv, PushKeeps
<1>2. CASE PushStart
    <2>1. given' = << >> /\ DOMAIN << >> = {} /\ Len(<< >>) = 0
        BY <1>2 DEF PushStart
    <2>2. Kept' = {}
        BY <2>1, KeptIsKept DEF KeptOf
    <2>3. Cardinality({}) = 0 /\ Len(refs) \in Nat
        BY FS_EmptySet, LenProperties DEF IInv, TypeOK
    <2>4. PushKeeps'
        BY <1>2, <2>2, <2>3 DEF PushStart, PushKeeps
    <2>5. Clear(given, Len(given) + 1)'
        BY <2>1 DEF Clear
    <2>. QED BY <1>2, <2>4, <2>5 DEF PushStart, KeepInv
<1>3. ASSUME NEW t \in Refs, PushText(t) PROVE KeepInv'
    <2>. DEFINE x == IF Accepted(t) THEN "parsed" ELSE "refused"
    <2>1. /\ x \in Outcomes /\ (x = "parsed" <=> Accepted(t)) /\ x # "refinement"
          /\ pushing /\ UNCHANGED <<registry, base>> /\ given' = Append(given, x)
          /\ IF Accepted(t) THEN refs' = Append(refs, Parsed(t)) ELSE refs' = refs
          /\ failed' = ~Accepted(t)
        BY <1>3 DEF PushText, Outcomes
    <2>2. Accepted(t) => Fit(Parsed(t))
        BY ParsedAsWritten DEF ParsedVerifies, Fit
    <2>. HIDE DEF x
    <2>3. PushKeeps' /\ Clear(given, Len(given) + 1)' = (x = "parsed" \/ (x = "refinement" /\ ~failed))
        BY <2>1, <2>2, ArgumentIsKept
    <2>. QED BY <2>1, <2>3 DEF KeepInv
<1>4. ASSUME NEW r \in Refs, PushRef(r) PROVE KeepInv'
    <2>. DEFINE x == "refinement"
    <2>1. /\ x \in Outcomes /\ x # "parsed" /\ x = "refinement"
          /\ pushing /\ UNCHANGED <<registry, base>> /\ given' = Append(given, x)
          /\ IF ~failed THEN refs' = Append(refs, r) ELSE refs' = refs
          /\ failed' = failed
        BY <1>4 DEF PushRef, Outcomes
    <2>. HIDE DEF x
    <2>2. PushKeeps' /\ Clear(given, Len(given) + 1)' = (x = "parsed" \/ (x = "refinement" /\ ~failed))
        BY <2>1, ArgumentIsKept
    <2>3. failed \in BOOLEAN
        BY DEF IInv, TypeOK
    <2>. QED BY <2>1, <2>2, <2>3 DEF KeepInv
<1>5. CASE UNCHANGED vars
    <2>1. UNCHANGED <<refs, given, base, pushing, failed>> /\ UNCHANGED registry
        BY <1>5 DEF vars, registry
    <2>2. Kept' = Kept
        BY <2>1, KeptIsKept DEF KeptOf, Clear
    <2>3. ASSUME NEW i \in Kept', given'[i] = "parsed", pushing
          PROVE  (Verified(refs[PlaceOf(i)]) <=> refs[PlaceOf(i)].ids # << >>)'
        <3>1. PlaceOf(i)' = PlaceOf(i)
            BY <2>1, <2>2 DEF PlaceOf
        <3>2. Verified(refs[PlaceOf(i)]) <=> refs[PlaceOf(i)].ids # << >>
            BY <2>1, <2>2, <2>3 DEF KeepInv, PushKeeps
        <3>3. Verified(refs[PlaceOf(i)])' <=> Verified(refs[PlaceOf(i)])
            BY <2>1, <3>1 DEF Verified, Resolve, resolveO2D, resolveD2O, InUse, useRevMap, useFwdMap, registry
        <3>. QED BY <2>1, <3>1, <3>2, <3>3
    <2>4. PushKeeps'
        BY <2>1, <2>2, <2>3 DEF KeepInv, PushKeeps
    <2>. QED BY <2>1, <2>4 DEF KeepInv, Clear
<1>6. ASSUME NEW o \in OIDs \cup {Empty}, NEW ds \in Lists \cap Seq(Descrs \cup {Empty}), RegisterOID(o, ds)
      PROVE  ~pushing'
    BY <1>6 DEF RegisterOID, push
<1>7. Reset \/ PushEnd => ~pushing'
    BY DEF Reset, PushEnd, push
<1>. QED BY <1>1, <1>2, <1>3, <1>4, <1>5, <1>6, <1>7 DEF Next

\* Whatever is registered and pushed, and however many arguments a Push has: the
\* receiver grows by one for each text that parses and each refinement that no earlier
\* text's error shuts out, and for nothing else; and where a text with names was parsed, in
\* the order of the arguments, stands a refinement that verifies.
THEOREM ArgumentsAreKept == Spec => []PushKeeps
<1>1. KeepInv => PushKeeps
    BY DEF KeepInv
<1>2. Spec => []IInv
    BY InitIInv, NextIInv, PTL DEF Spec
<1>. QED BY <1>1, <1>2, InitKeepInv, NextKeepInv, NoDescriptorIsKept, PTL DEF Spec

-----------------------------------------------------------------------------
(* The cuts of the texts of subtree specifications                         *)

\* A text with a character that is no blank is trimmed to one that begins and ends with such
\* characters.
LEMMA Trimmed ==
    ASSUME NEW s \in Seq(Tokens), ~Blank(s)
    PROVE  /\ Trim(s) \in Seq(Tokens)
           /\ Len(Trim(s)) \in Nat /\ Len(Trim(s)) >= 1
           /\ Trim(s)[1] # "blank" /\ Trim(s)[Len(Trim(s))] # "blank"
<1>. DEFINE Inked == {i \in 1..Len(s) : s[i] # "blank"}
            a == CHOOSE i \in DOMAIN s : s[i] # "blank" /\ \A j \in 1..(i - 1) : s[j] = "blank"
            b == CHOOSE i \in DOMAIN s : s[i] # "blank" /\ \A j \in (i + 1)..Len(s) : s[j] = "blank"
<1>1. Len(s) \in Nat /\ DOMAIN s = 1..Len(s) /\ s \in [1..Len(s) -> Tokens]
    BY LenProperties
<1>2. Inked \subseteq 1..Len(s) /\ Inked # {}
    BY <1>1 DEF Blank
<1>3. a \in DOMAIN s /\ s[a] # "blank" /\ \A j \in 1..(a - 1) : s[j] = "blank"
    <2>1. PICK x \in Inked : \A y \in Inked : x <= y
        BY <1>1, <1>2, FirstPosition
    <2>2. x \in DOMAIN s /\ s[x] # "blank" /\ \A j \in 1..(x - 1) : s[j] = "blank"
        BY <2>1, <1>1
    <2>. QED BY <2>2
<1>4. b \in DOMAIN s /\ s[b] # "blank" /\ \A j \in (b + 1)..Len(s) : s[j] = "blank"
    <2>1. PICK x \in Inked : \A y \in Inked : y <= x
        BY <1>1, <1>2, LastPosition
    <2>2. x \in DOMAIN s /\ s[x] # "blank" /\ \A j \in (x + 1)..Len(s) : s[j] = "blank"
        BY <2>1, <1>1
    <2>. QED BY <2>2
<1>5. Trim(s) = SubSeq(s, a, b)
    BY DEF Trim
<1>. HIDE DEF a, b
<1>6. a \in 1..Len(s) /\ b \in 1..Len(s) /\ a <= b
    BY <1>1, <1>3, <1>4
<1>7. /\ SubSeq(s, a, b) \in Seq(Tokens)
      /\ Len(SubSeq(s, a, b)) = b - a + 1
      /\ \A i \in 1..(b - a + 1) : SubSeq(s, a, b)[i] = s[a + i - 1]
    BY <1>1, <1>6, SubSeqProperties
<1>8. /\ SubSeq(s, a, b)[1] = s[a] /\ SubSeq(s, a, b)[b - a + 1] = s[b]
    <2>1. 1 \in 1..(b - a + 1) /\ b - a + 1 \in 1..(b - a + 1) /\ a + 1 - 1 = a /\ a + (b - a + 1) - 1 = b
        BY <1>6
    <2>. QED BY <1>7, <2>1
<1>9. b - a + 1 \in Nat /\ b - a + 1 >= 1
    BY <1>6
<1>. QED BY <1>3, <1>4, <1>5, <1>7, <1>8, <1>9

\* What is left of a text between braces is a text.
LEMMA RawIsText ==
    ASSUME text \in Texts
    PROVE  /\ Raw \in Seq(Tokens)
           /\ Raw # << >> => Raw[1] # "blank" /\ Raw[Len(Raw)] # "blank"
<1>1. text \in Seq(Tokens) /\ text # << >>
    BY TextsAssumption
<1>2. Len(text) \in Nat /\ Len(text) >= 1
    BY <1>1, EmptySeq
<1>3. 2 \in 1..(Len(text) + 1) /\ Len(text) - 1 \in 0..Len(text)
    BY <1>2
<1>4. SubSeq(text, 2, Len(text) - 1) \in Seq(Tokens)
    BY <1>1, <1>3, PieceAny
<1>5. CASE Blank(SubSeq(text, 2, Len(text) - 1))
    <2>1. Raw = << >>
        BY <1>5 DEF Raw, Trim
    <2>. QED BY <2>1
<1>6. CASE ~Blank(SubSeq(text, 2, Len(text) - 1))
    BY <1>4, <1>6, Trimmed DEF Raw
<1>. QED BY <1>5, <1>6

\* The word of a component is never the last of a text that was trimmed.
LEMMA WordIsFollowed ==
    ASSUME NEW s \in Seq(Tokens), s # << >> => s[Len(s)] # "blank", NEW c \in Components, Found(s, c)
    PROVE  After(s, c) \in Seq(Tokens) /\ ~Blank(After(s, c)) /\ Len(After(s, c)) >= 1
<1>. DEFINE Words == {i \in 1..(Len(s) - 1) : s[i] = c /\ s[i + 1] = "blank"}
            w == CHOOSE i \in 1..(Len(s) - 1) : /\ s[i] = c /\ s[i + 1] = "blank"
                                                /\ \A j \in 1..(i - 1) : s[j] # c \/ s[j + 1] # "blank"
<1>1. Len(s) \in Nat /\ s \in [1..Len(s) -> Tokens]
    BY LenProperties
<1>2. w \in 1..(Len(s) - 1) /\ s[w + 1] = "blank"
    <2>1. Words \subseteq 1..Len(s) /\ Words # {}
        <3>1. 1..(Len(s) - 1) \subseteq 1..Len(s)
            BY <1>1
        <3>. QED BY <3>1, Zenon DEF Found
    <2>2. PICK x \in Words : \A y \in Words : x <= y
        BY <1>1, <2>1, FirstPosition
    <2>3. /\ x \in 1..(Len(s) - 1) /\ s[x] = c /\ s[x + 1] = "blank"
          /\ \A j \in 1..(x - 1) : s[j] # c \/ s[j + 1] # "blank"
        BY <2>2, <1>1
    <2>. QED BY <2>3
<1>3. After(s, c) = SubSeq(s, 2 + w, Len(s))
    BY DEF After, From
<1>. HIDE DEF w
<1>4. s[Len(s)] # "blank"
    <2>1. Len(s) # 0
        BY <1>1, <1>2
    <2>. QED BY <2>1, EmptySeq
<1>5. w + 2 <= Len(s)
    BY <1>1, <1>2, <1>4
<1>6. 2 + w \in 1..(Len(s) + 1) /\ Len(s) \in 0..Len(s) /\ 2 + w \in Nat /\ 2 + w <= Len(s)
    BY <1>1, <1>2, <1>5
<1>7. /\ SubSeq(s, 2 + w, Len(s)) \in Seq(Tokens)
      /\ Len(SubSeq(s, 2 + w, Len(s))) = Len(s) - (2 + w) + 1
      /\ \A i \in 1..(Len(s) - (2 + w) + 1) : SubSeq(s, 2 + w, Len(s))[i] = s[(2 + w) + i - 1]
    <2>1. \A i \in (2 + w)..Len(s) : s[i] \in Tokens
        BY <1>1, <1>6
    <2>. QED BY <1>1, <1>6, <2>1, SubSeqProperties
<1>8. Len(s) - (2 + w) + 1 \in Nat /\ Len(s) - (2 + w) + 1 >= 1
    BY <1>1, <1>6
<1>9. SubSeq(s, 2 + w, Len(s))[Len(s) - (2 + w) + 1] # "blank"
    <2>1. (2 + w) + (Len(s) - (2 + w) + 1) - 1 = Len(s) /\ Len(s) - (2 + w) + 1 \in 1..(Len(s) - (2 + w) + 1)
        BY <1>1, <1>6, <1>8
    <2>. QED BY <2>1, <1>4, <1>7
<1>10. ~Blank(SubSeq(s, 2 + w, Len(s)))
    <2>1. Len(s) - (2 + w) + 1 \in DOMAIN SubSeq(s, 2 + w, Len(s))
        BY <1>7, <1>8, LenProperties
    <2>. QED BY <2>1, <1>9 DEF Blank
<1>. QED BY <1>3, <1>7, <1>8, <1>10

\* The text begins with an opening brace.
Braced(t) == t[1] = "{"

\* The brace that closes the first one is behind it.
LEMMA BraceIsClosedLater ==
    ASSUME NEW t \in Seq(Tokens), Len(t) >= 1, Braced(t), NEW n \in Nat, n \in 1..Len(t), Closes(t, n)
    PROVE  n >= 2
<1>1. 1..1 = {1}
    OBVIOUS
<1>2. Depth(t, 1) = 1
    <2>1. {i \in 1..1 : t[i] = "{"} = {1} /\ {i \in 1..1 : t[i] = "}"} = {}
        <3>1. t[1] = "{" /\ "{" # "}"
            BY Zenon DEF Braced
        <3>. QED BY <1>1, <3>1, Zenon
    <2>2. Cardinality({1}) = 1 /\ Cardinality({}) = 0
        BY FS_Singleton, FS_EmptySet
    <2>3. Depth(t, 1) = 1 - 0
        BY <2>1, <2>2, Zenon DEF Depth
    <2>. QED BY <2>3
<1>3. Depth(t, n) = 0
    BY DEF Closes
<1>4. n # 1
    BY <1>2, <1>3
<1>5. Len(t) \in Nat
    BY LenProperties
<1>. QED BY <1>4, <1>5

\* The positions NewSubtreeSpecification and its functions cut at: the braces are two
\* characters, the word of a component is followed by something (so that raw[0] is there
\* to be looked at), a closing quote is behind the opening one, and a closing brace too.
CutsInRange ==
    /\ mode \in Components \cup {"answer", "done", "panic"} => Len(text) >= 2
    /\ \A c \in Components : Found(Raw, c) =>
         LET s == After(Raw, c)
             t == Trim(s)
         IN  /\ Len(s) >= 1 /\ Len(t) >= 1
             /\ (\E i \in 2..Len(s) : s[i] = "quote") => FirstOf(s, "quote", 2) \in 2..Len(s)
             /\ Braced(t) => \A n \in DOMAIN t : Closes(t, n) => n \in 2..Len(t)

\* The cuts behind the word of a component.
LEMMA CutsOfWords ==
    ASSUME text \in Texts, NEW c \in Components, Found(Raw, c)
    PROVE  /\ Len(After(Raw, c)) >= 1 /\ Len(Trim(After(Raw, c))) >= 1
           /\ (\E i \in 2..Len(After(Raw, c)) : After(Raw, c)[i] = "quote")
                => FirstOf(After(Raw, c), "quote", 2) \in 2..Len(After(Raw, c))
           /\ Braced(Trim(After(Raw, c))) => \A n \in DOMAIN Trim(After(Raw, c)) :
                Closes(Trim(After(Raw, c)), n) => n \in 2..Len(Trim(After(Raw, c)))
<1>. DEFINE s == After(Raw, c)
            t == Trim(s)
<1>1. s \in Seq(Tokens) /\ ~Blank(s) /\ Len(s) >= 1
    BY RawIsText, WordIsFollowed
<1>2. t \in Seq(Tokens) /\ Len(t) \in Nat /\ Len(t) >= 1
    BY <1>1, Trimmed
<1>. HIDE DEF t, s
<1>3. ASSUME \E i \in 2..Len(s) : s[i] = "quote"
      PROVE  FirstOf(s, "quote", 2) \in 2..Len(s)
    <2>. DEFINE Quotes == {i \in 2..Len(s) : s[i] = "quote"}
    <2>1. Len(s) \in Nat /\ Quotes \subseteq 1..Len(s) /\ Quotes # {}
        BY <1>1, <1>3
    <2>2. PICK x \in Quotes : \A y \in Quotes : x <= y
        BY <2>1, FirstPosition
    <2>3. x \in 2..Len(s) /\ s[x] = "quote" /\ \A k \in 2..(x - 1) : s[k] # "quote"
        BY <2>1, <2>2
    <2>. QED BY <2>3 DEF FirstOf
<1>4. Braced(t) => \A n \in DOMAIN t : Closes(t, n) => n \in 2..Len(t)
    <2>1. DOMAIN t = 1..Len(t)
        BY <1>2, LenProperties
    <2>2. ASSUME Braced(t), NEW n \in Nat, n \in 1..Len(t), Closes(t, n)
          PROVE  n \in 2..Len(t)
        <3>1. n >= 2
            BY <1>2, <2>2, BraceIsClosedLater
        <3>. QED BY <1>2, <2>2, <3>1
    <2>3. 1..Len(t) \subseteq Nat
        BY <1>2
    <2>. QED BY <2>1, <2>2, <2>3
<1>. QED BY <1>1, <1>2, <1>3, <1>4 DEF s, t

\* Only a base can fault, and only one whose quote is not closed.
LEMMA OnlyBaseFaults ==
    /\ \A s : BaseOf(s).fault => s[1] = "quote" /\ \A i \in 2..Len(s) : s[i] # "quote"
    /\ \A s : ~ExclusionsOf(s).fault
    /\ \A s : ~DistanceOf(s).fault
    /\ \A s : ~FilterOf(s).fault
<1>1. \A out : ~Read(out).fault /\ ~Erroneous(out).fault
    BY DEF Read, Erroneous
<1>2. ASSUME NEW s PROVE BaseOf(s).fault => s[1] = "quote" /\ \A i \in 2..Len(s) : s[i] # "quote"
    BY <1>1, Zenon DEF BaseOf
<1>3. ASSUME NEW s PROVE ~ExclusionsOf(s).fault
    BY <1>1, Zenon DEF ExclusionsOf
<1>4. ASSUME NEW s PROVE ~DistanceOf(s).fault
    BY <1>1, Zenon DEF DistanceOf
<1>5. ASSUME NEW s PROVE ~FilterOf(s).fault
    BY <1>1, Zenon DEF FilterOf
<1>. QED BY <1>2, <1>3, <1>4, <1>5

\* What is known of a text while its components are read.
SubtreeInv ==
    /\ text \in Texts
    /\ mode \in Components \cup {"answer", "done", "panic"} => Len(text) >= 2
    /\ FaultsOnlyOnOpenBase

\* The texts and the ends of the calls stay as SubtreeInv says.
LEMMA SubtreeInvHolds == SubtreeSpec => []SubtreeInv
<1>1. SubtreeInit => SubtreeInv
    BY DEF SubtreeInit, SubtreeInv, FaultsOnlyOnOpenBase, Components
<1>2. ASSUME SubtreeInv, [SubtreeNext]_subVars PROVE SubtreeInv'
    <2>1. text' = text /\ text \in Texts
        BY <1>2 DEF SubtreeInv, SubtreeNext, subVars, Open, Marshal, MarshalBase, MarshalExclusions,
                    MarshalMinimum, MarshalMaximum, MarshalSpecFilter, Answer
    <2>2. Raw' = Raw
        BY <2>1 DEF Raw
    <2>3. CASE Open
        <3>1. text \in Seq(Tokens) /\ Len(text) \in Nat /\ text # << >>
            BY <2>1, TextsAssumption, LenProperties
        <3>2. Len(text) # 0
            BY <3>1, EmptySeq
        <3>3. mode' \in {"base", "error"} /\ (Len(text) = 1 => mode' = "error")
            <4>1. Len(text) = 1 /\ text[1] = "{" => text[Len(text)] # "}"
                BY Zenon
            <4>. QED BY <2>3, <4>1 DEF Open
        <3>4. \A n \in Nat : n # 0 => n = 1 \/ n >= 2
            OBVIOUS
        <3>5. Len(text) = 1 \/ Len(text) >= 2
            BY <3>1, <3>2, <3>4, Zenon
        <3>6. mode' # "panic" /\ (mode' # "error" => Len(text) >= 2)
            BY <3>3, <3>5, Zenon
        <3>. QED BY <2>1, <3>6 DEF SubtreeInv, FaultsOnlyOnOpenBase, Components
    <2>4. ASSUME NEW c \in Components, NEW field, NEW r, NEW next \in Components \cup {"answer"},
                 Marshal(c, field, r, next),
                 r.fault /\ Found(Raw, "base") =>
                    LET s == After(Raw, "base") IN s[1] = "quote" /\ \A i \in 2..Len(s) : s[i] # "quote",
                 r.fault => c = "base"
          PROVE  SubtreeInv'
        <3>1. Len(text) >= 2
            BY <1>2, <2>4 DEF SubtreeInv, Marshal
        <3>2. mode' = "panic" => Found(Raw, c) /\ r.fault
            BY <2>4 DEF Marshal, Components
        <3>3. mode' = "panic" => /\ Found(Raw, "base")
                                 /\ LET s == After(Raw, "base") IN s[1] = "quote" /\ \A i \in 2..Len(s) : s[i] # "quote"
            BY <2>4, <3>2
        <3>. QED BY <2>1, <2>2, <3>1, <3>3 DEF SubtreeInv, FaultsOnlyOnOpenBase
    <2>5. CASE MarshalBase
        BY <2>4, <2>5, OnlyBaseFaults DEF MarshalBase, Components
    <2>6. CASE MarshalExclusions
        BY <2>4, <2>6, OnlyBaseFaults DEF MarshalExclusions, Components
    <2>7. CASE MarshalMinimum
        BY <2>4, <2>7, OnlyBaseFaults DEF MarshalMinimum, Components
    <2>8. CASE MarshalMaximum
        BY <2>4, <2>8, OnlyBaseFaults DEF MarshalMaximum, Components
    <2>9. CASE MarshalSpecFilter
        BY <2>4, <2>9, OnlyBaseFaults DEF MarshalSpecFilter, Components
    <2>10. CASE Answer
        BY <1>2, <2>1, <2>10 DEF SubtreeInv, FaultsOnlyOnOpenBase, Answer
    <2>11. CASE UNCHANGED subVars
        BY <1>2, <2>2, <2>11 DEF SubtreeInv, FaultsOnlyOnOpenBase, subVars
    <2>. QED BY <1>2, <2>3, <2>5, <2>6, <2>7, <2>8, <2>9, <2>10, <2>11 DEF SubtreeNext
<1>. QED BY <1>1, <1>2, PTL DEF SubtreeSpec

\* NewSubtreeSpecification faults at no text, of any length, but one whose base begins with
\* a quote and has no other.
THEOREM FaultsAreOpenBases == SubtreeSpec => []FaultsOnlyOnOpenBase
<1>1. SubtreeInv => FaultsOnlyOnOpenBase
    BY DEF SubtreeInv
<1>. QED BY <1>1, SubtreeInvHolds, PTL

\* Whatever the text, the other indices that NewSubtreeSpecification, subtreeBase and
\* subtreeExclusions look for and cut at are in range.
THEOREM CutsStayInRange == SubtreeSpec => []CutsInRange
<1>1. SubtreeInv => CutsInRange
    BY CutsOfWords DEF SubtreeInv, CutsInRange
<1>. QED BY <1>1, SubtreeInvHolds, PTL
=============================================================================
