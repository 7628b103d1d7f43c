--------------------------- MODULE SequenceLemmas ---------------------------
(***************************************************************************)
(* Facts the proofs share.  The stacks of the parsers and the parts of a   *)
(* filter are sequences of records that hold sequences, to any depth, so   *)
(* that there is no set to say what they are sequences of: a sequence s is *)
(* typed by s \in Seq(Range(s)).                                           *)
(***************************************************************************)
EXTENDS Naturals, Integers, SequencesExt, Cuts, SequenceTheorems, FiniteSetTheorems,
        WellFoundedInduction, TLAPS

-----------------------------------------------------------------------------
(* Positions                                                               *)

\* A set of positions that is not empty has a first one: the least-number principle,
\* by way of the sets 1..k, among which inclusion is well-founded.
LEMMA FirstPosition ==
    ASSUME NEW n \in Nat, NEW T, T \subseteq 1..n, T # {}
    PROVE  \E x \in T : \A y \in T : x <= y
<1>. DEFINE U == {1..k : k \in T}
            R == StrictSubsetOrdering(1..n)
<1>1. IsWellFoundedOn(R, FiniteSubsetsOf(1..n))
    BY FS_StrictSubsetOrderingWellFounded
<1>2. U \subseteq FiniteSubsetsOf(1..n) /\ U # {}
    <2>1. ASSUME NEW k \in T PROVE 1..k \in FiniteSubsetsOf(1..n)
        <3>1. k \in 1..n
            OBVIOUS
        <3>2. IsFiniteSet(1..k)
            BY <3>1, FS_Interval
        <3>3. 1..k \subseteq 1..n
            BY <3>1
        <3>. QED BY <3>2, <3>3 DEF FiniteSubsetsOf
    <2>. QED BY <2>1
<1>3. PICK u \in U : \A v \in U : <<v, u>> \notin R
    BY <1>1, <1>2, WFMin, Zenon
<1>4. PICK x \in T : u = 1..x
    OBVIOUS
<1>5. ASSUME NEW y \in T, y < x PROVE FALSE
    <2>1. /\ (1..y) \in U /\ 1..y # 1..x /\ 1..y \subseteq 1..x
          /\ 1..x \subseteq 1..n /\ 1..y \subseteq 1..n
        BY <1>5
    <2>2. <<1..y, 1..x>> \in R
        BY <2>1 DEF StrictSubsetOrdering
    <2>. QED BY <2>1, <2>2, <1>3, <1>4
<1>. QED BY <1>5

\* And a last one, which is the first from the other end.
LEMMA LastPosition ==
    ASSUME NEW n \in Nat, NEW T, T \subseteq 1..n, T # {}
    PROVE  \E x \in T : \A y \in T : y <= x
<1>. DEFINE U == {n + 1 - k : k \in T}
<1>1. U \subseteq 1..n /\ U # {}
    <2>1. \A k \in 1..n : n + 1 - k \in 1..n
        OBVIOUS
    <2>. QED BY <2>1
<1>2. PICK u \in U : \A v \in U : u <= v
    <2>. HIDE DEF U
    <2>. QED BY <1>1, FirstPosition
<1>3. PICK x \in T : u = n + 1 - x
    OBVIOUS
<1>4. ASSUME NEW y \in T PROVE y <= x
    BY <1>2, <1>3
<1>. QED BY <1>4

-----------------------------------------------------------------------------
(* Sequences of anything                                                   *)

LEMMA SeqOfItsRange ==
    ASSUME NEW S, NEW s \in Seq(S)
    PROVE  s \in Seq(Range(s))
<1>1. s \in [1..Len(s) -> S] /\ Len(s) \in Nat
    BY LenProperties
<1>2. s \in [1..Len(s) -> Range(s)]
    BY <1>1 DEF Range
<1>. QED BY <1>1, <1>2, SeqDef

LEMMA AppendAny ==
    ASSUME NEW s, s \in Seq(Range(s)), NEW e
    PROVE  /\ Append(s, e) \in Seq(Range(Append(s, e)))
           /\ Len(Append(s, e)) = Len(s) + 1
           /\ DOMAIN Append(s, e) = 1..(Len(s) + 1)
           /\ \A i \in 1..Len(s) : Append(s, e)[i] = s[i]
           /\ Append(s, e)[Len(s) + 1] = e
<1>. DEFINE S == Range(s) \cup {e}
<1>1. s \in Seq(S)
    BY SeqMonotonic
<1>2. Append(s, e) \in Seq(S) /\ Len(s) \in Nat
    BY <1>1, LenProperties
<1>3. Append(s, e) \in Seq(Range(Append(s, e)))
    BY <1>2, SeqOfItsRange
<1>. QED BY <1>1, <1>2, <1>3

LEMMA SingletonAny ==
    ASSUME NEW e
    PROVE  <<e>> \in Seq(Range(<<e>>)) /\ Len(<<e>>) = 1 /\ DOMAIN <<e>> = {1} /\ <<e>>[1] = e
<1>1. <<e>> \in Seq({e})
    OBVIOUS
<1>2. <<e>> \in Seq(Range(<<e>>))
    BY <1>1, SeqOfItsRange
<1>3. Len(<<e>>) = 1 /\ <<e>>[1] = e
    OBVIOUS
<1>4. DOMAIN <<e>> = 1..1
    BY <1>1, <1>3, LenProperties
<1>. QED BY <1>2, <1>3, <1>4

LEMMA EmptyAny == << >> \in Seq(Range(<< >>)) /\ Len(<< >>) = 0 /\ DOMAIN << >> = {}
<1>1. << >> \in Seq({}) /\ Len(<< >>) = 0
    BY EmptySeq
<1>2. DOMAIN << >> = 1..0
    BY <1>1, LenProperties
<1>3. << >> \in Seq(Range(<< >>))
    BY EmptySeq
<1>. QED BY <1>1, <1>2, <1>3

\* Changing one element of a sequence leaves its length and the others alone.
LEMMA ExceptAny ==
    ASSUME NEW s, s \in Seq(Range(s)), NEW k \in DOMAIN s, NEW e
    PROVE  /\ [s EXCEPT ![k] = e] \in Seq(Range([s EXCEPT ![k] = e]))
           /\ Len([s EXCEPT ![k] = e]) = Len(s)
           /\ DOMAIN [s EXCEPT ![k] = e] = DOMAIN s
           /\ \A i \in DOMAIN s : [s EXCEPT ![k] = e][i] = IF i = k THEN e ELSE s[i]
<1>. DEFINE S == Range(s) \cup {e}
<1>1. s \in Seq(S)
    BY SeqMonotonic
<1>2. k \in 1..Len(s)
    BY LenProperties
<1>3. [s EXCEPT ![k] = e] \in Seq(S) /\ Len([s EXCEPT ![k] = e]) = Len(s)
    BY <1>1, <1>2, ExceptSeq
<1>4. [s EXCEPT ![k] = e] \in Seq(Range([s EXCEPT ![k] = e]))
    BY <1>3, SeqOfItsRange
<1>. QED BY <1>3, <1>4, LenProperties

LEMMA FrontAny ==
    ASSUME NEW s, s \in Seq(Range(s)), Len(s) > 1
    PROVE  /\ Front(s) \in Seq(Range(Front(s)))
           /\ Len(Front(s)) = Len(s) - 1
           /\ DOMAIN Front(s) = 1..(Len(s) - 1)
           /\ \A i \in 1..(Len(s) - 1) : Front(s)[i] = s[i]
<1>1. Len(s) \in Nat /\ DOMAIN s = 1..Len(s) /\ \A i \in 1..Len(s) : s[i] \in Range(s)
    BY LenProperties DEF Range
<1>2. /\ Front(s) \in Seq(Range(s))
      /\ Len(Front(s)) = Len(s) - 1
      /\ \A i \in 1..(Len(s) - 1) : Front(s)[i] = s[i]
    <2>1. \A i \in 1..(Len(s) - 1) : s[i] \in Range(s)
        BY <1>1
    <2>. DEFINE f == SubSeq(s, 1, Len(s) - 1)
    <2>2. /\ f \in Seq(Range(s))
          /\ Len(f) = IF 1 <= Len(s) - 1 THEN (Len(s) - 1) - 1 + 1 ELSE 0
          /\ \A i \in 1..((Len(s) - 1) - 1 + 1) : f[i] = s[1 + i - 1]
        BY <1>1, <2>1, SubSeqProperties
    <2>. QED BY <1>1, <2>2 DEF Front
<1>3. DOMAIN Front(s) = 1..(Len(s) - 1)
    BY <1>2, LenProperties
<1>. QED BY <1>2, <1>3, SeqOfItsRange

\* A piece cut out of a sequence.
LEMMA PieceAny ==
    ASSUME NEW S, NEW s \in Seq(S), NEW m \in 1..(Len(s) + 1), NEW n \in 0..Len(s)
    PROVE  /\ SubSeq(s, m, n) \in Seq(S)
           /\ Range(SubSeq(s, m, n)) \subseteq Range(s)
<1>1. Len(s) \in Nat /\ DOMAIN s = 1..Len(s) /\ \A i \in 1..Len(s) : s[i] \in S /\ s[i] \in Range(s)
    BY LenProperties, ElementOfSeq DEF Range
<1>2. m \in Int /\ n \in Int /\ \A i \in m..n : i \in 1..Len(s)
    BY <1>1
<1>3. SubSeq(s, m, n) \in Seq(S)
    <2>1. \A i \in m..n : s[i] \in S
        BY <1>1, <1>2
    <2>. QED BY <1>2, <2>1, SubSeqProperties
<1>4. SubSeq(s, m, n) \in Seq(Range(s))
    <2>1. \A i \in m..n : s[i] \in Range(s)
        BY <1>1, <1>2
    <2>. QED BY <1>2, <2>1, SubSeqProperties
<1>5. Range(SubSeq(s, m, n)) \subseteq Range(s)
    BY <1>4, RangeOfSeq
<1>. QED BY <1>3, <1>5

\* Pieces of a sequence that grows, and pieces that meet.
LEMMA PieceOfAppend ==
    ASSUME NEW S, NEW s \in Seq(S), NEW t \in S, NEW p \in Nat, p >= 1, NEW q \in Int, q <= Len(s)
    PROVE  SubSeq(Append(s, t), p, q) = SubSeq(s, p, q)
<1>. DEFINE a == Append(s, t)
<1>1. Len(s) \in Nat /\ \A i \in 1..Len(s) : s[i] \in S
    BY LenProperties, ElementOfSeq
<1>2. \A i \in 1..Len(s) : a[i] = s[i]
    BY AppendProperties
<1>. HIDE DEF a
<1>3. \A i \in p..q : s[i] \in S /\ a[i] \in S /\ a[i] = s[i]
    <2>1. \A i \in p..q : i \in 1..Len(s)
        BY <1>1
    <2>. QED BY <1>1, <1>2, <2>1
<1>4. p \in Int
    OBVIOUS
<1>5. /\ SubSeq(s, p, q) \in Seq(S)
      /\ Len(SubSeq(s, p, q)) = IF p <= q THEN q - p + 1 ELSE 0
      /\ \A i \in 1..(q - p + 1) : SubSeq(s, p, q)[i] = s[p + i - 1]
    BY <1>3, <1>4, SubSeqProperties
<1>6. /\ SubSeq(a, p, q) \in Seq(S)
      /\ Len(SubSeq(a, p, q)) = IF p <= q THEN q - p + 1 ELSE 0
      /\ \A i \in 1..(q - p + 1) : SubSeq(a, p, q)[i] = a[p + i - 1]
    BY <1>3, <1>4, SubSeqProperties
<1>. DEFINE u == SubSeq(s, p, q)
            v == SubSeq(a, p, q)
<1>7. \A i \in 1..(q - p + 1) : v[i] = u[i]
    <2>1. \A i \in 1..(q - p + 1) : p + i - 1 \in p..q
        OBVIOUS
    <2>. QED BY <1>3, <1>5, <1>6, <2>1
<1>8. Len(v) = Len(u) /\ \A i \in 1..Len(v) : i \in 1..(q - p + 1)
    BY <1>5, <1>6
<1>9. u \in Seq(S) /\ v \in Seq(S)
    BY <1>5, <1>6
<1>. HIDE DEF u, v
<1>10. v = u
    BY <1>7, <1>8, <1>9, SeqEqual
<1>. QED BY <1>10 DEF u, v, a

LEMMA PiecesMeet ==
    ASSUME NEW S, NEW s \in Seq(S), NEW p \in 1..Len(s), NEW m \in p..Len(s), NEW q \in m..Len(s)
    PROVE  (SubSeq(s, p, m - 1) \o <<s[m]>>) \o SubSeq(s, m + 1, q) = SubSeq(s, p, q)
<1>1. Len(s) \in Nat
    BY LenProperties
<1>2. SubSeq(s, p, m) = SubSeq(s, p, m - 1) \o <<s[m]>>
    BY SubSeqRecursiveSecond
<1>3. p \in 1..(Len(s) + 1) /\ m \in (p - 1)..Len(s)
    BY <1>1
<1>4. SubSeq(s, p, m) \o SubSeq(s, m + 1, q) = SubSeq(s, p, q)
    BY <1>3, ConcatAdjacentSubSeq
<1>. QED BY <1>2, <1>4, Zenon

LEMMA PieceBetween ==
    ASSUME NEW S, NEW s \in Seq(S), NEW p \in 1..Len(s), NEW q \in (p + 1)..Len(s)
    PROVE  (<<s[p]>> \o SubSeq(s, p + 1, q - 1)) \o <<s[q]>> = SubSeq(s, p, q)
<1>1. Len(s) \in Nat
    BY LenProperties
<1>2. q - 1 \in p..Len(s) /\ q \in p..Len(s)
    BY <1>1
<1>3. SubSeq(s, p, q - 1) = <<s[p]>> \o SubSeq(s, p + 1, q - 1)
    BY <1>2, SubSeqRecursiveFirst
<1>4. SubSeq(s, p, q) = SubSeq(s, p, q - 1) \o <<s[q]>>
    BY <1>2, SubSeqRecursiveSecond
<1>. QED BY <1>3, <1>4, Zenon

\* A sequence cut where two were joined.
LEMMA CutConcat ==
    ASSUME NEW S, NEW u \in Seq(S), NEW v \in Seq(S)
    PROVE  SubSeq(u \o v, 1, Len(u)) = u /\ SubSeq(u \o v, Len(u) + 1, Len(u \o v)) = v
<1>1. Len(u) \in Nat /\ Len(v) \in Nat /\ Len(u \o v) = Len(u) + Len(v)
    BY LenProperties, ConcatProperties
<1>2. SubSeq(u, 1, Len(u)) = u /\ SubSeq(v, 1, Len(v)) = v
    BY SubSeqFull
<1>3. SubSeq(u \o v, 1, Len(u)) = u
    <2>1. CASE Len(u) = 0
        BY <1>1, <2>1, SubSeqEmpty, EmptySeq
    <2>2. CASE Len(u) # 0
        <3>1. 1 \in 1..Len(u) /\ Len(u) \in 1..Len(u)
            BY <1>1, <2>2
        <3>. QED BY <1>2, <3>1, SubSeqOfConcat1
    <2>. QED BY <2>1, <2>2
<1>4. SubSeq(u \o v, Len(u) + 1, Len(u) + Len(v)) = v
    <2>1. CASE Len(v) = 0
        <3>1. Len(u) + Len(v) < Len(u) + 1 /\ Len(u) + 1 \in Int /\ Len(u) + Len(v) \in Int
            BY <1>1, <2>1
        <3>2. SubSeq(u \o v, Len(u) + 1, Len(u) + Len(v)) = << >>
            BY <3>1, SubSeqEmpty
        <3>. QED BY <2>1, <3>2, EmptySeq
    <2>2. CASE Len(v) # 0
        <3>1. /\ Len(u) + 1 \in (Len(u) + 1)..(Len(u) + Len(v)) /\ Len(u) + Len(v) \in (Len(u) + 1)..(Len(u) + Len(v))
              /\ (Len(u) + 1) - Len(u) = 1 /\ (Len(u) + Len(v)) - Len(u) = Len(v)
            BY <1>1, <2>2
        <3>2. SubSeq(u \o v, Len(u) + 1, Len(u) + Len(v)) = SubSeq(v, (Len(u) + 1) - Len(u), (Len(u) + Len(v)) - Len(u))
            BY <3>1, SubSeqOfConcat2
        <3>. QED BY <1>2, <3>1, <3>2
    <2>. QED BY <2>1, <2>2
<1>. QED BY <1>1, <1>3, <1>4

LEMMA OneToken ==
    ASSUME NEW S, NEW s \in Seq(S), NEW p \in 1..Len(s)
    PROVE  SubSeq(s, p, p) = <<s[p]>>
<1>1. Len(s) \in Nat /\ s[p] \in S
    BY LenProperties, ElementOfSeq
<1>2. p \in p..Len(s) /\ p \in Int /\ p + 1 \in Int /\ p < p + 1
    BY <1>1
<1>3. SubSeq(s, p, p) = <<s[p]>> \o SubSeq(s, p + 1, p)
    BY <1>2, SubSeqRecursiveFirst
<1>4. SubSeq(s, p + 1, p) = << >>
    BY <1>2, SubSeqEmpty
<1>5. <<s[p]>> \in Seq(S)
    BY <1>1
<1>6. <<s[p]>> \o << >> = <<s[p]>>
    BY <1>5, ConcatEmptySeq
<1>. QED BY <1>3, <1>4, <1>6, Zenon

-----------------------------------------------------------------------------
(* Counting                                                                *)

\* How many of the first n elements of s are in S.
CountIn(s, S, n) == Cardinality({i \in 1..n : s[i] \in S})

LEMMA CountStep ==
    ASSUME NEW s, NEW S, NEW n \in Nat
    PROVE  /\ CountIn(s, S, n) \in Nat /\ CountIn(s, S, 0) = 0
           /\ s[n + 1] \in S => CountIn(s, S, n + 1) = CountIn(s, S, n) + 1
           /\ s[n + 1] \notin S => CountIn(s, S, n + 1) = CountIn(s, S, n)
<1>. DEFINE A == {i \in 1..n : s[i] \in S}
            B == {i \in 1..(n + 1) : s[i] \in S}
<1>1. IsFiniteSet(1..n)
    BY FS_Interval
<1>2. IsFiniteSet(A) /\ A \subseteq 1..n
    BY <1>1, FS_Subset
<1>3. B = IF s[n + 1] \in S THEN A \cup {n + 1} ELSE A
    OBVIOUS
<1>4. n + 1 \notin A
    OBVIOUS
<1>. HIDE DEF A, B
<1>5. Cardinality(A) \in Nat
    BY <1>2, FS_CardinalityType
<1>6. Cardinality(A \cup {n + 1}) = Cardinality(A) + 1
    BY <1>2, <1>4, FS_AddElement
<1>7. CountIn(s, S, n) = Cardinality(A) /\ CountIn(s, S, n + 1) = Cardinality(B)
    BY DEF CountIn, A, B
<1>8. CountIn(s, S, 0) = 0
    <2>1. {i \in 1..0 : s[i] \in S} = {}
        OBVIOUS
    <2>. QED BY <2>1, FS_EmptySet DEF CountIn
<1>. QED BY <1>3, <1>5, <1>6, <1>7, <1>8

LEMMA CountSame ==
    ASSUME NEW s, NEW t, NEW S, NEW n \in Nat, \A i \in 1..n : s[i] = t[i]
    PROVE  CountIn(s, S, n) = CountIn(t, S, n)
<1>1. {i \in 1..n : s[i] \in S} = {i \in 1..n : t[i] \in S}
    OBVIOUS
<1>. QED BY <1>1 DEF CountIn

\* What is in both parts of a sequence.
LEMMA CountBefore ==
    ASSUME NEW T, NEW u \in Seq(T), NEW v \in Seq(T), NEW S, NEW m \in 0..Len(u)
    PROVE  CountIn(u \o v, S, m) = CountIn(u, S, m)
<1>. DEFINE w == u \o v
<1>1. Len(u) \in Nat /\ Len(v) \in Nat
    BY LenProperties
<1>2. \A i \in 1..(Len(u) + Len(v)) : w[i] = IF i <= Len(u) THEN u[i] ELSE v[i - Len(u)]
    BY ConcatProperties
<1>3. m \in Nat /\ \A i \in 1..m : i \in 1..(Len(u) + Len(v)) /\ i <= Len(u)
    BY <1>1
<1>. HIDE DEF w
<1>4. \A i \in 1..m : w[i] = u[i]
    BY <1>2, <1>3
<1>. QED BY <1>3, <1>4, CountSame DEF w

LEMMA CountAfter ==
    ASSUME NEW T, NEW u \in Seq(T), NEW v \in Seq(T), NEW S, NEW m \in 0..Len(v)
    PROVE  CountIn(u \o v, S, Len(u) + m) = CountIn(u, S, Len(u)) + CountIn(v, S, m)
<1>. DEFINE w == u \o v
            l == Len(u)
            n == Len(v)
<1>1. l \in Nat /\ n \in Nat
    BY LenProperties
<1>2. \A i \in 1..(l + n) : w[i] = IF i <= l THEN u[i] ELSE v[i - l]
    BY ConcatProperties
<1>3. CountIn(w, S, l) = CountIn(u, S, l)
    <2>1. l \in 0..l
        BY <1>1
    <2>. QED BY <2>1, CountBefore
<1>. HIDE DEF w, l, n
<1>4. ASSUME CountIn(w, S, l + m) # CountIn(u, S, l) + CountIn(v, S, m)
      PROVE  FALSE
    <2>0. m \in 0..n
        BY DEF n
    <2>. DEFINE F == {k \in 1..n : CountIn(w, S, l + k) # CountIn(u, S, l) + CountIn(v, S, k)}
    <2>1. CountIn(w, S, l + 0) = CountIn(u, S, l) + CountIn(v, S, 0)
        <3>1. CountIn(u, S, l) \in Nat /\ CountIn(v, S, 0) = 0
            BY <1>1, CountStep
        <3>. QED BY <1>1, <1>3, <3>1
    <2>2. m \in 1..n
        BY <1>4, <2>0, <2>1
    <2>3. F \subseteq 1..n /\ F # {}
        BY <1>4, <2>2
    <2>4. PICK k \in F : \A y \in F : k <= y
        <3>. HIDE DEF F
        <3>. QED BY <1>1, <2>3, FirstPosition
    <2>5. k \in 1..n /\ k - 1 \in 0..n /\ k \in Nat /\ k - 1 \in Nat /\ l + (k - 1) \in Nat
        BY <1>1
    <2>6. CountIn(w, S, l + (k - 1)) = CountIn(u, S, l) + CountIn(v, S, k - 1)
        <3>1. CASE k = 1
            BY <2>1, <3>1
        <3>2. CASE k # 1
            <4>1. k - 1 \in 1..n /\ ~(k <= k - 1)
                BY <2>5, <3>2
            <4>. QED BY <2>4, <4>1
        <3>. QED BY <3>1, <3>2
    <2>7. CountIn(v, S, k - 1) \in Nat /\ CountIn(u, S, l) \in Nat
        BY <1>1, <2>5, CountStep
    <2>8. (l + (k - 1)) + 1 = l + k /\ (k - 1) + 1 = k /\ (l + k) - l = k /\ l + k \in 1..(l + n) /\ ~(l + k <= l)
        BY <1>1, <2>5
    <2>9. w[l + k] = v[k]
        BY <1>2, <2>8
    <2>10. CountIn(w, S, l + k) = CountIn(u, S, l) + CountIn(v, S, k)
        <3>1. CASE v[k] \in S
            <4>1. CountIn(w, S, (l + (k - 1)) + 1) = CountIn(w, S, l + (k - 1)) + 1
                BY <2>5, <2>8, <2>9, <3>1, CountStep
            <4>2. CountIn(v, S, (k - 1) + 1) = CountIn(v, S, k - 1) + 1
                BY <2>5, <2>8, <3>1, CountStep
            <4>. QED BY <2>6, <2>7, <2>8, <4>1, <4>2
        <3>2. CASE v[k] \notin S
            <4>1. CountIn(w, S, (l + (k - 1)) + 1) = CountIn(w, S, l + (k - 1))
                BY <2>5, <2>8, <2>9, <3>2, CountStep
            <4>2. CountIn(v, S, (k - 1) + 1) = CountIn(v, S, k - 1)
                BY <2>5, <2>8, <3>2, CountStep
            <4>. QED BY <2>6, <2>7, <2>8, <4>1, <4>2
        <3>. QED BY <3>1, <3>2
    <2>. QED BY <2>4, <2>10
<1>. QED BY <1>4 DEF w, l

LEMMA CountNone ==
    ASSUME NEW s, NEW S, NEW n \in Nat, \A i \in 1..n : s[i] \notin S
    PROVE  CountIn(s, S, n) = 0
<1>1. {i \in 1..n : s[i] \in S} = {}
    OBVIOUS
<1>. QED BY <1>1, FS_EmptySet DEF CountIn

\* An element that is alone, and two that are not.
LEMMA CountFew ==
    ASSUME NEW s, NEW S, NEW n \in Nat, NEW k \in 1..n, s[k] \in S
    PROVE  /\ (\A i \in 1..n : s[i] \in S => i = k) => CountIn(s, S, n) = 1
           /\ \A j \in 1..n : s[j] \in S /\ j # k => CountIn(s, S, n) >= 2
<1>. DEFINE A == {i \in 1..n : s[i] \in S}
<1>1. IsFiniteSet(1..n)
    BY FS_Interval
<1>2. IsFiniteSet(A)
    <2>1. A \subseteq 1..n
        OBVIOUS
    <2>. HIDE DEF A
    <2>. QED BY <1>1, <2>1, FS_Subset
<1>3. ASSUME \A i \in 1..n : s[i] \in S => i = k PROVE CountIn(s, S, n) = 1
    <2>1. A = {k}
        BY <1>3
    <2>. QED BY <2>1, FS_Singleton DEF CountIn
<1>4. ASSUME NEW j \in 1..n, s[j] \in S, j # k PROVE CountIn(s, S, n) >= 2
    <2>1. {j, k} \subseteq A
        BY <1>4
    <2>2. IsFiniteSet({k} \cup {j}) /\ Cardinality({k} \cup {j}) = 2
        <3>1. IsFiniteSet({k}) /\ Cardinality({k}) = 1 /\ j \notin {k}
            BY <1>4, FS_Singleton
        <3>. QED BY <3>1, FS_AddElement
    <2>3. {k} \cup {j} \subseteq A
        BY <2>1
    <2>. HIDE DEF A
    <2>4. Cardinality({k} \cup {j}) <= Cardinality(A) /\ Cardinality(A) \in Nat
        BY <1>2, <2>3, FS_Subset, FS_CardinalityType
    <2>5. CountIn(s, S, n) = Cardinality(A)
        BY DEF CountIn, A
    <2>. QED BY <2>2, <2>4, <2>5
<1>. QED BY <1>3, <1>4

-----------------------------------------------------------------------------
(* The elements at some positions                                          *)

LEMMA KthPosition ==
    ASSUME NEW n \in Nat, NEW is, is \subseteq 1..n, NEW j \in 1..Cardinality(is)
    PROVE  \E i \in is : Cardinality({k \in is : k <= i}) = j
<1>. DEFINE Upto(m) == {k \in is : k <= m}
            T == {m \in 1..n : Cardinality(Upto(m)) >= j}
<1>1. ASSUME NEW m \in Nat
      PROVE  IsFiniteSet(Upto(m)) /\ Cardinality(Upto(m)) \in Nat
    <2>1. Upto(m) \subseteq 1..n
        OBVIOUS
    <2>2. IsFiniteSet(1..n)
        BY FS_Interval
    <2>. HIDE DEF Upto
    <2>. QED BY <2>1, <2>2, FS_Subset, FS_CardinalityType
<1>2. n \in T
    <2>1. Upto(n) = is
        <3>1. \A k \in is : k <= n
            OBVIOUS
        <3>. QED BY <3>1, Zenon
    <2>2. n # 0
        <3>1. n = 0 => 1..n = {}
            OBVIOUS
        <3>2. n = 0 => is = {}
            BY <3>1, Zenon
        <3>3. n = 0 => Cardinality(is) = 0
            BY <3>2, FS_EmptySet, Zenon
        <3>. QED BY <3>3
    <2>. QED BY <2>1, <2>2, <1>1
<1>3. PICK m \in T : \A y \in T : m <= y
    <2>1. T \subseteq 1..n /\ T # {}
        BY <1>2
    <2>. HIDE DEF T
    <2>. QED BY <2>1, FirstPosition
<1>4. m \in 1..n /\ Cardinality(Upto(m)) >= j
    OBVIOUS
<1>8. m - 1 \in Nat /\ m \in Nat
    BY <1>4
<1>5. Cardinality(Upto(m - 1)) < j
    <2>1. CASE m = 1
        <3>1. Upto(0) = {}
            <4>1. \A k \in is : ~(k <= 0)
                OBVIOUS
            <4>. QED BY <4>1, Zenon
        <3>. QED BY <2>1, <3>1, FS_EmptySet
    <2>2. CASE m # 1
        <3>1. m - 1 \in 1..n /\ ~(m <= m - 1)
            BY <2>2, <1>4
        <3>3. m - 1 \notin T
            BY <3>1, <1>3, Zenon
        <3>2. Cardinality(Upto(m - 1)) \in Nat
            BY <1>1, <1>8
        <3>4. ~(Cardinality(Upto(m - 1)) >= j)
            BY <3>1, <3>3, Zenon
        <3>. QED BY <3>2, <3>4
    <2>. QED BY <2>1, <2>2
<1>6. CASE m \in is
    <2>1. Upto(m) = Upto(m - 1) \cup {m} /\ m \notin Upto(m - 1)
        <3>1. ~(m <= m - 1) /\ m <= m /\ \A k \in is : k <= m <=> k <= m - 1 \/ k = m
            BY <1>4
        <3>. QED BY <3>1, <1>6, Zenon
    <2>2. Cardinality(Upto(m)) = Cardinality(Upto(m - 1)) + 1
        <3>1. IsFiniteSet(Upto(m - 1))
            BY <1>1, <1>8
        <3>. HIDE DEF Upto
        <3>. QED BY <2>1, <3>1, FS_AddElement
    <2>3. Cardinality(Upto(m - 1)) \in Nat
        BY <1>1, <1>8
    <2>4. Cardinality(Upto(m)) = j
        BY <1>4, <1>5, <2>2, <2>3
    <2>. QED BY <1>6, <2>4, Zenon
<1>7. CASE m \notin is
    <2>1. Upto(m) = Upto(m - 1)
        <3>1. \A k \in is : k # m => (k <= m <=> k <= m - 1)
            BY <1>4
        <3>. QED BY <3>1, <1>7, Zenon
    <2>2. Cardinality(Upto(m - 1)) \in Nat
        BY <1>1, <1>8
    <2>. HIDE DEF Upto
    <2>. QED BY <1>4, <1>5, <2>1, <2>2
<1>. QED BY <1>6, <1>7

LEMMA PickAny ==
    ASSUME NEW S, NEW s \in Seq(S), NEW is, is \subseteq DOMAIN s
    PROVE  Pick(s, is) \in Seq(S)
<1>1. Len(s) \in Nat /\ DOMAIN s = 1..Len(s) /\ \A i \in DOMAIN s : s[i] \in S
    BY LenProperties, ElementOfSeq
<1>2. Cardinality(is) \in Nat
    <2>1. IsFiniteSet(1..Len(s))
        BY <1>1, FS_Interval
    <2>. QED BY <1>1, <2>1, FS_Subset, FS_CardinalityType
<1>3. \A j \in 1..Cardinality(is) : \E i \in is : Cardinality({k \in is : k <= i}) = j
    BY <1>1, KthPosition
<1>4. \A j \in 1..Cardinality(is) :
        s[CHOOSE i \in is : Cardinality({k \in is : k <= i}) = j] \in S
    BY <1>1, <1>3, Zenon
<1>. DEFINE e(j) == s[CHOOSE i \in is : Cardinality({k \in is : k <= i}) = j]
<1>5. Pick(s, is) = [j \in 1..Cardinality(is) |-> e(j)] /\ \A j \in 1..Cardinality(is) : e(j) \in S
    BY <1>4, Zenon DEF Pick
<1>. HIDE DEF e
<1>. QED BY <1>2, <1>5, IsASeq

-----------------------------------------------------------------------------
(* A text is what lies between its separators                              *)

\* at[k] is where the k-th separator of s is, the first of all being in front of s and the
\* last behind it, and what is between two of them is a segment.
CutMarks(c, s, at) ==
    LET m == Passed(c, s, Len(s))
    IN  /\ at \in [0..(m + 1) -> 0..(Len(s) + 1)] /\ at[0] = 0 /\ at[m + 1] = Len(s) + 1
        /\ \A k \in 1..m : at[k] \in 1..Len(s) /\ s[at[k]] = c /\ Passed(c, s, at[k]) = k

CutOut(s, at, k) == SubSeq(s, at[k] + 1, at[k + 1] - 1)

LEMMA PassedGrow ==
    ASSUME NEW c, NEW s, NEW n \in Nat, NEW i \in 0..n
    PROVE  /\ Passed(c, s, i) \in Nat /\ Passed(c, s, n) \in Nat /\ Passed(c, s, i) <= Passed(c, s, n)
           /\ i < n /\ s[n] = c => Passed(c, s, i) < Passed(c, s, n)
<1>. DEFINE A == {k \in 1..i : s[k] = c}
            B == {k \in 1..n : s[k] = c}
<1>1. IsFiniteSet(1..n) /\ A \subseteq B /\ B \subseteq 1..n
    BY FS_Interval
<1>2. IsFiniteSet(B)
    BY <1>1, FS_Subset
<1>3. IsFiniteSet(A) /\ Cardinality(A) <= Cardinality(B)
    BY <1>1, <1>2, FS_Subset
<1>4. Cardinality(A) \in Nat /\ Cardinality(B) \in Nat
    BY <1>2, <1>3, FS_CardinalityType
<1>5. i < n /\ s[n] = c => n \in B /\ n \notin A
    OBVIOUS
<1>6. Passed(c, s, i) = Cardinality(A) /\ Passed(c, s, n) = Cardinality(B)
    BY DEF Passed
<1>. HIDE DEF A, B
<1>7. n \in B /\ n \notin A => Cardinality(A) # Cardinality(B)
    <2>. SUFFICES ASSUME n \in B, n \notin A, Cardinality(A) = Cardinality(B) PROVE FALSE
        OBVIOUS
    <2>1. A \in SUBSET B
        BY <1>1
    <2>2. A = B
        BY <1>2, <2>1, FS_Subset
    <2>. QED BY <2>2
<1>. QED BY <1>3, <1>4, <1>5, <1>6, <1>7

LEMMA MarksExist ==
    ASSUME NEW S, NEW c, NEW s \in Seq(S)
    PROVE  \E at : CutMarks(c, s, at)
<1>. DEFINE n == Len(s)
            m == Passed(c, s, n)
            is == {i \in 1..n : s[i] = c}
            Here(i, k) == Cardinality({j \in is : j <= i}) = k
            at == [k \in 0..(m + 1) |-> IF k = 0 THEN 0 ELSE IF k = m + 1 THEN n + 1
                                        ELSE CHOOSE i \in is : Here(i, k)]
<1>1. n \in Nat
    BY LenProperties
<1>2. m \in Nat /\ m = Cardinality(is)
    <2>1. n \in 0..n
        BY <1>1
    <2>. QED BY <1>1, <2>1, PassedGrow DEF Passed
<1>2a. \A k \in 1..Cardinality(is) : \E i \in is : Cardinality({j \in is : j <= i}) = k
    <2>1. is \subseteq 1..n
        OBVIOUS
    <2>. HIDE DEF is, n, m, at, Here
    <2>. QED BY <1>1, <2>1, KthPosition
<1>3. ASSUME NEW k \in 1..m
      PROVE  /\ at[k] = CHOOSE i \in is : Here(i, k)
             /\ (CHOOSE i \in is : Here(i, k)) \in is /\ Here(CHOOSE i \in is : Here(i, k), k)
    <2>2. \E i \in is : Here(i, k)
        <3>1. \E i \in is : Cardinality({j \in is : j <= i}) = k
            <4>. HIDE DEF is, n, m, at, Here
            <4>. QED BY <1>2, <1>2a
        <3>. QED BY <3>1
    <2>3. k \in 0..(m + 1) /\ k # 0 /\ k # m + 1
        BY <1>2
    <2>4. at[k] = CHOOSE i \in is : Here(i, k)
        <3>. HIDE DEF Here, is
        <3>. QED BY <2>3
    <2>5. (CHOOSE i \in is : Here(i, k)) \in is /\ Here(CHOOSE i \in is : Here(i, k), k)
        <3>. HIDE DEF Here, is
        <3>. QED BY <2>2
    <2>. QED BY <2>4, <2>5
<1>4. ASSUME NEW k \in 1..m
      PROVE  at[k] \in 1..n /\ s[at[k]] = c /\ Passed(c, s, at[k]) = k
    <2>. DEFINE i == at[k]
    <2>1. i \in is /\ Here(i, k)
        <3>. HIDE DEF is, Here, at
        <3>. QED BY <1>3, Zenon
    <2>. HIDE DEF at, i
    <2>2. i \in 1..n /\ s[i] = c
        BY <2>1
    <2>3. {j \in is : j <= i} = {j \in 1..i : s[j] = c}
        BY <1>1, <2>2
    <2>4. Passed(c, s, i) = k
        BY <2>1, <2>3 DEF Passed
    <2>. QED BY <2>2, <2>4 DEF i
<1>5. at[0] = 0 /\ at[m + 1] = n + 1
    BY <1>2
<1>6. at \in [0..(m + 1) -> 0..(n + 1)]
    <2>1. \A k \in 0..(m + 1) : k = 0 \/ k = m + 1 \/ k \in 1..m
        BY <1>2
    <2>2. \A k \in 0..(m + 1) : at[k] \in 0..(n + 1)
        <3>. HIDE DEF at
        <3>. QED BY <1>1, <1>4, <1>5, <2>1
    <2>3. at = [k \in 0..(m + 1) |-> at[k]]
        OBVIOUS
    <2>. HIDE DEF at
    <2>. QED BY <2>2, <2>3
<1>. HIDE DEF at, m
<1>7. CutMarks(c, s, at)
    BY <1>4, <1>5, <1>6 DEF CutMarks, m
<1>. QED BY <1>7

LEMMA MarksType ==
    ASSUME NEW S, NEW c, NEW s \in Seq(S), NEW at, CutMarks(c, s, at), NEW k \in 0..Passed(c, s, Len(s))
    PROVE  /\ Len(s) \in Nat /\ Passed(c, s, Len(s)) \in Nat
           /\ at[k] \in 0..Len(s) /\ at[k + 1] \in 1..(Len(s) + 1) /\ at[k] < at[k + 1]
           /\ Passed(c, s, at[k]) = k
           /\ k < Passed(c, s, Len(s)) => at[k + 1] \in 1..Len(s) /\ s[at[k + 1]] = c /\ Passed(c, s, at[k + 1]) = k + 1
           /\ k = Passed(c, s, Len(s)) => at[k + 1] = Len(s) + 1
<1>. DEFINE n == Len(s)
            m == Passed(c, s, n)
<1>1. n \in Nat
    BY LenProperties
<1>2. n \in 0..n /\ 0 \in 0..n /\ n \in Nat
    BY <1>1
<1>3. m \in Nat /\ Passed(c, s, 0) \in Nat
    BY <1>2, PassedGrow
<1>4. Passed(c, s, 0) = 0
    <2>1. {i \in 1..0 : s[i] = c} = {}
        OBVIOUS
    <2>. QED BY <2>1, FS_EmptySet DEF Passed
<1>. HIDE DEF n, m
<1>5. /\ at[0] = 0 /\ at[m + 1] = n + 1
      /\ \A j \in 1..m : at[j] \in 1..n /\ s[at[j]] = c /\ Passed(c, s, at[j]) = j
    BY DEF CutMarks, n, m
<1>6. k \in 0..m
    BY DEF n, m
<1>7. k = 0 \/ k \in 1..m
    BY <1>3, <1>6
<1>8. at[k] \in 0..n /\ Passed(c, s, at[k]) = k
    BY <1>1, <1>4, <1>5, <1>7
<1>9. k < m => k + 1 \in 1..m
    BY <1>3, <1>6
<1>10. k = m \/ k < m
    BY <1>3, <1>6
<1>11. k < m => at[k + 1] \in 1..n /\ s[at[k + 1]] = c /\ Passed(c, s, at[k + 1]) = k + 1
    BY <1>5, <1>9
<1>12. at[k + 1] \in 1..(n + 1)
    BY <1>1, <1>5, <1>10, <1>11
<1>13. at[k] < at[k + 1]
    <2>1. CASE k = m
        BY <1>1, <1>5, <1>8, <2>1
    <2>2. CASE k < m
        <3>. SUFFICES ASSUME ~(at[k] < at[k + 1]) PROVE FALSE
            OBVIOUS
        <3>1. at[k] \in Nat /\ at[k + 1] \in 0..at[k]
            BY <1>1, <1>8, <1>12
        <3>2. Passed(c, s, at[k + 1]) <= Passed(c, s, at[k])
            BY <3>1, PassedGrow
        <3>. QED BY <1>3, <1>6, <1>8, <1>11, <2>2, <3>2
    <2>. QED BY <1>10, <2>1, <2>2
<1>. QED BY <1>1, <1>3, <1>5, <1>8, <1>11, <1>12, <1>13 DEF n, m

\* The positions in between are those of the segment.
LEMMA InsidePositions ==
    ASSUME NEW S, NEW c, NEW s \in Seq(S), NEW at, CutMarks(c, s, at), NEW k \in 0..Passed(c, s, Len(s))
    PROVE  {i \in 1..Len(s) : s[i] # c /\ Passed(c, s, i) = k} = (at[k] + 1)..(at[k + 1] - 1)
<1>. DEFINE n == Len(s)
            m == Passed(c, s, n)
            a == at[k]
            b == at[k + 1]
<1>1. /\ n \in Nat /\ m \in Nat /\ a \in 0..n /\ b \in 1..(n + 1) /\ a < b /\ Passed(c, s, a) = k
      /\ k < m => b \in 1..n /\ s[b] = c /\ Passed(c, s, b) = k + 1
      /\ k = m => b = n + 1
    BY MarksType
<1>2. a = 0 \/ s[a] = c
    <2>1. at[0] = 0 /\ \A j \in 1..m : s[at[j]] = c
        BY DEF CutMarks
    <2>2. k = 0 \/ k \in 1..m
        BY <1>1
    <2>. QED BY <2>1, <2>2
<1>0. k \in Nat /\ k <= m /\ (k = m \/ k < m)
    BY <1>1
<1>. HIDE DEF n, m, a, b
<1>3. ASSUME NEW i \in 1..n, s[i] # c, Passed(c, s, i) = k PROVE i \in (a + 1)..(b - 1)
    <2>1. ~(i <= a)
        <3>. SUFFICES ASSUME i <= a PROVE FALSE
            OBVIOUS
        <3>1. i < a /\ s[a] = c
            <4>1. a # 0
                BY <1>1, <1>3
            <4>2. s[a] = c /\ i # a
                BY <1>2, <1>3, <4>1
            <4>. QED BY <4>2, <1>1
        <3>2. a \in Nat /\ i \in 0..a
            BY <1>1, <3>1
        <3>3. Passed(c, s, i) < Passed(c, s, a)
            BY <3>1, <3>2, PassedGrow
        <3>. QED BY <1>0, <1>1, <1>3, <3>3
    <2>2. ~(b <= i)
        <3>. SUFFICES ASSUME b <= i PROVE FALSE
            OBVIOUS
        <3>1. k < m
            BY <1>0, <1>1
        <3>2. i \in Nat /\ b \in 0..i
            BY <1>1
        <3>3. Passed(c, s, b) <= Passed(c, s, i)
            BY <3>2, PassedGrow
        <3>. QED BY <1>0, <1>1, <1>3, <3>1, <3>3
    <2>. QED BY <1>1, <2>1, <2>2
<1>4. ASSUME NEW i \in (a + 1)..(b - 1) PROVE i \in 1..n /\ s[i] # c /\ Passed(c, s, i) = k
    <2>1. i \in 1..n /\ i \in Nat /\ a \in 0..i /\ a < i /\ b \in Nat /\ i \in 0..b /\ i < b /\ i \in 0..n
        BY <1>1
    <2>2. Passed(c, s, i) \in Nat /\ k <= Passed(c, s, i) /\ (s[i] = c => k < Passed(c, s, i))
        BY <1>1, <2>1, PassedGrow
    <2>3. Passed(c, s, i) <= k
        <3>1. CASE k = m
            BY <1>1, <2>1, <3>1, PassedGrow DEF m
        <3>2. CASE k < m
            <4>1. Passed(c, s, i) < Passed(c, s, b)
                BY <1>1, <2>1, <3>2, PassedGrow
            <4>. QED BY <1>0, <1>1, <2>2, <3>2, <4>1
        <3>. QED BY <1>0, <3>1, <3>2
    <2>4. Passed(c, s, i) = k
        BY <1>0, <2>2, <2>3
    <2>5. ~(k < Passed(c, s, i))
        BY <1>0, <2>4
    <2>. QED BY <2>1, <2>2, <2>4, <2>5
<1>5. {i \in 1..n : s[i] # c /\ Passed(c, s, i) = k} = (a + 1)..(b - 1)
    BY <1>3, <1>4, Zenon
<1>. QED BY <1>5 DEF n, a, b

LEMMA PickInterval ==
    ASSUME NEW S, NEW s \in Seq(S), NEW a \in 1..(Len(s) + 1), NEW b \in 0..Len(s), a <= b + 1
    PROVE  Pick(s, a..b) = SubSeq(s, a, b)
<1>1. Len(s) \in Nat /\ a \in Int /\ b \in Int /\ DOMAIN s = 1..Len(s)
    BY LenProperties
<1>2. Cardinality(a..b) = b - a + 1 /\ b - a + 1 \in Nat
    <2>1. Cardinality(a..b) = IF a > b THEN 0 ELSE b - a + 1
        BY <1>1, FS_Interval
    <2>2. b - a + 1 \in Nat /\ (a > b => b - a + 1 = 0)
        BY <1>1
    <2>. QED BY <2>1, <2>2
<1>3. ASSUME NEW j \in 1..(b - a + 1), NEW i \in a..b
      PROVE  Cardinality({k \in a..b : k <= i}) = j <=> i = a + j - 1
    <2>1. {k \in a..b : k <= i} = a..i
        BY <1>1
    <2>2. i \in Int /\ ~(a > i)
        BY <1>1
    <2>3. Cardinality(a..i) = IF a > i THEN 0 ELSE i - a + 1
        BY <1>1, <2>2, FS_Interval
    <2>4. i - a + 1 = j <=> i = a + j - 1
        BY <1>1, <2>2
    <2>5. ~(a > i)
        BY <1>1, <2>2
    <2>. QED BY <2>1, <2>3, <2>4, <2>5
<1>. DEFINE c(j) == CHOOSE i \in a..b : Cardinality({k \in a..b : k <= i}) = j
<1>4. ASSUME NEW j \in 1..(b - a + 1) PROVE c(j) = a + j - 1
    <2>1. a + j - 1 \in a..b
        BY <1>1
    <2>. QED BY <1>3, <2>1
<1>5. Pick(s, a..b) = [j \in 1..(b - a + 1) |-> s[c(j)]]
    BY <1>2 DEF Pick
<1>. HIDE DEF c
<1>6. Pick(s, a..b) = [j \in 1..(b - a + 1) |-> s[a + j - 1]]
    BY <1>4, <1>5
<1>7. \A i \in a..b : s[i] \in S
    <2>1. \A i \in a..b : i \in 1..Len(s)
        BY <1>1
    <2>. QED BY <2>1, ElementOfSeq
<1>8. /\ SubSeq(s, a, b) \in Seq(S)
      /\ Len(SubSeq(s, a, b)) = IF a <= b THEN b - a + 1 ELSE 0
      /\ \A i \in 1..(b - a + 1) : SubSeq(s, a, b)[i] = s[a + i - 1]
    BY <1>1, <1>7, SubSeqProperties
<1>9. Len(SubSeq(s, a, b)) = b - a + 1
    BY <1>1, <1>8
<1>. DEFINE p == [j \in 1..(b - a + 1) |-> s[a + j - 1]]
<1>10. p \in Seq(S)
    <2>1. \A j \in 1..(b - a + 1) : s[a + j - 1] \in S
        <3>1. \A j \in 1..(b - a + 1) : a + j - 1 \in a..b
            BY <1>1
        <3>. QED BY <1>7, <3>1
    <2>. QED BY <1>2, <2>1, IsASeq
<1>11. Len(p) = b - a + 1 /\ \A j \in 1..(b - a + 1) : p[j] = s[a + j - 1]
    BY <1>2
<1>. HIDE DEF p
<1>12. p = SubSeq(s, a, b)
    BY <1>8, <1>9, <1>10, <1>11, SeqEqual
<1>. QED BY <1>6, <1>12 DEF p

LEMMA CutIsInside ==
    ASSUME NEW S, NEW c, NEW s \in Seq(S), NEW at, CutMarks(c, s, at), NEW k \in 0..Passed(c, s, Len(s))
    PROVE  CutAt(c, s, k) = CutOut(s, at, k) /\ CutOut(s, at, k) \in Seq(S)
           /\ Len(CutOut(s, at, k)) = at[k + 1] - at[k] - 1
<1>. DEFINE a == at[k] + 1
            b == at[k + 1] - 1
<1>1. Len(s) \in Nat /\ at[k] \in 0..Len(s) /\ at[k + 1] \in 1..(Len(s) + 1) /\ at[k] < at[k + 1]
    BY MarksType
<1>2. a \in 1..(Len(s) + 1) /\ b \in 0..Len(s) /\ a <= b + 1
    BY <1>1
<1>3. DOMAIN s = 1..Len(s)
    BY LenProperties
<1>4. {i \in DOMAIN s : s[i] # c /\ Passed(c, s, i) = k} = a..b
    BY <1>3, InsidePositions
<1>5. \A i \in a..b : s[i] \in S
    <2>1. \A i \in a..b : i \in 1..Len(s)
        BY <1>1
    <2>. QED BY <2>1, ElementOfSeq
<1>6. a \in Int /\ b \in Int
    BY <1>2
<1>7. Len(SubSeq(s, a, b)) = IF a <= b THEN b - a + 1 ELSE 0
    <2>. HIDE DEF a, b
    <2>. QED BY <1>5, <1>6, SubSeqProperties, SMTT(30)
<1>8. Len(SubSeq(s, a, b)) = at[k + 1] - at[k] - 1
    BY <1>1, <1>7, SMTT(30)
<1>. HIDE DEF a, b
<1>9. CutAt(c, s, k) = SubSeq(s, a, b) /\ SubSeq(s, a, b) \in Seq(S)
    BY <1>2, <1>4, PickInterval, PieceAny DEF CutAt
<1>. QED BY <1>8, <1>9 DEF CutOut, a, b

\* The list of what lies between the separators.
LEMMA CutByType ==
    ASSUME NEW S, NEW c, NEW s \in Seq(S)
    PROVE  /\ CutBy(c, s) \in Seq(Seq(S)) /\ Passed(c, s, Len(s)) \in Nat
           /\ Len(CutBy(c, s)) = Passed(c, s, Len(s)) + 1
           /\ \A k \in 1..(Passed(c, s, Len(s)) + 1) : CutBy(c, s)[k] = CutAt(c, s, k - 1)
<1>. DEFINE m == Passed(c, s, Len(s))
            q == CutBy(c, s)
<1>1. m \in Nat
    <2>1. Len(s) \in Nat /\ Len(s) \in 0..Len(s)
        BY LenProperties
    <2>. QED BY <2>1, PassedGrow
<1>2. PICK at : CutMarks(c, s, at)
    BY MarksExist
<1>3. \A k \in 0..m : CutAt(c, s, k) \in Seq(S)
    BY <1>2, CutIsInside
<1>4. q = [k \in 1..(m + 1) |-> CutAt(c, s, k - 1)]
    BY DEF CutBy
<1>. HIDE DEF m, q
<1>5. \A k \in 1..(m + 1) : CutAt(c, s, k - 1) \in Seq(S)
    <2>1. \A k \in 1..(m + 1) : k - 1 \in 0..m
        BY <1>1
    <2>. QED BY <1>3, <2>1
<1>6. m + 1 \in Nat
    BY <1>1
<1>7. q \in Seq(Seq(S))
    BY <1>4, <1>5, <1>6, IsASeq
<1>8. DOMAIN q = 1..(m + 1) /\ \A k \in 1..(m + 1) : q[k] = CutAt(c, s, k - 1)
    BY <1>4
<1>9. Len(q) = m + 1
    BY <1>6, <1>7, <1>8, LenProperties
<1>. QED BY <1>1, <1>7, <1>8, <1>9 DEF m, q

-----------------------------------------------------------------------------
(* Joining                                                                 *)

\* A sequence of sequences is flattened to what its initial pieces come to.
LEMMA FlattenIs ==
    ASSUME NEW S, NEW q \in Seq(S), Len(q) > 0, NEW G, G[1] = q[1],
           \A i \in 2..Len(q) : G[i] = G[i - 1] \o q[i]
    PROVE  FlattenSeq(q) = G[Len(q)]
<1>. DEFINE n == Len(q)
            P(f) == f = [i \in 1..n |-> IF i = 1 THEN q[i] ELSE f[i - 1] \o q[i]]
            F == CHOOSE f : P(f)
            H == [i \in 1..n |-> G[i]]
<1>1. n \in Nat /\ n # 0
    BY LenProperties
<1>2. FlattenSeq(q) = F[n]
    BY <1>1 DEF FlattenSeq
<1>3. P(H)
    <2>1. ASSUME NEW i \in 1..n PROVE H[i] = IF i = 1 THEN q[i] ELSE H[i - 1] \o q[i]
        <3>1. CASE i = 1
            BY <3>1
        <3>2. CASE i # 1
            <4>1. i \in 2..n /\ i - 1 \in 1..n
                BY <1>1, <3>2
            <4>2. G[i] = G[i - 1] \o q[i] /\ H[i] = G[i] /\ H[i - 1] = G[i - 1]
                BY <4>1
            <4>. HIDE DEF H
            <4>. QED BY <3>2, <4>2
        <3>. QED BY <3>1, <3>2
    <2>2. H = [i \in 1..n |-> H[i]]
        OBVIOUS
    <2>. HIDE DEF H, n
    <2>3. H = [i \in 1..n |-> IF i = 1 THEN q[i] ELSE H[i - 1] \o q[i]]
        BY <2>1, <2>2
    <2>. QED BY <2>3
<1>4. P(F)
    <2>. HIDE DEF P
    <2>. QED BY <1>3
<1>. HIDE DEF F, n
<1>5. ASSUME NEW i \in 1..n, F[i] # H[i] PROVE FALSE
    <2>. DEFINE T == {j \in 1..n : F[j] # H[j]}
    <2>1. T \subseteq 1..n /\ T # {}
        BY <1>5
    <2>2. PICK j \in T : \A y \in T : j <= y
        <3>. HIDE DEF T
        <3>. QED BY <1>1, <2>1, FirstPosition
    <2>. HIDE DEF H
    <2>3. /\ F[j] = IF j = 1 THEN q[j] ELSE F[j - 1] \o q[j]
          /\ H[j] = IF j = 1 THEN q[j] ELSE H[j - 1] \o q[j]
        <3>1. j \in 1..n
            OBVIOUS
        <3>. QED BY <1>3, <1>4, <3>1
    <2>4. j # 1 => F[j - 1] = H[j - 1]
        <3>1. j # 1 => j - 1 \in 1..n /\ ~(j <= j - 1)
            BY <1>1
        <3>. QED BY <2>2, <3>1, Zenon
    <2>. QED BY <2>3, <2>4
<1>6. n \in 1..n
    BY <1>1
<1>7. F[n] = H[n]
    BY <1>5, <1>6
<1>. QED BY <1>2, <1>6, <1>7 DEF n

-----------------------------------------------------------------------------
(* Texts joined and cut again                                              *)

\* A sequence of sequences is flattened step by step.
LEMMA FlattenSteps ==
    ASSUME NEW S, NEW q \in Seq(Seq(S)), Len(q) > 0
    PROVE  \E G \in [1..Len(q) -> Seq(S)] : /\ G[1] = q[1] /\ FlattenSeq(q) = G[Len(q)]
                                            /\ \A i \in 2..Len(q) : G[i] = G[i - 1] \o q[i]
<1>. DEFINE n == Len(q)
            Builds(g, k) == g \in [1..k -> Seq(S)] /\ g[1] = q[1] /\ \A i \in 2..k : g[i] = g[i - 1] \o q[i]
            T == {k \in 1..n : ~\E g : Builds(g, k)}
<1>1. n \in Nat /\ n \in 1..n /\ 1 \in 1..n /\ \A i \in 1..n : q[i] \in Seq(S)
    BY LenProperties, ElementOfSeq
<1>. HIDE DEF n
<1>2. ASSUME T # {} PROVE FALSE
    <2>1. T \subseteq 1..n
        OBVIOUS
    <2>2. PICK k \in T : \A y \in T : k <= y
        <3>. HIDE DEF T
        <3>. QED BY <1>1, <1>2, <2>1, FirstPosition
    <2>3. k \in 1..n /\ \A g : ~Builds(g, k)
        <3>. HIDE DEF Builds
        <3>. QED OBVIOUS
    <2>4. CASE k = 1
        <3>. DEFINE g == [i \in 1..1 |-> q[1]]
        <3>1. Builds(g, 1)
            BY <1>1
        <3>. QED BY <2>3, <2>4, <3>1, Zenon
    <2>5. CASE k # 1
        <3>1. k - 1 \in 1..n /\ ~(k <= k - 1) /\ k \in 2..n /\ 1 \in 1..(k - 1)
            BY <1>1, <2>3, <2>5
        <3>2. PICK h : Builds(h, k - 1)
            <4>1. k - 1 \notin T
                <5>. HIDE DEF T
                <5>. QED BY <2>2, <3>1
            <4>. HIDE DEF Builds
            <4>. QED BY <3>1, <4>1
        <3>. DEFINE g == [i \in 1..k |-> IF i = k THEN h[k - 1] \o q[k] ELSE h[i]]
        <3>3. h[k - 1] \o q[k] \in Seq(S)
            <4>1. h[k - 1] \in Seq(S) /\ q[k] \in Seq(S)
                BY <1>1, <3>1, <3>2
            <4>. QED BY <4>1, ConcatProperties
        <3>4. g \in [1..k -> Seq(S)]
            <4>1. \A i \in 1..k : i = k \/ i \in 1..(k - 1)
                BY <3>1
            <4>2. \A i \in 1..(k - 1) : h[i] \in Seq(S)
                BY <3>2
            <4>. QED BY <3>3, <4>1, <4>2
        <3>5. g[1] = q[1]
            BY <2>5, <3>1, <3>2
        <3>6. ASSUME NEW i \in 2..k PROVE g[i] = g[i - 1] \o q[i]
            <4>1. i \in 1..k /\ i - 1 \in 1..k /\ i - 1 # k /\ (i # k => i \in 2..(k - 1))
                BY <3>1
            <4>2. g[i - 1] = h[i - 1] /\ g[i] = IF i = k THEN h[k - 1] \o q[k] ELSE h[i]
                BY <4>1
            <4>3. i # k => h[i] = h[i - 1] \o q[i]
                BY <3>2, <4>1
            <4>. HIDE DEF g
            <4>. QED BY <4>2, <4>3
        <3>7. Builds(g, k)
            <4>. HIDE DEF g
            <4>. QED BY <3>4, <3>5, <3>6
        <3>. QED BY <2>3, <3>7, Zenon
    <2>. QED BY <2>4, <2>5
<1>3. PICK G : Builds(G, n)
    <2>1. n \notin T
        BY <1>2, Zenon
    <2>. HIDE DEF Builds
    <2>. QED BY <1>1, <2>1
<1>4. FlattenSeq(q) = G[n]
    BY <1>3, FlattenIs DEF n
<1>. QED BY <1>3, <1>4 DEF n

LEMMA PassedOver ==
    ASSUME NEW c, NEW s, NEW p \in Nat, NEW q \in Nat, p <= q, \A i \in (p + 1)..q : s[i] # c
    PROVE  Passed(c, s, q) = Passed(c, s, p)
<1>1. {i \in 1..q : s[i] = c} = {i \in 1..p : s[i] = c}
    OBVIOUS
<1>. QED BY <1>1 DEF Passed

LEMMA PassedNext ==
    ASSUME NEW c, NEW s, NEW p \in Nat, s[p + 1] = c
    PROVE  Passed(c, s, p + 1) = Passed(c, s, p) + 1
<1>1. s[p + 1] \in {c}
    OBVIOUS
<1>2. \A n : Passed(c, s, n) = CountIn(s, {c}, n)
    BY DEF Passed, CountIn
<1>. QED BY <1>1, <1>2, CountStep

\* Where the texts of a list begin when they are joined: st[k] is the position in front of
\* the k-th, which is that of the separator but for the first.
Placing(c, ss, n, B, st) ==
    /\ st \in [1..n -> 0..Len(B)] /\ st[1] = 0
    /\ \A k \in 1..n : /\ st[k] + Len(ss[k]) <= Len(B)
                       /\ \A i \in 1..Len(ss[k]) : B[st[k] + i] = ss[k][i]
    /\ \A k \in 2..n : st[k] = st[k - 1] + Len(ss[k - 1]) + 1 /\ B[st[k]] = c
    /\ Len(B) = st[n] + Len(ss[n])
    /\ \A p \in 1..Len(B) : \E k \in 1..n : p \in st[k]..(st[k] + Len(ss[k]))

\* One more text behind others.
LEMMA PlacingNext ==
    ASSUME NEW S, NEW c \in S, NEW ss \in Seq(Seq(S)), NEW n \in 1..(Len(ss) - 1),
           NEW B \in Seq(S), NEW st, Placing(c, ss, n, B, st)
    PROVE  /\ B \o (<<c>> \o ss[n + 1]) \in Seq(S)
           /\ \E st2 : Placing(c, ss, n + 1, B \o (<<c>> \o ss[n + 1]), st2)
<1>. DEFINE t == ss[n + 1]
            l == Len(B)
            m == Len(t)
            B2 == B \o (<<c>> \o t)
            st2 == [k \in 1..(n + 1) |-> IF k = n + 1 THEN l + 1 ELSE st[k]]
<1>1. Len(ss) \in Nat /\ n \in Nat /\ n \in 1..n /\ n >= 1 /\ n + 1 \in 1..Len(ss) /\ \A k \in 1..n : k \in 1..Len(ss)
    BY LenProperties
<1>2. t \in Seq(S) /\ \A k \in 1..(n + 1) : ss[k] \in Seq(S)
    <2>1. \A k \in 1..Len(ss) : ss[k] \in Seq(S)
        BY ElementOfSeq
    <2>2. \A k \in 1..(n + 1) : k \in 1..Len(ss)
        BY <1>1
    <2>. QED BY <1>1, <2>1, <2>2
<1>3. l \in Nat /\ m \in Nat /\ \A k \in 1..(n + 1) : Len(ss[k]) \in Nat
    BY <1>2, LenProperties
<1>. HIDE DEF t
<1>4. /\ <<c>> \o t \in Seq(S) /\ Len(<<c>> \o t) = 1 + m
      /\ (<<c>> \o t)[1] = c /\ \A i \in 1..m : (<<c>> \o t)[1 + i] = t[i]
    <2>. DEFINE u == <<c>> \o t
    <2>1. <<c>> \in Seq(S) /\ Len(<<c>>) = 1 /\ <<c>>[1] = c
        OBVIOUS
    <2>2. u \in Seq(S) /\ Len(u) = 1 + m /\ \A i \in 1..(1 + m) : u[i] = IF i <= 1 THEN <<c>>[i] ELSE t[i - 1]
        BY <1>2, <2>1, ConcatProperties
    <2>. HIDE DEF u
    <2>3. u[1] = c
        BY <1>3, <2>1, <2>2
    <2>4. ASSUME NEW i \in 1..m PROVE u[1 + i] = t[i]
        <3>1. 1 + i \in 1..(1 + m) /\ ~(1 + i <= 1) /\ (1 + i) - 1 = i
            BY <1>3
        <3>. QED BY <2>2, <3>1
    <2>. QED BY <2>2, <2>3, <2>4 DEF u
<1>5. /\ B2 \in Seq(S) /\ Len(B2) = l + (1 + m)
      /\ \A i \in 1..l : B2[i] = B[i]
      /\ \A i \in 1..(1 + m) : B2[l + i] = (<<c>> \o t)[i]
    <2>. DEFINE u == <<c>> \o t
    <2>1. u \in Seq(S) /\ Len(u) = 1 + m
        BY <1>4
    <2>. HIDE DEF u, l, m
    <2>2. B \o u \in Seq(S) /\ Len(B \o u) = l + (1 + m)
          /\ \A i \in 1..(l + (1 + m)) : (B \o u)[i] = IF i <= l THEN B[i] ELSE u[i - l]
        BY <2>1, ConcatProperties DEF l
    <2>. DEFINE w == B \o u
    <2>. HIDE DEF w
    <2>3. w \in Seq(S) /\ Len(w) = l + (1 + m) /\ \A i \in 1..(l + (1 + m)) : w[i] = IF i <= l THEN B[i] ELSE u[i - l]
        BY <2>2 DEF w
    <2>4. ASSUME NEW i \in 1..l PROVE w[i] = B[i]
        <3>1. i \in 1..(l + (1 + m)) /\ i <= l
            BY <1>3
        <3>. QED BY <2>3, <3>1
    <2>5. ASSUME NEW i \in 1..(1 + m) PROVE w[l + i] = u[i]
        <3>1. l + i \in 1..(l + (1 + m)) /\ ~(l + i <= l) /\ (l + i) - l = i
            BY <1>3
        <3>. QED BY <2>3, <3>1
    <2>. QED BY <2>3, <2>4, <2>5 DEF w, u, l
<1>6. /\ st \in [1..n -> 0..l] /\ st[1] = 0
      /\ \A k \in 1..n : /\ st[k] + Len(ss[k]) <= l
                         /\ \A i \in 1..Len(ss[k]) : B[st[k] + i] = ss[k][i]
      /\ \A k \in 2..n : st[k] = st[k - 1] + Len(ss[k - 1]) + 1 /\ B[st[k]] = c
      /\ l = st[n] + Len(ss[n])
      /\ \A p \in 1..l : \E k \in 1..n : p \in st[k]..(st[k] + Len(ss[k]))
    BY DEF Placing
<1>7. /\ st2[n + 1] = l + 1 /\ \A k \in 1..n : st2[k] = st[k] /\ st2[k] \in 0..l
      /\ st2 \in [1..(n + 1) -> 0..(l + (1 + m))]
    <2>1. \A k \in 1..n : k \in 1..(n + 1) /\ k # n + 1
        BY <1>1
    <2>2. \A k \in 1..(n + 1) : k = n + 1 \/ k \in 1..n
        BY <1>1
    <2>3. n + 1 \in 1..(n + 1) /\ l + 1 \in 0..(l + (1 + m)) /\ \A x \in 0..l : x \in 0..(l + (1 + m))
        BY <1>1, <1>3
    <2>4. \A k \in 1..n : st[k] \in 0..l
        BY <1>6
    <2>. HIDE DEF l, m
    <2>5. \A k \in 1..n : st2[k] = st[k] /\ st2[k] \in 0..l
        BY <2>1, <2>4
    <2>6. st2[n + 1] = l + 1
        BY <2>3
    <2>7. st2 = [k \in 1..(n + 1) |-> st2[k]]
        OBVIOUS
    <2>. HIDE DEF st2
    <2>8. \A k \in 1..(n + 1) : st2[k] \in 0..(l + (1 + m))
        BY <2>2, <2>3, <2>5, <2>6
    <2>. QED BY <2>5, <2>6, <2>7, <2>8
<1>8. m = Len(ss[n + 1]) /\ t = ss[n + 1]
    BY DEF t
<1>. HIDE DEF st2, B2, l, m
<1>9. st2[1] = 0
    BY <1>1, <1>6, <1>7
<1>10. ASSUME NEW k \in 1..n
       PROVE  /\ st2[k] + Len(ss[k]) <= l + (1 + m)
              /\ \A i \in 1..Len(ss[k]) : B2[st2[k] + i] = ss[k][i]
    <2>0. k \in 1..(n + 1)
        BY <1>1
    <2>1. st2[k] = st[k] /\ st[k] \in 0..l /\ st[k] + Len(ss[k]) <= l /\ Len(ss[k]) \in Nat
        <3>1. st2[k] = st[k] /\ st2[k] \in 0..l
            BY <1>7
        <3>2. st[k] + Len(ss[k]) <= l
            BY <1>6
        <3>3. Len(ss[k]) \in Nat
            BY <1>3, <2>0
        <3>. QED BY <3>1, <3>2, <3>3
    <2>2. ASSUME NEW i \in 1..Len(ss[k]) PROVE B2[st2[k] + i] = ss[k][i]
        <3>. DEFINE x == st[k]
                    y == Len(ss[k])
        <3>0. x \in 0..l /\ y \in Nat /\ x + y <= l /\ i \in 1..y
            BY <2>1
        <3>. HIDE DEF x, y
        <3>1. x + i \in 1..l
            BY <1>3, <3>0
        <3>2. B[x + i] = ss[k][i]
            BY <1>6 DEF x
        <3>3. B2[x + i] = B[x + i]
            BY <1>5, <3>1
        <3>4. st2[k] = x
            BY <2>1 DEF x
        <3>. QED BY <3>2, <3>3, <3>4
    <2>3. st2[k] + Len(ss[k]) <= l + (1 + m)
        BY <1>3, <2>1
    <2>. QED BY <2>2, <2>3
<1>11. /\ st2[n + 1] + Len(ss[n + 1]) <= l + (1 + m)
       /\ \A i \in 1..Len(ss[n + 1]) : B2[st2[n + 1] + i] = ss[n + 1][i]
    <2>1. ASSUME NEW i \in 1..m PROVE B2[(l + 1) + i] = t[i]
        <3>1. 1 + i \in 1..(1 + m) /\ l + (1 + i) = (l + 1) + i
            BY <1>3
        <3>2. B2[l + (1 + i)] = (<<c>> \o t)[1 + i]
            BY <1>5, <3>1
        <3>. QED BY <1>4, <3>1, <3>2
    <2>2. (l + 1) + m <= l + (1 + m)
        BY <1>3
    <2>. QED BY <1>7, <1>8, <2>1, <2>2
<1>12. \A k \in 1..(n + 1) : k = n + 1 \/ k \in 1..n
    BY <1>1
<1>13. \A k \in 1..(n + 1) : /\ st2[k] + Len(ss[k]) <= l + (1 + m)
                             /\ \A i \in 1..Len(ss[k]) : B2[st2[k] + i] = ss[k][i]
    BY <1>10, <1>11, <1>12, Zenon
<1>14. ASSUME NEW k \in 2..(n + 1)
       PROVE  st2[k] = st2[k - 1] + Len(ss[k - 1]) + 1 /\ B2[st2[k]] = c
    <2>1. CASE k = n + 1
        <3>1. k - 1 = n
            BY <1>1, <2>1
        <3>2. st2[k] = l + 1 /\ st2[k - 1] = st[n]
            BY <1>1, <1>7, <2>1, <3>1
        <3>3. B2[l + 1] = c
            <4>1. 1 \in 1..(1 + m)
                BY <1>3
            <4>. QED BY <1>4, <1>5, <4>1
        <3>. QED BY <1>6, <3>1, <3>2, <3>3
    <2>2. CASE k # n + 1
        <3>1. k \in 2..n /\ k - 1 \in 1..n /\ k \in 1..n
            BY <1>1, <2>2
        <3>2. st[k] = st[k - 1] + Len(ss[k - 1]) + 1 /\ B[st[k]] = c /\ st2[k] = st[k] /\ st2[k - 1] = st[k - 1]
            BY <1>6, <1>7, <3>1
        <3>3. st[k] \in 1..l
            <4>1. st[k] \in 0..l /\ st[k - 1] \in 0..l
                BY <1>6, <3>1
            <4>2. Len(ss[k - 1]) \in Nat
                BY <1>3, <3>1, <1>1
            <4>. QED BY <1>3, <3>2, <4>1, <4>2
        <3>. QED BY <1>5, <3>2, <3>3
    <2>. QED BY <2>1, <2>2
<1>15. l + (1 + m) = st2[n + 1] + Len(ss[n + 1])
    <2>1. l + (1 + m) = (l + 1) + m
        BY <1>3
    <2>. QED BY <1>7, <1>8, <2>1
<1>16. ASSUME NEW p \in 1..(l + (1 + m))
       PROVE  \E k \in 1..(n + 1) : p \in st2[k]..(st2[k] + Len(ss[k]))
    <2>1. CASE p \in 1..l
        <3>1. PICK k \in 1..n : p \in st[k]..(st[k] + Len(ss[k]))
            BY <1>6, <2>1
        <3>2. k \in 1..(n + 1) /\ st2[k] = st[k]
            BY <1>1, <1>7
        <3>3. p \in st2[k]..(st2[k] + Len(ss[k]))
            BY <3>1, <3>2
        <3>. QED BY <3>2, <3>3, Zenon
    <2>2. CASE p \notin 1..l
        <3>1. n + 1 \in 1..(n + 1) /\ p \in (l + 1)..((l + 1) + m)
            BY <1>1, <1>3, <2>2
        <3>2. p \in st2[n + 1]..(st2[n + 1] + Len(ss[n + 1]))
            BY <1>7, <1>8, <3>1
        <3>. QED BY <3>1, <3>2, Zenon
    <2>. QED BY <2>1, <2>2
<1>17. Placing(c, ss, n + 1, B2, st2)
    BY <1>5, <1>7, <1>9, <1>13, <1>14, <1>15, <1>16, Zenon DEF Placing
<1>. QED BY <1>5, <1>17 DEF B2, t

LEMMA JoinedPlaces ==
    ASSUME NEW S, NEW c \in S, NEW ss \in Seq(Seq(S)), Len(ss) > 0
    PROVE  Joined(c, ss) \in Seq(S) /\ \E st : Placing(c, ss, Len(ss), Joined(c, ss), st)
<1>. DEFINE n == Len(ss)
            q == [k \in DOMAIN ss |-> IF k = 1 THEN ss[k] ELSE <<c>> \o ss[k]]
            e(k) == IF k = 1 THEN ss[k] ELSE <<c>> \o ss[k]
<1>1. n \in Nat /\ n \in 1..n /\ 1 \in 1..n /\ DOMAIN ss = 1..n /\ \A k \in 1..n : ss[k] \in Seq(S)
    BY LenProperties, ElementOfSeq
<1>. HIDE DEF n
<1>2. \A k \in 1..n : e(k) \in Seq(S)
    <2>1. <<c>> \in Seq(S)
        OBVIOUS
    <2>. QED BY <1>1, <2>1, ConcatProperties
<1>3. q = [k \in 1..n |-> e(k)]
    BY <1>1
<1>. HIDE DEF q, e
<1>4. q \in Seq(Seq(S)) /\ DOMAIN q = 1..n /\ \A k \in 1..n : q[k] = e(k)
    BY <1>1, <1>2, <1>3, IsASeq
<1>5. Len(q) = n
    BY <1>1, <1>4, LenProperties
<1>6. Len(q) > 0
    BY <1>5 DEF n
<1>7. PICK G \in [1..n -> Seq(S)] : G[1] = q[1] /\ FlattenSeq(q) = G[n] /\ \A i \in 2..n : G[i] = G[i - 1] \o q[i]
    BY <1>4, <1>5, <1>6, FlattenSteps
<1>8. Joined(c, ss) = G[n]
    BY <1>7 DEF Joined, q
<1>9. G[1] = ss[1] /\ \A i \in 2..n : G[i] = G[i - 1] \o (<<c>> \o ss[i])
    <2>1. \A i \in 2..n : i \in 1..n /\ i # 1
        OBVIOUS
    <2>. QED BY <1>1, <1>4, <1>7, <2>1 DEF e
<1>10. \A k \in 1..n : \E st : Placing(c, ss, k, G[k], st)
    <2>. DEFINE T == {k \in 1..n : ~\E st : Placing(c, ss, k, G[k], st)}
    <2>1. ASSUME T # {} PROVE FALSE
        <3>1. T \subseteq 1..n
            OBVIOUS
        <3>2. PICK k \in T : \A y \in T : k <= y
            <4>. HIDE DEF T
            <4>. QED BY <1>1, <2>1, <3>1, FirstPosition
        <3>3. k \in 1..n /\ \A st : ~Placing(c, ss, k, G[k], st)
            OBVIOUS
        <3>4. CASE k = 1
            <4>. DEFINE st == [i \in 1..1 |-> 0]
            <4>1. ss[1] \in Seq(S) /\ Len(ss[1]) \in Nat
                BY <1>1, LenProperties
            <4>2. Placing(c, ss, 1, ss[1], st)
                BY <4>1 DEF Placing
            <4>. QED BY <1>9, <3>3, <3>4, <4>2, Zenon
        <3>5. CASE k # 1
            <4>1. k - 1 \in 1..n /\ ~(k <= k - 1) /\ k \in 2..n /\ k - 1 \in 1..(n - 1) /\ (k - 1) + 1 = k
                BY <1>1, <3>3, <3>5
            <4>2. PICK st : Placing(c, ss, k - 1, G[k - 1], st)
                <5>1. k - 1 \notin T
                    <6>. HIDE DEF T
                    <6>. QED BY <3>2, <4>1
                <5>. QED BY <4>1, <5>1
            <4>3. G[k - 1] \in Seq(S)
                BY <1>7, <4>1
            <4>. DEFINE j == k - 1
            <4>4. j \in 1..(Len(ss) - 1) /\ Placing(c, ss, j, G[j], st) /\ G[j] \in Seq(S) /\ j + 1 = k
                BY <4>1, <4>2, <4>3 DEF n
            <4>. HIDE DEF j
            <4>5. \E st2 : Placing(c, ss, j + 1, G[j] \o (<<c>> \o ss[j + 1]), st2)
                BY <4>4, PlacingNext
            <4>6. G[k] = G[j] \o (<<c>> \o ss[k])
                BY <1>9, <4>1 DEF j
            <4>. QED BY <3>3, <4>4, <4>5, <4>6
        <3>. QED BY <3>4, <3>5
    <2>. QED BY <2>1, Zenon
<1>11. G[n] \in Seq(S)
    BY <1>1, <1>7
<1>. QED BY <1>1, <1>8, <1>10, <1>11 DEF n

LEMMA JoinedFew ==
    ASSUME NEW S, NEW c \in S, NEW a \in Seq(S)
    PROVE  Joined(c, << >>) = << >> /\ Joined(c, <<a>>) = a
<1>1. Joined(c, << >>) = << >>
    <2>. DEFINE q == [k \in DOMAIN << >> |-> IF k = 1 THEN << >>[k] ELSE <<c>> \o << >>[k]]
    <2>1. DOMAIN << >> = {} /\ DOMAIN q = {} /\ q = << >>
        BY EmptyAny
    <2>2. Len(q) = 0
        BY <2>1, EmptyAny
    <2>. QED BY <2>1, <2>2 DEF Joined, FlattenSeq
<1>2. Joined(c, <<a>>) = a
    <2>. DEFINE q == [k \in DOMAIN <<a>> |-> IF k = 1 THEN <<a>>[k] ELSE <<c>> \o <<a>>[k]]
                G == [k \in 1..1 |-> a]
    <2>1. q = <<a>>
        OBVIOUS
    <2>2. q \in Seq(Seq(S)) /\ Len(q) = 1 /\ q[1] = a
        BY <2>1
    <2>. HIDE DEF q
    <2>3. G[1] = q[1] /\ \A i \in 2..Len(q) : G[i] = G[i - 1] \o q[i]
        BY <2>2
    <2>4. FlattenSeq(q) = G[Len(q)]
        <3>1. q \in Seq(Seq(S)) /\ Len(q) > 0
            BY <2>2
        <3>. HIDE DEF G
        <3>. QED BY <2>3, <3>1, FlattenIs
    <2>. QED BY <2>2, <2>4 DEF Joined, q
<1>. QED BY <1>1, <1>2

LEMMA JoinedTwo ==
    ASSUME NEW S, NEW c \in S, NEW ss \in Seq(Seq(S)), Len(ss) = 2
    PROVE  Joined(c, ss) = ss[1] \o (<<c>> \o ss[2])
<1>. DEFINE a == ss[1]
            b == ss[2]
            q == [k \in DOMAIN ss |-> IF k = 1 THEN ss[k] ELSE <<c>> \o ss[k]]
            u == <<c>> \o b
            w == a \o u
            G == [k \in 1..2 |-> IF k = 1 THEN a ELSE w]
<1>1. DOMAIN ss = 1..2 /\ a \in Seq(S) /\ b \in Seq(S)
    <2>1. 1 \in 1..Len(ss) /\ 2 \in 1..Len(ss)
        OBVIOUS
    <2>2. ss[1] \in Seq(S) /\ ss[2] \in Seq(S)
        BY <2>1, ElementOfSeq
    <2>. QED BY <2>2, LenProperties
<1>. HIDE DEF a, b
<1>2. u \in Seq(S)
    <2>1. <<c>> \in Seq(S)
        OBVIOUS
    <2>. QED BY <1>1, <2>1, ConcatProperties
<1>3. DOMAIN q = 1..2 /\ q[1] = a /\ q[2] = u
    BY <1>1 DEF a, b
<1>4. q = [k \in 1..2 |-> q[k]] /\ \A k \in 1..2 : q[k] \in Seq(S)
    <2>1. q = [k \in 1..2 |-> q[k]]
        BY <1>1
    <2>2. \A k \in 1..2 : k = 1 \/ k = 2
        OBVIOUS
    <2>. HIDE DEF q, u
    <2>. QED BY <1>1, <1>2, <1>3, <2>1, <2>2
<1>5. Joined(c, ss) = FlattenSeq(q)
    BY DEF Joined, q, u, b
<1>. HIDE DEF q, u
<1>6. q \in Seq(Seq(S)) /\ Len(q) = 2
    <2>. DEFINE n == 2
    <2>1. q \in [1..n -> Seq(S)] /\ n \in Nat
        BY <1>4
    <2>. HIDE DEF n
    <2>2. q \in Seq(Seq(S))
        BY <2>1, SeqDef
    <2>. QED BY <1>3, <2>2, LenProperties
<1>. HIDE DEF w
<1>7. G[1] = q[1] /\ \A i \in 2..Len(q) : G[i] = G[i - 1] \o q[i]
    BY <1>3, <1>6 DEF w
<1>8. FlattenSeq(q) = G[Len(q)]
    <2>1. q \in Seq(Seq(S)) /\ Len(q) > 0
        BY <1>6
    <2>. HIDE DEF G
    <2>. QED BY <1>7, <2>1, FlattenIs
<1>9. G[2] = w
    OBVIOUS
<1>10. Joined(c, ss) = w
    <2>. HIDE DEF G
    <2>. QED BY <1>5, <1>6, <1>8, <1>9
<1>. QED BY <1>10 DEF w, u, a, b

\* Of texts joined that have no separator in them, the separators are in front of all but
\* the first, and cutting at them gives the texts again.
LEMMA PassedPlaces ==
    ASSUME NEW S, NEW c \in S, NEW ss \in Seq(Seq(S)), NEW n \in 1..Len(ss), NEW B \in Seq(S),
           NEW st, Placing(c, ss, n, B, st), \A k \in 1..n : \A i \in 1..Len(ss[k]) : ss[k][i] # c
    PROVE  \A k \in 1..n : Passed(c, B, st[k]) = k - 1 /\ Passed(c, B, st[k] + Len(ss[k])) = k - 1
<1>. DEFINE l == Len(B)
            T == {k \in 1..n : Passed(c, B, st[k]) # k - 1}
<1>1. n \in Nat /\ l \in Nat /\ Len(ss) \in Nat /\ \A k \in 1..n : Len(ss[k]) \in Nat
    <2>1. Len(ss) \in Nat /\ \A k \in 1..Len(ss) : ss[k] \in Seq(S)
        BY LenProperties, ElementOfSeq
    <2>2. \A k \in 1..n : k \in 1..Len(ss)
        BY <2>1
    <2>. QED BY <2>1, <2>2, LenProperties
<1>2. /\ st[1] = 0 /\ \A k \in 1..n : st[k] \in 0..l /\ \A i \in 1..Len(ss[k]) : B[st[k] + i] = ss[k][i]
      /\ \A k \in 2..n : st[k] = st[k - 1] + Len(ss[k - 1]) + 1 /\ B[st[k]] = c
    BY DEF Placing
<1>. HIDE DEF l
<1>3. ASSUME NEW k \in 1..n
      PROVE  /\ Passed(c, B, st[k] + Len(ss[k])) = Passed(c, B, st[k])
             /\ st[k] + Len(ss[k]) \in Nat /\ st[k] \in Nat
    <2>. DEFINE x == st[k]
                y == Len(ss[k])
    <2>1. x \in Nat /\ y \in Nat /\ x + y \in Nat /\ x <= x + y
        <3>1. x \in 0..l /\ y \in Nat
            BY <1>1, <1>2
        <3>. HIDE DEF x, y
        <3>. QED BY <1>1, <3>1
    <2>2. \A i \in 1..y : B[x + i] # c
        <3>1. \A i \in 1..Len(ss[k]) : B[st[k] + i] = ss[k][i]
            BY <1>2
        <3>2. \A i \in 1..Len(ss[k]) : ss[k][i] # c
            OBVIOUS
        <3>. QED BY <3>1, <3>2
    <2>. HIDE DEF x, y
    <2>3. \A i \in (x + 1)..(x + y) : B[i] # c
        <3>1. \A i \in (x + 1)..(x + y) : i - x \in 1..y /\ x + (i - x) = i
            BY <2>1
        <3>. QED BY <2>2, <3>1
    <2>4. Passed(c, B, x + y) = Passed(c, B, x)
        BY <2>1, <2>3, PassedOver
    <2>. QED BY <2>1, <2>4 DEF x, y
<1>4. ASSUME T # {} PROVE FALSE
    <2>1. T \subseteq 1..n
        OBVIOUS
    <2>2. PICK k \in T : \A y \in T : k <= y
        <3>. HIDE DEF T
        <3>. QED BY <1>1, <1>4, <2>1, FirstPosition
    <2>3. k \in 1..n /\ Passed(c, B, st[k]) # k - 1
        OBVIOUS
    <2>4. k # 1
        <3>1. {i \in 1..0 : B[i] = c} = {}
            OBVIOUS
        <3>2. Passed(c, B, 0) = 0
            BY <3>1, FS_EmptySet DEF Passed
        <3>. QED BY <1>2, <2>3, <3>2
    <2>5. k - 1 \in 1..n /\ ~(k <= k - 1) /\ k \in 2..n
        BY <1>1, <2>3, <2>4
    <2>6. Passed(c, B, st[k - 1]) = (k - 1) - 1
        <3>1. k - 1 \notin T
            <4>. HIDE DEF T
            <4>. QED BY <2>2, <2>5
        <3>. QED BY <2>5, <3>1
    <2>. DEFINE z == st[k - 1] + Len(ss[k - 1])
    <2>7. z \in Nat /\ Passed(c, B, z) = (k - 1) - 1
        BY <1>3, <2>5, <2>6
    <2>8. st[k] = z + 1 /\ B[z + 1] = c
        BY <1>2, <2>5
    <2>. HIDE DEF z
    <2>9. Passed(c, B, z + 1) = Passed(c, B, z) + 1
        BY <2>7, <2>8, PassedNext
    <2>. QED BY <2>3, <2>7, <2>8, <2>9
<1>5. \A k \in 1..n : Passed(c, B, st[k]) = k - 1
    BY <1>4, Zenon
<1>. QED BY <1>3, <1>5

LEMMA CutOfJoined ==
    ASSUME NEW S, NEW c \in S, NEW ss \in Seq(Seq(S)), Len(ss) > 0,
           \A k \in 1..Len(ss) : \A i \in 1..Len(ss[k]) : ss[k][i] # c
    PROVE  CutBy(c, Joined(c, ss)) = ss
<1>. DEFINE n == Len(ss)
            B == Joined(c, ss)
            l == Len(B)
<1>1. PICK st : B \in Seq(S) /\ Placing(c, ss, n, B, st)
    BY JoinedPlaces
<1>. HIDE DEF B
<1>2. n \in Nat /\ n \in 1..n /\ l \in Nat /\ 1 \in 1..n /\ n >= 1 /\ \A k \in 1..n : ss[k] \in Seq(S) /\ Len(ss[k]) \in Nat
    BY <1>1, LenProperties, ElementOfSeq
<1>3. n \in 1..Len(ss) /\ \A k \in 1..n : \A i \in 1..Len(ss[k]) : ss[k][i] # c
    BY <1>2
<1>4. \A k \in 1..n : Passed(c, B, st[k]) = k - 1 /\ Passed(c, B, st[k] + Len(ss[k])) = k - 1
    <2>. HIDE DEF n
    <2>. QED BY <1>1, <1>3, PassedPlaces
<1>5. /\ st[1] = 0 /\ l = st[n] + Len(ss[n])
      /\ \A k \in 1..n : st[k] \in 0..l /\ st[k] + Len(ss[k]) <= l /\ \A i \in 1..Len(ss[k]) : B[st[k] + i] = ss[k][i]
      /\ \A k \in 2..n : st[k] = st[k - 1] + Len(ss[k - 1]) + 1 /\ B[st[k]] = c
    BY <1>1 DEF Placing
<1>6. Passed(c, B, l) = n - 1
    BY <1>2, <1>4, <1>5
<1>. DEFINE at == [k \in 0..n |-> IF k = n THEN l + 1 ELSE st[k + 1]]
<1>. HIDE DEF n, l
<1>7. ASSUME NEW k \in 0..(n - 1)
      PROVE  /\ at[k] = st[k + 1] /\ at[k + 1] = st[k + 1] + Len(ss[k + 1]) + 1
             /\ k + 1 \in 1..n /\ at[k] \in 0..l /\ at[k + 1] \in 0..(l + 1)
    <2>1. k \in 0..n /\ k + 1 \in 0..n /\ k # n /\ k + 1 \in 1..n /\ (k + 1 # n => k + 2 \in 2..n /\ (k + 1) + 1 = k + 2 /\ (k + 2) - 1 = k + 1)
        BY <1>2
    <2>2. at[k] = st[k + 1] /\ at[k + 1] = IF k + 1 = n THEN l + 1 ELSE st[(k + 1) + 1]
        <3>. HIDE DEF l
        <3>. QED BY <2>1
    <2>. HIDE DEF at
    <2>3. at[k + 1] = st[k + 1] + Len(ss[k + 1]) + 1
        <3>1. CASE k + 1 = n
            BY <1>5, <2>2, <3>1
        <3>2. CASE k + 1 # n
            BY <1>5, <2>1, <2>2, <3>2
        <3>. QED BY <3>1, <3>2
    <2>4. st[k + 1] \in 0..l /\ st[k + 1] + Len(ss[k + 1]) <= l /\ Len(ss[k + 1]) \in Nat
        BY <1>2, <1>5, <2>1
    <2>5. st[k + 1] + Len(ss[k + 1]) + 1 \in 0..(l + 1)
        <3>. DEFINE x == st[k + 1]
                    y == Len(ss[k + 1])
        <3>. HIDE DEF x, y
        <3>1. x \in 0..l /\ x + y <= l /\ y \in Nat
            BY <2>4 DEF x, y
        <3>2. x + y + 1 \in 0..(l + 1)
            BY <1>2, <3>1
        <3>. QED BY <3>2 DEF x, y
    <2>. QED BY <2>1, <2>2, <2>3, <2>4, <2>5
<1>8. CutMarks(c, B, at)
    <2>1. \A k \in 0..n : k = n \/ k \in 0..(n - 1)
        BY <1>2
    <2>2. at[n] = l + 1 /\ at[0] = 0
        <3>1. n \in 0..n /\ 0 \in 0..(n - 1) /\ 0 + 1 = 1
            BY <1>2
        <3>2. at[0] = st[0 + 1]
            BY <1>7, <3>1
        <3>3. at[n] = l + 1
            BY <3>1
        <3>. HIDE DEF at
        <3>. QED BY <1>5, <3>1, <3>2, <3>3
    <2>3. at = [k \in 0..n |-> at[k]]
        OBVIOUS
    <2>. HIDE DEF at
    <2>4. at \in [0..n -> 0..(l + 1)]
        <3>1. \A k \in 0..n : at[k] \in 0..(l + 1)
            <4>1. \A x \in 0..l : x \in 0..(l + 1)
                BY <1>2
            <4>2. l + 1 \in 0..(l + 1)
                BY <1>2
            <4>. QED BY <1>7, <2>1, <2>2, <4>1, <4>2
        <3>. QED BY <2>3, <3>1
    <2>5. ASSUME NEW k \in 1..(n - 1) PROVE at[k] \in 1..l /\ B[at[k]] = c /\ Passed(c, B, at[k]) = k
        <3>1. k \in 0..(n - 1) /\ k + 1 \in 2..n /\ k + 1 \in 1..n /\ (k + 1) - 1 = k /\ k \in 1..n
            BY <1>2
        <3>2. at[k] = st[k + 1] /\ Passed(c, B, st[k + 1]) = k /\ B[st[k + 1]] = c /\ st[k + 1] \in 0..l
            BY <1>4, <1>5, <1>7, <3>1
        <3>3. st[k + 1] = st[k] + Len(ss[k]) + 1 /\ st[k] \in 0..l /\ Len(ss[k]) \in Nat
            BY <1>2, <1>5, <3>1
        <3>4. st[k + 1] # 0
            BY <1>2, <3>3
        <3>5. st[k + 1] \in 1..l
            BY <1>2, <3>2, <3>4
        <3>. QED BY <3>2, <3>5
    <2>6. Passed(c, B, Len(B)) = n - 1 /\ (n - 1) + 1 = n
        BY <1>2, <1>6 DEF l
    <2>. QED BY <2>2, <2>4, <2>5, <2>6 DEF CutMarks, l
<1>. DEFINE q == CutBy(c, B)
<1>9. q \in Seq(Seq(S)) /\ Len(q) = n /\ \A k \in 1..n : q[k] = CutAt(c, B, k - 1)
    <2>1. Passed(c, B, Len(B)) + 1 = n
        BY <1>2, <1>6 DEF l
    <2>. QED BY <1>1, <2>1, CutByType
<1>. HIDE DEF at, q
<1>10. ASSUME NEW k \in 1..n PROVE q[k] = ss[k]
    <2>1. k - 1 \in 0..(n - 1) /\ (k - 1) + 1 = k /\ k - 1 \in 0..Passed(c, B, Len(B))
        BY <1>2, <1>6 DEF l
    <2>2. q[k] = CutOut(B, at, k - 1) /\ CutOut(B, at, k - 1) \in Seq(S)
        BY <1>1, <1>8, <1>9, <2>1, CutIsInside
    <2>. DEFINE x == st[k]
                y == Len(ss[k])
                u == SubSeq(B, x + 1, x + y)
    <2>3. x \in 0..l /\ y \in Nat /\ x + y <= l /\ at[k - 1] = x /\ at[(k - 1) + 1] = x + y + 1
        BY <1>2, <1>5, <1>7, <2>1
    <2>4. \A i \in 1..y : B[x + i] = ss[k][i]
        BY <1>5
    <2>5. ss[k] \in Seq(S)
        BY <1>2
    <2>6. Len(ss[k]) = y
        OBVIOUS
    <2>. HIDE DEF x, y
    <2>7. (x + y + 1) - 1 = x + y /\ x + 1 \in Int /\ x + y \in Int
        BY <1>2, <2>3
    <2>8. CutOut(B, at, k - 1) = u
        BY <2>3, <2>7 DEF CutOut
    <2>9. \A i \in (x + 1)..(x + y) : B[i] \in S
        <3>1. \A i \in (x + 1)..(x + y) : i \in 1..Len(B)
            BY <1>2, <2>3 DEF l
        <3>. QED BY <1>1, <3>1, ElementOfSeq
    <2>10. /\ u \in Seq(S) /\ Len(u) = IF x + 1 <= x + y THEN (x + y) - (x + 1) + 1 ELSE 0
           /\ \A i \in 1..((x + y) - (x + 1) + 1) : u[i] = B[(x + 1) + i - 1]
        BY <2>7, <2>9, SubSeqProperties
    <2>11. (x + y) - (x + 1) + 1 = y /\ (IF x + 1 <= x + y THEN (x + y) - (x + 1) + 1 ELSE 0) = y
           /\ \A i \in 1..y : (x + 1) + i - 1 = x + i
        BY <1>2, <2>3
    <2>12. Len(u) = y /\ \A i \in 1..y : u[i] = ss[k][i]
        BY <2>4, <2>10, <2>11
    <2>. HIDE DEF u
    <2>13. u = ss[k]
        BY <2>5, <2>6, <2>10, <2>12, SeqEqual
    <2>. QED BY <2>2, <2>8, <2>13
<1>11. q = ss
    <2>1. Len(ss) = n
        BY DEF n
    <2>. QED BY <1>9, <1>10, <2>1, SeqEqual
<1>. QED BY <1>11 DEF q, B

\* What is cut off behind a separator, and in front of the first.
IsCutBehind(c, s, p, x) ==
    \E e \in p..Len(s) : /\ x = SubSeq(s, p + 1, e) /\ \A i \in (p + 1)..e : s[i] # c
                         /\ e = Len(s) \/ s[e + 1] = c

LEMMA CutBehind ==
    ASSUME NEW S, NEW c, NEW s \in Seq(S), NEW p \in 0..Len(s), p # 0 => s[p] = c
    PROVE  \E k \in 1..Len(CutBy(c, s)) : IsCutBehind(c, s, p, CutBy(c, s)[k])
<1>. DEFINE n == Len(s)
            m == Passed(c, s, n)
            k == Passed(c, s, p)
<1>1. n \in Nat /\ m \in Nat /\ k \in Nat /\ k <= m /\ p \in Nat
    <2>1. n \in Nat
        BY LenProperties
    <2>. QED BY <2>1, PassedGrow
<1>2. PICK at : CutMarks(c, s, at)
    BY MarksExist
<1>3. k \in 0..m
    BY <1>1
<1>4. /\ at[k] \in 0..n /\ at[k + 1] \in 1..(n + 1) /\ at[k] < at[k + 1] /\ Passed(c, s, at[k]) = k
      /\ k < m => at[k + 1] \in 1..n /\ s[at[k + 1]] = c
      /\ k = m => at[k + 1] = n + 1
    <2>. DEFINE kk == k
    <2>1. kk \in 0..Passed(c, s, Len(s))
        BY <1>3
    <2>. HIDE DEF kk
    <2>2. /\ at[kk] \in 0..n /\ at[kk + 1] \in 1..(n + 1) /\ at[kk] < at[kk + 1] /\ Passed(c, s, at[kk]) = kk
          /\ kk < m => at[kk + 1] \in 1..n /\ s[at[kk + 1]] = c
          /\ kk = m => at[kk + 1] = n + 1
        BY <1>2, <2>1, MarksType
    <2>. QED BY <2>2 DEF kk
<1>5. at[k] # 0 => s[at[k]] = c
    <2>1. at[0] = 0 /\ \A j \in 1..m : s[at[j]] = c
        BY <1>2 DEF CutMarks
    <2>2. k = 0 \/ k \in 1..m
        BY <1>1
    <2>. QED BY <2>1, <2>2
<1>. DEFINE a == at[k]
            e == at[k + 1] - 1
<1>6. a = p
    <2>1. a \in Nat /\ a \in 0..n /\ Passed(c, s, a) = k /\ (a # 0 => s[a] = c)
        BY <1>4, <1>5
    <2>2. Passed(c, s, p) = k
        OBVIOUS
    <2>. HIDE DEF a, k
    <2>3. ASSUME a < p PROVE FALSE
        <3>1. a \in 0..p /\ s[p] = c
            BY <1>1, <2>1, <2>3
        <3>2. Passed(c, s, a) < Passed(c, s, p)
            BY <1>1, <2>3, <3>1, PassedGrow
        <3>. QED BY <1>1, <2>1, <2>2, <3>2
    <2>4. ASSUME p < a PROVE FALSE
        <3>1. p \in 0..a /\ s[a] = c
            BY <1>1, <2>1, <2>4
        <3>2. Passed(c, s, p) < Passed(c, s, a)
            BY <2>1, <2>4, <3>1, PassedGrow
        <3>. QED BY <1>1, <2>1, <2>2, <3>2
    <2>. QED BY <1>1, <2>1, <2>3, <2>4
<1>7. e \in p..n
    BY <1>1, <1>4, <1>6
<1>8. CutBy(c, s)[k + 1] = SubSeq(s, p + 1, e) /\ k + 1 \in 1..Len(CutBy(c, s))
    <2>1. Len(CutBy(c, s)) = m + 1 /\ \A j \in 1..(m + 1) : CutBy(c, s)[j] = CutAt(c, s, j - 1)
        BY CutByType
    <2>2. k + 1 \in 1..(m + 1) /\ (k + 1) - 1 = k
        BY <1>1
    <2>. HIDE DEF k, m
    <2>3. CutBy(c, s)[k + 1] = CutAt(c, s, k)
        BY <2>1, <2>2
    <2>4. CutAt(c, s, k) = CutOut(s, at, k)
        BY <1>2, <1>3, CutIsInside DEF m
    <2>. QED BY <1>6, <2>1, <2>2, <2>3, <2>4 DEF CutOut
<1>9. \A i \in (p + 1)..e : s[i] # c
    <2>. DEFINE kk == k
    <2>1. kk \in 0..Passed(c, s, Len(s))
        BY <1>3
    <2>. HIDE DEF kk
    <2>2. {i \in 1..Len(s) : s[i] # c /\ Passed(c, s, i) = kk} = (at[kk] + 1)..(at[kk + 1] - 1)
        BY <1>2, <2>1, InsidePositions
    <2>3. (at[kk] + 1)..(at[kk + 1] - 1) = (p + 1)..e
        BY <1>6 DEF kk
    <2>. QED BY <2>2, <2>3
<1>10. e = n \/ s[e + 1] = c
    <2>1. k = m \/ k < m
        BY <1>1
    <2>2. at[k + 1] \in Int => e + 1 = at[k + 1] /\ (at[k + 1] = n + 1 => e = n)
        BY <1>1
    <2>. QED BY <1>4, <2>1, <2>2
<1>. HIDE DEF e, k
<1>11. IsCutBehind(c, s, p, CutBy(c, s)[k + 1])
    BY <1>7, <1>8, <1>9, <1>10 DEF IsCutBehind
<1>. QED BY <1>8, <1>11
=============================================================================
