------------------------ MODULE AttributeValuesProofs ------------------------
(***************************************************************************)
(* What is proved of Integers, BitStrings and the matching of substrings,  *)
(* with the reading back of an assertion that was written, for every value *)
(* of the constants: of any texts and magnitudes, any width of a byte and  *)
(* of an int64, any number of variables that share storage, and any values *)
(* and assertions.                                                         *)
(***************************************************************************)
EXTENDS IntegerValues, BitStrings, Substrings, SequenceLemmas

-----------------------------------------------------------------------------
(* What an assertion is parsed to                                          *)

SubstringsSet == [ok : BOOLEAN, initial : Seq(Tokens), any : Seq(Seq(Tokens)), final : Seq(Tokens)]

LEMMA TrimType ==
    ASSUME NEW s \in Seq(Tokens)
    PROVE  Trim(s) \in Seq(Tokens)
<1>. DEFINE T == {i \in DOMAIN s : s[i] # "blank"}
<1>1. Len(s) \in Nat /\ DOMAIN s = 1..Len(s)
    BY LenProperties
<1>2. CASE Blank(s)
    BY <1>2, EmptySeq DEF Trim
<1>3. CASE ~Blank(s)
    <2>1. T \subseteq 1..Len(s) /\ T # {}
        BY <1>1, <1>3 DEF Blank
    <2>2. PICK x \in T : \A y \in T : x <= y
        <3>. HIDE DEF T
        <3>. QED BY <1>1, <2>1, FirstPosition
    <2>3. PICK z \in T : \A y \in T : y <= z
        <3>. HIDE DEF T
        <3>. QED BY <1>1, <2>1, LastPosition
    <2>4. \E i \in DOMAIN s : s[i] # "blank" /\ \A j \in 1..(i - 1) : s[j] = "blank"
        <3>1. \A j \in 1..(x - 1) : s[j] = "blank"
            BY <1>1, <2>2
        <3>. QED BY <3>1
    <2>5. \E i \in DOMAIN s : s[i] # "blank" /\ \A j \in (i + 1)..Len(s) : s[j] = "blank"
        <3>1. \A j \in (z + 1)..Len(s) : s[j] = "blank"
            BY <1>1, <2>3
        <3>. QED BY <3>1
    <2>. DEFINE from == CHOOSE i \in DOMAIN s : s[i] # "blank" /\ \A j \in 1..(i - 1) : s[j] = "blank"
                to   == CHOOSE i \in DOMAIN s : s[i] # "blank" /\ \A j \in (i + 1)..Len(s) : s[j] = "blank"
    <2>6. from \in DOMAIN s /\ to \in DOMAIN s
        BY <2>4, <2>5
    <2>7. Trim(s) = SubSeq(s, from, to)
        BY <1>3 DEF Trim
    <2>8. from \in 1..(Len(s) + 1) /\ to \in 0..Len(s)
        <3>. HIDE DEF from, to
        <3>. QED BY <1>1, <2>6
    <2>. HIDE DEF from, to
    <2>. QED BY <2>7, <2>8, PieceAny
<1>. QED BY <1>2, <1>3

LEMMA PartsType ==
    ASSUME NEW s \in Seq(Tokens)
    PROVE  Parts(s) \in Seq(Seq(Tokens))
<1>. DEFINE segments == CutBy("*", s)
            is == {k \in DOMAIN segments : segments[k] # << >>}
<1>1. segments \in Seq(Seq(Tokens))
    BY CutByType
<1>2. is \subseteq DOMAIN segments /\ Parts(s) = Pick(segments, is)
    BY DEF Parts
<1>. HIDE DEF segments, is
<1>. QED BY <1>1, <1>2, PickAny

LEMMA MarshalledType ==
    ASSUME NEW t \in Seq(Tokens)
    PROVE  Marshalled(t) \in SubstringsSet
<1>. DEFINE s == Trim(t)
            parts == Parts(s)
            n == Len(parts)
<1>1. parts \in Seq(Seq(Tokens))
    BY TrimType, PartsType
<1>. HIDE DEF s, parts
<1>2. << >> \in Seq(Tokens) /\ << >> \in Seq(Seq(Tokens))
    OBVIOUS
<1>3. Malformed \in SubstringsSet
    BY <1>2 DEF Malformed, SubstringsSet
<1>4. ASSUME parts # << >> PROVE TokensOf(s, parts) \in SubstringsSet
    <2>1. n \in Nat \ {0} /\ parts[1] \in Seq(Tokens) /\ parts[n] \in Seq(Tokens)
        BY <1>1, <1>4
    <2>2. \A a \in {1, 2}, b \in {n - 1, n} : SubSeq(parts, a, b) \in Seq(Seq(Tokens))
        <3>1. \A a \in {1, 2}, b \in {n - 1, n} : a \in 1..(n + 1) /\ b \in 0..n
            BY <2>1
        <3>. QED BY <1>1, <3>1, PieceAny
    <2>3. SubSeq(parts, IF s[1] = "*" THEN 1 ELSE 2, IF s[Len(s)] = "*" THEN n ELSE n - 1) \in Seq(Seq(Tokens))
        BY <2>2
    <2>. QED BY <1>2, <2>1, <2>3 DEF TokensOf, Parsed, SubstringsSet
<1>. QED BY <1>3, <1>4 DEF Marshalled, s, parts

-----------------------------------------------------------------------------
(* Occurrences in what is left of a value                                  *)

LEMMA FromAny ==
    ASSUME NEW E, NEW s \in Seq(E), NEW p \in 0..Len(s)
    PROVE  /\ From(s, p + 1) \in Seq(E)
           /\ Len(From(s, p + 1)) = Len(s) - p
           /\ \A i \in 1..(Len(s) - p) : From(s, p + 1)[i] = s[p + i]
<1>1. Len(s) \in Nat /\ p \in Nat
    BY LenProperties
<1>2. \A i \in (p + 1)..Len(s) : s[i] \in E
    BY <1>1
<1>3. /\ SubSeq(s, p + 1, Len(s)) \in Seq(E)
      /\ Len(SubSeq(s, p + 1, Len(s))) = IF p + 1 <= Len(s) THEN Len(s) - (p + 1) + 1 ELSE 0
      /\ \A i \in 1..(Len(s) - (p + 1) + 1) : SubSeq(s, p + 1, Len(s))[i] = s[(p + 1) + i - 1]
    BY <1>1, <1>2, SubSeqProperties
<1>. QED BY <1>1, <1>3 DEF From

LEMMA OccursAt ==
    ASSUME NEW E, NEW g \in Seq(E), NEW s \in Seq(E), NEW i \in 1..Len(s)
    PROVE  Occurs(g, s, i) <=> i + Len(g) - 1 <= Len(s) /\ \A m \in 1..Len(g) : s[i + m - 1] = g[m]
<1>1. Len(s) \in Nat /\ Len(g) \in Nat
    BY LenProperties
<1>. SUFFICES ASSUME i + Len(g) - 1 <= Len(s)
              PROVE  SubSeq(s, i, i + Len(g) - 1) = g <=> \A m \in 1..Len(g) : s[i + m - 1] = g[m]
    BY DEF Occurs
<1>. DEFINE c == SubSeq(s, i, i + Len(g) - 1)
<1>2. \A m \in i..(i + Len(g) - 1) : s[m] \in E
    BY <1>1
<1>3. /\ c \in Seq(E)
      /\ Len(c) = IF i <= i + Len(g) - 1 THEN (i + Len(g) - 1) - i + 1 ELSE 0
      /\ \A m \in 1..((i + Len(g) - 1) - i + 1) : c[m] = s[i + m - 1]
    BY <1>1, <1>2, SubSeqProperties
<1>4. c \in Seq(E) /\ Len(c) = Len(g) /\ \A m \in 1..Len(g) : c[m] = s[i + m - 1]
    BY <1>1, <1>3
<1>. HIDE DEF c
<1>5. c = g <=> \A m \in 1..Len(g) : c[m] = g[m]
    BY <1>4, SeqEqual
<1>. QED BY <1>4, <1>5 DEF c

\* A place in what is left is a place in the whole.
LEMMA OccursInFrom ==
    ASSUME NEW E, NEW g \in Seq(E), NEW s \in Seq(E), NEW p \in 0..Len(s), NEW i \in 1..(Len(s) - p)
    PROVE  Occurs(g, From(s, p + 1), i) <=> Occurs(g, s, p + i)
<1>. DEFINE r == From(s, p + 1)
<1>1. Len(s) \in Nat /\ Len(g) \in Nat
    BY LenProperties
<1>2. r \in Seq(E) /\ Len(r) = Len(s) - p /\ \A k \in 1..(Len(s) - p) : r[k] = s[p + k]
    BY FromAny
<1>. HIDE DEF r
<1>3. i \in 1..Len(r) /\ p + i \in 1..Len(s)
    BY <1>1, <1>2
<1>4. Occurs(g, r, i) <=> i + Len(g) - 1 <= Len(r) /\ \A m \in 1..Len(g) : r[i + m - 1] = g[m]
    BY <1>2, <1>3, OccursAt
<1>5. Occurs(g, s, p + i) <=> p + i + Len(g) - 1 <= Len(s) /\ \A m \in 1..Len(g) : s[p + i + m - 1] = g[m]
    BY <1>3, OccursAt
<1>6. i + Len(g) - 1 <= Len(r) <=> p + i + Len(g) - 1 <= Len(s)
    BY <1>1, <1>2
<1>7. ASSUME i + Len(g) - 1 <= Len(r), NEW m \in 1..Len(g) PROVE r[i + m - 1] = s[p + i + m - 1]
    <2>1. i + m - 1 \in 1..(Len(s) - p) /\ p + (i + m - 1) = p + i + m - 1
        BY <1>1, <1>2, <1>7
    <2>. QED BY <1>2, <2>1
<1>. QED BY <1>4, <1>5, <1>6, <1>7 DEF r

-----------------------------------------------------------------------------
(* Placing the first j of some segments gs in a value v, behind the first  *)
(* l positions: at[k] is where the k-th begins, and Found says that the    *)
(* first j end at p and cannot end any earlier.                            *)

EndOf(gs, l, at, k) == IF k = 0 THEN l ELSE at[k] + Len(gs[k]) - 1
Placed(v, gs, l, at, j) ==
    \A k \in 1..j : Occurs(gs[k], v, at[k]) /\ EndOf(gs, l, at, k - 1) < at[k]
Placings(v, gs, l, j) == {at \in [1..j -> DOMAIN v] : Placed(v, gs, l, at, j)}
Found(v, gs, l, j, p) ==
    /\ \E at \in Placings(v, gs, l, j) : EndOf(gs, l, at, j) = p
    /\ \A at \in Placings(v, gs, l, j) : p <= EndOf(gs, l, at, j)

LEMMA FoundNone ==
    ASSUME NEW v, NEW gs, NEW l \in Nat
    PROVE  Found(v, gs, l, 0, l)
<1>1. << >> \in [1..0 -> DOMAIN v]
    OBVIOUS
<1>2. << >> \in Placings(v, gs, l, 0)
    BY <1>1 DEF Placings, Placed
<1>. QED BY <1>2 DEF Found, EndOf

LEMMA EndOfType ==
    ASSUME NEW E, NEW v \in Seq(E), NEW gs \in Seq(Seq(E)), NEW l \in Nat,
           NEW n \in 0..Len(gs), NEW at \in [1..n -> DOMAIN v], NEW j \in 0..n
    PROVE  EndOf(gs, l, at, j) \in Int
<1>1. CASE j = 0
    BY <1>1 DEF EndOf
<1>2. CASE j # 0
    <2>1. j \in 1..n /\ j \in 1..Len(gs)
        BY <1>2, LenProperties
    <2>2. at[j] \in Nat /\ gs[j] \in Seq(E)
        BY <2>1, LenProperties, ElementOfSeq
    <2>3. Len(gs[j]) \in Nat
        BY <2>2, LenProperties
    <2>. QED BY <1>2, <2>2, <2>3 DEF EndOf
<1>. QED BY <1>1, <1>2

\* The first j of a placing of n are a placing of j.
LEMMA Shorter ==
    ASSUME NEW v, NEW gs, NEW l, NEW n \in Nat, NEW j \in 0..n, NEW at \in Placings(v, gs, l, n)
    PROVE  \E b \in Placings(v, gs, l, j) : EndOf(gs, l, b, j) = EndOf(gs, l, at, j)
<1>. DEFINE b == [k \in 1..j |-> at[k]]
<1>1. at \in [1..n -> DOMAIN v] /\ Placed(v, gs, l, at, n)
    BY DEF Placings
<1>2. b \in [1..j -> DOMAIN v]
    BY <1>1
<1>3. \A k \in 0..j : EndOf(gs, l, b, k) = EndOf(gs, l, at, k)
    BY DEF EndOf
<1>4. ASSUME NEW k \in 1..j PROVE Occurs(gs[k], v, b[k]) /\ EndOf(gs, l, b, k - 1) < b[k]
    <2>1. k \in 1..n /\ k - 1 \in 0..j /\ b[k] = at[k]
        OBVIOUS
    <2>2. EndOf(gs, l, b, k - 1) = EndOf(gs, l, at, k - 1)
        BY <1>3, <2>1
    <2>3. Occurs(gs[k], v, at[k]) /\ EndOf(gs, l, at, k - 1) < at[k]
        BY <1>1, <2>1 DEF Placed
    <2>. HIDE DEF b
    <2>. QED BY <2>1, <2>2, <2>3
<1>5. b \in Placings(v, gs, l, j)
    <2>. HIDE DEF b
    <2>. QED BY <1>2, <1>4 DEF Placings, Placed
<1>6. j \in 0..j
    OBVIOUS
<1>. QED BY <1>3, <1>5, <1>6

LEMMA FoundNext ==
    ASSUME NEW E, NEW v \in Seq(E), NEW gs \in Seq(Seq(E)), NEW l \in Nat,
           NEW j \in Nat, j < Len(gs), NEW p \in 0..Len(v), Found(v, gs, l, j, p),
           NEW i \in 1..(Len(v) - p), Occurs(gs[j + 1], From(v, p + 1), i),
           \A k \in 1..(i - 1) : ~Occurs(gs[j + 1], From(v, p + 1), k)
    PROVE  LET q == p + i + Len(gs[j + 1]) - 1
           IN  q \in 0..Len(v) /\ Found(v, gs, l, j + 1, q)
<1>. DEFINE g == gs[j + 1]
            q == p + i + Len(g) - 1
<1>1. /\ Len(v) \in Nat /\ DOMAIN v = 1..Len(v) /\ Len(gs) \in Nat
      /\ g \in Seq(E) /\ Len(g) \in Nat
    <2>1. Len(v) \in Nat /\ DOMAIN v = 1..Len(v) /\ Len(gs) \in Nat
        BY LenProperties
    <2>2. j + 1 \in 1..Len(gs)
        BY <2>1
    <2>3. g \in Seq(E)
        BY <2>2, ElementOfSeq
    <2>. QED BY <2>1, <2>3, LenProperties
<1>. HIDE DEF g
<1>2. p + i \in 1..Len(v) /\ p + i \in DOMAIN v /\ p \in Int /\ i \in Int
    BY <1>1
<1>3. Occurs(g, v, p + i)
    BY <1>1, OccursInFrom DEF g
<1>4. p + i + Len(g) - 1 <= Len(v)
    BY <1>3 DEF Occurs
<1>5. q \in 0..Len(v)
    BY <1>1, <1>2, <1>4
<1>6. PICK at \in Placings(v, gs, l, j) : EndOf(gs, l, at, j) = p
    BY DEF Found
<1>7. at \in [1..j -> DOMAIN v] /\ Placed(v, gs, l, at, j)
    BY DEF Placings
<1>. DEFINE b == [k \in 1..(j + 1) |-> IF k = j + 1 THEN p + i ELSE at[k]]
<1>8. b \in [1..(j + 1) -> DOMAIN v]
    BY <1>2, <1>7
<1>9. b[j + 1] = p + i /\ \A k \in 1..j : b[k] = at[k]
    OBVIOUS
<1>. HIDE DEF b
<1>10. \A k \in 0..j : EndOf(gs, l, b, k) = EndOf(gs, l, at, k)
    BY <1>9 DEF EndOf
<1>11. ASSUME NEW k \in 1..(j + 1) PROVE Occurs(gs[k], v, b[k]) /\ EndOf(gs, l, b, k - 1) < b[k]
    <2>1. CASE k = j + 1
        <3>1. k - 1 = j /\ j \in 0..j
            BY <2>1
        <3>2. EndOf(gs, l, b, k - 1) = p
            BY <3>1, <1>6, <1>10
        <3>. QED BY <2>1, <3>2, <1>2, <1>3, <1>9 DEF g
    <2>2. CASE k # j + 1
        <3>1. k \in 1..j /\ k - 1 \in 0..j
            BY <2>2
        <3>2. Occurs(gs[k], v, at[k]) /\ EndOf(gs, l, at, k - 1) < at[k]
            BY <3>1, <1>7 DEF Placed
        <3>. QED BY <3>1, <3>2, <1>9, <1>10
    <2>. QED BY <2>1, <2>2
<1>12. b \in Placings(v, gs, l, j + 1)
    BY <1>8, <1>11 DEF Placings, Placed
<1>13. EndOf(gs, l, b, j + 1) = q
    <2>1. EndOf(gs, l, b, j + 1) = b[j + 1] + Len(gs[j + 1]) - 1
        BY DEF EndOf
    <2>. QED BY <2>1, <1>9 DEF g
<1>14. ASSUME NEW c \in Placings(v, gs, l, j + 1) PROVE q <= EndOf(gs, l, c, j + 1)
    <2>1. c \in [1..(j + 1) -> DOMAIN v] /\ Placed(v, gs, l, c, j + 1)
        BY DEF Placings
    <2>2. /\ j + 1 \in Nat /\ j + 1 \in 1..(j + 1) /\ (j + 1) - 1 = j
          /\ j \in 0..(j + 1) /\ j + 1 \in 0..Len(gs)
        BY <1>1
    <2>3. c[j + 1] \in 1..Len(v) /\ Occurs(g, v, c[j + 1]) /\ EndOf(gs, l, c, j) < c[j + 1]
        BY <1>1, <2>1, <2>2 DEF Placed, g
    <2>4. p <= EndOf(gs, l, c, j)
        <3>1. PICK d \in Placings(v, gs, l, j) : EndOf(gs, l, d, j) = EndOf(gs, l, c, j)
            BY <2>2, Shorter
        <3>. QED BY <3>1 DEF Found
    <2>5. EndOf(gs, l, c, j) \in Int
        BY <2>1, <2>2, <1>1, EndOfType
    <2>. DEFINE x == c[j + 1] - p
    <2>6. x \in 1..(Len(v) - p) /\ p + x = c[j + 1]
        <3>. DEFINE e == EndOf(gs, l, c, j)
                    f == c[j + 1]
        <3>1. e \in Int /\ f \in 1..Len(v) /\ e < f /\ p <= e
            BY <2>3, <2>4, <2>5
        <3>. HIDE DEF e, f
        <3>2. f - p \in 1..(Len(v) - p) /\ p + (f - p) = f
            BY <1>1, <3>1
        <3>. QED BY <3>2 DEF f
    <2>. HIDE DEF x
    <2>7. Occurs(g, From(v, p + 1), x)
        BY <1>1, <2>3, <2>6, OccursInFrom
    <2>8. i <= x
        <3>1. x \notin 1..(i - 1)
            BY <2>7 DEF g
        <3>. QED BY <3>1, <2>6, <1>1
    <2>9. EndOf(gs, l, c, j + 1) = c[j + 1] + Len(g) - 1
        BY DEF EndOf, g
    <2>. QED BY <1>1, <1>2, <2>3, <2>6, <2>8, <2>9
<1>. HIDE DEF q
<1>15. Found(v, gs, l, j + 1, q)
    BY <1>12, <1>13, <1>14 DEF Found
<1>. QED BY <1>5, <1>15 DEF q, g

\* Where there is no place for the next segment, there is none for all of them.
LEMMA FoundNoMore ==
    ASSUME NEW E, NEW v \in Seq(E), NEW gs \in Seq(Seq(E)), NEW l \in Nat,
           NEW j \in Nat, j < Len(gs), NEW p \in 0..Len(v), Found(v, gs, l, j, p),
           \A i \in 1..(Len(v) - p) : ~Occurs(gs[j + 1], From(v, p + 1), i)
    PROVE  Placings(v, gs, l, Len(gs)) = {}
<1>. SUFFICES ASSUME NEW c \in Placings(v, gs, l, Len(gs)) PROVE FALSE
    OBVIOUS
<1>. DEFINE g == gs[j + 1]
<1>1. /\ Len(v) \in Nat /\ DOMAIN v = 1..Len(v) /\ Len(gs) \in Nat /\ j + 1 \in 1..Len(gs)
      /\ j \in 0..Len(gs) /\ Len(gs) \in 0..Len(gs) /\ (j + 1) - 1 = j
    BY LenProperties
<1>2. g \in Seq(E)
    BY <1>1, ElementOfSeq
<1>3. c \in [1..Len(gs) -> DOMAIN v] /\ Placed(v, gs, l, c, Len(gs))
    BY DEF Placings
<1>4. c[j + 1] \in 1..Len(v) /\ Occurs(g, v, c[j + 1]) /\ EndOf(gs, l, c, j) < c[j + 1]
    BY <1>1, <1>3 DEF Placed
<1>5. PICK d \in Placings(v, gs, l, j) : EndOf(gs, l, d, j) = EndOf(gs, l, c, j)
    BY <1>1, Shorter
<1>. HIDE DEF g
<1>6. p <= EndOf(gs, l, c, j)
    BY <1>5 DEF Found
<1>7. EndOf(gs, l, c, j) \in Int
    BY <1>1, <1>3, EndOfType
<1>8. c[j + 1] - p \in 1..(Len(v) - p) /\ p + (c[j + 1] - p) = c[j + 1]
    <2>. DEFINE e == EndOf(gs, l, c, j)
                f == c[j + 1]
    <2>1. e \in Int /\ f \in 1..Len(v) /\ e < f /\ p <= e
        BY <1>4, <1>6, <1>7
    <2>. HIDE DEF e, f
    <2>2. f - p \in 1..(Len(v) - p) /\ p + (f - p) = f
        BY <1>1, <2>1
    <2>. QED BY <2>2 DEF f
<1>9. Occurs(g, From(v, p + 1), c[j + 1] - p)
    BY <1>2, <1>4, <1>8, OccursInFrom, SMTT(30)
<1>. QED BY <1>8, <1>9 DEF g

-----------------------------------------------------------------------------
(* The suffix of a value                                                   *)

LEMMA SuffixAt ==
    ASSUME NEW E, NEW f \in Seq(E), NEW s \in Seq(E)
    PROVE  IsSuffix(f, s) <=> Len(f) <= Len(s) /\ \A m \in 1..Len(f) : s[Len(s) - Len(f) + m] = f[m]
<1>. DEFINE a == Reverse(f)
            b == Reverse(s)
<1>1. Len(f) \in Nat /\ Len(s) \in Nat /\ DOMAIN f = 1..Len(f) /\ DOMAIN s = 1..Len(s)
    BY LenProperties
<1>2. /\ \A k \in 1..Len(f) : f[Len(f) - k + 1] \in E
      /\ \A k \in 1..Len(s) : s[Len(s) - k + 1] \in E
    <2>1. /\ \A k \in 1..Len(f) : Len(f) - k + 1 \in 1..Len(f)
          /\ \A k \in 1..Len(s) : Len(s) - k + 1 \in 1..Len(s)
        BY <1>1
    <2>. QED BY <2>1, ElementOfSeq
<1>3. /\ a \in Seq(E) /\ Len(a) = Len(f) /\ \A k \in 1..Len(f) : a[k] = f[Len(f) - k + 1]
      /\ b \in Seq(E) /\ Len(b) = Len(s) /\ \A k \in 1..Len(s) : b[k] = s[Len(s) - k + 1]
    <2>1. a = [k \in 1..Len(f) |-> f[Len(f) - k + 1]] /\ b = [k \in 1..Len(s) |-> s[Len(s) - k + 1]]
        BY DEF Reverse
    <2>2. a \in Seq(E) /\ b \in Seq(E)
        BY <1>1, <1>2, <2>1, IsASeq
    <2>3. DOMAIN a = 1..Len(f) /\ DOMAIN b = 1..Len(s)
        BY <2>1
    <2>. HIDE DEF a, b
    <2>4. Len(a) = Len(f) /\ Len(b) = Len(s)
        BY <1>1, <2>2, <2>3
    <2>. QED BY <2>1, <2>2, <2>4
<1>4. IsSuffix(f, s) <=> Len(a) <= Len(b) /\ SubSeq(a, 1, Len(a)) = SubSeq(b, 1, Len(a))
    BY DEF IsSuffix, IsPrefix
<1>. HIDE DEF a, b
<1>. SUFFICES ASSUME Len(f) <= Len(s)
              PROVE  SubSeq(a, 1, Len(a)) = SubSeq(b, 1, Len(a))
                        <=> \A m \in 1..Len(f) : s[Len(s) - Len(f) + m] = f[m]
    BY <1>3, <1>4
<1>5. Len(SubSeq(b, 1, Len(f))) = Len(f) /\ SubSeq(b, 1, Len(f)) \in Seq(E) /\ \A k \in 1..Len(f) : SubSeq(b, 1, Len(f))[k] = b[k]
    <2>1. \A i \in 1..Len(f) : b[i] \in E
        BY <1>1, <1>3, ElementOfSeq
    <2>2. /\ SubSeq(b, 1, Len(f)) \in Seq(E)
          /\ Len(SubSeq(b, 1, Len(f))) = IF 1 <= Len(f) THEN Len(f) - 1 + 1 ELSE 0
          /\ \A i \in 1..(Len(f) - 1 + 1) : SubSeq(b, 1, Len(f))[i] = b[1 + i - 1]
        BY <1>1, <1>3, <2>1, SubSeqProperties
    <2>. QED BY <1>1, <2>2
<1>6. SubSeq(a, 1, Len(a)) = a
    BY <1>3, SubSeqFull
<1>7. SubSeq(a, 1, Len(a)) = SubSeq(b, 1, Len(a)) <=> \A k \in 1..Len(f) : a[k] = b[k]
    <2>1. a = SubSeq(b, 1, Len(f)) <=> \A k \in 1..Len(f) : a[k] = SubSeq(b, 1, Len(f))[k]
        BY <1>3, <1>5, SeqEqual
    <2>. QED BY <1>3, <1>5, <1>6, <2>1
<1>8. ASSUME \A k \in 1..Len(f) : a[k] = b[k], NEW m \in 1..Len(f)
      PROVE  s[Len(s) - Len(f) + m] = f[m]
    <2>. DEFINE k == Len(f) - m + 1
    <2>1. k \in 1..Len(f) /\ k \in 1..Len(s) /\ Len(f) - k + 1 = m /\ Len(s) - k + 1 = Len(s) - Len(f) + m
        BY <1>1
    <2>. HIDE DEF k
    <2>. QED BY <1>3, <1>8, <2>1
<1>9. ASSUME \A m \in 1..Len(f) : s[Len(s) - Len(f) + m] = f[m], NEW k \in 1..Len(f)
      PROVE  a[k] = b[k]
    <2>. DEFINE m == Len(f) - k + 1
    <2>1. m \in 1..Len(f) /\ k \in 1..Len(s) /\ Len(s) - k + 1 = Len(s) - Len(f) + m
        BY <1>1
    <2>2. a[k] = f[m] /\ b[k] = s[Len(s) - k + 1]
        BY <1>3, <2>1
    <2>. HIDE DEF m
    <2>. QED BY <1>9, <2>1, <2>2
<1>. QED BY <1>7, <1>8, <1>9

\* What is left of a value has the suffixes of the value that fit into it.
LEMMA SuffixOfFrom ==
    ASSUME NEW E, NEW f \in Seq(E), NEW s \in Seq(E), NEW p \in 0..Len(s)
    PROVE  IsSuffix(f, From(s, p + 1)) <=> IsSuffix(f, s) /\ p <= Len(s) - Len(f)
<1>. DEFINE r == From(s, p + 1)
<1>1. Len(f) \in Nat /\ Len(s) \in Nat /\ p \in Nat
    BY LenProperties
<1>2. r \in Seq(E) /\ Len(r) = Len(s) - p /\ \A k \in 1..(Len(s) - p) : r[k] = s[p + k]
    BY FromAny
<1>. HIDE DEF r
<1>3. IsSuffix(f, r) <=> Len(f) <= Len(r) /\ \A m \in 1..Len(f) : r[Len(r) - Len(f) + m] = f[m]
    BY <1>2, SuffixAt
<1>4. IsSuffix(f, s) <=> Len(f) <= Len(s) /\ \A m \in 1..Len(f) : s[Len(s) - Len(f) + m] = f[m]
    BY SuffixAt
<1>5. Len(f) <= Len(r) <=> Len(f) <= Len(s) /\ p <= Len(s) - Len(f)
    BY <1>1, <1>2
<1>6. ASSUME Len(f) <= Len(r), NEW m \in 1..Len(f)
      PROVE  r[Len(r) - Len(f) + m] = s[Len(s) - Len(f) + m]
    <2>. DEFINE k == Len(r) - Len(f) + m
    <2>1. k \in 1..(Len(s) - p) /\ p + k = Len(s) - Len(f) + m
        BY <1>1, <1>2, <1>6
    <2>. HIDE DEF k
    <2>2. r[k] = s[Len(s) - Len(f) + m]
        BY <1>2, <2>1
    <2>. QED BY <2>2 DEF k
<1>. QED BY <1>3, <1>4, <1>5, <1>6 DEF r

-----------------------------------------------------------------------------
(* The matcher                                                             *)

LEMMA FoldType ==
    ASSUME NEW s \in Seq(Tokens)
    PROVE  Fold(s) \in Seq(Tokens) /\ Len(Fold(s)) = Len(s)
<1>1. Len(s) \in Nat /\ DOMAIN s = 1..Len(s) /\ \A i \in 1..Len(s) : s[i] \in Tokens
    BY LenProperties, ElementOfSeq
<1>. DEFINE f == [i \in DOMAIN s |-> IF s[i] = "X" THEN "x" ELSE s[i]]
<1>2. \A i \in 1..Len(s) : (IF s[i] = "X" THEN "x" ELSE s[i]) \in Tokens
    BY <1>1 DEF Tokens
<1>3. f \in [1..Len(s) -> Tokens]
    BY <1>1, <1>2
<1>4. f \in Seq(Tokens) /\ DOMAIN f = 1..Len(s)
    BY <1>1, <1>3, SeqDef
<1>. HIDE DEF f
<1>5. Len(f) = Len(s)
    BY <1>1, <1>4, LenProperties
<1>. QED BY <1>4, <1>5 DEF Fold, f

LEMMA PreparedType ==
    ASSUME NEW s \in Seq(Tokens)
    PROVE  Prepared(s) \in Seq(Tokens)
<1>. DEFINE is == {i \in DOMAIN s : s[i] # "$"} \ Paired(s)
<1>1. is \subseteq DOMAIN s
    OBVIOUS
<1>2. Prepared(s) = IF rule = "list" THEN Pick(s, is) ELSE s
    BY DEF Prepared
<1>. HIDE DEF is
<1>. QED BY <1>1, <1>2, PickAny

\* The value and the inner substrings as they are compared.
Whole == Fold(Prepared(value))
Inner == [k \in DOMAIN subs.any |-> Fold(subs.any[k])]
Start == Len(subs.initial)

SubsType == value \in Seq(Tokens) /\ assertion \in Seq(Tokens) /\ subs \in SubstringsSet

\* What is left of the value, and of the segments, is what is behind the earliest place
\* at which those found so far can end.
Halfway ==
    /\ IsPrefix(Fold(subs.initial), Whole)
    /\ \E j \in 0..Len(Inner) : \E p \in 0..Len(Whole) :
          /\ rest = From(Whole, p + 1)
          /\ segs = [k \in 1..(Len(Inner) - j) |-> Inner[j + k]]
          /\ Found(Whole, Inner, Start, j, p)

MatcherInv ==
    /\ SubsType
    /\ mode = "initial" => rest = Whole
    /\ mode = "any" => Halfway
    /\ mode = "done" => (answer <=> Concatenated)

LEMMA Compared ==
    ASSUME SubsType
    PROVE  /\ Whole \in Seq(Tokens) /\ Inner \in Seq(Seq(Tokens))
           /\ Len(Inner) = Len(subs.any) /\ Start \in Nat
           /\ Fold(subs.initial) \in Seq(Tokens) /\ Len(Fold(subs.initial)) = Start
           /\ Fold(subs.final) \in Seq(Tokens) /\ Len(Fold(subs.final)) = Len(subs.final)
<1>1. /\ value \in Seq(Tokens) /\ subs.initial \in Seq(Tokens)
      /\ subs.final \in Seq(Tokens) /\ subs.any \in Seq(Seq(Tokens))
    BY DEF SubsType, SubstringsSet
<1>2. Len(subs.any) \in Nat /\ DOMAIN subs.any = 1..Len(subs.any)
    BY <1>1, LenProperties
<1>3. \A k \in 1..Len(subs.any) : Fold(subs.any[k]) \in Seq(Tokens)
    <2>1. \A k \in 1..Len(subs.any) : subs.any[k] \in Seq(Tokens)
        BY <1>1, ElementOfSeq
    <2>. QED BY <2>1, FoldType
<1>4. Inner \in Seq(Seq(Tokens)) /\ DOMAIN Inner = 1..Len(subs.any)
    <2>1. Inner = [k \in 1..Len(subs.any) |-> Fold(subs.any[k])]
        BY <1>2 DEF Inner
    <2>. QED BY <1>2, <1>3, <2>1, IsASeq
<1>5. Len(Inner) = Len(subs.any)
    BY <1>2, <1>4, LenProperties
<1>6. Whole \in Seq(Tokens)
    BY <1>1, PreparedType, FoldType DEF Whole
<1>7. Start \in Nat
    BY <1>1, LenProperties DEF Start
<1>. QED BY <1>1, <1>4, <1>5, <1>6, <1>7, FoldType DEF Start

LEMMA ConcatenatedIsPlaced ==
    ASSUME SubsType
    PROVE  Concatenated <=>
              /\ IsPrefix(Fold(subs.initial), Whole) /\ IsSuffix(Fold(subs.final), Whole)
              /\ \E at \in Placings(Whole, Inner, Start, Len(Inner)) :
                    EndOf(Inner, Start, at, Len(Inner)) <= Len(Whole) - Len(subs.final)
<1>. DEFINE v == Whole
            n == Len(Inner)
            seg(k)  == Fold(subs.any[k])
            Begin(at, k) == IF k > n THEN Len(v) - Len(subs.final) + 1 ELSE at[k]
            End(at, k)   == IF k = 0 THEN Len(subs.initial) ELSE at[k] + Len(seg(k)) - 1
            Good(at) == /\ \A k \in 1..n : Occurs(seg(k), v, at[k])
                        /\ \A k \in 0..n : End(at, k) < Begin(at, k + 1)
<1>1. /\ v \in Seq(Tokens) /\ Inner \in Seq(Seq(Tokens)) /\ n = Len(subs.any) /\ Start \in Nat
      /\ n \in Nat /\ Len(v) \in Nat /\ DOMAIN v = 1..Len(v) /\ Len(subs.final) \in Nat
    BY Compared, LenProperties DEF SubsType, SubstringsSet
<1>2. Concatenated <=> /\ IsPrefix(Fold(subs.initial), v) /\ IsSuffix(Fold(subs.final), v)
                       /\ \E at \in [1..n -> DOMAIN v] : Good(at)
    BY <1>1, Zenon DEF Concatenated, Whole
<1>3. ASSUME NEW at \in [1..n -> DOMAIN v]
      PROVE  Good(at) <=> Placed(v, Inner, Start, at, n) /\ EndOf(Inner, Start, at, n) <= Len(v) - Len(subs.final)
    <2>1. \A k \in 1..n : seg(k) = Inner[k]
        <3>1. DOMAIN subs.any = 1..n
            BY <1>1, LenProperties DEF SubsType, SubstringsSet
        <3>. QED BY <3>1 DEF Inner
    <2>2. \A k \in 0..n : End(at, k) = EndOf(Inner, Start, at, k)
        <3>1. ASSUME NEW k \in 0..n PROVE End(at, k) = EndOf(Inner, Start, at, k)
            <4>1. CASE k = 0
                BY <4>1 DEF EndOf, Start
            <4>2. CASE k # 0
                <5>1. k \in 1..n
                    BY <4>2, <1>1
                <5>2. seg(k) = Inner[k]
                    BY <2>1, <5>1
                <5>. QED BY <4>2, <5>2 DEF EndOf
            <4>. QED BY <4>1, <4>2
        <3>. QED BY <3>1
    <2>3. EndOf(Inner, Start, at, n) \in Int
        <3>1. n \in 0..n
            BY <1>1
        <3>. QED BY <1>1, <3>1, EndOfType
    <2>4. End(at, n) < Begin(at, n + 1) <=> EndOf(Inner, Start, at, n) <= Len(v) - Len(subs.final)
        <3>0. n + 1 > n /\ n \in 0..n
            BY <1>1
        <3>1. Begin(at, n + 1) = Len(v) - Len(subs.final) + 1
            BY <3>0, Zenon
        <3>2. End(at, n) = EndOf(Inner, Start, at, n)
            BY <2>2, <3>0
        <3>. DEFINE e == EndOf(Inner, Start, at, n)
                    w == Len(v)
                    f == Len(subs.final)
        <3>3. e \in Int /\ w \in Int /\ f \in Int
            BY <1>1, <2>3
        <3>. HIDE DEF End, Begin, e, w, f
        <3>4. e < w - f + 1 <=> e <= w - f
            BY <3>3
        <3>. QED BY <3>1, <3>2, <3>4 DEF e, w, f
    <2>5. (\A k \in 0..n : End(at, k) < Begin(at, k + 1))
             <=> /\ \A k \in 1..n : EndOf(Inner, Start, at, k - 1) < at[k]
                 /\ End(at, n) < Begin(at, n + 1)
        <3>1. \A k \in 1..n : Begin(at, k) = at[k]
            <4>1. \A k \in 1..n : ~(k > n)
                BY <1>1
            <4>. QED BY <4>1, Zenon
        <3>. HIDE DEF End, Begin
        <3>2. ASSUME \A k \in 0..n : End(at, k) < Begin(at, k + 1), NEW k \in 1..n
              PROVE  EndOf(Inner, Start, at, k - 1) < at[k]
            <4>1. k - 1 \in 0..n /\ (k - 1) + 1 = k
                BY <1>1
            <4>. QED BY <2>2, <3>1, <3>2, <4>1
        <3>3. ASSUME \A k \in 1..n : EndOf(Inner, Start, at, k - 1) < at[k],
                     End(at, n) < Begin(at, n + 1), NEW k \in 0..n
              PROVE  End(at, k) < Begin(at, k + 1)
            <4>1. CASE k = n
                BY <4>1, <3>3
            <4>2. CASE k # n
                <5>1. k + 1 \in 1..n /\ (k + 1) - 1 = k
                    BY <4>2, <1>1
                <5>. QED BY <2>2, <3>1, <3>3, <5>1
            <4>. QED BY <4>1, <4>2
        <3>4. n \in 0..n
            BY <1>1
        <3>. QED BY <3>2, <3>3, <3>4
    <2>. HIDE DEF seg, End, Begin
    <2>6. (\A k \in 1..n : Occurs(seg(k), v, at[k])) <=> (\A k \in 1..n : Occurs(Inner[k], v, at[k]))
        BY <2>1
    <2>. QED BY <2>4, <2>5, <2>6 DEF Placed
<1>. HIDE DEF Good, v, n
<1>4. (\E at \in [1..n -> DOMAIN v] : Good(at))
         <=> \E at \in Placings(v, Inner, Start, n) : EndOf(Inner, Start, at, n) <= Len(v) - Len(subs.final)
    BY <1>3 DEF Placings
<1>. QED BY <1>2, <1>4 DEF v, n

LEMMA FromFrom ==
    ASSUME NEW E, NEW s \in Seq(E), NEW p \in 0..Len(s), NEW k \in 0..(Len(s) - p)
    PROVE  From(From(s, p + 1), k + 1) = From(s, p + k + 1)
<1>. DEFINE r == From(s, p + 1)
            a == From(r, k + 1)
            b == From(s, p + k + 1)
<1>1. Len(s) \in Nat /\ p \in Nat /\ k \in Nat
    BY LenProperties
<1>2. r \in Seq(E) /\ Len(r) = Len(s) - p /\ \A i \in 1..(Len(s) - p) : r[i] = s[p + i]
    BY FromAny
<1>. HIDE DEF r
<1>3. k \in 0..Len(r)
    BY <1>2
<1>4. a \in Seq(E) /\ Len(a) = Len(r) - k /\ \A i \in 1..(Len(r) - k) : a[i] = r[k + i]
    <2>1. r \in Seq(E)
        BY <1>2
    <2>. QED BY <1>3, <2>1, FromAny
<1>5. p + k \in 0..Len(s)
    BY <1>1
<1>6. b \in Seq(E) /\ Len(b) = Len(s) - (p + k) /\ \A i \in 1..(Len(s) - (p + k)) : b[i] = s[(p + k) + i]
    BY <1>5, FromAny
<1>. HIDE DEF a, b
<1>7. Len(a) = Len(b)
    BY <1>1, <1>2, <1>4, <1>6
<1>8. ASSUME NEW i \in 1..Len(a) PROVE a[i] = b[i]
    <2>1. i \in 1..(Len(r) - k) /\ i \in 1..(Len(s) - (p + k)) /\ k + i \in 1..(Len(s) - p) /\ p + (k + i) = (p + k) + i
        BY <1>1, <1>2, <1>4
    <2>. QED BY <1>2, <1>4, <1>6, <2>1
<1>9. a = b
    BY <1>4, <1>6, <1>7, <1>8, SeqEqual
<1>. QED BY <1>9 DEF a, b, r

LEMMA CallStable ==
    ASSUME UNCHANGED <<rule, value, assertion, subs>>
    PROVE  /\ SubsType' = SubsType /\ Whole' = Whole /\ Inner' = Inner /\ Start' = Start
           /\ Fold(subs.initial)' = Fold(subs.initial) /\ Fold(subs.final)' = Fold(subs.final)
           /\ Concatenated' = Concatenated
<1>1. /\ SubsType' = SubsType /\ Whole' = Whole /\ Inner' = Inner /\ Start' = Start
      /\ Fold(subs.initial)' = Fold(subs.initial) /\ Fold(subs.final)' = Fold(subs.final)
    BY DEF SubsType, Whole, Inner, Start, Fold, Folds, Prepared
<1>2. Concatenated' = Concatenated
    BY DEF Concatenated, Fold, Folds, Prepared
<1>. QED BY <1>1, <1>2

LEMMA ParseStep ==
    ASSUME MatcherInv, Parse
    PROVE  MatcherInv'
<1>. DEFINE p == Marshalled(Prepared(assertion))
<1>1. value \in Seq(Tokens) /\ assertion \in Seq(Tokens)
    BY DEF MatcherInv, SubsType
<1>2. p \in SubstringsSet /\ Malformed \in SubstringsSet
    <2>1. Malformed \in SubstringsSet
        BY DEF Malformed, SubstringsSet
    <2>. QED BY <1>1, <2>1, PreparedType, MarshalledType
<1>. HIDE DEF p
<1>3. /\ subs' \in {p, Malformed} /\ UNCHANGED <<rule, value, assertion>>
      /\ mode' \in {"initial", "error"}
      /\ mode' = "initial" => rest' = Whole
    BY DEF Parse, p, Called, Fail, Whole
<1>4. SubsType'
    BY <1>1, <1>2, <1>3 DEF SubsType
<1>5. Whole' = Whole
    BY <1>3 DEF Whole, Fold, Folds, Prepared
<1>. QED BY <1>3, <1>4, <1>5 DEF MatcherInv

LEMMA MatchInitialStep ==
    ASSUME MatcherInv, MatchInitial
    PROVE  MatcherInv'
<1>1. SubsType /\ rest = Whole /\ mode = "initial"
    BY DEF MatcherInv, MatchInitial
<1>2. UNCHANGED <<rule, value, assertion, subs>>
    BY DEF MatchInitial, Called
<1>3. CASE mode' = "error"
    BY <1>1, <1>2, <1>3, CallStable DEF MatcherInv
<1>4. CASE mode' = "done"
    <2>1. ~IsPrefix(Fold(subs.initial), Whole) /\ answer' = FALSE
        BY <1>1, <1>4 DEF MatchInitial, Answer, Fail
    <2>2. ~Concatenated
        BY <1>1, <2>1, ConcatenatedIsPlaced
    <2>. QED BY <1>1, <1>2, <1>4, <2>1, <2>2, CallStable DEF MatcherInv
<1>5. CASE mode' = "any"
    <2>1. /\ IsPrefix(Fold(subs.initial), Whole)
          /\ rest' = From(Whole, Start + 1) /\ segs' = Inner
        BY <1>1, <1>5 DEF MatchInitial, Answer, Fail, Start, Inner
    <2>2. /\ Whole \in Seq(Tokens) /\ Inner \in Seq(Seq(Tokens)) /\ Start \in Nat
          /\ Len(Fold(subs.initial)) = Start /\ Len(Inner) \in Nat /\ Len(Whole) \in Nat
        BY <1>1, Compared, LenProperties
    <2>3. Start \in 0..Len(Whole) /\ 0 \in 0..Len(Inner)
        BY <2>1, <2>2 DEF IsPrefix
    <2>4. Inner = [k \in 1..(Len(Inner) - 0) |-> Inner[0 + k]]
        <3>1. Inner \in [1..Len(Inner) -> Seq(Tokens)]
            BY <2>2, LenProperties
        <3>2. Len(Inner) - 0 = Len(Inner) /\ \A k \in 1..Len(Inner) : 0 + k = k
            BY <2>2
        <3>. QED BY <3>1, <3>2
    <2>5. Found(Whole, Inner, Start, 0, Start)
        BY <2>2, FoundNone
    <2>6. Halfway'
        <3>1. \E j \in 0..Len(Inner) : \E p \in 0..Len(Whole) :
                 /\ rest' = From(Whole, p + 1)
                 /\ segs' = [k \in 1..(Len(Inner) - j) |-> Inner[j + k]]
                 /\ Found(Whole, Inner, Start, j, p)
            BY <2>1, <2>3, <2>4, <2>5, Zenon
        <3>. QED BY <1>2, <2>1, <3>1, CallStable DEF Halfway
    <2>. QED BY <1>1, <1>2, <1>5, <2>6, CallStable DEF MatcherInv
<1>6. mode' \in {"error", "done", "any"}
    BY DEF MatchInitial, Answer, Fail
<1>. QED BY <1>3, <1>4, <1>5, <1>6

LEMMA MatchAnyStep ==
    ASSUME MatcherInv, MatchAny
    PROVE  MatcherInv'
<1>1. SubsType /\ Halfway /\ mode = "any" /\ segs # << >>
    BY DEF MatcherInv, MatchAny
<1>2. UNCHANGED <<rule, value, assertion, subs>>
    BY DEF MatchAny, Called
<1>. DEFINE v == Whole
            gs == Inner
            n == Len(Inner)
<1>3. PICK j \in 0..n, p \in 0..Len(v) :
         /\ rest = From(v, p + 1)
         /\ segs = [k \in 1..(n - j) |-> gs[j + k]]
         /\ Found(v, gs, Start, j, p)
    BY <1>1 DEF Halfway
<1>4. v \in Seq(Tokens) /\ gs \in Seq(Seq(Tokens)) /\ Start \in Nat /\ n \in Nat /\ Len(v) \in Nat
    BY <1>1, Compared, LenProperties
<1>5. IsPrefix(Fold(subs.initial), Whole)
    BY <1>1 DEF Halfway
<1>. HIDE DEF v, gs, n
<1>6. j < n /\ j + 1 \in 1..n /\ j + 1 \in 0..n /\ j \in Nat /\ 1 \in 1..(n - j)
    <2>1. CASE j = n
        <3>1. n - j \in Nat /\ n - j = 0 /\ \A k \in 1..(n - j) : gs[j + k] \in Seq(Tokens)
            BY <1>4, <2>1
        <3>2. segs \in Seq(Seq(Tokens))
            BY <1>3, <3>1, IsASeq
        <3>3. Len(segs) = 0
            BY <1>3, <3>1, <3>2, LenProperties
        <3>. QED BY <1>1, <3>2, <3>3, EmptySeq
    <2>2. CASE j # n
        BY <2>2, <1>4
    <2>. QED BY <2>1, <2>2
<1>. DEFINE g == gs[j + 1]
<1>7. segs[1] = g /\ g \in Seq(Tokens) /\ Len(g) \in Nat
    <2>1. segs[1] = g
        BY <1>3, <1>6
    <2>2. g \in Seq(Tokens)
        BY <1>4, <1>6, ElementOfSeq DEF n, gs
    <2>. QED BY <2>1, <2>2, LenProperties
<1>8. rest \in Seq(Tokens) /\ Len(rest) = Len(v) - p /\ DOMAIN rest = 1..(Len(v) - p)
    <2>1. rest \in Seq(Tokens) /\ Len(rest) = Len(v) - p
        BY <1>3, <1>4, FromAny
    <2>. QED BY <2>1, LenProperties
<1>9. CASE \A i \in DOMAIN rest : ~Occurs(g, rest, i)
    <2>1. mode' = "done" /\ answer' = FALSE
        BY <1>7, <1>9 DEF MatchAny, Answer
    <2>2. Placings(v, gs, Start, Len(gs)) = {}
        <3>1. \A i \in 1..(Len(v) - p) : ~Occurs(gs[j + 1], From(v, p + 1), i)
            BY <1>3, <1>8, <1>9
        <3>2. j < Len(gs)
            BY <1>6 DEF n, gs
        <3>. QED BY <1>3, <1>4, <1>6, <3>1, <3>2, FoundNoMore
    <2>3. ~Concatenated
        BY <1>1, <2>2, ConcatenatedIsPlaced DEF v, gs
    <2>. QED BY <1>1, <1>2, <2>1, <2>3, CallStable DEF MatcherInv
<1>10. CASE ~\A i \in DOMAIN rest : ~Occurs(g, rest, i)
    <2>. DEFINE T == {i \in 1..Len(rest) : Occurs(g, rest, i)}
                i == FirstAt(g, rest)
                q == p + i + Len(g) - 1
    <2>1. /\ mode' = "any" /\ segs' = Tail(segs) /\ rest' = From(rest, i + Len(g))
        BY <1>1, <1>7, <1>10 DEF MatchAny, LeftOf
    <2>2. /\ i \in 1..(Len(v) - p) /\ Occurs(g, rest, i)
          /\ \A k \in 1..(i - 1) : ~Occurs(g, rest, k)
        <3>1. T \subseteq 1..Len(rest) /\ T # {} /\ Len(rest) \in Nat
            BY <1>8, <1>10, LenProperties
        <3>2. PICK x \in T : \A y \in T : x <= y
            <4>. HIDE DEF T
            <4>. QED BY <3>1, FirstPosition
        <3>3. \A k \in 1..(x - 1) : ~Occurs(g, rest, k)
            <4>1. ASSUME NEW k \in 1..(x - 1), Occurs(g, rest, k) PROVE FALSE
                <5>1. k \in 1..Len(rest) /\ ~(x <= k)
                    BY <3>1, <3>2
                <5>. QED BY <4>1, <5>1, <3>2
            <4>. QED BY <4>1
        <3>4. \E z \in DOMAIN rest : Occurs(g, rest, z) /\ \A k \in 1..(z - 1) : ~Occurs(g, rest, k)
            BY <3>2, <3>3, <1>8
        <3>. QED BY <3>4, <1>8 DEF FirstAt
    <2>. HIDE DEF i, T
    <2>3. q \in 0..Len(v) /\ Found(v, gs, Start, j + 1, q)
        <3>1. j < Len(gs)
            BY <1>6 DEF n, gs
        <3>2. Occurs(gs[j + 1], From(v, p + 1), i) /\ \A k \in 1..(i - 1) : ~Occurs(gs[j + 1], From(v, p + 1), k)
            BY <1>3, <2>2
        <3>. HIDE DEF g
        <3>. QED BY <1>3, <1>4, <1>6, <2>2, <3>1, <3>2, FoundNext DEF g
    <2>4. rest' = From(v, q + 1)
        <3>. DEFINE k == i + Len(g) - 1
        <3>1. k \in 0..(Len(v) - p) /\ k + 1 = i + Len(g) /\ p + k + 1 = q + 1
            <4>1. i \in Int /\ i >= 1 /\ p \in Int
                BY <1>4, <2>2
            <4>2. q \in 0..Len(v)
                BY <2>3
            <4>. HIDE DEF g
            <4>. QED BY <1>4, <1>7, <4>1, <4>2
        <3>. HIDE DEF k, q
        <3>2. From(From(v, p + 1), k + 1) = From(v, p + k + 1)
            BY <1>4, <3>1, FromFrom
        <3>. QED BY <1>3, <2>1, <3>1, <3>2
    <2>5. segs' = [k \in 1..(n - (j + 1)) |-> gs[(j + 1) + k]]
        <3>1. \A k \in 1..(n - j) : gs[j + k] \in Seq(Tokens)
            <4>1. \A k \in 1..(n - j) : j + k \in 1..n
                BY <1>4
            <4>. QED BY <1>4, <4>1, ElementOfSeq DEF n, gs
        <3>2. segs \in Seq(Seq(Tokens)) /\ n - j \in Nat
            BY <1>3, <1>4, <1>6, <3>1, IsASeq
        <3>3. Len(segs) = n - j
            BY <3>2, <1>3, LenProperties
        <3>4. /\ Tail(segs) \in Seq(Seq(Tokens)) /\ Len(Tail(segs)) = (n - j) - 1
              /\ \A k \in 1..((n - j) - 1) : Tail(segs)[k] = segs[k + 1]
            BY <1>1, <3>2, <3>3, HeadTailProperties
        <3>5. (n - j) - 1 = n - (j + 1)
            BY <1>4, <1>6
        <3>6. DOMAIN Tail(segs) = 1..(n - (j + 1))
            BY <3>4, <3>5, LenProperties
        <3>7. \A k \in 1..(n - (j + 1)) : segs[k + 1] = gs[(j + 1) + k]
            <4>1. \A k \in 1..(n - (j + 1)) : k + 1 \in 1..(n - j) /\ j + (k + 1) = (j + 1) + k
                BY <1>4, <1>6
            <4>. QED BY <1>3, <4>1
        <3>8. \A k \in 1..(n - (j + 1)) : Tail(segs)[k] = gs[(j + 1) + k]
            BY <3>4, <3>5, <3>7
        <3>9. Tail(segs) \in [1..(n - (j + 1)) -> Seq(Tokens)]
            BY <3>4, <3>6, LenProperties
        <3>. QED BY <2>1, <3>8, <3>9
    <2>6. Halfway'
        <3>1. \E jj \in 0..n : \E pp \in 0..Len(v) :
                 /\ rest' = From(v, pp + 1)
                 /\ segs' = [k \in 1..(n - jj) |-> gs[jj + k]]
                 /\ Found(v, gs, Start, jj, pp)
            <4>. HIDE DEF q
            <4>. QED BY <1>6, <2>3, <2>4, <2>5, Zenon
        <3>. QED BY <1>2, <1>5, <3>1, CallStable DEF Halfway, v, gs, n
    <2>. QED BY <1>1, <1>2, <2>1, <2>6, CallStable DEF MatcherInv
<1>. QED BY <1>9, <1>10

LEMMA MatchFinalStep ==
    ASSUME MatcherInv, MatchFinal
    PROVE  MatcherInv'
<1>1. SubsType /\ Halfway /\ mode = "any" /\ segs = << >>
    BY DEF MatcherInv, MatchFinal
<1>2. UNCHANGED <<rule, value, assertion, subs>> /\ mode' = "done"
    BY DEF MatchFinal, Called, Answer
<1>3. answer' = IsSuffix(Fold(subs.final), rest)
    BY DEF MatchFinal, Answer
<1>. DEFINE v == Whole
            n == Len(Inner)
            f == Fold(subs.final)
<1>4. PICK j \in 0..n, p \in 0..Len(v) :
         /\ rest = From(v, p + 1)
         /\ segs = [k \in 1..(n - j) |-> Inner[j + k]]
         /\ Found(v, Inner, Start, j, p)
    BY <1>1 DEF Halfway
<1>5. /\ v \in Seq(Tokens) /\ Inner \in Seq(Seq(Tokens)) /\ Start \in Nat /\ n \in Nat /\ Len(v) \in Nat
      /\ f \in Seq(Tokens) /\ Len(f) = Len(subs.final) /\ Len(f) \in Nat
    BY <1>1, Compared, LenProperties
<1>6. IsPrefix(Fold(subs.initial), v)
    BY <1>1 DEF Halfway
<1>. HIDE DEF v, n, f
<1>7. j = n
    <2>1. DOMAIN segs = {} /\ DOMAIN segs = 1..(n - j)
        BY <1>1, <1>4, EmptyAny
    <2>2. 1 \notin 1..(n - j)
        BY <2>1
    <2>. QED BY <1>5, <2>2
<1>8. answer' <=> IsSuffix(f, v) /\ p <= Len(v) - Len(f)
    BY <1>3, <1>4, <1>5, SuffixOfFrom DEF f
<1>9. (\E at \in Placings(v, Inner, Start, n) : EndOf(Inner, Start, at, n) <= Len(v) - Len(f))
         <=> p <= Len(v) - Len(f)
    <2>1. ASSUME NEW at \in Placings(v, Inner, Start, n)
          PROVE  EndOf(Inner, Start, at, n) \in Int /\ p <= EndOf(Inner, Start, at, n)
        <3>1. at \in [1..n -> DOMAIN v] /\ n \in 0..n
            BY <1>5 DEF Placings
        <3>2. n \in 0..Len(Inner)
            BY <1>5 DEF n
        <3>3. EndOf(Inner, Start, at, n) \in Int
            BY <1>5, <3>1, <3>2, EndOfType
        <3>. QED BY <3>3, <1>4, <1>7 DEF Found
    <2>2. \E at \in Placings(v, Inner, Start, n) : EndOf(Inner, Start, at, n) = p
        BY <1>4, <1>7 DEF Found
    <2>3. ASSUME NEW at \in Placings(v, Inner, Start, n), EndOf(Inner, Start, at, n) <= Len(v) - Len(f)
          PROVE  p <= Len(v) - Len(f)
        <3>. DEFINE e == EndOf(Inner, Start, at, n)
        <3>1. e \in Int /\ p <= e /\ e <= Len(v) - Len(f)
            BY <2>1, <2>3
        <3>. HIDE DEF e
        <3>. QED BY <1>5, <3>1
    <2>. QED BY <2>2, <2>3
<1>10. Concatenated <=> IsSuffix(f, v) /\ p <= Len(v) - Len(f)
    BY <1>1, <1>5, <1>6, <1>9, ConcatenatedIsPlaced DEF v, n, f
<1>11. answer' <=> Concatenated
    BY <1>8, <1>10
<1>. QED BY <1>1, <1>2, <1>11, CallStable DEF MatcherInv

LEMMA MatcherInvHolds == Spec => []MatcherInv
<1>1. Init => MatcherInv
    <2>. SUFFICES ASSUME Init PROVE MatcherInv
        OBVIOUS
    <2>1. PICK c \in Calls : value = c.value /\ assertion = c.assertion
        BY DEF Init
    <2>2. value \in Seq(Tokens) /\ assertion \in Seq(Tokens)
        BY <2>1, CallsAssumption
    <2>3. subs \in SubstringsSet /\ mode = "entry"
        BY DEF Init, Malformed, SubstringsSet
    <2>. QED BY <2>2, <2>3 DEF MatcherInv, SubsType
<1>2. MatcherInv /\ [Next]_vars => MatcherInv'
    <2>. SUFFICES ASSUME MatcherInv, [Next]_vars PROVE MatcherInv'
        OBVIOUS
    <2>1. CASE Parse
        BY <2>1, ParseStep
    <2>2. CASE MatchInitial
        BY <2>2, MatchInitialStep
    <2>3. CASE MatchAny
        BY <2>3, MatchAnyStep
    <2>4. CASE MatchFinal
        BY <2>4, MatchFinalStep
    <2>5. CASE UNCHANGED vars
        <3>1. UNCHANGED <<rule, value, assertion, subs, rest, segs, mode, answer>>
            BY <2>5 DEF vars
        <3>2. Halfway' <=> Halfway
            BY <3>1, CallStable DEF Halfway
        <3>. QED BY <3>1, <3>2, CallStable DEF MatcherInv
    <2>. QED BY <2>1, <2>2, <2>3, <2>4, <2>5 DEF Next
<1>. QED BY <1>1, <1>2, PTL DEF Spec

\* substringsMatch, which takes the first occurrence of each inner substring and never
\* goes back, says yes exactly of the values that are made up as RFC 4517 wants it, for
\* every value, every assertion and every rule.
THEOREM FirstOccurrenceTheorem == Spec => []FirstOccurrenceSuffices
<1>1. MatcherInv => FirstOccurrenceSuffices
    BY DEF MatcherInv, FirstOccurrenceSuffices
<1>. QED BY <1>1, MatcherInvHolds, PTL

-----------------------------------------------------------------------------
(* Powers of two, which tell how many bytes an encoding has. The library's *)
(* induction is out of the provers' reach, so that the function is made    *)
(* here from its initial pieces, by the least number that has none.        *)

Piece(k, f) == f \in [0..k -> Nat] /\ f[0] = 1 /\ \A n \in 1..k : f[n] = 2 * f[n - 1]

LEMMA PiecesExist == \A k \in Nat : \E f : Piece(k, f)
<1>. SUFFICES ASSUME NEW k \in Nat, ~\E f : Piece(k, f) PROVE FALSE
    OBVIOUS
<1>. DEFINE T == {m \in 1..(k + 1) : ~\E f : Piece(m - 1, f)}
<1>1. k + 1 \in 1..(k + 1) /\ (k + 1) - 1 = k
    OBVIOUS
<1>2. T \subseteq 1..(k + 1) /\ T # {} /\ k + 1 \in Nat
    BY <1>1
<1>3. PICK m \in T : \A y \in T : m <= y
    <2>. HIDE DEF T
    <2>. QED BY <1>2, FirstPosition
<1>4. CASE m = 1
    <2>. DEFINE f == [n \in 0..0 |-> 1]
    <2>1. Piece(0, f)
        BY DEF Piece
    <2>2. m - 1 = 0
        BY <1>4
    <2>3. Piece(m - 1, f)
        BY <2>1, <2>2
    <2>. QED BY <2>3
<1>5. CASE m # 1
    <2>1. m \in 1..(k + 1) /\ m - 1 \in 1..(k + 1) /\ ~(m <= m - 1)
        BY <1>5
    <2>2. m - 1 \notin T
        BY <1>3, <2>1, Zenon
    <2>3. PICK g : Piece((m - 1) - 1, g)
        BY <2>1, <2>2
    <2>. DEFINE d == m - 1
                f == [n \in 0..d |-> IF n = d THEN 2 * g[d - 1] ELSE g[n]]
    <2>4. d \in Nat /\ d >= 1 /\ g \in [0..(d - 1) -> Nat] /\ g[0] = 1
          /\ \A n \in 1..(d - 1) : g[n] = 2 * g[n - 1]
        BY <2>1, <2>3 DEF Piece
    <2>. HIDE DEF d
    <2>5. f \in [0..d -> Nat] /\ f[0] = 1
        BY <2>4
    <2>6. \A n \in 1..d : f[n] = 2 * f[n - 1]
        BY <2>4
    <2>7. Piece(d, f)
        BY <2>5, <2>6 DEF Piece
    <2>. HIDE DEF f
    <2>8. Piece(m - 1, f)
        BY <2>7 DEF d
    <2>. QED BY <2>8
<1>. QED BY <1>4, <1>5

LEMMA PiecesAgree ==
    ASSUME NEW k \in Nat, NEW l \in Nat, NEW f, NEW g, Piece(k, f), Piece(l, g),
           NEW n \in 0..k, n \in 0..l
    PROVE  f[n] = g[n]
<1>. SUFFICES ASSUME f[n] # g[n] PROVE FALSE
    OBVIOUS
<1>. DEFINE T == {m \in 1..n : f[m] # g[m]}
<1>1. f[0] = g[0]
    BY DEF Piece
<1>2. n \in Nat /\ n \in 1..n /\ T \subseteq 1..n /\ T # {}
    BY <1>1
<1>3. PICK m \in T : \A y \in T : m <= y
    <2>. HIDE DEF T
    <2>. QED BY <1>2, FirstPosition
<1>4. f[m - 1] = g[m - 1]
    <2>1. CASE m = 1
        BY <2>1, <1>1
    <2>2. CASE m # 1
        <3>1. m - 1 \in 1..n /\ ~(m <= m - 1)
            BY <2>2
        <3>. QED BY <3>1, <1>3, Zenon
    <2>. QED BY <2>1, <2>2
<1>5. f[m] = 2 * f[m - 1] /\ g[m] = 2 * g[m - 1]
    <2>1. m \in 1..k /\ m \in 1..l
        OBVIOUS
    <2>. QED BY <2>1 DEF Piece
<1>. QED BY <1>4, <1>5

LEMMA PowerIs ==
    /\ Power[0] = 1
    /\ \A n \in Nat : Power[n] \in Nat /\ Power[n + 1] = 2 * Power[n]
<1>. DEFINE F == [n \in Nat |-> (CHOOSE f : Piece(n, f))[n]]
<1>1. ASSUME NEW n \in Nat
      PROVE  Piece(n, CHOOSE f : Piece(n, f))
    BY PiecesExist
<1>2. F[0] = 1
    <2>1. Piece(0, CHOOSE f : Piece(0, f))
        BY <1>1
    <2>. QED BY <2>1 DEF Piece
<1>3. ASSUME NEW n \in Nat PROVE F[n] \in Nat /\ F[n + 1] = 2 * F[n]
    <2>. DEFINE f == CHOOSE h : Piece(n, h)
                g == CHOOSE h : Piece(n + 1, h)
    <2>1. Piece(n, f) /\ Piece(n + 1, g)
        BY <1>1
    <2>2. F[n] = f[n] /\ F[n + 1] = g[n + 1]
        OBVIOUS
    <2>. HIDE DEF f, g, F
    <2>3. n + 1 \in Nat /\ n \in 0..n /\ n \in 0..(n + 1) /\ n + 1 \in 1..(n + 1) /\ (n + 1) - 1 = n
        OBVIOUS
    <2>4. f[n] = g[n]
        BY <2>1, <2>3, PiecesAgree
    <2>5. g[n + 1] = 2 * g[n] /\ f[n] \in Nat
        BY <2>1, <2>3 DEF Piece
    <2>. QED BY <2>2, <2>4, <2>5
<1>4. F = [n \in Nat |-> IF n = 0 THEN 1 ELSE 2 * F[n - 1]]
    <2>1. ASSUME NEW n \in Nat PROVE F[n] = IF n = 0 THEN 1 ELSE 2 * F[n - 1]
        <3>1. CASE n = 0
            BY <3>1, <1>2
        <3>2. CASE n # 0
            <4>1. n - 1 \in Nat /\ (n - 1) + 1 = n
                BY <3>2
            <4>2. F[(n - 1) + 1] = 2 * F[n - 1]
                BY <4>1, <1>3
            <4>. HIDE DEF F
            <4>. QED BY <3>2, <4>1, <4>2
        <3>. QED BY <3>1, <3>2
    <2>2. F = [n \in Nat |-> F[n]]
        OBVIOUS
    <2>. HIDE DEF F
    <2>. QED BY <2>1, <2>2
<1>. HIDE DEF F
<1>5. Power = [n \in Nat |-> IF n = 0 THEN 1 ELSE 2 * Power[n - 1]]
    <2>. DEFINE P(h) == h = [n \in Nat |-> IF n = 0 THEN 1 ELSE 2 * h[n - 1]]
    <2>1. P(F)
        BY <1>4
    <2>2. Power = CHOOSE h : P(h)
        BY DEF Power
    <2>. HIDE DEF P
    <2>3. P(Power)
        BY <2>1, <2>2
    <2>. QED BY <2>3 DEF P
<1>6. Power[0] = 1 /\ \A n \in Nat : Power[n + 1] = 2 * Power[n]
    <2>1. \A n \in Nat : n + 1 \in Nat /\ n + 1 # 0 /\ (n + 1) - 1 = n
        OBVIOUS
    <2>. QED BY <1>5, <2>1
<1>7. ASSUME NEW n \in Nat, Power[n] # F[n] PROVE FALSE
    <2>. DEFINE T == {m \in 1..n : Power[m] # F[m]}
    <2>1. n \in 1..n /\ T \subseteq 1..n /\ T # {}
        BY <1>2, <1>6, <1>7
    <2>2. PICK m \in T : \A y \in T : m <= y
        <3>. HIDE DEF T
        <3>. QED BY <2>1, FirstPosition
    <2>3. Power[m - 1] = F[m - 1]
        <3>1. CASE m = 1
            BY <3>1, <1>2, <1>6
        <3>2. CASE m # 1
            <4>1. m - 1 \in 1..n /\ ~(m <= m - 1)
                BY <3>2
            <4>. QED BY <4>1, <2>2, Zenon
        <3>. QED BY <3>1, <3>2
    <2>4. m - 1 \in Nat /\ (m - 1) + 1 = m
        OBVIOUS
    <2>5. Power[(m - 1) + 1] = F[(m - 1) + 1]
        BY <1>3, <1>6, <2>3, <2>4
    <2>. QED BY <2>4, <2>5
<1>. QED BY <1>3, <1>6, <1>7

LEMMA PowerGrows ==
    ASSUME NEW n \in Nat, NEW m \in 0..n
    PROVE  /\ Power[m] \in Nat /\ Power[n] \in Nat
           /\ Power[m] <= Power[n] /\ n < Power[n]
<1>. DEFINE Bad(k) == (m <= k /\ ~(Power[m] <= Power[k])) \/ ~(k < Power[k])
            T == {k \in 1..n : Bad(k)}
<1>1. Power[0] = 1 /\ \A k \in Nat : Power[k] \in Nat /\ Power[k + 1] = 2 * Power[k]
    BY PowerIs
<1>2. ~Bad(0)
    BY <1>1
<1>3. T = {}
    <2>. SUFFICES ASSUME T # {} PROVE FALSE
        OBVIOUS
    <2>1. PICK k \in T : \A y \in T : k <= y
        <3>1. T \subseteq 1..n
            OBVIOUS
        <3>. HIDE DEF T
        <3>. QED BY <3>1, FirstPosition
    <2>2. k \in 1..n /\ Bad(k)
        OBVIOUS
    <2>3. ~Bad(k - 1)
        <3>1. CASE k = 1
            BY <3>1, <1>2
        <3>2. CASE k # 1
            <4>1. k - 1 \in 1..n /\ ~(k <= k - 1)
                BY <3>2
            <4>. QED BY <4>1, <2>1, Zenon
        <3>. QED BY <3>1, <3>2
    <2>4. k - 1 \in Nat /\ (k - 1) + 1 = k
        BY <2>2
    <2>5. Power[k] = 2 * Power[k - 1] /\ Power[k - 1] \in Nat /\ Power[m] \in Nat
        <3>1. Power[(k - 1) + 1] = 2 * Power[k - 1] /\ Power[k - 1] \in Nat
            BY <1>1, <2>4
        <3>. QED BY <3>1, <2>4, <1>1
    <2>6. k - 1 < Power[k - 1] /\ (m <= k - 1 => Power[m] <= Power[k - 1])
        BY <2>3
    <2>7. m = k \/ m <= k - 1 \/ ~(m <= k)
        BY <2>2
    <2>. DEFINE a == Power[k - 1]
                b == Power[m]
                c == Power[k]
    <2>8. c = 2 * a /\ a \in Nat /\ b \in Nat /\ k - 1 < a /\ (m <= k - 1 => b <= a)
        BY <2>5, <2>6
    <2>9. m = k => b = c
        OBVIOUS
    <2>10. (m <= k /\ ~(b <= c)) \/ ~(k < c)
        BY <2>2
    <2>. HIDE DEF a, b, c
    <2>. QED BY <2>2, <2>7, <2>8, <2>9, <2>10
<1>4. ~Bad(n)
    <2>1. n = 0 \/ n \in 1..n
        OBVIOUS
    <2>. QED BY <1>2, <1>3, <2>1
<1>5. m <= n
    OBVIOUS
<1>. QED BY <1>1, <1>4, <1>5

LEMMA WidthOf ==
    ASSUME NEW n \in Nat \ {0}
    PROVE  /\ ByteBits * n - 1 \in Nat
           /\ \A m \in 1..n : ByteBits * m - 1 \in 0..(ByteBits * n - 1)
           /\ n - 1 <= ByteBits * n - 1
<1>1. ByteBits \in Nat /\ ByteBits >= 1
    BY WidthAssumption
<1>2. ASSUME NEW m \in Nat, m >= 1 PROVE ByteBits * m \in Nat /\ ByteBits * m >= m
    BY <1>1, <1>2
<1>3. ASSUME NEW m \in Nat, m <= n PROVE ByteBits * m <= ByteBits * n
    BY <1>1, <1>3
<1>4. ASSUME NEW m \in 1..n PROVE ByteBits * m - 1 \in 0..(ByteBits * n - 1)
    <2>1. ByteBits * m \in Nat /\ ByteBits * m >= 1 /\ ByteBits * m <= ByteBits * n /\ ByteBits * n \in Nat
        BY <1>2, <1>3
    <2>. QED BY <2>1
<1>. QED BY <1>2, <1>4

LEMMA HalfType == Half \in Nat /\ Half >= 1
<1>1. NativeBytes \in Nat \ {0}
    BY WidthAssumption
<1>2. ByteBits * NativeBytes - 1 \in Nat
    BY <1>1, WidthOf
<1>. QED BY <1>2, PowerGrows DEF Half

\* The length of an encoding tells a number that fits an int64 from one that does not.
LEMMA BytesTell ==
    ASSUME NEW v \in Magnitudes
    PROVE  DecodedBig(Encoded(v)) <=> ~Fits(v)
<1>. DEFINE max == MaxMagnitude + NativeBytes
            T == {n \in 1..max : FitsIn(v, n)}
<1>1. NativeBytes \in Nat \ {0} /\ MaxMagnitude \in Nat /\ max \in Nat \ {0}
    BY WidthAssumption, MagnitudeAssumption
<1>2. v \in Int /\ -MaxMagnitude <= v /\ v <= MaxMagnitude
    BY <1>1 DEF Magnitudes
<1>3. ASSUME NEW n \in Nat \ {0}, NEW m \in 1..n, FitsIn(v, m) PROVE FitsIn(v, n)
    <2>. DEFINE a == Power[ByteBits * m - 1]
                b == Power[ByteBits * n - 1]
    <2>1. a \in Nat /\ b \in Nat /\ a <= b
        BY WidthOf, PowerGrows
    <2>2. -a <= v /\ v < a
        BY <1>3 DEF FitsIn
    <2>. HIDE DEF a, b
    <2>3. -b <= v /\ v < b
        BY <1>2, <2>1, <2>2
    <2>. QED BY <2>3 DEF FitsIn, b
<1>4. FitsIn(v, max)
    <2>. DEFINE e == ByteBits * max - 1
                b == Power[e]
    <2>1. e \in Nat /\ max - 1 <= e
        BY <1>1, WidthOf
    <2>2. b \in Nat /\ e < b
        <3>. HIDE DEF e
        <3>. QED BY <2>1, PowerGrows
    <2>. HIDE DEF b, e
    <2>3. -b <= v /\ v < b
        BY <1>1, <1>2, <2>1, <2>2
    <2>. QED BY <2>3 DEF FitsIn, b, e
<1>5. PICK x \in T : \A y \in T : x <= y
    <2>1. T \subseteq 1..max /\ T # {}
        BY <1>1, <1>4
    <2>. HIDE DEF T, max
    <2>. QED BY <1>1, <2>1, FirstPosition
<1>6. x > 1 => ~FitsIn(v, x - 1)
    <2>. SUFFICES ASSUME x > 1 PROVE x - 1 \notin T
        BY <1>1
    <2>1. ~(x <= x - 1)
        BY <1>1
    <2>. QED BY <1>5, <2>1, Zenon
<1>. DEFINE n == Bytes(v)
<1>7. n \in 1..max /\ FitsIn(v, n) /\ (n > 1 => ~FitsIn(v, n - 1))
    BY <1>5, <1>6 DEF Bytes
<1>8. Fits(v) <=> FitsIn(v, NativeBytes)
    BY DEF Fits, FitsIn, Half
<1>9. DecodedBig(Encoded(v)) <=> n > NativeBytes
    BY <1>1, <1>7 DEF DecodedBig, Encoded
<1>. HIDE DEF n, max
<1>10. ASSUME n > NativeBytes PROVE ~Fits(v)
    <2>1. n - 1 \in Nat \ {0} /\ NativeBytes \in 1..(n - 1) /\ n > 1
        BY <1>1, <1>7, <1>10
    <2>. QED BY <1>3, <1>7, <1>8, <2>1
<1>11. ASSUME ~(n > NativeBytes) PROVE Fits(v)
    <2>1. n \in 1..NativeBytes
        BY <1>1, <1>7, <1>11
    <2>. QED BY <1>1, <1>3, <1>7, <1>8, <2>1
<1>. QED BY <1>9, <1>10, <1>11

-----------------------------------------------------------------------------
(* Integers                                                                *)

Natives == -Half..(Half - 1)
IntegerSet == [big : BOOLEAN, ok : BOOLEAN, native : Natives, bigInt : Cells \cup {None}]
Integers(is) == is \in [Handles -> IntegerSet] /\ \A i \in Handles : is[i].big => is[i].bigInt # None

LEMMA NumberTypes ==
    /\ Natives \subseteq Magnitudes /\ 0 \in Natives /\ Natives \subseteq Int /\ Magnitudes \subseteq Int
    /\ \A v \in Int : Wrap(v) \in Natives
    /\ \A v \in Magnitudes : Fits(v) => v \in Natives
<1>1. Half \in Nat /\ Half >= 1 /\ MaxMagnitude \in Nat /\ MaxMagnitude >= Half
    BY HalfType, MagnitudeAssumption
<1>2. ASSUME NEW v \in Int PROVE Wrap(v) \in Natives
    <2>1. 2 * Half \in Nat \ {0} /\ v + Half \in Int
        BY <1>1
    <2>2. (v + Half) % (2 * Half) \in 0..(2 * Half - 1)
        BY <2>1
    <2>. QED BY <1>1, <2>2 DEF Wrap, Natives
<1>. QED BY <1>1, <1>2 DEF Natives, Magnitudes, Fits

LEMMA MagnitudeOf ==
    ASSUME TypeOK, NEW i \in Handles
    PROVE  Value(i) \in Magnitudes
<1>1. int[i] \in IntegerSet /\ (int[i].big => int[i].bigInt # None)
    BY DEF TypeOK, IntegerSet, Natives
<1>2. CASE int[i].big
    <2>1. int[i].bigInt \in DOMAIN bigs
        BY <1>1, <1>2 DEF TypeOK, InUse
    <2>. QED BY <1>2, <2>1 DEF TypeOK, Value, Magnitude
<1>3. CASE ~int[i].big
    BY <1>1, <1>3, NumberTypes DEF Value, Magnitude, IntegerSet
<1>. QED BY <1>2, <1>3

\* What holds of the Integers, the caller's big.Int and the magnitudes an operation leaves.
LEMMA LeaveType ==
    ASSUME NEW is, Integers(is), NEW h \in Cells \cup {None}, NEW b,
           \A c \in InUse(is, h) : b[c] \in Magnitudes,
           Leave(is, h, b), kin' \subseteq Holders \X Holders, fault' \in Texts \cup {<< >>}
    PROVE  TypeOK'
<1>1. int' = is /\ held' = h /\ bigs' = [c \in InUse(is, h) |-> b[c]]
    BY DEF Leave
<1>2. InUse(int, held)' = InUse(is, h)
    BY <1>1 DEF InUse
<1>3. DOMAIN bigs' = InUse(is, h) /\ \A c \in DOMAIN bigs' : bigs'[c] \in Magnitudes
    BY <1>1
<1>. QED BY <1>1, <1>2, <1>3 DEF TypeOK, Integers, IntegerSet, Natives

LEMMA FreshOne ==
    ASSUME Room
    PROVE  Fresh \in Cells /\ Fresh \notin InUse(int, held) /\ Fresh # None
<1>1. \E c \in Cells : c \notin InUse(int, held)
    BY DEF Room
<1>2. Fresh \in Cells /\ Fresh \notin InUse(int, held)
    BY <1>1 DEF Fresh
<1>. QED BY <1>2, CellsAssumption

LEMMA KinType ==
    ASSUME kin \subseteq Holders \X Holders, NEW x \in Holders, NEW y \in Holders
    PROVE  Alone(x) \subseteq Holders \X Holders /\ With(x, y) \subseteq Holders \X Holders
<1>1. Alone(x) \subseteq Holders \X Holders
    BY DEF Alone
<1>2. With(x, y) \subseteq Alone(x) \cup {<<x, k>> : k \in Holders} \cup {<<k, x>> : k \in Holders}
    BY DEF With
<1>. QED BY <1>1, <1>2

IntegersOK == Integers(int) /\ held \in Cells \cup {None} /\ DOMAIN bigs = InUse(int, held)
                /\ (\A c \in InUse(int, held) : bigs[c] \in Magnitudes)
                /\ kin \subseteq Holders \X Holders /\ fault \in Texts \cup {<< >>}
LEMMA TypesOK == TypeOK <=> IntegersOK
BY DEF TypeOK, IntegersOK, Integers, IntegerSet, Natives


LEMMA OneType ==
    ASSUME TypeOK, NEW i \in Handles, NEW r \in IntegerSet, r.big => r.bigInt # None,
           NEW b, \A c \in (InUse(int, held) \cup {r.bigInt}) \ {None} : b[c] \in Magnitudes,
           Leave([int EXCEPT ![i] = r], held, b),
           kin' \subseteq Holders \X Holders, fault' \in Texts \cup {<< >>}
    PROVE  TypeOK'
<1>. DEFINE is == [int EXCEPT ![i] = r]
<1>1. IntegersOK
    BY TypesOK
<1>2. Integers(is)
    BY <1>1 DEF IntegersOK, Integers
<1>3. InUse(is, held) \subseteq (InUse(int, held) \cup {r.bigInt}) \ {None}
    BY <1>1 DEF InUse, IntegersOK, Integers
<1>. HIDE DEF is
<1>4. Leave(is, held, b)
    BY DEF is
<1>. QED BY <1>1, <1>2, <1>3, <1>4, LeaveType DEF IntegersOK

LEMMA AssignType ==
    ASSUME TypeOK, NEW i \in Handles, NEW v, Assign(i, v), fault' \in Texts \cup {<< >>}
    PROVE  TypeOK'
<1>1. IntegersOK /\ v \in Magnitudes /\ kin' \subseteq Holders \X Holders
    BY TypesOK, KinType DEF Assign, Bounded, Holders, IntegersOK
<1>2. CASE Fits(v)
    <2>1. Native(v) \in IntegerSet /\ ~Native(v).big /\ Native(v).bigInt = None
        BY <1>1, <1>2, NumberTypes DEF Native, IntegerSet
    <2>2. Leave([int EXCEPT ![i] = Native(v)], held, bigs)
        BY <1>2 DEF Assign
    <2>. QED BY <1>1, <2>1, <2>2, OneType DEF IntegersOK
<1>3. CASE ~Fits(v)
    <2>1. Room /\ Leave([int EXCEPT ![i] = Big(Fresh)], held, Put(bigs, Fresh, v))
        BY <1>3 DEF Assign
    <2>2. Fresh \in Cells /\ Fresh # None
        BY <2>1, FreshOne
    <2>3. Big(Fresh) \in IntegerSet /\ Big(Fresh).bigInt = Fresh
        BY <2>2, NumberTypes DEF Big, IntegerSet
    <2>4. \A c \in (InUse(int, held) \cup {Fresh}) \ {None} : Put(bigs, Fresh, v)[c] \in Magnitudes
        BY <1>1 DEF Put, IntegersOK
    <2>. QED BY <1>1, <2>1, <2>2, <2>3, <2>4, OneType DEF IntegersOK
<1>. QED BY <1>2, <1>3

LEMMA NewFromTextType ==
    ASSUME TypeOK, NEW i \in Handles, NEW t \in Texts, NewFromText(i, t)
    PROVE  TypeOK'
<1>1. IntegersOK
    BY TypesOK
<1>2. CASE Check(t) /\ ~IsNumber(t)
    BY <1>1, <1>2 DEF NewFromText, TypeOK, InUse
<1>3. CASE ~(Check(t) /\ ~IsNumber(t)) /\ Check(t)
    BY <1>1, <1>3, AssignType DEF NewFromText, IntegersOK
<1>4. CASE ~Check(t)
    <2>1. Bogus \in IntegerSet /\ ~Bogus.big /\ Bogus.bigInt = None
        BY NumberTypes DEF Bogus, IntegerSet
    <2>2. Leave([int EXCEPT ![i] = Bogus], held, bigs) /\ kin' = Alone(i) /\ fault' = fault
        BY <1>4 DEF NewFromText
    <2>3. kin' \subseteq Holders \X Holders
        BY <1>1, <2>2, KinType DEF IntegersOK, Holders
    <2>. QED BY <1>1, <2>1, <2>2, <2>3, OneType DEF IntegersOK
<1>. QED BY <1>2, <1>3, <1>4

LEMMA NewFromBigType ==
    ASSUME TypeOK, NEW i \in Handles, NewFromBig(i)
    PROVE  TypeOK'
<1>1. IntegersOK /\ held \in InUse(int, held) /\ bigs[held] \in Magnitudes
    BY TypesOK DEF IntegersOK, NewFromBig, InUse
<1>2. kin' \subseteq Holders \X Holders /\ fault' = fault
    BY <1>1, KinType DEF NewFromBig, IntegersOK, Holders
<1>3. CASE Fits(bigs[held])
    <2>1. Native(bigs[held]) \in IntegerSet /\ ~Native(bigs[held]).big /\ Native(bigs[held]).bigInt = None
        BY <1>1, <1>3, NumberTypes DEF Native, IntegerSet
    <2>2. Leave([int EXCEPT ![i] = Native(bigs[held])], held, bigs)
        BY <1>3 DEF NewFromBig
    <2>. QED BY <1>1, <1>2, <2>1, <2>2, OneType DEF IntegersOK
<1>4. CASE ~Fits(bigs[held])
    <2>1. Big(held) \in IntegerSet /\ Big(held).bigInt = held /\ held # None
        BY <1>1, NumberTypes DEF Big, IntegerSet, IntegersOK, NewFromBig
    <2>2. Leave([int EXCEPT ![i] = Big(held)], held, bigs)
        BY <1>4 DEF NewFromBig
    <2>. QED BY <1>1, <1>2, <2>1, <2>2, OneType DEF IntegersOK
<1>. QED BY <1>3, <1>4

LEMMA CopyType ==
    ASSUME TypeOK, NEW i \in Handles, NEW j \in Handles, Copy(i, j)
    PROVE  TypeOK'
<1>1. IntegersOK
    BY TypesOK
<1>2. int[j] \in IntegerSet /\ (int[j].big => int[j].bigInt # None)
      /\ {int[j].bigInt} \ {None} \subseteq InUse(int, held)
    BY <1>1 DEF IntegersOK, Integers, InUse
<1>3. kin' \subseteq Holders \X Holders
    BY <1>1, KinType DEF Copy, IntegersOK, Holders
<1>. QED BY <1>1, <1>2, <1>3, OneType DEF Copy, IntegersOK

LEMMA CallerType ==
    ASSUME TypeOK, (\E v \in Magnitudes : Hold(v) \/ AddToHeld(v)) \/ \E i \in Handles : TakeBig(i)
    PROVE  TypeOK'
<1>1. IntegersOK
    BY TypesOK
<1>2. ASSUME NEW h \in Cells \cup {None}, NEW b, Leave(int, h, b),
             \A c \in (InUse(int, held) \cup {h}) \ {None} : b[c] \in Magnitudes,
             kin' \subseteq Holders \X Holders, fault' = fault
      PROVE  TypeOK'
    <2>1. InUse(int, h) \subseteq (InUse(int, held) \cup {h}) \ {None}
        BY DEF InUse
    <2>. QED BY <1>1, <1>2, <2>1, LeaveType DEF IntegersOK
<1>3. ASSUME NEW v \in Magnitudes, Room, Leave(int, Fresh, Put(bigs, Fresh, v)), kin' = Alone(Caller), fault' = fault
      PROVE  TypeOK'
    <2>1. Fresh \in Cells
        BY <1>3, FreshOne
    <2>2. \A c \in (InUse(int, held) \cup {Fresh}) \ {None} : Put(bigs, Fresh, v)[c] \in Magnitudes
        BY <1>1 DEF Put, IntegersOK
    <2>3. kin' \subseteq Holders \X Holders
        BY <1>1, <1>3, KinType DEF IntegersOK, Holders
    <2>. QED BY <1>2, <1>3, <2>1, <2>2, <2>3
<1>4. ASSUME NEW v \in Magnitudes, Hold(v) PROVE TypeOK'
    BY <1>3, <1>4 DEF Hold
<1>5. ASSUME NEW v \in Magnitudes, AddToHeld(v) PROVE TypeOK'
    <2>. DEFINE b == [bigs EXCEPT ![held] = @ + v]
    <2>1. Leave(int, held, b) /\ bigs[held] + v \in Magnitudes /\ kin' = kin /\ fault' = fault
        BY <1>5 DEF AddToHeld, Bounded
    <2>2. \A c \in (InUse(int, held) \cup {held}) \ {None} : b[c] \in Magnitudes
        BY <1>1, <2>1 DEF IntegersOK, InUse
    <2>. HIDE DEF b
    <2>. QED BY <1>1, <1>2, <2>1, <2>2 DEF IntegersOK
<1>6. ASSUME NEW i \in Handles, TakeBig(i) PROVE TypeOK'
    <2>1. int[i] \in IntegerSet
        BY <1>1 DEF IntegersOK, Integers
    <2>2. CASE int[i].big
        <3>1. Leave(int, int[i].bigInt, bigs) /\ kin' = With(Caller, i) /\ fault' = fault
            BY <1>6, <2>2 DEF TakeBig
        <3>2. int[i].bigInt \in Cells \cup {None} /\ int[i].bigInt \in InUse(int, held) \cup {None}
            BY <2>1 DEF IntegerSet, InUse
        <3>3. kin' \subseteq Holders \X Holders
            BY <1>1, <3>1, KinType DEF IntegersOK, Holders
        <3>. QED BY <1>1, <1>2, <3>1, <3>2, <3>3 DEF IntegersOK
    <2>3. CASE ~int[i].big
        <3>1. int[i].native \in Magnitudes
            BY <2>1, NumberTypes DEF IntegerSet
        <3>. QED BY <1>3, <1>6, <2>3, <3>1 DEF TakeBig
    <2>. QED BY <2>2, <2>3
<1>. QED BY <1>4, <1>5, <1>6

\* The three things Add does, each a change of one Integer.
LEMMA AddCases ==
    ASSUME TypeOK, NEW i \in Handles, NEW isBig, NEW v \in Int, Room, Add(i, isBig, v, Fresh)
    PROVE  /\ fault' = fault
           /\ \/ /\ int[i].big /\ Value(i) + v \in Magnitudes /\ kin' = kin
                 /\ Leave(int, held, [bigs EXCEPT ![int[i].bigInt] = @ + v])
              \/ \E r \in IntegerSet :
                    /\ ~r.big /\ r.bigInt = Fresh /\ Value(i) + v \in Magnitudes /\ kin' = Alone(i)
                    /\ Leave([int EXCEPT ![i] = r], held, Put(bigs, Fresh, Value(i) + v))
              \/ \E r \in IntegerSet :
                    /\ ~r.big /\ r.bigInt = int[i].bigInt /\ kin' = kin
                    /\ Leave([int EXCEPT ![i] = r], held, bigs)
<1>1. int \in [Handles -> IntegerSet]
    BY TypesOK DEF IntegersOK, Integers
<1>2. int[i] \in IntegerSet /\ fault' = fault
    BY <1>1 DEF Add
<1>3. CASE int[i].big
    BY <1>2, <1>3 DEF Add, Bounded
<1>4. CASE ~int[i].big /\ isBig
    <2>. DEFINE r == [int[i] EXCEPT !.bigInt = Fresh, !.native = 0]
    <2>1. r \in IntegerSet /\ ~r.big /\ r.bigInt = Fresh
        BY <1>2, <1>4, FreshOne, NumberTypes DEF IntegerSet
    <2>2. [int EXCEPT ![i].bigInt = Fresh, ![i].native = 0] = [int EXCEPT ![i] = r]
        BY <1>1, <1>2, <1>4 DEF IntegerSet
    <2>3. /\ Value(i) + v \in Magnitudes /\ kin' = Alone(i)
          /\ Leave([int EXCEPT ![i].bigInt = Fresh, ![i].native = 0], held, Put(bigs, Fresh, Value(i) + v))
        BY <1>4 DEF Add, Bounded
    <2>4. Leave([int EXCEPT ![i] = r], held, Put(bigs, Fresh, Value(i) + v))
        BY <2>2, <2>3
    <2>. HIDE DEF r
    <2>. QED BY <1>2, <2>1, <2>3, <2>4
<1>5. CASE ~int[i].big /\ ~isBig
    <2>. DEFINE r == [int[i] EXCEPT !.native = Wrap(@ + v)]
    <2>1. Wrap(int[i].native + v) \in Natives
        <3>1. int[i].native \in Int
            BY <1>2, NumberTypes DEF IntegerSet
        <3>. QED BY <3>1, NumberTypes
    <2>2. r \in IntegerSet /\ ~r.big /\ r.bigInt = int[i].bigInt
        BY <1>2, <1>5, <2>1 DEF IntegerSet
    <2>3. [int EXCEPT ![i].native = Wrap(@ + v)] = [int EXCEPT ![i] = r]
        BY <1>1
    <2>4. Leave([int EXCEPT ![i].native = Wrap(@ + v)], held, bigs) /\ kin' = kin
        BY <1>5 DEF Add
    <2>5. Leave([int EXCEPT ![i] = r], held, bigs)
        BY <2>3, <2>4
    <2>. HIDE DEF r
    <2>. QED BY <1>2, <2>2, <2>4, <2>5
<1>. QED BY <1>3, <1>4, <1>5

\* And the three things Decode does.
LEMMA DecodeCases ==
    ASSUME TypeOK, NEW i \in Handles, NEW j \in Handles, Decode(i, j)
    PROVE  /\ fault' = fault /\ Room
           /\ \E r \in IntegerSet :
                 /\ r.big = int[i].big
                 /\ \/ /\ r.bigInt = Fresh /\ kin' = Alone(i)
                       /\ Leave([int EXCEPT ![i] = r], held, Put(bigs, Fresh, Value(j)))
                    \/ /\ r.bigInt = int[i].bigInt /\ kin' = kin
                       /\ Leave([int EXCEPT ![i] = r], held, Put(bigs, Fresh, Value(j)))
                    \/ /\ r.bigInt = int[i].bigInt /\ kin' = kin
                       /\ Leave([int EXCEPT ![i] = r], held, bigs)
<1>1. int \in [Handles -> IntegerSet]
    BY TypesOK DEF IntegersOK, Integers
<1>2. int[i] \in IntegerSet /\ fault' = fault /\ Room /\ Value(j) \in Magnitudes
    BY <1>1, MagnitudeOf DEF Decode
<1>. DEFINE e == Encoded(Value(j))
<1>3. e.value = Value(j)
    BY DEF Encoded
<1>4. ASSUME int[j].ok PROVE Leave([int EXCEPT ![i] = DecodedInto(@, e, Fresh)], held, Put(bigs, Fresh, Value(j)))
    BY <1>3, <1>4 DEF Decode
<1>5. CASE int[j].ok /\ DecodedBig(e)
    <2>. DEFINE r == [int[i] EXCEPT !.bigInt = Fresh, !.ok = TRUE]
    <2>1. r \in IntegerSet /\ r.big = int[i].big /\ r.bigInt = Fresh
        BY <1>2, FreshOne DEF IntegerSet
    <2>2. DecodedInto(int[i], e, Fresh) = r
        BY <1>5 DEF DecodedInto
    <2>3. [int EXCEPT ![i] = DecodedInto(@, e, Fresh)] = [int EXCEPT ![i] = r]
        BY <2>2
    <2>4. kin' = Alone(i)
        BY <1>5 DEF Decode
    <2>5. Leave([int EXCEPT ![i] = r], held, Put(bigs, Fresh, Value(j)))
        BY <1>4, <1>5, <2>3
    <2>. HIDE DEF r
    <2>. QED BY <1>2, <2>1, <2>4, <2>5
<1>6. CASE int[j].ok /\ ~DecodedBig(e)
    <2>. DEFINE r == [int[i] EXCEPT !.native = Value(j), !.ok = TRUE]
    <2>1. Value(j) \in Natives
        BY <1>2, <1>6, BytesTell, NumberTypes
    <2>2. r \in IntegerSet /\ r.big = int[i].big /\ r.bigInt = int[i].bigInt
        BY <1>2, <2>1 DEF IntegerSet
    <2>3. DecodedInto(int[i], e, Fresh) = r
        BY <1>3, <1>6 DEF DecodedInto
    <2>4. [int EXCEPT ![i] = DecodedInto(@, e, Fresh)] = [int EXCEPT ![i] = r]
        BY <2>3
    <2>5. kin' = kin
        BY <1>6 DEF Decode
    <2>6. Leave([int EXCEPT ![i] = r], held, Put(bigs, Fresh, Value(j)))
        BY <1>4, <1>6, <2>4
    <2>. HIDE DEF r
    <2>. QED BY <1>2, <2>2, <2>5, <2>6
<1>7. CASE ~int[j].ok
    <2>1. PICK read \in BOOLEAN : Leave([int EXCEPT ![i].native = 0, ![i].ok = read], held, bigs)
        BY <1>7 DEF Decode
    <2>. DEFINE r == [int[i] EXCEPT !.native = 0, !.ok = read]
    <2>2. r \in IntegerSet /\ r.big = int[i].big /\ r.bigInt = int[i].bigInt
        BY <1>2, NumberTypes DEF IntegerSet
    <2>3. [int EXCEPT ![i].native = 0, ![i].ok = read] = [int EXCEPT ![i] = r]
        BY <1>1, <1>2 DEF IntegerSet
    <2>4. kin' = kin
        BY <1>7 DEF Decode
    <2>5. Leave([int EXCEPT ![i] = r], held, bigs)
        BY <2>1, <2>3
    <2>. HIDE DEF r
    <2>. QED BY <1>2, <2>2, <2>4, <2>5
<1>. QED BY <1>5, <1>6, <1>7

LEMMA AddType ==
    ASSUME TypeOK, NEW i \in Handles, NEW isBig, NEW v \in Int, Room, Add(i, isBig, v, Fresh)
    PROVE  TypeOK'
<1>1. IntegersOK /\ int[i] \in IntegerSet /\ (int[i].big => int[i].bigInt # None)
    BY TypesOK DEF IntegersOK, Integers
<1>2. kin \subseteq Holders \X Holders /\ Alone(i) \subseteq Holders \X Holders /\ fault' \in Texts \cup {<< >>}
    BY <1>1, AddCases, KinType DEF IntegersOK, Holders
<1>3. CASE /\ int[i].big /\ Value(i) + v \in Magnitudes /\ kin' = kin
           /\ Leave(int, held, [bigs EXCEPT ![int[i].bigInt] = @ + v])
    <2>. DEFINE b == [bigs EXCEPT ![int[i].bigInt] = @ + v]
    <2>1. \A c \in InUse(int, held) : b[c] \in Magnitudes
        BY <1>1, <1>3 DEF IntegersOK, Value, Magnitude
    <2>2. Leave(int, held, b)
        BY <1>3
    <2>. HIDE DEF b
    <2>. QED BY <1>1, <1>2, <1>3, <2>1, <2>2, LeaveType DEF IntegersOK
<1>4. ASSUME NEW r \in IntegerSet, ~r.big, r.bigInt = Fresh, Value(i) + v \in Magnitudes, kin' = Alone(i),
             Leave([int EXCEPT ![i] = r], held, Put(bigs, Fresh, Value(i) + v))
      PROVE  TypeOK'
    <2>1. \A c \in (InUse(int, held) \cup {r.bigInt}) \ {None} : Put(bigs, Fresh, Value(i) + v)[c] \in Magnitudes
        BY <1>1, <1>4 DEF Put, IntegersOK
    <2>. QED BY <1>2, <1>4, <2>1, OneType
<1>5. ASSUME NEW r \in IntegerSet, ~r.big, r.bigInt = int[i].bigInt, kin' = kin, Leave([int EXCEPT ![i] = r], held, bigs)
      PROVE  TypeOK'
    <2>1. \A c \in (InUse(int, held) \cup {r.bigInt}) \ {None} : bigs[c] \in Magnitudes
        BY <1>1, <1>5 DEF IntegersOK, InUse
    <2>. QED BY <1>2, <1>5, <2>1, OneType
<1>. QED BY <1>3, <1>4, <1>5, AddCases

LEMMA DecodeType ==
    ASSUME TypeOK, NEW i \in Handles, NEW j \in Handles, Decode(i, j)
    PROVE  TypeOK'
<1>1. IntegersOK /\ int[i] \in IntegerSet /\ (int[i].big => int[i].bigInt # None) /\ Value(j) \in Magnitudes
    BY TypesOK, MagnitudeOf DEF IntegersOK, Integers
<1>2. /\ kin \subseteq Holders \X Holders /\ Alone(i) \subseteq Holders \X Holders
      /\ fault' \in Texts \cup {<< >>} /\ Fresh # None
    BY <1>1, DecodeCases, KinType, FreshOne DEF IntegersOK, Holders
<1>3. PICK r \in IntegerSet :
         /\ r.big = int[i].big /\ r.bigInt \in {Fresh, int[i].bigInt} /\ kin' \in {kin, Alone(i)}
         /\ \/ Leave([int EXCEPT ![i] = r], held, Put(bigs, Fresh, Value(j)))
            \/ r.bigInt = int[i].bigInt /\ Leave([int EXCEPT ![i] = r], held, bigs)
    BY DecodeCases
<1>4. \A c \in (InUse(int, held) \cup {Fresh}) \ {None} : Put(bigs, Fresh, Value(j))[c] \in Magnitudes
    BY <1>1 DEF Put, IntegersOK
<1>5. \A c \in InUse(int, held) : bigs[c] \in Magnitudes
    BY <1>1 DEF IntegersOK
<1>6. {int[i].bigInt} \ {None} \subseteq InUse(int, held)
    BY DEF InUse
<1>. QED BY <1>1, <1>2, <1>3, <1>4, <1>5, <1>6, OneType

LEMMA IntegerTypes == IntegerSpec => []TypeOK
<1>1. IntegerInit => TypeOK
    <2>. SUFFICES ASSUME IntegerInit PROVE TypeOK
        OBVIOUS
    <2>1. Bogus \in IntegerSet /\ ~Bogus.big /\ Bogus.bigInt = None
        BY NumberTypes DEF Bogus, IntegerSet
    <2>2. Integers(int)
        BY <2>1 DEF IntegerInit, Integers
    <2>3. InUse(int, held) = {}
        BY <2>1 DEF IntegerInit, InUse
    <2>4. DOMAIN bigs = {}
        BY EmptyAny DEF IntegerInit
    <2>. QED BY <2>2, <2>3, <2>4, TypesOK DEF IntegersOK, IntegerInit
<1>2. TypeOK /\ [IntegerNext]_intVars => TypeOK'
    <2>. SUFFICES ASSUME TypeOK, [IntegerNext]_intVars PROVE TypeOK'
        OBVIOUS
    <2>0. fault \in Texts \cup {<< >>}
        BY DEF TypeOK
    <2>1. ASSUME NEW i \in Handles, NEW v, New(i, v) PROVE TypeOK'
        BY <2>0, <2>1, AssignType DEF New
    <2>2. ASSUME NEW i \in Handles, NEW t \in Texts, NewFromText(i, t) PROVE TypeOK'
        BY <2>2, NewFromTextType
    <2>3. ASSUME NEW i \in Handles, NewFromBig(i) PROVE TypeOK'
        BY <2>3, NewFromBigType
    <2>4. ASSUME NEW i \in Handles, TakeBig(i) PROVE TypeOK'
        BY <2>4, CallerType
    <2>5. ASSUME NEW i \in Handles, NEW j \in Handles, Copy(i, j) PROVE TypeOK'
        BY <2>5, CopyType
    <2>6. ASSUME NEW i \in Handles, NEW j \in Handles, IncrementBy(i, j) PROVE TypeOK'
        <3>1. Value(j) \in Int
            BY MagnitudeOf, NumberTypes
        <3>2. Room /\ Add(i, int[j].big, Value(j), Fresh)
            BY <2>6 DEF IncrementBy, UpgradedCell
        <3>. QED BY <3>1, <3>2, AddType
    <2>7. ASSUME NEW i \in Handles, NEW j \in Handles, Decode(i, j) PROVE TypeOK'
        BY <2>7, DecodeType
    <2>8. ASSUME NEW v \in Magnitudes, Hold(v) \/ AddToHeld(v) PROVE TypeOK'
        BY <2>8, CallerType
    <2>9. ASSUME NEW i \in Handles, NEW v \in -Half..(2 * Half - 1), Increment(i, v) PROVE TypeOK'
        <3>1. v \in Int
            BY HalfType
        <3>2. Room /\ Add(i, ~Fits(v), v, Fresh)
            BY <2>9 DEF Increment
        <3>. QED BY <3>1, <3>2, AddType
    <2>10. CASE UNCHANGED intVars
        BY <2>10 DEF intVars, TypeOK, InUse
    <2>. QED BY <2>1, <2>2, <2>3, <2>4, <2>5, <2>6, <2>7, <2>8, <2>9, <2>10 DEF IntegerNext
<1>. QED BY <1>1, <1>2, PTL DEF IntegerSpec

\* For an int64 of any width: a value that fits it is what Decode makes of its encoding,
\* and of the encoding of one that does not fit it makes 0; it compares as what was
\* decoded, and the comparisons and the rules say of two Integers what their numbers do.
THEOREM IntegersRoundTrip == IntegerSpec => []RoundTrips
<1>1. TypeOK => RoundTrips
    <2>. SUFFICES ASSUME TypeOK, NEW i \in Handles, NEW j \in Handles, int[i].ok, int[j].ok
                  PROVE  LET decoded == DecodedInto(Bogus, Encoded(Value(i)), None)
                             read    == IF Fits(Value(i)) THEN Value(i) ELSE 0
                         IN  /\ Magnitude(decoded, bigs) = read
                             /\ Cmp(decoded, int[j]) = Sign(read - Value(j))
                             /\ Cmp(int[i], int[j]) = Sign(Value(i) - Value(j))
                             /\ Matches(i, "=", j) <=> Matches(i, ">=", j) /\ Matches(i, "<=", j)
        BY DEF RoundTrips
    <2>. DEFINE v == Value(i)
                w == Value(j)
                decoded == DecodedInto(Bogus, Encoded(v), None)
                read    == IF Fits(v) THEN v ELSE 0
    <2>1. v \in Int /\ w \in Int /\ v \in Magnitudes
        BY MagnitudeOf, NumberTypes
    <2>2. ~decoded.big /\ decoded.native = read
        <3>1. DecodedBig(Encoded(v)) <=> ~Fits(v)
            BY <2>1, BytesTell
        <3>2. Encoded(v).value = v
            BY DEF Encoded
        <3>. HIDE DEF v
        <3>. QED BY <3>1, <3>2 DEF DecodedInto, Bogus
    <2>3. Magnitude(decoded, bigs) = read
        BY <2>2 DEF Magnitude
    <2>4. Magnitude(int[i], bigs) = v /\ Magnitude(int[j], bigs) = w
        BY DEF Value
    <2>. HIDE DEF decoded, read, v, w
    <2>5. Cmp(decoded, int[j]) = Sign(read - w)
        BY <2>2, <2>3, <2>4 DEF Cmp, Magnitude
    <2>6. Cmp(int[i], int[j]) = Sign(v - w)
        BY <2>4 DEF Cmp, Magnitude
    <2>7. Sign(v - w) \in {-1, 0, 1}
        BY <2>1 DEF Sign
    <2>8. Matches(i, "=", j) <=> Matches(i, ">=", j) /\ Matches(i, "<=", j)
        BY <2>6, <2>7 DEF Matches
    <2>. QED BY <2>3, <2>5, <2>6, <2>8 DEF decoded, read, v, w
<1>. QED BY <1>1, IntegerTypes, PTL

-----------------------------------------------------------------------------
(* Who follows a change of a big.Int                                       *)

CellOf(x) == IF x = Caller THEN held ELSE int[x].bigInt

\* Two who have one big.Int are known to: one is a copy of the other, or of its copy.
KinInv == \A x, y \in Holders : x # y /\ CellOf(x) # None /\ CellOf(x) = CellOf(y) => <<x, y>> \in kin

LEMMA CellOfOne ==
    ASSUME NEW i \in Handles, NEW r, NEW h, NEW b, Leave([int EXCEPT ![i] = r], h, b), int \in [Handles -> IntegerSet]
    PROVE  /\ CellOf(i)' = r.bigInt
           /\ \A y \in Handles \ {i} : CellOf(y)' = CellOf(y) /\ int'[y] = int[y]
           /\ CellOf(Caller)' = h
BY CellsAssumption DEF CellOf, Leave

LEMMA KinAlone ==
    ASSUME KinInv, NEW x \in Holders, kin' = Alone(x),
           \A y \in Holders \ {x} : CellOf(y)' = CellOf(y) /\ (CellOf(x)' # None => CellOf(x)' # CellOf(y))
    PROVE  KinInv'
BY DEF KinInv, Alone

LEMMA KinWith ==
    ASSUME KinInv, NEW x \in Holders, NEW z \in Holders \ {x}, kin' = With(x, z), CellOf(x)' = CellOf(z),
           \A y \in Holders \ {x} : CellOf(y)' = CellOf(y)
    PROVE  KinInv'
<1>. DEFINE K == {z} \cup {l \in Holders \ {x} : <<z, l>> \in kin}
<1>1. ASSUME NEW y \in Holders \ {x}, CellOf(x)' # None, CellOf(x)' = CellOf(y)' PROVE y \in K
    <2>1. CellOf(z) # None /\ CellOf(z) = CellOf(y)
        BY <1>1
    <2>. QED BY <2>1 DEF KinInv
<1>2. ASSUME NEW y \in K PROVE <<x, y>> \in With(x, z) /\ <<y, x>> \in With(x, z)
    <2>1. With(x, z) = Alone(x) \cup UNION {{<<x, k>>, <<k, x>>} : k \in K}
        BY DEF With
    <2>. HIDE DEF K
    <2>2. {<<x, y>>, <<y, x>>} \in {{<<x, k>>, <<k, x>>} : k \in K}
        OBVIOUS
    <2>3. {<<x, y>>, <<y, x>>} \subseteq With(x, z)
        BY <2>1, <2>2, Zenon
    <2>. QED BY <2>3
<1>3. Alone(x) \subseteq With(x, z)
    BY DEF With
<1>. HIDE DEF K
<1>4. ASSUME NEW a \in Holders, NEW b \in Holders, a # b, CellOf(a)' # None, CellOf(a)' = CellOf(b)'
      PROVE  <<a, b>> \in With(x, z)
    <2>1. CASE a = x
        BY <2>1, <1>1, <1>2, <1>4
    <2>2. CASE b = x
        BY <2>2, <1>1, <1>2, <1>4
    <2>3. CASE a # x /\ b # x
        <3>1. <<a, b>> \in kin
            BY <2>3, <1>4 DEF KinInv
        <3>2. <<a, b>> \in Alone(x)
            BY <2>3, <3>1 DEF Alone
        <3>. QED BY <3>2, <1>3
    <2>. QED BY <2>1, <2>2, <2>3
<1>. QED BY <1>4 DEF KinInv

LEMMA KinSame ==
    ASSUME KinInv, kin' = kin, \A y \in Holders : CellOf(y)' = CellOf(y)
    PROVE  KinInv'
BY DEF KinInv

\* One who is not changed, and whose big.Int is not, sees what it saw.
LEMMA SeesTheSame ==
    ASSUME TypeOK, NEW is, NEW h, NEW b, Leave(is, h, b), NEW y \in Holders,
           IF y = Caller THEN h = held ELSE is[y] = int[y],
           CellOf(y) \in DOMAIN bigs => b[CellOf(y)] = bigs[CellOf(y)]
    PROVE  Seen(y)' = Seen(y)
<1>1. int' = is /\ held' = h /\ bigs' = [c \in InUse(is, h) |-> b[c]]
    BY DEF Leave
<1>2. CASE y = Caller
    <2>1. CASE held = None
        BY <1>1, <1>2, <2>1 DEF Seen
    <2>2. CASE held # None
        <3>1. held \in DOMAIN bigs /\ held \in InUse(is, h)
            BY <1>2, <2>2 DEF TypeOK, InUse
        <3>2. bigs'[held] = bigs[held]
            BY <1>1, <1>2, <3>1 DEF CellOf
        <3>. QED BY <1>1, <1>2, <2>2, <3>2 DEF Seen
    <2>. QED BY <2>1, <2>2
<1>3. CASE y # Caller
    <2>1. y \in Handles /\ int'[y] = int[y]
        BY <1>1, <1>3 DEF Holders
    <2>2. CASE int[y].big
        <3>1. int[y].bigInt # None
            BY <2>1, <2>2 DEF TypeOK
        <3>2. int[y].bigInt \in DOMAIN bigs
            BY <2>1, <3>1 DEF TypeOK, InUse
        <3>3. int[y].bigInt \in InUse(is, h)
            BY <2>1, <1>1, <3>1 DEF InUse
        <3>4. bigs'[int[y].bigInt] = bigs[int[y].bigInt]
            BY <1>1, <1>3, <3>2, <3>3 DEF CellOf
        <3>. QED BY <1>3, <2>1, <2>2, <3>4 DEF Seen, Value, Magnitude
    <2>3. CASE ~int[y].big
        BY <1>3, <2>1, <2>3 DEF Seen, Value, Magnitude
    <2>. QED BY <2>2, <2>3
<1>. QED BY <1>2, <1>3

\* The magnitudes that a step changes beside that of x are those of copies of x.
OnlyFollow(x) == \A y \in Holders \ {x} : Seen(y)' # Seen(y) => <<x, y>> \in kin'

LEMMA CellInUse ==
    ASSUME NEW y \in Holders
    PROVE  CellOf(y) = None \/ CellOf(y) \in InUse(int, held)
BY DEF CellOf, InUse, Holders

LEMMA OneStep ==
    ASSUME TypeOK, KinInv, NEW i \in Handles, NEW r, NEW b, Leave([int EXCEPT ![i] = r], held, b),
           \A c \in DOMAIN bigs : b[c] = bigs[c],
           \/ kin' = Alone(i) /\ (r.bigInt = None \/ r.bigInt \notin InUse(int, held))
           \/ kin' = kin /\ r.bigInt = int[i].bigInt
           \/ \E z \in Holders \ {i} : kin' = With(i, z) /\ r.bigInt = CellOf(z)
    PROVE  KinInv' /\ OnlyFollow(i)
<1>1. i \in Holders /\ i # Caller /\ int \in [Handles -> IntegerSet]
    BY CellsAssumption, TypesOK DEF Holders, IntegersOK, Integers
<1>2. CellOf(i)' = r.bigInt /\ \A y \in Holders \ {i} : CellOf(y)' = CellOf(y)
    <2>1. CellOf(Caller)' = held /\ CellOf(Caller) = held
        BY <1>1, CellOfOne DEF CellOf
    <2>. QED BY <1>1, <2>1, CellOfOne DEF Holders
<1>3. KinInv'
    <2>1. CASE kin' = Alone(i) /\ (r.bigInt = None \/ r.bigInt \notin InUse(int, held))
        BY <1>1, <1>2, <2>1, CellInUse, KinAlone
    <2>2. CASE kin' = kin /\ r.bigInt = int[i].bigInt
        <3>1. \A y \in Holders : CellOf(y)' = CellOf(y)
            BY <1>1, <1>2, <2>2 DEF CellOf
        <3>. QED BY <2>2, <3>1, KinSame
    <2>3. CASE \E z \in Holders \ {i} : kin' = With(i, z) /\ r.bigInt = CellOf(z)
        BY <1>1, <1>2, <2>3, KinWith
    <2>. QED BY <2>1, <2>2, <2>3
<1>4. ASSUME NEW y \in Holders \ {i} PROVE Seen(y)' = Seen(y)
    <2>. DEFINE is == [int EXCEPT ![i] = r]
    <2>1. IF y = Caller THEN held = held ELSE is[y] = int[y]
        BY <1>1 DEF Holders
    <2>2. Leave(is, held, b)
        OBVIOUS
    <2>. HIDE DEF is
    <2>. QED BY <2>1, <2>2, SeesTheSame
<1>. QED BY <1>3, <1>4 DEF OnlyFollow

LEMMA CallerStep ==
    ASSUME TypeOK, KinInv, NEW h, NEW b, Leave(int, h, b), \A c \in DOMAIN bigs : b[c] = bigs[c],
           \/ kin' = Alone(Caller) /\ h \notin InUse(int, held)
           \/ \E z \in Handles : kin' = With(Caller, z) /\ h = CellOf(z)
    PROVE  KinInv' /\ OnlyFollow(Caller)
<1>1. Caller \in Holders /\ \A y \in Holders \ {Caller} : y \in Handles /\ y # Caller
    BY DEF Holders
<1>2. CellOf(Caller)' = h /\ \A y \in Holders \ {Caller} : CellOf(y)' = CellOf(y)
    BY <1>1 DEF CellOf, Leave
<1>3. KinInv'
    <2>1. CASE kin' = Alone(Caller) /\ h \notin InUse(int, held)
        BY <1>1, <1>2, <2>1, CellInUse, KinAlone
    <2>2. CASE \E z \in Handles : kin' = With(Caller, z) /\ h = CellOf(z)
        <3>1. \A z \in Handles : z \in Holders \ {Caller}
            BY CellsAssumption DEF Holders
        <3>. QED BY <1>1, <1>2, <2>2, <3>1, KinWith
    <2>. QED BY <2>1, <2>2
<1>4. ASSUME NEW y \in Holders \ {Caller} PROVE Seen(y)' = Seen(y)
    BY <1>1, SeesTheSame
<1>. QED BY <1>3, <1>4 DEF OnlyFollow

\* x adds to the big.Int it has.
LEMMA BigStep ==
    ASSUME TypeOK, KinInv, NEW x \in Holders, CellOf(x) # None, NEW n,
           Leave(int, held, [bigs EXCEPT ![CellOf(x)] = n]), kin' = kin
    PROVE  KinInv' /\ OnlyFollow(x)
<1>1. KinInv'
    BY KinSame DEF CellOf, Leave
<1>2. ASSUME NEW y \in Holders \ {x}, Seen(y)' # Seen(y) PROVE <<x, y>> \in kin'
    <2>. DEFINE b == [bigs EXCEPT ![CellOf(x)] = n]
    <2>1. CASE CellOf(y) = CellOf(x)
        BY <2>1 DEF KinInv
    <2>2. CASE CellOf(y) # CellOf(x)
        <3>1. CellOf(y) \in DOMAIN bigs => b[CellOf(y)] = bigs[CellOf(y)]
            BY <2>2
        <3>2. Leave(int, held, b)
            OBVIOUS
        <3>. HIDE DEF b
        <3>. QED BY <3>1, <3>2, <1>2, SeesTheSame
    <2>. QED BY <2>1, <2>2
<1>. QED BY <1>1, <1>2 DEF OnlyFollow

LEMMA PutOthers ==
    ASSUME TypeOK, Room, NEW v
    PROVE  \A c \in DOMAIN bigs : Put(bigs, Fresh, v)[c] = bigs[c]
<1>1. Fresh \notin DOMAIN bigs
    BY FreshOne DEF TypeOK
<1>. QED BY <1>1 DEF Put

LEMMA AssignFollowed ==
    ASSUME TypeOK, KinInv, NEW i \in Handles, NEW v, Assign(i, v)
    PROVE  KinInv' /\ OnlyFollow(i)
<1>1. kin' = Alone(i)
    BY DEF Assign
<1>2. CASE Fits(v)
    <2>1. Leave([int EXCEPT ![i] = Native(v)], held, bigs) /\ Native(v).bigInt = None
        BY <1>2 DEF Assign, Native
    <2>. QED BY <1>1, <2>1, OneStep
<1>3. CASE ~Fits(v)
    <2>1. Room /\ Leave([int EXCEPT ![i] = Big(Fresh)], held, Put(bigs, Fresh, v)) /\ Big(Fresh).bigInt = Fresh
        BY <1>3 DEF Assign, Big
    <2>. QED BY <1>1, <2>1, OneStep, PutOthers, FreshOne
<1>. QED BY <1>2, <1>3

LEMMA AddFollowed ==
    ASSUME TypeOK, KinInv, NEW i \in Handles, NEW isBig, NEW v \in Int, Room, Add(i, isBig, v, Fresh)
    PROVE  KinInv' /\ OnlyFollow(i)
<1>1. CASE /\ int[i].big /\ Value(i) + v \in Magnitudes /\ kin' = kin
           /\ Leave(int, held, [bigs EXCEPT ![int[i].bigInt] = @ + v])
    <2>1. i \in Holders /\ CellOf(i) = int[i].bigInt /\ CellOf(i) # None
        BY <1>1, CellsAssumption DEF Holders, CellOf, TypeOK
    <2>. DEFINE n == bigs[int[i].bigInt] + v
    <2>2. [bigs EXCEPT ![int[i].bigInt] = @ + v] = [bigs EXCEPT ![CellOf(i)] = n]
        BY <2>1
    <2>3. Leave(int, held, [bigs EXCEPT ![CellOf(i)] = n])
        BY <1>1, <2>2
    <2>. HIDE DEF n
    <2>. QED BY <1>1, <2>1, <2>3, BigStep
<1>2. ASSUME NEW r \in IntegerSet, r.bigInt = Fresh, kin' = Alone(i),
             Leave([int EXCEPT ![i] = r], held, Put(bigs, Fresh, Value(i) + v))
      PROVE  KinInv' /\ OnlyFollow(i)
    BY <1>2, OneStep, PutOthers, FreshOne
<1>3. ASSUME NEW r \in IntegerSet, r.bigInt = int[i].bigInt, kin' = kin, Leave([int EXCEPT ![i] = r], held, bigs)
      PROVE  KinInv' /\ OnlyFollow(i)
    BY <1>3, OneStep
<1>. QED BY <1>1, <1>2, <1>3, AddCases

LEMMA DecodeFollowed ==
    ASSUME TypeOK, KinInv, NEW i \in Handles, NEW j \in Handles, Decode(i, j)
    PROVE  KinInv' /\ OnlyFollow(i)
<1>1. Room /\ \A c \in DOMAIN bigs : Put(bigs, Fresh, Value(j))[c] = bigs[c]
    BY DecodeCases, PutOthers
<1>2. PICK r \in IntegerSet :
         /\ \/ r.bigInt = Fresh /\ kin' = Alone(i)
            \/ r.bigInt = int[i].bigInt /\ kin' = kin
         /\ \/ Leave([int EXCEPT ![i] = r], held, Put(bigs, Fresh, Value(j)))
            \/ Leave([int EXCEPT ![i] = r], held, bigs)
    BY DecodeCases
<1>3. \/ kin' = Alone(i) /\ (r.bigInt = None \/ r.bigInt \notin InUse(int, held))
      \/ kin' = kin /\ r.bigInt = int[i].bigInt
    BY <1>1, <1>2, FreshOne
<1>. QED BY <1>1, <1>2, <1>3, OneStep

Followed == KinInv' /\ \E x \in Holders : OnlyFollow(x)

LEMMA IntegerStep ==
    ASSUME TypeOK, KinInv, [IntegerNext]_intVars
    PROVE  Followed
<1>0. \A i \in Handles : i \in Holders /\ Caller \in Holders /\ i # Caller
    BY CellsAssumption DEF Holders
<1>1. ASSUME NEW i \in Handles, NEW v, New(i, v) PROVE KinInv' /\ OnlyFollow(i)
    BY <1>1, AssignFollowed DEF New
<1>2. ASSUME UNCHANGED <<int, held, bigs, kin>> PROVE KinInv' /\ OnlyFollow(Caller)
    <2>1. KinInv'
        BY <1>2, KinSame DEF CellOf
    <2>2. \A y \in Holders : Seen(y)' = Seen(y)
        BY <1>2 DEF Seen, Value, Magnitude
    <2>. QED BY <2>1, <2>2 DEF OnlyFollow
<1>3. ASSUME NEW i \in Handles, NEW t \in Texts, NewFromText(i, t) PROVE KinInv' /\ (OnlyFollow(i) \/ OnlyFollow(Caller))
    <2>1. CASE Check(t) /\ ~IsNumber(t)
        BY <1>2, <1>3, <2>1 DEF NewFromText
    <2>2. CASE Check(t) /\ IsNumber(t)
        BY <1>3, <2>2, AssignFollowed DEF NewFromText
    <2>3. CASE ~Check(t)
        <3>1. Leave([int EXCEPT ![i] = Bogus], held, bigs) /\ kin' = Alone(i) /\ Bogus.bigInt = None
            BY <1>3, <2>3 DEF NewFromText, Bogus
        <3>. QED BY <3>1, OneStep
    <2>. QED BY <2>1, <2>2, <2>3
<1>4. ASSUME NEW i \in Handles, NewFromBig(i) PROVE KinInv' /\ OnlyFollow(i)
    <2>1. CASE Fits(bigs[held])
        <3>1. Leave([int EXCEPT ![i] = Native(bigs[held])], held, bigs) /\ kin' = Alone(i) /\ Native(bigs[held]).bigInt = None
            BY <1>4, <2>1 DEF NewFromBig, Native
        <3>. QED BY <3>1, OneStep
    <2>2. CASE ~Fits(bigs[held])
        <3>1. Leave([int EXCEPT ![i] = Big(held)], held, bigs) /\ kin' = With(i, Caller) /\ Big(held).bigInt = CellOf(Caller)
            BY <1>4, <2>2 DEF NewFromBig, Big, CellOf
        <3>2. Caller \in Holders \ {i}
            BY <1>0
        <3>. QED BY <3>1, <3>2, OneStep
    <2>. QED BY <2>1, <2>2
<1>5. ASSUME NEW i \in Handles, TakeBig(i) PROVE KinInv' /\ OnlyFollow(Caller)
    <2>1. CASE int[i].big
        <3>1. Leave(int, int[i].bigInt, bigs) /\ kin' = With(Caller, i) /\ int[i].bigInt = CellOf(i)
            BY <1>5, <2>1, <1>0 DEF TakeBig, CellOf
        <3>. QED BY <3>1, CallerStep
    <2>2. CASE ~int[i].big
        <3>1. Room /\ Leave(int, Fresh, Put(bigs, Fresh, int[i].native)) /\ kin' = Alone(Caller)
            BY <1>5, <2>2 DEF TakeBig
        <3>. QED BY <3>1, CallerStep, PutOthers, FreshOne
    <2>. QED BY <2>1, <2>2
<1>6. ASSUME NEW i \in Handles, NEW j \in Handles, Copy(i, j) PROVE KinInv' /\ OnlyFollow(i)
    <2>1. Leave([int EXCEPT ![i] = int[j]], held, bigs) /\ kin' = With(i, j) /\ int[j].bigInt = CellOf(j) /\ j \in Holders \ {i}
        BY <1>6, <1>0 DEF Copy, CellOf
    <2>. QED BY <2>1, OneStep
<1>7. ASSUME NEW i \in Handles, NEW j \in Handles, IncrementBy(i, j) PROVE KinInv' /\ OnlyFollow(i)
    <2>1. Value(j) \in Int /\ Room /\ Add(i, int[j].big, Value(j), Fresh)
        BY <1>7, MagnitudeOf, NumberTypes DEF IncrementBy, UpgradedCell
    <2>. QED BY <2>1, AddFollowed
<1>8. ASSUME NEW i \in Handles, NEW j \in Handles, Decode(i, j) PROVE KinInv' /\ OnlyFollow(i)
    BY <1>8, DecodeFollowed
<1>9. ASSUME NEW v \in Magnitudes, Hold(v) PROVE KinInv' /\ OnlyFollow(Caller)
    BY <1>9, CallerStep, PutOthers, FreshOne DEF Hold
<1>10. ASSUME NEW v \in Magnitudes, AddToHeld(v) PROVE KinInv' /\ OnlyFollow(Caller)
    <2>1. Caller \in Holders /\ CellOf(Caller) = held /\ held # None
        BY <1>10 DEF Holders, CellOf, AddToHeld
    <2>. DEFINE n == bigs[held] + v
    <2>2. Leave(int, held, [bigs EXCEPT ![held] = @ + v]) /\ kin' = kin
        BY <1>10 DEF AddToHeld
    <2>3. Leave(int, held, [bigs EXCEPT ![CellOf(Caller)] = n])
        BY <2>1, <2>2
    <2>. HIDE DEF n
    <2>. QED BY <2>1, <2>2, <2>3, BigStep
<1>11. ASSUME NEW i \in Handles, NEW v \in -Half..(2 * Half - 1), Increment(i, v) PROVE KinInv' /\ OnlyFollow(i)
    <2>1. v \in Int /\ Room /\ Add(i, ~Fits(v), v, Fresh)
        BY <1>11, HalfType DEF Increment
    <2>. QED BY <2>1, AddFollowed
<1>12. CASE UNCHANGED intVars
    <2>1. Caller \in Holders
        BY DEF Holders
    <2>. QED BY <1>2, <1>12, <2>1 DEF intVars, Followed
<1>13. Caller \in Holders /\ \A i \in Handles : i \in Holders
    BY DEF Holders
<1>14. \A x \in Holders : KinInv' /\ OnlyFollow(x) => Followed
    BY DEF Followed
<1>15. CASE IntegerNext
    <2>1. ASSUME NEW i \in Handles, NEW v, New(i, v) PROVE Followed
        BY <1>1, <1>13, <1>14, <2>1
    <2>2. ASSUME NEW i \in Handles, NEW t \in Texts, NewFromText(i, t) PROVE Followed
        BY <1>3, <1>13, <1>14, <2>2
    <2>3. ASSUME NEW i \in Handles, NewFromBig(i) PROVE Followed
        BY <1>4, <1>13, <1>14, <2>3
    <2>4. ASSUME NEW i \in Handles, TakeBig(i) PROVE Followed
        BY <1>5, <1>13, <1>14, <2>4
    <2>5. ASSUME NEW i \in Handles, NEW j \in Handles, Copy(i, j) PROVE Followed
        BY <1>6, <1>13, <1>14, <2>5
    <2>6. ASSUME NEW i \in Handles, NEW j \in Handles, IncrementBy(i, j) PROVE Followed
        BY <1>7, <1>13, <1>14, <2>6
    <2>7. ASSUME NEW i \in Handles, NEW j \in Handles, Decode(i, j) PROVE Followed
        BY <1>8, <1>13, <1>14, <2>7
    <2>8. ASSUME NEW v \in Magnitudes, Hold(v) \/ AddToHeld(v) PROVE Followed
        BY <1>9, <1>10, <1>13, <1>14, <2>8
    <2>9. ASSUME NEW i \in Handles, NEW v \in -Half..(2 * Half - 1), Increment(i, v) PROVE Followed
        BY <1>11, <1>13, <1>14, <2>9
    <2>. QED BY <1>15, <2>1, <2>2, <2>3, <2>4, <2>5, <2>6, <2>7, <2>8, <2>9 DEF IntegerNext
<1>16. CASE UNCHANGED intVars
    BY <1>12, <1>16 DEF Followed
<1>. QED BY <1>15, <1>16

\* Whatever is done to an Integer, or by the caller to the big.Int it has in hand, the
\* magnitudes that change are those of copies of one and the same value: no call leaves
\* two Integers, or one and the caller, with one big.Int unless one was made of the other.
THEOREM OnlyCopiesFollowTheorem == IntegerSpec => OnlyCopiesFollow
<1>1. IntegerInit => KinInv
    <2>. SUFFICES ASSUME IntegerInit PROVE KinInv
        OBVIOUS
    <2>1. \A x \in Holders : CellOf(x) = None
        BY DEF IntegerInit, CellOf, Bogus, Holders
    <2>. QED BY <2>1 DEF KinInv
<1>2. TypeOK /\ KinInv /\ [IntegerNext]_intVars => KinInv'
    BY IntegerStep DEF Followed
<1>3. TypeOK /\ KinInv /\ [IntegerNext]_intVars
         => [\E x \in Holders : \A y \in Holders \ {x} : Seen(y)' # Seen(y) => <<x, y>> \in kin']_intVars
    BY IntegerStep DEF OnlyFollow, Followed
<1>4. IntegerSpec => []KinInv
    BY <1>1, <1>2, IntegerTypes, PTL DEF IntegerSpec
<1>. QED BY <1>3, <1>4, IntegerTypes, PTL DEF IntegerSpec, OnlyCopiesFollow

-----------------------------------------------------------------------------
(* The padding of a number of bits                                         *)

LEMMA SmallMultiple ==
    ASSUME NEW b \in Nat \ {0}, NEW t \in Int, b * t < b, b * t > -b
    PROVE  t = 0
<1>1. ASSUME t >= 1 PROVE FALSE
    <2>1. b * t >= b
        BY <1>1
    <2>. QED BY <2>1
<1>2. ASSUME t <= -1 PROVE FALSE
    <2>1. b * t <= -b
        BY <1>2
    <2>. QED BY <2>1
<1>. QED BY <1>1, <1>2

\* Two ways to divide leave one remainder.
LEMMA OneRemainder ==
    ASSUME NEW b \in Nat \ {0}, NEW q \in Int, NEW r \in 0..(b - 1), NEW d \in Int, NEW m \in 0..(b - 1),
           b * q + r = b * d + m
    PROVE  q = d /\ r = m
<1>1. b * (q - d) = m - r
    OBVIOUS
<1>2. q - d = 0
    <2>. DEFINE t == q - d
    <2>1. t \in Int /\ b * t < b /\ b * t > -b
        BY <1>1
    <2>. HIDE DEF t
    <2>. QED BY <2>1, SmallMultiple DEF t
<1>3. b * 0 = 0
    OBVIOUS
<1>. QED BY <1>1, <1>2, <1>3

LEMMA Division ==
    ASSUME NEW b \in Nat \ {0}, NEW n \in Int
    PROVE  n \div b \in Int /\ n % b \in 0..(b - 1) /\ n = b * (n \div b) + (n % b)
OBVIOUS

LEMMA RemainderIs ==
    ASSUME NEW b \in Nat \ {0}, NEW q \in Int, NEW r \in 0..(b - 1)
    PROVE  (b * q + r) % b = r
<1>. DEFINE x == b * q + r
<1>1. x \in Int
    OBVIOUS
<1>2. x \div b \in Int /\ x % b \in 0..(b - 1) /\ x = b * (x \div b) + (x % b)
    <2>. HIDE DEF x
    <2>. QED BY <1>1, Division
<1>. DEFINE d == x \div b
            m == x % b
<1>3. d \in Int /\ m \in 0..(b - 1) /\ b * q + r = b * d + m
    BY <1>2
<1>. HIDE DEF d, m
<1>4. r = m
    BY <1>3, OneRemainder
<1>. QED BY <1>4 DEF m

Filled(n) == n + Padding(n)

\* n bits and their padding fill bytes, and no byte is padding alone.
LEMMA PaddingIs ==
    ASSUME NEW n \in Nat
    PROVE  Padding(n) \in Nat /\ Padding(n) \in 0..(BitsPerByte - 1) /\ \E q \in Int : Filled(n) = BitsPerByte * q
<1>. DEFINE b == BitsPerByte
            d == n \div b
            m == n % b
<1>1. b \in Nat \ {0}
    BY BitsPerByteAssumption
<1>. HIDE DEF b
<1>2. d \in Int /\ m \in 0..(b - 1) /\ n = b * d + m
    BY <1>1, Division
<1>3. Padding(n) = (b - m) % b
    BY DEF Padding, b
<1>. HIDE DEF d, m
<1>4. CASE m = 0
    <2>1. b - m = b * 1 + 0
        BY <1>1, <1>4
    <2>2. (b * 1 + 0) % b = 0
        BY <1>1, RemainderIs
    <2>3. Padding(n) = 0
        BY <1>3, <2>1, <2>2, Zenon
    <2>4. Padding(n) \in 0..(b - 1) /\ Filled(n) = b * d
        BY <1>1, <1>2, <1>4, <2>3 DEF Filled
    <2>5. \E q \in Int : Filled(n) = b * q
        BY <1>2, <2>4, Zenon
    <2>. QED BY <2>3, <2>4, <2>5 DEF b
<1>5. CASE m # 0
    <2>1. b - m = b * 0 + (b - m) /\ b - m \in 0..(b - 1) /\ b - m \in Nat
        BY <1>1, <1>2, <1>5
    <2>2. (b * 0 + (b - m)) % b = b - m
        BY <1>1, <2>1, RemainderIs
    <2>3. Padding(n) = b - m
        BY <1>3, <2>1, <2>2, Zenon
    <2>4. Filled(n) = b * (d + 1) /\ d + 1 \in Int
        BY <1>1, <1>2, <2>3 DEF Filled
    <2>5. \E q \in Int : Filled(n) = b * q
        BY <2>4, Zenon
    <2>. QED BY <2>1, <2>3, <2>5 DEF b
<1>. QED BY <1>4, <1>5

\* A bit set in the padding needs no byte more.
LEMMA SameBytes ==
    ASSUME NEW n \in Nat, NEW m \in Nat, n <= m, m <= Filled(n)
    PROVE  Filled(m) = Filled(n)
<1>. DEFINE b == BitsPerByte
<1>1. b \in Nat \ {0}
    BY BitsPerByteAssumption
<1>2. Padding(n) \in 0..(b - 1) /\ Padding(m) \in 0..(b - 1)
    BY PaddingIs
<1>3. PICK q \in Int : Filled(n) = b * q
    BY PaddingIs
<1>4. PICK d \in Int : Filled(m) = b * d
    BY PaddingIs
<1>. HIDE DEF b
<1>5. b * (d - q) = Filled(m) - Filled(n) /\ Filled(m) - Filled(n) < b /\ Filled(m) - Filled(n) > -b
    <2>1. Filled(m) = m + Padding(m) /\ Filled(n) = n + Padding(n)
        BY DEF Filled
    <2>2. b * (d - q) = b * d - b * q
        BY <1>1
    <2>. QED BY <1>1, <1>2, <1>3, <1>4, <2>1, <2>2
<1>6. d - q = 0
    <2>. DEFINE t == d - q
    <2>1. t \in Int /\ b * t < b /\ b * t > -b
        BY <1>5
    <2>. HIDE DEF t
    <2>. QED BY <1>1, <2>1, SmallMultiple DEF t
<1>. QED BY <1>3, <1>4, <1>6

LEMMA PaddedIs ==
    ASSUME NEW s \in Seq({0, 1})
    PROVE  /\ Padded(s) \in Seq({0, 1})
           /\ Len(Padded(s)) = Filled(Len(s))
           /\ \A k \in (Len(s) + 1)..Len(Padded(s)) : Padded(s)[k] = 0
<1>. DEFINE n == Len(s)
            p == Padding(n)
            z == [k \in 1..p |-> 0]
<1>1. n \in Nat /\ p \in Nat
    <2>1. n \in Nat
        BY LenProperties
    <2>. QED BY <2>1, PaddingIs
<1>. HIDE DEF n, p
<1>2. z \in Seq({0, 1}) /\ Len(z) = p /\ \A k \in 1..p : z[k] = 0
    BY <1>1
<1>. HIDE DEF z
<1>3. Padded(s) = s \o z
    BY DEF Padded, Zeros, z, p, n
<1>4. /\ s \o z \in Seq({0, 1})
      /\ Len(s \o z) = n + p
      /\ \A k \in (n + 1)..(n + p) : (s \o z)[k] = 0
    <2>1. s \o z \in Seq({0, 1}) /\ Len(s \o z) = n + p
        BY <1>1, <1>2, ConcatProperties DEF n
    <2>2. \A k \in (n + 1)..(n + p) : (s \o z)[k] = z[k - n] /\ k - n \in 1..p
        BY <1>1, <1>2, ConcatProperties DEF n
    <2>. QED BY <1>2, <2>1, <2>2
<1>. QED BY <1>3, <1>4 DEF Filled, n, p

-----------------------------------------------------------------------------
(* Bits that nobody else sees                                              *)

Bits == Seq({0, 1})
ClearBehind(s, n) == \A k \in (n + 1)..Len(s) : s[k] = 0

BitsTypeOK ==
    /\ bit \in [BitHandles -> [bytes : Arrays \cup {NoBytes}, length : Nat]]
    /\ data \in [UsedArrays(bit) -> Bits]
    /\ shared \subseteq UsedArrays(bit)

\* The bytes of a BitString are those its bits need, two have the same only if the
\* history says so, and those of one alone are clear behind its bits.
BitsInv ==
    /\ BitsTypeOK
    /\ \A i \in BitHandles :
         /\ Len(BytesOf(i)) = Filled(bit[i].length)
         /\ bit[i].bytes \notin shared => ClearBehind(BytesOf(i), bit[i].length)
         /\ \A j \in BitHandles \ {i} : bit[i].bytes = bit[j].bytes => bit[i].bytes \in shared \cup {NoBytes}

LEMMA UsedOnes ==
    ASSUME NEW b \in [BitHandles -> [bytes : Arrays \cup {NoBytes}, length : Nat]]
    PROVE  /\ UsedArrays(b) \subseteq Arrays
           /\ NoBytes \notin UsedArrays(b)
           /\ \A i \in BitHandles : b[i].bytes = NoBytes \/ b[i].bytes \in UsedArrays(b)
           /\ \A a \in UsedArrays(b) : \E i \in BitHandles : b[i].bytes = a
<1>1. \A i \in BitHandles : b[i].bytes \in Arrays \cup {NoBytes}
    OBVIOUS
<1>. QED BY <1>1, Zenon DEF UsedArrays

LEMMA BytesType ==
    ASSUME BitsTypeOK, NEW i \in BitHandles
    PROVE  /\ BytesOf(i) \in Bits
           /\ bit[i].length \in Nat
           /\ bit[i].bytes # NoBytes => bit[i].bytes \in UsedArrays(bit) /\ BytesOf(i) = data[bit[i].bytes]
<1>1. bit[i].bytes = NoBytes \/ bit[i].bytes \in UsedArrays(bit)
    BY UsedOnes DEF BitsTypeOK
<1>2. << >> \in Bits
    BY DEF Bits
<1>. QED BY <1>1, <1>2 DEF BitsTypeOK, BytesOf

LEMMA AfterLeave ==
    ASSUME NEW b \in [BitHandles -> [bytes : Arrays \cup {NoBytes}, length : Nat]], NEW d, NEW s,
           LeaveBits(b, d, s)
    PROVE  /\ bit' = b
           /\ \A i \in BitHandles : BytesOf(i)' = IF b[i].bytes = NoBytes THEN << >> ELSE d[b[i].bytes]
           /\ shared' = s \cap UsedArrays(b)
           /\ (\A a \in UsedArrays(b) : d[a] \in Bits) => BitsTypeOK'
<1>1. bit' = b /\ data' = [a \in UsedArrays(b) |-> d[a]] /\ shared' = s \cap UsedArrays(b)
    BY DEF LeaveBits
<1>2. \A i \in BitHandles : b[i].bytes = NoBytes \/ b[i].bytes \in UsedArrays(b)
    BY UsedOnes
<1>3. \A a \in UsedArrays(b) : data'[a] = d[a]
    BY <1>1
<1>4. ASSUME NEW i \in BitHandles
      PROVE  BytesOf(i)' = IF b[i].bytes = NoBytes THEN << >> ELSE d[b[i].bytes]
    <2>1. BytesOf(i)' = IF b[i].bytes = NoBytes THEN << >> ELSE data'[b[i].bytes]
        BY <1>1 DEF BytesOf
    <2>. QED BY <1>2, <1>3, <2>1
<1>5. UsedArrays(bit)' = UsedArrays(b)
    BY <1>1 DEF UsedArrays
<1>6. ASSUME \A a \in UsedArrays(b) : d[a] \in Bits PROVE BitsTypeOK'
    <2>1. data' \in [UsedArrays(b) -> Bits]
        BY <1>1, <1>6
    <2>2. shared' \subseteq UsedArrays(b)
        BY <1>1
    <2>. QED BY <1>1, <1>5, <2>1, <2>2 DEF BitsTypeOK
<1>. QED BY <1>1, <1>4, <1>6

\* i has an array of its own, with bytes for n bits and nothing behind them.
LEMMA ReplaceKeeps ==
    ASSUME BitsInv, NEW i \in BitHandles, NEW s \in Bits, NEW n \in Nat,
           Len(s) = Filled(n), ClearBehind(s, n), Replace(i, s, n)
    PROVE  BitsInv'
<1>1. PICK a \in FreeArrays :
         LeaveBits([bit EXCEPT ![i] = [bytes |-> a, length |-> n]],
                   [c \in DOMAIN data \cup {a} |-> IF c = a THEN s ELSE data[c]], shared)
    BY Zenon DEF Replace
<1>. DEFINE b == [bit EXCEPT ![i] = [bytes |-> a, length |-> n]]
            d == [c \in DOMAIN data \cup {a} |-> IF c = a THEN s ELSE data[c]]
<1>2. a \in Arrays /\ a \notin UsedArrays(bit) /\ a # NoBytes
    BY ArraysAssumption DEF FreeArrays
<1>3. /\ b \in [BitHandles -> [bytes : Arrays \cup {NoBytes}, length : Nat]]
      /\ b[i].bytes = a /\ b[i].length = n
      /\ \A j \in BitHandles \ {i} : b[j] = bit[j]
    BY <1>2 DEF BitsInv, BitsTypeOK
<1>4. d[a] = s /\ \A c \in UsedArrays(bit) : d[c] = data[c] /\ data[c] \in Bits
    BY <1>2 DEF BitsInv, BitsTypeOK
<1>5. \A j \in BitHandles : bit[j].bytes = NoBytes \/ bit[j].bytes \in UsedArrays(bit)
    BY UsedOnes DEF BitsInv, BitsTypeOK
<1>6. LeaveBits(b, d, shared)
    BY <1>1
<1>. HIDE DEF b, d
<1>7. /\ bit' = b
      /\ \A j \in BitHandles : BytesOf(j)' = IF b[j].bytes = NoBytes THEN << >> ELSE d[b[j].bytes]
      /\ shared' = shared \cap UsedArrays(b)
      /\ (\A c \in UsedArrays(b) : d[c] \in Bits) => BitsTypeOK'
    BY <1>3, <1>6, AfterLeave
<1>8. \A c \in UsedArrays(b) : \E j \in BitHandles : b[j].bytes = c /\ c # NoBytes
    BY <1>3, UsedOnes
<1>9. BitsTypeOK'
    <2>1. ASSUME NEW c \in UsedArrays(b) PROVE d[c] \in Bits
        BY <1>3, <1>4, <1>5, <1>8
    <2>. QED BY <1>7, <2>1
<1>10. BytesOf(i)' = s /\ \A j \in BitHandles \ {i} : BytesOf(j)' = BytesOf(j)
    BY <1>2, <1>3, <1>4, <1>5, <1>7 DEF BytesOf
<1>11. a \notin shared' /\ \A j \in BitHandles \ {i} : bit[j].bytes \in shared <=> bit[j].bytes \in shared'
    <2>1. \A j \in BitHandles : b[j].bytes = NoBytes \/ b[j].bytes \in UsedArrays(b)
        BY <1>3, UsedOnes
    <2>2. NoBytes \notin shared /\ a \notin shared
        BY <1>2, UsedOnes DEF BitsInv, BitsTypeOK
    <2>. QED BY <1>3, <1>7, <2>1, <2>2
<1>12. ASSUME NEW j \in BitHandles
       PROVE  /\ Len(BytesOf(j)') = Filled(bit'[j].length)
              /\ bit'[j].bytes \notin shared' => ClearBehind(BytesOf(j)', bit'[j].length)
    <2>1. CASE j = i
        BY <1>3, <1>7, <1>10, <2>1
    <2>2. CASE j # i
        <3>1. bit'[j] = bit[j] /\ BytesOf(j)' = BytesOf(j)
            BY <1>3, <1>7, <1>10, <2>2
        <3>. QED BY <1>11, <2>2, <3>1 DEF BitsInv
    <2>. QED BY <2>1, <2>2
<1>13. ASSUME NEW j \in BitHandles, NEW k \in BitHandles \ {j}, bit'[j].bytes = bit'[k].bytes
       PROVE  bit'[j].bytes \in shared' \cup {NoBytes}
    <2>1. j # i /\ k # i
        BY <1>2, <1>3, <1>5, <1>7, <1>13
    <2>2. bit'[j] = bit[j] /\ bit'[k] = bit[k]
        BY <1>3, <1>7, <2>1
    <2>. QED BY <1>11, <1>13, <2>1, <2>2 DEF BitsInv
<1>. QED BY <1>9, <1>12, <1>13 DEF BitsInv, ClearBehind, Filled, Padding

\* i writes to the bytes it has, and may count some more of the bits there are.
LEMMA RewriteKeeps ==
    ASSUME BitsInv, NEW i \in BitHandles, bit[i].bytes # NoBytes,
           NEW s \in Bits, Len(s) = Len(BytesOf(i)),
           NEW n \in Nat, Filled(n) = Filled(bit[i].length),
           bit[i].bytes \notin shared => ClearBehind(s, n),
           LeaveBits([bit EXCEPT ![i].length = n], [data EXCEPT ![bit[i].bytes] = s], shared)
    PROVE  BitsInv'
<1>. DEFINE b == [bit EXCEPT ![i].length = n]
            a == bit[i].bytes
            d == [data EXCEPT ![a] = s]
<1>1. /\ b \in [BitHandles -> [bytes : Arrays \cup {NoBytes}, length : Nat]]
      /\ b[i].length = n
      /\ \A j \in BitHandles : b[j].bytes = bit[j].bytes
      /\ \A j \in BitHandles \ {i} : b[j] = bit[j]
    BY DEF BitsInv, BitsTypeOK
<1>3. \A j \in BitHandles : bit[j].bytes = NoBytes \/ bit[j].bytes \in UsedArrays(bit)
    BY UsedOnes DEF BitsInv, BitsTypeOK
<1>4. d[a] = s /\ \A c \in UsedArrays(bit) : d[c] \in Bits /\ (c # a => d[c] = data[c])
    BY <1>3 DEF BitsInv, BitsTypeOK
<1>5. LeaveBits(b, d, shared)
    OBVIOUS
<1>. HIDE DEF b, d
<1>2. UsedArrays(b) = UsedArrays(bit)
    BY <1>1, Zenon DEF UsedArrays
<1>6. /\ bit' = b
      /\ \A j \in BitHandles : BytesOf(j)' = IF b[j].bytes = NoBytes THEN << >> ELSE d[b[j].bytes]
      /\ shared' = shared \cap UsedArrays(b)
      /\ (\A c \in UsedArrays(b) : d[c] \in Bits) => BitsTypeOK'
    BY <1>1, <1>5, AfterLeave
<1>7. BitsTypeOK' /\ shared' = shared
    BY <1>2, <1>4, <1>6 DEF BitsInv, BitsTypeOK
<1>8. \A j \in BitHandles : BytesOf(j)' = IF bit[j].bytes = a THEN s ELSE BytesOf(j)
    BY <1>1, <1>3, <1>4, <1>6 DEF BytesOf
<1>9. ASSUME NEW j \in BitHandles
      PROVE  /\ Len(BytesOf(j)') = Filled(bit'[j].length)
             /\ bit'[j].bytes \notin shared' => ClearBehind(BytesOf(j)', bit'[j].length)
    <2>1. CASE j = i
        BY <1>1, <1>6, <1>7, <1>8, <2>1 DEF BitsInv
    <2>2. CASE j # i /\ bit[j].bytes = a
        <3>1. bit[j].bytes \in shared
            BY <2>2 DEF BitsInv
        <3>2. BytesOf(j)' = s /\ BytesOf(j) = BytesOf(i) /\ bit'[j] = bit[j]
            BY <1>1, <1>6, <1>8, <2>2 DEF BytesOf
        <3>. QED BY <1>7, <3>1, <3>2 DEF BitsInv
    <2>3. CASE j # i /\ bit[j].bytes # a
        <3>1. BytesOf(j)' = BytesOf(j) /\ bit'[j] = bit[j]
            BY <1>1, <1>6, <1>8, <2>3
        <3>. QED BY <1>7, <3>1 DEF BitsInv
    <2>. QED BY <2>1, <2>2, <2>3
<1>10. \A j \in BitHandles : \A k \in BitHandles \ {j} :
          bit'[j].bytes = bit'[k].bytes => bit'[j].bytes \in shared' \cup {NoBytes}
    BY <1>1, <1>6, <1>7 DEF BitsInv
<1>. QED BY <1>7, <1>9, <1>10 DEF BitsInv, ClearBehind, Filled, Padding

LEMMA SetBitKeeps ==
    ASSUME BitsInv, NEW i \in BitHandles, NEW pos \in Nat, SetBit(i, pos)
    PROVE  BitsInv'
<1>. DEFINE s == BytesOf(i)
            m == bit[i].length
            n == LengthWith(i, pos)
<1>1. /\ s \in Bits /\ m \in Nat /\ Len(s) \in Nat /\ Len(s) = Filled(m) /\ m <= Len(s)
      /\ bit[i].bytes # NoBytes => bit[i].bytes \in DOMAIN data /\ s = data[bit[i].bytes]
      /\ bit[i].bytes \notin shared => ClearBehind(s, m)
    <2>1. s \in Bits /\ m \in Nat /\ Len(s) = Filled(m)
        BY BytesType DEF BitsInv
    <2>2. Len(s) \in Nat /\ m <= Filled(m)
        <3>1. Padding(m) \in Nat
            BY <2>1, PaddingIs
        <3>. QED BY <2>1, <3>1 DEF Filled
    <2>3. bit[i].bytes # NoBytes => bit[i].bytes \in DOMAIN data /\ s = data[bit[i].bytes]
        BY BytesType DEF BitsInv, BitsTypeOK
    <2>. QED BY <2>1, <2>2, <2>3 DEF BitsInv
<1>2. n \in Nat /\ n >= m /\ n >= pos + 1 /\ (n = m \/ n = pos + 1)
    BY <1>1 DEF LengthWith
<1>3. CASE pos < Len(s)
    <2>1. bit[i].bytes # NoBytes
        <3>1. bit[i].bytes = NoBytes => s = << >>
            BY DEF BytesOf
        <3>. QED BY <1>3, <3>1
    <2>. DEFINE r == [s EXCEPT ![pos + 1] = 1]
    <2>2. pos + 1 \in 1..Len(s)
        BY <1>1, <1>3
    <2>3. r \in Bits /\ Len(r) = Len(s) /\ \A k \in 1..Len(s) : k # pos + 1 => r[k] = s[k]
        BY <1>1, <2>2, ExceptSeq DEF Bits
    <2>4. LeaveBits([bit EXCEPT ![i].length = n], [data EXCEPT ![bit[i].bytes] = r], shared)
        <3>1. [data EXCEPT ![bit[i].bytes][pos + 1] = 1] = [data EXCEPT ![bit[i].bytes] = r]
            BY <1>1, <2>1
        <3>. QED BY <1>3, <3>1 DEF SetBit
    <2>. HIDE DEF s, m, n, r
    <2>5. n <= Filled(m)
        BY <1>1, <1>2, <1>3
    <2>6. Filled(n) = Filled(m)
        BY <1>1, <1>2, <2>5, SameBytes
    <2>7. ClearBehind(s, m) => ClearBehind(r, n)
        <3>. SUFFICES ASSUME ClearBehind(s, m), NEW k \in (n + 1)..Len(r) PROVE r[k] = 0
            BY DEF ClearBehind
        <3>1. k \in 1..Len(s) /\ k # pos + 1 /\ k \in (m + 1)..Len(s)
            BY <1>1, <1>2, <2>3
        <3>. QED BY <2>3, <3>1 DEF ClearBehind
    <2>. QED BY <1>1, <1>2, <2>1, <2>3, <2>4, <2>6, <2>7, RewriteKeeps DEF m, s
<1>4. CASE ~(pos < Len(s))
    <2>. DEFINE t == [k \in 1..(pos + 1) |->
                        IF k = pos + 1 THEN 1 ELSE IF k <= Len(s) THEN s[k] ELSE 0]
                p == Padded(t)
    <2>1. n = pos + 1
        BY <1>1, <1>2, <1>4
    <2>2. t \in Seq({0, 1}) /\ Len(t) = pos + 1
        <3>1. \A k \in 1..(pos + 1) : k <= Len(s) => s[k] \in {0, 1}
            BY <1>1 DEF Bits
        <3>. HIDE DEF s
        <3>2. \A k \in 1..(pos + 1) : (IF k = pos + 1 THEN 1 ELSE IF k <= Len(s) THEN s[k] ELSE 0) \in {0, 1}
            BY <3>1
        <3>. QED BY <3>2
    <2>3. Replace(i, p, n)
        BY <1>4 DEF SetBit
    <2>. HIDE DEF s, m, n, t
    <2>4. p \in Bits /\ Len(p) = Filled(n) /\ ClearBehind(p, n)
        BY <2>1, <2>2, PaddedIs DEF Bits, ClearBehind
    <2>. HIDE DEF p
    <2>. QED BY <1>2, <2>3, <2>4, ReplaceKeeps
<1>. QED BY <1>3, <1>4

LEMMA UnsetBitKeeps ==
    ASSUME BitsInv, NEW i \in BitHandles, NEW pos \in Nat, UnsetBit(i, pos)
    PROVE  BitsInv'
<1>. DEFINE s == BytesOf(i)
            m == bit[i].length
            r == [s EXCEPT ![pos + 1] = 0]
<1>1. /\ s \in Bits /\ m \in Nat /\ Len(s) \in Nat
      /\ bit[i].bytes # NoBytes => bit[i].bytes \in DOMAIN data /\ s = data[bit[i].bytes]
      /\ bit[i].bytes \notin shared => ClearBehind(s, m)
      /\ bit \in [BitHandles -> [bytes : Arrays \cup {NoBytes}, length : Nat]]
    <2>1. s \in Bits /\ m \in Nat
        BY BytesType DEF BitsInv
    <2>2. bit[i].bytes # NoBytes => bit[i].bytes \in DOMAIN data /\ s = data[bit[i].bytes]
        BY BytesType DEF BitsInv, BitsTypeOK
    <2>. QED BY <2>1, <2>2 DEF BitsInv, BitsTypeOK
<1>2. pos < Len(s) /\ bit[i].bytes # NoBytes /\ pos + 1 \in 1..Len(s)
    <2>1. pos < Len(s)
        BY DEF UnsetBit
    <2>2. bit[i].bytes = NoBytes => s = << >>
        BY DEF BytesOf
    <2>. QED BY <1>1, <2>1, <2>2
<1>3. r \in Bits /\ Len(r) = Len(s) /\ \A k \in 1..Len(s) : r[k] = IF k = pos + 1 THEN 0 ELSE s[k]
    BY <1>1, <1>2, ExceptSeq DEF Bits
<1>4. LeaveBits([bit EXCEPT ![i].length = m], [data EXCEPT ![bit[i].bytes] = r], shared)
    <2>1. [data EXCEPT ![bit[i].bytes][pos + 1] = 0] = [data EXCEPT ![bit[i].bytes] = r]
        BY <1>1, <1>2
    <2>2. [bit EXCEPT ![i].length = m] = bit
        BY <1>1
    <2>. QED BY <2>1, <2>2 DEF UnsetBit
<1>. HIDE DEF s, r
<1>5. ClearBehind(s, m) => ClearBehind(r, m)
    <2>. HIDE DEF m
    <2>. SUFFICES ASSUME ClearBehind(s, m), NEW k \in (m + 1)..Len(r) PROVE r[k] = 0
        BY DEF ClearBehind
    <2>1. k \in 1..Len(s) /\ k \in (m + 1)..Len(s)
        BY <1>1, <1>3
    <2>. QED BY <1>3, <2>1 DEF ClearBehind
<1>. QED BY <1>1, <1>2, <1>3, <1>4, <1>5, RewriteKeeps DEF s

LEMMA CopyBitsKeeps ==
    ASSUME BitsInv, NEW i \in BitHandles, NEW j \in BitHandles, CopyBits(i, j)
    PROVE  BitsInv'
<1>. DEFINE b == [bit EXCEPT ![i] = bit[j]]
            s == shared \cup {bit[j].bytes}
<1>1. /\ b \in [BitHandles -> [bytes : Arrays \cup {NoBytes}, length : Nat]]
      /\ b[i] = bit[j]
      /\ \A k \in BitHandles \ {i} : b[k] = bit[k]
    BY DEF BitsInv, BitsTypeOK
<1>2. LeaveBits(b, data, s)
    BY DEF CopyBits
<1>. HIDE DEF b
<1>3. /\ bit' = b
      /\ \A k \in BitHandles : BytesOf(k)' = IF b[k].bytes = NoBytes THEN << >> ELSE data[b[k].bytes]
      /\ shared' = s \cap UsedArrays(b)
      /\ (\A c \in UsedArrays(b) : data[c] \in Bits) => BitsTypeOK'
    BY <1>1, <1>2, AfterLeave
<1>4. \A k \in BitHandles : bit[k].bytes = NoBytes \/ bit[k].bytes \in UsedArrays(bit)
    BY UsedOnes DEF BitsInv, BitsTypeOK
<1>5. UsedArrays(b) \subseteq UsedArrays(bit)
    <2>1. \A k \in BitHandles : \E h \in BitHandles : b[k] = bit[h]
        BY <1>1
    <2>. QED BY <2>1, Zenon DEF UsedArrays
<1>6. BitsTypeOK'
    BY <1>3, <1>5 DEF BitsInv, BitsTypeOK
<1>7. BytesOf(i)' = BytesOf(j) /\ \A k \in BitHandles \ {i} : BytesOf(k)' = BytesOf(k)
    BY <1>1, <1>3 DEF BytesOf
<1>8. \A k \in BitHandles : b[k].bytes \in shared => b[k].bytes \in shared'
    <2>1. \A k \in BitHandles : b[k].bytes = NoBytes \/ b[k].bytes \in UsedArrays(b)
        BY <1>1, UsedOnes
    <2>2. NoBytes \notin shared
        BY UsedOnes DEF BitsInv, BitsTypeOK
    <2>. QED BY <1>3, <2>1, <2>2
<1>9. bit[j].bytes \in shared' \cup {NoBytes}
    <2>1. b[i].bytes = NoBytes \/ b[i].bytes \in UsedArrays(b)
        BY <1>1, UsedOnes
    <2>. QED BY <1>1, <1>3, <2>1
<1>10. \A k \in BitHandles : Len(BytesOf(k)') = Filled(bit'[k].length)
    BY <1>1, <1>3, <1>7 DEF BitsInv
<1>11. ASSUME NEW k \in BitHandles, bit'[k].bytes \notin shared'
       PROVE  ClearBehind(BytesOf(k)', bit'[k].length)
    BY <1>1, <1>3, <1>7, <1>8, <1>11 DEF BitsInv
<1>12. ASSUME NEW k \in BitHandles, NEW h \in BitHandles \ {k}, bit'[k].bytes = bit'[h].bytes
       PROVE  bit'[k].bytes \in shared' \cup {NoBytes}
    <2>1. CASE k = i \/ h = i
        BY <1>1, <1>3, <1>9, <1>12, <2>1
    <2>2. CASE k # i /\ h # i
        BY <1>1, <1>3, <1>8, <1>12, <2>2 DEF BitsInv
    <2>. QED BY <2>1, <2>2
<1>. QED BY <1>6, <1>10, <1>11, <1>12 DEF BitsInv, ClearBehind, Filled, Padding

LEMMA DecodeBitsKeeps ==
    ASSUME BitsInv, NEW i \in BitHandles, NEW j \in BitHandles, DecodeBits(i, j)
    PROVE  BitsInv'
<1>. DEFINE s == BytesOf(j)
            n == bit[j].length
<1>1. s \in Bits /\ n \in Nat /\ Len(s) = Filled(n) /\ Padding(n) \in Nat
    <2>1. s \in Bits /\ n \in Nat /\ Len(s) = Filled(n)
        BY BytesType DEF BitsInv
    <2>. QED BY <2>1, PaddingIs
<1>2. Decodable(EncodedBits(j)) /\ Replace(i, s, Len(s) - Padding(n))
    BY DEF DecodeBits, EncodedBits, DecodedLength
<1>3. Len(s) - Padding(n) = n
    BY <1>1 DEF Filled
<1>4. ClearBehind(s, n)
    BY <1>2, <1>3 DEF Decodable, EncodedBits, ClearBehind
<1>. HIDE DEF s, n
<1>. QED BY <1>1, <1>2, <1>3, <1>4, ReplaceKeeps

\* What is encoded of a BitString that is its own is what Decode accepts, and any
\* BitString that Decode accepts it gives the length it had.
THEOREM PaddingIsClearTheorem == BitsSpec => []PaddingIsClear
<1>1. BitsInit => BitsInv
    <2>. SUFFICES ASSUME BitsInit PROVE BitsInv
        OBVIOUS
    <2>1. /\ bit \in [BitHandles -> [bytes : Arrays \cup {NoBytes}, length : Nat]]
          /\ \A i \in BitHandles : bit[i].bytes = NoBytes /\ bit[i].length = 0
        BY DEF BitsInit
    <2>2. UsedArrays(bit) = {}
        BY <2>1, UsedOnes
    <2>3. data \in [{} -> Bits] /\ shared = {}
        BY DEF BitsInit
    <2>4. Filled(0) = 0
        <3>1. PICK q \in Int : Padding(0) = BitsPerByte * q
            BY PaddingIs DEF Filled
        <3>2. Padding(0) \in 0..(BitsPerByte - 1)
            BY PaddingIs
        <3>. DEFINE b == BitsPerByte
        <3>3. b \in Nat \ {0} /\ b * q < b /\ b * q > -b
            BY <3>1, <3>2, BitsPerByteAssumption
        <3>. HIDE DEF b
        <3>4. q = 0 /\ b * 0 = 0
            BY <3>3, SmallMultiple
        <3>. QED BY <3>1, <3>4 DEF Filled, b
    <2>5. \A i \in BitHandles : BytesOf(i) = << >>
        BY <2>1 DEF BytesOf
    <2>. QED BY <2>1, <2>2, <2>3, <2>4, <2>5 DEF BitsInv, BitsTypeOK, ClearBehind
<1>2. BitsInv /\ [BitsNext]_bitVars => BitsInv'
    <2>. SUFFICES ASSUME BitsInv, [BitsNext]_bitVars PROVE BitsInv'
        OBVIOUS
    <2>1. ASSUME NEW i \in BitHandles, NEW s \in BitTexts, NewBits(i, s) PROVE BitsInv'
        <3>1. s \in Seq({0, 1})
            BY DEF BitTexts
        <3>2. Padded(s) \in Bits /\ Len(Padded(s)) = Filled(Len(s)) /\ ClearBehind(Padded(s), Len(s)) /\ Len(s) \in Nat
            BY <3>1, PaddedIs DEF Bits, ClearBehind
        <3>. QED BY <2>1, <3>2, ReplaceKeeps DEF NewBits
    <2>2. ASSUME NEW i \in BitHandles, NEW j \in BitHandles, CopyBits(i, j) \/ DecodeBits(i, j) PROVE BitsInv'
        BY <2>2, CopyBitsKeeps, DecodeBitsKeeps
    <2>3. ASSUME NEW i \in BitHandles, NEW pos \in 0..(MaxBits - 1), SetBit(i, pos) \/ UnsetBit(i, pos)
          PROVE  BitsInv'
        <3>1. pos \in Nat
            BY BitsPerByteAssumption
        <3>. QED BY <2>3, <3>1, SetBitKeeps, UnsetBitKeeps
    <2>4. CASE UNCHANGED bitVars
        BY <2>4 DEF bitVars, BitsInv, BitsTypeOK, UsedArrays, BytesOf, ClearBehind, Filled, Padding
    <2>. QED BY <2>1, <2>2, <2>3, <2>4 DEF BitsNext
<1>3. BitsInv => PaddingIsClear
    <2>. SUFFICES ASSUME BitsInv, NEW i \in BitHandles
                  PROVE  /\ DecodedLength(EncodedBits(i)) = bit[i].length
                         /\ bit[i].bytes \notin shared =>
                               /\ Decodable(EncodedBits(i))
                               /\ \A pos \in 0..MaxBits : Has(i, pos) <=> At(i, pos) = 1
        BY DEF PaddingIsClear
    <2>. DEFINE s == BytesOf(i)
                n == bit[i].length
    <2>1. s \in Bits /\ n \in Nat /\ Len(s) = n + Padding(n) /\ Padding(n) \in Nat
        <3>1. s \in Bits /\ n \in Nat /\ Len(s) = Filled(n)
            BY BytesType DEF BitsInv
        <3>. QED BY <3>1, PaddingIs DEF Filled
    <2>2. EncodedBits(i) = [padding |-> Padding(n), bits |-> s]
        BY DEF EncodedBits
    <2>3. bit[i].bytes \notin shared => ClearBehind(s, n)
        BY DEF BitsInv
    <2>4. Len(s) - Padding(n) = n
        BY <2>1
    <2>5. DecodedLength(EncodedBits(i)) = n
        BY <2>2, <2>4 DEF DecodedLength
    <2>6. ASSUME ClearBehind(s, n) PROVE Decodable(EncodedBits(i))
        <3>1. s = << >> => Padding(n) = 0
            BY <2>1
        <3>. QED BY <2>2, <2>4, <2>6, <3>1 DEF Decodable, ClearBehind
    <2>7. ASSUME ClearBehind(s, n), NEW pos \in 0..MaxBits PROVE Has(i, pos) <=> At(i, pos) = 1
        <3>1. Has(i, pos) <=> pos < Len(s) /\ s[pos + 1] = 1
            BY DEF Has
        <3>2. At(i, pos) = IF pos < n THEN s[pos + 1] ELSE 0
            BY DEF At
        <3>. HIDE DEF s, n
        <3>3. pos < Len(s) /\ ~(pos < n) => s[pos + 1] = 0
            BY <2>1, <2>7, BitsPerByteAssumption DEF ClearBehind
        <3>. QED BY <2>1, <3>1, <3>2, <3>3, BitsPerByteAssumption
    <2>. QED BY <2>3, <2>5, <2>6, <2>7
<1>. QED BY <1>1, <1>2, <1>3, PTL DEF BitsSpec

-----------------------------------------------------------------------------
(* An assertion is its segments with an asterisk between any two           *)

Apart(s) == Passed("*", s, Len(s)) > 0 /\ \A i \in 1..(Len(s) - 1) : ~(s[i] = "*" /\ s[i + 1] = "*")

\* Which segments are empty.
LEMMA EmptyBetween ==
    ASSUME NEW s \in Seq(Tokens), NEW at, CutMarks("*", s, at), Apart(s), NEW k \in 0..Passed("*", s, Len(s))
    PROVE  CutOut(s, at, k) = << >> <=> \/ k = 0 /\ s[1] = "*"
                                        \/ k = Passed("*", s, Len(s)) /\ s[Len(s)] = "*"
<1>. DEFINE n == Len(s)
            m == Passed("*", s, n)
            a == at[k]
            b == at[k + 1]
<1>1. /\ n \in Nat /\ m \in Nat /\ a \in 0..n /\ b \in 1..(n + 1) /\ a < b /\ Passed("*", s, a) = k
      /\ k < m => b \in 1..n /\ s[b] = "*" /\ Passed("*", s, b) = k + 1
      /\ k = m => b = n + 1
    BY MarksType
<1>2. CutOut(s, at, k) = << >> <=> b = a + 1
    <2>1. CutOut(s, at, k) \in Seq(Tokens) /\ Len(CutOut(s, at, k)) = b - a - 1
        BY CutIsInside
    <2>2. CutOut(s, at, k) = << >> <=> Len(CutOut(s, at, k)) = 0
        BY <2>1, EmptySeq
    <2>3. b - a - 1 = 0 <=> b = a + 1
        BY <1>1
    <2>. QED BY <2>1, <2>2, <2>3
<1>3. at[0] = 0 /\ \A j \in 1..m : at[j] \in 1..n /\ s[at[j]] = "*"
    BY DEF CutMarks
<1>4. m > 0 /\ \A i \in 1..(n - 1) : ~(s[i] = "*" /\ s[i + 1] = "*")
    BY DEF Apart
<1>5. k \in Nat /\ k <= m /\ (k = m \/ k < m)
    BY <1>1
<1>6. k # 0 => a \in 1..n /\ s[a] = "*"
    <2>1. k # 0 => k \in 1..m
        BY <1>1, <1>5
    <2>. QED BY <1>3, <2>1
<1>0. Passed("*", s, n) = m
    OBVIOUS
<1>. HIDE DEF n, m, a, b
<1>8. s[1] = "*" /\ n >= 1 => Passed("*", s, 1) > 0
    <2>1. 1 \in Nat /\ 0 \in 0..1 /\ 0 < 1
        OBVIOUS
    <2>2. Passed("*", s, 0) \in Nat /\ Passed("*", s, 1) \in Nat /\ (s[1] = "*" => Passed("*", s, 0) < Passed("*", s, 1))
        BY <2>1, PassedGrow
    <2>. QED BY <2>2
<1>9. CASE k = 0
    <2>1. k < m /\ k # m /\ a = 0
        BY <1>1, <1>3, <1>4, <1>9 DEF a
    <2>2. b = 1 <=> s[1] = "*"
        <3>1. b = 1 => s[1] = "*"
            BY <1>1, <2>1
        <3>2. ASSUME s[1] = "*", b # 1 PROVE FALSE
            <4>1. b \in Nat /\ 1 \in 0..b /\ 1 < b /\ s[b] = "*" /\ Passed("*", s, b) = 1 /\ n >= 1
                BY <1>1, <1>9, <2>1, <3>2
            <4>2. Passed("*", s, 1) \in Nat /\ Passed("*", s, 1) < Passed("*", s, b)
                BY <4>1, PassedGrow
            <4>. QED BY <1>8, <3>2, <4>1, <4>2
        <3>. QED BY <3>1, <3>2
    <2>3. b = a + 1 <=> b = 1
        BY <2>1
    <2>. QED BY <1>2, <1>9, <2>1, <2>2, <2>3 DEF m, n
<1>10. CASE k # 0 /\ k < m
    <2>1. a \in 1..n /\ s[a] = "*" /\ b \in 1..n /\ s[b] = "*"
        BY <1>1, <1>6, <1>10
    <2>2. b # a + 1
        <3>. SUFFICES ASSUME b = a + 1 PROVE FALSE
            OBVIOUS
        <3>1. a \in 1..(n - 1) /\ s[a + 1] = "*"
            BY <1>1, <2>1
        <3>. QED BY <1>4, <2>1, <3>1
    <2>3. k # m
        BY <1>5, <1>10
    <2>. QED BY <1>2, <1>10, <2>2, <2>3 DEF m, n
<1>11. CASE k # 0 /\ k = m
    <2>1. b = n + 1 /\ a \in 1..n /\ s[a] = "*"
        BY <1>1, <1>6, <1>11
    <2>2. a = n <=> s[n] = "*"
        <3>1. a = n => s[n] = "*"
            BY <2>1
        <3>2. ASSUME s[n] = "*", a # n PROVE FALSE
            <4>1. n \in Nat /\ a \in 0..n /\ a < n
                BY <1>1, <2>1, <3>2
            <4>2. Passed("*", s, a) \in Nat /\ Passed("*", s, a) < Passed("*", s, n)
                BY <3>2, <4>1, PassedGrow
            <4>. QED BY <1>0, <1>1, <1>11, <4>2
        <3>. QED BY <3>1, <3>2
    <2>3. b = a + 1 <=> a = n
        BY <1>1, <2>1
    <2>. QED BY <1>2, <1>11, <2>2, <2>3 DEF m, n
<1>. QED BY <1>5, <1>9, <1>10, <1>11

\* The first of the segments is left out if it is empty, and the last; no other one is.
LEMMA PartsAre ==
    ASSUME NEW s \in Seq(Tokens), NEW at, CutMarks("*", s, at), Apart(s)
    PROVE  LET m == Passed("*", s, Len(s))
           IN  Parts(s) = SubSeq([k \in 1..(m + 1) |-> CutOut(s, at, k - 1)],
                                 IF s[1] = "*" THEN 2 ELSE 1, IF s[Len(s)] = "*" THEN m ELSE m + 1)
<1>. DEFINE m == Passed("*", s, Len(s))
            lo == IF s[1] = "*" THEN 2 ELSE 1
            hi == IF s[Len(s)] = "*" THEN m ELSE m + 1
            segments == [k \in 1..(m + 1) |-> CutAt("*", s, k - 1)]
            ss == [k \in 1..(m + 1) |-> CutOut(s, at, k - 1)]
            is == {k \in DOMAIN ss : ss[k] # << >>}
<1>1. m \in Nat /\ m > 0
    <2>1. Len(s) \in Nat /\ Len(s) \in 0..Len(s)
        BY LenProperties
    <2>2. m \in Nat
        BY <2>1, PassedGrow
    <2>. QED BY <2>2 DEF Apart
<1>2. \A k \in 1..(m + 1) : k - 1 \in 0..m
    BY <1>1
<1>3. \A k \in 0..m : CutAt("*", s, k) = CutOut(s, at, k) /\ CutOut(s, at, k) \in Seq(Tokens)
    BY CutIsInside
<1>4. segments = ss
    BY <1>2, <1>3
<1>5. ss \in Seq(Seq(Tokens)) /\ Len(ss) = m + 1 /\ DOMAIN ss = 1..(m + 1)
    <2>1. \A k \in 1..(m + 1) : CutOut(s, at, k - 1) \in Seq(Tokens)
        BY <1>2, <1>3
    <2>2. m + 1 \in Nat
        BY <1>1
    <2>. DEFINE e(k) == CutOut(s, at, k - 1)
    <2>3. \A k \in 1..(m + 1) : e(k) \in Seq(Tokens)
        BY <2>1
    <2>4. ss = [k \in 1..(m + 1) |-> e(k)]
        OBVIOUS
    <2>. HIDE DEF e, ss
    <2>5. ss \in Seq(Seq(Tokens))
        BY <2>2, <2>3, <2>4, IsASeq
    <2>6. DOMAIN ss = 1..(m + 1)
        BY <2>4
    <2>. QED BY <2>2, <2>5, <2>6, LenProperties
<1>6. Parts(s) = Pick(ss, is)
    BY <1>4 DEF Parts, CutBy
<1>7. is = lo..hi
    <2>1. \A k \in 1..(m + 1) : ss[k] = CutOut(s, at, k - 1)
        OBVIOUS
    <2>2. \A k \in 0..m : CutOut(s, at, k) = << >> <=> (k = 0 /\ s[1] = "*") \/ (k = m /\ s[Len(s)] = "*")
        BY EmptyBetween
    <2>. HIDE DEF m, ss
    <2>3. ASSUME NEW k \in 1..(m + 1)
          PROVE  ss[k] # << >> <=> (k = 1 => s[1] # "*") /\ (k = m + 1 => s[Len(s)] # "*")
        <3>1. k - 1 \in 0..m /\ (k - 1 = 0 <=> k = 1) /\ (k - 1 = m <=> k = m + 1)
            BY <1>1
        <3>2. ss[k] = CutOut(s, at, k - 1)
            BY <2>1
        <3>. QED BY <2>2, <3>1, <3>2
    <2>4. is = {k \in 1..(m + 1) : (k = 1 => s[1] # "*") /\ (k = m + 1 => s[Len(s)] # "*")}
        BY <1>5, <2>3
    <2>5. ASSUME NEW F \in BOOLEAN, NEW L \in BOOLEAN
          PROVE  {k \in 1..(m + 1) : (k = 1 => ~F) /\ (k = m + 1 => ~L)}
                    = (IF F THEN 2 ELSE 1)..(IF L THEN m ELSE m + 1)
        BY <1>1
    <2>6. (s[1] = "*") \in BOOLEAN /\ (s[Len(s)] = "*") \in BOOLEAN
        OBVIOUS
    <2>. QED BY <2>4, <2>5, <2>6, Zenon
<1>. HIDE DEF ss, is, m
<1>8. lo \in 1..(Len(ss) + 1) /\ hi \in 0..Len(ss) /\ lo <= hi + 1
    BY <1>1, <1>5
<1>. HIDE DEF lo, hi
<1>9. Pick(ss, lo..hi) = SubSeq(ss, lo, hi)
    BY <1>5, <1>8, PickInterval
<1>10. Parts(s) = SubSeq(ss, lo, hi)
    BY <1>6, <1>7, <1>9
<1>. QED BY <1>10 DEF ss, lo, hi, m

LEMMA TokensAre ==
    ASSUME NEW s \in Seq(Tokens), NEW at, CutMarks("*", s, at), Apart(s), Parts(s) # << >>
    PROVE  LET m == Passed("*", s, Len(s))
           IN  TokensOf(s, Parts(s)) = Parsed(CutOut(s, at, 0), [k \in 1..(m - 1) |-> CutOut(s, at, k)],
                                              CutOut(s, at, m))
<1>. DEFINE m == Passed("*", s, Len(s))
            first == s[1] = "*"
            last == s[Len(s)] = "*"
            lo == IF first THEN 2 ELSE 1
            hi == IF last THEN m ELSE m + 1
            ss == [k \in 1..(m + 1) |-> CutOut(s, at, k - 1)]
            parts == Parts(s)
            n == Len(parts)
            c == IF first THEN 1 ELSE 2
            d == IF last THEN n ELSE n - 1
            any == [k \in 1..(m - 1) |-> CutOut(s, at, k)]
<1>1. m \in Nat /\ m > 0
    <2>1. Len(s) \in Nat /\ Len(s) \in 0..Len(s)
        BY LenProperties
    <2>2. m \in Nat
        BY <2>1, PassedGrow
    <2>. QED BY <2>2 DEF Apart
<1>2. \A k \in 0..m : CutOut(s, at, k) \in Seq(Tokens)
    BY CutIsInside
<1>3. parts = SubSeq(ss, lo, hi)
    BY PartsAre
<1>4. \A k \in 1..(m + 1) : ss[k] = CutOut(s, at, k - 1) /\ ss[k] \in Seq(Tokens)
    <2>1. \A k \in 1..(m + 1) : k - 1 \in 0..m
        BY <1>1
    <2>. QED BY <1>2, <2>1
<1>5. first => CutOut(s, at, 0) = << >>
    <2>1. 0 \in 0..m
        BY <1>1
    <2>. QED BY <2>1, EmptyBetween
<1>6. last => CutOut(s, at, m) = << >>
    <2>1. m \in 0..m
        BY <1>1
    <2>. QED BY <2>1, EmptyBetween
<1>0. parts # << >> /\ parts \in Seq(Seq(Tokens))
    BY PartsType
<1>. HIDE DEF m, ss, first, last, parts
<1>7. lo \in Int /\ hi \in Int /\ lo \in 1..2 /\ hi \in m..(m + 1) /\ \A i \in lo..hi : ss[i] \in Seq(Tokens)
    <2>1. lo \in 1..2 /\ hi \in m..(m + 1)
        BY <1>1
    <2>2. \A i \in lo..hi : i \in 1..(m + 1)
        BY <1>1, <2>1
    <2>. QED BY <1>1, <1>4, <2>1, <2>2
<1>8. /\ n = IF lo <= hi THEN hi - lo + 1 ELSE 0
      /\ \A i \in 1..(hi - lo + 1) : parts[i] = ss[lo + i - 1]
    <2>. HIDE DEF lo, hi
    <2>. QED BY <1>3, <1>7, SubSeqProperties
<1>9. n # 0
    BY <1>0, EmptySeq
<1>10. n = hi - lo + 1 /\ n \in Nat /\ n >= 1
    <2>. HIDE DEF lo, hi, n
    <2>. QED BY <1>7, <1>8, <1>9
<1>11. \A i \in 1..n : parts[i] = ss[lo + i - 1]
    <2>. HIDE DEF lo, hi, n
    <2>. QED BY <1>8, <1>10
<1>12. (IF first THEN << >> ELSE parts[1]) = CutOut(s, at, 0)
    <2>1. CASE first
        BY <1>5, <2>1
    <2>2. CASE ~first
        <3>1. 1 \in 1..n /\ lo + 1 - 1 = 1
            BY <1>10, <2>2
        <3>2. parts[1] = ss[1]
            BY <1>11, <3>1
        <3>3. 1 \in 1..(m + 1) /\ 1 - 1 = 0
            BY <1>1
        <3>4. ss[1] = CutOut(s, at, 1 - 1)
            BY <1>4, <3>3
        <3>. QED BY <2>2, <3>2, <3>3, <3>4
    <2>. QED BY <2>1, <2>2
<1>13. (IF last THEN << >> ELSE parts[n]) = CutOut(s, at, m)
    <2>1. CASE last
        BY <1>6, <2>1
    <2>2. CASE ~last
        <3>1. n \in 1..n /\ lo + n - 1 = m + 1
            <4>1. hi = m + 1
                BY <2>2
            <4>. HIDE DEF lo, hi, n
            <4>. QED BY <1>1, <1>7, <1>10, <4>1
        <3>2. parts[n] = ss[m + 1]
            BY <1>11, <3>1
        <3>3. m + 1 \in 1..(m + 1) /\ (m + 1) - 1 = m
            BY <1>1
        <3>4. ss[m + 1] = CutOut(s, at, (m + 1) - 1)
            BY <1>4, <3>3
        <3>. QED BY <2>2, <3>2, <3>3, <3>4
    <2>. QED BY <2>1, <2>2
<1>14. SubSeq(parts, c, d) = any
    <2>1. c = 3 - lo /\ d = m - lo + 1
        <3>1. c = 3 - lo
            OBVIOUS
        <3>2. CASE last
            BY <1>1, <1>7, <1>10, <3>2
        <3>3. CASE ~last
            BY <1>1, <1>7, <1>10, <3>3
        <3>. QED BY <3>1, <3>2, <3>3
    <2>. HIDE DEF lo, hi, n, c, d
    <2>2. c \in Int /\ d \in Int /\ c >= 1 /\ d <= n /\ d - c + 1 = m - 1
        BY <1>1, <1>7, <1>10, <2>1
    <2>3. \A i \in c..d : i \in 1..n
        BY <1>10, <2>2
    <2>4. \A i \in c..d : parts[i] \in Seq(Tokens)
        <3>1. \A i \in 1..n : lo + i - 1 \in 1..(m + 1)
            BY <1>1, <1>7, <1>10
        <3>. QED BY <1>4, <1>11, <2>3, <3>1
    <2>. DEFINE q == SubSeq(parts, c, d)
    <2>5. /\ q \in Seq(Seq(Tokens)) /\ Len(q) = IF c <= d THEN d - c + 1 ELSE 0
          /\ \A i \in 1..(d - c + 1) : q[i] = parts[c + i - 1]
        BY <2>2, <2>4, SubSeqProperties
    <2>. HIDE DEF q
    <2>6. Len(q) = m - 1
        BY <1>1, <2>2, <2>5
    <2>7. ASSUME NEW i \in 1..(m - 1) PROVE q[i] = CutOut(s, at, i)
        <3>1. c + i - 1 \in 1..n /\ lo + (c + i - 1) - 1 = i + 1
            BY <1>1, <1>7, <1>10, <2>1, <2>2
        <3>2. q[i] = parts[c + i - 1]
            BY <2>2, <2>5
        <3>3. parts[c + i - 1] = ss[i + 1]
            BY <1>11, <3>1
        <3>4. i + 1 \in 1..(m + 1) /\ (i + 1) - 1 = i
            BY <1>1
        <3>5. ss[i + 1] = CutOut(s, at, (i + 1) - 1)
            BY <1>4, <3>4
        <3>. QED BY <3>2, <3>3, <3>4, <3>5
    <2>8. DOMAIN q = 1..(m - 1)
        BY <2>5, <2>6, LenProperties
    <2>9. q = [i \in 1..(m - 1) |-> q[i]]
        <3>1. q = [i \in DOMAIN q |-> q[i]]
            BY <2>5
        <3>. QED BY <2>8, <3>1
    <2>10. q = any
        BY <2>7, <2>9
    <2>. QED BY <2>10 DEF q
<1>. HIDE DEF any
<1>15. TokensOf(s, parts) = Parsed(IF first THEN << >> ELSE parts[1], SubSeq(parts, c, d),
                                   IF last THEN << >> ELSE parts[n])
    BY DEF TokensOf, first, last
<1>16. TokensOf(s, parts) = Parsed(CutOut(s, at, 0), any, CutOut(s, at, m))
    <2>. HIDE DEF n, c, d
    <2>. QED BY <1>12, <1>13, <1>14, <1>15
<1>. QED BY <1>16 DEF parts, any, m

LEMMA BetweenAndMark ==
    ASSUME NEW s \in Seq(Tokens), NEW at, CutMarks("*", s, at), NEW k \in 0..(Passed("*", s, Len(s)) - 1)
    PROVE  /\ CutOut(s, at, k) \o <<"*">> = SubSeq(s, at[k] + 1, at[k + 1])
           /\ CutOut(s, at, k) \o <<"*">> \in Seq(Tokens)
<1>. DEFINE m == Passed("*", s, Len(s))
            a == at[k]
            b == at[k + 1]
<1>1. m \in Nat
    <2>1. Len(s) \in Nat /\ Len(s) \in 0..Len(s)
        BY LenProperties
    <2>. QED BY <2>1, PassedGrow
<1>2. k \in 0..m /\ k < m
    BY <1>1
<1>3. Len(s) \in Nat /\ a \in 0..Len(s) /\ b \in 1..Len(s) /\ a < b /\ s[b] = "*"
    BY <1>2, MarksType
<1>4. CutOut(s, at, k) \in Seq(Tokens)
    BY <1>2, CutIsInside
<1>5. CutOut(s, at, k) = SubSeq(s, a + 1, b - 1)
    BY DEF CutOut
<1>6. <<"*">> \in Seq(Tokens)
    <2>1. "*" \in Tokens
        BY DEF Tokens
    <2>. QED BY <2>1
<1>. HIDE DEF a, b
<1>7. a + 1 \in 1..Len(s) /\ b \in (a + 1)..Len(s)
    BY <1>3
<1>8. SubSeq(s, a + 1, b) = SubSeq(s, a + 1, b - 1) \o <<s[b]>>
    BY <1>7, SubSeqRecursiveSecond
<1>9. CutOut(s, at, k) \o <<"*">> = SubSeq(s, a + 1, b)
    BY <1>3, <1>5, <1>8
<1>10. CutOut(s, at, k) \o <<"*">> \in Seq(Tokens)
    BY <1>4, <1>6, ConcatProperties
<1>. QED BY <1>9, <1>10 DEF a, b

\* The segments with the asterisks in between are the whole.
LEMMA JoinedAgain ==
    ASSUME NEW s \in Seq(Tokens), NEW at, CutMarks("*", s, at), Passed("*", s, Len(s)) > 0
    PROVE  LET m == Passed("*", s, Len(s))
           IN  CutOut(s, at, 0) \o <<"*">> \o FlattenSeq([k \in 1..(m - 1) |-> CutOut(s, at, k) \o <<"*">>])
                 \o CutOut(s, at, m) = s
<1>. DEFINE m == Passed("*", s, Len(s))
            q == [k \in 1..(m - 1) |-> CutOut(s, at, k) \o <<"*">>]
            G(i) == SubSeq(s, at[1] + 1, at[i])
<1>1. m \in Nat /\ m > 0
    <2>1. Len(s) \in Nat /\ Len(s) \in 0..Len(s)
        BY LenProperties
    <2>. QED BY <2>1, PassedGrow
<1>0. \A k \in 0..(m - 1) : CutOut(s, at, k) \o <<"*">> = SubSeq(s, at[k] + 1, at[k + 1])
                            /\ CutOut(s, at, k) \o <<"*">> \in Seq(Tokens)
    BY BetweenAndMark
<1>2. /\ Len(s) \in Nat /\ at[0] = 0 /\ at[m + 1] = Len(s) + 1
      /\ \A k \in 0..m : at[k] \in 0..Len(s) /\ at[k] < at[k + 1]
    <2>1. at[0] = 0 /\ at[m + 1] = Len(s) + 1
        BY DEF CutMarks
    <2>2. Len(s) \in Nat
        BY LenProperties
    <2>3. \A k \in 0..m : at[k] \in 0..Len(s) /\ at[k] < at[k + 1]
        BY MarksType
    <2>. QED BY <2>1, <2>2, <2>3
<1>3. CutOut(s, at, m) = SubSeq(s, at[m] + 1, Len(s))
    <2>1. at[m + 1] - 1 = Len(s)
        BY <1>2
    <2>. QED BY <2>1 DEF CutOut
<1>. HIDE DEF m
<1>4. q \in Seq(Seq(Tokens)) /\ Len(q) = m - 1 /\ \A k \in 1..(m - 1) : q[k] = SubSeq(s, at[k] + 1, at[k + 1])
    <2>. DEFINE e(k) == CutOut(s, at, k) \o <<"*">>
    <2>1. \A k \in 1..(m - 1) : k \in 0..(m - 1)
        OBVIOUS
    <2>2. \A k \in 1..(m - 1) : e(k) \in Seq(Tokens) /\ e(k) = SubSeq(s, at[k] + 1, at[k + 1])
        BY <1>0, <2>1
    <2>3. q = [k \in 1..(m - 1) |-> e(k)] /\ m - 1 \in Nat
        BY <1>1
    <2>. HIDE DEF e, q
    <2>4. q \in Seq(Seq(Tokens))
        BY <2>2, <2>3, IsASeq
    <2>5. DOMAIN q = 1..(m - 1)
        BY <2>3
    <2>. QED BY <2>2, <2>3, <2>4, <2>5, LenProperties
<1>. HIDE DEF q
<1>5. ASSUME NEW i \in 2..m PROVE at[1] \in 1..Len(s) /\ at[i] \in (at[1] + 1)..Len(s) /\ at[i - 1] \in at[1]..at[i]
    <2>1. \A k \in 1..m : at[k] \in 1..Len(s) /\ Passed("*", s, at[k]) = k
        BY DEF CutMarks, m
    <2>2. i \in 1..m /\ 1 \in 1..m /\ i - 1 \in 1..m /\ i - 1 \in 0..m /\ (i - 1) + 1 = i
        BY <1>1
    <2>3. at[i - 1] < at[i]
        BY <1>2, <2>2
    <2>. DEFINE x == at[1]
                y == at[i - 1]
    <2>4. x \in 1..Len(s) /\ y \in 1..Len(s) /\ Passed("*", s, x) = 1 /\ Passed("*", s, y) = i - 1 /\ s[x] = "*"
        BY <2>1, <2>2 DEF CutMarks, m
    <2>. HIDE DEF x, y
    <2>5. ASSUME y < x PROVE FALSE
        <3>1. x \in Nat /\ y \in 0..x /\ y < x
            BY <2>4, <2>5
        <3>2. Passed("*", s, y) < Passed("*", s, x)
            BY <2>4, <3>1, PassedGrow
        <3>. QED BY <2>4, <3>2
    <2>6. at[i] \in Nat /\ at[i] <= Len(s)
        BY <2>1, <2>2
    <2>7. x \in Nat /\ y \in Nat /\ x <= y
        BY <2>4, <2>5
    <2>. QED BY <2>3, <2>4, <2>6, <2>7 DEF x, y
<1>6. FlattenSeq(q) = SubSeq(s, at[1] + 1, at[m])
    <2>1. CASE m = 1
        <3>1. q = << >>
            BY <1>4, <2>1, EmptySeq
        <3>2. FlattenSeq(q) = << >>
            <4>1. Len(q) = 0
                BY <1>4, <2>1
            <4>. QED BY <3>1, <4>1 DEF FlattenSeq
        <3>3. at[1] \in Int /\ at[1] + 1 \in Int /\ at[1] < at[1] + 1
            <4>1. 1 \in 0..m
                BY <1>1
            <4>. QED BY <1>2, <4>1
        <3>. QED BY <2>1, <3>2, <3>3, SubSeqEmpty
    <2>2. CASE m # 1
        <3>. DEFINE H == [i \in 1..(m - 1) |-> G(i + 1)]
        <3>1. Len(q) > 0 /\ m - 1 \in 1..(m - 1) /\ 1 \in 1..(m - 1)
            BY <1>1, <1>4, <2>2
        <3>2. H[1] = q[1]
            BY <1>4, <3>1
        <3>3. ASSUME NEW i \in 2..(m - 1) PROVE H[i] = H[i - 1] \o q[i]
            <4>1. i \in 1..(m - 1) /\ i - 1 \in 1..(m - 1) /\ (i - 1) + 1 = i /\ i \in 2..m /\ i + 1 \in 2..m /\ (i + 1) - 1 = i
                BY <1>1
            <4>2. at[1] \in 1..Len(s) /\ at[i] \in (at[1] + 1)..Len(s) /\ at[i + 1] \in (at[1] + 1)..Len(s) /\ at[i] \in at[1]..at[i + 1]
                BY <1>5, <4>1
            <4>. DEFINE x == at[1]
                        y == at[i]
                        z == at[i + 1]
            <4>3. q[i] = SubSeq(s, y + 1, z) /\ H[i] = SubSeq(s, x + 1, z) /\ H[i - 1] = SubSeq(s, x + 1, y)
                <5>1. H[i - 1] = G((i - 1) + 1) /\ H[i] = G(i + 1)
                    BY <4>1
                <5>. HIDE DEF H
                <5>. QED BY <1>4, <4>1, <5>1
            <4>. HIDE DEF x, y, z, H
            <4>4. x + 1 \in 1..(Len(s) + 1) /\ y \in ((x + 1) - 1)..Len(s) /\ z \in y..Len(s)
                <5>1. x \in 1..Len(s) /\ y \in (x + 1)..Len(s) /\ z \in (x + 1)..Len(s) /\ y \in x..z
                    BY <4>2 DEF x, y, z
                <5>. QED BY <1>2, <5>1
            <4>5. SubSeq(s, x + 1, y) \o SubSeq(s, y + 1, z) = SubSeq(s, x + 1, z)
                BY <4>4, ConcatAdjacentSubSeq
            <4>. QED BY <4>3, <4>5
        <3>4. H[m - 1] = SubSeq(s, at[1] + 1, at[m])
            <4>1. (m - 1) + 1 = m
                BY <1>1
            <4>2. H[m - 1] = G((m - 1) + 1)
                <5>. HIDE DEF G
                <5>. QED BY <3>1
            <4>. QED BY <4>1, <4>2
        <3>. HIDE DEF H
        <3>5. \A i \in 2..Len(q) : H[i] = H[i - 1] \o q[i]
            BY <1>4, <3>3
        <3>6. FlattenSeq(q) = H[Len(q)]
            BY <1>4, <3>1, <3>2, <3>5, FlattenIs
        <3>. QED BY <1>4, <3>4, <3>6
    <2>. QED BY <2>1, <2>2
<1>7. CutOut(s, at, 0) \o <<"*">> = SubSeq(s, 1, at[1])
    <2>1. 0 \in 0..(m - 1) /\ 0 + 1 = 1
        BY <1>1
    <2>2. CutOut(s, at, 0) \o <<"*">> = SubSeq(s, at[0] + 1, at[0 + 1])
        BY <1>0, <2>1
    <2>. QED BY <1>2, <2>1, <2>2
<1>. DEFINE a == at[1]
            b == at[m]
<1>8. a \in 1..Len(s) /\ b \in a..Len(s)
    <2>1. a \in 1..Len(s)
        <3>1. \A k \in 1..m : at[k] \in 1..Len(s)
            BY DEF CutMarks, m
        <3>. QED BY <1>1, <3>1
    <2>2. CASE m = 1
        BY <1>2, <2>1, <2>2
    <2>3. CASE m # 1
        <3>1. m \in 2..m
            BY <1>1, <2>3
        <3>2. b \in (a + 1)..Len(s)
            BY <1>5, <3>1
        <3>. HIDE DEF a, b
        <3>. QED BY <1>2, <2>1, <3>2
    <2>. QED BY <2>1, <2>2, <2>3
<1>. HIDE DEF a, b
<1>9. SubSeq(s, 1, a) \o SubSeq(s, a + 1, b) = SubSeq(s, 1, b)
    <2>1. 1 \in 1..(Len(s) + 1) /\ a \in (1 - 1)..Len(s) /\ b \in a..Len(s)
        BY <1>2, <1>8
    <2>. QED BY <2>1, ConcatAdjacentSubSeq
<1>10. SubSeq(s, 1, b) \o SubSeq(s, b + 1, Len(s)) = SubSeq(s, 1, Len(s))
    <2>1. 1 \in 1..(Len(s) + 1) /\ b \in (1 - 1)..Len(s) /\ Len(s) \in b..Len(s)
        BY <1>2, <1>8
    <2>. QED BY <2>1, ConcatAdjacentSubSeq
<1>11. SubSeq(s, 1, Len(s)) = s
    BY SubSeqFull
<1>12. CutOut(s, at, 0) \o <<"*">> \o FlattenSeq(q) \o CutOut(s, at, m) = s
    BY <1>3, <1>6, <1>7, <1>9, <1>10, <1>11, Zenon DEF a, b
<1>. QED BY <1>12 DEF q, m

\* What Trim cuts begins and ends with something else than a blank.
LEMMA TrimEnds ==
    ASSUME NEW s \in Seq(Tokens), ~Blank(s)
    PROVE  LET t == Trim(s)
           IN  Len(t) \in Nat \ {0} /\ t[1] # "blank" /\ t[Len(t)] # "blank"
<1>. DEFINE T == {i \in DOMAIN s : s[i] # "blank"}
            First(i) == s[i] # "blank" /\ \A j \in 1..(i - 1) : s[j] = "blank"
            Ending(i) == s[i] # "blank" /\ \A j \in (i + 1)..Len(s) : s[j] = "blank"
            from == CHOOSE i \in DOMAIN s : First(i)
            to == CHOOSE i \in DOMAIN s : Ending(i)
<1>1. Len(s) \in Nat /\ DOMAIN s = 1..Len(s)
    BY LenProperties
<1>2. T \subseteq 1..Len(s) /\ T # {}
    BY <1>1 DEF Blank
<1>3. PICK x \in T : \A y \in T : x <= y
    <2>. HIDE DEF T
    <2>. QED BY <1>1, <1>2, FirstPosition
<1>4. PICK z \in T : \A y \in T : y <= z
    <2>. HIDE DEF T
    <2>. QED BY <1>1, <1>2, LastPosition
<1>5. from \in DOMAIN s /\ First(from)
    <2>1. x \in DOMAIN s /\ First(x)
        BY <1>1, <1>3
    <2>. HIDE DEF First
    <2>. QED BY <2>1
<1>6. to \in DOMAIN s /\ Ending(to)
    <2>1. z \in DOMAIN s /\ Ending(z)
        BY <1>1, <1>4
    <2>. HIDE DEF Ending
    <2>. QED BY <2>1
<1>7. Trim(s) = SubSeq(s, from, to)
    BY DEF Trim
<1>. HIDE DEF from, to
<1>8. from \in 1..Len(s) /\ to \in 1..Len(s) /\ from <= to
    <2>1. from \in 1..Len(s) /\ to \in 1..Len(s)
        BY <1>1, <1>5, <1>6
    <2>2. ASSUME to < from PROVE FALSE
        <3>1. to \in 1..(from - 1)
            BY <2>1, <2>2
        <3>. QED BY <1>5, <1>6, <3>1
    <2>. QED BY <2>1, <2>2
<1>. HIDE DEF First, Ending
<1>9. \A i \in from..to : s[i] \in Tokens
    <2>1. \A i \in from..to : i \in 1..Len(s)
        BY <1>1, <1>8
    <2>. QED BY <2>1, ElementOfSeq
<1>10. from \in Int /\ to \in Int
    BY <1>8
<1>11. /\ Len(SubSeq(s, from, to)) = IF from <= to THEN to - from + 1 ELSE 0
       /\ \A i \in 1..(to - from + 1) : SubSeq(s, from, to)[i] = s[from + i - 1]
    BY <1>9, <1>10, SubSeqProperties
<1>12. to - from + 1 \in Nat \ {0} /\ 1 \in 1..(to - from + 1) /\ to - from + 1 \in 1..(to - from + 1)
       /\ from + 1 - 1 = from /\ from + (to - from + 1) - 1 = to
    BY <1>8
<1>13. Len(SubSeq(s, from, to)) = to - from + 1
    BY <1>8, <1>11
<1>14. s[from] # "blank" /\ s[to] # "blank"
    BY <1>5, <1>6 DEF First, Ending
<1>15. SubSeq(s, from, to)[1] = s[from] /\ SubSeq(s, from, to)[to - from + 1] = s[to]
    BY <1>11, <1>12
<1>. QED BY <1>7, <1>12, <1>13, <1>14, <1>15

LEMMA TrimNothing ==
    ASSUME NEW s \in Seq(Tokens), Len(s) \in Nat \ {0}, s[1] # "blank", s[Len(s)] # "blank"
    PROVE  Trim(s) = s
<1>. DEFINE First(i) == s[i] # "blank" /\ \A j \in 1..(i - 1) : s[j] = "blank"
            Ending(i) == s[i] # "blank" /\ \A j \in (i + 1)..Len(s) : s[j] = "blank"
            from == CHOOSE i \in DOMAIN s : First(i)
            to == CHOOSE i \in DOMAIN s : Ending(i)
<1>1. DOMAIN s = 1..Len(s) /\ 1 \in DOMAIN s /\ Len(s) \in DOMAIN s
    BY LenProperties
<1>2. First(1) /\ Ending(Len(s))
    OBVIOUS
<1>3. from \in DOMAIN s /\ First(from)
    <2>. HIDE DEF First
    <2>. QED BY <1>1, <1>2
<1>4. to \in DOMAIN s /\ Ending(to)
    <2>. HIDE DEF Ending
    <2>. QED BY <1>1, <1>2
<1>5. ~Blank(s)
    BY <1>1 DEF Blank
<1>6. Trim(s) = SubSeq(s, from, to)
    BY <1>5 DEF Trim
<1>. HIDE DEF from, to
<1>7. from = 1
    <2>1. from # 1 => 1 \in 1..(from - 1)
        BY <1>1, <1>3
    <2>. QED BY <1>3, <2>1
<1>8. to = Len(s)
    <2>1. to # Len(s) => Len(s) \in (to + 1)..Len(s)
        BY <1>1, <1>4
    <2>. QED BY <1>4, <2>1
<1>. QED BY <1>6, <1>7, <1>8, SubSeqFull

-----------------------------------------------------------------------------
(* Writing                                                                 *)

\* What marshalSubstrings accepts, once it is trimmed.
Neat(s) ==
    /\ s \in Seq(Tokens) /\ Apart(s) /\ "bs" \notin Range(s) /\ Parts(s) # << >>
    /\ s[1] # "blank" /\ s[Len(s)] # "blank"

LEMMA AcceptedIsNeat ==
    ASSUME NEW t \in Seq(Tokens), Marshalled(t).ok
    PROVE  Neat(Trim(t)) /\ Marshalled(t) = TokensOf(Trim(t), Parts(Trim(t)))
<1>. DEFINE s == Trim(t)
<1>1. s \in Seq(Tokens)
    BY TrimType
<1>2. ~Malformed.ok
    BY DEF Malformed
<1>3. /\ Passed("*", s, Len(s)) # 0
      /\ ~\E i \in 1..(Len(s) - 1) : s[i] = "*" /\ s[i + 1] = "*"
      /\ "bs" \notin Range(s) /\ Parts(s) # << >>
      /\ Marshalled(t) = TokensOf(s, Parts(s))
    <2>. HIDE DEF s
    <2>1. Marshalled(t) = IF \/ Passed("*", s, Len(s)) = 0
                             \/ \E i \in 1..(Len(s) - 1) : s[i] = "*" /\ s[i + 1] = "*"
                             \/ "bs" \in Range(s)
                             \/ Parts(s) = << >>
                          THEN Malformed ELSE TokensOf(s, Parts(s))
        BY DEF Marshalled, s
    <2>2. Marshalled(t) # Malformed
        BY <1>2
    <2>. QED BY <2>1, <2>2, Zenon
<1>4. ~Blank(t)
    <2>. SUFFICES ASSUME Blank(t) PROVE FALSE
        OBVIOUS
    <2>1. s = << >>
        BY DEF Trim
    <2>2. {i \in 1..Len(<< >>) : << >>[i] = "*"} = {}
        BY EmptySeq
    <2>3. Passed("*", << >>, Len(<< >>)) = 0
        BY <2>2, FS_EmptySet DEF Passed
    <2>. QED BY <1>3, <2>1, <2>3
<1>5. s[1] # "blank" /\ s[Len(s)] # "blank"
    BY <1>4, TrimEnds
<1>6. Passed("*", s, Len(s)) > 0
    <2>. HIDE DEF s
    <2>1. Len(s) \in Nat /\ Len(s) \in 0..Len(s)
        BY <1>1, LenProperties
    <2>2. Passed("*", s, Len(s)) \in Nat
        BY <2>1, PassedGrow
    <2>. QED BY <1>3, <2>2
<1>7. Apart(s)
    <2>. HIDE DEF s
    <2>. QED BY <1>3, <1>6 DEF Apart
<1>. QED BY <1>1, <1>3, <1>5, <1>7 DEF Neat

LEMMA NeatLength ==
    ASSUME NEW s \in Seq(Tokens), Passed("*", s, Len(s)) > 0
    PROVE  Len(s) \in Nat \ {0}
<1>1. Len(s) \in Nat
    BY LenProperties
<1>2. ASSUME Len(s) = 0 PROVE FALSE
    <2>1. {i \in 1..0 : s[i] = "*"} = {}
        OBVIOUS
    <2>2. Passed("*", s, 0) = 0
        BY <2>1, FS_EmptySet DEF Passed
    <2>. QED BY <1>2, <2>2
<1>. QED BY <1>1, <1>2

LEMMA NeatIsAccepted ==
    ASSUME NEW s, Neat(s)
    PROVE  Marshalled(s) = TokensOf(s, Parts(s))
<1>1. s \in Seq(Tokens) /\ Len(s) \in Nat \ {0}
    BY NeatLength DEF Neat, Apart
<1>2. Trim(s) = s
    BY <1>1, TrimNothing DEF Neat
<1>3. Passed("*", s, Len(s)) # 0
    <2>1. Passed("*", s, Len(s)) > 0 /\ Passed("*", s, Len(s)) \in Nat
        <3>1. Len(s) \in Nat /\ Len(s) \in 0..Len(s)
            BY <1>1
        <3>. QED BY <3>1, PassedGrow DEF Neat, Apart
    <2>. QED BY <2>1
<1>4. ~\E i \in 1..(Len(s) - 1) : s[i] = "*" /\ s[i + 1] = "*"
    BY DEF Neat, Apart
<1>5. "bs" \notin Range(s) /\ Parts(s) # << >>
    BY DEF Neat
<1>6. Marshalled(s) = IF \/ Passed("*", s, Len(s)) = 0
                         \/ \E i \in 1..(Len(s) - 1) : s[i] = "*" /\ s[i + 1] = "*"
                         \/ "bs" \in Range(s)
                         \/ Parts(s) = << >>
                      THEN Malformed ELSE TokensOf(s, Parts(s))
    BY <1>2 DEF Marshalled
<1>. QED BY <1>3, <1>4, <1>5, <1>6, Zenon

LEMMA EscapedType ==
    ASSUME NEW s \in Seq(Tokens)
    PROVE  LET e == Escaped(s)
           IN  /\ e \in Seq(Tokens) /\ Len(e) = Len(s)
               /\ \A i \in 1..Len(s) : e[i] = IF s[i] = "u" THEN "ue" ELSE s[i]
<1>. DEFINE n == Len(s)
            x(i) == IF s[i] = "u" THEN "ue" ELSE s[i]
            e == [i \in 1..n |-> x(i)]
<1>1. n \in Nat /\ DOMAIN s = 1..n /\ \A i \in 1..n : s[i] \in Tokens
    BY LenProperties, ElementOfSeq
<1>2. \A i \in 1..n : x(i) \in Tokens
    BY <1>1 DEF Tokens
<1>3. Escaped(s) = e
    BY <1>1 DEF Escaped
<1>4. e \in Seq(Tokens)
    <2>. HIDE DEF x, n
    <2>. QED BY <1>1, <1>2, IsASeq
<1>5. DOMAIN e = 1..n /\ \A i \in 1..n : e[i] = x(i)
    OBVIOUS
<1>. HIDE DEF e
<1>6. Len(e) = n
    <2>. HIDE DEF n
    <2>. QED BY <1>1, <1>4, <1>5, LenProperties
<1>. QED BY <1>3, <1>4, <1>5, <1>6

\* Escaping leaves the asterisks where they are, and what is escaped as it is.
LEMMA EscapedMarks ==
    ASSUME NEW s \in Seq(Tokens), NEW at, CutMarks("*", s, at)
    PROVE  LET e == Escaped(s)
           IN  /\ Passed("*", e, Len(e)) = Passed("*", s, Len(s)) /\ CutMarks("*", e, at)
               /\ \A k \in 0..Passed("*", s, Len(s)) :
                    Escaped(CutOut(s, at, k)) = CutOut(e, at, k) /\ Escaped(CutOut(e, at, k)) = CutOut(e, at, k)
<1>. DEFINE e == Escaped(s)
            n == Len(s)
            m == Passed("*", s, n)
<1>1. /\ e \in Seq(Tokens) /\ Len(e) = n /\ n \in Nat
      /\ \A i \in 1..n : e[i] = IF s[i] = "u" THEN "ue" ELSE s[i]
    BY EscapedType, LenProperties
<1>2. \A i \in 1..n : e[i] = "*" <=> s[i] = "*"
    BY <1>1
<1>. HIDE DEF e, n
<1>3. ASSUME NEW j \in 0..n PROVE Passed("*", e, j) = Passed("*", s, j)
    <2>1. \A i \in 1..j : i \in 1..n
        BY <1>1
    <2>2. {i \in 1..j : e[i] = "*"} = {i \in 1..j : s[i] = "*"}
        BY <1>2, <2>1
    <2>. QED BY <2>2 DEF Passed
<1>4. Passed("*", e, n) = m
    <2>1. n \in 0..n
        BY <1>1
    <2>. QED BY <1>3, <2>1
<1>5. CutMarks("*", e, at)
    <2>1. /\ at \in [0..(m + 1) -> 0..(n + 1)] /\ at[0] = 0 /\ at[m + 1] = n + 1
          /\ \A k \in 1..m : at[k] \in 1..n /\ s[at[k]] = "*" /\ Passed("*", s, at[k]) = k
        BY DEF CutMarks, n
    <2>. HIDE DEF m
    <2>2. ASSUME NEW k \in 1..m PROVE at[k] \in 1..n /\ e[at[k]] = "*" /\ Passed("*", e, at[k]) = k
        <3>. DEFINE y == at[k]
        <3>1. y \in 1..n /\ s[y] = "*" /\ Passed("*", s, y) = k
            BY <2>1
        <3>. HIDE DEF y
        <3>2. y \in 0..n
            BY <3>1
        <3>3. y \in 1..n /\ e[y] = "*" /\ Passed("*", e, y) = k
            BY <1>2, <1>3, <3>1, <3>2
        <3>. QED BY <3>3 DEF y
    <2>. QED BY <1>1, <1>4, <2>1, <2>2 DEF CutMarks
<1>6. ASSUME NEW k \in 0..m
      PROVE  Escaped(CutOut(s, at, k)) = CutOut(e, at, k) /\ Escaped(CutOut(e, at, k)) = CutOut(e, at, k)
    <2>. DEFINE a == at[k] + 1
                b == at[k + 1] - 1
                u == SubSeq(s, a, b)
                v == SubSeq(e, a, b)
    <2>1. at[k] \in 0..n /\ at[k + 1] \in 1..(n + 1) /\ at[k] < at[k + 1]
        BY MarksType DEF n, m
    <2>2. a \in 1..(n + 1) /\ b \in 0..n /\ a <= b + 1
        <3>1. n \in Nat
            BY <1>1
        <3>. QED BY <2>1, <3>1, SMTT(30)
    <2>3. CutOut(s, at, k) = u /\ CutOut(e, at, k) = v
        BY DEF CutOut
    <2>. HIDE DEF a, b
    <2>4. a \in Int /\ b \in Int /\ \A i \in a..b : i \in 1..n
        BY <1>1, <2>2
    <2>5. \A i \in a..b : s[i] \in Tokens /\ e[i] \in Tokens
        BY <1>1, <2>4, ElementOfSeq DEF n
    <2>6. /\ u \in Seq(Tokens) /\ Len(u) = IF a <= b THEN b - a + 1 ELSE 0
          /\ \A i \in 1..(b - a + 1) : u[i] = s[a + i - 1]
        BY <2>4, <2>5, SubSeqProperties
    <2>7. /\ v \in Seq(Tokens) /\ Len(v) = IF a <= b THEN b - a + 1 ELSE 0
          /\ \A i \in 1..(b - a + 1) : v[i] = e[a + i - 1]
        BY <2>4, <2>5, SubSeqProperties
    <2>. HIDE DEF u, v
    <2>8. Len(u) = b - a + 1 /\ Len(v) = b - a + 1 /\ \A i \in 1..(b - a + 1) : a + i - 1 \in 1..n
        <3>1. Len(u) = b - a + 1
            BY <2>2, <2>4, <2>6
        <3>2. Len(v) = b - a + 1
            BY <2>2, <2>4, <2>7
        <3>3. \A i \in 1..(b - a + 1) : a + i - 1 \in 1..n
            BY <1>1, <2>2
        <3>. QED BY <3>1, <3>2, <3>3
    <2>9. /\ Escaped(u) \in Seq(Tokens) /\ Len(Escaped(u)) = Len(u)
          /\ \A i \in 1..Len(u) : Escaped(u)[i] = IF u[i] = "u" THEN "ue" ELSE u[i]
        BY <2>6, EscapedType
    <2>10. /\ Escaped(v) \in Seq(Tokens) /\ Len(Escaped(v)) = Len(v)
           /\ \A i \in 1..Len(v) : Escaped(v)[i] = IF v[i] = "u" THEN "ue" ELSE v[i]
        BY <2>7, EscapedType
    <2>11. ASSUME NEW i \in 1..(b - a + 1)
           PROVE  Escaped(u)[i] = v[i] /\ Escaped(v)[i] = v[i]
        <3>. DEFINE j == a + i - 1
        <3>1. j \in 1..n
            BY <2>8
        <3>2. u[i] = s[j] /\ v[i] = e[j]
            BY <2>6, <2>7
        <3>3. Escaped(u)[i] = (IF u[i] = "u" THEN "ue" ELSE u[i]) /\ Escaped(v)[i] = (IF v[i] = "u" THEN "ue" ELSE v[i])
            BY <2>8, <2>9, <2>10
        <3>. HIDE DEF j
        <3>4. e[j] = IF s[j] = "u" THEN "ue" ELSE s[j]
            BY <1>1, <3>1
        <3>. QED BY <3>2, <3>3, <3>4
    <2>12. Escaped(u) = v
        BY <2>7, <2>8, <2>9, <2>11, SeqEqual
    <2>13. Escaped(v) = v
        BY <2>7, <2>8, <2>10, <2>11, SeqEqual
    <2>. QED BY <2>3, <2>12, <2>13
<1>. QED BY <1>1, <1>4, <1>5, <1>6 DEF e, n

LEMMA SomeParts ==
    ASSUME NEW s \in Seq(Tokens), Apart(s)
    PROVE  Parts(s) # << >> <=> ~(s[1] = "*" /\ s[Len(s)] = "*" /\ Passed("*", s, Len(s)) = 1)
<1>. DEFINE m == Passed("*", s, Len(s))
            lo == IF s[1] = "*" THEN 2 ELSE 1
            hi == IF s[Len(s)] = "*" THEN m ELSE m + 1
<1>1. m \in Nat /\ m > 0
    <2>1. Len(s) \in Nat /\ Len(s) \in 0..Len(s)
        BY LenProperties
    <2>2. m \in Nat
        BY <2>1, PassedGrow
    <2>. QED BY <2>2 DEF Apart
<1>2. PICK at : CutMarks("*", s, at)
    BY MarksExist
<1>. DEFINE ss == [k \in 1..(m + 1) |-> CutOut(s, at, k - 1)]
<1>3. Parts(s) = SubSeq(ss, lo, hi)
    BY <1>2, PartsAre
<1>4. \A k \in 1..(m + 1) : ss[k] \in Seq(Tokens)
    <2>1. \A k \in 0..m : CutOut(s, at, k) \in Seq(Tokens)
        BY <1>2, CutIsInside
    <2>2. \A k \in 1..(m + 1) : k - 1 \in 0..m
        BY <1>1
    <2>. QED BY <2>1, <2>2
<1>. HIDE DEF ss, m
<1>5. lo \in Int /\ hi \in Int /\ \A i \in lo..hi : i \in 1..(m + 1)
    BY <1>1
<1>6. lo <= hi <=> ~(s[1] = "*" /\ s[Len(s)] = "*" /\ m = 1)
    BY <1>1
<1>. HIDE DEF lo, hi
<1>7. Len(SubSeq(ss, lo, hi)) = IF lo <= hi THEN hi - lo + 1 ELSE 0
    BY <1>4, <1>5, SubSeqProperties
<1>8. SubSeq(ss, lo, hi) # << >> <=> Len(SubSeq(ss, lo, hi)) # 0
    BY <1>3, PartsType, EmptySeq
<1>9. Len(SubSeq(ss, lo, hi)) # 0 <=> lo <= hi
    BY <1>5, <1>7
<1>. QED BY <1>3, <1>6, <1>8, <1>9 DEF m

LEMMA NeatEscaped ==
    ASSUME NEW s, Neat(s)
    PROVE  Neat(Escaped(s))
<1>. DEFINE e == Escaped(s)
            n == Len(s)
<1>1. s \in Seq(Tokens) /\ n \in Nat \ {0} /\ Apart(s)
    BY NeatLength DEF Neat, Apart
<1>2. /\ e \in Seq(Tokens) /\ Len(e) = n
      /\ \A i \in 1..n : e[i] = IF s[i] = "u" THEN "ue" ELSE s[i]
    BY <1>1, EscapedType
<1>3. PICK at : CutMarks("*", s, at)
    BY <1>1, MarksExist
<1>4. Passed("*", e, Len(e)) = Passed("*", s, Len(s))
    BY <1>1, <1>3, EscapedMarks
<1>. HIDE DEF e, n
<1>5. \A i \in 1..n : (e[i] = "*" <=> s[i] = "*") /\ (e[i] = "blank" <=> s[i] = "blank") /\ (e[i] = "bs" <=> s[i] = "bs")
    BY <1>2
<1>6. 1 \in 1..n /\ n \in 1..n /\ \A i \in 1..(n - 1) : i \in 1..n /\ i + 1 \in 1..n
    BY <1>1
<1>7. Apart(e)
    <2>1. Passed("*", s, n) > 0 /\ \A i \in 1..(n - 1) : ~(s[i] = "*" /\ s[i + 1] = "*")
        BY <1>1 DEF Apart, n
    <2>2. \A i \in 1..(n - 1) : ~(e[i] = "*" /\ e[i + 1] = "*")
        BY <1>5, <1>6, <2>1
    <2>. QED BY <1>2, <1>4, <2>1, <2>2 DEF Apart, n
<1>8. "bs" \notin Range(e)
    <2>1. DOMAIN e = 1..n /\ DOMAIN s = 1..n
        BY <1>1, <1>2, LenProperties DEF n
    <2>2. \A i \in 1..n : s[i] # "bs"
        BY <2>1 DEF Neat, Range
    <2>. QED BY <1>5, <2>1, <2>2 DEF Range
<1>9. Parts(e) # << >>
    <2>1. ~(s[1] = "*" /\ s[n] = "*" /\ Passed("*", s, n) = 1)
        BY <1>1, SomeParts DEF Neat, n
    <2>2. ~(e[1] = "*" /\ e[n] = "*" /\ Passed("*", e, n) = 1)
        BY <1>2, <1>4, <1>5, <1>6, <2>1 DEF n
    <2>. QED BY <1>2, <1>7, <2>2, SomeParts
<1>10. e[1] # "blank" /\ e[n] # "blank"
    BY <1>5, <1>6 DEF Neat, n
<1>. QED BY <1>2, <1>7, <1>8, <1>9, <1>10 DEF Neat, e

LEMMA OneWith ==
    ASSUME NEW x, NEW y, NEW z, NEW p, p \in [ok : {TRUE}, initial : {x}, any : {z}, final : {y}], NEW v
    PROVE  /\ [p EXCEPT !.initial = v] \in [ok : {TRUE}, initial : {v}, any : {z}, final : {y}]
           /\ [p EXCEPT !.final = v] \in [ok : {TRUE}, initial : {x}, any : {z}, final : {v}]
           /\ [p EXCEPT !.any = v] \in [ok : {TRUE}, initial : {x}, any : {v}, final : {y}]
OBVIOUS

EscapedOf(p) == [p EXCEPT !.initial = Escaped(@), !.final = Escaped(@),
                          !.any = [k \in DOMAIN @ |-> Escaped(@[k])]]

LEMMA EscapedParsed ==
    ASSUME NEW x, NEW y, NEW z, NEW p, p = Parsed(x, z, y)
    PROVE  EscapedOf(p) = Parsed(Escaped(x), [k \in DOMAIN z |-> Escaped(z[k])], Escaped(y))
<1>. DEFINE i == Escaped(x)
            f == Escaped(y)
            a == [k \in DOMAIN z |-> Escaped(z[k])]
            p1 == [p EXCEPT !.initial = i]
            p2 == [p1 EXCEPT !.final = f]
            p3 == [p2 EXCEPT !.any = a]
<1>1. /\ p \in [ok : {TRUE}, initial : {x}, any : {z}, final : {y}]
      /\ p.initial = x /\ p.any = z /\ p.final = y
    BY DEF Parsed
<1>5. EscapedOf(p) = p3
    BY <1>1, Zenon DEF EscapedOf
<1>. HIDE DEF i, f, a
<1>2. p1 \in [ok : {TRUE}, initial : {i}, any : {z}, final : {y}]
    BY <1>1, OneWith
<1>3. p2 \in [ok : {TRUE}, initial : {i}, any : {z}, final : {f}]
    <2>. HIDE DEF p1
    <2>. QED BY <1>2, OneWith
<1>4. p3 \in [ok : {TRUE}, initial : {i}, any : {a}, final : {f}]
    <2>. HIDE DEF p2
    <2>. QED BY <1>3, OneWith
<1>. HIDE DEF p3
<1>6. p3 = Parsed(i, a, f)
    BY <1>4 DEF Parsed
<1>. QED BY <1>5, <1>6, Zenon DEF i, a, f

\* String gives back the text that was parsed, trimmed, with the characters of several
\* bytes escaped.
LEMMA WrittenIs ==
    ASSUME NEW s, Neat(s)
    PROVE  LET p == TokensOf(s, Parts(s))
               e == Escaped(s)
           IN  /\ Written(p) = e
               /\ TokensOf(e, Parts(e)) = EscapedOf(p)
               /\ Written(TokensOf(e, Parts(e))) = e
<1>. DEFINE e == Escaped(s)
            p == TokensOf(s, Parts(s))
            r == TokensOf(e, Parts(e))
            m == Passed("*", s, Len(s))
<1>1. s \in Seq(Tokens) /\ Apart(s) /\ Parts(s) # << >>
    BY DEF Neat
<1>2. e \in Seq(Tokens) /\ Apart(e) /\ Parts(e) # << >>
    BY NeatEscaped DEF Neat
<1>3. PICK at : CutMarks("*", s, at)
    BY <1>1, MarksExist
<1>. DEFINE B(k) == CutOut(e, at, k)
            q == [k \in 1..(m - 1) |-> B(k) \o <<"*">>]
<1>4. /\ Passed("*", e, Len(e)) = m /\ CutMarks("*", e, at)
      /\ \A k \in 0..m : Escaped(CutOut(s, at, k)) = B(k) /\ Escaped(B(k)) = B(k)
    BY <1>1, <1>3, EscapedMarks
<1>5. p = Parsed(CutOut(s, at, 0), [k \in 1..(m - 1) |-> CutOut(s, at, k)], CutOut(s, at, m))
    BY <1>1, <1>3, TokensAre
<1>6. r = Parsed(B(0), [k \in 1..(m - 1) |-> B(k)], B(m))
    <2>. HIDE DEF e, m
    <2>1. TokensOf(e, Parts(e)) = Parsed(CutOut(e, at, 0), [k \in 1..(Passed("*", e, Len(e)) - 1) |-> CutOut(e, at, k)],
                                         CutOut(e, at, Passed("*", e, Len(e))))
        BY <1>2, <1>4, TokensAre
    <2>. QED BY <1>4, <2>1
<1>7. m \in Nat /\ m > 0
    <2>1. Len(s) \in Nat /\ Len(s) \in 0..Len(s)
        BY <1>1, LenProperties
    <2>2. m \in Nat
        BY <2>1, PassedGrow
    <2>. QED BY <1>1, <2>2 DEF Apart
<1>8. B(0) \o <<"*">> \o FlattenSeq(q) \o B(m) = e
    <2>. HIDE DEF e, m
    <2>1. Passed("*", e, Len(e)) > 0
        BY <1>2 DEF Apart
    <2>2. CutOut(e, at, 0) \o <<"*">>
            \o FlattenSeq([k \in 1..(Passed("*", e, Len(e)) - 1) |-> CutOut(e, at, k) \o <<"*">>])
            \o CutOut(e, at, Passed("*", e, Len(e))) = e
        BY <1>2, <1>4, <2>1, JoinedAgain
    <2>. QED BY <1>4, <2>2
<1>9. 0 \in 0..m /\ m \in 0..m /\ \A k \in 1..(m - 1) : k \in 0..m
    BY <1>7
<1>10. ASSUME NEW x, NEW y, NEW g, Escaped(x) = B(0), Escaped(y) = B(m),
              DOMAIN g = 1..(m - 1), \A k \in 1..(m - 1) : Escaped(g[k]) = B(k)
       PROVE  Written(Parsed(x, g, y)) = e
    <2>. HIDE DEF m, e, B
    <2>1. [k \in DOMAIN g |-> Escaped(g[k]) \o <<"*">>] = q
        BY <1>10
    <2>. HIDE DEF q
    <2>2. LET w == Parsed(x, g, y) IN w.initial = x /\ w.any = g /\ w.final = y
        BY DEF Parsed
    <2>3. Written(Parsed(x, g, y)) = Escaped(x) \o <<"*">> \o FlattenSeq([k \in DOMAIN g |-> Escaped(g[k]) \o <<"*">>]) \o Escaped(y)
        BY <2>2 DEF Written
    <2>4. Written(Parsed(x, g, y)) = B(0) \o <<"*">> \o FlattenSeq(q) \o B(m)
        BY <1>10, <2>1, <2>3
    <2>. QED BY <1>8, <2>4
<1>. DEFINE b(k) == CutOut(s, at, k)
<1>. HIDE DEF m, e
<1>11. Written(p) = e
    <2>. DEFINE g == [k \in 1..(m - 1) |-> b(k)]
    <2>1. p = Parsed(b(0), g, b(m))
        BY <1>5
    <2>2. Escaped(b(0)) = B(0) /\ Escaped(b(m)) = B(m) /\ \A k \in 1..(m - 1) : Escaped(b(k)) = B(k)
        BY <1>4, <1>9
    <2>. HIDE DEF p, b, B, q
    <2>3. DOMAIN g = 1..(m - 1) /\ \A k \in 1..(m - 1) : Escaped(g[k]) = B(k)
        BY <2>2
    <2>. HIDE DEF g
    <2>. QED BY <1>10, <2>1, <2>2, <2>3
<1>12. Written(r) = e
    <2>. DEFINE g == [k \in 1..(m - 1) |-> B(k)]
    <2>1. r = Parsed(B(0), g, B(m))
        BY <1>6
    <2>2. Escaped(B(0)) = B(0) /\ Escaped(B(m)) = B(m) /\ \A k \in 1..(m - 1) : Escaped(B(k)) = B(k)
        BY <1>4, <1>9
    <2>. HIDE DEF r, B, q
    <2>3. DOMAIN g = 1..(m - 1) /\ \A k \in 1..(m - 1) : Escaped(g[k]) = B(k)
        BY <2>2
    <2>. HIDE DEF g
    <2>. QED BY <1>10, <2>1, <2>2, <2>3
<1>13. r = EscapedOf(p)
    <2>. DEFINE g == [k \in 1..(m - 1) |-> b(k)]
                x == b(0)
                y == b(m)
    <2>1. p = Parsed(x, g, y)
        BY <1>5
    <2>2. [k \in DOMAIN g |-> Escaped(g[k])] = [k \in 1..(m - 1) |-> B(k)]
        <3>1. \A k \in 1..(m - 1) : Escaped(b(k)) = B(k)
            BY <1>4, <1>9
        <3>. HIDE DEF b, B
        <3>. QED BY <3>1
    <2>3. Escaped(x) = B(0) /\ Escaped(y) = B(m)
        BY <1>4, <1>9
    <2>. HIDE DEF g, b, p, r, x, y
    <2>4. EscapedOf(p) = Parsed(Escaped(x), [k \in DOMAIN g |-> Escaped(g[k])], Escaped(y))
        BY <2>1, EscapedParsed
    <2>. HIDE DEF B
    <2>. QED BY <1>6, <2>2, <2>3, <2>4
<1>. QED BY <1>11, <1>12, <1>13 DEF e

\* The substrings are those of a text that was accepted.
AcceptedOnce == subs.ok => \E t \in Seq(Tokens) : subs = Marshalled(t)

LEMMA NextAcceptedOnce ==
    ASSUME MatcherInv, AcceptedOnce, [Next]_vars
    PROVE  AcceptedOnce'
<1>1. CASE Parse
    <2>. DEFINE t == Prepared(assertion)
    <2>1. t \in Seq(Tokens)
        BY PreparedType DEF MatcherInv, SubsType
    <2>2. subs' = Marshalled(t) \/ subs' = Malformed
        BY <1>1 DEF Parse
    <2>3. ~Malformed.ok
        BY DEF Malformed
    <2>. HIDE DEF t
    <2>. QED BY <2>1, <2>2, <2>3 DEF AcceptedOnce
<1>2. CASE ~Parse
    <2>1. subs' = subs
        BY <1>2 DEF Next, vars, MatchInitial, MatchAny, MatchFinal
    <2>. QED BY <2>1 DEF AcceptedOnce
<1>. QED BY <1>1, <1>2

\* What String writes of a substring assertion, of any length and with any number of
\* inner substrings, is accepted again, as the same substrings with their characters of
\* several bytes escaped; and it is the text that was parsed, but for the blanks around
\* it and the escapes: the initial, the inner and the final substrings stay what they are.
THEOREM WrittenReadsBack == Spec => []ReadsBack
<1>1. Init => AcceptedOnce
    BY DEF Init, AcceptedOnce, Malformed
<1>2. AcceptedOnce => ReadsBack
    <2>. SUFFICES ASSUME AcceptedOnce, subs.ok
                  PROVE  Marshalled(Written(subs)) = EscapedSubs /\ Written(EscapedSubs) = Written(subs)
        BY DEF ReadsBack
    <2>1. PICK t \in Seq(Tokens) : subs = Marshalled(t)
        BY DEF AcceptedOnce
    <2>. DEFINE s == Trim(t)
                e == Escaped(s)
    <2>2. Neat(s) /\ subs = TokensOf(s, Parts(s))
        BY <2>1, AcceptedIsNeat
    <2>. HIDE DEF s
    <2>3. Written(subs) = e /\ TokensOf(e, Parts(e)) = EscapedSubs /\ Written(TokensOf(e, Parts(e))) = e
        <3>. DEFINE p == TokensOf(s, Parts(s))
        <3>1. /\ Written(p) = e /\ Written(TokensOf(e, Parts(e))) = e
              /\ TokensOf(e, Parts(e)) = EscapedOf(p)
            BY <2>2, WrittenIs
        <3>2. subs = p
            BY <2>2
        <3>. HIDE DEF p, e
        <3>. QED BY <3>1, <3>2 DEF EscapedSubs, EscapedOf
    <2>4. Marshalled(e) = TokensOf(e, Parts(e))
        BY <2>2, NeatEscaped, NeatIsAccepted
    <2>. HIDE DEF e
    <2>. QED BY <2>3, <2>4
<1>3. AcceptedOnce /\ MatcherInv /\ [Next]_vars => AcceptedOnce'
    BY NextAcceptedOnce
<1>. QED BY <1>1, <1>2, <1>3, MatcherInvHolds, PTL DEF Spec
=============================================================================
