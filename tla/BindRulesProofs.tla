--------------------------- MODULE BindRulesProofs ---------------------------
(***************************************************************************)
(* Proofs about BindRules, for any number of objects and keywords, any     *)
(* slice length and any sequence of calls.                                 *)
(*                                                                         *)
(* TypeOK is inductive together with NotHoldsOneRule: that a Not's child   *)
(* is not a Not has to survive the allocation of objects, which TypeOK's   *)
(* "no link dangles" gives (a free object, which may become a Not, is      *)
(* nobody's child).                                                        *)
(*                                                                         *)
(* The other properties are about the recursion of Valid and String over   *)
(* a graph of objects that may have cycles.  Two facts carry them.  When   *)
(* the recursion does not say ok it says what somebody it reaches says, or *)
(* it has met a cycle (VisitHasACause: without a cycle every link leads to *)
(* fewer objects, so that no way is longer than their number).  And an     *)
(* object is valid just when all that is reached from it is sound by       *)
(* itself and on no cycle (OkBelow, ValidWhenSound).  What a step does to  *)
(* the links (NextLinks) and to the objects (NextSound) then decides.      *)
(***************************************************************************)
EXTENDS BindRules, SequenceLemmas

-----------------------------------------------------------------------------
(* The objects below an object                                             *)

LinkMaps == [Objs -> SUBSET Objs]

\* What Reached holds, and that nothing smaller does.
LEMMA ReachedHolds ==
    ASSUME NEW g \in LinkMaps, NEW o \in Objs
    PROVE  /\ Reached(g, o) \subseteq Objs
           /\ g[o] \subseteq Reached(g, o)
           /\ \A p \in Reached(g, o) : g[p] \subseteq Reached(g, o)
<1>1. Reached(g, o) \subseteq Objs
    BY DEF Reached
<1>2. \A p \in Objs : g[p] \subseteq Objs
    BY DEF LinkMaps
<1>3. g[o] \subseteq Reached(g, o)
    BY <1>2 DEF Reached
<1>4. ASSUME NEW p \in Reached(g, o), NEW q \in g[p] PROVE q \in Reached(g, o)
    BY <1>1, <1>2, <1>4 DEF Reached
<1>. QED BY <1>1, <1>3, <1>4

LEMMA ReachedIsLeast ==
    ASSUME NEW g \in LinkMaps, NEW o \in Objs, NEW S, S \subseteq Objs,
           g[o] \subseteq S, \A p \in S : g[p] \subseteq S
    PROVE  Reached(g, o) \subseteq S
<1>1. S \in SUBSET Objs
    OBVIOUS
<1>. QED BY <1>1 DEF Reached

LEMMA ReachedFurther ==
    ASSUME NEW g \in LinkMaps, NEW o \in Objs, NEW q \in {o} \cup Reached(g, o)
    PROVE  q \in Objs /\ Reached(g, q) \subseteq Reached(g, o)
<1>1. q \in Objs
    BY ReachedHolds
<1>2. g[q] \subseteq Reached(g, o)
    BY ReachedHolds
<1>. QED BY <1>1, <1>2, ReachedHolds, ReachedIsLeast

\* A way that is not empty begins with a link.
LEMMA ReachedBegins ==
    ASSUME NEW g \in LinkMaps, NEW o \in Objs, NEW q \in Reached(g, o)
    PROVE  \E c \in g[o] : q \in {c} \cup Reached(g, c)
<1>. DEFINE S == UNION {{c} \cup Reached(g, c) : c \in g[o]}
<1>1. \A c \in g[o] : c \in Objs
    BY DEF LinkMaps
<1>2. S \subseteq Objs
    BY <1>1, ReachedHolds
<1>3. g[o] \subseteq S
    OBVIOUS
<1>4. ASSUME NEW p \in S PROVE g[p] \subseteq S
    <2>1. PICK c \in g[o] : p \in {c} \cup Reached(g, c)
        OBVIOUS
    <2>2. g[p] \subseteq Reached(g, c)
        BY <1>1, <2>1, ReachedHolds
    <2>. QED BY <2>2
<1>5. Reached(g, o) \subseteq S
    <2>. HIDE DEF S
    <2>. QED BY <1>2, <1>3, <1>4, ReachedIsLeast
<1>. QED BY <1>5

\* The links of one object do not matter to what does not reach it.
LEMMA ReachedElsewhere ==
    ASSUME NEW g \in LinkMaps, NEW h \in LinkMaps, NEW c,
           \A p \in Objs : p # c => h[p] = g[p],
           NEW o \in Objs, c \notin {o} \cup Reached(g, o)
    PROVE  Reached(h, o) = Reached(g, o)
<1>1. Reached(h, o) \subseteq Reached(g, o)
    <2>. DEFINE S == Reached(g, o)
    <2>1. S \subseteq Objs /\ g[o] \subseteq S /\ \A p \in S : g[p] \subseteq S
        BY ReachedHolds
    <2>2. h[o] \subseteq S /\ \A p \in S : h[p] \subseteq S
        BY <2>1
    <2>. HIDE DEF S
    <2>3. Reached(h, o) \subseteq S
        BY <2>1, <2>2, ReachedIsLeast
    <2>. QED BY <2>3 DEF S
<1>2. Reached(g, o) \subseteq Reached(h, o)
    <2>. DEFINE S == Reached(h, o)
    <2>1. S \subseteq Objs /\ h[o] \subseteq S /\ \A p \in S : h[p] \subseteq S
        BY ReachedHolds
    <2>2. g[o] \subseteq S /\ \A p \in S : g[p] \subseteq S
        BY <1>1, <2>1
    <2>. HIDE DEF S
    <2>3. Reached(g, o) \subseteq S
        BY <2>1, <2>2, ReachedIsLeast
    <2>. QED BY <2>3 DEF S
<1>. QED BY <1>1, <1>2

LEMMA FewerLinks ==
    ASSUME NEW g \in LinkMaps, NEW h \in LinkMaps,
           \A p \in Objs : h[p] \subseteq g[p], NEW o \in Objs
    PROVE  Reached(h, o) \subseteq Reached(g, o)
<1>. DEFINE S == Reached(g, o)
<1>1. S \subseteq Objs /\ g[o] \subseteq S /\ \A p \in S : g[p] \subseteq S
    BY ReachedHolds
<1>2. h[o] \subseteq S /\ \A p \in S : h[p] \subseteq S
    BY <1>1
<1>3. Reached(h, o) \subseteq S
    <2>. HIDE DEF S
    <2>. QED BY <1>1, <1>2, ReachedIsLeast
<1>. QED BY <1>3

\* The one new link of c closes a cycle only if it leads back to c.
LEMMA NewLinkLeadsBack ==
    ASSUME NEW g \in LinkMaps, NEW h \in LinkMaps, NEW c \in Objs, NEW x \in Objs,
           \A p \in Objs : p # c => h[p] = g[p], h[c] \subseteq g[c] \cup {x},
           NEW q \in Objs, q \in Reached(h, q), q \notin Reached(g, q)
    PROVE  c \in {x} \cup Reached(g, x)
<1>. SUFFICES ASSUME c \notin {x} \cup Reached(g, x) PROVE FALSE
    OBVIOUS
<1>. DEFINE T == {x} \cup Reached(g, x)
            U == {q} \cup Reached(g, q)
            S == IF c \in U THEN Reached(g, q) \cup T ELSE Reached(g, q)
<1>1. T \subseteq Objs /\ U \subseteq Objs /\ \A p \in T : g[p] \subseteq T
    BY ReachedHolds
<1>2. g[q] \subseteq Reached(g, q) /\ \A p \in Reached(g, q) : g[p] \subseteq Reached(g, q)
    BY ReachedHolds
<1>3. S \subseteq Objs /\ h[q] \subseteq S /\ \A p \in S : h[p] \subseteq S
    BY <1>1, <1>2
<1>4. Reached(h, q) \subseteq S
    <2>. HIDE DEF S
    <2>. QED BY <1>3, ReachedIsLeast
<1>5. q \in T /\ c \in U
    BY <1>4
<1>6. U \subseteq T
    BY <1>5, ReachedFurther
<1>. QED BY <1>5, <1>6

\* And if it does, c is on a cycle.
LEMMA LedBack ==
    ASSUME NEW g \in LinkMaps, NEW h \in LinkMaps, NEW c \in Objs, NEW x \in h[c],
           \A p \in Objs : p # c => h[p] = g[p],
           c \in {x} \cup Reached(g, x)
    PROVE  c \in Reached(h, c)
<1>1. x \in Objs /\ x \in Reached(h, c)
    BY ReachedHolds
<1>2. CASE c \in {x} \cup Reached(h, x)
    BY <1>1, <1>2, ReachedFurther
<1>3. CASE c \notin {x} \cup Reached(h, x)
    <2>1. Reached(g, x) = Reached(h, x)
        BY <1>1, <1>3, ReachedElsewhere
    <2>. QED BY <1>3, <2>1
<1>. QED BY <1>2, <1>3

-----------------------------------------------------------------------------
(* Counting what is below: without a cycle, a link leads to fewer objects  *)

LEMMA FewerBelow ==
    ASSUME NEW g \in LinkMaps, NEW o \in Objs, NEW c \in g[o], o \notin Reached(g, o)
    PROVE  /\ Cardinality({o} \cup Reached(g, o)) \in Nat
           /\ Cardinality({c} \cup Reached(g, c)) \in Nat
           /\ Cardinality({c} \cup Reached(g, c)) < Cardinality({o} \cup Reached(g, o))
<1>. DEFINE R == Reached(g, o)
            C == {c} \cup Reached(g, c)
<1>1. c \in R /\ R \in SUBSET Objs
    BY ReachedHolds
<1>2. C \in SUBSET R
    BY <1>1, ReachedFurther
<1>. HIDE DEF C, R
<1>3. IsFiniteSet(R)
    BY <1>1, FS_Subset, ConstantsAssumption
<1>4. IsFiniteSet(C) /\ Cardinality(C) <= Cardinality(R)
    BY <1>2, <1>3, FS_Subset
<1>5. Cardinality(R \cup {o}) = Cardinality(R) + 1
    BY <1>3, FS_AddElement DEF R
<1>6. R \cup {o} = {o} \cup R /\ Cardinality(R) \in Nat /\ Cardinality(C) \in Nat
    BY <1>3, <1>4, FS_CardinalityType
<1>7. /\ Cardinality({o} \cup R) = Cardinality(R) + 1
      /\ Cardinality(C) \in Nat /\ Cardinality(R) \in Nat /\ Cardinality(C) <= Cardinality(R)
    BY <1>4, <1>5, <1>6
<1>8. /\ Cardinality({o} \cup R) \in Nat /\ Cardinality(C) \in Nat
      /\ Cardinality(C) < Cardinality({o} \cup R)
    BY <1>7
<1>. QED BY <1>8 DEF R, C

LEMMA BelowIsBounded ==
    ASSUME NEW g \in LinkMaps, NEW o \in Objs
    PROVE  /\ Cardinality(Objs) \in Nat
           /\ Cardinality({o} \cup Reached(g, o)) \in Nat
           /\ Cardinality({o} \cup Reached(g, o)) <= Cardinality(Objs)
           /\ Cardinality({o} \cup Reached(g, o)) > 0
<1>. DEFINE R == {o} \cup Reached(g, o)
<1>1. R \in SUBSET Objs /\ R # {}
    BY ReachedHolds
<1>. HIDE DEF R
<1>2. IsFiniteSet(Objs) /\ IsFiniteSet(R) /\ Cardinality(R) <= Cardinality(Objs)
    BY <1>1, FS_Subset, ConstantsAssumption
<1>3. Cardinality(R) \in Nat /\ Cardinality(Objs) \in Nat /\ Cardinality(R) # 0
    BY <1>1, <1>2, FS_CardinalityType, FS_EmptySet
<1>. QED BY <1>2, <1>3 DEF R
-----------------------------------------------------------------------------
(* The recursion of Valid and String                                       *)

\* The answers V of the recursion to the depth n.
Visits(here, slices, n, V) ==
    V = [d \in 0..n |-> [v \in Values |->
            IF here[v] # "deeper" THEN here[v]
            ELSE IF d = 0 THEN "overflow"
            ELSE FirstBad([i \in DOMAIN slices[v] |-> V[d - 1][slices[v][i]]])]]

LEMMA VisitsExist ==
    ASSUME NEW here, NEW slices, NEW n \in Nat
    PROVE  \E V : Visits(here, slices, n, V)
<1>. SUFFICES ASSUME ~\E V : Visits(here, slices, n, V) PROVE FALSE
    OBVIOUS
<1>. DEFINE T == {m \in 1..(n + 1) : ~\E V : Visits(here, slices, m - 1, V)}
<1>1. n + 1 \in 1..(n + 1) /\ (n + 1) - 1 = n
    OBVIOUS
<1>2. T \subseteq 1..(n + 1) /\ T # {} /\ n + 1 \in Nat
    <2>1. ~\E V : Visits(here, slices, (n + 1) - 1, V)
        BY <1>1
    <2>2. n + 1 \in T
        BY <1>1, <2>1
    <2>3. T \subseteq 1..(n + 1)
        OBVIOUS
    <2>. HIDE DEF T
    <2>. QED BY <2>2, <2>3
<1>3. PICK m \in T : \A y \in T : m <= y
    <2>. HIDE DEF T
    <2>. QED BY <1>2, FirstPosition
<1>. DEFINE Row(d, below) == [v \in Values |->
                IF here[v] # "deeper" THEN here[v]
                ELSE IF d = 0 THEN "overflow"
                ELSE FirstBad([i \in DOMAIN slices[v] |-> below[slices[v][i]]])]
<1>4. CASE m = 1
    <2>. DEFINE V == [d \in 0..0 |-> Row(0, {})]
    <2>1. V = [d \in 0..0 |-> Row(d, V[d - 1])]
        OBVIOUS
    <2>2. Visits(here, slices, m - 1, V)
        BY <1>4, <2>1 DEF Visits
    <2>. QED BY <2>2
<1>5. CASE m # 1
    <2>1. m \in 1..(n + 1) /\ m - 1 \in 1..(n + 1) /\ ~(m <= m - 1)
        BY <1>5
    <2>2. m - 1 \notin T
        BY <1>3, <2>1, Zenon
    <2>3. PICK W : Visits(here, slices, (m - 1) - 1, W)
        BY <2>1, <2>2
    <2>. DEFINE b == m - 1
                V == [d \in 0..b |-> IF d = b THEN Row(b, W[b - 1]) ELSE W[d]]
    <2>4. b \in Nat /\ b >= 1
        BY <2>1
    <2>5. \A d \in 0..(b - 1) : W[d] = Row(d, W[d - 1])
        BY <2>3 DEF Visits
    <2>. HIDE DEF b, Row
    <2>6. \A d \in 0..b : V[d] = IF d = b THEN Row(b, W[b - 1]) ELSE W[d]
        OBVIOUS
    <2>7. V = [d \in 0..b |-> V[d]]
        OBVIOUS
    <2>. HIDE DEF V
    <2>8. ASSUME NEW d \in 0..b PROVE V[d] = Row(d, V[d - 1])
        <3>1. CASE d = 0
            <4>1. V[d] = Row(d, W[d - 1])
                BY <2>4, <2>5, <2>6, <3>1
            <4>. QED BY <3>1, <4>1 DEF Row
        <3>2. CASE d # 0
            <4>1. V[d - 1] = W[d - 1]
                BY <2>4, <2>6, <3>2
            <4>2. CASE d = b
                BY <2>4, <2>6, <4>1, <4>2
            <4>3. CASE d # b
                <5>1. d \in 0..(b - 1)
                    BY <2>4, <4>3
                <5>. QED BY <2>5, <2>6, <4>1, <4>3, <5>1
            <4>. QED BY <4>2, <4>3
        <3>. QED BY <3>1, <3>2
    <2>9. V = [d \in 0..b |-> Row(d, V[d - 1])]
        BY <2>7, <2>8
    <2>10. Visits(here, slices, b, V)
        BY <2>9 DEF Visits, Row
    <2>. QED BY <2>10 DEF b
<1>. QED BY <1>4, <1>5

\* What the recursion starts from: a value that is not an object answers by itself,
\* and so does an object without links.
SliceMaps == [Objs -> Seq(Values)]
Begins(here, slices) ==
    /\ slices \in SliceMaps
    /\ \A v \in Values : here[v] = "deeper" => v \in Objs
    /\ \A o \in Objs : slices[o] # << >> => here[o] = "deeper"

LinksOf(slices) == [p \in Objs |-> {slices[p][i] : i \in DOMAIN slices[p]} \cap Objs]

LEMMA LinksOfType ==
    ASSUME NEW slices
    PROVE  LinksOf(slices) \in LinkMaps
BY DEF LinksOf, LinkMaps

LEMMA FirstBadIs ==
    ASSUME NEW s \in Seq(Values), NEW f
    PROVE  LET a == FirstBad([i \in DOMAIN s |-> f[s[i]]])
           IN  \/ a = "ok" /\ \A i \in DOMAIN s : f[s[i]] = "ok"
               \/ a # "ok" /\ \E i \in DOMAIN s : a = f[s[i]]
<1>. DEFINE outcome == [i \in DOMAIN s |-> f[s[i]]]
            bad == {i \in DOMAIN s : f[s[i]] # "ok"}
<1>1. DOMAIN outcome = DOMAIN s /\ \A i \in DOMAIN s : outcome[i] = f[s[i]]
    OBVIOUS
<1>2. bad = {i \in DOMAIN outcome : outcome[i] # "ok"}
    BY <1>1
<1>. HIDE DEF outcome
<1>3. FirstBad(outcome) = IF bad = {} THEN "ok" ELSE outcome[FirstOf(bad)]
    BY <1>2 DEF FirstBad
<1>4. CASE bad = {}
    BY <1>3, <1>4 DEF outcome
<1>5. CASE bad # {}
    <2>1. bad \subseteq 1..Len(s) /\ Len(s) \in Nat
        BY LenProperties
    <2>2. PICK x \in bad : \A y \in bad : x <= y
        <3>. HIDE DEF bad
        <3>. QED BY <1>5, <2>1, FirstPosition
    <2>3. FirstOf(bad) \in bad
        <3>. HIDE DEF bad
        <3>. QED BY <2>2 DEF FirstOf
    <2>4. FirstBad(outcome) = f[s[FirstOf(bad)]] /\ FirstOf(bad) \in DOMAIN s
          /\ f[s[FirstOf(bad)]] # "ok"
        BY <1>1, <1>3, <1>5, <2>3
    <2>. QED BY <2>4 DEF outcome
<1>. QED BY <1>4, <1>5

\* One value at one depth: it answers by itself, or all it links to say ok, or one of
\* them answers for it, or there is no depth left.
LEMMA VisitsRule ==
    ASSUME NEW here, NEW slices, Begins(here, slices), NEW n \in Nat, NEW V, Visits(here, slices, n, V),
           NEW d \in 0..n, NEW v \in Values
    PROVE  /\ here[v] # "deeper" => V[d][v] = here[v]
           /\ here[v] = "deeper" /\ d = 0 => V[d][v] = "overflow"
           /\ here[v] = "deeper" /\ d # 0 =>
                \/ V[d][v] = "ok" /\ \A i \in DOMAIN slices[v] : V[d - 1][slices[v][i]] = "ok"
                \/ V[d][v] # "ok" /\ \E i \in DOMAIN slices[v] : V[d][v] = V[d - 1][slices[v][i]]
<1>1. V[d][v] = IF here[v] # "deeper" THEN here[v]
                ELSE IF d = 0 THEN "overflow"
                ELSE FirstBad([i \in DOMAIN slices[v] |-> V[d - 1][slices[v][i]]])
    <2>1. V[d] = [w \in Values |->
                    IF here[w] # "deeper" THEN here[w]
                    ELSE IF d = 0 THEN "overflow"
                    ELSE FirstBad([i \in DOMAIN slices[w] |-> V[d - 1][slices[w][i]]])]
        BY Zenon DEF Visits
    <2>. QED BY <2>1
<1>2. ASSUME here[v] = "deeper", d # 0
      PROVE  \/ V[d][v] = "ok" /\ \A i \in DOMAIN slices[v] : V[d - 1][slices[v][i]] = "ok"
             \/ V[d][v] # "ok" /\ \E i \in DOMAIN slices[v] : V[d][v] = V[d - 1][slices[v][i]]
    <2>1. slices[v] \in Seq(Values)
        BY <1>2 DEF Begins, SliceMaps
    <2>. DEFINE f == V[d - 1]
                a == FirstBad([i \in DOMAIN slices[v] |-> f[slices[v][i]]])
    <2>2. V[d][v] = a
        BY <1>1, <1>2
    <2>. HIDE DEF f
    <2>3. \/ a = "ok" /\ \A i \in DOMAIN slices[v] : f[slices[v][i]] = "ok"
          \/ a # "ok" /\ \E i \in DOMAIN slices[v] : a = f[slices[v][i]]
        BY <2>1, FirstBadIs
    <2>. HIDE DEF a
    <2>. QED BY <2>2, <2>3 DEF f
<1>. QED BY <1>1, <1>2

\* Whose answer the value p may have given: that of one it reaches, or of a nil or a
\* zero in the slice of one.
Answers(here, slices, p, a) ==
    /\ a # "deeper"
    /\ \E q \in {p} \cup Reached(LinksOf(slices), p) :
          \/ here[q] = a
          \/ \E i \in DOMAIN slices[q] : slices[q][i] \notin Objs /\ here[slices[q][i]] = a

OnCycle(slices, p) ==
    \E q \in {p} \cup Reached(LinksOf(slices), p) : q \in Reached(LinksOf(slices), q)

\* The recursion to the depth d from p, when it does not say ok: somebody's answer, or
\* an overflow that a cycle or a way longer than d explains.
Explained(here, slices, V, d, p) ==
    \/ V[d][p] = "ok"
    \/ Answers(here, slices, p, V[d][p])
    \/ /\ V[d][p] = "overflow"
       /\ \/ OnCycle(slices, p)
          \/ Cardinality({p} \cup Reached(LinksOf(slices), p)) > d

LEMMA ExplainedFurther ==
    ASSUME NEW here, NEW slices, NEW V, NEW n \in Nat, Begins(here, slices), Visits(here, slices, n, V),
           NEW d \in 1..n, \A q \in Objs : Explained(here, slices, V, d - 1, q), NEW p \in Objs
    PROVE  Explained(here, slices, V, d, p)
<1>. DEFINE g == LinksOf(slices)
<1>1. g \in LinkMaps
    BY LinksOfType
<1>2. d \in 0..n /\ d # 0 /\ p \in Values
    BY DEF Values
<1>3. CASE here[p] # "deeper"
    <2>1. here[p] # "deeper" => V[d][p] = here[p]
        BY <1>2, VisitsRule
    <2>. QED BY <1>3, <2>1 DEF Explained, Answers
<1>4. CASE here[p] = "deeper" /\ V[d][p] # "ok"
    <2>1. PICK i \in DOMAIN slices[p] : V[d][p] = V[d - 1][slices[p][i]]
        BY <1>2, <1>4, VisitsRule
    <2>. DEFINE c == slices[p][i]
    <2>2. c \in Values
        <3>1. slices[p] \in Seq(Values)
            BY DEF Begins, SliceMaps
        <3>. QED BY <3>1, ElementOfSeq, LenProperties
    <2>3. CASE c \notin Objs
        <3>1. here[c] # "deeper" /\ d - 1 \in 0..n
            BY <1>2, <2>2, <2>3 DEF Begins
        <3>2. V[d - 1][c] = here[c]
            BY <2>2, <3>1, VisitsRule
        <3>3. V[d][p] = here[slices[p][i]] /\ slices[p][i] \notin Objs /\ V[d][p] # "deeper"
            BY <2>1, <2>3, <3>1, <3>2
        <3>4. Answers(here, slices, p, V[d][p])
            BY <3>3 DEF Answers
        <3>. QED BY <3>4 DEF Explained
    <2>4. CASE c \in Objs
        <3>1. c \in g[p]
            BY <2>4 DEF LinksOf
        <3>2. c \in Reached(g, p)
            BY <1>1, <3>1, ReachedHolds
        <3>3. {c} \cup Reached(g, c) \subseteq Reached(g, p)
            BY <1>1, <3>2, ReachedFurther
        <3>4. Explained(here, slices, V, d - 1, c)
            BY <2>4
        <3>5. CASE V[d - 1][c] = "ok"
            BY <1>4, <2>1, <3>5
        <3>6. CASE Answers(here, slices, c, V[d - 1][c])
            <4>1. Answers(here, slices, p, V[d - 1][c])
                BY <3>3, <3>6 DEF Answers
            <4>. QED BY <2>1, <4>1 DEF Explained
        <3>7. CASE V[d - 1][c] = "overflow" /\ OnCycle(slices, c)
            <4>1. OnCycle(slices, p)
                BY <3>3, <3>7 DEF OnCycle
            <4>. QED BY <2>1, <3>7, <4>1 DEF Explained
        <3>8. CASE /\ V[d - 1][c] = "overflow"
                   /\ Cardinality({c} \cup Reached(g, c)) > d - 1
            <4>1. CASE p \in Reached(g, p)
                <5>1. OnCycle(slices, p)
                    BY <4>1 DEF OnCycle
                <5>. QED BY <2>1, <3>8, <5>1 DEF Explained
            <4>2. CASE p \notin Reached(g, p)
                <5>. HIDE DEF g, c
                <5>1. /\ Cardinality({p} \cup Reached(g, p)) \in Nat
                      /\ Cardinality({c} \cup Reached(g, c)) \in Nat
                      /\ Cardinality({c} \cup Reached(g, c)) < Cardinality({p} \cup Reached(g, p))
                    BY <1>1, <3>1, <4>2, FewerBelow
                <5>2. Cardinality({p} \cup Reached(g, p)) > d
                    BY <3>8, <5>1
                <5>. QED BY <2>1, <3>8, <5>2 DEF Explained, g, c
            <4>. QED BY <4>1, <4>2
        <3>. QED BY <3>4, <3>5, <3>6, <3>7, <3>8 DEF Explained
    <2>. QED BY <2>3, <2>4
<1>. QED BY <1>3, <1>4 DEF Explained

LEMMA ExplainedAtOnce ==
    ASSUME NEW here, NEW slices, NEW V, NEW n \in Nat, Begins(here, slices), Visits(here, slices, n, V),
           NEW p \in Objs
    PROVE  Explained(here, slices, V, 0, p)
<1>1. 0 \in 0..n /\ p \in Values
    BY DEF Values
<1>2. here[p] # "deeper" => V[0][p] = here[p]
    BY <1>1, VisitsRule
<1>3. here[p] = "deeper" => V[0][p] = "overflow"
    BY <1>1, VisitsRule
<1>4. Cardinality({p} \cup Reached(LinksOf(slices), p)) > 0
    BY LinksOfType, BelowIsBounded
<1>. QED BY <1>2, <1>3, <1>4 DEF Explained, Answers

LEMMA AllExplained ==
    ASSUME NEW here, NEW slices, NEW V, NEW n \in Nat, Begins(here, slices), Visits(here, slices, n, V),
           NEW d \in 0..n, NEW p \in Objs
    PROVE  Explained(here, slices, V, d, p)
<1>. DEFINE T == {m \in 1..n : \E q \in Objs : ~Explained(here, slices, V, m, q)}
<1>1. T = {}
    <2>. SUFFICES ASSUME T # {} PROVE FALSE
        OBVIOUS
    <2>1. T \subseteq 1..n
        OBVIOUS
    <2>2. PICK m \in T : \A y \in T : m <= y
        <3>. HIDE DEF T
        <3>. QED BY <2>1, FirstPosition
    <2>3. \A q \in Objs : Explained(here, slices, V, m - 1, q)
        <3>1. CASE m = 1
            BY <3>1, ExplainedAtOnce
        <3>2. CASE m # 1
            <4>1. m - 1 \in 1..n /\ ~(m <= m - 1)
                BY <2>1, <3>2
            <4>2. m - 1 \notin T
                BY <2>2, <4>1, Zenon
            <4>. QED BY <4>1, <4>2
        <3>. QED BY <3>1, <3>2
    <2>4. m \in 1..n
        BY <2>1
    <2>5. \A q \in Objs : Explained(here, slices, V, m, q)
        BY <2>3, <2>4, ExplainedFurther
    <2>. QED BY <2>5
<1>2. d = 0 \/ d \in 1..n
    OBVIOUS
<1>. QED BY <1>1, <1>2, ExplainedAtOnce

LEMMA VisitIs ==
    ASSUME NEW here, NEW slices
    PROVE  \E V : /\ Visits(here, slices, Cardinality(Objs), V)
                  /\ \A v : Visit(here, slices, v) = V[Cardinality(Objs)][v]
<1>1. Cardinality(Objs) \in Nat
    BY FS_CardinalityType, ConstantsAssumption
<1>. DEFINE V == CHOOSE V : Visits(here, slices, Cardinality(Objs), V)
<1>2. Visits(here, slices, Cardinality(Objs), V)
    BY <1>1, VisitsExist
<1>3. ASSUME NEW v PROVE Visit(here, slices, v) = V[Cardinality(Objs)][v]
    BY DEF Visit, Visits
<1>. QED BY <1>2, <1>3

\* When Valid or String of an object does not say ok, it says what somebody it reaches
\* says, or it has met a cycle.
LEMMA VisitHasACause ==
    ASSUME NEW here, NEW slices, Begins(here, slices), NEW p \in Objs
    PROVE  \/ Visit(here, slices, p) = "ok"
           \/ Answers(here, slices, p, Visit(here, slices, p))
           \/ Visit(here, slices, p) = "overflow" /\ OnCycle(slices, p)
<1>1. PICK V : /\ Visits(here, slices, Cardinality(Objs), V)
               /\ \A v : Visit(here, slices, v) = V[Cardinality(Objs)][v]
    BY VisitIs
<1>2. /\ Cardinality(Objs) \in Nat
      /\ ~(Cardinality({p} \cup Reached(LinksOf(slices), p)) > Cardinality(Objs))
    BY LinksOfType, BelowIsBounded
<1>3. Explained(here, slices, V, Cardinality(Objs), p)
    BY <1>1, <1>2, AllExplained
<1>. QED BY <1>1, <1>2, <1>3 DEF Explained

\* What holds of all that is reached from an object of which the recursion says ok:
\* everybody says ok, and nobody is on a cycle.
LEMMA OkAllTheWay ==
    ASSUME NEW here, NEW slices, Begins(here, slices), NEW p \in Objs, Visit(here, slices, p) = "ok",
           NEW q \in {p} \cup Reached(LinksOf(slices), p)
    PROVE  /\ q \in Objs /\ q \notin Reached(LinksOf(slices), q)
           /\ here[q] \in {"ok", "deeper"}
           /\ \A i \in DOMAIN slices[q] : slices[q][i] \notin Objs => here[slices[q][i]] = "ok"
<1>. DEFINE n == Cardinality(Objs)
            g == LinksOf(slices)
<1>1. PICK V : Visits(here, slices, n, V) /\ \A v : Visit(here, slices, v) = V[n][v]
    BY VisitIs
<1>2. n \in Nat
    BY FS_CardinalityType, ConstantsAssumption
<1>3. g \in LinkMaps
    BY LinksOfType
<1>. HIDE DEF n
<1>. DEFINE S == {o \in Objs : \E d \in 0..n : V[d][o] = "ok"}
<1>4. ASSUME NEW o \in Objs, NEW d \in 0..n, V[d][o] = "ok", here[o] = "deeper"
      PROVE  /\ d - 1 \in 0..n /\ d # 0
             /\ \A i \in DOMAIN slices[o] :
                   slices[o][i] \in Values /\ V[d - 1][slices[o][i]] = "ok"
    <2>1. o \in Values /\ slices[o] \in Seq(Values)
        BY DEF Values, Begins, SliceMaps
    <2>2. d # 0
        BY <1>1, <1>2, <1>4, <2>1, VisitsRule
    <2>3. \A i \in DOMAIN slices[o] : V[d - 1][slices[o][i]] = "ok"
        BY <1>1, <1>2, <1>4, <2>1, <2>2, VisitsRule
    <2>4. \A i \in DOMAIN slices[o] : slices[o][i] \in Values
        BY <2>1, ElementOfSeq, LenProperties
    <2>. QED BY <1>2, <2>2, <2>3, <2>4
<1>5. ASSUME NEW o \in S, NEW c \in g[o]
      PROVE  here[o] = "deeper" /\ \A d \in 0..n : V[d][o] = "ok" => d - 1 \in 0..n /\ V[d - 1][c] = "ok"
    <2>1. PICK i \in DOMAIN slices[o] : c = slices[o][i]
        BY DEF LinksOf
    <2>2. slices[o] # << >>
        BY <2>1, EmptyAny
    <2>3. here[o] = "deeper"
        BY <2>2 DEF Begins
    <2>. QED BY <1>4, <2>1, <2>3
<1>6. {p} \cup Reached(g, p) \subseteq S
    <2>1. p \in S
        BY <1>1, <1>2
    <2>2. \A o \in S : g[o] \subseteq S
        <3>1. \A o \in S : g[o] \subseteq Objs
            BY <1>3 DEF LinkMaps
        <3>2. \A o \in S : \A c \in g[o] : \E d \in 0..n : V[d][c] = "ok"
            BY <1>5
        <3>. QED BY <3>1, <3>2
    <2>3. S \subseteq Objs
        OBVIOUS
    <2>. HIDE DEF S, g
    <2>. QED BY <1>3, <2>1, <2>2, <2>3, ReachedIsLeast
<1>7. q \in S
    BY <1>6
<1>8. here[q] \in {"ok", "deeper"}
    <2>1. PICK d \in 0..n : V[d][q] = "ok"
        BY <1>7
    <2>2. q \in Values
        BY <1>7 DEF Values
    <2>3. here[q] # "deeper" => V[d][q] = here[q]
        BY <1>1, <1>2, <2>2, VisitsRule
    <2>. QED BY <2>1, <2>3
<1>9. ASSUME NEW i \in DOMAIN slices[q], slices[q][i] \notin Objs
      PROVE  here[slices[q][i]] = "ok"
    <2>. DEFINE v == slices[q][i]
    <2>1. PICK d \in 0..n : V[d][q] = "ok"
        BY <1>7
    <2>2. here[q] = "deeper"
        <3>1. slices[q] # << >>
            BY EmptyAny
        <3>. QED BY <1>7, <3>1 DEF Begins
    <2>3. d - 1 \in 0..n /\ v \in Values /\ V[d - 1][v] = "ok"
        BY <1>4, <1>7, <2>1, <2>2
    <2>4. here[v] # "deeper"
        BY <1>9, <2>3 DEF Begins
    <2>5. V[d - 1][v] = here[v]
        BY <1>1, <1>2, <2>3, <2>4, VisitsRule
    <2>. QED BY <2>3, <2>5
<1>10. ASSUME q \in Reached(g, q) PROVE FALSE
    <2>. DEFINE T == {m \in 1..(n + 1) : \E o \in Objs : V[m - 1][o] = "ok" /\ o \in Reached(g, o)}
    <2>1. T \subseteq 1..(n + 1) /\ T # {} /\ n + 1 \in Nat
        <3>1. PICK d \in 0..n : V[d][q] = "ok"
            BY <1>7
        <3>2. d + 1 \in 1..(n + 1) /\ (d + 1) - 1 = d
            BY <1>2
        <3>3. d + 1 \in T
            BY <1>7, <1>10, <3>1, <3>2
        <3>4. T \subseteq 1..(n + 1)
            OBVIOUS
        <3>. HIDE DEF T
        <3>. QED BY <1>2, <3>3, <3>4
    <2>2. PICK m \in T : \A y \in T : m <= y
        <3>. HIDE DEF T
        <3>. QED BY <2>1, FirstPosition
    <2>3. PICK o \in Objs : V[m - 1][o] = "ok" /\ o \in Reached(g, o)
        OBVIOUS
    <2>4. PICK c \in g[o] : o \in {c} \cup Reached(g, c)
        BY <1>3, <2>3, ReachedBegins
    <2>5. c \in Objs /\ c \in Reached(g, o)
        BY <1>3, <2>4, ReachedHolds
    <2>6. c \in Reached(g, c)
        <3>1. o \in Reached(g, c) => Reached(g, o) \subseteq Reached(g, c)
            BY <1>3, <2>5, ReachedFurther
        <3>. QED BY <2>3, <2>4, <2>5, <3>1
    <2>7. m - 1 \in 0..n /\ o \in S
        <3>1. m - 1 \in 0..n
            BY <1>2
        <3>. QED BY <2>3, <3>1
    <2>8. (m - 1) - 1 \in 0..n /\ V[(m - 1) - 1][c] = "ok"
        BY <1>5, <2>3, <2>4, <2>7
    <2>9. m - 1 \in T
        <3>1. m - 1 \in 1..(n + 1)
            BY <1>2, <2>8
        <3>. QED BY <2>5, <2>6, <2>8, <3>1
    <2>10. m \in Nat
        OBVIOUS
    <2>11. m <= m - 1
        BY <2>2, <2>9, Zenon
    <2>. QED BY <2>10, <2>11
<1>. QED BY <1>7, <1>8, <1>9, <1>10
-----------------------------------------------------------------------------
(* The heap as the recursions see it                                       *)

AllValidHere == [w \in Values |-> ValidHere(w)]

\* What an object of which Valid says ok is by itself.
Sound(q) ==
    \/ kind[q] = "item" /\ Complete(item[q])
    \/ /\ kind[q] \in {"and", "or", "not"} /\ kids[q] # << >>
       /\ \A i \in DOMAIN kids[q] : kids[q][i] \in Objs

LEMMA BelowIs ==
    ASSUME NEW o
    PROVE  /\ Below(o) = Reached(LinksOf(kids), o)
           /\ Below(o)' = Reached(LinksOf(kids'), o)
           /\ o \in Objs => Children(o) = LinksOf(kids)[o] /\ Children(o)' = LinksOf(kids')[o]
BY DEF Below, Children, LinksOf

LEMMA ValidBegins == TypeOK => Begins(AllValidHere, kids)
<1>. SUFFICES ASSUME TypeOK PROVE Begins(AllValidHere, kids)
    OBVIOUS
<1>1. ASSUME NEW v \in Values, AllValidHere[v] = "deeper" PROVE v \in Objs
    BY <1>1 DEF AllValidHere, ValidHere, Values
<1>2. ASSUME NEW o \in Objs, kids[o] # << >> PROVE AllValidHere[o] = "deeper"
    <2>1. o # NoRule /\ o \notin Zeros /\ o \in Values
        BY ConstantsAssumption DEF Values
    <2>2. kind[o] # "item"
        BY <1>2 DEF TypeOK
    <2>. QED BY <1>2, <2>1, <2>2 DEF AllValidHere, ValidHere
<1>3. kids \in SliceMaps
    BY DEF TypeOK, SliceMaps
<1>. QED BY <1>1, <1>2, <1>3 DEF Begins

LEMMA OkBelow ==
    ASSUME TypeOK, NEW o \in Objs, ValidOf(o) = "ok", NEW q \in {o} \cup Below(o)
    PROVE  /\ q \in Objs /\ q \notin Below(q)
           /\ kind[q] # "free" /\ Sound(q)
<1>1. Visit(AllValidHere, kids, o) = "ok"
    BY DEF ValidOf, AllValidHere
<1>2. q \in {o} \cup Reached(LinksOf(kids), o)
    BY BelowIs
<1>3. /\ q \in Objs /\ q \notin Below(q)
      /\ AllValidHere[q] \in {"ok", "deeper"}
      /\ \A i \in DOMAIN kids[q] : kids[q][i] \notin Objs => AllValidHere[kids[q][i]] = "ok"
    BY <1>1, <1>2, ValidBegins, OkAllTheWay, BelowIs
<1>4. q # NoRule /\ q \notin Zeros /\ q \in Values
    BY <1>3, ConstantsAssumption DEF Values
<1>5. AllValidHere[q] = IF kind[q] = "item" THEN IF Complete(item[q]) THEN "ok" ELSE "err"
                        ELSE IF kids[q] = << >> THEN IF kind[q] = "not" THEN "panic" ELSE "err"
                        ELSE "deeper"
    BY <1>4 DEF AllValidHere, ValidHere
<1>6. ASSUME NEW i \in DOMAIN kids[q] PROVE kids[q][i] \in Objs
    <2>1. kids[q] \in Seq(Values)
        BY <1>3 DEF TypeOK
    <2>2. kids[q][i] \in Values
        BY <2>1, ElementOfSeq, LenProperties
    <2>3. kids[q][i] \notin Objs => AllValidHere[kids[q][i]] \in {"panic", "err"}
        BY <2>2 DEF AllValidHere, ValidHere, Values
    <2>. QED BY <1>3, <2>3
<1>7. kind[q] \in Kinds \cup {"free"}
    BY <1>3 DEF TypeOK
<1>8. kind[q] # "free"
    BY <1>3, <1>5 DEF TypeOK
<1>. QED BY <1>3, <1>5, <1>6, <1>7, <1>8 DEF Sound, Kinds, Slices

\* An object is valid when all that is reached from it is sound and on no cycle.
OkFromBelow(o, S) ==
    /\ o \in S
    /\ \A q \in S : Children(q) \subseteq S /\ q \notin Below(q) /\ Sound(q)

LEMMA ValidWhenSound ==
    TypeOK => \A o \in Objs : \A S \in SUBSET Objs : OkFromBelow(o, S) => ValidOf(o) = "ok"
<1>. SUFFICES ASSUME TypeOK, NEW o \in Objs, NEW S \in SUBSET Objs, OkFromBelow(o, S),
                     ValidOf(o) # "ok"
              PROVE  FALSE
    OBVIOUS
<1>. DEFINE g == LinksOf(kids)
<1>1. g \in LinkMaps
    BY LinksOfType
<1>2. {o} \cup Reached(g, o) \subseteq S
    <2>1. \A q \in S : g[q] \subseteq S
        BY BelowIs DEF OkFromBelow
    <2>. HIDE DEF g
    <2>. QED BY <1>1, <2>1, ReachedIsLeast DEF OkFromBelow
<1>3. ~OnCycle(kids, o)
    BY <1>2, BelowIs DEF OnCycle, OkFromBelow
<1>4. ASSUME NEW q \in S
      PROVE  /\ AllValidHere[q] \in {"ok", "deeper"}
             /\ \A i \in DOMAIN kids[q] : kids[q][i] \in Objs
    <2>1. q # NoRule /\ q \notin Zeros /\ q \in Values /\ Sound(q)
        BY ConstantsAssumption DEF Values, OkFromBelow
    <2>2. AllValidHere[q] = IF kind[q] = "item" THEN IF Complete(item[q]) THEN "ok" ELSE "err"
                            ELSE IF kids[q] = << >> THEN IF kind[q] = "not" THEN "panic" ELSE "err"
                            ELSE "deeper"
        BY <2>1 DEF AllValidHere, ValidHere
    <2>3. kind[q] = "item" => kids[q] = << >>
        BY DEF TypeOK
    <2>. QED BY <2>1, <2>2, <2>3, EmptyAny DEF Sound
<1>5. Visit(AllValidHere, kids, o) # "ok" /\ Begins(AllValidHere, kids)
    BY ValidBegins DEF ValidOf, AllValidHere
<1>6. Answers(AllValidHere, kids, o, Visit(AllValidHere, kids, o))
    BY <1>3, <1>5, VisitHasACause
<1>7. PICK q \in S : AllValidHere[q] = Visit(AllValidHere, kids, o)
    BY <1>2, <1>4, <1>6 DEF Answers
<1>. QED BY <1>4, <1>5, <1>6, <1>7 DEF Answers
-----------------------------------------------------------------------------
(* Objects that are not made yet                                           *)

LEMMA FreshIsApart ==
    ASSUME TypeOK, NEW c \in Objs, kind[c] = "free"
    PROVE  /\ kids[c] = << >>
           /\ \A p \in Objs : c \notin Below(p)
<1>1. kids[c] = << >>
    BY DEF TypeOK
<1>2. ASSUME NEW p \in Objs PROVE c \notin Below(p)
    <2>. DEFINE g == LinksOf(kids)
                S == {q \in Objs : kind[q] # "free"}
    <2>1. \A q \in Objs : g[q] \subseteq S
        BY DEF TypeOK, LinksOf
    <2>2. g \in LinkMaps /\ S \subseteq Objs
        BY LinksOfType
    <2>3. Reached(g, p) \subseteq S
        <3>. HIDE DEF g, S
        <3>1. \A q \in S : g[q] \subseteq S
            BY <2>1, <2>2
        <3>. QED BY <2>1, <2>2, <3>1, ReachedIsLeast
    <2>. QED BY <2>3, BelowIs
<1>. QED BY <1>1, <1>2

LEMMA NothingBelow ==
    ASSUME NEW slices, NEW c \in Objs, slices[c] = << >>
    PROVE  Reached(LinksOf(slices), c) = {}
<1>1. LinksOf(slices)[c] = {}
    BY EmptyAny DEF LinksOf
<1>. QED BY <1>1, LinksOfType, ReachedIsLeast

-----------------------------------------------------------------------------
(* Types and links                                                         *)

IInv == TypeOK /\ NotHoldsOneRule

USE DEF Kinds, Slices, Live

-----------------------------------------------------------------------------
LEMMA EndedType ==
    ASSUME NEW call \in Calls, NEW v
    PROVE  Ended(call, v) \in Calls \X Outcomes
BY DEF Ended, Done, Calls, Outcomes

LEMMA DoneType == Done \in Calls \X Outcomes
BY DEF Done, Calls, Outcomes

\* Setting a flag keeps the styles in range.
LEMMA SetFlagType ==
    ASSUME style \in [Objs -> SUBSET Flags], NEW o \in Objs, NEW f, NEW b \in BOOLEAN, SetFlag(o, f, b)
    PROVE  style' \in [Objs -> SUBSET Flags]
BY DEF SetFlag

\* Changing one item's record keeps the items in range.
LEMMA ItemType ==
    ASSUME item \in [Objs -> Items], NEW o \in Objs, NEW r \in Items,
           item' = [item EXCEPT ![o] = r]
    PROVE  item' \in [Objs -> Items]
OBVIOUS

-----------------------------------------------------------------------------
\* The part of the invariant that speaks of kinds and links only, kept by a step
\* that leaves both alone.
Links ==
    /\ kind \in [Objs -> Kinds \cup {"free"}]
    /\ kids \in [Objs -> Seq(Values)]
    /\ loop \in Objs \cup {NoObj}
    /\ loop # NoObj => kind[loop] \in Slices
    /\ \A o \in Objs :
         /\ kind[o] \in {"item", "free"} => kids[o] = << >>
         /\ \A i \in DOMAIN kids[o] :
              kids[o][i] \in Objs => kind[kids[o][i]] # "free"
    /\ NotHoldsOneRule

Data ==
    /\ item \in [Objs -> Items]
    /\ style \in [Objs -> SUBSET Flags]
    /\ out \in Calls \X Outcomes

\* A step that changes no link and no kind, and ends or keeps the Push loop.
LEMMA LinksUnchanged ==
    ASSUME Links, UNCHANGED <<kind, kids>>, loop' \in {loop, NoObj}
    PROVE  Links'
BY ConstantsAssumption DEF Links, NotHoldsOneRule, OneRule, KindOf

\* A fresh object without links.
LEMMA LinksAllocate ==
    ASSUME Links, NEW o \in Objs, NEW k \in Kinds, Allocate(o, k), UNCHANGED kids,
           loop' = loop \/ (loop' = o /\ k \in Slices)
    PROVE  Links'
<1>1. kind' \in [Objs -> Kinds \cup {"free"}] /\ kids' \in [Objs -> Seq(Values)]
  BY DEF Links, Allocate
<1>2. kids[o] = << >> /\ \A p \in Objs : \A i \in DOMAIN kids[p] : kids[p][i] # o
  BY DEF Links, Allocate
<1>3. loop' \in Objs \cup {NoObj} /\ (loop' # NoObj => kind'[loop'] \in Slices)
  BY ConstantsAssumption DEF Links, Allocate
<1>4. \A p \in Objs :
         /\ kind'[p] \in {"item", "free"} => kids'[p] = << >>
         /\ \A i \in DOMAIN kids'[p] : kids'[p][i] \in Objs => kind'[kids'[p][i]] # "free"
  BY <1>2 DEF Links, Allocate
<1>5. NotHoldsOneRule'
  BY <1>2 DEF Links, Allocate, NotHoldsOneRule, OneRule, KindOf
<1>6. QED BY <1>1, <1>3, <1>4, <1>5 DEF Links

\* One more child, not a free object, at the end of the slice in the Push loop.
LEMMA LinksAppend ==
    ASSUME Links, loop # NoObj, NEW x \in Values, x \in Objs => kind[x] # "free",
           kids' = [kids EXCEPT ![loop] = Append(@, x)], UNCHANGED kind,
           loop' \in {loop, NoObj}
    PROVE  Links'
<1>1. loop \in Objs /\ kind[loop] \in Slices
  BY DEF Links
<1>2. kids' \in [Objs -> Seq(Values)]
  BY <1>1 DEF Links
<1>3. \A p \in Objs : p # loop => kids'[p] = kids[p]
  BY DEF Links
<1>4. \A i \in DOMAIN kids'[loop] : kids'[loop][i] = x \/ (i \in DOMAIN kids[loop] /\ kids'[loop][i] = kids[loop][i])
  BY <1>1 DEF Links
<1>5. \A p \in Objs :
         /\ kind'[p] \in {"item", "free"} => kids'[p] = << >>
         /\ \A i \in DOMAIN kids'[p] : kids'[p][i] \in Objs => kind'[kids'[p][i]] # "free"
  BY <1>1, <1>3, <1>4 DEF Links
<1>6. NotHoldsOneRule'
  BY <1>1, <1>3 DEF Links, NotHoldsOneRule, OneRule, KindOf
<1>7. QED BY <1>1, <1>2, <1>5, <1>6, ConstantsAssumption DEF Links

\* A Not, old or fresh, gets the child x: a live object or a zero handle of
\* another kind.
LEMMA LinksSetChild ==
    ASSUME Links, NEW o \in Objs, NEW x \in Objs \cup Zeros, KindOf(x) # "not",
           x \in Objs => kind[x] # "free",
           (kind[o] = "not" /\ UNCHANGED kind) \/ Allocate(o, "not"),
           kids' = [kids EXCEPT ![o] = <<x>>], UNCHANGED loop
    PROVE  Links'
<1>1. kind' \in [Objs -> Kinds \cup {"free"}] /\ kind'[o] = "not"
  BY DEF Links, Allocate
<1>2. \A p \in Objs : p # o => kind'[p] = kind[p] /\ kids'[p] = kids[p]
  BY DEF Links, Allocate
<1>3. kids'[o] = <<x>> /\ kids' \in [Objs -> Seq(Values)]
  <2>1. <<x>> \in Seq(Values)
    BY DEF Values
  <2>2. QED BY <2>1 DEF Links
<1>4. loop # o
  BY ConstantsAssumption DEF Links, Allocate
<1>5. x # NoRule /\ x # o /\ (x \in Objs => kind'[x] = kind[x])
  BY <1>2, ConstantsAssumption DEF Allocate, KindOf
<1>6. \A p \in Objs :
         /\ kind'[p] \in {"item", "free"} => kids'[p] = << >>
         /\ \A i \in DOMAIN kids'[p] : kids'[p][i] \in Objs => kind'[kids'[p][i]] # "free"
  BY <1>1, <1>2, <1>3, <1>5 DEF Links
<1>7. ASSUME NEW p \in Objs, kind'[p] = "not"
      PROVE  OneRule(p)'
  <2>1. CASE p = o
    BY <2>1, <1>3, <1>5 DEF OneRule, KindOf
  <2>2. CASE p # o
    <3>1. kind[p] = "not" /\ kids'[p] = kids[p] /\ OneRule(p)
      BY <2>2, <1>2, <1>7 DEF Links, NotHoldsOneRule, OneRule
    <3>2. ASSUME kids[p] # << >>
          PROVE  (KindOf(kids[p][1]) # "not")'
      <4>1. 1 \in DOMAIN kids[p]
        BY <3>2 DEF Links
      <4>2. kids[p][1] \in Objs => kind[kids[p][1]] \notin {"free", "not"}
        BY <3>1, <3>2, <4>1 DEF Links, OneRule, KindOf
      <4>3. kids[p][1] \in Objs => kids[p][1] # o
        BY <4>2 DEF Allocate
      <4>4. QED BY <4>3, <3>1, <3>2, <1>2 DEF OneRule, KindOf
    <3>3. QED BY <3>1, <3>2 DEF OneRule
  <2>3. QED BY <2>1, <2>2
<1>8. QED BY <1>1, <1>2, <1>3, <1>4, <1>6, <1>7, ConstantsAssumption DEF Links, NotHoldsOneRule, OneRule

\* The child may be an item allocated in the same step (a text argument): the two
\* lemmas above, read with the item already there.
LEMMA LinksNewItem ==
    ASSUME Links, NEW o \in Objs, NEW i \in Objs, kind[i] = "free", i # o,
           kind[o] \in Slices \cup {"not", "free"},
           NEW k \in {"and", "or", "not"},
           kind[o] \in Slices => o = loop /\ k = kind[o],
           kind[o] \in {"not", "free"} => k = "not",
           kind' = [kind EXCEPT ![o] = k, ![i] = "item"],
           kids' = [kids EXCEPT ![o] = IF k = "not" THEN <<i>> ELSE Append(@, i)],
           UNCHANGED loop
    PROVE  Links'
<1>1. kind' \in [Objs -> Kinds \cup {"free"}] /\ kind'[o] = k /\ kind'[i] = "item"
  BY DEF Links
<1>2. \A p \in Objs : p \notin {o, i} => kind'[p] = kind[p] /\ kids'[p] = kids[p]
  BY DEF Links
<1>3. kids' \in [Objs -> Seq(Values)] /\ kids'[i] = << >> /\ kids[i] = << >>
  <2>1. <<i>> \in Seq(Values)
    BY DEF Values
  <2>2. Append(kids[o], i) \in Seq(Values)
    BY DEF Links, Values
  <2>3. QED BY <2>1, <2>2 DEF Links
<1>4. \A n \in DOMAIN kids'[o] :
         kids'[o][n] = i \/ (n \in DOMAIN kids[o] /\ kids'[o][n] = kids[o][n])
  BY DEF Links
<1>5. loop \in Objs \cup {NoObj} /\ (loop # NoObj => kind'[loop] \in Slices)
  BY <1>1, <1>2 DEF Links
<1>6. \A p \in Objs : kind[p] # "free" => kind'[p] # "free"
  BY <1>1, <1>2
<1>7. \A p \in Objs :
         /\ kind'[p] \in {"item", "free"} => kids'[p] = << >>
         /\ \A n \in DOMAIN kids'[p] : kids'[p][n] \in Objs => kind'[kids'[p][n]] # "free"
  BY <1>1, <1>2, <1>3, <1>4, <1>6 DEF Links
<1>8. ASSUME NEW p \in Objs, kind'[p] = "not"
      PROVE  OneRule(p)'
  <2>1. CASE p = o
    BY <2>1, <1>1, <1>3, <1>8, ConstantsAssumption DEF Links, OneRule, KindOf
  <2>2. CASE p # o
    <3>1. kind[p] = "not" /\ kids'[p] = kids[p] /\ OneRule(p)
      BY <2>2, <1>1, <1>2, <1>8 DEF Links, NotHoldsOneRule, OneRule
    <3>2. ASSUME kids[p] # << >>
          PROVE  (KindOf(kids[p][1]) # "not")'
      <4>1. 1 \in DOMAIN kids[p]
        BY <3>2 DEF Links
      <4>2. kids[p][1] \in Objs => kind[kids[p][1]] \notin {"free", "not"}
        BY <3>1, <3>2, <4>1 DEF Links, OneRule, KindOf
      <4>3. kids[p][1] \in Objs => kind'[kids[p][1]] # "not"
        BY <4>2, <1>1, <1>2
      <4>4. QED BY <4>3, <3>1, <3>2 DEF OneRule, KindOf
    <3>3. QED BY <3>1, <3>2 DEF OneRule
  <2>3. QED BY <2>1, <2>2
<1>9. QED BY <1>1, <1>3, <1>5, <1>7, <1>8 DEF Links, NotHoldsOneRule, OneRule
-----------------------------------------------------------------------------
LEMMA InitIInv == Init => IInv
BY ConstantsAssumption, DoneType
   DEF Init, IInv, TypeOK, NotHoldsOneRule, Items, EmptyItem, Values

\* One step per disjunct of Next; in each, Links by the lemma about the change it
\* makes to the heap, then Data.
LEMMA NextIInv == IInv /\ [Next]_vars => IInv'
<1> SUFFICES ASSUME Links, Data, [Next]_vars PROVE Links' /\ Data'
  BY DEF IInv, TypeOK, Links, Data
<1> USE EndedType, DoneType DEF Idle
<1>1. ASSUME NEW o \in Objs, NEW k \in Slices, NewSlice(o, k) PROVE Links' /\ Data'
  <2>1. Links'
    BY <1>1, LinksAllocate DEF NewSlice
  <2>2. QED BY <1>1, <2>1 DEF NewSlice, Data
<1>2. ASSUME NEW o \in Objs, NEW kw \in Keywords \cup {NoKw}, NEW op \in BOOLEAN,
             NEW ok \in BOOLEAN, NewItem(o, kw, op, ok)
      PROVE  Links' /\ Data'
  <2>1. Links'
    BY <1>2, LinksAllocate DEF NewItem
  <2>2. [kw |-> kw, op |-> op /\ kw # NoKw, ex |-> IF ok THEN kw ELSE NoKw] \in Items
    BY DEF Items
  <2>3. QED BY <1>2, <2>1, <2>2 DEF NewItem, Data
<1>3. ASSUME NEW o \in Objs, NEW x \in Values, NewNot(o, x) PROVE Links' /\ Data'
  <2>1. CASE x = NoRule \/ KindOf(x) = "not"
    <3>1. UNCHANGED kids
      BY <1>3, <2>1 DEF NewNot, Links, Allocate
    <3>2. QED BY <1>3, <3>1, LinksAllocate DEF NewNot, Data
  <2>2. CASE ~(x = NoRule \/ KindOf(x) = "not")
    <3>1. x \in Objs \cup Zeros /\ (x \in Objs => kind[x] # "free")
      BY <1>3, <2>2, ConstantsAssumption DEF NewNot
    <3>2. kids' = [kids EXCEPT ![o] = <<x>>] /\ Allocate(o, "not") /\ UNCHANGED loop
      BY <1>3, <2>2 DEF NewNot
    <3>3. Links'
      BY <2>2, <3>1, <3>2, LinksSetChild
    <3>4. QED BY <1>3, <3>3 DEF NewNot, Data
  <2>3. QED BY <2>1, <2>2
<1>4. ASSUME NEW o \in Objs, NEW i \in Objs, NEW t \in Texts, NEW k \in Keywords,
             NewNotText(o, t, i, k)
      PROVE  Links' /\ Data'
  <2>1. CASE t = "bad"
    <3>1. Links'
      BY <1>4, <2>1, LinksAllocate DEF NewNotText, Allocate
    <3>2. QED BY <1>4, <2>1, <3>1 DEF NewNotText, Data
  <2>2. CASE t = "bare"
    <3>1. Links'
      BY <1>4, <2>2, LinksUnchanged DEF NewNotText
    <3>2. QED BY <1>4, <2>2, <3>1 DEF NewNotText, Data, Calls, Outcomes
  <2>3. CASE t = "item"
    <3>1. kids' = [kids EXCEPT ![o] = <<i>>]
      BY <1>4, <2>3 DEF NewNotText
    <3>2. Links'
      BY <1>4, <2>3, <3>1, LinksNewItem DEF NewNotText
    <3>3. [kw |-> k, op |-> TRUE, ex |-> k] \in Items
      BY DEF Items
    <3>4. QED BY <1>4, <2>3, <3>2, <3>3 DEF NewNotText, TextItem, Data
  <2>4. QED BY <2>1, <2>2, <2>3 DEF Texts
<1>5. ASSUME NEW r \in Objs \cup {ZeroAnd, ZeroOr}, PushStart(r) PROVE Links' /\ Data'
  <2>1. CASE r \in Live /\ kind[r] \in Slices /\ loop' = r /\ UNCHANGED kind
    <3>1. NotHoldsOneRule'
      BY <1>5, <2>1 DEF PushStart, Links, NotHoldsOneRule, OneRule, KindOf
    <3>2. QED BY <1>5, <2>1, <3>1 DEF PushStart, Links, Data
  <2>2. ASSUME r \in {ZeroAnd, ZeroOr}, NEW o \in Objs, Allocate(o, KindOf(r)), loop' = o
        PROVE  Links' /\ Data'
    <3>1. KindOf(r) \in Slices
      BY <2>2, ConstantsAssumption DEF KindOf, Zeros
    <3>2. Links'
      BY <1>5, <2>2, <3>1, LinksAllocate DEF PushStart
    <3>3. QED BY <1>5, <3>2 DEF PushStart, Data
  <2>3. QED BY <1>5, <2>1, <2>2 DEF PushStart
<1>6. ASSUME NEW x \in Values, PushRule(x) PROVE Links' /\ Data'
  <2>1. CASE ValidOf(x) = "ok"
    <3>1. Links'
      BY <1>6, <2>1, LinksAppend, ConstantsAssumption DEF PushRule
    <3>2. QED BY <1>6, <3>1 DEF PushRule, Data, Calls
  <2>2. CASE ValidOf(x) # "ok"
    <3>1. Links'
      BY <1>6, <2>2, LinksUnchanged DEF PushRule
    <3>2. QED BY <1>6, <3>1 DEF PushRule, Data, Calls
  <2>3. QED BY <2>1, <2>2
<1>7. ASSUME NEW t \in Texts, NEW i \in Objs, NEW k \in Keywords, PushText(t, i, k)
      PROVE  Links' /\ Data'
  <2>1. CASE t = "bad"
    <3>1. Links'
      BY <1>7, <2>1, LinksUnchanged DEF PushText
    <3>2. QED BY <1>7, <2>1, <3>1 DEF PushText, Data
  <2>2. CASE t = "bare"
    <3>1. Links'
      BY <1>7, <2>2, LinksAppend, ConstantsAssumption DEF PushText, Values
    <3>2. QED BY <1>7, <2>2, <3>1 DEF PushText, Data
  <2>3. CASE t = "item"
    <3>1. loop \in Objs /\ kind[loop] \in Slices /\ i # loop /\ kind[i] = "free"
      BY <1>7, <2>3 DEF PushText, Allocate, Links
    <3>2. kind' = [kind EXCEPT ![loop] = kind[loop], ![i] = "item"]
      BY <1>7, <2>3, <3>1 DEF PushText, Allocate, Links
    <3>3. kids' = [kids EXCEPT ![loop] = IF kind[loop] = "not" THEN <<i>> ELSE Append(@, i)]
      BY <1>7, <2>3, <3>1 DEF PushText
    <3>4. Links'
      BY <1>7, <2>3, <3>1, <3>2, <3>3, LinksNewItem DEF PushText
    <3>5. [kw |-> k, op |-> TRUE, ex |-> k] \in Items
      BY DEF Items
    <3>6. QED BY <1>7, <2>3, <3>4, <3>5 DEF PushText, TextItem, Data
  <2>4. QED BY <2>1, <2>2, <2>3 DEF Texts
<1>8. CASE PushEnd
  <2>1. Links'
    BY <1>8, LinksUnchanged DEF PushEnd
  <2>2. QED BY <1>8, <2>1 DEF PushEnd, Data
<1>9. ASSUME NEW o \in Objs, NEW x \in Values, NotPush(o, x) PROVE Links' /\ Data'
  <2> DEFINE v == IF x = NoRule THEN "err" ELSE ValidOf(x)
  <2>1. CASE v = "ok" /\ KindOf(x) # "not"
    <3>1. x \in Objs \cup Zeros /\ (x \in Objs => kind[x] # "free")
      BY <1>9, <2>1, ConstantsAssumption DEF NotPush
    <3>2. kids' = [kids EXCEPT ![o] = <<x>>]
      BY <1>9, <2>1 DEF NotPush
    <3>3. Links'
      BY <1>9, <2>1, <3>1, <3>2, LinksSetChild DEF NotPush
    <3>4. QED BY <1>9, <3>3 DEF NotPush, Data, Calls
  <2>2. CASE ~(v = "ok" /\ KindOf(x) # "not")
    <3>1. Links'
      BY <1>9, <2>2, LinksUnchanged, LinksAllocate DEF NotPush
    <3>2. QED BY <1>9, <3>1 DEF NotPush, Data, Calls
  <2>3. QED BY <2>1, <2>2
<1>10. ASSUME NEW o \in Objs, NEW i \in Objs, NEW t \in Texts, NEW k \in Keywords,
              NotPushText(o, t, i, k)
       PROVE  Links' /\ Data'
  <2>1. CASE t \in {"bad", "bare"}
    <3>1. Links'
      BY <1>10, <2>1, LinksUnchanged DEF NotPushText
    <3>2. UNCHANGED <<item, style>> /\ out' \in {Done, <<"Text", "panic">>}
      BY <1>10, <2>1 DEF NotPushText
    <3>3. QED BY <3>1, <3>2 DEF Data, Calls, Outcomes
  <2>2. CASE t = "item"
    <3>1. i # o /\ kind' = [kind EXCEPT ![o] = "not", ![i] = "item"]
      BY <1>10, <2>2 DEF NotPushText, Allocate, Links
    <3>2. kids' = [kids EXCEPT ![o] = <<i>>]
      BY <1>10, <2>2 DEF NotPushText
    <3>3. Links'
      BY <1>10, <2>2, <3>1, <3>2, LinksNewItem DEF NotPushText, Allocate
    <3>4. [kw |-> k, op |-> TRUE, ex |-> k] \in Items
      BY DEF Items
    <3>5. QED BY <1>10, <2>2, <3>3, <3>4, ZenonT(20) DEF NotPushText, TextItem, Data
  <2>3. QED BY <2>1, <2>2 DEF Texts
<1>11. ASSUME NEW o \in Objs, NEW b \in BOOLEAN, SetParen(o, b) PROVE Links' /\ Data'
  <2>1. Links'
    BY <1>11, LinksUnchanged DEF SetParen
  <2>2. style' \in [Objs -> SUBSET Flags]
    BY <1>11, SetFlagType DEF SetParen, Data
  <2>3. QED BY <1>11, <2>1, <2>2 DEF SetParen, Data, Calls, Outcomes
<1>12. ASSUME NEW o \in Objs, NEW b \in BOOLEAN, SetPaddingStyle(o, b)
       PROVE  Links' /\ Data'
  <2>1. Links'
    BY <1>12, LinksUnchanged DEF SetPaddingStyle
  <2>2. style' \in [Objs -> SUBSET Flags]
    BY <1>12, SetFlagType DEF SetPaddingStyle, Data
  <2>3. QED BY <1>12, <2>1, <2>2 DEF SetPaddingStyle, Data, Calls, Outcomes
<1>13. ASSUME NEW o \in Objs, NEW b \in BOOLEAN, SetQuotationStyle(o, b)
       PROVE  Links' /\ Data'
  <2>1. Links'
    BY <1>13, LinksUnchanged DEF SetQuotationStyle
  <2>2. style' \in [Objs -> SUBSET Flags]
    BY <1>13, SetFlagType DEF SetQuotationStyle, Data
  <2>3. QED BY <1>13, <2>1, <2>2 DEF SetQuotationStyle, Data
<1>14. ASSUME NEW o \in Objs, ItemReceiver(o), UNCHANGED <<kids, style, loop>>,
              out' = Done, item' \in [Objs -> Items]
       PROVE  Links' /\ Data'
  <2>1. Links'
    BY <1>14, LinksUnchanged, LinksAllocate DEF ItemReceiver
  <2>2. QED BY <1>14, <2>1 DEF Data
<1>15. ASSUME NEW o \in Objs, NEW kw \in Keywords \cup {NoKw}, SetKeyword(o, kw)
       PROVE  Links' /\ Data'
  <2>1. item' \in [Objs -> Items]
    BY <1>15 DEF SetKeyword, Data, Items
  <2>2. QED BY <1>14, <1>15, <2>1 DEF SetKeyword
<1>16. ASSUME NEW o \in Objs, NEW ok \in BOOLEAN, SetOperator(o, ok) PROVE Links' /\ Data'
  <2>1. item' \in [Objs -> Items]
    BY <1>16 DEF SetOperator, Data, Items
  <2>2. QED BY <1>14, <1>16, <2>1 DEF SetOperator
<1>17. ASSUME NEW o \in Objs, NEW ok \in BOOLEAN, SetExpression(o, ok) PROVE Links' /\ Data'
  <2>1. item' \in [Objs -> Items]
    BY <1>17 DEF SetExpression, Data, Items
  <2>2. QED BY <1>14, <1>17, <2>1 DEF SetExpression
<1>18. ASSUME NEW call \in Calls, NEW outcome, Read(call, outcome) PROVE Links' /\ Data'
  <2>1. Links'
    BY <1>18, LinksUnchanged DEF Read
  <2>2. QED BY <1>18, <2>1 DEF Read, Data
<1>19. CASE \E v \in Live \cup Zeros : Valid(v) \/ String(v) \/ Len_(v) \/ Index(v) \/ IsParen(v)
  BY <1>18, <1>19 DEF Valid, String, Len_, Index, IsParen, Calls
<1>20. CASE UNCHANGED vars
  <2>1. Links'
    BY <1>20, LinksUnchanged DEF vars
  <2>2. QED BY <1>20, <2>1 DEF vars, Data
<1>21. QED
  BY <1>1, <1>2, <1>3, <1>4, <1>5, <1>6, <1>7, <1>8, <1>9, <1>10, <1>11, <1>12, <1>13,
     <1>15, <1>16, <1>17, <1>19, <1>20 DEF Next

\* Every variable keeps its type, no link of the object graph dangles, and only an
\* And or an Or is ever in the middle of a Push loop.
THEOREM TypeCorrect == Spec => []TypeOK
<1>1. IInv => TypeOK
  BY DEF IInv
<1>2. QED BY InitIInv, NextIInv, <1>1, PTL DEF Spec

\* However handles are shared and reused, a BindRuleNot holds at most one rule,
\* which is neither nil nor another BindRuleNot.
THEOREM NotHoldsOneRuleAlways == Spec => []NotHoldsOneRule
<1>1. IInv => NotHoldsOneRule
  BY DEF IInv
<1>2. QED BY InitIInv, NextIInv, <1>1, PTL DEF Spec

\* Whatever is called, an existing object keeps its type and the slice of an And or
\* Or only ever grows, at its end, and only for the receiver of the Push.
THEOREM AppendOnlyAlways == Spec => AppendOnly
<1>1. ASSUME IInv, [Next]_vars PROVE [AppendStep]_vars
  <2> USE <1>1 DEF IInv, TypeOK, AppendStep, Allocate
  <2>1. ASSUME NEW o \in Objs, NEW k \in Slices, NewSlice(o, k) PROVE AppendStep
    BY <2>1 DEF NewSlice
  <2>2. ASSUME NEW o \in Objs, NEW kw \in Keywords \cup {NoKw}, NEW op \in BOOLEAN,
               NEW ok \in BOOLEAN, NewItem(o, kw, op, ok)
        PROVE  AppendStep
    BY <2>2 DEF NewItem
  <2>3. ASSUME NEW o \in Objs, NEW x \in Values, NewNot(o, x) PROVE AppendStep
    BY <2>3 DEF NewNot
  <2>4. ASSUME NEW o \in Objs, NEW i \in Objs, NEW t \in Texts, NEW k \in Keywords,
               NewNotText(o, t, i, k)
        PROVE  AppendStep
    BY <2>4 DEF NewNotText, Texts
  <2>5. ASSUME NEW r \in Objs \cup {ZeroAnd, ZeroOr}, PushStart(r) PROVE AppendStep
    BY <2>5 DEF PushStart
  <2>6. ASSUME NEW x \in Values, PushRule(x) PROVE AppendStep
    BY <2>6 DEF PushRule
  <2>7. ASSUME NEW t \in Texts, NEW i \in Objs, NEW k \in Keywords, PushText(t, i, k)
        PROVE  AppendStep
    <3>1. kids' = kids \/ \E x \in Values : kids' = [kids EXCEPT ![loop] = Append(@, x)]
      BY <2>7, ZenonT(30) DEF PushText, Texts, Values
    <3>2. \A o \in Live : kind'[o] = kind[o]
      BY <2>7 DEF PushText, Texts
    <3>3. QED BY <3>1, <3>2
  <2>8. CASE PushEnd
    BY <2>8 DEF PushEnd
  <2>9. ASSUME NEW o \in Objs, NEW x \in Values, NotPush(o, x) PROVE AppendStep
    BY <2>9 DEF NotPush
  <2>10. ASSUME NEW o \in Objs, NEW i \in Objs, NEW t \in Texts, NEW k \in Keywords,
                NotPushText(o, t, i, k)
         PROVE  AppendStep
    BY <2>10 DEF NotPushText, Texts
  <2>11. ASSUME NEW o \in Objs, NEW b \in BOOLEAN,
                SetParen(o, b) \/ SetPaddingStyle(o, b) \/ SetQuotationStyle(o, b)
         PROVE  AppendStep
    BY <2>11 DEF SetParen, SetPaddingStyle, SetQuotationStyle
  <2>12. ASSUME NEW o \in Objs, ItemReceiver(o), UNCHANGED kids PROVE AppendStep
    BY <2>12 DEF ItemReceiver
  <2>13. CASE \E v \in Live \cup Zeros : Valid(v) \/ String(v) \/ Len_(v) \/ Index(v) \/ IsParen(v)
    BY <2>13 DEF Valid, String, Len_, Index, IsParen, Read
  <2>14. QED
    BY <2>1, <2>2, <2>3, <2>4, <2>5, <2>6, <2>7, <2>8, <2>9, <2>10, <2>11, <2>12, <2>13, ZenonT(30)
       DEF Next, SetKeyword, SetOperator, SetExpression
<1>2. QED BY InitIInv, NextIInv, <1>1, PTL DEF Spec, AppendOnly

-----------------------------------------------------------------------------
(* Faults                                                                  *)

\* A panic of Valid comes from a Not without a child or from a nil element.
LEMMA ValidPanics ==
    ASSUME IInv, NEW x \in Objs, ValidOf(x) = "panic"
    PROVE  \E o \in Objs : Hole(o)
<1>1. Visit(AllValidHere, kids, x) = "panic"
    BY DEF ValidOf, AllValidHere
<1>2. Answers(AllValidHere, kids, x, "panic")
    BY <1>1, ValidBegins, VisitHasACause DEF IInv
<1>3. PICK q \in {x} \cup Reached(LinksOf(kids), x) :
          \/ AllValidHere[q] = "panic"
          \/ \E i \in DOMAIN kids[q] : kids[q][i] \notin Objs /\ AllValidHere[kids[q][i]] = "panic"
    BY <1>2 DEF Answers
<1>4. q \in Objs /\ q \in Values /\ q # NoRule /\ q \notin Zeros
    BY LinksOfType, ReachedHolds, ConstantsAssumption DEF Values
<1>5. CASE AllValidHere[q] = "panic"
    BY <1>4, <1>5 DEF AllValidHere, ValidHere, Hole, EmptyNot
<1>6. ASSUME NEW i \in DOMAIN kids[q], kids[q][i] \notin Objs, AllValidHere[kids[q][i]] = "panic"
      PROVE  Hole(q)
    <2>1. kids[q] \in Seq(Values) /\ kids[q] # << >>
        BY <1>4, EmptyAny DEF IInv, TypeOK
    <2>2. kids[q][i] \in Values /\ 1 \in DOMAIN kids[q] /\ i \in Nat /\ i >= 1 /\ i <= Len(kids[q])
        BY <2>1, ElementOfSeq, LenProperties
    <2>3. kids[q][i] = NoRule
        BY <1>6, <2>2 DEF AllValidHere, ValidHere, Values
    <2>4. kind[q] # "not"
        <3>1. kind[q] = "not" => Len(kids[q]) <= 1 /\ kids[q][1] # NoRule
            BY <1>4, <2>1 DEF IInv, NotHoldsOneRule, OneRule
        <3>2. Len(kids[q]) <= 1 => i = 1
            BY <2>1, <2>2, LenProperties
        <3>. QED BY <2>3, <3>1, <3>2
    <2>5. kind[q] \notin {"item", "free"} /\ kind[q] \in Kinds \cup {"free"}
        BY <1>4, <2>1 DEF IInv, TypeOK
    <2>. QED BY <2>3, <2>4, <2>5 DEF Hole, Kinds, Slices
<1>. QED BY <1>3, <1>4, <1>5, <1>6

\* Valid and String do not return only over a cycle.
LEMMA VisitOverflows ==
    ASSUME NEW here, Begins(here, kids), \A v \in Values : here[v] # "overflow",
           NEW x \in Objs, kids \in SliceMaps, Visit(here, kids, x) = "overflow"
    PROVE  ~Acyclic
<1>1. ASSUME Answers(here, kids, x, "overflow") PROVE FALSE
    <2>1. PICK q \in {x} \cup Reached(LinksOf(kids), x) :
              \/ here[q] = "overflow"
              \/ \E i \in DOMAIN kids[q] : here[kids[q][i]] = "overflow"
        BY <1>1 DEF Answers
    <2>2. q \in Objs /\ q \in Values
        BY LinksOfType, ReachedHolds DEF Values
    <2>3. \A i \in DOMAIN kids[q] : kids[q][i] \in Values
        <3>1. kids[q] \in Seq(Values)
            BY <2>2 DEF SliceMaps
        <3>. QED BY <3>1, ElementOfSeq, LenProperties
    <2>. QED BY <2>1, <2>2, <2>3
<1>2. OnCycle(kids, x)
    BY <1>1, VisitHasACause
<1>3. PICK q \in {x} \cup Reached(LinksOf(kids), x) : q \in Reached(LinksOf(kids), q)
    BY <1>2 DEF OnCycle
<1>4. q \in Objs
    BY LinksOfType, ReachedHolds
<1>. QED BY <1>3, <1>4, BelowIs DEF Acyclic

AllStringHere == [w \in Values |-> StringHere(w)]

LEMMA StringBegins ==
    ASSUME TypeOK
    PROVE  Begins(AllStringHere, kids)
<1>1. ASSUME NEW v \in Values, AllStringHere[v] = "deeper" PROVE v \in Objs
    BY <1>1 DEF AllStringHere, StringHere, Values
<1>2. ASSUME NEW o \in Objs, kids[o] # << >> PROVE AllStringHere[o] = "deeper"
    <2>1. o # NoRule /\ o \notin Zeros /\ o # ZeroNot /\ o \in Values
        BY ConstantsAssumption DEF Values, Zeros
    <2>2. kind[o] # "item"
        BY <1>2 DEF TypeOK
    <2>. QED BY <2>1, <2>2 DEF AllStringHere, StringHere
<1>3. kids \in SliceMaps
    BY DEF TypeOK, SliceMaps
<1>. QED BY <1>1, <1>2, <1>3 DEF Begins

\* What is not an object answers by itself.
LEMMA VisitByItself ==
    ASSUME NEW here, NEW slices, Begins(here, slices), NEW v \in Values, here[v] # "deeper"
    PROVE  Visit(here, slices, v) = here[v]
<1>1. PICK V : /\ Visits(here, slices, Cardinality(Objs), V)
               /\ \A w : Visit(here, slices, w) = V[Cardinality(Objs)][w]
    BY VisitIs
<1>2. Cardinality(Objs) \in Nat
    BY FS_CardinalityType, ConstantsAssumption
<1>3. Cardinality(Objs) \in 0..Cardinality(Objs)
    BY <1>2
<1>4. V[Cardinality(Objs)][v] = here[v]
    BY <1>1, <1>2, <1>3, VisitsRule
<1>. QED BY <1>1, <1>4

LEMMA ZeroIsInvalid ==
    ASSUME TypeOK, NEW v \in Zeros
    PROVE  ValidOf(v) = "err"
<1>1. Begins(AllValidHere, kids) /\ v \in Values
    BY ValidBegins DEF Values
<1>2. AllValidHere[v] = "err"
    BY <1>1, ConstantsAssumption DEF AllValidHere, ValidHere
<1>3. Visit(AllValidHere, kids, v) = "err"
    BY <1>1, <1>2, VisitByItself
<1>. QED BY <1>3 DEF ValidOf, AllValidHere

LEMMA ValidFaults ==
    ASSUME IInv, NEW v \in Objs \cup Zeros
    PROVE  /\ ValidOf(v) = "panic" => \E o \in Objs : Hole(o)
           /\ ValidOf(v) = "overflow" => ~Acyclic
<1>1. Begins(AllValidHere, kids) /\ kids \in SliceMaps /\ v \in Values
    BY ValidBegins DEF IInv, TypeOK, SliceMaps, Values
<1>2. ValidOf(v) = Visit(AllValidHere, kids, v)
    BY DEF ValidOf, AllValidHere
<1>3. CASE v \in Objs
    <2>1. \A w \in Values : AllValidHere[w] # "overflow"
        BY DEF AllValidHere, ValidHere
    <2>. QED BY <1>1, <1>2, <1>3, <2>1, ValidPanics, VisitOverflows
<1>4. CASE v \notin Objs
    BY <1>4, ZeroIsInvalid DEF IInv
<1>. QED BY <1>3, <1>4

LEMMA StringOverflows ==
    ASSUME IInv, NEW v \in Objs \cup Zeros, StringOf(v) = "overflow"
    PROVE  ~Acyclic
<1>1. Begins(AllStringHere, kids) /\ kids \in SliceMaps /\ v \in Values
    BY StringBegins DEF IInv, TypeOK, SliceMaps, Values
<1>2. Visit(AllStringHere, kids, v) = "overflow"
    BY DEF StringOf, AllStringHere
<1>3. \A w \in Values : AllStringHere[w] # "overflow"
    BY DEF AllStringHere, StringHere
<1>4. CASE v \in Objs
    BY <1>1, <1>2, <1>3, <1>4, VisitOverflows
<1>5. CASE v \notin Objs
    <2>1. AllStringHere[v] # "deeper"
        BY <1>1, <1>5 DEF Begins
    <2>. QED BY <1>1, <1>2, <1>3, <2>1, VisitByItself
<1>. QED BY <1>4, <1>5

\* A cause stays where it is when a call changes no link and no kind of a live object.
LEMMA CausesStay ==
    ASSUME IInv, UNCHANGED kids, \A p \in Live : kind'[p] = kind[p]
    PROVE  /\ (\E o \in Objs : Hole(o)) => (\E o \in Objs : Hole(o))'
           /\ ~Acyclic => ~Acyclic'
<1>1. ASSUME NEW o \in Objs, Hole(o) PROVE Hole(o)'
    <2>1. kind'[o] = kind[o]
        BY <1>1 DEF Hole, EmptyNot, Live, Slices
    <2>. QED BY <1>1, <2>1 DEF Hole, EmptyNot
<1>2. Acyclic' = Acyclic
    BY DEF Acyclic, Below, Children
<1>. QED BY <1>1, <1>2

LEMMA CallHasACause ==
    ASSUME IInv, UNCHANGED kids, \A p \in Live : kind'[p] = kind[p],
           NEW call, NEW outcome, out' = Ended(call, outcome) \/ out' = <<call, outcome>>,
           outcome = "overflow" => ~Acyclic,
           outcome = "panic" /\ call \in {"Push", "Valid", "SetParen", "SetPaddingStyle", "IsParen"}
             => \E o \in Objs : Hole(o)
    PROVE  FaultsHaveACause'
<1>1. \/ out'[2] \notin {"panic", "overflow"}
      \/ out'[1] = call /\ out'[2] = outcome
    BY DEF Ended, Done
<1>2. /\ out'[2] = "overflow" => ~Acyclic'
      /\ out'[2] = "panic" /\ out'[1] \in {"Push", "Valid", "SetParen", "SetPaddingStyle", "IsParen"}
           => (\E o \in Objs : Hole(o))'
    BY <1>1, CausesStay
<1>. QED BY <1>2 DEF FaultsHaveACause

LEMMA NextFaults ==
    ASSUME IInv, FaultsHaveACause, [Next]_vars
    PROVE  FaultsHaveACause'
<1>1. ASSUME out' = Done PROVE FaultsHaveACause'
    BY <1>1 DEF Done, FaultsHaveACause
<1>2. ASSUME out' = <<"Text", "panic">> PROVE FaultsHaveACause'
    BY <1>2 DEF FaultsHaveACause
<1>3. ASSUME UNCHANGED vars PROVE FaultsHaveACause'
    BY <1>3 DEF vars, FaultsHaveACause, Acyclic, Below, Children, Hole, EmptyNot
<1>4. ASSUME NEW x \in Values, PushRule(x) PROVE FaultsHaveACause'
    <2>1. CASE ValidOf(x) = "ok"
        BY <1>1, <1>4, <2>1 DEF PushRule, Ended
    <2>2. CASE ValidOf(x) # "ok"
        <3>1. /\ UNCHANGED <<kids, kind>> /\ out' = Ended("Push", ValidOf(x))
              /\ x \in Objs \cup Zeros
            BY <1>4, <2>2 DEF PushRule, Live
        <3>. QED BY <3>1, ValidFaults, CallHasACause
    <2>. QED BY <2>1, <2>2
<1>5. ASSUME NEW o \in Objs, NEW x \in Values, NotPush(o, x) PROVE FaultsHaveACause'
    <2>. DEFINE v == IF x = NoRule THEN "err" ELSE ValidOf(x)
    <2>1. CASE v \in {"panic", "overflow"}
        <3>1. /\ UNCHANGED kids /\ out' = Ended("Push", v)
              /\ x \in Objs \cup Zeros /\ v = ValidOf(x)
            BY <1>5, <2>1 DEF NotPush, Live
        <3>2. \A p \in Live : kind'[p] = kind[p]
            BY <1>5 DEF NotPush, Allocate, Live, IInv, TypeOK
        <3>. QED BY <3>1, <3>2, ValidFaults, CallHasACause
    <2>2. CASE v \notin {"panic", "overflow"}
        BY <1>1, <1>5, <2>2 DEF NotPush, Ended
    <2>. QED BY <2>1, <2>2
<1>6. ASSUME NEW call, NEW outcome, Read(call, outcome), outcome = "overflow" => ~Acyclic,
             outcome = "panic" /\ call \in {"Valid", "IsParen"} => \E o \in Objs : Hole(o),
             call \in {"Valid", "String", "Len", "Index", "IsParen"}
      PROVE  FaultsHaveACause'
    BY <1>6, CallHasACause DEF Read
<1>7. ASSUME NEW v \in Live \cup Zeros, Valid(v) \/ String(v) \/ Len_(v) \/ Index(v) \/ IsParen(v)
      PROVE  FaultsHaveACause'
    <2>1. v \in Objs \cup Zeros
        BY DEF Live
    <2>2. EmptyNot(v) => \E o \in Objs : Hole(o)
        BY DEF EmptyNot, Hole
    <2>3. CASE Valid(v)
        BY <1>6, <2>1, <2>3, ValidFaults DEF Valid
    <2>4. CASE String(v)
        BY <1>6, <2>1, <2>4, StringOverflows DEF String
    <2>5. CASE Len_(v) \/ Index(v)
        BY <1>6, <2>5 DEF Len_, Index
    <2>6. CASE IsParen(v)
        BY <1>6, <2>2, <2>6 DEF IsParen
    <2>. QED BY <1>7, <2>3, <2>4, <2>5, <2>6
<1>8. ASSUME NEW o \in Objs, NEW b \in BOOLEAN, SetParen(o, b) PROVE FaultsHaveACause'
    <2>1. out' = <<"SetParen", "ok">> \/ (out' = <<"SetParen", "panic">> /\ Hole(o))
        BY <1>8 DEF SetParen, Hole
    <2>2. UNCHANGED <<kind, kids>>
        BY <1>8 DEF SetParen
    <2>. QED BY <2>1, <2>2, CallHasACause
<1>9. ASSUME NEW o \in Objs, NEW b \in BOOLEAN, SetPaddingStyle(o, b) PROVE FaultsHaveACause'
    <2>1. out' = Done \/ (out' = <<"SetPaddingStyle", "panic">> /\ Hole(o))
        BY <1>9 DEF SetPaddingStyle, Hole
    <2>2. UNCHANGED <<kind, kids>>
        BY <1>9 DEF SetPaddingStyle
    <2>. QED BY <1>1, <2>1, <2>2, CallHasACause
<1>10. CASE PushEnd
    BY <1>10 DEF PushEnd, Running, FaultsHaveACause
<1>11. ASSUME NEW o \in Objs, NEW i \in Objs, NEW t \in Texts, NEW k \in Keywords,
              NewNotText(o, t, i, k) \/ NotPushText(o, t, i, k)
       PROVE  FaultsHaveACause'
    <2>1. out' \in {Done, <<"Text", "panic">>}
        BY <1>11 DEF NewNotText, NotPushText, Texts
    <2>. QED BY <1>1, <1>2, <2>1
<1>. QED
    BY <1>1, <1>3, <1>4, <1>5, <1>7, <1>8, <1>9, <1>10, <1>11
       DEF Next, NewSlice, NewItem, NewNot, PushStart, PushText, SetQuotationStyle, SetKeyword,
           SetOperator, SetExpression
-----------------------------------------------------------------------------
(* Cycles                                                                  *)

\* What a step does to the links: it drops some, adds one from or to an object it has
\* just made, or lets the object c take the valid rule x.
Keeps  == \A p \in Objs : Children(p)' \subseteq Children(p)

Takes(c, x) ==
    /\ c \in Objs /\ x \in Live /\ x \in Children(c)'
    /\ \A p \in Objs : p # c => kids'[p] = kids[p]
    /\ Children(c)' \subseteq Children(c) \cup {x}

Fresh == \E c, x \in Objs :
    /\ c # x /\ (kind[c] = "free" \/ kind[x] = "free")
    /\ kind[x] = "free" => kind'[x] = "item" /\ Complete(item'[x])
    /\ \A p \in Objs : p # c => kids'[p] = kids[p]
    /\ Children(c)' \subseteq Children(c) \cup {x}

TakesValid == \E c, x \in Objs :
    /\ Takes(c, x) /\ ValidOf(x) = "ok"
    /\ kind[c] = "free" \/ UNCHANGED kind
    /\ UNCHANGED item /\ \A p \in Live : kind'[p] = kind[p]

LEMMA NextLinks ==
    ASSUME IInv, [Next]_vars
    PROVE  Keeps \/ Fresh \/ TakesValid
<1>0. ASSUME NEW i \in Objs, NEW k \in Keywords, TextItem(i, k) PROVE Complete(item'[i])
    <2>1. item'[i] = [kw |-> k, op |-> TRUE, ex |-> k]
        BY <1>0 DEF TextItem, IInv, TypeOK
    <2>. QED BY <2>1, ConstantsAssumption DEF Complete
<1>1. ASSUME UNCHANGED kids PROVE Keeps
    BY <1>1 DEF Keeps, Children
<1>2. ASSUME NEW c \in Objs, NEW x \in Values, kids' = [kids EXCEPT ![c] = <<x>>]
      PROVE  /\ \A p \in Objs : p # c => kids'[p] = kids[p]
             /\ Children(c)' = {x} \cap Objs
    BY <1>2 DEF IInv, TypeOK, Children
<1>3. ASSUME NEW c \in Objs, NEW x \in Values, kids' = [kids EXCEPT ![c] = Append(@, x)]
      PROVE  /\ \A p \in Objs : p # c => kids'[p] = kids[p]
             /\ Children(c)' = Children(c) \cup ({x} \cap Objs)
    <2>1. kids'[c] = Append(kids[c], x) /\ \A p \in Objs : p # c => kids'[p] = kids[p]
        BY <1>3 DEF IInv, TypeOK
    <2>2. kids[c] \in Seq(Values)
        BY DEF IInv, TypeOK
    <2>3. /\ DOMAIN kids'[c] = 1..(Len(kids[c]) + 1) /\ DOMAIN kids[c] = 1..Len(kids[c])
          /\ \A i \in 1..Len(kids[c]) : kids'[c][i] = kids[c][i]
          /\ kids'[c][Len(kids[c]) + 1] = x /\ Len(kids[c]) \in Nat
        <3>1. kids[c] \in Seq(Range(kids[c]))
            BY <2>2, SeqOfItsRange
        <3>. QED BY <2>1, <2>2, <3>1, AppendAny, LenProperties
    <2>4. {kids'[c][i] : i \in DOMAIN kids'[c]} = {kids[c][i] : i \in DOMAIN kids[c]} \cup {x}
        BY <2>3
    <2>. QED BY <2>1, <2>4 DEF Children
<1>4. ASSUME NEW c \in Objs, NEW x \in Zeros \cup {NoRule},
             kids' = [kids EXCEPT ![c] = <<x>>] \/ kids' = [kids EXCEPT ![c] = Append(@, x)]
      PROVE  Keeps
    <2>1. x \in Values /\ x \notin Objs
        BY ConstantsAssumption DEF Values
    <2>2. Children(c)' \subseteq Children(c) /\ \A p \in Objs : p # c => kids'[p] = kids[p]
        BY <1>2, <1>3, <1>4, <2>1
    <2>. QED BY <2>2 DEF Keeps, Children
<1>5. ASSUME NEW c \in Objs, NEW x \in Objs, c # x, kind[c] = "free" \/ kind[x] = "free",
             kind[x] = "free" => kind'[x] = "item" /\ Complete(item'[x]),
             kids' = [kids EXCEPT ![c] = <<x>>] \/ kids' = [kids EXCEPT ![c] = Append(@, x)]
      PROVE  Fresh
    <2>1. x \in Values
        BY DEF Values
    <2>. QED BY <1>2, <1>3, <1>5, <2>1 DEF Fresh
<1>6. ASSUME NEW c \in Objs, NEW x \in Objs, kind[x] # "free", ValidOf(x) = "ok",
             kind[c] = "free" \/ UNCHANGED kind, UNCHANGED item, \A p \in Live : kind'[p] = kind[p],
             kids' = [kids EXCEPT ![c] = <<x>>] \/ kids' = [kids EXCEPT ![c] = Append(@, x)]
      PROVE  TakesValid
    <2>1. x \in Values /\ x \in Live
        BY <1>6 DEF Values, Live
    <2>2. Takes(c, x)
        BY <1>2, <1>3, <1>6, <2>1 DEF Takes
    <2>. QED BY <1>6, <2>2 DEF TakesValid
<1>7. ASSUME NEW o \in Objs, NEW x \in Values, NewNot(o, x) PROVE Keeps \/ Fresh
    <2>1. kind[o] = "free" /\ x \in Live \cup Zeros \cup {NoRule} /\ kids[o] = << >>
        BY <1>7 DEF NewNot, Allocate, IInv, TypeOK
    <2>2. CASE x = NoRule \/ KindOf(x) = "not"
        <3>1. UNCHANGED kids
            BY <1>7, <2>1, <2>2 DEF NewNot, IInv, TypeOK
        <3>. QED BY <1>1, <3>1
    <2>3. CASE ~(x = NoRule \/ KindOf(x) = "not")
        <3>1. kids' = [kids EXCEPT ![o] = <<x>>]
            BY <1>7, <2>3 DEF NewNot
        <3>2. x \in Objs => x # o
            BY <2>1, ConstantsAssumption DEF Live
        <3>. QED BY <1>4, <1>5, <2>1, <3>1, <3>2 DEF Live
    <2>. QED BY <2>2, <2>3
<1>8. ASSUME NEW o \in Objs, NEW i \in Objs, NEW t \in Texts, NEW k \in Keywords, NewNotText(o, t, i, k)
      PROVE  Keeps \/ Fresh
    <2>1. CASE t = "item"
        <3>1. /\ kids' = [kids EXCEPT ![o] = <<i>>] /\ kind[i] = "free" /\ o # i
              /\ kind' = [kind EXCEPT ![o] = "not", ![i] = "item"] /\ TextItem(i, k)
            BY <1>8, <2>1 DEF NewNotText
        <3>2. kind'[i] = "item"
            BY <3>1 DEF IInv, TypeOK
        <3>. QED BY <1>5, <1>0, <3>1, <3>2
    <2>2. CASE t # "item"
        BY <1>1, <1>8, <2>2 DEF NewNotText, Texts
    <2>. QED BY <2>1, <2>2
<1>9. ASSUME NEW x \in Values, PushRule(x) PROVE Keeps \/ TakesValid
    <2>1. \/ UNCHANGED kids
          \/ ValidOf(x) = "ok" /\ kids' = [kids EXCEPT ![loop] = Append(@, x)]
        BY <1>9 DEF PushRule
    <2>2. loop \in Objs /\ UNCHANGED <<kind, item>> /\ x \in Live \cup Zeros
        BY <1>9 DEF PushRule, IInv, TypeOK
    <2>. QED BY <1>1, <1>4, <1>6, <2>1, <2>2 DEF Live
<1>10. ASSUME NEW t \in Texts, NEW i \in Objs, NEW k \in Keywords, PushText(t, i, k)
       PROVE  Keeps \/ Fresh
    <2>1. loop \in Objs /\ kind[loop] # "free"
        BY <1>10 DEF PushText, IInv, TypeOK, Slices
    <2>2. CASE t = "item"
        <3>1. /\ kids' = [kids EXCEPT ![loop] = Append(@, i)] /\ kind[i] = "free"
              /\ kind' = [kind EXCEPT ![i] = "item"] /\ TextItem(i, k)
            BY <1>10, <2>2 DEF PushText, Allocate
        <3>2. kind'[i] = "item"
            BY <3>1 DEF IInv, TypeOK
        <3>. QED BY <1>5, <1>0, <2>1, <3>1, <3>2
    <2>3. CASE t # "item"
        <3>1. UNCHANGED kids \/ kids' = [kids EXCEPT ![loop] = Append(@, NoRule)]
            BY <1>10, <2>3 DEF PushText, Texts
        <3>. QED BY <1>1, <1>4, <2>1, <3>1
    <2>. QED BY <2>2, <2>3
<1>11. ASSUME NEW o \in Objs, NEW x \in Values, NotPush(o, x) PROVE Keeps \/ TakesValid
    <2>. DEFINE v == IF x = NoRule THEN "err" ELSE ValidOf(x)
    <2>1. \/ UNCHANGED kids
          \/ x # NoRule /\ ValidOf(x) = "ok" /\ kids' = [kids EXCEPT ![o] = <<x>>]
        BY <1>11 DEF NotPush
    <2>2. (kind[o] = "free" \/ UNCHANGED kind) /\ x \in Live \cup Zeros \cup {NoRule}
        BY <1>11 DEF NotPush, Allocate
    <2>3. UNCHANGED item /\ \A p \in Live : kind'[p] = kind[p]
        BY <1>11 DEF NotPush, Allocate, Live, IInv, TypeOK
    <2>. QED BY <1>1, <1>4, <1>6, <2>1, <2>2, <2>3 DEF Live
<1>12. ASSUME NEW o \in Objs, NEW i \in Objs, NEW t \in Texts, NEW k \in Keywords, NotPushText(o, t, i, k)
       PROVE  Keeps \/ Fresh
    <2>1. kind[o] = "not" /\ "not" # "free"
        BY <1>12 DEF NotPushText
    <2>2. CASE t = "item"
        <3>1. /\ kids' = [kids EXCEPT ![o] = <<i>>] /\ kind[i] = "free"
              /\ kind' = [kind EXCEPT ![i] = "item"] /\ TextItem(i, k)
            BY <1>12, <2>2 DEF NotPushText, Allocate
        <3>2. kind'[i] = "item"
            BY <3>1 DEF IInv, TypeOK
        <3>. QED BY <1>5, <1>0, <2>1, <3>1, <3>2
    <2>3. CASE t # "item"
        BY <1>1, <1>12, <2>3 DEF NotPushText, Texts
    <2>. QED BY <2>2, <2>3
<1>. QED
    BY <1>1, <1>7, <1>8, <1>9, <1>10, <1>11, <1>12
       DEF Next, vars, NewSlice, NewItem, PushStart, PushEnd, SetParen, SetPaddingStyle,
           SetQuotationStyle, SetKeyword, SetOperator, SetExpression, Valid, String, Len_,
           Index, IsParen, Read

\* Only an object that takes a valid rule can be on a new cycle, and only when the
\* rule leads back to it.
LEMMA NoNewCycle ==
    ASSUME NEW q \in Objs, q \notin Below(q), Keeps
    PROVE  q \notin Below(q)'
<1>. DEFINE g == LinksOf(kids)
            h == LinksOf(kids')
<1>1. \A p \in Objs : h[p] \subseteq g[p]
    BY BelowIs DEF Keeps
<1>2. Reached(h, q) \subseteq Reached(g, q)
    <2>. HIDE DEF g, h
    <2>1. g \in LinkMaps /\ h \in LinkMaps
        BY LinksOfType DEF g, h
    <2>. QED BY <1>1, <2>1, FewerLinks
<1>. QED BY <1>2, BelowIs

LEMMA NewCycleThrough ==
    ASSUME NEW q \in Objs, q \notin Below(q), q \in Below(q)', NEW c \in Objs, NEW x \in Objs,
           \A p \in Objs : p # c => kids'[p] = kids[p], Children(c)' \subseteq Children(c) \cup {x}
    PROVE  c \in {x} \cup Below(x)
<1>. DEFINE g == LinksOf(kids)
            h == LinksOf(kids')
<1>1. /\ \A p \in Objs : p # c => h[p] = g[p]
      /\ h[c] \subseteq g[c] \cup {x}
    <2>1. \A p \in Objs : p # c => h[p] = g[p]
        BY DEF LinksOf
    <2>2. Children(c) = g[c] /\ Children(c)' = h[c]
        BY BelowIs
    <2>. QED BY <2>1, <2>2
<1>2. g \in LinkMaps /\ h \in LinkMaps
    BY LinksOfType
<1>3. q \in Reached(h, q) /\ q \notin Reached(g, q)
    BY BelowIs
<1>4. c \in {x} \cup Reached(g, x)
    <2>. HIDE DEF g, h
    <2>. QED BY <1>1, <1>2, <1>3, NewLinkLeadsBack
<1>. QED BY <1>4, BelowIs

LEMMA FreshClosesNone ==
    ASSUME TypeOK, NEW q \in Objs, q \notin Below(q), Fresh
    PROVE  q \notin Below(q)'
<1>. SUFFICES ASSUME q \in Below(q)' PROVE FALSE
    OBVIOUS
<1>1. PICK c \in Objs, x \in Objs :
          /\ c # x /\ (kind[c] = "free" \/ kind[x] = "free")
          /\ \A p \in Objs : p # c => kids'[p] = kids[p]
          /\ Children(c)' \subseteq Children(c) \cup {x}
    BY DEF Fresh
<1>2. c \in Below(x)
    BY <1>1, NewCycleThrough
<1>3. CASE kind[c] = "free"
    BY <1>2, <1>3, FreshIsApart
<1>4. CASE kind[x] = "free"
    <2>1. Below(x) = {}
        BY <1>4, FreshIsApart, NothingBelow, BelowIs
    <2>. QED BY <1>2, <2>1
<1>. QED BY <1>1, <1>3, <1>4

\* A cycle is closed only by an object that takes a valid rule which contains it.
LEMMA NextCycles ==
    ASSUME IInv, [Next]_vars, Acyclic, ~Acyclic'
    PROVE  /\ Live' = Live
           /\ \E o, x \in Live :
                /\ x \in Children(o)' \ Children(o)
                /\ o \in {x} \cup Below(x)
                /\ ValidOf(x) = "ok"
<1>1. PICK q \in Objs : q \in Below(q)' /\ q \notin Below(q)
    BY DEF Acyclic
<1>2. TakesValid
    BY <1>1, NextLinks, NoNewCycle, FreshClosesNone DEF IInv
<1>3. PICK c \in Objs, x \in Objs :
          /\ Takes(c, x) /\ ValidOf(x) = "ok"
          /\ kind[c] = "free" \/ UNCHANGED kind
    BY <1>2 DEF TakesValid
<1>4. c \in {x} \cup Below(x)
    BY <1>1, <1>3, NewCycleThrough DEF Takes
<1>5. kind[c] # "free"
    <2>1. kind[x] # "free"
        BY <1>3 DEF Takes, Live
    <2>2. kind[c] = "free" => c \notin Below(x)
        BY FreshIsApart DEF IInv
    <2>. QED BY <1>4, <2>1, <2>2
<1>6. Live' = Live /\ c \in Live /\ x \in Live
    BY <1>3, <1>5 DEF Live, Takes
<1>7. x \notin Children(c)
    <2>. SUFFICES ASSUME x \in Children(c) PROVE FALSE
        OBVIOUS
    <2>1. x \in LinksOf(kids)[c]
        BY BelowIs
    <2>2. x \in Reached(LinksOf(kids), c)
        BY <2>1, LinksOfType, ReachedHolds
    <2>3. Reached(LinksOf(kids), x) \subseteq Reached(LinksOf(kids), c)
        BY <2>2, LinksOfType, ReachedFurther
    <2>4. c \in Below(c)
        BY <1>4, <2>2, <2>3, BelowIs
    <2>. QED BY <2>4 DEF Acyclic
<1>. QED BY <1>3, <1>4, <1>6, <1>7 DEF Takes
-----------------------------------------------------------------------------
(* Validity                                                                *)

\* What makes an answer of Valid about p go stale.
Lost(p) == \/ ~Hole(p) /\ Hole(p)'
           \/ p \notin Below(p) /\ p \in Below(p)'
           \/ item[p].kw # NoKw /\ item'[p].kw = NoKw

LEMMA SoundIsFull ==
    ASSUME NEW p \in Objs, Sound(p)
    PROVE  ~Hole(p)
BY ConstantsAssumption DEF Sound, Hole, EmptyNot, Slices

LEMMA SoundWithChild ==
    ASSUME IInv, NEW c \in Objs, Sound(c), NEW x \in Objs, kind[c] # "item", kind'[c] = kind[c],
           kids' = [kids EXCEPT ![c] = <<x>>] \/ kids' = [kids EXCEPT ![c] = Append(@, x)]
    PROVE  Sound(c)'
<1>1. /\ kids[c] \in Seq(Values) /\ kids[c] \in Seq(Range(kids[c]))
      /\ kids'[c] = <<x>> \/ kids'[c] = Append(kids[c], x)
    <2>1. kids[c] \in Seq(Values)
        BY DEF IInv, TypeOK
    <2>. QED BY <2>1, SeqOfItsRange DEF IInv, TypeOK
<1>2. kids'[c] # << >> /\ \A i \in DOMAIN kids'[c] : kids'[c][i] \in Objs
    <2>1. CASE kids'[c] = <<x>>
        BY <2>1, SingletonAny, EmptyAny
    <2>2. CASE kids'[c] = Append(kids[c], x)
        <3>1. /\ Len(kids'[c]) = Len(kids[c]) + 1 /\ Len(kids[c]) \in Nat
              /\ DOMAIN kids'[c] = 1..(Len(kids[c]) + 1) /\ DOMAIN kids[c] = 1..Len(kids[c])
              /\ \A i \in 1..Len(kids[c]) : kids'[c][i] = kids[c][i]
              /\ kids'[c][Len(kids[c]) + 1] = x
            BY <1>1, <2>2, AppendAny, LenProperties
        <3>2. \A i \in DOMAIN kids[c] : kids[c][i] \in Objs
            BY DEF Sound
        <3>. QED BY <3>1, <3>2, EmptyAny
    <2>. QED BY <1>1, <2>1, <2>2
<1>. QED BY <1>2 DEF Sound

LEMMA SoundUnchanged ==
    ASSUME NEW p \in Objs, Sound(p), kind'[p] = kind[p], kids'[p] = kids[p], item'[p] = item[p]
    PROVE  Sound(p)'
BY DEF Sound, Complete

\* A sound object is sound after the step, or it has got a nil element, or it has lost
\* its keyword.
LEMMA NextSound ==
    ASSUME IInv, [Next]_vars, NEW p \in Objs, kind[p] # "free", Sound(p)
    PROVE  Sound(p)' \/ Lost(p)
<1>1. ASSUME UNCHANGED kids, \A q \in Live : kind'[q] = kind[q] /\ item'[q] = item[q] PROVE Sound(p)'
    BY <1>1, SoundUnchanged DEF Live
<1>2. ASSUME NEW o \in Objs, kind[o] = "free", \A q \in Objs : q # o => kids'[q] = kids[q],
             \A q \in Live : kind'[q] = kind[q] /\ item'[q] = item[q]
      PROVE  Sound(p)'
    BY <1>2, SoundUnchanged DEF Live
<1>3. ASSUME NEW o \in Objs, ItemReceiver(o), UNCHANGED kids,
             \A q \in Objs : q # o => item'[q] = item[q],
             Complete(item[o]) => Complete(item'[o]) \/ item'[o].kw = NoKw
      PROVE  Sound(p)' \/ Lost(p)
    <2>1. kind'[p] = kind[p]
        BY <1>3 DEF ItemReceiver, Allocate, IInv, TypeOK
    <2>2. CASE p # o
        BY <1>3, <2>1, <2>2, SoundUnchanged
    <2>3. CASE p = o
        <3>1. kind[p] = "item" /\ Complete(item[p])
            BY <1>3, <2>3 DEF ItemReceiver, Allocate, Sound
        <3>2. CASE Complete(item'[p])
            BY <2>1, <3>1, <3>2 DEF Sound
        <3>3. CASE item'[p].kw = NoKw
            BY <3>1, <3>3 DEF Lost, Complete
        <3>. QED BY <1>3, <2>3, <3>1, <3>2, <3>3
    <2>. QED BY <2>2, <2>3
<1>4. ASSUME NEW c \in Objs, NEW x \in Objs, kind[c] # "item",
             \A q \in Live : kind'[q] = kind[q] /\ item'[q] = item[q],
             kids' = [kids EXCEPT ![c] = <<x>>] \/ kids' = [kids EXCEPT ![c] = Append(@, x)]
      PROVE  Sound(p)'
    <2>1. CASE p = c
        BY <1>4, <2>1, SoundWithChild DEF Live
    <2>2. CASE p # c
        <3>1. kids'[p] = kids[p]
            BY <1>4, <2>2 DEF IInv, TypeOK
        <3>. QED BY <1>4, <3>1, SoundUnchanged DEF Live
    <2>. QED BY <2>1, <2>2
<1>5. ASSUME NEW o \in Objs, NEW kw \in Keywords \cup {NoKw}, NEW op \in BOOLEAN, NEW ok \in BOOLEAN,
             NewItem(o, kw, op, ok)
      PROVE  Sound(p)'
    <2>1. UNCHANGED kids /\ \A q \in Live : kind'[q] = kind[q] /\ item'[q] = item[q]
        BY <1>5 DEF NewItem, Allocate, Live, IInv, TypeOK
    <2>. QED BY <1>1, <2>1
<1>6. ASSUME NEW o \in Objs, NEW x \in Values, NewNot(o, x) PROVE Sound(p)'
    <2>1. /\ kind[o] = "free" /\ \A q \in Objs : q # o => kids'[q] = kids[q]
          /\ \A q \in Live : kind'[q] = kind[q] /\ item'[q] = item[q]
        BY <1>6 DEF NewNot, Allocate, Live, IInv, TypeOK
    <2>. QED BY <1>2, <2>1
<1>7. ASSUME NEW o \in Objs, NEW i \in Objs, NEW t \in Texts, NEW k \in Keywords, NewNotText(o, t, i, k)
      PROVE  Sound(p)'
    <2>1. kind[o] = "free" /\ kind[i] = "free"
        BY <1>7 DEF NewNotText
    <2>2. CASE t = "item"
        <3>1. /\ kids' = [kids EXCEPT ![o] = <<i>>]
              /\ kind' = [kind EXCEPT ![o] = "not", ![i] = "item"] /\ TextItem(i, k)
            BY <1>7, <2>2 DEF NewNotText
        <3>2. /\ \A q \in Objs : q # o => kids'[q] = kids[q]
              /\ \A q \in Live : kind'[q] = kind[q] /\ item'[q] = item[q]
            BY <2>1, <3>1 DEF TextItem, Live, IInv, TypeOK
        <3>. QED BY <1>2, <2>1, <3>2
    <2>3. CASE t = "bad"
        <3>1. kind' = [kind EXCEPT ![o] = "not"] /\ UNCHANGED <<kids, item>>
            BY <1>7, <2>3 DEF NewNotText
        <3>2. \A q \in Live : kind'[q] = kind[q] /\ item'[q] = item[q]
            BY <2>1, <3>1 DEF Live, IInv, TypeOK
        <3>. QED BY <1>1, <3>1, <3>2
    <2>4. CASE t = "bare"
        BY <1>1, <1>7, <2>4 DEF NewNotText
    <2>. QED BY <2>2, <2>3, <2>4 DEF Texts
<1>8. ASSUME NEW x \in Values, PushRule(x) PROVE Sound(p)'
    <2>1. CASE ValidOf(x) = "ok"
        <3>1. /\ loop \in Objs /\ kind[loop] # "item" /\ UNCHANGED <<kind, item>>
              /\ kids' = [kids EXCEPT ![loop] = Append(@, x)]
              /\ x \in Objs \cup Zeros
            BY <1>8, <2>1 DEF PushRule, IInv, TypeOK, Slices, Live
        <3>2. x \in Objs
            BY <2>1, <3>1, ZeroIsInvalid DEF IInv
        <3>. QED BY <1>4, <3>1, <3>2
    <2>2. CASE ValidOf(x) # "ok"
        BY <1>1, <1>8, <2>2 DEF PushRule
    <2>. QED BY <2>1, <2>2
<1>9. ASSUME NEW t \in Texts, NEW i \in Objs, NEW k \in Keywords, PushText(t, i, k)
      PROVE  Sound(p)' \/ Lost(p)
    <2>1. loop \in Objs /\ kind[loop] \in Slices
        BY <1>9 DEF PushText, IInv, TypeOK
    <2>2. CASE t = "item"
        <3>1. /\ kids' = [kids EXCEPT ![loop] = Append(@, i)] /\ kind[i] = "free"
              /\ kind' = [kind EXCEPT ![i] = "item"] /\ TextItem(i, k)
            BY <1>9, <2>2 DEF PushText, Allocate
        <3>2. /\ \A q \in Live : kind'[q] = kind[q] /\ item'[q] = item[q]
              /\ kind[loop] # "item"
            BY <2>1, <3>1 DEF TextItem, Live, IInv, TypeOK, Slices
        <3>. QED BY <1>4, <2>1, <3>1, <3>2
    <2>3. CASE t = "bad"
        BY <1>1, <1>9, <2>3 DEF PushText
    <2>4. CASE t = "bare"
        <3>1. kids' = [kids EXCEPT ![loop] = Append(@, NoRule)] /\ UNCHANGED <<kind, item>>
            BY <1>9, <2>4 DEF PushText
        <3>2. CASE p # loop
            <4>1. kids'[p] = kids[p]
                BY <2>1, <3>1, <3>2 DEF IInv, TypeOK
            <4>. QED BY <3>1, <4>1, SoundUnchanged
        <3>3. CASE p = loop
            <4>1. kids[p] \in Seq(Values) /\ kids[p] \in Seq(Range(kids[p])) /\ kids'[p] = Append(kids[p], NoRule)
                <5>1. kids[p] \in Seq(Values)
                    BY DEF IInv, TypeOK
                <5>. QED BY <2>1, <3>1, <3>3, <5>1, SeqOfItsRange DEF IInv, TypeOK
            <4>2. /\ DOMAIN kids'[p] = 1..(Len(kids[p]) + 1) /\ Len(kids[p]) \in Nat
                  /\ kids'[p][Len(kids[p]) + 1] = NoRule
                BY <4>1, AppendAny, LenProperties
            <4>3. Hole(p)'
                BY <2>1, <3>1, <3>3, <4>2 DEF Hole
            <4>. QED BY <4>3, SoundIsFull DEF Lost
        <3>. QED BY <3>2, <3>3
    <2>. QED BY <2>2, <2>3, <2>4 DEF Texts
<1>10. ASSUME NEW o \in Objs, NEW x \in Values, NotPush(o, x) PROVE Sound(p)'
    <2>. DEFINE v == IF x = NoRule THEN "err" ELSE ValidOf(x)
    <2>1. \A q \in Live : kind'[q] = kind[q] /\ item'[q] = item[q]
        BY <1>10 DEF NotPush, Allocate, Live, IInv, TypeOK
    <2>2. CASE v = "ok" /\ KindOf(x) # "not"
        <3>1. /\ kids' = [kids EXCEPT ![o] = <<x>>] /\ x \in Objs \cup Zeros /\ ValidOf(x) = "ok"
              /\ kind[o] # "item"
            BY <1>10, <2>2 DEF NotPush, Allocate, Live
        <3>2. x \in Objs
            BY <3>1, ZeroIsInvalid DEF IInv
        <3>. QED BY <1>4, <2>1, <3>1, <3>2
    <2>3. CASE ~(v = "ok" /\ KindOf(x) # "not")
        BY <1>1, <1>10, <2>1, <2>3 DEF NotPush
    <2>. QED BY <2>2, <2>3
<1>11. ASSUME NEW o \in Objs, NEW i \in Objs, NEW t \in Texts, NEW k \in Keywords, NotPushText(o, t, i, k)
       PROVE  Sound(p)'
    <2>1. kind[o] = "not" /\ "not" # "item"
        BY <1>11 DEF NotPushText
    <2>2. CASE t = "item"
        <3>1. /\ kids' = [kids EXCEPT ![o] = <<i>>] /\ kind[i] = "free"
              /\ kind' = [kind EXCEPT ![i] = "item"] /\ TextItem(i, k)
            BY <1>11, <2>2 DEF NotPushText, Allocate
        <3>2. \A q \in Live : kind'[q] = kind[q] /\ item'[q] = item[q]
            BY <3>1 DEF TextItem, Live, IInv, TypeOK
        <3>. QED BY <1>4, <2>1, <3>1, <3>2
    <2>3. CASE t # "item"
        BY <1>1, <1>11, <2>3 DEF NotPushText, Texts
    <2>. QED BY <2>2, <2>3
<1>12. ASSUME NEW o \in Objs, NEW kw \in Keywords \cup {NoKw}, SetKeyword(o, kw)
       PROVE  Sound(p)' \/ Lost(p)
    <2>1. /\ \A q \in Objs : q # o => item'[q] = item[q]
          /\ item'[o] = [item[o] EXCEPT !.kw = kw] /\ item[o] \in Items
        BY <1>12 DEF SetKeyword, IInv, TypeOK
    <2>2. Complete(item[o]) => Complete(item'[o]) \/ item'[o].kw = NoKw
        BY <2>1 DEF Complete, Items
    <2>. QED BY <1>3, <1>12, <2>1, <2>2 DEF SetKeyword
<1>13. ASSUME NEW o \in Objs, NEW ok \in BOOLEAN, SetOperator(o, ok) PROVE Sound(p)' \/ Lost(p)
    <2>1. /\ \A q \in Objs : q # o => item'[q] = item[q]
          /\ item'[o] = [item[o] EXCEPT !.op = @ \/ ok] /\ item[o] \in Items
        BY <1>13 DEF SetOperator, IInv, TypeOK
    <2>2. Complete(item[o]) => Complete(item'[o])
        BY <2>1 DEF Complete, Items
    <2>. QED BY <1>3, <1>13, <2>1, <2>2 DEF SetOperator
<1>14. ASSUME NEW o \in Objs, NEW ok \in BOOLEAN, SetExpression(o, ok) PROVE Sound(p)' \/ Lost(p)
    <2>1. /\ \A q \in Objs : q # o => item'[q] = item[q]
          /\ item'[o] = [item[o] EXCEPT !.ex = IF ok THEN item[o].kw ELSE @] /\ item[o] \in Items
        BY <1>14 DEF SetExpression, IInv, TypeOK
    <2>2. Complete(item[o]) => Complete(item'[o])
        BY <2>1 DEF Complete, Items
    <2>. QED BY <1>3, <1>14, <2>1, <2>2 DEF SetExpression
<1>15. ASSUME NEW o \in Objs, NEW k \in Slices, NewSlice(o, k) PROVE Sound(p)'
    <2>1. UNCHANGED <<kids, item>> /\ \A q \in Live : kind'[q] = kind[q]
        BY <1>15 DEF NewSlice, Allocate, Live, IInv, TypeOK
    <2>. QED BY <1>1, <2>1
<1>16. ASSUME NEW r \in Objs \cup {ZeroAnd, ZeroOr}, PushStart(r) PROVE Sound(p)'
    <2>1. UNCHANGED <<kids, item>> /\ \A q \in Live : kind'[q] = kind[q]
        BY <1>16 DEF PushStart, Allocate, Live, IInv, TypeOK
    <2>. QED BY <1>1, <2>1
<1>. QED
    BY <1>1, <1>5, <1>6, <1>7, <1>8, <1>9, <1>10, <1>11, <1>12, <1>13, <1>14, <1>15, <1>16
       DEF Next, vars, PushEnd, SetParen, SetPaddingStyle,
           SetQuotationStyle, Valid, String, Len_, Index, IsParen, Read

LEMMA ValidWhenSoundNext == (TypeOK => \A o \in Objs : \A S \in SUBSET Objs : OkFromBelow(o, S) => ValidOf(o) = "ok")'
BY ValidWhenSound, PTL

\* Nothing below o lost anything: then all that is below it after the step, the objects
\* the step puts there included, is sound and on no cycle.
LEMMA NextValidity ==
    ASSUME IInv, IInv', [Next]_vars, NEW o \in Live, ValidOf(o) = "ok",
           \A p \in {o} \cup Below(o) : ~Lost(p)
    PROVE  ValidOf(o)' = "ok"
<1>. DEFINE B == {o} \cup Below(o)
<1>1. o \in Objs /\ B \subseteq Objs
    BY OkBelow DEF Live, IInv
<1>2. ASSUME NEW p \in B
      PROVE  /\ p \in Objs /\ kind[p] # "free" /\ p \notin Below(p)' /\ Sound(p)'
    <2>1. p \in Objs /\ p \notin Below(p) /\ kind[p] # "free" /\ Sound(p)
        BY <1>1, OkBelow DEF IInv
    <2>2. p \notin Below(p)'
        BY <2>1 DEF Lost
    <2>3. Sound(p)'
        BY <2>1, NextSound
    <2>. QED BY <2>1, <2>2, <2>3
<1>3. ASSUME NEW p \in B PROVE Children(p) \subseteq B
    <2>1. \A q \in {o} \cup Reached(LinksOf(kids), o) : LinksOf(kids)[q] \subseteq Reached(LinksOf(kids), o)
        BY <1>1, LinksOfType, ReachedHolds
    <2>. QED BY <1>1, <2>1, BelowIs
<1>4. ASSUME NEW S \in SUBSET Objs, B \subseteq S, \A p \in S : Children(p)' \subseteq S,
             \A p \in S : p \notin B => p \notin Below(p)' /\ Sound(p)'
      PROVE  ValidOf(o)' = "ok"
    <2>1. OkFromBelow(o, S)'
        BY <1>2, <1>4 DEF OkFromBelow
    <2>. QED BY <1>1, <2>1, ValidWhenSoundNext DEF IInv
<1>. HIDE DEF B
<1>5. ASSUME NEW c \in Objs, c \notin B, \A p \in Objs : p # c => kids'[p] = kids[p]
      PROVE  ValidOf(o)' = "ok"
    <2>1. \A p \in B : Children(p)' = Children(p)
        BY <1>1, <1>5 DEF Children
    <2>. QED BY <1>1, <1>3, <1>4, <2>1
<1>6. CASE Keeps
    <2>1. \A p \in B : Children(p)' \subseteq B
        BY <1>1, <1>3, <1>6 DEF Keeps
    <2>. QED BY <1>1, <1>4, <2>1
<1>7. CASE Fresh
    <2>1. PICK c \in Objs, x \in Objs :
              /\ c # x /\ (kind[c] = "free" \/ kind[x] = "free")
              /\ kind[x] = "free" => kind'[x] = "item" /\ Complete(item'[x])
              /\ \A p \in Objs : p # c => kids'[p] = kids[p]
              /\ Children(c)' \subseteq Children(c) \cup {x}
        BY <1>7 DEF Fresh
    <2>2. CASE c \in B
        <3>1. kind[x] = "free" /\ kids[x] = << >> /\ kids'[x] = << >>
            BY <1>2, <2>1, <2>2 DEF IInv, TypeOK
        <3>2. Below(x)' = {} /\ Children(x)' = {}
            BY <3>1, NothingBelow, BelowIs, EmptyAny DEF Children
        <3>3. Sound(x)' /\ x \notin Below(x)'
            BY <2>1, <3>1, <3>2 DEF Sound
        <3>. DEFINE S == B \cup {x}
        <3>4. \A p \in S : Children(p)' \subseteq S
            <4>1. \A p \in B : p # c => Children(p)' = Children(p)
                BY <1>1, <2>1 DEF Children
            <4>. QED BY <1>3, <2>1, <2>2, <3>2, <4>1
        <3>5. S \in SUBSET Objs /\ B \subseteq S
            BY <1>1
        <3>6. \A p \in S : p \notin B => p \notin Below(p)' /\ Sound(p)'
            BY <3>3
        <3>. HIDE DEF S
        <3>. QED BY <1>4, <3>4, <3>5, <3>6
    <2>. QED BY <1>5, <2>1, <2>2
<1>8. CASE TakesValid
    <2>1. PICK c \in Objs, x \in Objs :
              /\ Takes(c, x) /\ ValidOf(x) = "ok"
              /\ UNCHANGED item /\ \A p \in Live : kind'[p] = kind[p]
        BY <1>8 DEF TakesValid
    <2>2. CASE c \in B
        <3>. DEFINE T == {x} \cup Below(x)
                    g == LinksOf(kids)
                    h == LinksOf(kids')
        <3>1. /\ g \in LinkMaps /\ h \in LinkMaps /\ x \in h[c]
              /\ \A p \in Objs : p # c => h[p] = g[p]
              /\ T = {x} \cup Reached(g, x)
            <4>1. g \in LinkMaps /\ h \in LinkMaps
                BY LinksOfType
            <4>2. x \in h[c]
                BY <2>1, BelowIs DEF Takes
            <4>3. \A p \in Objs : p # c => h[p] = g[p]
                BY <2>1 DEF Takes, LinksOf
            <4>4. T = {x} \cup Reached(g, x)
                BY BelowIs
            <4>. QED BY <4>1, <4>2, <4>3, <4>4
        <3>2. c \notin Reached(h, c)
            BY <1>2, <2>2, BelowIs
        <3>3. c \notin T
            <4>. HIDE DEF g, h, T
            <4>. QED BY <3>1, <3>2, LedBack
        <3>4. ASSUME NEW p \in T
              PROVE  /\ p \in Objs /\ p # c /\ p \notin Below(p)' /\ Sound(p)'
                     /\ Children(p)' \subseteq T
            <4>1. p \in Objs /\ p \notin Below(p) /\ kind[p] # "free" /\ Sound(p)
                BY <2>1, OkBelow DEF IInv
            <4>2. Reached(g, p) \subseteq T /\ g[p] \subseteq T
                <5>1. p \in {x} \cup Reached(g, x)
                    BY <3>1
                <5>. HIDE DEF g, T
                <5>2. Reached(g, p) \subseteq Reached(g, x) /\ g[p] \subseteq Reached(g, p)
                    BY <3>1, <4>1, <5>1, ReachedFurther, ReachedHolds
                <5>. QED BY <3>1, <5>2
            <4>3. c \notin {p} \cup Reached(g, p)
                BY <3>3, <4>2
            <4>4. Reached(h, p) = Reached(g, p)
                <5>. HIDE DEF g, h
                <5>. QED BY <3>1, <4>1, <4>3, ReachedElsewhere
            <4>5. p \notin Below(p)'
                BY <4>1, <4>4, BelowIs
            <4>6. kids'[p] = kids[p] /\ Children(p)' \subseteq T
                <5>1. kids'[p] = kids[p]
                    BY <2>1, <4>1, <4>3 DEF Takes
                <5>2. Children(p)' = g[p]
                    BY <3>1, <4>1, <4>3, BelowIs
                <5>. QED BY <4>2, <5>1, <5>2
            <4>7. Sound(p)'
                BY <2>1, <4>1, <4>6, SoundUnchanged DEF Live
            <4>. QED BY <4>1, <4>3, <4>5, <4>6, <4>7
        <3>. DEFINE S == B \cup T
        <3>. HIDE DEF T, g, h
        <3>5. \A p \in S : Children(p)' \subseteq S
            <4>1. \A p \in B : p # c => Children(p)' = Children(p)
                BY <1>1, <2>1 DEF Takes, Children
            <4>2. Children(c)' \subseteq B \cup {x}
                BY <1>3, <2>1, <2>2 DEF Takes
            <4>3. x \in T
                BY DEF T
            <4>. QED BY <1>3, <3>4, <4>1, <4>2, <4>3
        <3>6. S \in SUBSET Objs /\ B \subseteq S
            BY <1>1, <3>4
        <3>7. \A p \in S : p \notin B => p \notin Below(p)' /\ Sound(p)'
            BY <3>4
        <3>. HIDE DEF S
        <3>. QED BY <1>4, <3>5, <3>6, <3>7
    <2>. QED BY <1>5, <2>1, <2>2 DEF Takes
<1>. QED BY <1>6, <1>7, <1>8, NextLinks

-----------------------------------------------------------------------------
\* Whatever is called on however many shared objects, a call panics only over a Not
\* without a child or a nil element, and runs without end only over a cycle.
THEOREM FaultsAlwaysHaveACause == Spec => []FaultsHaveACause
<1>1. Init => FaultsHaveACause
    BY DEF Init, FaultsHaveACause, Done
<1>2. IInv /\ FaultsHaveACause /\ [Next]_vars => FaultsHaveACause'
    BY NextFaults
<1>. QED BY InitIInv, NextIInv, <1>1, <1>2, PTL DEF Spec

\* A cycle is closed only by a Push, of a rule that Valid accepts and that contains the
\* receiver or is it.
THEOREM CyclesOnlyOverValidRules == Spec => CyclesCloseOverValidRules
<1>1. ASSUME IInv, [Next]_vars
      PROVE  [Acyclic /\ ~Acyclic' =>
                /\ Live' = Live
                /\ \E o, x \in Live :
                     /\ x \in Children(o)' \ Children(o)
                     /\ o \in {x} \cup Below(x)
                     /\ ValidOf(x) = "ok"]_vars
    BY <1>1, NextCycles
<1>. QED BY InitIInv, NextIInv, <1>1, PTL DEF Spec, CyclesCloseOverValidRules

\* What Valid said of an object holds until something below it gets a nil element, is
\* put on a cycle or loses its keyword.
THEOREM ValidityKept == Spec => ValidityIsLostFor
<1>1. ASSUME IInv, IInv', [Next]_vars
      PROVE  [\A o \in Live : ValidOf(o) = "ok" /\ ValidOf(o)' # "ok" =>
                \E p \in {o} \cup Below(o) :
                   \/ ~Hole(p) /\ Hole(p)'
                   \/ p \notin Below(p) /\ p \in Below(p)'
                   \/ item[p].kw # NoKw /\ item'[p].kw = NoKw]_vars
    BY <1>1, NextValidity DEF Lost
<1>. QED BY InitIInv, NextIInv, <1>1, PTL DEF Spec, ValidityIsLostFor
=============================================================================
