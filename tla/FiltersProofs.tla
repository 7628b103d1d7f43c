---------------------------- MODULE FiltersProofs ----------------------------
(***************************************************************************)
(* Proofs about Filters, for texts of any length and any depth of nesting. *)
(*                                                                         *)
(* A fault is a cut that is out of range, or the hollow match.  That       *)
(* parseFilterAnd, parseFilterOr and parseFilterNot can cut is told by     *)
(* counting (OpenerIsNotAlone): TrimSpace leaves the balance of a text as  *)
(* it is, and an opening parenthesis alone has none.  Whether there is a   *)
(* hollow match is a matter of where a token of the text ends up, so that  *)
(* the proof keeps every text in work, the argument of the call being made *)
(* and the rest that each loop has to parse, within the text NewFilter was *)
(* given.                                                                  *)
(*                                                                         *)
(* What the parser returns is told by productions over facts: a text and   *)
(* the filter derived for it, or the filters of a list.  They are strict,  *)
(* as RFC 4515 has them, or lax, with what the parser takes beyond them.   *)
(* AcceptedHasADerivation keeps, of each frame, the text it has read and a *)
(* derivation of it (OnTrack); DerivationsAreAccepted keeps the filter it  *)
(* still owes (OnCourse), by what a derived text looks like, its balance   *)
(* above all: the parts the parser cuts are those of the derivation.       *)
(* ParsesEnd weighs what the calls under way have left to parse.           *)
(***************************************************************************)
EXTENDS Filters, SequenceLemmas

\* No token is in work that is not of the text.
Within ==
    /\ Range(arg) \subseteq Range(text)
    /\ \A i \in DOMAIN stack : Range(stack[i].rest) \subseteq Range(text)

IInv == TypeOK /\ FaultsOnlyOnHollow /\ Within

\* A stack of calls under way, whose rests are of the text.
Calls(st) ==
    /\ st \in Seq(Range(st))
    /\ \A i \in DOMAIN st : IsFrame(st[i]) /\ Range(st[i].rest) \subseteq Range(text)

-----------------------------------------------------------------------------
(* Texts                                                                   *)

LEMMA TrimPiece ==
    ASSUME NEW s \in Seq(Tokens), ~Blank(s)
    PROVE  /\ Trim(s) \in Seq(Tokens) /\ Trim(s) # << >>
           /\ Range(Trim(s)) \subseteq Range(s)
<1>. DEFINE T == {i \in DOMAIN s : s[i] # "blank"}
<1>1. Len(s) \in Nat /\ DOMAIN s = 1..Len(s)
    BY LenProperties
<1>2. T \subseteq 1..Len(s) /\ T # {}
    BY <1>1 DEF Blank
<1>3. PICK x \in T : \A y \in T : x <= y
    <2>. HIDE DEF T
    <2>. QED BY <1>1, <1>2, FirstPosition
<1>4. PICK z \in T : \A y \in T : y <= z
    <2>. HIDE DEF T
    <2>. QED BY <1>1, <1>2, LastPosition
<1>0. x \in 1..Len(s) /\ z \in 1..Len(s) /\ x \in Nat /\ z \in Nat
    BY <1>1, <1>2
<1>. DEFINE First(i) == s[i] # "blank" /\ \A j \in 1..(i - 1) : s[j] = "blank"
            Ending(i) == s[i] # "blank" /\ \A j \in (i + 1)..Len(s) : s[j] = "blank"
            a == CHOOSE i \in DOMAIN s : First(i)
            b == CHOOSE i \in DOMAIN s : Ending(i)
<1>5. x \in DOMAIN s /\ First(x)
    <2>1. \A j \in 1..(x - 1) : j \in DOMAIN s /\ ~(x <= j)
        BY <1>0, <1>1
    <2>. QED BY <1>3, <2>1
<1>6. z \in DOMAIN s /\ Ending(z)
    <2>1. \A j \in (z + 1)..Len(s) : j \in DOMAIN s /\ ~(j <= z)
        BY <1>0, <1>1
    <2>. QED BY <1>4, <2>1
<1>7. a \in DOMAIN s /\ First(a)
    <2>. HIDE DEF First
    <2>. QED BY <1>5
<1>8. b \in DOMAIN s /\ Ending(b)
    <2>. HIDE DEF Ending
    <2>. QED BY <1>6
<1>9. Trim(s) = SubSeq(s, a, b)
    BY DEF Trim
<1>. HIDE DEF a, b
<1>10. a \in 1..Len(s) /\ b \in 1..Len(s) /\ a <= b
    BY <1>1, <1>7, <1>8
<1>11. SubSeq(s, a, b) \in Seq(Tokens) /\ Range(SubSeq(s, a, b)) \subseteq Range(s)
    <2>1. a \in 1..(Len(s) + 1) /\ b \in 0..Len(s)
        BY <1>1, <1>10
    <2>. QED BY <2>1, PieceAny
<1>12. Len(SubSeq(s, a, b)) > 0
    <2>1. \A i \in a..b : s[i] \in Tokens
        BY <1>1, <1>10, ElementOfSeq
    <2>2. Len(SubSeq(s, a, b)) = IF a <= b THEN b - a + 1 ELSE 0
        BY <1>1, <1>10, <2>1, SubSeqProperties
    <2>. QED BY <1>10, <2>2
<1>13. SubSeq(s, a, b) # << >>
    <2>. DEFINE t == SubSeq(s, a, b)
    <2>1. t \in Seq(Tokens) /\ Len(t) > 0
        BY <1>11, <1>12
    <2>. HIDE DEF t
    <2>2. t # << >>
        BY <2>1
    <2>. QED BY <2>2 DEF t
<1>. QED BY <1>9, <1>11, <1>13

LEMMA InsidePiece ==
    ASSUME NEW s \in Seq(Tokens), s # << >>
    PROVE  Inside(s) \in Seq(Tokens) /\ Range(Inside(s)) \subseteq Range(s)
<1>1. Len(s) \in Nat \ {0}
    BY EmptySeq, LenProperties
<1>2. 2 \in 1..(Len(s) + 1) /\ Len(s) - 1 \in 0..Len(s)
    BY <1>1
<1>. QED BY <1>2, PieceAny DEF Inside

\* splitFilterParts finds the end of a part.
LEMMA PartEndFound ==
    ASSUME NEW s \in Seq(Tokens), s # << >>
    PROVE  PartEnd(s) \in 1..Len(s)
<1>. DEFINE T == {n \in 1..Len(s) : n = Len(s) \/ Begins(s, n + 1)}
            End(n) == /\ n = Len(s) \/ Begins(s, n + 1)
                      /\ \A i \in 2..n : ~Begins(s, i)
<1>1. Len(s) \in Nat \ {0}
    BY EmptySeq, LenProperties
<1>2. T \subseteq 1..Len(s) /\ T # {}
    BY <1>1
<1>3. PICK x \in T : \A y \in T : x <= y
    <2>. HIDE DEF T
    <2>. QED BY <1>1, <1>2, FirstPosition
<1>4. ASSUME NEW i \in 2..x, Begins(s, i) PROVE FALSE
    <2>1. i - 1 \in 1..Len(s) /\ (i - 1) + 1 = i /\ ~(x <= i - 1)
        BY <1>1, <1>2, <1>3
    <2>2. i - 1 \in T
        BY <1>4, <2>1
    <2>. QED BY <1>3, <2>1, <2>2
<1>5. x \in 1..Len(s) /\ End(x)
    BY <1>4
<1>6. (CHOOSE n \in 1..Len(s) : End(n)) \in 1..Len(s)
    <2>. HIDE DEF End
    <2>. QED BY <1>5
<1>. QED BY <1>6 DEF PartEnd

-----------------------------------------------------------------------------
(* The balance of a text                                                   *)

LEMMA OpenedClosed ==
    ASSUME NEW s, NEW n
    PROVE  Opened(s, n) = CountIn(s, Openers, n) /\ Closed(s, n) = CountIn(s, {")"}, n)
<1>1. {i \in 1..n : s[i] = ")"} = {i \in 1..n : s[i] \in {")"}}
    OBVIOUS
<1>. QED BY <1>1 DEF Opened, Closed, CountIn

\* The balance of two texts is that of one and the other.
LEMMA BalanceOfBoth ==
    ASSUME NEW u \in Seq(Tokens), NEW v \in Seq(Tokens)
    PROVE  /\ Opened(u \o v, Len(u \o v)) = Opened(u, Len(u)) + Opened(v, Len(v))
           /\ Closed(u \o v, Len(u \o v)) = Closed(u, Len(u)) + Closed(v, Len(v))
           /\ Opened(u, Len(u)) \in Nat /\ Closed(u, Len(u)) \in Nat
           /\ Opened(v, Len(v)) \in Nat /\ Closed(v, Len(v)) \in Nat
<1>1. Len(u) \in Nat /\ Len(v) \in Nat /\ Len(u \o v) = Len(u) + Len(v) /\ Len(v) \in 0..Len(v)
    BY LenProperties, ConcatProperties
<1>2. \A S : CountIn(u \o v, S, Len(u) + Len(v)) = CountIn(u, S, Len(u)) + CountIn(v, S, Len(v))
    BY <1>1, CountAfter
<1>3. \A S : CountIn(u, S, Len(u)) \in Nat /\ CountIn(v, S, Len(v)) \in Nat
    BY <1>1, CountStep
<1>. QED BY <1>1, <1>2, <1>3, OpenedClosed

LEMMA BlankIsBalanced ==
    ASSUME NEW s \in Seq(Tokens), Blank(s)
    PROVE  Opened(s, Len(s)) = 0 /\ Closed(s, Len(s)) = 0
<1>1. Len(s) \in Nat /\ DOMAIN s = 1..Len(s)
    BY LenProperties
<1>2. \A i \in 1..Len(s) : s[i] \notin Openers /\ s[i] \notin {")"}
    BY <1>1 DEF Blank, Openers
<1>. QED BY <1>1, <1>2, CountNone, OpenedClosed

LEMMA OneTokenBalance ==
    ASSUME NEW x \in Tokens
    PROVE  /\ <<x>> \in Seq(Tokens) /\ Len(<<x>>) = 1
           /\ x \in Openers => Opened(<<x>>, 1) = 1 /\ Closed(<<x>>, 1) = 0
           /\ x = ")" => Opened(<<x>>, 1) = 0 /\ Closed(<<x>>, 1) = 1
           /\ x \notin Openers \cup {")"} => Opened(<<x>>, 1) = 0 /\ Closed(<<x>>, 1) = 0
<1>1. <<x>> \in Seq(Tokens) /\ Len(<<x>>) = 1 /\ <<x>>[1] = x /\ ")" \notin Openers
    BY DEF Openers
<1>2. CountIn(<<x>>, Openers, 1) = IF x \in Openers THEN 1 ELSE 0
    <2>1. x \in Openers => CountIn(<<x>>, Openers, 1) = 1
        BY <1>1, CountFew
    <2>2. x \notin Openers => CountIn(<<x>>, Openers, 1) = 0
        BY <1>1, CountNone
    <2>. QED BY <2>1, <2>2
<1>3. CountIn(<<x>>, {")"}, 1) = IF x = ")" THEN 1 ELSE 0
    <2>1. x \in {")"} => CountIn(<<x>>, {")"}, 1) = 1
        BY <1>1, CountFew
    <2>2. x \notin {")"} => CountIn(<<x>>, {")"}, 1) = 0
        BY <1>1, CountNone
    <2>. QED BY <2>1, <2>2
<1>4. Opened(<<x>>, 1) = CountIn(<<x>>, Openers, 1) /\ Closed(<<x>>, 1) = CountIn(<<x>>, {")"}, 1)
    BY OpenedClosed
<1>. QED BY <1>1, <1>2, <1>3, <1>4

\* What TrimSpace takes away is blanks at either end.
LEMMA TrimParts ==
    ASSUME NEW s \in Seq(Tokens), ~Blank(s)
    PROVE  \E u, v \in Seq(Tokens) : s = (u \o Trim(s)) \o v /\ Blank(u) /\ Blank(v)
<1>. DEFINE T == {i \in DOMAIN s : s[i] # "blank"}
            First(i) == s[i] # "blank" /\ \A j \in 1..(i - 1) : s[j] = "blank"
            Ending(i) == s[i] # "blank" /\ \A j \in (i + 1)..Len(s) : s[j] = "blank"
            a == CHOOSE i \in DOMAIN s : First(i)
            b == CHOOSE i \in DOMAIN s : Ending(i)
<1>1. Len(s) \in Nat /\ DOMAIN s = 1..Len(s)
    BY LenProperties
<1>2. T \subseteq 1..Len(s) /\ T # {}
    BY <1>1 DEF Blank
<1>3. PICK x \in T : \A y \in T : x <= y
    <2>. HIDE DEF T
    <2>. QED BY <1>1, <1>2, FirstPosition
<1>4. PICK z \in T : \A y \in T : y <= z
    <2>. HIDE DEF T
    <2>. QED BY <1>1, <1>2, LastPosition
<1>5. x \in 1..Len(s) /\ z \in 1..Len(s)
    BY <1>1, <1>2
<1>6. x \in DOMAIN s /\ First(x)
    <2>1. \A j \in 1..(x - 1) : j \in DOMAIN s /\ ~(x <= j)
        BY <1>1, <1>5
    <2>. QED BY <1>3, <2>1
<1>7. z \in DOMAIN s /\ Ending(z)
    <2>1. \A j \in (z + 1)..Len(s) : j \in DOMAIN s /\ ~(j <= z)
        BY <1>1, <1>5
    <2>. QED BY <1>4, <2>1
<1>8. a \in DOMAIN s /\ First(a)
    <2>. HIDE DEF First
    <2>. QED BY <1>6
<1>9. b \in DOMAIN s /\ Ending(b)
    <2>. HIDE DEF Ending
    <2>. QED BY <1>7
<1>10. Trim(s) = SubSeq(s, a, b)
    BY DEF Trim
<1>. HIDE DEF a, b
<1>11. a \in 1..Len(s) /\ b \in 1..Len(s) /\ a <= b
    BY <1>1, <1>8, <1>9
<1>. DEFINE u == SubSeq(s, 1, a - 1)
            v == SubSeq(s, b + 1, Len(s))
<1>12. u \in Seq(Tokens) /\ v \in Seq(Tokens)
    <2>1. /\ 1 \in 1..(Len(s) + 1) /\ a - 1 \in 0..Len(s)
          /\ b + 1 \in 1..(Len(s) + 1) /\ Len(s) \in 0..Len(s)
        BY <1>1, <1>11
    <2>. QED BY <2>1, PieceAny
<1>13. (u \o Trim(s)) \o v = s
    <2>1. 1 \in 1..(Len(s) + 1) /\ a - 1 \in (1 - 1)..Len(s) /\ b \in (a - 1)..Len(s) /\ b \in (1 - 1)..Len(s)
          /\ Len(s) \in b..Len(s) /\ (a - 1) + 1 = a
        BY <1>1, <1>11
    <2>2. u \o SubSeq(s, (a - 1) + 1, b) = SubSeq(s, 1, b)
        BY <2>1, ConcatAdjacentSubSeq
    <2>3. SubSeq(s, 1, b) \o v = SubSeq(s, 1, Len(s))
        BY <2>1, ConcatAdjacentSubSeq
    <2>. QED BY <1>10, <2>1, <2>2, <2>3, SubSeqFull
<1>14. Blank(u)
    <2>1. \A i \in 1..(a - 1) : s[i] \in Tokens
        BY <1>1, <1>11, ElementOfSeq
    <2>2. Len(u) = (IF 1 <= a - 1 THEN (a - 1) - 1 + 1 ELSE 0) /\ \A i \in 1..((a - 1) - 1 + 1) : u[i] = s[1 + i - 1]
        BY <1>11, <2>1, SubSeqProperties
    <2>3. DOMAIN u = 1..Len(u)
        BY <1>12, LenProperties
    <2>4. \A i \in 1..(a - 1) : u[i] = "blank"
        BY <1>8, <1>11, <2>2
    <2>5. DOMAIN u \subseteq 1..(a - 1)
        BY <1>11, <2>2, <2>3
    <2>. QED BY <2>4, <2>5 DEF Blank
<1>15. Blank(v)
    <2>1. \A i \in (b + 1)..Len(s) : s[i] \in Tokens
        BY <1>1, <1>11, ElementOfSeq
    <2>2. /\ Len(v) = IF b + 1 <= Len(s) THEN Len(s) - (b + 1) + 1 ELSE 0
          /\ \A i \in 1..(Len(s) - (b + 1) + 1) : v[i] = s[(b + 1) + i - 1]
        BY <1>1, <1>11, <2>1, SubSeqProperties
    <2>3. DOMAIN v = 1..Len(v)
        BY <1>12, LenProperties
    <2>4. \A i \in 1..(Len(s) - b) : v[i] = "blank"
        <3>1. \A i \in 1..(Len(s) - b) : (b + 1) + i - 1 \in (b + 1)..Len(s) /\ i \in 1..(Len(s) - (b + 1) + 1)
            BY <1>1, <1>11
        <3>. QED BY <1>9, <2>2, <3>1
    <2>5. DOMAIN v \subseteq 1..(Len(s) - b)
        <3>1. b + 1 <= Len(s) => Len(v) = Len(s) - b
            BY <1>1, <1>11, <2>2
        <3>2. ~(b + 1 <= Len(s)) => Len(v) = 0
            BY <2>2
        <3>3. CASE b + 1 <= Len(s)
            BY <2>3, <3>1, <3>3
        <3>4. CASE ~(b + 1 <= Len(s))
            <4>1. DOMAIN v = 1..0
                BY <2>3, <3>2, <3>4
            <4>. QED BY <4>1
        <3>. QED BY <3>3, <3>4
    <2>. QED BY <2>4, <2>5 DEF Blank
<1>. QED BY <1>12, <1>13, <1>14, <1>15

\* What is left by it is as balanced, and "((" is nowhere in it if it was nowhere before.
LEMMA TrimSound ==
    ASSUME NEW s \in Seq(Tokens), ~Blank(s), Balanced(s)
    PROVE  /\ Trim(s) \in Seq(Tokens) /\ Trim(s) # << >> /\ Balanced(Trim(s))
           /\ ~Doubled(s) => ~Doubled(Trim(s))
<1>. DEFINE g == Trim(s)
<1>1. g \in Seq(Tokens) /\ g # << >>
    BY TrimPiece
<1>2. PICK u, v \in Seq(Tokens) : s = (u \o g) \o v /\ Blank(u) /\ Blank(v)
    BY TrimParts
<1>. HIDE DEF g
<1>3. u \o g \in Seq(Tokens) /\ Len(u \o g) = Len(u) + Len(g)
    BY <1>1, ConcatProperties
<1>4. Balanced(g)
    <2>1. /\ Opened(s, Len(s)) = Opened(u \o g, Len(u \o g)) + Opened(v, Len(v))
          /\ Closed(s, Len(s)) = Closed(u \o g, Len(u \o g)) + Closed(v, Len(v))
        BY <1>2, <1>3, BalanceOfBoth
    <2>2. /\ Opened(u \o g, Len(u \o g)) = Opened(u, Len(u)) + Opened(g, Len(g))
          /\ Closed(u \o g, Len(u \o g)) = Closed(u, Len(u)) + Closed(g, Len(g))
          /\ Opened(g, Len(g)) \in Nat /\ Closed(g, Len(g)) \in Nat
        BY <1>1, BalanceOfBoth
    <2>3. /\ Opened(u, Len(u)) = 0 /\ Closed(u, Len(u)) = 0
          /\ Opened(v, Len(v)) = 0 /\ Closed(v, Len(v)) = 0
        BY <1>2, BlankIsBalanced
    <2>4. Opened(s, Len(s)) = (0 + Opened(g, Len(g))) + 0 /\ Closed(s, Len(s)) = (0 + Closed(g, Len(g))) + 0
        BY <2>1, <2>2, <2>3, Zenon
    <2>5. \A n \in Nat : (0 + n) + 0 = n
        OBVIOUS
    <2>6. Opened(s, Len(s)) = Opened(g, Len(g)) /\ Closed(s, Len(s)) = Closed(g, Len(g))
        BY <2>2, <2>4, <2>5, Zenon
    <2>. QED BY <2>6, Zenon DEF Balanced
<1>5. ASSUME Doubled(g) PROVE Doubled(s)
    <2>1. PICK i \in 1..(Len(g) - 1) : g[i] = "(" /\ g[i + 1] \in Openers
        BY <1>5 DEF Doubled
    <2>2. Len(u) \in Nat /\ Len(g) \in Nat /\ Len(v) \in Nat
        BY <1>1, LenProperties
    <2>3. \A k \in 1..Len(g) : (u \o g)[Len(u) + k] = g[k]
        <3>1. \A k \in 1..Len(g) : Len(u) + k \in 1..(Len(u) + Len(g)) /\ ~(Len(u) + k <= Len(u))
                                   /\ (Len(u) + k) - Len(u) = k
            BY <2>2
        <3>. QED BY <1>1, <3>1, ConcatProperties
    <2>4. \A k \in 1..(Len(u) + Len(g)) : s[k] = (u \o g)[k]
        <3>1. \A k \in 1..(Len(u) + Len(g)) : k \in 1..(Len(u \o g) + Len(v)) /\ k <= Len(u \o g)
            BY <1>3, <2>2
        <3>. QED BY <1>2, <1>3, <3>1, ConcatProperties
    <2>5. Len(s) = (Len(u) + Len(g)) + Len(v)
        BY <1>2, <1>3, ConcatProperties
    <2>6. /\ i \in 1..Len(g) /\ i + 1 \in 1..Len(g) /\ Len(u) + i \in 1..(Len(s) - 1)
          /\ Len(u) + (i + 1) = (Len(u) + i) + 1
          /\ Len(u) + i \in 1..(Len(u) + Len(g)) /\ Len(u) + (i + 1) \in 1..(Len(u) + Len(g))
        BY <2>1, <2>2, <2>5
    <2>7. s[Len(u) + i] = "("
        BY <2>1, <2>3, <2>4, <2>6
    <2>8. s[Len(u) + (i + 1)] = g[i + 1]
        BY <2>3, <2>4, <2>6
    <2>. QED BY <2>1, <2>6, <2>7, <2>8 DEF Doubled
<1>. QED BY <1>1, <1>4, <1>5 DEF g

-----------------------------------------------------------------------------
(* What is cut is in range                                                 *)

\* A text that gets to parseFilterAnd, parseFilterOr or parseFilterNot has something
\* behind its first parenthesis: alone, that parenthesis would not be balanced.
LEMMA OpenerIsNotAlone ==
    ASSUME arg \in Seq(Tokens), Sound, Given[1] \in Openers
    PROVE  InRange(Given, 1, Len(Given) - 1)
<1>. DEFINE g == Given
<1>1. g \in Seq(Tokens) /\ g # << >> /\ Balanced(g)
    BY TrimSound DEF Sound, Given
<1>2. g[1] \in Openers
    OBVIOUS
<1>. HIDE DEF g
<1>3. Len(g) \in Nat \ {0}
    BY <1>1, EmptySeq, LenProperties
<1>4. Len(g) # 1
    <2>. SUFFICES ASSUME Len(g) = 1 PROVE FALSE
        OBVIOUS
    <2>1. 1 \in 1..1 /\ \A i \in 1..1 : i = 1
        OBVIOUS
    <2>2. CountIn(g, Openers, 1) = 1
        BY <1>1, <1>2, <2>1, CountFew
    <2>3. CountIn(g, {")"}, 1) = 0
        <3>1. \A i \in 1..1 : g[i] \notin {")"}
            BY <1>2, <2>1 DEF Openers
        <3>. QED BY <1>1, <3>1, CountNone
    <2>. QED BY <1>1, <2>2, <2>3, OpenedClosed DEF Balanced
<1>5. InRange(g, 1, Len(g) - 1)
    <2>1. \A n \in Nat \ {0} : n # 1 => 0 <= 1 /\ 1 <= n - 1 /\ n - 1 <= n
        OBVIOUS
    <2>. QED BY <1>3, <1>4, <2>1, Zenon DEF InRange
<1>. QED BY <1>5 DEF g

LEMMA CutEnters ==
    ASSUME arg \in Seq(Tokens), Sound, Given[1] \in Openers, NEW k, Cut(k)
    PROVE  Enter(k)
BY OpenerIsNotAlone DEF Cut

\* bytes.Index finds the first "=", and both sides of it can be cut.
LEMMA FirstEqualFound ==
    ASSUME NEW s \in Seq(Tokens), ~ \A i \in DOMAIN s : s[i] \notin Equals
    PROVE  /\ FirstEqual(s) \in 1..Len(s) /\ s[FirstEqual(s)] \in Equals
           /\ \A j \in 1..(FirstEqual(s) - 1) : s[j] \notin Equals
           /\ InRange(s, 0, FirstEqual(s) - 1) /\ InRange(s, FirstEqual(s), Len(s))
<1>. DEFINE T == {i \in DOMAIN s : s[i] \in Equals}
            First(i) == s[i] \in Equals /\ \A j \in 1..(i - 1) : s[j] \notin Equals
<1>1. DOMAIN s = 1..Len(s) /\ Len(s) \in Nat
    BY LenProperties
<1>2. T \subseteq 1..Len(s) /\ T # {}
    BY <1>1
<1>3. PICK x \in T : \A y \in T : x <= y
    <2>. HIDE DEF T
    <2>. QED BY <1>1, <1>2, FirstPosition
<1>4. x \in DOMAIN s /\ First(x)
    <2>1. \A j \in 1..(x - 1) : j \in DOMAIN s /\ ~(x <= j)
        BY <1>1
    <2>. QED BY <1>3, <2>1
<1>5. FirstEqual(s) = CHOOSE i \in DOMAIN s : First(i)
    BY DEF FirstEqual
<1>6. FirstEqual(s) \in DOMAIN s /\ First(FirstEqual(s))
    <2>. HIDE DEF First
    <2>. QED BY <1>4, <1>5
<1>. DEFINE e == FirstEqual(s)
<1>7. e \in 1..Len(s)
    BY <1>1, <1>6
<1>. HIDE DEF e
<1>8. InRange(s, 0, e - 1) /\ InRange(s, e, Len(s))
    BY <1>1, <1>7 DEF InRange
<1>. QED BY <1>1, <1>6, <1>8 DEF e

\* parseItemFilter faults on nothing but a hollow match.
LEMMA PanicIsHollow ==
    ASSUME NEW s \in Seq(Tokens), ItemOutcome(s) = "panic"
    PROVE  "hollow" \in Range(s)
<1>. DEFINE e == FirstEqual(s)
<1>1. e # 0
    BY DEF ItemOutcome
<1>2. ~ \A i \in DOMAIN s : s[i] \notin Equals
    BY <1>1 DEF FirstEqual
<1>3. e \in DOMAIN s /\ InRange(s, 0, e - 1) /\ InRange(s, e, Len(s))
    BY <1>2, FirstEqualFound, LenProperties
<1>4. s[e] = "hollow"
    BY <1>1, <1>3 DEF ItemOutcome
<1>. QED BY <1>3, <1>4 DEF Range

-----------------------------------------------------------------------------
(* Filters and calls                                                       *)

LEMMA FilterIsFilter ==
    ASSUME NEW c \in {"invalid", "item", "set", "not"},
           NEW t \in Seq(Tokens \cup {"objectClass=*"}),
           NEW k, k \in Seq(Range(k))
    PROVE  IsFilter(Filter(c, t, k))
BY DEF IsFilter, Filter

LEMMA Constants ==
    IsFilter(Default) /\ IsFilter(Invalid)
<1>1. <<"objectClass=*">> \in Seq(Tokens \cup {"objectClass=*"})
    OBVIOUS
<1>2. << >> \in Seq(Tokens \cup {"objectClass=*"})
    OBVIOUS
<1>. QED BY <1>1, <1>2, EmptyAny, FilterIsFilter DEF Default, Leaf, Invalid

LEMMA LeafIsFilter ==
    ASSUME NEW s \in Seq(Tokens)
    PROVE  IsFilter(Leaf(s))
<1>1. s \in Seq(Tokens \cup {"objectClass=*"})
    BY SeqMonotonic
<1>. QED BY <1>1, EmptyAny, FilterIsFilter DEF Leaf

LEMMA ComplexIsFilter ==
    ASSUME NEW k, k \in Seq(Range(k))
    PROVE  IsFilter(Set(k)) /\ IsFilter(Not(k[1]))
<1>1. << >> \in Seq(Tokens \cup {"objectClass=*"})
    OBVIOUS
<1>2. <<k[1]>> \in Seq(Range(<<k[1]>>))
    BY SingletonAny
<1>. QED BY <1>1, <1>2, FilterIsFilter DEF Set, Not

\* The frame r with other rest and kids.
LEMMA FrameWith ==
    ASSUME NEW r, IsFrame(r), NEW x, NEW k
    PROVE  /\ [r EXCEPT !.rest = x] = [kind |-> r.kind, rest |-> x, kids |-> r.kids]
           /\ [r EXCEPT !.kids = k] = [kind |-> r.kind, rest |-> r.rest, kids |-> k]
<1>1. r \in [kind : {r.kind}, rest : {r.rest}, kids : {r.kids}]
    BY DEF IsFrame
<1>. QED BY <1>1

\* The stack st with frame r in place of its innermost.
LEMMA CallsReplace ==
    ASSUME NEW st, Calls(st), st # << >>,
           NEW r, IsFrame(r), Range(r.rest) \subseteq Range(text)
    PROVE  Calls([st EXCEPT ![Len(st)] = r]) /\ [st EXCEPT ![Len(st)] = r] # << >>
<1>. DEFINE st2 == [st EXCEPT ![Len(st)] = r]
<1>1. Len(st) \in Nat \ {0} /\ DOMAIN st = 1..Len(st)
    BY EmptySeq, LenProperties DEF Calls
<1>2. Len(st) \in DOMAIN st
    BY <1>1
<1>3. /\ st2 \in Seq(Range(st2)) /\ Len(st2) = Len(st) /\ DOMAIN st2 = DOMAIN st
      /\ \A i \in DOMAIN st : st2[i] = IF i = Len(st) THEN r ELSE st[i]
    BY <1>2, ExceptAny DEF Calls
<1>. HIDE DEF st2
<1>4. ASSUME NEW i \in DOMAIN st2 PROVE IsFrame(st2[i]) /\ Range(st2[i].rest) \subseteq Range(text)
    BY <1>3 DEF Calls
<1>5. st2 # << >>
    BY <1>1, <1>3, EmptyAny
<1>. QED BY <1>3, <1>4, <1>5 DEF Calls, st2

LEMMA CallsEnter ==
    ASSUME NEW st, Calls(st), NEW r, IsFrame(r), Range(r.rest) \subseteq Range(text)
    PROVE  Calls(Append(st, r)) /\ Append(st, r) # << >>
<1>. DEFINE st2 == Append(st, r)
<1>1. Len(st) \in Nat /\ DOMAIN st = 1..Len(st)
    BY LenProperties DEF Calls
<1>2. /\ st2 \in Seq(Range(st2)) /\ Len(st2) = Len(st) + 1 /\ DOMAIN st2 = 1..(Len(st) + 1)
      /\ \A i \in 1..Len(st) : st2[i] = st[i]
      /\ st2[Len(st) + 1] = r
    BY AppendAny DEF Calls
<1>. HIDE DEF st2
<1>3. ASSUME NEW i \in DOMAIN st2 PROVE IsFrame(st2[i]) /\ Range(st2[i].rest) \subseteq Range(text)
    <2>1. CASE i = Len(st) + 1
        BY <2>1, <1>2
    <2>2. CASE i \in 1..Len(st)
        BY <2>2, <1>1, <1>2 DEF Calls
    <2>. QED BY <2>1, <2>2, <1>1, <1>2
<1>4. st2 # << >>
    BY <1>1, <1>2, EmptyAny
<1>. QED BY <1>2, <1>3, <1>4 DEF Calls, st2

LEMMA CallsLeave ==
    ASSUME NEW st, Calls(st), st # << >>, Len(st) # 1
    PROVE  Calls(Front(st)) /\ Front(st) # << >> /\ Len(Front(st)) = Len(st) - 1
<1>1. Len(st) \in Nat \ {0} /\ DOMAIN st = 1..Len(st) /\ st \in Seq(Range(st))
    BY EmptySeq, LenProperties DEF Calls
<1>2. /\ Front(st) \in Seq(Range(Front(st)))
      /\ Len(Front(st)) = Len(st) - 1
      /\ DOMAIN Front(st) = 1..(Len(st) - 1)
      /\ \A i \in 1..(Len(st) - 1) : Front(st)[i] = st[i]
    <2>1. Len(st) > 1
        BY <1>1
    <2>. QED BY <1>1, <2>1, FrontAny
<1>3. ASSUME NEW i \in DOMAIN Front(st)
      PROVE  IsFrame(Front(st)[i]) /\ Range(Front(st)[i].rest) \subseteq Range(text)
    BY <1>1, <1>2 DEF Calls
<1>4. Front(st) # << >>
    BY <1>1, <1>2, EmptyAny
<1>. QED BY <1>2, <1>3, <1>4 DEF Calls

\* A filter joins those of the innermost call.
LEMMA CallsDeliver ==
    ASSUME NEW st, Calls(st), st # << >>, NEW f, IsFilter(f)
    PROVE  LET st2 == [st EXCEPT ![Len(st)].kids = Append(@, f)]
           IN  Calls(st2) /\ st2 # << >>
<1>. DEFINE r == st[Len(st)]
            c == Append(r.kids, f)
            g == [r EXCEPT !.kids = c]
<1>1. Len(st) \in DOMAIN st
    BY EmptySeq, LenProperties DEF Calls
<1>2. IsFrame(r) /\ Range(r.rest) \subseteq Range(text)
    BY <1>1 DEF Calls
<1>3. c \in Seq(Range(c)) /\ \A i \in DOMAIN c : IsFilter(c[i])
    <2>1. r.kids \in Seq(Range(r.kids)) /\ \A i \in DOMAIN r.kids : IsFilter(r.kids[i])
        BY <1>2 DEF IsFrame
    <2>2. DOMAIN r.kids = 1..Len(r.kids) /\ Len(r.kids) \in Nat
        BY <2>1, LenProperties
    <2>3. /\ c \in Seq(Range(c)) /\ DOMAIN c = 1..(Len(r.kids) + 1)
          /\ \A i \in 1..Len(r.kids) : c[i] = r.kids[i]
          /\ c[Len(r.kids) + 1] = f
        BY <2>1, AppendAny
    <2>. HIDE DEF c, r
    <2>. QED BY <2>1, <2>2, <2>3
<1>4. g = [kind |-> r.kind, rest |-> r.rest, kids |-> c]
    <2>. HIDE DEF r, c
    <2>. QED BY <1>2, FrameWith
<1>5. IsFrame(g) /\ g.rest = r.rest
    <2>1. g.kind = r.kind /\ g.rest = r.rest /\ g.kids = c /\ g = [kind |-> g.kind, rest |-> g.rest, kids |-> g.kids]
        BY <1>4
    <2>. HIDE DEF g, c, r
    <2>. QED BY <2>1, <1>2, <1>3 DEF IsFrame
<1>6. Calls([st EXCEPT ![Len(st)] = g]) /\ [st EXCEPT ![Len(st)] = g] # << >>
    <2>. HIDE DEF g, r
    <2>. QED BY <1>2, <1>5, CallsReplace
<1>. QED BY <1>6

-----------------------------------------------------------------------------
(* The invariant                                                           *)

LEMMA InvariantCalls == IInv => Calls(stack)
BY DEF IInv, TypeOK, Within, Calls

\* A step that goes on with a stack of calls and a text of the text.
LEMMA GoesOn ==
    ASSUME IInv, UNCHANGED <<text, result>>, mode' \in {"parse", "loop"},
           NEW st, Calls(st), st # << >>, stack' = st,
           arg' \in Seq(Tokens), Range(arg') \subseteq Range(text)
    PROVE  IInv'
<1>1. TypeOK'
    BY DEF IInv, TypeOK, Calls, Final
<1>2. Within'
    BY DEF Within, Calls
<1>. QED BY <1>1, <1>2 DEF IInv, FaultsOnlyOnHollow

LEMMA Ends ==
    ASSUME IInv, UNCHANGED text, NEW m \in Final, mode' = m, IsFilter(result'),
           m = "panic" => "hollow" \in Range(text),
           UNCHANGED arg, stack' = stack \/ stack' = << >>
    PROVE  IInv'
<1>1. TypeOK'
    BY EmptyAny DEF IInv, TypeOK, Final
<1>2. Within'
    BY EmptyAny DEF IInv, Within
<1>. QED BY <1>1, <1>2 DEF IInv, FaultsOnlyOnHollow

LEMMA FailIInv == ASSUME IInv, Fail PROVE IInv'
BY Constants, Ends DEF Fail, Finish, Final

LEMMA DeliverIInv ==
    ASSUME IInv, NEW f, IsFilter(f), Deliver(f)
    PROVE  IInv'
<1>1. CASE stack = << >>
    BY <1>1, Ends DEF Deliver, Finish, Final
<1>2. CASE stack # << >>
    <2>. DEFINE st == [stack EXCEPT ![Len(stack)].kids = Append(@, f)]
    <2>1. Calls(st) /\ st # << >>
        BY <1>2, InvariantCalls, CallsDeliver
    <2>2. stack' = st /\ mode' = "loop" /\ UNCHANGED <<text, arg, result>>
        BY <1>2 DEF Deliver
    <2>3. arg' \in Seq(Tokens) /\ Range(arg') \subseteq Range(text)
        BY <2>2 DEF IInv, TypeOK, Within
    <2>. HIDE DEF st
    <2>. QED BY <2>1, <2>2, <2>3, GoesOn
<1>. QED BY <1>1, <1>2

\* What a call parses is of the text.
LEMMA GivenPiece ==
    ASSUME IInv, Sound
    PROVE  /\ Given \in Seq(Tokens) /\ Given # << >>
           /\ Range(Given) \subseteq Range(text)
<1>1. /\ Given \in Seq(Tokens) /\ Given # << >>
      /\ Range(Given) \subseteq Range(arg)
    BY TrimPiece DEF IInv, TypeOK, Sound, Given
<1>. QED BY <1>1 DEF IInv, Within

LEMMA EnterIInv ==
    ASSUME IInv, Sound, NEW k \in {"set", "not"}, Enter(k)
    PROVE  IInv'
<1>. DEFINE r == [kind |-> k, rest |-> Inside(Given), kids |-> << >>]
<1>1. /\ Inside(Given) \in Seq(Tokens)
      /\ Range(Inside(Given)) \subseteq Range(text)
    BY GivenPiece, InsidePiece
<1>2. IsFrame(r) /\ Range(r.rest) \subseteq Range(text)
    BY <1>1, EmptyAny DEF IsFrame
<1>3. Calls(Append(stack, r)) /\ Append(stack, r) # << >>
    <2>. HIDE DEF r
    <2>. QED BY <1>2, InvariantCalls, CallsEnter
<1>4. stack' = Append(stack, r) /\ mode' = "loop" /\ UNCHANGED <<text, arg, result>>
    BY DEF Enter
<1>5. arg' \in Seq(Tokens) /\ Range(arg') \subseteq Range(text)
    BY <1>4 DEF IInv, TypeOK, Within
<1>. HIDE DEF r
<1>. QED BY <1>3, <1>4, <1>5, GoesOn

LEMMA ParseItemIInv == ASSUME IInv, ParseItem PROVE IInv'
<1>1. /\ Given \in Seq(Tokens) /\ Given # << >>
      /\ Range(Given) \subseteq Range(text)
    BY GivenPiece DEF ParseItem
<1>2. CASE ItemOutcome(Given) = "error"
    BY <1>2, FailIInv DEF ParseItem
<1>3. CASE ItemOutcome(Given) = "panic"
    <2>1. Finish("panic", Invalid)
        BY <1>3 DEF ParseItem, Fault
    <2>2. "hollow" \in Range(text)
        BY <1>1, <1>3, PanicIsHollow
    <2>. QED BY <2>1, <2>2, Constants, Ends DEF Finish, Final
<1>4. CASE ItemOutcome(Given) = "muted"
    <2>1. Deliver(Invalid)
        BY <1>4 DEF ParseItem
    <2>. QED BY <2>1, Constants, DeliverIInv
<1>5. CASE ItemOutcome(Given) = "item"
    <2>1. Deliver(Leaf(Bare(Given)))
        BY <1>5 DEF ParseItem
    <2>2. Bare(Given) \in Seq(Tokens)
        BY <1>1, InsidePiece DEF Bare
    <2>. QED BY <2>1, <2>2, LeafIsFilter, DeliverIInv
<1>6. ItemOutcome(Given) \in {"error", "panic", "muted", "item"}
    BY DEF ItemOutcome
<1>. QED BY <1>2, <1>3, <1>4, <1>5, <1>6

LEMMA TopFrame ==
    ASSUME IInv, mode = "loop"
    PROVE  stack # << >> /\ IsFrame(Top) /\ Range(Top.rest) \subseteq Range(text)
<1>1. stack # << >> /\ Calls(stack)
    BY InvariantCalls DEF IInv, TypeOK
<1>2. Len(stack) \in DOMAIN stack
    BY <1>1, EmptySeq, LenProperties DEF Calls
<1>. QED BY <1>1, <1>2 DEF Calls, Top

LEMMA NextPartIInv == ASSUME IInv, NextPart PROVE IInv'
<1>1. stack # << >> /\ IsFrame(Top) /\ Range(Top.rest) \subseteq Range(text)
    BY TopFrame DEF NextPart
<1>. DEFINE n == IF Top.kind = "set" THEN PartEnd(Top.rest) ELSE Len(Top.rest)
            x == SubSeq(Top.rest, n + 1, Len(Top.rest))
            y == SubSeq(Top.rest, 1, n)
            r == [Top EXCEPT !.rest = x]
<1>2. Top.rest \in Seq(Tokens) /\ Len(Top.rest) \in Nat
    BY <1>1 DEF IsFrame
<1>3. n \in 0..Len(Top.rest)
    <2>1. CASE Top.kind = "set"
        <3>1. Top.rest # << >>
            BY <2>1 DEF NextPart, More
        <3>2. PartEnd(Top.rest) \in 1..Len(Top.rest)
            BY <1>2, <3>1, PartEndFound
        <3>. QED BY <1>2, <2>1, <3>2
    <2>2. CASE Top.kind # "set"
        BY <1>2, <2>2
    <2>. QED BY <2>1, <2>2
<1>4. /\ x \in Seq(Tokens) /\ Range(x) \subseteq Range(Top.rest)
      /\ y \in Seq(Tokens) /\ Range(y) \subseteq Range(Top.rest)
    <2>. HIDE DEF n
    <2>1. n + 1 \in 1..(Len(Top.rest) + 1) /\ Len(Top.rest) \in 0..Len(Top.rest)
        BY <1>2, <1>3
    <2>2. 1 \in 1..(Len(Top.rest) + 1)
        BY <1>2
    <2>. QED BY <1>2, <1>3, <2>1, <2>2, PieceAny
<1>5. /\ stack' = [stack EXCEPT ![Len(stack)].rest = x]
      /\ arg' = y /\ mode' = "parse" /\ UNCHANGED <<text, result>>
    BY DEF NextPart
<1>6. [stack EXCEPT ![Len(stack)].rest = x] = [stack EXCEPT ![Len(stack)] = r]
    BY DEF Top
<1>. HIDE DEF n, x, y
<1>7. r = [kind |-> Top.kind, rest |-> x, kids |-> Top.kids]
    BY <1>1, FrameWith
<1>8. IsFrame(r) /\ Range(r.rest) \subseteq Range(text)
    <2>1. r.kind = Top.kind /\ r.rest = x /\ r.kids = Top.kids /\ r = [kind |-> r.kind, rest |-> r.rest, kids |-> r.kids]
        BY <1>7
    <2>. HIDE DEF r
    <2>. QED BY <2>1, <1>1, <1>4 DEF IsFrame
<1>. DEFINE st == [stack EXCEPT ![Len(stack)] = r]
<1>9. Calls(st) /\ st # << >>
    <2>. HIDE DEF r
    <2>. QED BY <1>1, <1>8, InvariantCalls, CallsReplace
<1>. HIDE DEF st
<1>10. stack' = st
    BY <1>5, <1>6 DEF st
<1>. QED BY <1>1, <1>4, <1>5, <1>9, <1>10, GoesOn

LEMMA ReturnIInv == ASSUME IInv, Return PROVE IInv'
<1>. DEFINE f == IF Top.kind = "set" THEN Set(Top.kids) ELSE Not(Top.kids[1])
            n == Len(stack)
            st == [Front(stack) EXCEPT ![n - 1].kids = Append(@, f)]
<1>1. stack # << >> /\ IsFrame(Top) /\ Calls(stack)
    BY TopFrame, InvariantCalls DEF Return
<1>2. IsFilter(f)
    BY <1>1, ComplexIsFilter DEF IsFrame
<1>3. CASE n = 1
    <2>1. mode' = "done" /\ result' = f /\ stack' = << >> /\ UNCHANGED <<text, arg>>
        BY <1>3 DEF Return
    <2>. HIDE DEF f
    <2>. QED BY <1>2, <2>1, Ends DEF Final
<1>4. CASE n # 1
    <2>1. stack' = st /\ mode' = "loop" /\ UNCHANGED <<text, arg, result>>
        BY <1>4 DEF Return
    <2>2. Calls(Front(stack)) /\ Front(stack) # << >> /\ Len(Front(stack)) = n - 1
        BY <1>1, <1>4, CallsLeave
    <2>3. Calls(st) /\ st # << >>
        <3>. HIDE DEF f
        <3>1. LET s2 == [Front(stack) EXCEPT ![Len(Front(stack))].kids = Append(@, f)]
              IN  Calls(s2) /\ s2 # << >>
            BY <1>2, <2>2, CallsDeliver
        <3>. QED BY <2>2, <3>1
    <2>4. arg' \in Seq(Tokens) /\ Range(arg') \subseteq Range(text)
        BY <2>1 DEF IInv, TypeOK, Within
    <2>. HIDE DEF st
    <2>. QED BY <2>1, <2>3, <2>4, GoesOn
<1>. QED BY <1>3, <1>4

LEMMA InitIInv == Init => IInv
<1>. SUFFICES ASSUME Init PROVE IInv
    OBVIOUS
<1>1. text \in Seq(Tokens) /\ arg = text
    BY TextsAssumption DEF Init
<1>2. stack \in Seq(Range(stack)) /\ DOMAIN stack = {}
    BY EmptyAny DEF Init
<1>. QED BY <1>1, <1>2, Constants DEF Init, IInv, TypeOK, FaultsOnlyOnHollow, Within

LEMMA NextIInv == IInv /\ [Next]_vars => IInv'
<1>. SUFFICES ASSUME IInv, [Next]_vars PROVE IInv'
    OBVIOUS
<1>1. CASE ParseBlank
    BY <1>1, Constants, DeliverIInv DEF ParseBlank
<1>2. CASE ParseUnsound
    BY <1>2, FailIInv DEF ParseUnsound
<1>0. arg \in Seq(Tokens) /\ "(&" \in Openers /\ "(!" \in Openers
    BY DEF IInv, TypeOK, Openers
<1>3. CASE ParseSet
    <2>1. Sound /\ Enter("set")
        BY <1>0, <1>3, CutEnters DEF ParseSet
    <2>. QED BY <2>1, EnterIInv
<1>4. CASE ParseNot
    <2>1. Fail \/ (Sound /\ Enter("not"))
        BY <1>0, <1>4, CutEnters DEF ParseNot
    <2>. QED BY <2>1, EnterIInv, FailIInv
<1>5. CASE ParseItem
    BY <1>5, ParseItemIInv
<1>6. CASE NextPart
    BY <1>6, NextPartIInv
<1>7. CASE Return
    BY <1>7, ReturnIInv
<1>8. CASE UNCHANGED vars
    BY <1>8 DEF vars, IInv, TypeOK, FaultsOnlyOnHollow, Within
<1>. QED BY <1>1, <1>2, <1>3, <1>4, <1>5, <1>6, <1>7, <1>8 DEF Next

\* In the parse of any text, at any depth, every loop has a frame, what parseFilterAnd,
\* parseFilterOr, parseFilterNot and parseItemFilter cut is in range, where out of range
\* is a fault, and only an extensible match without a rule that is in the text faults.
THEOREM OnlyHollowFaults == Spec => [](TypeOK /\ FaultsOnlyOnHollow)
BY InitIInv, NextIInv, PTL DEF Spec, IInv

-----------------------------------------------------------------------------
(* Derivations                                                             *)

\* attribute "=" value
IsItem(s) == /\ s # << >> /\ s[1] \in Items
             /\ \A i \in 2..Len(s) : s[i] \in Equals \cup {"blank"} /\ s[i] # "muted"

\* A comparison whose value cannot be read.
IsUnread(s) == \E e \in DOMAIN s : /\ s[e] \in Items \cup {"muted"} /\ \A j \in 1..(e - 1) : s[j] = "("
                                   /\ \E i \in e..Len(s) : s[i] \in Openers \cup {"muted"}

Enclosed(open, s) == (<<open>> \o s) \o <<")">>

\* What follows from the facts in D: that a text is a filter, or that one is the filters of
\* a set.  These are the rules of RFC 4515, but for nots of fewer than eight characters;
\* what parseSubFilter takes beyond them is an item without its parentheses, blanks around
\* a filter or in the place of one, and a comparison whose value it cannot read.
ItemFor(x)      == \E t \in Seq(Tokens) : IsItem(t) /\ x = <<"filter", Enclosed("(", t), Leaf(t)>>
SetFor(x, D)    == \E t, fs : <<"list", t, fs>> \in D /\ x = <<"filter", Enclosed("(&", t), Set(fs)>>
NotFor(x, D)    == \E t, f : /\ <<"filter", t, f>> \in D /\ x = <<"filter", Enclosed("(!", t), Not(f)>>
                            /\ ~(Size(Enclosed("(!", t)) < 8)
EmptyFor(x)     == x = <<"list", << >>, << >> >>
MoreFor(x, D)   == \E t, fs, u, f : /\ <<"list", t, fs>> \in D /\ <<"filter", u, f>> \in D
                                   /\ x = <<"list", t \o u, Append(fs, f)>>
BareFor(x)      == \E t \in Seq(Tokens) : IsItem(t) /\ x = <<"filter", t, Leaf(t)>>
BlankFor(x)     == \E t \in Seq(Tokens) : Blank(t) /\ x = <<"filter", t, Default>>
UnreadFor(x)    == \E t \in Seq(Tokens) : /\ IsUnread(t) /\ Balanced(t) /\ ~Doubled(t)
                                         /\ x = <<"filter", t, Invalid>>
SpacedFor(x, D) == \E t, f : \E u, v \in Seq(Tokens) :
                      /\ <<"filter", t, f>> \in D /\ Blank(u) /\ Blank(v)
                      /\ x = <<"filter", (u \o t) \o v, f>>

Follows(lax, x, D) ==
    \/ ItemFor(x) \/ SetFor(x, D) \/ NotFor(x, D) \/ EmptyFor(x) \/ MoreFor(x, D)
    \/ lax /\ (BareFor(x) \/ BlankFor(x) \/ UnreadFor(x) \/ SpacedFor(x, D))

\* A derivation is a list of facts of which each follows from those before it.
Derivation(lax, d) ==
    /\ d \in Seq(Range(d))
    /\ \A i \in DOMAIN d : Follows(lax, d[i], {d[j] : j \in 1..(i - 1)})

Derivable(lax, x) == \E d : Derivation(lax, d) /\ x \in Range(d)

LEMMA FollowsMore ==
    ASSUME NEW lax, NEW x, NEW D, NEW E, D \subseteq E, Follows(lax, x, D)
    PROVE  Follows(lax, x, E)
<1>1. SetFor(x, D) => SetFor(x, E)
    BY Zenon DEF SetFor
<1>2. NotFor(x, D) => NotFor(x, E)
    BY Zenon DEF NotFor
<1>3. MoreFor(x, D) => MoreFor(x, E)
    BY Zenon DEF MoreFor
<1>4. SpacedFor(x, D) => SpacedFor(x, E)
    BY Zenon DEF SpacedFor
<1>. QED BY <1>1, <1>2, <1>3, <1>4, Zenon DEF Follows

\* Two derivations, one after the other, and what follows from a fact of each.
LEMMA DerivableFrom ==
    ASSUME NEW lax, NEW y, NEW z, Derivable(lax, y), Derivable(lax, z), NEW x, Follows(lax, x, {y, z})
    PROVE  Derivable(lax, x)
<1>1. PICK d : Derivation(lax, d) /\ y \in Range(d)
    BY DEF Derivable
<1>2. PICK e : Derivation(lax, e) /\ z \in Range(e)
    BY DEF Derivable
<1>. DEFINE S == Range(d) \cup Range(e)
            l == Len(d)
            m == Len(e)
            c == d \o e
            b == Append(c, x)
<1>3. d \in Seq(S) /\ e \in Seq(S)
    BY <1>1, <1>2, SeqMonotonic DEF Derivation
<1>4. l \in Nat /\ m \in Nat /\ DOMAIN d = 1..l /\ DOMAIN e = 1..m
    BY <1>3, LenProperties
<1>5. c \in Seq(S) /\ Len(c) = l + m /\ \A i \in 1..(l + m) : c[i] = IF i <= l THEN d[i] ELSE e[i - l]
    BY <1>3, ConcatProperties
<1>6. c \in Seq(Range(c))
    BY <1>5, SeqOfItsRange
<1>. HIDE DEF c, l, m, S
<1>7. /\ b \in Seq(Range(b)) /\ DOMAIN b = 1..(l + m + 1)
      /\ \A i \in 1..(l + m) : b[i] = c[i]
      /\ b[l + m + 1] = x
    BY <1>5, <1>6, AppendAny
<1>. HIDE DEF b
<1>8. \A i \in 1..l : b[i] = d[i]
    BY <1>4, <1>5, <1>7
<1>9. \A i \in 1..m : b[l + i] = e[i]
    <2>1. \A i \in 1..m : l + i \in 1..(l + m) /\ ~(l + i <= l) /\ (l + i) - l = i
        BY <1>4
    <2>. QED BY <1>5, <1>7, <2>1
<1>10. ASSUME NEW i \in 1..l PROVE Follows(lax, b[i], {b[j] : j \in 1..(i - 1)})
    <2>1. Follows(lax, d[i], {d[j] : j \in 1..(i - 1)})
        BY <1>1, <1>4 DEF Derivation
    <2>2. \A j \in 1..(i - 1) : j \in 1..l
        BY <1>4
    <2>3. {d[j] : j \in 1..(i - 1)} \subseteq {b[j] : j \in 1..(i - 1)}
        BY <1>8, <2>2
    <2>4. b[i] = d[i]
        BY <1>8
    <2>. QED BY <2>1, <2>3, <2>4, FollowsMore
<1>11. ASSUME NEW i \in 1..m PROVE Follows(lax, b[l + i], {b[j] : j \in 1..((l + i) - 1)})
    <2>1. Follows(lax, e[i], {e[j] : j \in 1..(i - 1)})
        BY <1>2, <1>4 DEF Derivation
    <2>2. \A j \in 1..(i - 1) : j \in 1..m /\ l + j \in 1..((l + i) - 1)
        BY <1>4
    <2>3. {e[j] : j \in 1..(i - 1)} \subseteq {b[j] : j \in 1..((l + i) - 1)}
        BY <1>9, <2>2
    <2>4. b[l + i] = e[i]
        BY <1>9
    <2>. QED BY <2>1, <2>3, <2>4, FollowsMore
<1>12. Follows(lax, b[l + m + 1], {b[j] : j \in 1..((l + m + 1) - 1)})
    <2>1. PICK i \in 1..l : y = d[i]
        BY <1>1, <1>4 DEF Range
    <2>2. PICK k \in 1..m : z = e[k]
        BY <1>2, <1>4 DEF Range
    <2>3. i \in 1..((l + m + 1) - 1) /\ l + k \in 1..((l + m + 1) - 1)
        BY <1>4
    <2>4. b[i] = y /\ b[l + k] = z
        BY <1>8, <1>9, <2>1, <2>2
    <2>5. {y, z} \subseteq {b[j] : j \in 1..((l + m + 1) - 1)}
        BY <2>3, <2>4
    <2>. QED BY <1>7, <2>5, FollowsMore
<1>13. ASSUME NEW i \in DOMAIN b PROVE Follows(lax, b[i], {b[j] : j \in 1..(i - 1)})
    <2>1. CASE i \in 1..l
        BY <1>10, <2>1
    <2>2. CASE i \in (l + 1)..(l + m)
        <3>1. i - l \in 1..m /\ l + (i - l) = i
            BY <1>4, <2>2
        <3>2. Follows(lax, b[l + (i - l)], {b[j] : j \in 1..((l + (i - l)) - 1)})
            BY <1>11, <3>1
        <3>. QED BY <3>1, <3>2
    <2>3. CASE i = l + m + 1
        BY <1>12, <2>3
    <2>4. i \in 1..l \/ i \in (l + 1)..(l + m) \/ i = l + m + 1
        BY <1>4, <1>7
    <2>. QED BY <2>1, <2>2, <2>3, <2>4
<1>14. x \in Range(b)
    <2>1. l + m + 1 \in DOMAIN b
        BY <1>4, <1>7
    <2>. QED BY <1>7, <2>1 DEF Range
<1>. QED BY <1>7, <1>13, <1>14 DEF Derivable, Derivation

LEMMA DerivableAlone ==
    ASSUME NEW lax, NEW x, Follows(lax, x, {})
    PROVE  Derivable(lax, x)
<1>. DEFINE d == <<x>>
<1>1. d \in Seq(Range(d)) /\ DOMAIN d = {1} /\ d[1] = x
    BY SingletonAny
<1>. HIDE DEF d
<1>2. {d[j] : j \in 1..(1 - 1)} = {}
    OBVIOUS
<1>3. \A i \in DOMAIN d : Follows(lax, d[i], {d[j] : j \in 1..(i - 1)})
    BY <1>1, <1>2
<1>4. x \in Range(d)
    BY <1>1 DEF Range
<1>. QED BY <1>1, <1>3, <1>4 DEF Derivable, Derivation

\* The rules, said of what is derivable.
LEMMA DerivableItem ==
    ASSUME NEW t \in Seq(Tokens), IsItem(t), NEW lax
    PROVE  Derivable(lax, <<"filter", Enclosed("(", t), Leaf(t)>>)
BY DerivableAlone, Zenon DEF Follows, ItemFor

LEMMA DerivableSet ==
    ASSUME NEW lax, NEW t, NEW fs, Derivable(lax, <<"list", t, fs>>)
    PROVE  Derivable(lax, <<"filter", Enclosed("(&", t), Set(fs)>>)
<1>. DEFINE y == <<"list", t, fs>>
            x == <<"filter", Enclosed("(&", t), Set(fs)>>
<1>0. <<"list", t, fs>> \in {y, y}
    OBVIOUS
<1>1. SetFor(x, {y, y})
    BY <1>0 DEF SetFor
<1>. HIDE DEF y
<1>2. Follows(lax, x, {y, y})
    BY <1>1 DEF Follows
<1>. HIDE DEF x
<1>3. Derivable(lax, x)
    BY <1>2, DerivableFrom DEF y
<1>. QED BY <1>3 DEF x

LEMMA DerivableNot ==
    ASSUME NEW lax, NEW t, NEW f, Derivable(lax, <<"filter", t, f>>), ~(Size(Enclosed("(!", t)) < 8)
    PROVE  Derivable(lax, <<"filter", Enclosed("(!", t), Not(f)>>)
<1>. DEFINE y == <<"filter", t, f>>
            x == <<"filter", Enclosed("(!", t), Not(f)>>
<1>1. NotFor(x, {y, y})
    BY Zenon DEF NotFor
<1>. HIDE DEF y
<1>2. Follows(lax, x, {y, y})
    BY <1>1 DEF Follows
<1>. HIDE DEF x
<1>3. Derivable(lax, x)
    BY <1>2, DerivableFrom DEF y
<1>. QED BY <1>3 DEF x

LEMMA DerivableList ==
    ASSUME NEW lax
    PROVE  /\ Derivable(lax, <<"list", << >>, << >> >>)
           /\ \A t, fs, u, f : Derivable(lax, <<"list", t, fs>>) /\ Derivable(lax, <<"filter", u, f>>)
                 => Derivable(lax, <<"list", t \o u, Append(fs, f)>>)
<1>1. Derivable(lax, <<"list", << >>, << >> >>)
    BY DerivableAlone, Zenon DEF Follows, EmptyFor
<1>2. ASSUME NEW t, NEW fs, NEW u, NEW f, Derivable(lax, <<"list", t, fs>>), Derivable(lax, <<"filter", u, f>>)
      PROVE  Derivable(lax, <<"list", t \o u, Append(fs, f)>>)
    <2>. DEFINE y == <<"list", t, fs>>
                z == <<"filter", u, f>>
                x == <<"list", t \o u, Append(fs, f)>>
    <2>1. MoreFor(x, {y, z})
        BY Zenon DEF MoreFor
    <2>. HIDE DEF y, z
    <2>2. Follows(lax, x, {y, z})
        BY <2>1 DEF Follows
    <2>. HIDE DEF x
    <2>3. Derivable(lax, x)
        BY <1>2, <2>2, DerivableFrom DEF y, z
    <2>. QED BY <2>3 DEF x
<1>. QED BY <1>1, <1>2

LEMMA DerivableSpaced ==
    ASSUME NEW t, NEW f, Derivable(TRUE, <<"filter", t, f>>),
           NEW u \in Seq(Tokens), NEW v \in Seq(Tokens), Blank(u), Blank(v)
    PROVE  Derivable(TRUE, <<"filter", (u \o t) \o v, f>>)
<1>. DEFINE y == <<"filter", t, f>>
            x == <<"filter", (u \o t) \o v, f>>
<1>1. SpacedFor(x, {y, y})
    BY Zenon DEF SpacedFor
<1>. HIDE DEF y
<1>2. Follows(TRUE, x, {y, y})
    BY <1>1 DEF Follows
<1>. HIDE DEF x
<1>3. Derivable(TRUE, x)
    BY <1>2, DerivableFrom DEF y
<1>. QED BY <1>3 DEF x

-----------------------------------------------------------------------------
(* What parseItemFilter takes                                              *)

LEMMA KindsOfTokens ==
    /\ "(" \notin Equals /\ ")" \notin Equals /\ "blank" \notin Equals /\ "(" \in Openers /\ ")" \notin Openers
    /\ \A x \in Equals : x \notin {"refused", "hollow"} => x \in Items \cup {"muted"}
    /\ \A x \in Tokens : x \notin Openers /\ x # ")" => x \in Equals \cup {"blank"}
    /\ \A x \in Equals : x \in Tokens /\ x \notin Openers /\ x # ")"
    /\ "(" \in Tokens /\ ")" \in Tokens /\ "(&" \in Tokens /\ "(!" \in Tokens
    /\ "(&" \in Openers /\ "(!" \in Openers
BY ItemsAssumption DEF Equals, Openers, Tokens

\* What parseItemFilter accepts is a comparison, in parentheses or not.
LEMMA ItemAccepted ==
    ASSUME NEW g \in Seq(Tokens), g # << >>, Balanced(g), ~Doubled(g), g[1] \notin {"(&", "(!"},
           ItemOutcome(g) = "item"
    PROVE  /\ IsItem(Bare(g)) /\ Bare(g) \in Seq(Tokens)
           /\ g = Bare(g) \/ g = Enclosed("(", Bare(g))
<1>. DEFINE e == FirstEqual(g)
<1>1. /\ ~ \A i \in DOMAIN g : g[i] \notin Equals
      /\ (g[1] = "(") = (g[Len(g)] = ")")
      /\ ~(g[e] = "refused" \/ \E i \in 1..(e - 1) : g[i] # "(")
      /\ g[e] # "hollow"
      /\ ~ \E i \in e..Len(g) : g[i] \in Openers \cup {"muted"}
    BY DEF ItemOutcome, FirstEqual
<1>2. e \in 1..Len(g) /\ g[e] \in Equals
    BY <1>1, FirstEqualFound
<1>. HIDE DEF e
<1>3. Len(g) \in Nat /\ Len(g) >= 1 /\ \A i \in 1..Len(g) : g[i] \in Tokens
    BY <1>2, LenProperties, ElementOfSeq
<1>4. g[e] \in Items /\ g[e] # "muted"
    <2>1. e \in e..Len(g)
        BY <1>2, <1>3
    <2>. QED BY <1>1, <1>2, <2>1, KindsOfTokens
<1>5. /\ \A i \in 1..(e - 1) : g[i] = "("
      /\ \A i \in e..Len(g) : g[i] \notin Openers /\ g[i] # "muted"
    BY <1>1
<1>6. Opened(g, Len(g)) = CountIn(g, Openers, Len(g)) /\ Closed(g, Len(g)) = CountIn(g, {")"}, Len(g))
      /\ CountIn(g, Openers, Len(g)) = CountIn(g, {")"}, Len(g))
    BY OpenedClosed DEF Balanced
<1>7. CASE g[1] = "("
    <2>1. e = 2
        <3>1. e # 1
            BY <1>2, <1>7, KindsOfTokens
        <3>2. CASE e > 2
            <4>1. 1 \in 1..(Len(g) - 1) /\ 2 \in 1..(e - 1)
                BY <1>2, <1>3, <3>2
            <4>2. g[1] = "(" /\ g[1 + 1] \in Openers
                BY <1>5, <1>7, <4>1, KindsOfTokens
            <4>. QED BY <4>1, <4>2 DEF Doubled
        <3>. QED BY <1>2, <3>1, <3>2
    <2>2. g[Len(g)] = ")" /\ Len(g) \in 3..Len(g)
        <3>1. g[Len(g)] = ")"
            BY <1>1, <1>7
        <3>2. Len(g) # 2
            BY <1>2, <2>1, <3>1, KindsOfTokens
        <3>3. Len(g) >= 2
            BY <1>2, <1>3, <2>1
        <3>4. \A n \in Nat : n >= 2 /\ n # 2 => n \in 3..n
            OBVIOUS
        <3>5. Len(g) \in Nat
            BY <1>3
        <3>6. Len(g) \in 3..Len(g)
            BY <3>2, <3>3, <3>4, <3>5, Zenon
        <3>. QED BY <3>1, <3>6
    <2>3. CountIn(g, Openers, Len(g)) = 1
        <3>1. \A i \in 1..Len(g) : g[i] \in Openers => i = 1
            BY <1>3, <1>5, <2>1
        <3>2. 1 \in 1..Len(g) /\ g[1] \in Openers
            BY <1>3, <1>7, KindsOfTokens
        <3>. QED BY <1>3, <3>1, <3>2, CountFew
    <2>4. \A i \in 1..(Len(g) - 1) : g[i] # ")"
        <3>. SUFFICES ASSUME NEW i \in 1..(Len(g) - 1), g[i] = ")" PROVE FALSE
            OBVIOUS
        <3>1. /\ Len(g) \in 1..Len(g) /\ g[Len(g)] \in {")"} /\ i \in 1..Len(g) /\ g[i] \in {")"} /\ i # Len(g)
            BY <1>3, <2>2
        <3>2. CountIn(g, {")"}, Len(g)) >= 2
            BY <1>3, <3>1, CountFew
        <3>. QED BY <1>6, <2>3, <3>2
    <2>5. Bare(g) = SubSeq(g, 2, Len(g) - 1)
        BY <1>7 DEF Bare, Inside
    <2>. DEFINE t == SubSeq(g, 2, Len(g) - 1)
    <2>6. /\ t \in Seq(Tokens) /\ Len(t) = Len(g) - 2
          /\ \A i \in 1..(Len(g) - 2) : t[i] = g[i + 1]
        <3>1. 2 \in Int /\ Len(g) - 1 \in Int /\ \A i \in 2..(Len(g) - 1) : g[i] \in Tokens
            BY <1>3, <2>2
        <3>2. /\ SubSeq(g, 2, Len(g) - 1) \in Seq(Tokens)
              /\ Len(SubSeq(g, 2, Len(g) - 1)) = IF 2 <= Len(g) - 1 THEN (Len(g) - 1) - 2 + 1 ELSE 0
              /\ \A i \in 1..((Len(g) - 1) - 2 + 1) : SubSeq(g, 2, Len(g) - 1)[i] = g[2 + i - 1]
            BY <3>1, SubSeqProperties
        <3>. QED BY <2>2, <3>2
    <2>. HIDE DEF t
    <2>7. t # << >> /\ t[1] \in Items
        <3>1. 1 \in 1..(Len(g) - 2)
            BY <2>2
        <3>2. t # << >>
            BY <2>2, <2>6, EmptySeq
        <3>. QED BY <1>4, <2>1, <2>6, <3>1, <3>2
    <2>8. \A i \in 2..Len(t) : t[i] \in Equals \cup {"blank"} /\ t[i] # "muted"
        <3>. SUFFICES ASSUME NEW i \in 2..Len(t) PROVE t[i] \in Equals \cup {"blank"} /\ t[i] # "muted"
            OBVIOUS
        <3>1. i \in 1..(Len(g) - 2) /\ i + 1 \in e..Len(g) /\ i + 1 \in 1..(Len(g) - 1) /\ i + 1 \in 1..Len(g)
            BY <1>3, <2>1, <2>6
        <3>2. t[i] = g[i + 1] /\ g[i + 1] \in Tokens /\ g[i + 1] \notin Openers /\ g[i + 1] # "muted" /\ g[i + 1] # ")"
            BY <1>3, <1>5, <2>4, <2>6, <3>1
        <3>. QED BY <3>2, KindsOfTokens
    <2>9. IsItem(t)
        BY <2>7, <2>8 DEF IsItem
    <2>10. g = Enclosed("(", t)
        <3>1. 1 \in 1..Len(g) /\ Len(g) \in (1 + 1)..Len(g)
            BY <1>3, <2>2
        <3>2. (<<g[1]>> \o SubSeq(g, 1 + 1, Len(g) - 1)) \o <<g[Len(g)]>> = SubSeq(g, 1, Len(g))
            BY <3>1, PieceBetween
        <3>. QED BY <1>7, <2>2, <3>2, SubSeqFull DEF Enclosed, t
    <2>. QED BY <2>5, <2>6, <2>9, <2>10 DEF t
<1>8. CASE g[1] # "("
    <2>1. e = 1
        <3>1. e # 1 => 1 \in 1..(e - 1)
            BY <1>2
        <3>. QED BY <1>5, <1>8, <3>1
    <2>2. CountIn(g, Openers, Len(g)) = 0
        BY <1>3, <1>5, <2>1, CountNone
    <2>3. \A i \in 1..Len(g) : g[i] # ")"
        <3>. SUFFICES ASSUME NEW i \in 1..Len(g), g[i] = ")" PROVE FALSE
            OBVIOUS
        <3>1. CountIn(g, {")"}, Len(g)) # 0
            <4>1. \A j \in 1..Len(g) : g[j] \in {")"} /\ j # i => CountIn(g, {")"}, Len(g)) >= 2
                BY <1>3, CountFew
            <4>2. (\A j \in 1..Len(g) : g[j] \in {")"} => j = i) => CountIn(g, {")"}, Len(g)) = 1
                BY <1>3, CountFew
            <4>. QED BY <4>1, <4>2
        <3>. QED BY <1>6, <2>2, <3>1
    <2>4. IsItem(g)
        <3>1. \A i \in 2..Len(g) : g[i] \in Equals \cup {"blank"} /\ g[i] # "muted"
            <4>. SUFFICES ASSUME NEW i \in 2..Len(g) PROVE g[i] \in Equals \cup {"blank"} /\ g[i] # "muted"
                OBVIOUS
            <4>1. i \in 1..Len(g) /\ i \in e..Len(g)
                BY <1>3, <2>1
            <4>2. g[i] \in Tokens /\ g[i] \notin Openers /\ g[i] # "muted" /\ g[i] # ")"
                BY <1>3, <1>5, <2>3, <4>1
            <4>. QED BY <4>2, KindsOfTokens
        <3>. QED BY <1>4, <2>1, <3>1 DEF IsItem
    <2>. QED BY <1>8, <2>4 DEF Bare
<1>. QED BY <1>7, <1>8

\* And one it cannot read the value of is a comparison all the same.
LEMMA ItemUnread ==
    ASSUME NEW g \in Seq(Tokens), ItemOutcome(g) = "muted"
    PROVE  IsUnread(g)
<1>. DEFINE e == FirstEqual(g)
<1>1. /\ ~ \A i \in DOMAIN g : g[i] \notin Equals
      /\ ~(g[e] = "refused" \/ \E i \in 1..(e - 1) : g[i] # "(")
      /\ g[e] # "hollow"
      /\ \E i \in e..Len(g) : g[i] \in Openers \cup {"muted"}
    BY DEF ItemOutcome, FirstEqual
<1>2. e \in DOMAIN g /\ g[e] \in Equals
    BY <1>1, FirstEqualFound, LenProperties
<1>. HIDE DEF e
<1>3. g[e] \in Items \cup {"muted"}
    BY <1>1, <1>2, KindsOfTokens
<1>. QED BY <1>1, <1>2, <1>3 DEF IsUnread

-----------------------------------------------------------------------------
(* What is accepted has a derivation                                       *)

OpenerOf(kind) == IF kind = "set" THEN "(&" ELSE "(!"

\* The frame r was made for the text a: done is what it has read of it, part what it has
\* given to the call above, if it is waiting for one, and last its last token.
Doing(r, a, done, last, part, waiting) ==
    /\ a \in Seq(Tokens) /\ done \in Seq(Tokens) /\ last \in Tokens
    /\ ~Blank(a) /\ Balanced(a)
    /\ Trim(a) = (<<OpenerOf(r.kind)>> \o ((done \o part) \o r.rest)) \o <<last>>
    /\ r.kind = "set" => Derivable(TRUE, <<"list", done, r.kids>>) /\ Balanced(done)
    /\ r.kind = "not" =>
         /\ ~(Size(Trim(a)) < 8)
         /\ \/ done = << >> /\ r.kids = << >> /\ (waiting => r.rest = << >>)
            \/ /\ ~waiting /\ r.rest = << >> /\ Balanced(done)
               /\ \E f : r.kids = <<f>> /\ Derivable(TRUE, <<"filter", done, f>>)

Waiting(m, n, i) == i < n \/ m = "parse"
Parted(m, n, a, i) == IF Waiting(m, n, i) THEN a[i + 1] ELSE << >>

\* The stack st, of calls for the texts a, the first of which is the whole; if one is being made, it is for the last of them.
Tracked(whole, m, st, a, done, last) ==
    /\ a[1] = whole
    /\ \A i \in 1..Len(st) :
          Doing(st[i], a[i], done[i], last[i], Parted(m, Len(st), a, i), Waiting(m, Len(st), i))

Tracks(whole, m, st, part) ==
    \E a, done, last : /\ Tracked(whole, m, st, a, done, last)
                       /\ m = "parse" => a[Len(st) + 1] = part

OnTrack == mode \notin Final => Tracks(text, mode, stack, arg)

\* The answer to the call a frame is waiting for.
LEMMA Answered ==
    ASSUME NEW r, IsFrame(r), NEW a, NEW done, NEW last, NEW part \in Seq(Tokens), NEW f,
           Doing(r, a, done, last, part, TRUE), Balanced(part), Derivable(TRUE, <<"filter", part, f>>),
           NEW g, g.kind = r.kind, g.rest = r.rest, g.kids = Append(r.kids, f)
    PROVE  Doing(g, a, done \o part, last, << >>, FALSE)
<1>1. /\ a \in Seq(Tokens) /\ done \in Seq(Tokens) /\ last \in Tokens /\ ~Blank(a) /\ Balanced(a)
      /\ Trim(a) = (<<OpenerOf(r.kind)>> \o ((done \o part) \o r.rest)) \o <<last>>
    BY DEF Doing
<1>2. done \o part \in Seq(Tokens) /\ (done \o part) \o << >> = done \o part
    BY <1>1, ConcatProperties, ConcatEmptySeq
<1>3. Balanced(done) => Balanced(done \o part)
    <2>. SUFFICES ASSUME Balanced(done) PROVE Balanced(done \o part)
        OBVIOUS
    <2>1. /\ Opened(done \o part, Len(done \o part)) = Opened(done, Len(done)) + Opened(part, Len(part))
          /\ Closed(done \o part, Len(done \o part)) = Closed(done, Len(done)) + Closed(part, Len(part))
        BY <1>1, BalanceOfBoth
    <2>. QED BY <2>1 DEF Balanced
<1>4. ASSUME r.kind = "set"
      PROVE  Derivable(TRUE, <<"list", done \o part, g.kids>>) /\ Balanced(done \o part)
    <2>1. Derivable(TRUE, <<"list", done, r.kids>>) /\ Balanced(done)
        BY <1>4 DEF Doing
    <2>. QED BY <1>3, <2>1, DerivableList
<1>5. ASSUME r.kind = "not"
      PROVE  /\ ~(Size(Trim(a)) < 8) /\ g.rest = << >> /\ Balanced(done \o part)
             /\ \E h : g.kids = <<h>> /\ Derivable(TRUE, <<"filter", done \o part, h>>)
    <2>1. ~(Size(Trim(a)) < 8) /\ done = << >> /\ r.kids = << >> /\ r.rest = << >>
        BY <1>5 DEF Doing
    <2>2. done \o part = part
        BY <2>1, ConcatEmptySeq
    <2>3. g.kids = <<f>>
        BY <2>1
    <2>. QED BY <2>1, <2>2, <2>3
<1>6. Trim(a) = (<<OpenerOf(g.kind)>> \o (((done \o part) \o << >>) \o g.rest)) \o <<last>>
    BY <1>1, <1>2
<1>. QED BY <1>1, <1>2, <1>4, <1>5, <1>6 DEF Doing

\* A call for part, made from the stack st, is answered f.
LEMMA TracksAnswer ==
    ASSUME NEW whole, NEW st, st \in Seq(Range(st)), st # << >>, \A i \in DOMAIN st : IsFrame(st[i]),
           NEW part \in Seq(Tokens), Tracks(whole, "parse", st, part), Balanced(part),
           NEW f, Derivable(TRUE, <<"filter", part, f>>)
    PROVE  Tracks(whole, "loop", [st EXCEPT ![Len(st)].kids = Append(@, f)], << >>)
<1>. DEFINE n == Len(st)
            r == st[n]
            g == [r EXCEPT !.kids = Append(@, f)]
            s2 == [st EXCEPT ![n] = g]
<1>1. n \in Nat \ {0} /\ DOMAIN st = 1..n /\ n \in DOMAIN st
    BY EmptySeq, LenProperties
<1>2. PICK a, done, last : Tracked(whole, "parse", st, a, done, last) /\ a[n + 1] = part
    BY DEF Tracks
<1>. DEFINE d2 == [i \in 1..n |-> IF i = n THEN done[n] \o part ELSE done[i]]
<1>3. IsFrame(r)
    BY <1>1
<1>4. s2 \in Seq(Range(s2)) /\ Len(s2) = n /\ \A i \in DOMAIN st : s2[i] = IF i = n THEN g ELSE st[i]
    <2>. HIDE DEF g
    <2>. QED BY <1>1, ExceptAny
<1>5. g.kind = r.kind /\ g.rest = r.rest /\ g.kids = Append(r.kids, f)
    <2>1. g = [kind |-> r.kind, rest |-> r.rest, kids |-> Append(r.kids, f)]
        <3>. HIDE DEF r
        <3>. QED BY <1>3, FrameWith
    <2>. HIDE DEF g
    <2>. QED BY <2>1
<1>6. Doing(r, a[n], done[n], last[n], part, TRUE)
    <2>1. Doing(st[n], a[n], done[n], last[n], Parted("parse", n, a, n), Waiting("parse", n, n))
        BY <1>1, <1>2 DEF Tracked
    <2>2. Waiting("parse", n, n) = TRUE /\ Parted("parse", n, a, n) = part
        BY <1>2 DEF Waiting, Parted
    <2>. QED BY <2>1, <2>2
<1>. HIDE DEF g, r
<1>7. Doing(g, a[n], done[n] \o part, last[n], << >>, FALSE)
    BY <1>3, <1>5, <1>6, Answered
<1>. HIDE DEF s2
<1>8. ASSUME NEW i \in 1..n
      PROVE  Doing(s2[i], a[i], d2[i], last[i], Parted("loop", n, a, i), Waiting("loop", n, i))
    <2>1. CASE i = n
        <3>1. Waiting("loop", n, n) = FALSE /\ Parted("loop", n, a, n) = << >>
            BY <1>1 DEF Waiting, Parted
        <3>2. s2[n] = g /\ d2[n] = done[n] \o part
            BY <1>1, <1>4
        <3>. HIDE DEF d2, n
        <3>. QED BY <1>7, <2>1, <3>1, <3>2
    <2>2. CASE i # n
        <3>0. \A k \in Nat : \A j \in 1..k : j # k => j < k
            OBVIOUS
        <3>1. i < n
            <4>. HIDE DEF n
            <4>. QED BY <1>1, <2>2, <3>0
        <3>2. Waiting("loop", n, i) = TRUE /\ Waiting("parse", n, i) = TRUE
            BY <3>1 DEF Waiting
        <3>3. Parted("loop", n, a, i) = Parted("parse", n, a, i)
            BY <3>2 DEF Parted
        <3>4. s2[i] = st[i] /\ d2[i] = done[i]
            BY <1>1, <1>4, <2>2
        <3>5. Doing(st[i], a[i], done[i], last[i], Parted("parse", n, a, i), Waiting("parse", n, i))
            BY <1>2 DEF Tracked
        <3>. HIDE DEF d2, n
        <3>. QED BY <3>2, <3>3, <3>4, <3>5
    <2>. QED BY <2>1, <2>2
<1>9. Tracked(whole, "loop", s2, a, d2, last)
    <2>. HIDE DEF d2
    <2>. QED BY <1>2, <1>4, <1>8 DEF Tracked
<1>10. Tracks(whole, "loop", s2, << >>)
    <2>. HIDE DEF d2
    <2>. QED BY <1>9, Zenon DEF Tracks
<1>11. s2 = [st EXCEPT ![Len(st)].kids = Append(@, f)]
    BY DEF s2, g, r
<1>. QED BY <1>10, <1>11

\* What is returned is derived for the text, by the rules as the parser reads them.
Accepted == mode = "done" => Derivable(TRUE, <<"filter", text, result>>)

LEMMA DeliverOnTrack ==
    ASSUME IInv, OnTrack, mode = "parse", NEW f, Deliver(f), Balanced(arg),
           Derivable(TRUE, <<"filter", arg, f>>)
    PROVE  OnTrack' /\ Accepted'
<1>1. Tracks(text, "parse", stack, arg)
    BY DEF OnTrack, Final
<1>2. CASE stack = << >>
    <2>1. mode' = "done" /\ result' = f /\ text' = text
        BY <1>2 DEF Deliver, Finish
    <2>2. PICK a, done, last : Tracked(text, "parse", stack, a, done, last) /\ a[Len(stack) + 1] = arg
        BY <1>1 DEF Tracks
    <2>3. Len(stack) + 1 = 1
        BY <1>2
    <2>4. arg = text
        BY <2>2, <2>3 DEF Tracked
    <2>. QED BY <2>1, <2>4 DEF OnTrack, Accepted, Final
<1>3. CASE stack # << >>
    <2>1. stack' = [stack EXCEPT ![Len(stack)].kids = Append(@, f)] /\ mode' = "loop" /\ UNCHANGED <<text, arg, result>>
        BY <1>3 DEF Deliver
    <2>2. stack \in Seq(Range(stack)) /\ arg \in Seq(Tokens) /\ \A i \in DOMAIN stack : IsFrame(stack[i])
        BY DEF IInv, TypeOK
    <2>3. Tracks(text, "loop", stack', << >>)
        BY <1>1, <1>3, <2>1, <2>2, TracksAnswer
    <2>4. Tracks(text, "loop", stack', arg)
        BY <2>3, Zenon DEF Tracks
    <2>. QED BY <2>1, <2>4 DEF OnTrack, Accepted
<1>. QED BY <1>2, <1>3

LEMMA EnterOnTrack ==
    ASSUME IInv, OnTrack, mode = "parse", Sound, NEW kind \in {"set", "not"}, Given[1] = OpenerOf(kind),
           kind = "not" => ~(Size(Given) < 8), Enter(kind)
    PROVE  OnTrack' /\ Accepted'
<1>. DEFINE n == Len(stack)
            r == [kind |-> kind, rest |-> Inside(Given), kids |-> << >>]
            end == Given[Len(Given)]
<1>1. stack \in Seq(Range(stack)) /\ n \in Nat /\ arg \in Seq(Tokens)
    BY LenProperties DEF IInv, TypeOK
<1>2. PICK a, done, last : Tracked(text, "parse", stack, a, done, last) /\ a[n + 1] = arg
    BY DEF OnTrack, Tracks, Final
<1>3. stack' = Append(stack, r) /\ mode' = "loop" /\ UNCHANGED <<text, arg, result>>
    BY DEF Enter
<1>. HIDE DEF r
<1>4. Len(stack') = n + 1 /\ (\A i \in 1..n : stack'[i] = stack[i]) /\ stack'[n + 1] = r
    BY <1>1, <1>3, AppendAny
<1>5. ~Blank(arg) /\ Balanced(arg)
    BY DEF Sound
<1>6. Given \in Seq(Tokens) /\ Given # << >> /\ Balanced(Given) /\ Given = Trim(arg)
    BY <1>1, <1>5, TrimSound DEF Given
<1>7. Given[1] \in Openers /\ Given[1] # ")"
    BY DEF OpenerOf, Openers
<1>8. Len(Given) \in Nat /\ Len(Given) >= 2
    <2>1. Len(Given) \in Nat /\ Len(Given) >= 1
        BY <1>6, EmptySeq, LenProperties
    <2>2. CASE Len(Given) = 1
        <3>1. CountIn(Given, Openers, 1) = 1
            BY <1>7, CountFew
        <3>2. CountIn(Given, {")"}, 1) = 0
            BY <1>7, CountNone
        <3>3. CountIn(Given, Openers, 1) = CountIn(Given, {")"}, 1)
            BY <1>6, <2>2, OpenedClosed DEF Balanced
        <3>. QED BY <3>1, <3>2, <3>3
    <2>. QED BY <2>1, <2>2
<1>9. Given = (<<OpenerOf(kind)>> \o Inside(Given)) \o <<end>> /\ end \in Tokens /\ Inside(Given) \in Seq(Tokens)
    <2>1. 1 \in 1..Len(Given) /\ Len(Given) \in 2..Len(Given) /\ 1 + 1 = 2
        BY <1>8
    <2>2. (<<Given[1]>> \o SubSeq(Given, 2, Len(Given) - 1)) \o <<Given[Len(Given)]>> = SubSeq(Given, 1, Len(Given))
        BY <1>6, <2>1, PieceBetween
    <2>3. SubSeq(Given, 1, Len(Given)) = Given
        BY <1>6, SubSeqFull
    <2>4. end \in Tokens
        BY <1>6, <2>1, ElementOfSeq
    <2>. QED BY <2>2, <2>3, <2>4, <1>6, InsidePiece DEF Inside
<1>10. Doing(r, arg, << >>, end, << >>, FALSE)
    <2>1. r.kind = kind /\ r.rest = Inside(Given) /\ r.kids = << >>
        BY DEF r
    <2>2. << >> \in Seq(Tokens) /\ (<< >> \o << >>) \o Inside(Given) = Inside(Given)
        BY <1>9, ConcatEmptySeq, EmptySeq
    <2>3. Balanced(<< >>)
        <3>1. Blank(<< >>)
            BY EmptyAny DEF Blank
        <3>. QED BY <2>2, <3>1, BlankIsBalanced DEF Balanced
    <2>4. Derivable(TRUE, <<"list", << >>, << >> >>)
        BY DerivableList
    <2>5. Trim(arg) = (<<OpenerOf(r.kind)>> \o ((<< >> \o << >>) \o r.rest)) \o <<end>>
        BY <1>6, <1>9, <2>1, <2>2
    <2>6. r.kind = "not" => ~(Size(Trim(arg)) < 8)
        BY <1>6, <2>1
    <2>. HIDE DEF end
    <2>. QED BY <1>1, <1>5, <1>9, <2>1, <2>2, <2>3, <2>4, <2>5, <2>6 DEF Doing
<1>. HIDE DEF end
<1>. DEFINE d2 == [i \in 1..(n + 1) |-> IF i = n + 1 THEN << >> ELSE done[i]]
            l2 == [i \in 1..(n + 1) |-> IF i = n + 1 THEN end ELSE last[i]]
<1>11. d2[n + 1] = << >> /\ l2[n + 1] = end /\ \A i \in 1..n : d2[i] = done[i] /\ l2[i] = last[i] /\ i < n + 1 /\ ~(n + 1 < n + 1)
    BY <1>1
<1>. HIDE DEF d2, l2
<1>12. ASSUME NEW i \in 1..(n + 1)
       PROVE  Doing(stack'[i], a[i], d2[i], l2[i], Parted("loop", n + 1, a, i), Waiting("loop", n + 1, i))
    <2>1. CASE i = n + 1
        <3>1. ~(n + 1 < n + 1)
            BY <1>1
        <3>2. Waiting("loop", n + 1, n + 1) = FALSE
            BY <3>1 DEF Waiting
        <3>3. Parted("loop", n + 1, a, n + 1) = << >>
            BY <3>2 DEF Parted
        <3>. HIDE DEF n
        <3>. QED BY <1>2, <1>4, <1>10, <1>11, <2>1, <3>2, <3>3
    <2>2. CASE i \in 1..n
        <3>1. Waiting("loop", n + 1, i) = TRUE /\ Waiting("parse", n, i) = TRUE
            BY <1>11, <2>2 DEF Waiting
        <3>2. Parted("loop", n + 1, a, i) = Parted("parse", n, a, i)
            BY <3>1 DEF Parted
        <3>3. Doing(stack[i], a[i], done[i], last[i], Parted("parse", n, a, i), Waiting("parse", n, i))
            BY <1>2, <2>2 DEF Tracked
        <3>. HIDE DEF n
        <3>. QED BY <1>4, <1>11, <2>2, <3>1, <3>2, <3>3
    <2>3. i = n + 1 \/ i \in 1..n
        BY <1>1
    <2>. QED BY <2>1, <2>2, <2>3
<1>13. Tracked(text, "loop", stack', a, d2, l2)
    BY <1>2, <1>4, <1>12 DEF Tracked
<1>14. Tracks(text, "loop", stack', arg)
    BY <1>13, Zenon DEF Tracks
<1>. QED BY <1>3, <1>14 DEF OnTrack, Accepted

LEMMA NextPartOnTrack ==
    ASSUME IInv, OnTrack, NextPart
    PROVE  OnTrack' /\ Accepted'
<1>. DEFINE n == Len(stack)
            k == IF Top.kind = "set" THEN PartEnd(Top.rest) ELSE Len(Top.rest)
            x == SubSeq(Top.rest, k + 1, Len(Top.rest))
            y == SubSeq(Top.rest, 1, k)
            r == [Top EXCEPT !.rest = x]
<1>1. /\ mode = "loop" /\ More(Top)
      /\ stack' = [stack EXCEPT ![n] = r]
      /\ arg' = y /\ mode' = "parse" /\ text' = text
    BY DEF NextPart, Top
<1>2. stack # << >> /\ IsFrame(Top)
    BY <1>1, TopFrame
<1>3. stack \in Seq(Range(stack)) /\ n \in Nat \ {0} /\ n \in DOMAIN stack /\ DOMAIN stack = 1..n
    BY <1>2, EmptySeq, LenProperties DEF IInv, TypeOK
<1>4. PICK a, done, last : Tracked(text, "loop", stack, a, done, last)
    BY <1>1 DEF OnTrack, Tracks, Final
<1>5. Top.rest \in Seq(Tokens) /\ Len(Top.rest) \in Nat
    BY <1>2 DEF IsFrame
<1>6. k \in 0..Len(Top.rest) /\ (Top.kind = "not" => k = Len(Top.rest))
    <2>1. CASE Top.kind = "set"
        <3>1. Top.rest # << >>
            BY <1>1, <2>1 DEF More
        <3>2. PartEnd(Top.rest) \in 1..Len(Top.rest)
            BY <1>5, <3>1, PartEndFound
        <3>. QED BY <1>5, <2>1, <3>2
    <2>2. CASE Top.kind # "set"
        BY <1>5, <2>2
    <2>. QED BY <2>1, <2>2
<1>7. x \in Seq(Tokens) /\ y \in Seq(Tokens) /\ y \o x = Top.rest /\ (Top.kind = "not" => x = << >>)
    <2>. HIDE DEF k
    <2>1. /\ k + 1 \in 1..(Len(Top.rest) + 1) /\ Len(Top.rest) \in 0..Len(Top.rest) /\ 1 \in 1..(Len(Top.rest) + 1)
          /\ k \in 0..Len(Top.rest) /\ Len(Top.rest) \in k..Len(Top.rest) /\ k \in (1 - 1)..Len(Top.rest)
        BY <1>5, <1>6
    <2>2. x \in Seq(Tokens) /\ y \in Seq(Tokens)
        BY <1>5, <2>1, PieceAny
    <2>3. y \o x = SubSeq(Top.rest, 1, Len(Top.rest))
        BY <1>5, <2>1, ConcatAdjacentSubSeq
    <2>4. SubSeq(Top.rest, 1, Len(Top.rest)) = Top.rest
        BY <1>5, SubSeqFull
    <2>5. k = Len(Top.rest) => x = << >>
        <3>1. Len(Top.rest) + 1 > Len(Top.rest)
            BY <1>5
        <3>. QED BY <1>5, <3>1, SubSeqEmpty
    <2>. QED BY <1>6, <2>2, <2>3, <2>4, <2>5
<1>. HIDE DEF x, y, k
<1>8. r.kind = Top.kind /\ r.rest = x /\ r.kids = Top.kids
    <2>1. r = [kind |-> Top.kind, rest |-> x, kids |-> Top.kids]
        BY <1>2, FrameWith
    <2>. HIDE DEF r
    <2>. QED BY <2>1
<1>. HIDE DEF r
<1>9. Len(stack') = n /\ \A i \in 1..n : stack'[i] = IF i = n THEN r ELSE stack[i]
    BY <1>1, <1>3, ExceptAny
<1>10. Doing(Top, a[n], done[n], last[n], << >>, FALSE)
    <2>1. Doing(stack[n], a[n], done[n], last[n], Parted("loop", n, a, n), Waiting("loop", n, n))
        BY <1>3, <1>4 DEF Tracked
    <2>2. Waiting("loop", n, n) = FALSE
        BY <1>3 DEF Waiting
    <2>3. Parted("loop", n, a, n) = << >>
        BY <2>2 DEF Parted
    <2>. QED BY <2>1, <2>2, <2>3 DEF Top
<1>11. Doing(r, a[n], done[n], last[n], y, TRUE)
    <2>1. /\ a[n] \in Seq(Tokens) /\ done[n] \in Seq(Tokens) /\ last[n] \in Tokens
          /\ ~Blank(a[n]) /\ Balanced(a[n])
          /\ Trim(a[n]) = (<<OpenerOf(Top.kind)>> \o ((done[n] \o << >>) \o Top.rest)) \o <<last[n]>>
          /\ Top.kind = "set" => Derivable(TRUE, <<"list", done[n], Top.kids>>) /\ Balanced(done[n])
        BY <1>10 DEF Doing
    <2>2. (done[n] \o << >>) \o Top.rest = (done[n] \o y) \o x
        <3>1. done[n] \o << >> = done[n]
            BY <2>1, ConcatEmptySeq
        <3>2. done[n] \o (y \o x) = (done[n] \o y) \o x
            <4>1. done[n] \in Seq(Tokens) /\ y \in Seq(Tokens) /\ x \in Seq(Tokens)
                BY <1>7, <2>1
            <4>2. \A p, q, s \in Seq(Tokens) : p \o (q \o s) = (p \o q) \o s
                BY ConcatAssociative
            <4>. QED BY <4>1, <4>2, Zenon
        <3>. QED BY <1>7, <3>1, <3>2
    <2>3. ASSUME r.kind = "not" PROVE ~(Size(Trim(a[n])) < 8) /\ done[n] = << >> /\ r.kids = << >> /\ r.rest = << >>
        <3>1. Top.kind # "set" /\ Top.kind = "not"
            BY <1>8, <2>3
        <3>2. Top.kids = << >>
            BY <1>1, <3>1 DEF More
        <3>3. \A f : Top.kids # <<f>>
            BY <3>2
        <3>4. ~(Size(Trim(a[n])) < 8) /\ done[n] = << >>
            BY <1>10, <3>1, <3>3 DEF Doing
        <3>. QED BY <1>7, <1>8, <3>1, <3>2, <3>4
    <2>4. Trim(a[n]) = (<<OpenerOf(r.kind)>> \o ((done[n] \o y) \o r.rest)) \o <<last[n]>>
        BY <1>8, <2>1, <2>2
    <2>. QED BY <1>8, <2>1, <2>3, <2>4 DEF Doing
<1>. DEFINE b == [i \in 1..(n + 1) |-> IF i = n + 1 THEN y ELSE a[i]]
<1>12. b[n + 1] = y /\ b[1] = a[1] /\ \A i \in 1..n : b[i] = a[i] /\ (i # n => i < n /\ b[i + 1] = a[i + 1])
    <2>0. \A m \in Nat : \A i \in 1..m : i \in 1..(m + 1) /\ i # m + 1 /\ (i # m => i < m /\ i + 1 \in 1..(m + 1) /\ i + 1 # m + 1)
        OBVIOUS
    <2>1. \A i \in 1..n : i \in 1..(n + 1) /\ i # n + 1 /\ (i # n => i < n /\ i + 1 \in 1..(n + 1) /\ i + 1 # n + 1)
        BY <1>3, <2>0
    <2>2. 1 \in 1..(n + 1) /\ 1 # n + 1 /\ n + 1 \in 1..(n + 1)
        BY <1>3
    <2>. HIDE DEF n
    <2>. QED BY <2>1, <2>2
<1>. HIDE DEF b
<1>13. ASSUME NEW i \in 1..n
       PROVE  Doing(stack'[i], b[i], done[i], last[i], Parted("parse", n, b, i), Waiting("parse", n, i))
    <2>1. Waiting("parse", n, i) = TRUE
        BY DEF Waiting
    <2>2. Parted("parse", n, b, i) = b[i + 1]
        BY <2>1 DEF Parted
    <2>3. CASE i = n
        <3>1. stack'[i] = r
            BY <1>9, <2>3
        <3>. HIDE DEF n
        <3>. QED BY <1>11, <1>12, <2>1, <2>2, <2>3, <3>1
    <2>4. CASE i # n
        <3>1. stack'[i] = stack[i] /\ i < n
            BY <1>9, <1>12, <2>4
        <3>2. Waiting("loop", n, i) = TRUE
            BY <3>1 DEF Waiting
        <3>3. Parted("loop", n, a, i) = a[i + 1]
            BY <3>2 DEF Parted
        <3>4. Doing(stack[i], a[i], done[i], last[i], Parted("loop", n, a, i), Waiting("loop", n, i))
            BY <1>4 DEF Tracked
        <3>. HIDE DEF n
        <3>. QED BY <1>12, <2>1, <2>2, <2>4, <3>1, <3>2, <3>3, <3>4
    <2>. QED BY <2>3, <2>4
<1>14. Tracked(text, "parse", stack', b, done, last)
    <2>1. b[1] = text
        BY <1>4, <1>12 DEF Tracked
    <2>. QED BY <1>9, <1>13, <2>1 DEF Tracked
<1>15. b[Len(stack') + 1] = arg'
    BY <1>1, <1>9, <1>12
<1>16. Tracks(text, "parse", stack', arg')
    BY <1>14, <1>15, Zenon DEF Tracks
<1>. QED BY <1>1, <1>16 DEF OnTrack, Accepted

\* A set or a not that is complete is what its text derives.
LEMMA FrameDerives ==
    ASSUME NEW r, IsFrame(r), ~More(r), NEW a, NEW done, NEW last, Doing(r, a, done, last, << >>, FALSE)
    PROVE  /\ a \in Seq(Tokens) /\ Balanced(a)
           /\ r.kind = "set" => Derivable(TRUE, <<"filter", a, Set(r.kids)>>)
           /\ r.kind # "set" => Derivable(TRUE, <<"filter", a, Not(r.kids[1])>>)
<1>. DEFINE g == Trim(a)
            open == OpenerOf(r.kind)
<1>1. /\ a \in Seq(Tokens) /\ done \in Seq(Tokens) /\ last \in Tokens /\ ~Blank(a) /\ Balanced(a)
      /\ g = (<<open>> \o ((done \o << >>) \o r.rest)) \o <<last>>
    BY DEF Doing
<1>2. r.kind \in {"set", "not"}
    BY DEF IsFrame
<1>3. open \in Openers /\ open \in Tokens
    BY KindsOfTokens DEF OpenerOf
<1>4. r.rest = << >> /\ Balanced(done)
    <2>1. CASE r.kind = "set"
        BY <2>1 DEF Doing, More
    <2>2. CASE r.kind = "not"
        <3>1. r.kids # << >> /\ r.kind # "set"
            BY <2>2 DEF More
        <3>. QED BY <2>2, <3>1 DEF Doing
    <2>. QED BY <1>2, <2>1, <2>2
<1>5. g = (<<open>> \o done) \o <<last>>
    BY <1>1, <1>4, ConcatEmptySeq
<1>. HIDE DEF open
<1>6. last = ")"
    <2>. DEFINE p == <<open>> \o done
    <2>1. <<open>> \in Seq(Tokens) /\ <<last>> \in Seq(Tokens) /\ p \in Seq(Tokens)
        BY <1>1, <1>3, OneTokenBalance, ConcatProperties
    <2>2. Balanced(g)
        BY <1>1, TrimSound
    <2>3. /\ Opened(g, Len(g)) = Opened(p, Len(p)) + Opened(<<last>>, Len(<<last>>))
          /\ Closed(g, Len(g)) = Closed(p, Len(p)) + Closed(<<last>>, Len(<<last>>))
        <3>. HIDE DEF p
        <3>. QED BY <1>5, <2>1, BalanceOfBoth DEF p
    <2>4. /\ Opened(p, Len(p)) = Opened(<<open>>, Len(<<open>>)) + Opened(done, Len(done))
          /\ Closed(p, Len(p)) = Closed(<<open>>, Len(<<open>>)) + Closed(done, Len(done))
          /\ Opened(done, Len(done)) \in Nat /\ Closed(done, Len(done)) \in Nat
        BY <1>1, <2>1, BalanceOfBoth
    <2>5. Len(<<open>>) = 1 /\ Len(<<last>>) = 1 /\ Opened(<<open>>, 1) = 1 /\ Closed(<<open>>, 1) = 0
        BY <1>1, <1>3, OneTokenBalance
    <2>6. last # ")" => Opened(<<last>>, 1) \in {0, 1} /\ Closed(<<last>>, 1) = 0
        BY <1>1, OneTokenBalance
    <2>7. Opened(done, Len(done)) = Closed(done, Len(done))
        BY <1>4 DEF Balanced
    <2>8. Opened(g, Len(g)) = Closed(g, Len(g))
        BY <2>2 DEF Balanced
    <2>. DEFINE z == Opened(done, Len(done))
                o == Opened(<<last>>, 1)
                c == Closed(<<last>>, 1)
    <2>9. (1 + z) + o = (0 + z) + c /\ z \in Nat
        BY <2>3, <2>4, <2>5, <2>7, <2>8, Zenon
    <2>10. last # ")" => o \in {0, 1} /\ c = 0
        BY <2>6
    <2>. HIDE DEF z, o, c
    <2>11. \A i \in {0, 1} : \A j \in Nat : (1 + j) + i # (0 + j) + 0
        OBVIOUS
    <2>. QED BY <2>9, <2>10, <2>11, Zenon
<1>7. g = Enclosed(open, done)
    BY <1>5, <1>6 DEF Enclosed
<1>8. \A f : Derivable(TRUE, <<"filter", g, f>>) => Derivable(TRUE, <<"filter", a, f>>)
    <2>1. PICK u, v \in Seq(Tokens) : a = (u \o g) \o v /\ Blank(u) /\ Blank(v)
        BY <1>1, TrimParts
    <2>. HIDE DEF g
    <2>. QED BY <2>1, DerivableSpaced
<1>9. ASSUME r.kind = "set" PROVE Derivable(TRUE, <<"filter", a, Set(r.kids)>>)
    <2>1. Derivable(TRUE, <<"list", done, r.kids>>)
        BY <1>9 DEF Doing
    <2>2. open = "(&"
        BY <1>9 DEF open, OpenerOf
    <2>. HIDE DEF g
    <2>. QED BY <1>7, <1>8, <2>1, <2>2, DerivableSet
<1>10. ASSUME r.kind # "set" PROVE Derivable(TRUE, <<"filter", a, Not(r.kids[1])>>)
    <2>1. r.kids # << >> /\ r.kind = "not"
        BY <1>2, <1>10 DEF More
    <2>2. PICK f : r.kids = <<f>> /\ Derivable(TRUE, <<"filter", done, f>>)
        BY <2>1 DEF Doing
    <2>3. ~(Size(g) < 8)
        BY <2>1 DEF Doing
    <2>4. open = "(!"
        BY <2>1 DEF open, OpenerOf
    <2>5. r.kids[1] = f
        BY <2>2
    <2>. HIDE DEF g
    <2>6. ~(Size(Enclosed("(!", done)) < 8)
        BY <1>7, <2>3, <2>4
    <2>7. Derivable(TRUE, <<"filter", Enclosed("(!", done), Not(f)>>)
        BY <2>2, <2>6, DerivableNot
    <2>. QED BY <1>7, <1>8, <2>4, <2>5, <2>7
<1>. QED BY <1>1, <1>9, <1>10

LEMMA ReturnOnTrack ==
    ASSUME IInv, OnTrack, Return
    PROVE  OnTrack' /\ Accepted'
<1>. DEFINE f == IF Top.kind = "set" THEN Set(Top.kids) ELSE Not(Top.kids[1])
            n == Len(stack)
<1>1. /\ mode = "loop" /\ ~More(Top) /\ text' = text
      /\ n = 1 => mode' = "done" /\ result' = f
      /\ n # 1 => stack' = [Front(stack) EXCEPT ![n - 1].kids = Append(@, f)] /\ mode' = "loop"
    BY DEF Return
<1>2. stack # << >> /\ IsFrame(Top)
    BY <1>1, TopFrame
<1>3. stack \in Seq(Range(stack)) /\ n \in Nat \ {0} /\ DOMAIN stack = 1..n
    BY <1>2, EmptySeq, LenProperties DEF IInv, TypeOK
<1>4. PICK a, done, last : Tracked(text, "loop", stack, a, done, last)
    BY <1>1 DEF OnTrack, Tracks, Final
<1>5. Doing(Top, a[n], done[n], last[n], << >>, FALSE)
    <2>1. Doing(stack[n], a[n], done[n], last[n], Parted("loop", n, a, n), Waiting("loop", n, n))
        BY <1>3, <1>4 DEF Tracked
    <2>2. Waiting("loop", n, n) = FALSE
        BY <1>3 DEF Waiting
    <2>3. Parted("loop", n, a, n) = << >>
        BY <2>2 DEF Parted
    <2>. QED BY <2>1, <2>2, <2>3 DEF Top
<1>6. a[n] \in Seq(Tokens) /\ Balanced(a[n]) /\ Derivable(TRUE, <<"filter", a[n], f>>)
    <2>1. /\ a[n] \in Seq(Tokens) /\ Balanced(a[n])
          /\ Top.kind = "set" => Derivable(TRUE, <<"filter", a[n], Set(Top.kids)>>)
          /\ Top.kind # "set" => Derivable(TRUE, <<"filter", a[n], Not(Top.kids[1])>>)
        BY <1>1, <1>2, <1>5, FrameDerives
    <2>. QED BY <2>1
<1>. HIDE DEF f
<1>7. CASE n = 1
    <2>1. a[1] = text
        BY <1>4 DEF Tracked
    <2>. QED BY <1>1, <1>6, <1>7, <2>1 DEF OnTrack, Accepted, Final
<1>8. CASE n # 1
    <2>. DEFINE st == Front(stack)
    <2>1. n > 1
        BY <1>3, <1>8
    <2>2. st \in Seq(Range(st)) /\ Len(st) = n - 1 /\ DOMAIN st = 1..(n - 1) /\ \A i \in 1..(n - 1) : st[i] = stack[i]
        BY <1>3, <2>1, FrontAny
    <2>. HIDE DEF st
    <2>3. \A i \in 1..(n - 1) : i \in 1..n /\ i < n
        BY <1>3
    <2>4. \A i \in DOMAIN st : IsFrame(st[i])
        BY <1>3, <2>2, <2>3 DEF IInv, TypeOK
    <2>5. st # << >>
        BY <1>3, <2>1, <2>2, EmptyAny
    <2>6. ASSUME NEW i \in 1..(n - 1)
          PROVE  Doing(st[i], a[i], done[i], last[i], Parted("parse", n - 1, a, i), Waiting("parse", n - 1, i))
        <3>1. Waiting("parse", n - 1, i) = TRUE /\ Waiting("loop", n, i) = TRUE
            BY <2>3 DEF Waiting
        <3>2. Parted("parse", n - 1, a, i) = Parted("loop", n, a, i)
            BY <3>1 DEF Parted
        <3>3. Doing(stack[i], a[i], done[i], last[i], Parted("loop", n, a, i), Waiting("loop", n, i))
            BY <1>4, <2>3 DEF Tracked
        <3>. HIDE DEF n
        <3>. QED BY <2>2, <3>1, <3>2, <3>3
    <2>7. Tracked(text, "parse", st, a, done, last)
        BY <1>4, <2>2, <2>6 DEF Tracked
    <2>8. a[Len(st) + 1] = a[n]
        <3>1. (n - 1) + 1 = n
            BY <1>3
        <3>. QED BY <2>2, <3>1
    <2>9. Tracks(text, "parse", st, a[n])
        BY <2>7, <2>8, Zenon DEF Tracks
    <2>10. stack' = [st EXCEPT ![Len(st)].kids = Append(@, f)] /\ mode' = "loop"
        BY <1>1, <1>8, <2>2 DEF st
    <2>11. Tracks(text, "loop", stack', << >>)
        BY <1>6, <2>2, <2>4, <2>5, <2>9, <2>10, TracksAnswer
    <2>12. Tracks(text, "loop", stack', arg')
        BY <2>11, Zenon DEF Tracks
    <2>. QED BY <1>1, <2>10, <2>12 DEF OnTrack, Accepted
<1>. QED BY <1>7, <1>8

LEMMA InitOnTrack == Init => OnTrack /\ Accepted
<1>. SUFFICES ASSUME Init PROVE OnTrack /\ Accepted
    OBVIOUS
<1>. DEFINE a == [i \in {1} |-> text]
<1>1. arg = text /\ Len(stack) = 0 /\ mode = "parse"
    BY DEF Init
<1>2. a[1] = text /\ Len(stack) + 1 = 1 /\ 1..Len(stack) = {}
    BY <1>1
<1>. HIDE DEF a
<1>3. Tracked(text, "parse", stack, a, a, a)
    BY <1>2, Zenon DEF Tracked
<1>4. a[Len(stack) + 1] = arg
    BY <1>1, <1>2
<1>5. Tracks(text, "parse", stack, arg)
    BY <1>3, <1>4, Zenon DEF Tracks
<1>. QED BY <1>1, <1>5 DEF OnTrack, Accepted

LEMMA ParseItemOnTrack ==
    ASSUME IInv, OnTrack, ParseItem
    PROVE  OnTrack' /\ Accepted'
<1>1. mode = "parse" /\ ~Blank(arg) /\ ~Doubled(arg) /\ Balanced(arg) /\ Given[1] \notin {"(&", "(!"}
    BY DEF ParseItem, Sound
<1>2. arg \in Seq(Tokens)
    BY DEF IInv, TypeOK
<1>3. Given \in Seq(Tokens) /\ Given # << >> /\ Balanced(Given) /\ ~Doubled(Given)
    BY <1>1, <1>2, TrimSound DEF Given
<1>4. \A f : Derivable(TRUE, <<"filter", Given, f>>) => Derivable(TRUE, <<"filter", arg, f>>)
    <2>1. PICK u, v \in Seq(Tokens) : arg = (u \o Given) \o v /\ Blank(u) /\ Blank(v)
        BY <1>1, <1>2, TrimParts DEF Given
    <2>. QED BY <2>1, DerivableSpaced
<1>5. CASE Deliver(Leaf(Bare(Given))) /\ ItemOutcome(Given) = "item"
    <2>1. /\ IsItem(Bare(Given)) /\ Bare(Given) \in Seq(Tokens)
          /\ Given = Bare(Given) \/ Given = Enclosed("(", Bare(Given))
        BY <1>1, <1>3, <1>5, ItemAccepted
    <2>2. Derivable(TRUE, <<"filter", Given, Leaf(Bare(Given))>>)
        <3>1. CASE Given = Bare(Given)
            <4>1. Derivable(TRUE, <<"filter", Bare(Given), Leaf(Bare(Given))>>)
                BY <2>1, DerivableAlone, Zenon DEF Follows, BareFor
            <4>. QED BY <3>1, <4>1
        <3>2. CASE Given = Enclosed("(", Bare(Given))
            <4>1. Derivable(TRUE, <<"filter", Enclosed("(", Bare(Given)), Leaf(Bare(Given))>>)
                BY <2>1, DerivableItem
            <4>. QED BY <3>2, <4>1
        <3>. QED BY <2>1, <3>1, <3>2
    <2>. QED BY <1>1, <1>4, <1>5, <2>2, DeliverOnTrack
<1>6. CASE Deliver(Invalid) /\ ItemOutcome(Given) = "muted"
    <2>1. IsUnread(Given)
        BY <1>3, <1>6, ItemUnread
    <2>2. Derivable(TRUE, <<"filter", Given, Invalid>>)
        BY <1>3, <2>1, DerivableAlone, Zenon DEF Follows, UnreadFor
    <2>. QED BY <1>1, <1>4, <1>6, <2>2, DeliverOnTrack
<1>7. CASE mode' \in {"error", "panic"}
    BY <1>7 DEF OnTrack, Accepted, Final
<1>8. ItemOutcome(Given) \in {"error", "panic", "muted", "item"}
    BY Zenon DEF ItemOutcome
<1>9. CASE ItemOutcome(Given) \in {"error", "panic"}
    BY <1>7, <1>9 DEF ParseItem, Fail, Fault, Finish
<1>10. CASE ItemOutcome(Given) = "muted"
    BY <1>6, <1>10 DEF ParseItem
<1>11. CASE ItemOutcome(Given) = "item"
    BY <1>5, <1>11 DEF ParseItem
<1>. QED BY <1>8, <1>9, <1>10, <1>11

LEMMA NextOnTrack == IInv /\ OnTrack /\ Accepted /\ [Next]_vars => OnTrack' /\ Accepted'
<1>. SUFFICES ASSUME IInv, OnTrack, Accepted, [Next]_vars PROVE OnTrack' /\ Accepted'
    OBVIOUS
<1>0. arg \in Seq(Tokens)
    BY DEF IInv, TypeOK
<1>1. CASE ParseBlank
    <2>1. mode = "parse" /\ Blank(arg) /\ Deliver(Default)
        BY <1>1 DEF ParseBlank
    <2>2. Balanced(arg)
        BY <1>0, <2>1, BlankIsBalanced DEF Balanced
    <2>3. Derivable(TRUE, <<"filter", arg, Default>>)
        BY <1>0, <2>1, DerivableAlone, Zenon DEF Follows, BlankFor
    <2>. QED BY <2>1, <2>2, <2>3, DeliverOnTrack
<1>2. CASE Fail
    BY <1>2 DEF Fail, Finish, OnTrack, Accepted, Final
<1>3. CASE ParseSet
    <2>1. mode = "parse" /\ Sound /\ Given[1] = OpenerOf("set") /\ Enter("set")
        BY <1>0, <1>3, CutEnters, KindsOfTokens DEF ParseSet, OpenerOf
    <2>. QED BY <2>1, EnterOnTrack
<1>4. CASE ParseNot
    <2>1. mode = "parse" /\ Sound /\ Given[1] = OpenerOf("not")
        BY <1>4 DEF ParseNot, OpenerOf
    <2>2. CASE Size(Given) < 8
        BY <1>2, <1>4, <2>2 DEF ParseNot
    <2>3. CASE ~(Size(Given) < 8)
        <3>1. Enter("not")
            BY <1>0, <1>4, <2>3, CutEnters, KindsOfTokens DEF ParseNot
        <3>. QED BY <2>1, <2>3, <3>1, EnterOnTrack
    <2>. QED BY <2>2, <2>3
<1>5. CASE ParseItem
    BY <1>5, ParseItemOnTrack
<1>6. CASE NextPart
    BY <1>6, NextPartOnTrack
<1>7. CASE Return
    BY <1>7, ReturnOnTrack
<1>8. CASE UNCHANGED vars
    <2>1. text' = text /\ arg' = arg /\ stack' = stack /\ mode' = mode /\ result' = result
        BY <1>8 DEF vars
    <2>2. OnTrack'
        BY <2>1 DEF OnTrack
    <2>. QED BY <2>1, <2>2 DEF Accepted
<1>. QED BY <1>1, <1>2, <1>3, <1>4, <1>5, <1>6, <1>7, <1>8 DEF Next, ParseUnsound

\* Whatever NewFilter accepts is what the rules of RFC 4515, and the four things it takes
\* beyond them, make of the text: no part is lost, read twice, or read as another one.
THEOREM AcceptedHasADerivation == Spec => []Accepted
BY InitIInv, NextIInv, InitOnTrack, NextOnTrack, PTL DEF Spec

-----------------------------------------------------------------------------
(* The shape of what is derived                                            *)

LEMMA EnclosedParts ==
    ASSUME NEW open \in Openers, NEW t \in Seq(Tokens)
    PROVE  LET e == Enclosed(open, t)
               l == Len(t)
           IN  /\ e \in Seq(Tokens) /\ l \in Nat /\ Len(e) = l + 2
               /\ e[1] = open /\ e[l + 2] = ")" /\ \A i \in 1..l : e[i + 1] = t[i]
               /\ \A n \in 0..l : Opened(e, n + 1) = 1 + Opened(t, n) /\ Closed(e, n + 1) = Closed(t, n)
               /\ \A n \in 0..l : Opened(t, n) \in Nat /\ Closed(t, n) \in Nat
               /\ Opened(e, l + 2) = 1 + Opened(t, l) /\ Closed(e, l + 2) = Closed(t, l) + 1
<1>. DEFINE e == Enclosed(open, t)
            l == Len(t)
            p == <<open>> \o t
<1>1. l \in Nat /\ open \in Tokens /\ ")" \in Tokens /\ ")" \notin Openers /\ open # ")"
    BY LenProperties DEF Tokens, Openers
<1>2. /\ <<open>> \in Seq(Tokens) /\ Len(<<open>>) = 1 /\ <<open>>[1] = open
      /\ <<")">> \in Seq(Tokens) /\ Len(<<")">>) = 1 /\ <<")">>[1] = ")"
    BY <1>1, OneTokenBalance
<1>3. p \in Seq(Tokens) /\ Len(p) = 1 + l /\ \A i \in 1..(1 + l) : p[i] = IF i <= 1 THEN <<open>>[i] ELSE t[i - 1]
    BY <1>2, ConcatProperties
<1>4. e \in Seq(Tokens) /\ Len(e) = (1 + l) + 1 /\ \A i \in 1..((1 + l) + 1) : e[i] = IF i <= 1 + l THEN p[i] ELSE <<")">>[i - (1 + l)]
    <2>. HIDE DEF p, l
    <2>. QED BY <1>2, <1>3, ConcatProperties DEF Enclosed, p
<1>. HIDE DEF e, p
<1>5. Len(e) = l + 2 /\ e[1] = open /\ e[l + 2] = ")"
    <2>1. 1 \in 1..((1 + l) + 1) /\ 1 <= 1 + l /\ 1 \in 1..(1 + l)
          /\ l + 2 \in 1..((1 + l) + 1) /\ ~(l + 2 <= 1 + l) /\ (l + 2) - (1 + l) = 1 /\ (1 + l) + 1 = l + 2
        BY <1>1
    <2>. HIDE DEF l
    <2>. QED BY <1>2, <1>3, <1>4, <2>1
<1>6. \A i \in 1..l : e[i + 1] = t[i]
    <2>1. \A i \in 1..l : i + 1 \in 1..((1 + l) + 1) /\ i + 1 <= 1 + l /\ i + 1 \in 1..(1 + l) /\ ~(i + 1 <= 1) /\ (i + 1) - 1 = i
        BY <1>1
    <2>. HIDE DEF l
    <2>. QED BY <1>3, <1>4, <2>1
<1>7. ASSUME NEW S PROVE /\ \A n \in 0..l : CountIn(e, S, n + 1) = CountIn(<<open>>, S, 1) + CountIn(t, S, n)
                         /\ CountIn(e, S, l + 2) = (CountIn(<<open>>, S, 1) + CountIn(t, S, l)) + CountIn(<<")">>, S, 1)
                         /\ \A n \in 0..l : CountIn(t, S, n) \in Nat
    <2>1. \A m \in 0..l : CountIn(p, S, 1 + m) = CountIn(<<open>>, S, 1) + CountIn(t, S, m)
        <3>. DEFINE q == <<open>>
        <3>1. q \in Seq(Tokens) /\ Len(q) = 1 /\ p = q \o t
            BY <1>2 DEF p
        <3>0. q \in Seq(Tokens)
            BY <3>1
        <3>. HIDE DEF q
        <3>2. \A m \in 0..Len(t) : CountIn(q \o t, S, Len(q) + m) = CountIn(q, S, Len(q)) + CountIn(t, S, m)
            BY <3>0, CountAfter
        <3>. QED BY <3>1, <3>2 DEF q
    <2>2. e = p \o <<")">>
        BY DEF e, p, Enclosed
    <2>3. /\ \A m \in 0..(1 + l) : CountIn(e, S, m) = CountIn(p, S, m)
          /\ \A m \in 0..1 : CountIn(e, S, (1 + l) + m) = CountIn(p, S, 1 + l) + CountIn(<<")">>, S, m)
        <3>. DEFINE q == <<")">>
        <3>1. q \in Seq(Tokens) /\ Len(q) = 1 /\ p \in Seq(Tokens) /\ Len(p) = 1 + l /\ e = p \o q
            BY <1>2, <1>3, <2>2
        <3>0. p \in Seq(Tokens) /\ q \in Seq(Tokens)
            BY <3>1
        <3>. HIDE DEF q, l
        <3>2. /\ \A m \in 0..Len(p) : CountIn(p \o q, S, m) = CountIn(p, S, m)
              /\ \A m \in 0..Len(q) : CountIn(p \o q, S, Len(p) + m) = CountIn(p, S, Len(p)) + CountIn(q, S, m)
            BY <3>0, CountBefore, CountAfter
        <3>. QED BY <3>1, <3>2 DEF q
    <2>4. \A n \in 0..l : n + 1 \in 0..(1 + l) /\ n + 1 = 1 + n
        BY <1>1
    <2>5. l \in 0..l /\ 1 \in 0..1 /\ (1 + l) + 1 = l + 2
        BY <1>1
    <2>6. \A n \in 0..l : CountIn(t, S, n) \in Nat
        BY CountStep
    <2>. HIDE DEF l
    <2>. QED BY <2>1, <2>3, <2>4, <2>5, <2>6
<1>8. /\ CountIn(<<open>>, Openers, 1) = 1 /\ CountIn(<<open>>, {")"}, 1) = 0
      /\ CountIn(<<")">>, Openers, 1) = 0 /\ CountIn(<<")">>, {")"}, 1) = 1
    BY <1>1, OneTokenBalance, OpenedClosed
<1>. HIDE DEF l
<1>9. /\ \A n \in 0..l : Opened(e, n + 1) = 1 + Opened(t, n)
      /\ \A n \in 0..l : Opened(t, n) \in Nat
      /\ Opened(e, l + 2) = 1 + Opened(t, l)
    <2>1. /\ \A n \in 0..l : CountIn(e, Openers, n + 1) = 1 + CountIn(t, Openers, n)
          /\ CountIn(e, Openers, l + 2) = (1 + CountIn(t, Openers, l)) + 0
          /\ \A n \in 0..l : CountIn(t, Openers, n) \in Nat
        BY <1>7, <1>8
    <2>2. l \in 0..l
        BY <1>1
    <2>3. CountIn(e, Openers, l + 2) = 1 + CountIn(t, Openers, l)
        BY <2>1, <2>2
    <2>. QED BY <2>1, <2>3, OpenedClosed
<1>10. /\ \A n \in 0..l : Closed(e, n + 1) = Closed(t, n)
       /\ \A n \in 0..l : Closed(t, n) \in Nat
       /\ Closed(e, l + 2) = Closed(t, l) + 1
    <2>1. /\ \A n \in 0..l : CountIn(e, {")"}, n + 1) = 0 + CountIn(t, {")"}, n)
          /\ CountIn(e, {")"}, l + 2) = (0 + CountIn(t, {")"}, l)) + 1
          /\ \A n \in 0..l : CountIn(t, {")"}, n) \in Nat
        BY <1>7, <1>8
    <2>2. l \in 0..l
        BY <1>1
    <2>3. /\ \A n \in 0..l : CountIn(e, {")"}, n + 1) = CountIn(t, {")"}, n)
          /\ CountIn(e, {")"}, l + 2) = CountIn(t, {")"}, l) + 1
        BY <2>1, <2>2
    <2>. QED BY <2>1, <2>3, OpenedClosed
<1>. QED BY <1>1, <1>4, <1>5, <1>6, <1>9, <1>10 DEF e, l

\* What (&, (! and ( enclose.
LEMMA InsideEnclosed ==
    ASSUME NEW open \in Openers, NEW t \in Seq(Tokens)
    PROVE  Inside(Enclosed(open, t)) = t
<1>. DEFINE e == Enclosed(open, t)
            l == Len(t)
            v == Inside(e)
<1>1. e \in Seq(Tokens) /\ l \in Nat /\ Len(e) = l + 2 /\ \A i \in 1..l : e[i + 1] = t[i]
    BY EnclosedParts
<1>. HIDE DEF e
<1>2. \A i \in 2..(l + 1) : e[i] \in Tokens
    BY <1>1, ElementOfSeq
<1>3. Len(e) - 1 = l + 1 /\ (l + 1) - 2 + 1 = l
    BY <1>1
<1>4. v = SubSeq(e, 2, l + 1)
    BY <1>3 DEF Inside
<1>. HIDE DEF l, v
<1>5. v \in Seq(Tokens) /\ Len(v) = (IF 2 <= l + 1 THEN (l + 1) - 2 + 1 ELSE 0) /\ \A i \in 1..((l + 1) - 2 + 1) : v[i] = e[2 + i - 1]
    BY <1>1, <1>2, <1>4, SubSeqProperties
<1>6. Len(v) = l
    BY <1>1, <1>5
<1>7. \A i \in 1..l : v[i] = t[i]
    <2>1. \A i \in 1..l : 2 + i - 1 = i + 1
        BY <1>1
    <2>. QED BY <1>1, <1>3, <1>5, <2>1
<1>8. v = t
    BY <1>5, <1>6, <1>7, SeqEqual DEF l
<1>. QED BY <1>8 DEF v, e

\* A filter opens with its first token and is closed by its last, and no sooner; the
\* filters of a set open where those before them are closed.
FilterShape(u) ==
    /\ u \in Seq(Tokens) /\ Len(u) \in Nat /\ Len(u) >= 2
    /\ u[1] \in Openers /\ u[Len(u)] = ")"
    /\ Balanced(u) /\ ~Doubled(u)
    /\ \A n \in 1..(Len(u) - 1) : Opened(u, n) > Closed(u, n)

ListShape(t) ==
    /\ t \in Seq(Tokens)
    /\ t # << >> => t[1] \in Openers /\ t[Len(t)] = ")"
    /\ Balanced(t) /\ ~Doubled(t)
    /\ \A n \in 0..Len(t) : Opened(t, n) >= Closed(t, n)

LEMMA EnclosedShape ==
    ASSUME NEW open \in Openers, NEW t \in Seq(Tokens), Balanced(t), ~Doubled(t),
           \A n \in 0..Len(t) : Opened(t, n) >= Closed(t, n),
           open = "(" /\ t # << >> => t[1] \notin Openers
    PROVE  FilterShape(Enclosed(open, t))
<1>. DEFINE e == Enclosed(open, t)
            l == Len(t)
<1>1. /\ e \in Seq(Tokens) /\ l \in Nat /\ Len(e) = l + 2
      /\ e[1] = open /\ e[l + 2] = ")" /\ \A i \in 1..l : e[i + 1] = t[i]
      /\ \A n \in 0..l : Opened(e, n + 1) = 1 + Opened(t, n) /\ Closed(e, n + 1) = Closed(t, n)
      /\ \A n \in 0..l : Opened(t, n) \in Nat /\ Closed(t, n) \in Nat
      /\ Opened(e, l + 2) = 1 + Opened(t, l) /\ Closed(e, l + 2) = Closed(t, l) + 1
    BY EnclosedParts
<1>. HIDE DEF e
<1>2. Balanced(e)
    <2>1. Opened(t, l) = Closed(t, l)
        BY DEF Balanced
    <2>2. Opened(t, l) \in Nat /\ Closed(t, l) \in Nat
        BY <1>1
    <2>. HIDE DEF l
    <2>. QED BY <1>1, <2>1, <2>2 DEF Balanced
<1>3. ASSUME NEW n \in 1..(Len(e) - 1) PROVE Opened(e, n) > Closed(e, n)
    <2>1. n - 1 \in 0..l /\ (n - 1) + 1 = n
        BY <1>1
    <2>2. Opened(e, n) = 1 + Opened(t, n - 1) /\ Closed(e, n) = Closed(t, n - 1)
        BY <1>1, <2>1
    <2>3. Opened(t, n - 1) >= Closed(t, n - 1) /\ Opened(t, n - 1) \in Nat /\ Closed(t, n - 1) \in Nat
        BY <1>1, <2>1
    <2>. QED BY <2>2, <2>3
<1>4. ASSUME NEW i \in 1..(Len(e) - 1), e[i] = "(", e[i + 1] \in Openers PROVE FALSE
    <2>1. CASE i = l + 1
        <3>1. i + 1 = l + 2
            BY <1>1, <2>1
        <3>2. ")" \notin Openers
            BY KindsOfTokens
        <3>. QED BY <1>1, <1>4, <3>1, <3>2
    <2>2. CASE i # l + 1 /\ i = 1
        <3>1. 1 \in 1..l /\ i + 1 = 1 + 1
            BY <1>1, <1>4, <2>2
        <3>2. t # << >>
            BY <3>1
        <3>3. e[i + 1] = t[1] /\ open = "("
            BY <1>1, <1>4, <2>2, <3>1
        <3>. QED BY <1>4, <3>2, <3>3
    <2>3. CASE i # l + 1 /\ i # 1
        <3>1. i - 1 \in 1..(l - 1) /\ i - 1 \in 1..l /\ i \in 1..l /\ (i - 1) + 1 = i
            BY <1>1, <2>3
        <3>2. t[i - 1] = "(" /\ t[(i - 1) + 1] \in Openers
            BY <1>1, <1>4, <3>1
        <3>. QED BY <3>1, <3>2 DEF Doubled
    <2>. QED BY <2>1, <2>2, <2>3
<1>5. Len(e) \in Nat /\ Len(e) >= 2 /\ e[Len(e)] = ")"
    BY <1>1
<1>6. ~Doubled(e)
    BY <1>4 DEF Doubled
<1>. QED BY <1>1, <1>2, <1>3, <1>5, <1>6 DEF FilterShape, e

LEMMA ItemShape ==
    ASSUME NEW t \in Seq(Tokens), IsItem(t)
    PROVE  FilterShape(Enclosed("(", t))
<1>1. Len(t) \in Nat /\ Len(t) >= 1
    BY EmptySeq, LenProperties DEF IsItem
<1>2. \A i \in 1..Len(t) : t[i] \notin Openers /\ t[i] \notin {")"}
    <2>1. "blank" \notin Openers /\ "blank" # ")"
        BY DEF Openers
    <2>2. \A x \in Items : x \notin Openers /\ x # ")"
        BY ItemsAssumption
    <2>3. \A i \in 1..Len(t) : i = 1 \/ i \in 2..Len(t)
        BY <1>1
    <2>. QED BY <2>1, <2>2, <2>3, KindsOfTokens DEF IsItem
<1>3. ASSUME NEW n \in 0..Len(t) PROVE Opened(t, n) = 0 /\ Closed(t, n) = 0
    <2>1. n \in Nat /\ \A i \in 1..n : i \in 1..Len(t)
        BY <1>1
    <2>2. CountIn(t, Openers, n) = 0 /\ CountIn(t, {")"}, n) = 0
        BY <1>2, <2>1, CountNone
    <2>. QED BY <2>2, OpenedClosed
<1>4. Balanced(t)
    <2>1. Len(t) \in 0..Len(t)
        BY <1>1
    <2>. QED BY <1>3, <2>1 DEF Balanced
<1>5. ~Doubled(t)
    <2>1. \A i \in 1..(Len(t) - 1) : i + 1 \in 1..Len(t)
        BY <1>1
    <2>. QED BY <1>2, <2>1 DEF Doubled
<1>6. \A n \in 0..Len(t) : Opened(t, n) >= Closed(t, n)
    BY <1>3
<1>7. 1 \in 1..Len(t)
    BY <1>1
<1>. QED BY <1>2, <1>4, <1>5, <1>6, <1>7, KindsOfTokens, EnclosedShape

LEMMA ListShapeMore ==
    ASSUME NEW t, ListShape(t), NEW u, FilterShape(u)
    PROVE  ListShape(t \o u)
<1>. DEFINE x == t \o u
            l == Len(t)
            m == Len(u)
<1>1. t \in Seq(Tokens) /\ u \in Seq(Tokens)
    BY DEF ListShape, FilterShape
<1>2. l \in Nat /\ m \in Nat /\ m >= 2
    BY <1>1, LenProperties DEF FilterShape
<1>3. x \in Seq(Tokens) /\ Len(x) = l + m /\ \A i \in 1..(l + m) : x[i] = IF i <= l THEN t[i] ELSE u[i - l]
    BY <1>1, ConcatProperties
<1>4. /\ \A n \in 0..l : Opened(x, n) = Opened(t, n) /\ Closed(x, n) = Closed(t, n)
      /\ \A n \in 0..m : Opened(x, l + n) = Opened(t, l) + Opened(u, n) /\ Closed(x, l + n) = Closed(t, l) + Closed(u, n)
    BY <1>1, CountBefore, CountAfter, OpenedClosed
<1>5. /\ \A n \in 0..l : Opened(t, n) \in Nat /\ Closed(t, n) \in Nat
      /\ \A n \in 0..m : Opened(u, n) \in Nat /\ Closed(u, n) \in Nat
    <2>1. (\A n \in 0..l : n \in Nat) /\ (\A n \in 0..m : n \in Nat)
        BY <1>2
    <2>. QED BY <2>1, CountStep, OpenedClosed
<1>6. Opened(t, l) = Closed(t, l) /\ Opened(u, m) = Closed(u, m)
    BY DEF ListShape, FilterShape, Balanced
<1>7. \A n \in 0..l : Opened(t, n) >= Closed(t, n)
    BY DEF ListShape
<1>8. \A n \in 1..(m - 1) : Opened(u, n) > Closed(u, n)
    BY DEF FilterShape
<1>. HIDE DEF x, l, m
<1>9. ASSUME NEW n \in 0..(l + m) PROVE Opened(x, n) >= Closed(x, n)
    <2>1. CASE n <= l
        <3>1. n \in 0..l
            BY <1>2, <2>1
        <3>. QED BY <1>4, <1>7, <3>1
    <2>2. CASE n > l
        <3>. DEFINE k == n - l
        <3>1. k \in 0..m /\ l + k = n /\ l \in 0..l /\ (k \in 1..(m - 1) \/ k = m)
            BY <1>2, <2>2
        <3>. HIDE DEF k
        <3>2. Opened(x, n) = Opened(t, l) + Opened(u, k) /\ Closed(x, n) = Closed(t, l) + Closed(u, k)
            BY <1>4, <3>1
        <3>3. Opened(t, l) \in Nat /\ Opened(u, k) \in Nat /\ Closed(u, k) \in Nat
            BY <1>5, <3>1
        <3>4. Opened(u, k) >= Closed(u, k)
            <4>1. CASE k = m
                BY <1>6, <3>3, <4>1
            <4>2. CASE k \in 1..(m - 1)
                BY <1>8, <3>3, <4>2
            <4>. QED BY <3>1, <4>1, <4>2
        <3>. QED BY <1>6, <3>2, <3>3, <3>4
    <2>. QED BY <1>2, <2>1, <2>2
<1>10. Balanced(x)
    <2>1. l \in 0..l /\ m \in 0..m
        BY <1>2
    <2>2. Opened(x, l + m) = Opened(t, l) + Opened(u, m) /\ Closed(x, l + m) = Closed(t, l) + Closed(u, m)
        BY <1>4, <2>1
    <2>. QED BY <1>3, <1>6, <2>2 DEF Balanced
<1>11. u[1] \in Openers /\ u[m] = ")"
    BY DEF FilterShape, m
<1>12. t # << >> => l >= 1 /\ t[1] \in Openers /\ t[l] = ")"
    BY <1>1, EmptySeq DEF ListShape, l
<1>13. t = << >> => l = 0
    BY DEF l
<1>14. x[1] \in Openers /\ x[l + m] = ")"
    <2>1. 1 \in 1..(l + m) /\ l + m \in 1..(l + m) /\ ~(l + m <= l) /\ (l + m) - l = m
        BY <1>2
    <2>2. x[l + m] = ")"
        BY <1>3, <1>11, <2>1
    <2>3. CASE t = << >>
        <3>1. ~(1 <= l) /\ 1 - l = 1
            BY <1>13, <2>3
        <3>2. x[1] = u[1]
            BY <1>3, <2>1, <3>1
        <3>. QED BY <1>11, <2>2, <3>2
    <2>4. CASE t # << >>
        <3>1. 1 <= l
            BY <1>2, <1>12, <2>4
        <3>2. x[1] = t[1]
            BY <1>3, <2>1, <3>1
        <3>. QED BY <1>12, <2>2, <2>4, <3>2
    <2>. QED BY <2>3, <2>4
<1>15. ASSUME NEW i \in 1..(l + m - 1), x[i] = "(", x[i + 1] \in Openers PROVE FALSE
    <2>1. i \in 1..(l + m) /\ i + 1 \in 1..(l + m)
        BY <1>2
    <2>2. CASE i < l
        <3>1. i <= l /\ i + 1 <= l /\ i \in 1..(l - 1)
            BY <1>2, <2>2
        <3>2. t[i] = "(" /\ t[i + 1] \in Openers
            BY <1>3, <1>15, <2>1, <3>1
        <3>. QED BY <3>1, <3>2 DEF ListShape, Doubled, l
    <2>3. CASE i = l
        <3>1. i <= l /\ l # 0
            BY <1>2, <2>3
        <3>2. x[i] = t[l]
            BY <1>3, <2>1, <2>3, <3>1
        <3>. QED BY <1>12, <1>13, <1>15, <3>1, <3>2
    <2>4. CASE i > l
        <3>1. ~(i <= l) /\ ~(i + 1 <= l) /\ i - l \in 1..(m - 1) /\ (i + 1) - l = (i - l) + 1
            BY <1>2, <2>4
        <3>2. u[i - l] = "(" /\ u[(i - l) + 1] \in Openers
            BY <1>3, <1>15, <2>1, <3>1
        <3>. QED BY <3>1, <3>2 DEF FilterShape, Doubled, m
    <2>. QED BY <1>2, <2>2, <2>3, <2>4
<1>16. ~Doubled(x)
    <2>. SUFFICES ASSUME Doubled(x) PROVE FALSE
        OBVIOUS
    <2>1. PICK i \in 1..(Len(x) - 1) : x[i] = "(" /\ x[i + 1] \in Openers
        BY Zenon DEF Doubled
    <2>2. Len(x) = l + m
        BY <1>3
    <2>3. i \in 1..(l + m - 1)
        BY <1>2, <2>1, <2>2
    <2>. QED BY <1>15, <2>1, <2>3
<1>. QED BY <1>3, <1>9, <1>10, <1>14, <1>16 DEF ListShape, x

Shaped(x) ==
    /\ \A u, f : x = <<"filter", u, f>> => FilterShape(u)
    /\ \A t, fs : x = <<"list", t, fs>> =>
          ListShape(t) /\ fs \in Seq(Range(fs)) /\ (t = << >> => fs = << >>)

\* What derives x is derived itself.
LEMMA DerivedBy ==
    ASSUME NEW lax, NEW x, Derivable(lax, x)
    PROVE  \E D : Follows(lax, x, D) /\ \A y \in D : Derivable(lax, y)
<1>1. PICK d : Derivation(lax, d) /\ x \in Range(d)
    BY DEF Derivable
<1>2. PICK i \in DOMAIN d : x = d[i]
    BY <1>1 DEF Range
<1>3. DOMAIN d = 1..Len(d) /\ Len(d) \in Nat
    BY <1>1, LenProperties DEF Derivation
<1>. DEFINE D == {d[j] : j \in 1..(i - 1)}
<1>4. Follows(lax, x, D)
    BY <1>1, <1>2 DEF Derivation
<1>5. \A y \in D : y \in Range(d)
    <2>1. \A j \in 1..(i - 1) : j \in DOMAIN d
        BY <1>2, <1>3
    <2>. QED BY <2>1 DEF Range
<1>6. \A y \in D : Derivable(lax, y)
    BY <1>1, <1>5 DEF Derivable
<1>. QED BY <1>4, <1>6

LEMMA ShapedStep ==
    ASSUME NEW x, NEW D, Follows(FALSE, x, D), \A y \in D : Shaped(y)
    PROVE  Shaped(x)
<1>1. CASE ItemFor(x)
    <2>1. PICK t \in Seq(Tokens) : IsItem(t) /\ x = <<"filter", Enclosed("(", t), Leaf(t)>>
        BY <1>1 DEF ItemFor
    <2>2. FilterShape(Enclosed("(", t))
        BY <2>1, ItemShape
    <2>. QED BY <2>1, <2>2 DEF Shaped
<1>2. CASE SetFor(x, D)
    <2>1. PICK t, fs : <<"list", t, fs>> \in D /\ x = <<"filter", Enclosed("(&", t), Set(fs)>>
        BY <1>2 DEF SetFor
    <2>2. ListShape(t)
        BY <2>1 DEF Shaped
    <2>3. FilterShape(Enclosed("(&", t))
        <3>1. "(&" # "("
            OBVIOUS
        <3>. QED BY <2>2, <3>1, KindsOfTokens, EnclosedShape DEF ListShape
    <2>. QED BY <2>1, <2>3 DEF Shaped
<1>3. CASE NotFor(x, D)
    <2>1. PICK t, f : <<"filter", t, f>> \in D /\ x = <<"filter", Enclosed("(!", t), Not(f)>>
        BY <1>3 DEF NotFor
    <2>2. FilterShape(t)
        BY <2>1 DEF Shaped
    <2>3. t \in Seq(Tokens) /\ Balanced(t) /\ ~Doubled(t)
        BY <2>2 DEF FilterShape
    <2>4. \A n \in 0..Len(t) : Opened(t, n) >= Closed(t, n)
        <3>1. /\ Len(t) \in Nat /\ Opened(t, Len(t)) = Closed(t, Len(t))
              /\ \A n \in 1..(Len(t) - 1) : Opened(t, n) > Closed(t, n)
            BY <2>2 DEF FilterShape, Balanced
        <3>2. \A n \in 0..Len(t) : n \in Nat /\ (n = 0 \/ n = Len(t) \/ n \in 1..(Len(t) - 1))
            BY <3>1
        <3>3. \A n \in Nat : Opened(t, n) \in Nat /\ Closed(t, n) \in Nat
            BY CountStep, OpenedClosed
        <3>4. Opened(t, 0) = 0 /\ Closed(t, 0) = 0
            BY CountStep, OpenedClosed
        <3>5. ASSUME NEW n \in 0..Len(t) PROVE Opened(t, n) >= Closed(t, n)
            <4>1. Opened(t, n) \in Nat /\ Closed(t, n) \in Nat
                BY <3>2, <3>3
            <4>2. CASE n = 0
                BY <3>4, <4>2
            <4>3. CASE n = Len(t)
                BY <3>1, <4>1, <4>3
            <4>4. CASE n \in 1..(Len(t) - 1)
                BY <3>1, <4>1, <4>4
            <4>. QED BY <3>2, <4>2, <4>3, <4>4
        <3>. QED BY <3>5
    <2>5. FilterShape(Enclosed("(!", t))
        <3>1. "(!" # "("
            OBVIOUS
        <3>. QED BY <2>3, <2>4, <3>1, KindsOfTokens, EnclosedShape
    <2>. QED BY <2>1, <2>5 DEF Shaped
<1>4. CASE EmptyFor(x)
    <2>1. x = <<"list", << >>, << >> >>
        BY <1>4 DEF EmptyFor
    <2>2. ListShape(<< >>)
        <3>1. << >> \in Seq(Tokens) /\ Len(<< >>) = 0 /\ Blank(<< >>)
            BY EmptySeq, EmptyAny DEF Blank
        <3>2. Opened(<< >>, 0) = 0 /\ Closed(<< >>, 0) = 0
            BY CountStep, OpenedClosed
        <3>3. \A n \in 0..0 : Opened(<< >>, n) >= Closed(<< >>, n)
            BY <3>2
        <3>. QED BY <3>1, <3>2, <3>3 DEF ListShape, Balanced, Doubled
    <2>3. << >> \in Seq(Range(<< >>))
        BY EmptyAny
    <2>. QED BY <2>1, <2>2, <2>3 DEF Shaped
<1>5. CASE MoreFor(x, D)
    <2>1. PICK t, fs, u, f : /\ <<"list", t, fs>> \in D /\ <<"filter", u, f>> \in D
                             /\ x = <<"list", t \o u, Append(fs, f)>>
        BY <1>5 DEF MoreFor
    <2>2. ListShape(t) /\ fs \in Seq(Range(fs)) /\ FilterShape(u)
        BY <2>1 DEF Shaped
    <2>3. ListShape(t \o u)
        BY <2>2, ListShapeMore
    <2>4. Append(fs, f) \in Seq(Range(Append(fs, f)))
        BY <2>2, AppendAny
    <2>5. t \o u # << >>
        <3>1. t \in Seq(Tokens) /\ u \in Seq(Tokens) /\ Len(u) \in Nat /\ Len(u) >= 2
            BY <2>2 DEF ListShape, FilterShape
        <3>2. Len(t \o u) = Len(t) + Len(u) /\ Len(t) \in Nat
            BY <3>1, ConcatProperties, LenProperties
        <3>3. Len(t \o u) # 0
            BY <3>1, <3>2
        <3>. QED BY <3>3
    <2>. QED BY <2>1, <2>3, <2>4, <2>5 DEF Shaped
<1>. QED BY <1>1, <1>2, <1>3, <1>4, <1>5 DEF Follows

LEMMA DerivableShaped ==
    ASSUME NEW x, Derivable(FALSE, x)
    PROVE  Shaped(x)
<1>1. PICK d : Derivation(FALSE, d) /\ x \in Range(d)
    BY DEF Derivable
<1>2. DOMAIN d = 1..Len(d) /\ Len(d) \in Nat
    BY <1>1, LenProperties DEF Derivation
<1>. DEFINE T == {i \in DOMAIN d : ~Shaped(d[i])}
<1>3. ASSUME T # {} PROVE FALSE
    <2>1. PICK i \in T : \A j \in T : i <= j
        <3>1. T \subseteq 1..Len(d)
            BY <1>2
        <3>. HIDE DEF T
        <3>. QED BY <1>2, <1>3, <3>1, FirstPosition
    <2>2. \A j \in 1..(i - 1) : j \in DOMAIN d /\ ~(i <= j)
        BY <1>2
    <2>3. \A y \in {d[j] : j \in 1..(i - 1)} : Shaped(y)
        BY <2>1, <2>2
    <2>4. Follows(FALSE, d[i], {d[j] : j \in 1..(i - 1)})
        BY <1>1 DEF Derivation
    <2>5. Shaped(d[i])
        BY <2>3, <2>4, ShapedStep
    <2>. QED BY <2>5
<1>. QED BY <1>1, <1>3 DEF Range

LEMMA ShapeOfFilter ==
    ASSUME NEW u, NEW f, Derivable(FALSE, <<"filter", u, f>>)
    PROVE  FilterShape(u)
<1>1. Shaped(<<"filter", u, f>>)
    BY DerivableShaped
<1>. QED BY <1>1, Zenon DEF Shaped

LEMMA ShapeOfList ==
    ASSUME NEW t, NEW fs, Derivable(FALSE, <<"list", t, fs>>)
    PROVE  ListShape(t) /\ fs \in Seq(Range(fs))
<1>. DEFINE x == <<"list", t, fs>>
<1>1. Shaped(x) /\ x = <<"list", t, fs>>
    BY DerivableShaped
<1>. HIDE DEF x
<1>2. \A v, gs : x = <<"list", v, gs>> => ListShape(v) /\ gs \in Seq(Range(gs))
    BY <1>1, Zenon DEF Shaped
<1>. QED BY <1>1, <1>2

LEMMA ListEmpty ==
    ASSUME NEW t, NEW fs, Derivable(FALSE, <<"list", t, fs>>), t = << >>
    PROVE  fs = << >>
<1>. DEFINE x == <<"list", t, fs>>
<1>1. Shaped(x) /\ x = <<"list", t, fs>>
    BY DerivableShaped
<1>. HIDE DEF x
<1>2. \A v, gs : x = <<"list", v, gs>> => (v = << >> => gs = << >>)
    BY <1>1, Zenon DEF Shaped
<1>. QED BY <1>1, <1>2

\* A filter is an item, a set of what a list derives, or a not of a filter.
LEMMA FilterParts ==
    ASSUME NEW u, NEW f, Derivable(FALSE, <<"filter", u, f>>)
    PROVE  \/ \E t \in Seq(Tokens) : IsItem(t) /\ u = Enclosed("(", t) /\ f = Leaf(t)
           \/ \E t, fs : Derivable(FALSE, <<"list", t, fs>>) /\ u = Enclosed("(&", t) /\ f = Set(fs)
           \/ \E t, g : /\ Derivable(FALSE, <<"filter", t, g>>) /\ u = Enclosed("(!", t) /\ f = Not(g)
                        /\ ~(Size(u) < 8)
<1>. DEFINE x == <<"filter", u, f>>
<1>1. PICK D : Follows(FALSE, x, D) /\ \A y \in D : Derivable(FALSE, y)
    BY DerivedBy
<1>2. CASE ItemFor(x)
    BY <1>2 DEF ItemFor
<1>3. CASE SetFor(x, D)
    BY <1>1, <1>3 DEF SetFor
<1>4. CASE NotFor(x, D)
    BY <1>1, <1>4 DEF NotFor
<1>5. ~EmptyFor(x) /\ ~MoreFor(x, D)
    BY DEF EmptyFor, MoreFor
<1>. HIDE DEF x
<1>. QED BY <1>1, <1>2, <1>3, <1>4, <1>5 DEF Follows

LEMMA AppendBehind ==
    ASSUME NEW gs, gs \in Seq(Range(gs)), NEW f, NEW g
    PROVE  Append(<<f>> \o gs, g) = <<f>> \o Append(gs, g)
<1>. DEFINE S == Range(gs) \cup {f, g}
            a == <<f>>
            b == <<g>>
<1>1. gs \in Seq(S)
    BY SeqMonotonic
<1>2. a \in Seq(S) /\ b \in Seq(S) /\ g \in S
    OBVIOUS
<1>. HIDE DEF S
<1>3. Append(gs, g) = gs \o b
    BY <1>1, <1>2, AppendIsConcat
<1>4. a \o gs \in Seq(S)
    BY <1>1, <1>2, ConcatProperties
<1>5. Append(a \o gs, g) = (a \o gs) \o b
    <2>. DEFINE c == a \o gs
    <2>1. c \in Seq(S)
        BY <1>4
    <2>. HIDE DEF c
    <2>2. Append(c, g) = c \o b
        BY <1>2, <2>1, AppendIsConcat
    <2>. QED BY <2>2 DEF c
<1>6. (a \o gs) \o b = a \o (gs \o b)
    <2>. HIDE DEF a, b
    <2>. QED BY <1>1, <1>2, ConcatAssociative
<1>. QED BY <1>3, <1>5, <1>6

\* The filters of a set are read from the left: a list that is not empty is a filter and
\* the list of those that follow it.
Headed(t, fs) ==
    \E u, f, w, gs : /\ Derivable(FALSE, <<"filter", u, f>>) /\ Derivable(FALSE, <<"list", w, gs>>)
                     /\ t = u \o w /\ fs = <<f>> \o gs

HasHead(x) == \A t, fs : x = <<"list", t, fs>> /\ t # << >> => Headed(t, fs)

LEMMA HasHeadStep ==
    ASSUME NEW x, NEW D, Follows(FALSE, x, D), \A y \in D : HasHead(y) /\ Derivable(FALSE, y)
    PROVE  HasHead(x)
<1>1. SUFFICES ASSUME NEW t, NEW fs, x = <<"list", t, fs>>, t # << >> PROVE Headed(t, fs)
    BY DEF HasHead
<1>2. MoreFor(x, D)
    <2>1. ~ItemFor(x) /\ ~SetFor(x, D) /\ ~NotFor(x, D)
        BY <1>1 DEF ItemFor, SetFor, NotFor
    <2>2. ~EmptyFor(x)
        BY <1>1 DEF EmptyFor
    <2>. QED BY <2>1, <2>2 DEF Follows
<1>3. PICK t0, fs0, u0, f0 : /\ <<"list", t0, fs0>> \in D /\ <<"filter", u0, f0>> \in D
                             /\ x = <<"list", t0 \o u0, Append(fs0, f0)>>
    BY <1>2 DEF MoreFor
<1>4. t = t0 \o u0 /\ fs = Append(fs0, f0)
    BY <1>1, <1>3
<1>5. Derivable(FALSE, <<"list", t0, fs0>>) /\ Derivable(FALSE, <<"filter", u0, f0>>) /\ HasHead(<<"list", t0, fs0>>)
    BY <1>3
<1>6. /\ ListShape(t0) /\ fs0 \in Seq(Range(fs0)) /\ (t0 = << >> => fs0 = << >>)
      /\ FilterShape(u0)
    <2>1. ListShape(t0) /\ fs0 \in Seq(Range(fs0)) /\ (t0 = << >> => fs0 = << >>)
        <3>1. Derivable(FALSE, <<"list", t0, fs0>>)
            BY <1>5
        <3>2. ListShape(t0) /\ fs0 \in Seq(Range(fs0))
            BY <3>1, ShapeOfList
        <3>3. t0 = << >> => fs0 = << >>
            BY <3>1, ListEmpty
        <3>. QED BY <3>2, <3>3
    <2>2. FilterShape(u0)
        BY <1>5, ShapeOfFilter
    <2>. QED BY <2>1, <2>2
<1>7. t0 \in Seq(Tokens) /\ u0 \in Seq(Tokens)
    BY <1>6 DEF ListShape, FilterShape
<1>8. CASE t0 = << >>
    <2>1. t = u0 \o << >> /\ fs0 = << >>
        BY <1>4, <1>6, <1>7, <1>8, ConcatEmptySeq
    <2>2. fs = <<f0>> \o << >>
        BY <1>4, <2>1
    <2>3. Derivable(FALSE, <<"list", << >>, << >> >>)
        BY DerivableList
    <2>. QED BY <1>5, <2>1, <2>2, <2>3, Zenon DEF Headed
<1>9. CASE t0 # << >>
    <2>1. PICK u, f, w, gs : /\ Derivable(FALSE, <<"filter", u, f>>) /\ Derivable(FALSE, <<"list", w, gs>>)
                             /\ t0 = u \o w /\ fs0 = <<f>> \o gs
        <3>1. Headed(t0, fs0)
            BY <1>5, <1>9, Zenon DEF HasHead
        <3>. QED BY <3>1, Zenon DEF Headed
    <2>2. u \in Seq(Tokens) /\ w \in Seq(Tokens) /\ gs \in Seq(Range(gs))
        <3>1. FilterShape(u) /\ ListShape(w) /\ gs \in Seq(Range(gs))
            BY <2>1, ShapeOfFilter, ShapeOfList
        <3>. QED BY <3>1 DEF FilterShape, ListShape
    <2>3. t = u \o (w \o u0)
        <3>1. (u \o w) \o u0 = u \o (w \o u0)
            BY <1>7, <2>2, ConcatAssociative
        <3>. QED BY <1>4, <2>1, <3>1
    <2>4. fs = <<f>> \o Append(gs, f0)
        <3>1. Append(<<f>> \o gs, f0) = <<f>> \o Append(gs, f0)
            BY <2>2, AppendBehind
        <3>. QED BY <1>4, <2>1, <3>1
    <2>5. Derivable(FALSE, <<"list", w \o u0, Append(gs, f0)>>)
        BY <1>5, <2>1, DerivableList
    <2>. QED BY <2>1, <2>3, <2>4, <2>5, Zenon DEF Headed
<1>. QED BY <1>8, <1>9

LEMMA ListHead ==
    ASSUME NEW t, NEW fs, Derivable(FALSE, <<"list", t, fs>>), t # << >>
    PROVE  Headed(t, fs)
<1>. DEFINE x == <<"list", t, fs>>
<1>1. PICK d : Derivation(FALSE, d) /\ x \in Range(d)
    BY DEF Derivable
<1>2. DOMAIN d = 1..Len(d) /\ Len(d) \in Nat
    BY <1>1, LenProperties DEF Derivation
<1>. DEFINE T == {i \in DOMAIN d : ~HasHead(d[i])}
<1>3. ASSUME T # {} PROVE FALSE
    <2>1. PICK i \in T : \A j \in T : i <= j
        <3>1. T \subseteq 1..Len(d)
            BY <1>2
        <3>. HIDE DEF T
        <3>. QED BY <1>2, <1>3, <3>1, FirstPosition
    <2>2. \A j \in 1..(i - 1) : j \in DOMAIN d /\ ~(i <= j) /\ d[j] \in Range(d)
        <3>1. \A j \in 1..(i - 1) : j \in DOMAIN d /\ ~(i <= j)
            BY <1>2
        <3>. QED BY <3>1 DEF Range
    <2>3. \A y \in {d[j] : j \in 1..(i - 1)} : HasHead(y) /\ Derivable(FALSE, y)
        <3>1. \A j \in 1..(i - 1) : HasHead(d[j])
            BY <2>1, <2>2
        <3>2. \A j \in 1..(i - 1) : Derivable(FALSE, d[j])
            BY <1>1, <2>2, Zenon DEF Derivable
        <3>. QED BY <3>1, <3>2
    <2>4. Follows(FALSE, d[i], {d[j] : j \in 1..(i - 1)})
        BY <1>1 DEF Derivation
    <2>5. HasHead(d[i])
        BY <2>3, <2>4, HasHeadStep
    <2>. QED BY <2>5
<1>4. HasHead(x)
    BY <1>1, <1>3 DEF Range
<1>. QED BY <1>4, Zenon DEF HasHead

\* splitFilterParts finds the end of the first filter of a list.
LEMMA PartOfList ==
    ASSUME NEW u, FilterShape(u), NEW w, ListShape(w)
    PROVE  PartEnd(u \o w) = Len(u)
<1>. DEFINE s == u \o w
            m == Len(u)
            l == Len(w)
            End(n) == (n = Len(s) \/ Begins(s, n + 1)) /\ \A i \in 2..n : ~Begins(s, i)
<1>1. u \in Seq(Tokens) /\ w \in Seq(Tokens)
    BY DEF FilterShape, ListShape
<1>2. m \in Nat /\ l \in Nat /\ m >= 2
    BY <1>1, LenProperties DEF FilterShape
<1>3. s \in Seq(Tokens) /\ Len(s) = m + l /\ \A i \in 1..(m + l) : s[i] = IF i <= m THEN u[i] ELSE w[i - m]
    BY <1>1, ConcatProperties
<1>4. \A n \in 0..m : Opened(s, n) = Opened(u, n) /\ Closed(s, n) = Closed(u, n)
    BY <1>1, CountBefore, OpenedClosed
<1>5. \A n \in 0..m : Opened(u, n) \in Nat /\ Closed(u, n) \in Nat
    <2>1. \A n \in 0..m : n \in Nat
        BY <1>2
    <2>. QED BY <2>1, CountStep, OpenedClosed
<1>6. Opened(u, m) = Closed(u, m) /\ \A n \in 1..(m - 1) : Opened(u, n) > Closed(u, n)
    BY DEF FilterShape, Balanced
<1>7. w # << >> => l >= 1 /\ w[1] \in Openers
    BY <1>1, EmptySeq DEF ListShape
<1>8. w = << >> => l = 0
    OBVIOUS
<1>. HIDE DEF s, m, l
<1>9. ASSUME NEW i \in 2..m PROVE ~Begins(s, i)
    <2>1. i - 1 \in 0..m /\ i - 1 \in 1..(m - 1)
        BY <1>2
    <2>2. Opened(s, i - 1) = Opened(u, i - 1) /\ Closed(s, i - 1) = Closed(u, i - 1) /\ Opened(u, i - 1) > Closed(u, i - 1)
          /\ Opened(u, i - 1) \in Nat /\ Closed(u, i - 1) \in Nat
        BY <1>4, <1>5, <1>6, <2>1
    <2>3. Opened(s, i - 1) # Closed(s, i - 1)
        BY <2>2
    <2>. QED BY <2>3 DEF Begins
<1>10. m = Len(s) \/ Begins(s, m + 1)
    <2>1. CASE w = << >>
        BY <1>2, <1>3, <1>8, <2>1
    <2>2. CASE w # << >>
        <3>1. m + 1 \in 1..(m + l) /\ ~(m + 1 <= m) /\ (m + 1) - m = 1 /\ (m + 1) - 1 = m /\ m \in 0..m
            BY <1>2, <1>7, <2>2
        <3>2. s[m + 1] \in Openers
            BY <1>3, <1>7, <2>2, <3>1
        <3>3. Opened(s, m) = Closed(s, m)
            BY <1>4, <1>6, <3>1
        <3>. QED BY <3>1, <3>2, <3>3 DEF Begins
    <2>. QED BY <2>1, <2>2
<1>11. m \in 1..Len(s) /\ End(m)
    <2>1. m \in 1..Len(s)
        BY <1>2, <1>3
    <2>. QED BY <1>9, <1>10, <2>1
<1>12. ASSUME NEW n \in 1..Len(s), End(n) PROVE n = m
    <2>1. CASE n < m
        <3>1. n # Len(s) /\ n + 1 \in 2..m
            BY <1>2, <1>3, <2>1
        <3>. QED BY <1>9, <1>12, <3>1
    <2>2. CASE n > m
        <3>1. m # Len(s) /\ m + 1 \in 2..n
            BY <1>2, <1>12, <2>2
        <3>. QED BY <1>10, <1>12, <3>1
    <2>3. n < m \/ n > m \/ n = m
        BY <1>2, <1>12
    <2>. QED BY <2>1, <2>2, <2>3
<1>13. (CHOOSE n \in 1..Len(s) : End(n)) = m
    <2>. HIDE DEF End
    <2>. QED BY <1>11, <1>12
<1>14. PartEnd(s) = CHOOSE n \in 1..Len(s) : End(n)
    BY Zenon DEF PartEnd
<1>. QED BY <1>13, <1>14 DEF s, m

-----------------------------------------------------------------------------
(* What has a derivation is accepted                                       *)

\* The frame r is going to return goal; next is what the call it waits for has to return.
Owes(r, goal, next, waiting) ==
    /\ r.kind = "set" =>
         \E gs : /\ Derivable(FALSE, <<"list", r.rest, gs>>)
                 /\ waiting => goal = Set(Append(r.kids, next) \o gs)
                 /\ ~waiting => goal = Set(r.kids \o gs)
    /\ r.kind = "not" =>
         /\ waiting => r.kids = << >> /\ goal = Not(next)
         /\ ~waiting => \/ r.kids = << >> /\ \E f : Derivable(FALSE, <<"filter", r.rest, f>>) /\ goal = Not(f)
                        \/ \E f : r.kids = <<f>> /\ goal = Not(f)

\* The calls of the stack st are going to return the goals, the first of which is whole;
\* the text of the call being made, if one is, derives the last.
Owing(whole, m, st, part, goals) ==
    /\ goals[1] = whole
    /\ \A i \in 1..Len(st) : Owes(st[i], goals[i], goals[i + 1], Waiting(m, Len(st), i))
    /\ m = "parse" => Derivable(FALSE, <<"filter", part, goals[Len(st) + 1]>>)

Heading(f) ==
    /\ mode \notin {"error", "panic"}
    /\ mode = "done" => result = f
    /\ mode \notin Final => \E goals : Owing(f, mode, stack, arg, goals)

\* A filter that NewFilter has to return is the only one it may return, and it does not fail.
DerivedIsAccepted ==
    \A f : Derivable(FALSE, <<"filter", text, f>>)
              => mode \notin {"error", "panic"} /\ (mode = "done" => result = f)

OnCourse == \A f : Derivable(FALSE, <<"filter", text, f>>) => Heading(f)

LEMMA OwesAnswer ==
    ASSUME NEW r, NEW goal, NEW f, Owes(r, goal, f, TRUE),
           NEW g, g.kind = r.kind, g.rest = r.rest, g.kids = Append(r.kids, f), NEW next
    PROVE  Owes(g, goal, next, FALSE)
<1>1. ASSUME g.kind = "set"
      PROVE  \E gs : Derivable(FALSE, <<"list", g.rest, gs>>) /\ goal = Set(g.kids \o gs)
    BY <1>1 DEF Owes
<1>2. ASSUME g.kind = "not" PROVE \E h : g.kids = <<h>> /\ goal = Not(h)
    <2>1. r.kids = << >> /\ goal = Not(f)
        BY <1>2 DEF Owes
    <2>2. g.kids = <<f>>
        BY <2>1
    <2>. QED BY <2>1, <2>2
<1>. QED BY <1>1, <1>2 DEF Owes

LEMMA OwingAnswer ==
    ASSUME NEW whole, NEW st, st \in Seq(Range(st)), st # << >>, \A i \in DOMAIN st : IsFrame(st[i]),
           NEW goals, goals[1] = whole,
           \A i \in 1..Len(st) : Owes(st[i], goals[i], goals[i + 1], TRUE),
           NEW part
    PROVE  Owing(whole, "loop", [st EXCEPT ![Len(st)].kids = Append(@, goals[Len(st) + 1])], part, goals)
<1>. DEFINE n == Len(st)
            r == st[n]
            f == goals[n + 1]
            g == [r EXCEPT !.kids = Append(@, f)]
            s2 == [st EXCEPT ![n] = g]
<1>1. n \in Nat \ {0} /\ DOMAIN st = 1..n /\ n \in DOMAIN st
    BY EmptySeq, LenProperties
<1>2. IsFrame(r)
    BY <1>1
<1>3. s2 \in Seq(Range(s2)) /\ Len(s2) = n /\ \A i \in DOMAIN st : s2[i] = IF i = n THEN g ELSE st[i]
    <2>. HIDE DEF g
    <2>. QED BY <1>1, ExceptAny
<1>4. g.kind = r.kind /\ g.rest = r.rest /\ g.kids = Append(r.kids, f)
    <2>1. g = [kind |-> r.kind, rest |-> r.rest, kids |-> Append(r.kids, f)]
        <3>. HIDE DEF r, f
        <3>. QED BY <1>2, FrameWith
    <2>. HIDE DEF g
    <2>. QED BY <2>1
<1>5. Owes(r, goals[n], f, TRUE)
    BY <1>1
<1>. HIDE DEF g, r, f
<1>6. Owes(g, goals[n], goals[n + 1], FALSE)
    BY <1>4, <1>5, OwesAnswer
<1>. HIDE DEF s2
<1>7. ASSUME NEW i \in 1..n PROVE Owes(s2[i], goals[i], goals[i + 1], Waiting("loop", n, i))
    <2>1. CASE i = n
        <3>1. Waiting("loop", n, n) = FALSE
            BY <1>1 DEF Waiting
        <3>2. s2[n] = g
            BY <1>1, <1>3
        <3>. HIDE DEF n
        <3>. QED BY <1>6, <2>1, <3>1, <3>2
    <2>2. CASE i # n
        <3>0. \A k \in Nat : \A j \in 1..k : j # k => j < k
            OBVIOUS
        <3>1. i < n
            <4>. HIDE DEF n
            <4>. QED BY <1>1, <2>2, <3>0
        <3>2. Waiting("loop", n, i) = TRUE
            BY <3>1 DEF Waiting
        <3>3. s2[i] = st[i]
            BY <1>1, <1>3, <2>2
        <3>4. Owes(st[i], goals[i], goals[i + 1], TRUE)
            OBVIOUS
        <3>. HIDE DEF n
        <3>. QED BY <3>2, <3>3, <3>4
    <2>. QED BY <2>1, <2>2
<1>8. Owing(whole, "loop", s2, part, goals)
    BY <1>3, <1>7 DEF Owing
<1>9. s2 = [st EXCEPT ![Len(st)].kids = Append(@, goals[Len(st) + 1])]
    BY DEF s2, g, r, f
<1>. QED BY <1>8, <1>9

LEMMA DeliverOnCourse ==
    ASSUME IInv, mode = "parse", NEW f, Heading(f), NEW h, Deliver(h),
           \A g : Derivable(FALSE, <<"filter", arg, g>>) => g = h
    PROVE  Heading(f)'
<1>0. arg \in Seq(Tokens)
    BY DEF IInv, TypeOK
<1>1. PICK goals : Owing(f, "parse", stack, arg, goals)
    BY DEF Heading, Final
<1>2. goals[Len(stack) + 1] = h
    BY <1>1 DEF Owing
<1>3. CASE stack = << >>
    <2>1. mode' = "done" /\ result' = h
        BY <1>3 DEF Deliver, Finish
    <2>2. Len(stack) + 1 = 1
        BY <1>3
    <2>3. h = f
        BY <1>1, <1>2, <2>2 DEF Owing
    <2>. QED BY <2>1, <2>3 DEF Heading, Final
<1>4. CASE stack # << >>
    <2>1. stack' = [stack EXCEPT ![Len(stack)].kids = Append(@, h)] /\ mode' = "loop"
        BY <1>4 DEF Deliver
    <2>2. stack \in Seq(Range(stack)) /\ \A i \in DOMAIN stack : IsFrame(stack[i])
        BY DEF IInv, TypeOK
    <2>3. \A i \in 1..Len(stack) : Owes(stack[i], goals[i], goals[i + 1], TRUE)
        <3>1. \A i : Waiting("parse", Len(stack), i) = TRUE
            BY DEF Waiting
        <3>. QED BY <1>1, <3>1 DEF Owing
    <2>4. goals[1] = f
        BY <1>1 DEF Owing
    <2>5. Owing(f, "loop", stack', arg', goals)
        BY <1>2, <1>4, <2>1, <2>2, <2>3, <2>4, OwingAnswer
    <2>. QED BY <2>1, <2>5 DEF Heading
<1>. QED BY <1>3, <1>4

\* A call for a set or a not begins, and owes what the caller was promised.
LEMMA EnterOnCourse ==
    ASSUME IInv, mode = "parse", NEW f, NEW goals, Owing(f, "parse", stack, arg, goals),
           NEW kind, Enter(kind), NEW next,
           Owes([kind |-> kind, rest |-> Inside(Given), kids |-> << >>], goals[Len(stack) + 1], next, FALSE),
           next = goals[Len(stack) + 2]
    PROVE  Heading(f)'
<1>. DEFINE n == Len(stack)
            r == [kind |-> kind, rest |-> Inside(Given), kids |-> << >>]
<1>1. stack \in Seq(Range(stack)) /\ n \in Nat
    BY LenProperties DEF IInv, TypeOK
<1>2. stack' = Append(stack, r) /\ mode' = "loop"
    BY DEF Enter
<1>3. Owes(r, goals[n + 1], goals[(n + 1) + 1], FALSE)
    <2>1. n + 2 = (n + 1) + 1
        BY <1>1
    <2>. QED BY <2>1
<1>. HIDE DEF r
<1>4. Len(stack') = n + 1 /\ (\A i \in 1..n : stack'[i] = stack[i]) /\ stack'[n + 1] = r
    BY <1>1, <1>2, AppendAny
<1>5. ASSUME NEW i \in 1..(n + 1)
      PROVE  Owes(stack'[i], goals[i], goals[i + 1], Waiting("loop", n + 1, i))
    <2>1. CASE i = n + 1
        <3>1. ~(n + 1 < n + 1)
            BY <1>1
        <3>2. Waiting("loop", n + 1, n + 1) = FALSE
            BY <3>1 DEF Waiting
        <3>. HIDE DEF n
        <3>. QED BY <1>3, <1>4, <2>1, <3>2
    <2>2. CASE i \in 1..n
        <3>1. i < n + 1
            BY <1>1, <2>2
        <3>2. Waiting("loop", n + 1, i) = TRUE /\ Waiting("parse", n, i) = TRUE
            BY <3>1 DEF Waiting
        <3>3. Owes(stack[i], goals[i], goals[i + 1], Waiting("parse", n, i))
            BY <2>2 DEF Owing
        <3>. HIDE DEF n
        <3>. QED BY <1>4, <2>2, <3>2, <3>3
    <2>3. i = n + 1 \/ i \in 1..n
        BY <1>1
    <2>. QED BY <2>1, <2>2, <2>3
<1>6. goals[1] = f
    BY DEF Owing
<1>7. Owing(f, "loop", stack', arg', goals)
    BY <1>4, <1>5, <1>6 DEF Owing
<1>. QED BY <1>2, <1>7 DEF Heading

\* A text that derives a filter is sound, and there is nothing to trim.
LEMMA ShapeIsSound ==
    ASSUME NEW u, FilterShape(u)
    PROVE  u \in Seq(Tokens) /\ ~Blank(u) /\ ~Doubled(u) /\ Balanced(u) /\ Trim(u) = u
<1>. DEFINE g == Trim(u)
            k == Len(u)
<1>1. /\ u \in Seq(Tokens) /\ k \in Nat /\ k >= 2 /\ u[1] \in Openers /\ u[k] = ")"
      /\ Balanced(u) /\ ~Doubled(u)
    BY DEF FilterShape
<1>2. "blank" \notin Openers /\ "blank" # ")"
    BY DEF Openers
<1>3. DOMAIN u = 1..k /\ 1 \in 1..k /\ k \in 1..k
    BY <1>1, LenProperties
<1>4. ~Blank(u)
    BY <1>1, <1>2, <1>3 DEF Blank
<1>5. g \in Seq(Tokens)
    BY <1>1, <1>4, TrimPiece
<1>6. PICK x, y \in Seq(Tokens) : u = (x \o g) \o y /\ Blank(x) /\ Blank(y)
    BY <1>1, <1>4, TrimParts
<1>. HIDE DEF g, k
<1>. DEFINE z == x \o g
<1>7. z \in Seq(Tokens) /\ Len(z) = Len(x) + Len(g) /\ \A i \in 1..(Len(x) + Len(g)) : z[i] = IF i <= Len(x) THEN x[i] ELSE g[i - Len(x)]
    BY <1>5, ConcatProperties
<1>8. Len(u) = Len(z) + Len(y) /\ \A i \in 1..(Len(z) + Len(y)) : u[i] = IF i <= Len(z) THEN z[i] ELSE y[i - Len(z)]
    <2>. HIDE DEF z
    <2>. QED BY <1>6, <1>7, ConcatProperties DEF z
<1>. HIDE DEF z
<1>9. Len(x) \in Nat /\ Len(g) \in Nat /\ Len(z) \in Nat /\ Len(y) \in Nat /\ DOMAIN x = 1..Len(x) /\ DOMAIN y = 1..Len(y)
    BY <1>5, <1>7, LenProperties
<1>10. x = << >>
    <2>. SUFFICES ASSUME x # << >> PROVE FALSE
        OBVIOUS
    <2>1. Len(x) >= 1
        BY <1>9, EmptySeq
    <2>2. 1 \in 1..(Len(x) + Len(g)) /\ 1 <= Len(x) /\ 1 \in 1..(Len(z) + Len(y)) /\ 1 <= Len(z) /\ 1 \in DOMAIN x
        BY <1>7, <1>9, <2>1
    <2>3. u[1] = x[1]
        BY <1>7, <1>8, <2>2
    <2>4. x[1] = "blank"
        BY <1>6, <2>2 DEF Blank
    <2>. QED BY <1>1, <1>2, <2>3, <2>4
<1>11. y = << >>
    <2>. SUFFICES ASSUME y # << >> PROVE FALSE
        OBVIOUS
    <2>1. Len(y) >= 1
        BY <1>9, EmptySeq
    <2>2. k = Len(z) + Len(y)
        BY <1>8 DEF k
    <2>3. k \in 1..(Len(z) + Len(y)) /\ ~(k <= Len(z)) /\ k - Len(z) = Len(y) /\ Len(y) \in DOMAIN y
        BY <1>9, <2>1, <2>2
    <2>4. u[k] = y[Len(y)]
        BY <1>8, <2>3
    <2>5. y[Len(y)] = "blank"
        BY <1>6, <2>3 DEF Blank
    <2>. QED BY <1>1, <1>2, <2>4, <2>5
<1>12. u = g
    <2>1. << >> \o g = g /\ g \o << >> = g
        BY <1>5, ConcatEmptySeq
    <2>. QED BY <1>6, <1>10, <1>11, <2>1
<1>. QED BY <1>1, <1>4, <1>12 DEF g

\* parseItemFilter takes an item in parentheses.
LEMMA ItemIsAccepted ==
    ASSUME NEW t \in Seq(Tokens), IsItem(t)
    PROVE  ItemOutcome(Enclosed("(", t)) = "item" /\ Bare(Enclosed("(", t)) = t
<1>. DEFINE s == Enclosed("(", t)
            l == Len(t)
            e == FirstEqual(s)
<1>1. "(" \in Openers
    BY KindsOfTokens
<1>2. /\ s \in Seq(Tokens) /\ l \in Nat /\ Len(s) = l + 2
      /\ s[1] = "(" /\ s[l + 2] = ")" /\ \A i \in 1..l : s[i + 1] = t[i]
    BY <1>1, EnclosedParts
<1>3. Inside(s) = t
    BY <1>1, InsideEnclosed
<1>4. l >= 1 /\ t[1] \in Items /\ \A i \in 2..l : t[i] \in Equals \cup {"blank"} /\ t[i] # "muted"
    BY EmptySeq DEF IsItem
<1>. HIDE DEF s
<1>5. DOMAIN s = 1..(l + 2)
    BY <1>2, LenProperties
<1>6. s[2] = t[1]
    <2>1. 1 \in 1..l /\ 1 + 1 = 2
        BY <1>2, <1>4
    <2>. QED BY <1>2, <2>1
<1>7. s[2] \in Equals /\ s[2] \notin {"refused", "hollow", "muted"} /\ s[2] \notin Openers
    BY <1>4, <1>6, ItemsAssumption DEF Equals
<1>8. 2 \in DOMAIN s
    BY <1>2, <1>4, <1>5
<1>9. ~ \A i \in DOMAIN s : s[i] \notin Equals
    BY <1>7, <1>8
<1>10. e = 2
    <2>1. /\ e \in 1..Len(s) /\ s[e] \in Equals
          /\ \A j \in 1..(e - 1) : s[j] \notin Equals
        BY <1>2, <1>9, FirstEqualFound
    <2>2. e # 1
        BY <1>2, <2>1, KindsOfTokens
    <2>3. ~(e > 2)
        <3>1. e > 2 => 2 \in 1..(e - 1)
            BY <2>1
        <3>. QED BY <1>7, <2>1, <3>1
    <2>. QED BY <1>2, <2>1, <2>2, <2>3
<1>. HIDE DEF e
<1>11. \A i \in 1..(e - 1) : s[i] = "("
    BY <1>2, <1>10
<1>12. ASSUME NEW i \in e..Len(s) PROVE s[i] \notin Openers \cup {"muted"}
    <2>1. CASE i = 2
        BY <1>7, <2>1
    <2>2. CASE i = l + 2
        <3>1. ")" \notin Openers /\ ")" # "muted"
            BY KindsOfTokens
        <3>. QED BY <1>2, <2>2, <3>1
    <2>3. CASE i # 2 /\ i # l + 2
        <3>1. i - 1 \in 2..l /\ i - 1 \in 1..l /\ (i - 1) + 1 = i
            BY <1>2, <1>10, <2>3
        <3>2. s[i] \in Equals \cup {"blank"} /\ s[i] # "muted"
            BY <1>2, <1>4, <3>1
        <3>3. "blank" \notin Openers
            BY DEF Openers
        <3>. QED BY <3>2, <3>3, KindsOfTokens
    <2>. QED BY <2>1, <2>2, <2>3
<1>13. (s[1] = "(") = (s[Len(s)] = ")")
    BY <1>2
<1>14. ~(s[e] = "refused" \/ \E i \in 1..(e - 1) : s[i] # "(") /\ s[e] # "hollow"
    BY <1>7, <1>10, <1>11
<1>15. ~ \E i \in e..Len(s) : s[i] \in Openers \cup {"muted"}
    BY <1>12
<1>16. ItemOutcome(s) = "item"
    <2>1. e # 0 /\ InRange(s, 0, e - 1) /\ InRange(s, e, Len(s))
        BY <1>2, <1>9, <1>10, FirstEqualFound DEF e
    <2>. QED BY <1>13, <1>14, <1>15, <2>1, Zenon DEF ItemOutcome, e
<1>17. Bare(s) = t
    BY <1>2, <1>3 DEF Bare
<1>. QED BY <1>16, <1>17 DEF s

\* A call for a text that derives a filter goes on, or answers it.
LEMMA ParseOnCourse ==
    ASSUME IInv, NEW f, Heading(f), mode = "parse",
           ParseBlank \/ ParseUnsound \/ ParseSet \/ ParseNot \/ ParseItem
    PROVE  Heading(f)'
<1>0. arg \in Seq(Tokens)
    BY DEF IInv, TypeOK
<1>1. PICK goals : Owing(f, "parse", stack, arg, goals)
    BY DEF Heading, Final
<1>. DEFINE n == Len(stack)
            h == goals[n + 1]
<1>2. Derivable(FALSE, <<"filter", arg, h>>)
    BY <1>1 DEF Owing
<1>3. FilterShape(arg)
    BY <1>2, ShapeOfFilter
<1>4. ~Blank(arg) /\ Sound /\ Given = arg
    BY <1>3, ShapeIsSound DEF Sound, Given
<1>5. ParseSet \/ ParseNot \/ ParseItem
    BY <1>4 DEF ParseBlank, ParseUnsound
<1>. HIDE DEF h, n
<1>6. \A open, t : open \in Openers /\ t \in Seq(Tokens) => Enclosed(open, t)[1] = open /\ Inside(Enclosed(open, t)) = t
    BY EnclosedParts, InsideEnclosed
<1>7. ASSUME NEW t \in Seq(Tokens), IsItem(t), arg = Enclosed("(", t)
      PROVE  Heading(f)'
    <2>1. Given[1] = "(" /\ "(" # "(&" /\ "(" # "(!"
        BY <1>4, <1>6, <1>7, KindsOfTokens
    <2>2. ParseItem
        BY <1>5, <2>1 DEF ParseSet, ParseNot
    <2>3. ItemOutcome(Given) = "item" /\ Bare(Given) = t
        BY <1>4, <1>7, ItemIsAccepted
    <2>4. Deliver(Leaf(t))
        BY <2>2, <2>3 DEF ParseItem
    <2>5. ASSUME NEW g, Derivable(FALSE, <<"filter", arg, g>>) PROVE g = Leaf(t)
        <3>1. \A v : arg # Enclosed("(&", v) \/ v \notin Seq(Tokens)
            BY <1>4, <1>6, <2>1, KindsOfTokens
        <3>2. \A v : arg # Enclosed("(!", v) \/ v \notin Seq(Tokens)
            BY <1>4, <1>6, <2>1, KindsOfTokens
        <3>3. ~ \E v, fs : Derivable(FALSE, <<"list", v, fs>>) /\ arg = Enclosed("(&", v) /\ g = Set(fs)
            <4>1. \A v, fs : Derivable(FALSE, <<"list", v, fs>>) => v \in Seq(Tokens)
                BY ShapeOfList DEF ListShape
            <4>. QED BY <3>1, <4>1
        <3>4. ~ \E v, k : Derivable(FALSE, <<"filter", v, k>>) /\ arg = Enclosed("(!", v) /\ g = Not(k)
            <4>1. \A v, k : Derivable(FALSE, <<"filter", v, k>>) => v \in Seq(Tokens)
                BY ShapeOfFilter DEF FilterShape
            <4>. QED BY <3>2, <4>1
        <3>5. \/ \E v \in Seq(Tokens) : IsItem(v) /\ arg = Enclosed("(", v) /\ g = Leaf(v)
              \/ \E v, fs : Derivable(FALSE, <<"list", v, fs>>) /\ arg = Enclosed("(&", v) /\ g = Set(fs)
              \/ \E v, k : /\ Derivable(FALSE, <<"filter", v, k>>) /\ arg = Enclosed("(!", v) /\ g = Not(k)
                           /\ ~(Size(arg) < 8)
            BY <2>5, FilterParts
        <3>6. PICK v \in Seq(Tokens) : IsItem(v) /\ arg = Enclosed("(", v) /\ g = Leaf(v)
            BY <3>3, <3>4, <3>5
        <3>7. v = t
            BY <1>6, <1>7, <3>6, KindsOfTokens
        <3>. QED BY <3>6, <3>7
    <2>. QED BY <2>4, <2>5, DeliverOnCourse
<1>8. ASSUME NEW t, NEW fs, Derivable(FALSE, <<"list", t, fs>>), arg = Enclosed("(&", t), h = Set(fs)
      PROVE  Heading(f)'
    <2>0. ListShape(t) /\ fs \in Seq(Range(fs))
        BY <1>8, ShapeOfList
    <2>1. t \in Seq(Tokens)
        BY <2>0 DEF ListShape
    <2>2. Given[1] = "(&" /\ Inside(Given) = t
        BY <1>4, <1>6, <1>8, <2>1, KindsOfTokens
    <2>3. ParseSet
        <3>1. "(&" # "(!"
            OBVIOUS
        <3>. QED BY <1>5, <2>2, <3>1 DEF ParseNot, ParseItem
    <2>4. Enter("set")
        BY <1>0, <2>3, CutEnters, KindsOfTokens DEF ParseSet
    <2>. DEFINE r == [kind |-> "set", rest |-> Inside(Given), kids |-> << >>]
    <2>5. Owes(r, h, goals[n + 2], FALSE)
        <3>1. r.kind = "set" /\ r.rest = t /\ r.kids = << >>
            BY <2>2
        <3>2. << >> \o fs = fs
            BY <2>0, ConcatEmptySeq
        <3>. HIDE DEF r
        <3>. QED BY <1>8, <3>1, <3>2 DEF Owes
    <2>. QED BY <1>1, <2>4, <2>5, EnterOnCourse DEF h, n
<1>9. ASSUME NEW t, NEW g, Derivable(FALSE, <<"filter", t, g>>), arg = Enclosed("(!", t), h = Not(g),
             ~(Size(arg) < 8)
      PROVE  Heading(f)'
    <2>0. FilterShape(t)
        BY <1>9, ShapeOfFilter
    <2>1. t \in Seq(Tokens)
        BY <2>0 DEF FilterShape
    <2>2. Given[1] = "(!" /\ Inside(Given) = t
        BY <1>4, <1>6, <1>9, <2>1, KindsOfTokens
    <2>3. ParseNot
        <3>1. "(&" # "(!"
            OBVIOUS
        <3>. QED BY <1>5, <2>2, <3>1 DEF ParseSet, ParseItem
    <2>4. Enter("not")
        BY <1>0, <1>4, <1>9, <2>3, CutEnters, KindsOfTokens DEF ParseNot
    <2>. DEFINE r == [kind |-> "not", rest |-> Inside(Given), kids |-> << >>]
    <2>5. Owes(r, h, goals[n + 2], FALSE)
        <3>1. r.kind = "not" /\ r.rest = t /\ r.kids = << >>
            BY <2>2
        <3>. HIDE DEF r
        <3>. QED BY <1>9, <3>1 DEF Owes
    <2>. QED BY <1>1, <2>4, <2>5, EnterOnCourse DEF h, n
<1>10. \/ \E t \in Seq(Tokens) : IsItem(t) /\ arg = Enclosed("(", t) /\ h = Leaf(t)
       \/ \E t, fs : Derivable(FALSE, <<"list", t, fs>>) /\ arg = Enclosed("(&", t) /\ h = Set(fs)
       \/ \E t, g : /\ Derivable(FALSE, <<"filter", t, g>>) /\ arg = Enclosed("(!", t) /\ h = Not(g)
                    /\ ~(Size(arg) < 8)
    BY <1>2, FilterParts
<1>. QED BY <1>7, <1>8, <1>9, <1>10

\* What a set has read, is waiting for and has not read yet.
LEMMA AppendAhead ==
    ASSUME NEW ks, ks \in Seq(Range(ks)), NEW f, NEW gs, gs \in Seq(Range(gs))
    PROVE  Append(ks, f) \o gs = ks \o (<<f>> \o gs)
<1>. DEFINE S == (Range(ks) \cup Range(gs)) \cup {f}
            a == <<f>>
<1>1. ks \in Seq(S) /\ gs \in Seq(S)
    BY SeqMonotonic
<1>2. a \in Seq(S) /\ f \in S
    OBVIOUS
<1>. HIDE DEF S
<1>3. Append(ks, f) = ks \o a
    BY <1>1, <1>2, AppendIsConcat
<1>4. (ks \o a) \o gs = ks \o (a \o gs)
    <2>. HIDE DEF a
    <2>. QED BY <1>1, <1>2, ConcatAssociative
<1>. QED BY <1>3, <1>4

\* The next part of a set is the first of its filters, and that of a not is all it has.
LEMMA PartOnCourse ==
    ASSUME NEW r, IsFrame(r), More(r), NEW goal, NEW next, Owes(r, goal, next, FALSE),
           NEW k, k = (IF r.kind = "set" THEN PartEnd(r.rest) ELSE Len(r.rest)),
           NEW g, g.kind = r.kind, g.kids = r.kids, g.rest = SubSeq(r.rest, k + 1, Len(r.rest))
    PROVE  \E f : Derivable(FALSE, <<"filter", SubSeq(r.rest, 1, k), f>>) /\ Owes(g, goal, f, TRUE)
<1>1. r.kind \in {"set", "not"} /\ r.rest \in Seq(Tokens) /\ r.kids \in Seq(Range(r.kids))
    BY DEF IsFrame
<1>2. CASE r.kind = "set"
    <2>1. PICK gs : Derivable(FALSE, <<"list", r.rest, gs>>) /\ goal = Set(r.kids \o gs)
        BY <1>2 DEF Owes
    <2>2. r.rest # << >>
        BY <1>2 DEF More
    <2>3. PICK u, f, w, hs : /\ Derivable(FALSE, <<"filter", u, f>>) /\ Derivable(FALSE, <<"list", w, hs>>)
                             /\ r.rest = u \o w /\ gs = <<f>> \o hs
        <3>1. Headed(r.rest, gs)
            BY <2>1, <2>2, ListHead
        <3>. QED BY <3>1, Zenon DEF Headed
    <2>4. FilterShape(u) /\ ListShape(w) /\ hs \in Seq(Range(hs))
        BY <2>3, ShapeOfFilter, ShapeOfList
    <2>5. u \in Seq(Tokens) /\ w \in Seq(Tokens)
        BY <2>4 DEF FilterShape, ListShape
    <2>6. k = Len(u)
        BY <1>2, <2>3, <2>4, PartOfList
    <2>7. SubSeq(u \o w, 1, Len(u)) = u /\ SubSeq(u \o w, Len(u) + 1, Len(u \o w)) = w
        BY <2>5, CutConcat
    <2>8. SubSeq(r.rest, 1, k) = u /\ g.rest = w
        BY <2>3, <2>6, <2>7
    <2>9. goal = Set(Append(g.kids, f) \o hs)
        <3>1. Append(r.kids, f) \o hs = r.kids \o (<<f>> \o hs)
            <4>. DEFINE ks == r.kids
            <4>1. ks \in Seq(Range(ks)) /\ hs \in Seq(Range(hs))
                BY <1>1, <2>4
            <4>. HIDE DEF ks
            <4>2. Append(ks, f) \o hs = ks \o (<<f>> \o hs)
                BY <4>1, AppendAhead
            <4>. QED BY <4>2 DEF ks
        <3>. QED BY <2>1, <2>3, <3>1
    <2>10. Owes(g, goal, f, TRUE)
        BY <1>2, <2>3, <2>8, <2>9 DEF Owes
    <2>. QED BY <2>3, <2>8, <2>10
<1>3. CASE r.kind = "not"
    <2>1. r.kids = << >>
        BY <1>3 DEF More
    <2>2. \A f : r.kids # <<f>>
        BY <2>1
    <2>3. PICK f : Derivable(FALSE, <<"filter", r.rest, f>>) /\ goal = Not(f)
        BY <1>3, <2>2 DEF Owes
    <2>4. SubSeq(r.rest, 1, k) = r.rest
        BY <1>1, <1>3, SubSeqFull
    <2>5. Owes(g, goal, f, TRUE)
        BY <1>3, <2>1, <2>3 DEF Owes
    <2>. QED BY <2>3, <2>4, <2>5
<1>. QED BY <1>1, <1>2, <1>3

LEMMA NextPartOnCourse ==
    ASSUME IInv, NEW f, Heading(f), NextPart
    PROVE  Heading(f)'
<1>. DEFINE n == Len(stack)
            k == IF Top.kind = "set" THEN PartEnd(Top.rest) ELSE Len(Top.rest)
            x == SubSeq(Top.rest, k + 1, Len(Top.rest))
            y == SubSeq(Top.rest, 1, k)
            r == [Top EXCEPT !.rest = x]
<1>1. /\ mode = "loop" /\ More(Top)
      /\ stack' = [stack EXCEPT ![n] = r]
      /\ arg' = y /\ mode' = "parse"
    BY DEF NextPart, Top
<1>2. stack # << >> /\ IsFrame(Top)
    BY <1>1, TopFrame
<1>3. stack \in Seq(Range(stack)) /\ n \in Nat \ {0} /\ n \in DOMAIN stack /\ DOMAIN stack = 1..n
    BY <1>2, EmptySeq, LenProperties DEF IInv, TypeOK
<1>4. PICK goals : Owing(f, "loop", stack, arg, goals)
    BY <1>1 DEF Heading, Final
<1>5. Owes(Top, goals[n], goals[n + 1], FALSE)
    <2>1. Owes(stack[n], goals[n], goals[n + 1], Waiting("loop", n, n))
        BY <1>3, <1>4 DEF Owing
    <2>2. Waiting("loop", n, n) = FALSE
        BY <1>3 DEF Waiting
    <2>. QED BY <2>1, <2>2 DEF Top
<1>6. r.kind = Top.kind /\ r.rest = x /\ r.kids = Top.kids
    <2>. HIDE DEF x
    <2>1. r = [kind |-> Top.kind, rest |-> x, kids |-> Top.kids]
        BY <1>2, FrameWith
    <2>. HIDE DEF r
    <2>. QED BY <2>1
<1>. HIDE DEF r
<1>7. PICK h : Derivable(FALSE, <<"filter", y, h>>) /\ Owes(r, goals[n], h, TRUE)
    <2>. HIDE DEF n
    <2>. QED BY <1>1, <1>2, <1>5, <1>6, PartOnCourse
<1>. HIDE DEF x, y, k
<1>8. Len(stack') = n /\ \A i \in 1..n : stack'[i] = IF i = n THEN r ELSE stack[i]
    BY <1>1, <1>3, ExceptAny
<1>. DEFINE b == [i \in 1..(n + 1) |-> IF i = n + 1 THEN h ELSE goals[i]]
<1>9. b[n + 1] = h /\ b[1] = goals[1] /\ \A i \in 1..n : b[i] = goals[i] /\ (i # n => i < n /\ b[i + 1] = goals[i + 1])
    <2>1. \A m \in Nat : \A i \in 1..m : i \in 1..(m + 1) /\ i # m + 1 /\ (i # m => i < m /\ i + 1 \in 1..(m + 1) /\ i + 1 # m + 1)
        OBVIOUS
    <2>2. \A i \in 1..n : i \in 1..(n + 1) /\ i # n + 1 /\ (i # n => i < n /\ i + 1 \in 1..(n + 1) /\ i + 1 # n + 1)
        BY <1>3, <2>1
    <2>3. 1 \in 1..(n + 1) /\ 1 # n + 1 /\ n + 1 \in 1..(n + 1)
        BY <1>3
    <2>. HIDE DEF n
    <2>. QED BY <2>2, <2>3
<1>. HIDE DEF b
<1>10. ASSUME NEW i \in 1..n PROVE Owes(stack'[i], b[i], b[i + 1], Waiting("parse", n, i))
    <2>1. Waiting("parse", n, i) = TRUE
        BY DEF Waiting
    <2>2. CASE i = n
        <3>1. stack'[i] = r
            BY <1>8, <2>2
        <3>. HIDE DEF n
        <3>. QED BY <1>7, <1>9, <2>1, <2>2, <3>1
    <2>3. CASE i # n
        <3>1. stack'[i] = stack[i] /\ i < n
            BY <1>8, <1>9, <2>3
        <3>2. Waiting("loop", n, i) = TRUE
            BY <3>1 DEF Waiting
        <3>3. Owes(stack[i], goals[i], goals[i + 1], Waiting("loop", n, i))
            BY <1>4 DEF Owing
        <3>. HIDE DEF n
        <3>. QED BY <1>9, <2>1, <2>3, <3>1, <3>2, <3>3
    <2>. QED BY <2>2, <2>3
<1>11. b[1] = f
    BY <1>4, <1>9 DEF Owing
<1>12. Owing(f, "parse", stack', arg', b)
    <2>1. Derivable(FALSE, <<"filter", arg', b[Len(stack') + 1]>>)
        BY <1>1, <1>7, <1>8, <1>9
    <2>. QED BY <1>8, <1>10, <1>11, <2>1 DEF Owing
<1>. QED BY <1>1, <1>12 DEF Heading

LEMMA ReturnOnCourse ==
    ASSUME IInv, NEW f, Heading(f), Return
    PROVE  Heading(f)'
<1>. DEFINE h == IF Top.kind = "set" THEN Set(Top.kids) ELSE Not(Top.kids[1])
            n == Len(stack)
<1>1. /\ mode = "loop" /\ ~More(Top)
      /\ n = 1 => mode' = "done" /\ result' = h
      /\ n # 1 => stack' = [Front(stack) EXCEPT ![n - 1].kids = Append(@, h)] /\ mode' = "loop"
    BY DEF Return
<1>2. stack # << >> /\ IsFrame(Top)
    BY <1>1, TopFrame
<1>3. stack \in Seq(Range(stack)) /\ n \in Nat \ {0} /\ DOMAIN stack = 1..n
    BY <1>2, EmptySeq, LenProperties DEF IInv, TypeOK
<1>4. PICK goals : Owing(f, "loop", stack, arg, goals)
    BY <1>1 DEF Heading, Final
<1>5. Owes(Top, goals[n], goals[n + 1], FALSE)
    <2>1. Owes(stack[n], goals[n], goals[n + 1], Waiting("loop", n, n))
        BY <1>3, <1>4 DEF Owing
    <2>2. Waiting("loop", n, n) = FALSE
        BY <1>3 DEF Waiting
    <2>. QED BY <2>1, <2>2 DEF Top
<1>6. h = goals[n]
    <2>. HIDE DEF n
    <2>1. CASE Top.kind = "set"
        <3>1. Top.rest = << >>
            BY <1>1, <2>1 DEF More
        <3>2. PICK gs : Derivable(FALSE, <<"list", Top.rest, gs>>) /\ goals[n] = Set(Top.kids \o gs)
            BY <1>5, <2>1 DEF Owes
        <3>3. gs = << >>
            BY <3>1, <3>2, ListEmpty
        <3>4. Top.kids \in Seq(Range(Top.kids))
            BY <1>2 DEF IsFrame
        <3>5. Top.kids \o << >> = Top.kids
            BY <3>4, ConcatEmptySeq
        <3>. QED BY <2>1, <3>2, <3>3, <3>5
    <2>2. CASE Top.kind # "set"
        <3>1. Top.kind = "not" /\ Top.kids # << >>
            BY <1>1, <1>2, <2>2 DEF IsFrame, More
        <3>2. PICK g : Top.kids = <<g>> /\ goals[n] = Not(g)
            BY <1>5, <3>1 DEF Owes
        <3>3. Top.kids[1] = g
            BY <3>2
        <3>. QED BY <2>2, <3>2, <3>3
    <2>. QED BY <2>1, <2>2
<1>. HIDE DEF h
<1>7. goals[1] = f
    BY <1>4 DEF Owing
<1>8. CASE n = 1
    BY <1>1, <1>6, <1>7, <1>8 DEF Heading, Final
<1>9. CASE n # 1
    <2>. DEFINE st == Front(stack)
    <2>1. n > 1
        BY <1>3, <1>9
    <2>2. st \in Seq(Range(st)) /\ Len(st) = n - 1 /\ DOMAIN st = 1..(n - 1) /\ \A i \in 1..(n - 1) : st[i] = stack[i]
        BY <1>3, <2>1, FrontAny
    <2>. HIDE DEF st
    <2>3. \A i \in 1..(n - 1) : i \in 1..n /\ i < n
        BY <1>3
    <2>4. \A i \in DOMAIN st : IsFrame(st[i])
        BY <1>3, <2>2, <2>3 DEF IInv, TypeOK
    <2>5. st # << >>
        BY <1>3, <2>1, <2>2, EmptyAny
    <2>6. ASSUME NEW i \in 1..(n - 1) PROVE Owes(st[i], goals[i], goals[i + 1], TRUE)
        <3>1. Waiting("loop", n, i) = TRUE
            BY <2>3 DEF Waiting
        <3>2. Owes(stack[i], goals[i], goals[i + 1], Waiting("loop", n, i))
            BY <1>4, <2>3 DEF Owing
        <3>. HIDE DEF n
        <3>. QED BY <2>2, <3>1, <3>2
    <2>7. goals[Len(st) + 1] = h
        <3>1. (n - 1) + 1 = n
            BY <1>3
        <3>. QED BY <1>6, <2>2, <3>1
    <2>8. stack' = [st EXCEPT ![Len(st)].kids = Append(@, h)] /\ mode' = "loop"
        BY <1>1, <1>9, <2>2 DEF st
    <2>9. Owing(f, "loop", [st EXCEPT ![Len(st)].kids = Append(@, goals[Len(st) + 1])], arg', goals)
        BY <1>7, <2>2, <2>4, <2>5, <2>6, OwingAnswer
    <2>10. Owing(f, "loop", stack', arg', goals)
        BY <2>7, <2>8, <2>9
    <2>. QED BY <2>8, <2>10 DEF Heading
<1>. QED BY <1>8, <1>9

LEMMA InitOnCourse == Init => OnCourse
<1>. SUFFICES ASSUME Init, NEW f, Derivable(FALSE, <<"filter", text, f>>) PROVE Heading(f)
    BY DEF OnCourse
<1>. DEFINE goals == [i \in {1} |-> f]
<1>1. arg = text /\ Len(stack) = 0 /\ mode = "parse"
    BY DEF Init
<1>2. goals[1] = f /\ Len(stack) + 1 = 1 /\ 1..Len(stack) = {}
    BY <1>1
<1>. HIDE DEF goals
<1>3. Derivable(FALSE, <<"filter", arg, goals[Len(stack) + 1]>>)
    BY <1>1, <1>2
<1>4. Owing(f, "parse", stack, arg, goals)
    BY <1>2, <1>3, Zenon DEF Owing
<1>. QED BY <1>1, <1>4 DEF Heading

LEMMA NextOnCourse == IInv /\ OnCourse /\ [Next]_vars => OnCourse'
<1>. SUFFICES ASSUME IInv, OnCourse, [Next]_vars PROVE OnCourse'
    OBVIOUS
<1>1. text' = text
    <2>1. (\A m, f : Finish(m, f) => text' = text) /\ (\A f : Deliver(f) => text' = text)
        BY DEF Finish, Deliver
    <2>2. \A kind : Cut(kind) => text' = text
        BY <2>1 DEF Cut, Enter, Fault
    <2>3. ParseItem => text' = text
        <3>1. ItemOutcome(Given) \in {"error", "panic", "muted", "item"}
            BY Zenon DEF ItemOutcome
        <3>2. CASE ItemOutcome(Given) = "error"
            BY <2>1, <3>2 DEF ParseItem, Fail
        <3>3. CASE ItemOutcome(Given) = "panic"
            BY <2>1, <3>3 DEF ParseItem, Fault
        <3>4. CASE ItemOutcome(Given) = "muted"
            BY <2>1, <3>4 DEF ParseItem
        <3>5. CASE ItemOutcome(Given) = "item"
            BY <2>1, <3>5 DEF ParseItem
        <3>. QED BY <3>1, <3>2, <3>3, <3>4, <3>5
    <2>4. ParseBlank \/ ParseUnsound \/ ParseSet \/ ParseNot => text' = text
        BY <2>1, <2>2 DEF ParseBlank, ParseUnsound, ParseSet, ParseNot, Fail
    <2>5. NextPart \/ Return \/ UNCHANGED vars => text' = text
        BY DEF NextPart, Return, vars
    <2>. QED BY <2>3, <2>4, <2>5 DEF Next
<1>2. ASSUME NEW f, Heading(f) PROVE Heading(f)'
    <2>1. CASE ParseBlank \/ ParseUnsound \/ ParseSet \/ ParseNot \/ ParseItem
        <3>1. mode = "parse"
            BY <2>1 DEF ParseBlank, ParseUnsound, ParseSet, ParseNot, ParseItem
        <3>. QED BY <1>2, <2>1, <3>1, ParseOnCourse
    <2>2. CASE NextPart
        BY <1>2, <2>2, NextPartOnCourse
    <2>3. CASE Return
        BY <1>2, <2>3, ReturnOnCourse
    <2>4. CASE UNCHANGED vars
        <3>1. arg' = arg /\ stack' = stack /\ mode' = mode /\ result' = result
            BY <2>4 DEF vars
        <3>. QED BY <1>2, <3>1 DEF Heading
    <2>. QED BY <2>1, <2>2, <2>3, <2>4 DEF Next
<1>. QED BY <1>1, <1>2 DEF OnCourse

\* Whatever RFC 4515 derives, but for nots of fewer than eight characters, NewFilter
\* accepts at any depth, and returns the filter of the derivation: of the text of a
\* filter that is well formed the parser makes that filter and no other.
THEOREM DerivationsAreAccepted == Spec => []DerivedIsAccepted
<1>1. OnCourse => DerivedIsAccepted
    BY DEF OnCourse, Heading, DerivedIsAccepted
<1>. QED BY <1>1, InitIInv, NextIInv, InitOnCourse, NextOnCourse, PTL DEF Spec

-----------------------------------------------------------------------------
(* What is left to parse                                                   *)

\* The tokens the first n loops have to go past, each with its place, and whether the
\* innermost call is a not that has no filter yet.
Unread(st, n)  == UNION {{i} \X (1..Len(st[i].rest)) : i \in 1..n}
Unanswered(st) == st # << >> /\ st[Len(st)].kind = "not" /\ st[Len(st)].kids = << >>

\* A token weighs as much in a rest as in an argument, and more than the call it opens:
\* that call, a not without a filter, and a loop to go on with.
Weight(m, st, a) ==
    IF m \in Final THEN 0
    ELSE 5 * Cardinality(Unread(st, Len(st))) + Len(st) + (IF Unanswered(st) THEN 2 ELSE 0)
           + (IF m = "loop" THEN 2 ELSE 5 * Len(a) + 1)

Left == Weight(mode, stack, arg)

\* A part that a set's loop parses is not empty; a not parses what it has only once.
Asked == mode = "parse" /\ stack # << >> => IF Top.kind = "set" THEN arg # << >> ELSE Top.kids = << >>

LeavesLess == [][Left' < Left]_vars

LEMMA UnreadIn ==
    ASSUME NEW st, NEW n, NEW p
    PROVE  p \in Unread(st, n) <=> \E i \in 1..n : p \in {i} \X (1..Len(st[i].rest))
BY DEF Unread

LEMMA UnreadFinite ==
    ASSUME NEW st, NEW n \in Nat, \A i \in 1..n : Len(st[i].rest) \in Nat
    PROVE  IsFiniteSet(Unread(st, n)) /\ Cardinality(Unread(st, n)) \in Nat
<1>. DEFINE T == {{i} \X (1..Len(st[i].rest)) : i \in 1..n}
            f == [i \in 1..n |-> {i} \X (1..Len(st[i].rest))]
<1>1. IsFiniteSet(1..n)
    BY FS_Interval
<1>2. f \in Surjection(1..n, T)
    BY DEF Surjection
<1>3. IsFiniteSet(T)
    <2>. HIDE DEF T, f
    <2>. QED BY <1>1, <1>2, FS_Surjection
<1>4. ASSUME NEW t \in T PROVE IsFiniteSet(t)
    <2>1. PICK i \in 1..n : t = {i} \X (1..Len(st[i].rest))
        OBVIOUS
    <2>. DEFINE l == Len(st[i].rest)
                x == {i}
                y == 1..l
    <2>2. l \in Nat
        OBVIOUS
    <2>. HIDE DEF l
    <2>3. 1 \in Int /\ l \in Int
        BY <2>2
    <2>4. IsFiniteSet(x)
        BY FS_Singleton
    <2>5. IsFiniteSet(y)
        BY <2>3, FS_Interval
    <2>. HIDE DEF x, y
    <2>6. IsFiniteSet(x \X y)
        BY <2>4, <2>5, FS_Product
    <2>. QED BY <2>1, <2>6 DEF x, y, l
<1>5. IsFiniteSet(UNION T)
    <2>. HIDE DEF T
    <2>. QED BY <1>3, <1>4, FS_UNION
<1>. QED BY <1>5, FS_CardinalityType DEF Unread

LEMMA UnreadMore ==
    ASSUME NEW st, NEW n \in Nat, \A i \in 1..(n + 1) : Len(st[i].rest) \in Nat
    PROVE  Cardinality(Unread(st, n + 1)) = Cardinality(Unread(st, n)) + Len(st[n + 1].rest)
<1>. DEFINE m == n + 1
            A == Unread(st, n)
            l == Len(st[m].rest)
            B == {m} \X (1..l)
<1>1. Unread(st, m) = A \cup B
    <2>1. 1..m = (1..n) \cup {m}
        OBVIOUS
    <2>. HIDE DEF m
    <2>. QED BY <2>1 DEF Unread
<1>2. A \cap B = {}
    <2>1. m \notin 1..n
        OBVIOUS
    <2>. HIDE DEF m
    <2>. QED BY <2>1 DEF Unread
<1>3. l \in Nat /\ \A i \in 1..n : i \in 1..m
    OBVIOUS
<1>4. IsFiniteSet(A) /\ Cardinality(A) \in Nat
    BY <1>3, UnreadFinite
<1>. HIDE DEF m, l
<1>6. IsFiniteSet(B) /\ Cardinality(B) = l
    <2>. DEFINE x == {m}
                y == 1..l
    <2>1. IsFiniteSet(x) /\ Cardinality(x) = 1
        BY FS_Singleton
    <2>2. 1 \in Int /\ l \in Int /\ (IF 1 > l THEN 0 ELSE l - 1 + 1) = l
        BY <1>3
    <2>3. IsFiniteSet(y) /\ Cardinality(y) = l
        BY <2>2, FS_Interval
    <2>. HIDE DEF x, y
    <2>4. IsFiniteSet(x \X y) /\ Cardinality(x \X y) = Cardinality(x) * Cardinality(y)
        BY <2>1, <2>3, FS_Product
    <2>5. Cardinality(x \X y) = 1 * l /\ 1 * l = l
        BY <1>3, <2>1, <2>3, <2>4
    <2>. QED BY <2>4, <2>5 DEF x, y
<1>. HIDE DEF A, B
<1>7. Cardinality(A \cup B) = Cardinality(A) + Cardinality(B) - Cardinality(A \cap B)
    BY <1>4, <1>6, FS_Union
<1>8. Cardinality(A \cap B) = 0
    BY <1>2, FS_EmptySet
<1>9. Cardinality(A \cup B) = Cardinality(A) + l
    BY <1>3, <1>4, <1>6, <1>7, <1>8
<1>. QED BY <1>1, <1>9 DEF A, m, l

LEMMA UnreadSame ==
    ASSUME NEW st, NEW st2, NEW n, \A i \in 1..n : st[i].rest = st2[i].rest
    PROVE  Unread(st, n) = Unread(st2, n)
<1>1. \A i \in 1..n : {i} \X (1..Len(st[i].rest)) = {i} \X (1..Len(st2[i].rest))
    OBVIOUS
<1>. QED BY <1>1 DEF Unread

\* What the calls have to go past: that of the innermost, and that of those around it.
LEMMA UnreadTop ==
    ASSUME NEW st, Calls(st)
    PROVE  /\ Len(st) \in Nat /\ Cardinality(Unread(st, Len(st))) \in Nat
           /\ st # << >> =>
                /\ Len(st) > 0 /\ Len(st[Len(st)].rest) \in Nat /\ Cardinality(Unread(st, Len(st) - 1)) \in Nat
                /\ Cardinality(Unread(st, Len(st))) = Cardinality(Unread(st, Len(st) - 1)) + Len(st[Len(st)].rest)
<1>. DEFINE n == Len(st)
<1>1. n \in Nat /\ DOMAIN st = 1..n /\ (st # << >> => n > 0)
    BY EmptySeq, LenProperties DEF Calls
<1>2. \A i \in 1..n : Len(st[i].rest) \in Nat
    <2>1. \A i \in 1..n : st[i].rest \in Seq(Tokens)
        BY <1>1 DEF Calls, IsFrame
    <2>. QED BY <2>1, LenProperties
<1>. HIDE DEF n
<1>3. Cardinality(Unread(st, n)) \in Nat
    BY <1>1, <1>2, UnreadFinite
<1>4. ASSUME n > 0
      PROVE  /\ Cardinality(Unread(st, n - 1)) \in Nat /\ Len(st[n].rest) \in Nat
             /\ Cardinality(Unread(st, n)) = Cardinality(Unread(st, n - 1)) + Len(st[n].rest)
    <2>. DEFINE k == n - 1
    <2>1. k \in Nat /\ k + 1 = n /\ n \in 1..n /\ \A i \in 1..k : i \in 1..n
        BY <1>1, <1>4
    <2>. HIDE DEF k
    <2>2. Cardinality(Unread(st, k)) \in Nat
        BY <1>2, <2>1, UnreadFinite
    <2>3. Cardinality(Unread(st, k + 1)) = Cardinality(Unread(st, k)) + Len(st[k + 1].rest)
        BY <1>2, <2>1, UnreadMore
    <2>. QED BY <1>2, <2>1, <2>2, <2>3 DEF k
<1>. QED BY <1>1, <1>3, <1>4 DEF n

LEMMA LeftIsNat == IInv => Left \in Nat
<1>. SUFFICES ASSUME IInv PROVE Left \in Nat
    OBVIOUS
<1>1. Len(stack) \in Nat /\ Cardinality(Unread(stack, Len(stack))) \in Nat
    BY InvariantCalls, UnreadTop
<1>2. Len(arg) \in Nat
    BY LenProperties DEF IInv, TypeOK
<1>. DEFINE u == Cardinality(Unread(stack, Len(stack)))
            n == Len(stack)
            w == IF Unanswered(stack) THEN 2 ELSE 0
            a == IF mode = "loop" THEN 2 ELSE 5 * Len(arg) + 1
<1>3. u \in Nat /\ n \in Nat /\ w \in Nat /\ a \in Nat
    BY <1>1, <1>2
<1>4. Left = IF mode \in Final THEN 0 ELSE 5 * u + n + w + a
    BY DEF Left, Weight
<1>. HIDE DEF u, n, w, a
<1>. QED BY <1>3, <1>4

\* A call that ends leaves nothing.
LEMMA EndLeaves ==
    ASSUME IInv, mode \notin Final, mode' \in Final
    PROVE  Left' < Left /\ Asked'
<1>. DEFINE u == Cardinality(Unread(stack, Len(stack)))
            n == Len(stack)
            w == IF Unanswered(stack) THEN 2 ELSE 0
            a == IF mode = "loop" THEN 2 ELSE 5 * Len(arg) + 1
<1>1. n \in Nat /\ u \in Nat
    BY InvariantCalls, UnreadTop
<1>2. Len(arg) \in Nat
    BY LenProperties DEF IInv, TypeOK
<1>3. w \in Nat /\ a \in Nat /\ a > 0
    BY <1>2
<1>4. Left = 5 * u + n + w + a /\ Left' = 0
    BY DEF Left, Weight
<1>5. Asked'
    BY DEF Asked, Final
<1>. HIDE DEF u, n, w, a
<1>. QED BY <1>1, <1>3, <1>4, <1>5

\* What is between the parentheses of a text is shorter than it.
LEMMA InsideIsShorter ==
    ASSUME NEW s \in Seq(Tokens), ~Blank(s)
    PROVE  Len(Inside(Trim(s))) \in Nat /\ Len(Inside(Trim(s))) < Len(s)
<1>. DEFINE g == Trim(s)
<1>1. g \in Seq(Tokens) /\ g # << >>
    BY TrimPiece
<1>2. PICK u \in Seq(Tokens), v \in Seq(Tokens) : s = (u \o g) \o v
    BY TrimParts
<1>. HIDE DEF g
<1>3. Len(g) \in Nat /\ Len(g) > 0 /\ Len(u) \in Nat /\ Len(v) \in Nat
    BY <1>1, LenProperties, EmptySeq
<1>4. u \o g \in Seq(Tokens) /\ Len(u \o g) = Len(u) + Len(g)
    BY <1>1, ConcatProperties
<1>5. Len(s) = Len(u) + Len(g) + Len(v)
    BY <1>2, <1>4, ConcatProperties
<1>6. Len(Inside(g)) \in Nat /\ Len(Inside(g)) < Len(g)
    <2>. DEFINE l == Len(g)
    <2>1. \A i \in 2..(l - 1) : g[i] \in Tokens
        <3>1. \A i \in 2..(l - 1) : i \in 1..Len(g)
            BY <1>3
        <3>. QED BY <1>1, <3>1, ElementOfSeq
    <2>2. 2 \in Int /\ l - 1 \in Int
        BY <1>3
    <2>. HIDE DEF l
    <2>3. Len(SubSeq(g, 2, l - 1)) = IF 2 <= l - 1 THEN (l - 1) - 2 + 1 ELSE 0
        BY <2>1, <2>2, SubSeqProperties
    <2>4. Inside(g) = SubSeq(g, 2, l - 1)
        BY DEF Inside, l
    <2>5. l \in Nat /\ l > 0 /\ l = Len(g)
        BY <1>3 DEF l
    <2>. QED BY <2>3, <2>4, <2>5
<1>. QED BY <1>3, <1>5, <1>6 DEF g

LEMMA EnterLeaves ==
    ASSUME IInv, mode = "parse", Sound, NEW k \in {"set", "not"}, Enter(k)
    PROVE  Left' < Left /\ Asked'
<1>. DEFINE r == [kind |-> k, rest |-> Inside(Given), kids |-> << >>]
            st == Append(stack, r)
            n == Len(stack)
            m == Len(r.rest)
            u == Cardinality(Unread(stack, n))
            w == IF Unanswered(stack) THEN 2 ELSE 0
            x == IF Unanswered(st) THEN 2 ELSE 0
            l == Len(arg)
<1>1. /\ Inside(Given) \in Seq(Tokens)
      /\ Range(Inside(Given)) \subseteq Range(text)
    BY GivenPiece, InsidePiece
<1>2. IsFrame(r) /\ Range(r.rest) \subseteq Range(text)
    BY <1>1, EmptyAny DEF IsFrame
<1>3. Calls(stack) /\ Calls(st) /\ st # << >>
    <2>. HIDE DEF r
    <2>. QED BY <1>2, InvariantCalls, CallsEnter
<1>4. stack' = st /\ mode' = "loop" /\ arg' = arg
    BY DEF Enter
<1>5. m \in Nat /\ m < l /\ l \in Nat
    <2>1. arg \in Seq(Tokens) /\ ~Blank(arg)
        BY DEF IInv, TypeOK, Sound
    <2>2. r.rest = Inside(Trim(arg))
        BY DEF Given
    <2>. HIDE DEF r
    <2>. QED BY <2>1, <2>2, InsideIsShorter, LenProperties
<1>6. n \in Nat /\ u \in Nat
    BY <1>3, UnreadTop
<1>. HIDE DEF r
<1>7. Len(st) = n + 1 /\ st[n + 1] = r /\ \A i \in 1..n : st[i] = stack[i]
    BY <1>3, AppendAny DEF Calls
<1>. HIDE DEF st
<1>8. Cardinality(Unread(st, n + 1)) = u + m
    <2>1. Cardinality(Unread(st, Len(st))) = Cardinality(Unread(st, Len(st) - 1)) + Len(st[Len(st)].rest)
        BY <1>3, UnreadTop
    <2>2. Len(st) - 1 = n
        BY <1>6, <1>7
    <2>3. Unread(st, n) = Unread(stack, n)
        BY <1>7, UnreadSame
    <2>. QED BY <1>7, <2>1, <2>2, <2>3
<1>9. Left = 5 * u + n + w + (5 * l + 1)
    BY DEF Left, Weight, Final
<1>10. Left' = 5 * (u + m) + (n + 1) + x + 2
    <2>1. Left' = 5 * Cardinality(Unread(st, Len(st))) + Len(st) + x + 2
        BY <1>4 DEF Left, Weight, Final
    <2>. QED BY <1>7, <1>8, <2>1
<1>11. w \in {0, 2} /\ x \in {0, 2}
    OBVIOUS
<1>. HIDE DEF n, m, u, w, x, l
<1>12. Left' < Left
    BY <1>5, <1>6, <1>9, <1>10, <1>11
<1>13. Asked'
    BY <1>4 DEF Asked
<1>. QED BY <1>12, <1>13

\* The frames but their filters.
LEMMA WithFilter ==
    ASSUME NEW st, Calls(st), st # << >>, NEW f, IsFilter(f), NEW st2, st2 = [st EXCEPT ![Len(st)].kids = Append(@, f)]
    PROVE  /\ Calls(st2) /\ st2 # << >> /\ Len(st2) = Len(st) /\ ~Unanswered(st2)
           /\ Unread(st2, Len(st2)) = Unread(st, Len(st))
<1>. DEFINE r == st[Len(st)]
            c == Append(r.kids, f)
            g == [r EXCEPT !.kids = c]
<1>1. Calls(st2) /\ st2 # << >>
    BY CallsDeliver
<1>2. Len(st) \in Nat /\ Len(st) \in DOMAIN st /\ DOMAIN st = 1..Len(st) /\ st \in Seq(Range(st))
    BY EmptySeq, LenProperties DEF Calls
<1>3. IsFrame(r)
    BY <1>2 DEF Calls
<1>4. r.kids \in Seq(Range(r.kids))
    BY <1>3 DEF IsFrame
<1>5. c # << >>
    <2>. DEFINE k == r.kids
    <2>1. k \in Seq(Range(k))
        BY <1>4
    <2>. HIDE DEF k
    <2>2. Len(Append(k, f)) = Len(k) + 1 /\ Len(k) \in Nat
        BY <2>1, AppendAny, LenProperties
    <2>3. Append(k, f) # << >>
        <3>. DEFINE z == Append(k, f)
        <3>1. Len(z) > 0
            BY <2>2
        <3>. HIDE DEF z
        <3>2. z # << >>
            BY <3>1, EmptyAny
        <3>. QED BY <3>2 DEF z
    <2>. QED BY <2>3 DEF k
<1>6. g = [kind |-> r.kind, rest |-> r.rest, kids |-> c]
    <2>. HIDE DEF r, c
    <2>. QED BY <1>3, FrameWith
<1>7. g.rest = r.rest /\ g.kids = c
    BY <1>6
<1>8. st2 = [st EXCEPT ![Len(st)] = g]
    OBVIOUS
<1>. HIDE DEF g
<1>9. Len(st2) = Len(st) /\ \A i \in 1..Len(st) : st2[i] = IF i = Len(st) THEN g ELSE st[i]
    BY <1>2, <1>8, ExceptAny
<1>10. \A i \in 1..Len(st) : st2[i].rest = st[i].rest
    BY <1>7, <1>9 DEF r
<1>11. Unread(st2, Len(st)) = Unread(st, Len(st))
    <2>. DEFINE l == Len(st)
    <2>1. \A i \in 1..l : st2[i].rest = st[i].rest
        BY <1>10
    <2>. HIDE DEF l
    <2>2. Unread(st2, l) = Unread(st, l)
        <3>1. \A i \in 1..l : {i} \X (1..Len(st2[i].rest)) = {i} \X (1..Len(st[i].rest))
            BY <2>1
        <3>. QED BY <3>1 DEF Unread
    <2>. QED BY <2>2 DEF l
<1>12. ~Unanswered(st2)
    BY <1>2, <1>5, <1>7, <1>9 DEF Unanswered
<1>. QED BY <1>1, <1>9, <1>11, <1>12

LEMMA DeliverLeaves ==
    ASSUME IInv, Asked, mode = "parse", NEW f, IsFilter(f), Deliver(f)
    PROVE  Left' < Left /\ Asked'
<1>1. CASE stack = << >>
    <2>1. mode' = "done"
        BY <1>1 DEF Deliver, Finish
    <2>. QED BY <2>1, EndLeaves DEF Final
<1>2. CASE stack # << >>
    <2>. DEFINE n == Len(stack)
                u == Cardinality(Unread(stack, n))
                w == IF Unanswered(stack) THEN 2 ELSE 0
                l == Len(arg)
    <2>1. stack' = [stack EXCEPT ![Len(stack)].kids = Append(@, f)] /\ mode' = "loop" /\ arg' = arg
        BY <1>2 DEF Deliver
    <2>2. Calls(stack)
        BY InvariantCalls
    <2>3. n \in Nat /\ u \in Nat /\ l \in Nat
        BY <2>2, UnreadTop, LenProperties DEF IInv, TypeOK
    <2>4. Len(stack') = n /\ ~Unanswered(stack') /\ Unread(stack', Len(stack')) = Unread(stack, n)
        BY <1>2, <2>1, <2>2, WithFilter
    <2>5. Left = 5 * u + n + w + (5 * l + 1)
        BY DEF Left, Weight, Final
    <2>6. Left' = 5 * u + n + 0 + 2
        BY <2>1, <2>4 DEF Left, Weight, Final
    <2>7. l > 0 \/ w = 2
        <3>1. CASE Top.kind = "set"
            <4>1. arg # << >> /\ arg \in Seq(Tokens)
                BY <1>2, <3>1 DEF Asked, IInv, TypeOK
            <4>. QED BY <4>1, EmptySeq, LenProperties
        <3>2. CASE Top.kind # "set"
            <4>1. n \in DOMAIN stack
                BY <1>2, <2>2, EmptySeq, LenProperties DEF Calls
            <4>2. Top.kind = "not" /\ Top.kids = << >>
                BY <1>2, <2>2, <3>2, <4>1 DEF Asked, Calls, IsFrame, Top
            <4>. QED BY <1>2, <4>2 DEF Unanswered, Top
        <3>. QED BY <3>1, <3>2
    <2>8. w \in {0, 2}
        OBVIOUS
    <2>9. Asked'
        BY <2>1 DEF Asked
    <2>. HIDE DEF n, u, w, l
    <2>. QED BY <2>3, <2>5, <2>6, <2>7, <2>8, <2>9
<1>. QED BY <1>1, <1>2

LEMMA NextPartLeaves ==
    ASSUME IInv, NextPart
    PROVE  Left' < Left /\ Asked'
<1>. DEFINE r == Top
            s == r.rest
            e == IF r.kind = "set" THEN PartEnd(s) ELSE Len(s)
            x == SubSeq(s, e + 1, Len(s))
            y == SubSeq(s, 1, e)
            g == [r EXCEPT !.rest = x]
            n == Len(stack)
            b == Cardinality(Unread(stack, n - 1))
            w == IF Unanswered(stack) THEN 2 ELSE 0
<1>1. stack # << >> /\ IsFrame(r) /\ Calls(stack) /\ mode = "loop"
    BY TopFrame, InvariantCalls DEF NextPart
<1>2. s \in Seq(Tokens) /\ Len(s) \in Nat /\ r.kind \in {"set", "not"}
    BY <1>1, LenProperties DEF IsFrame
<1>3. e \in 0..Len(s) /\ (r.kind = "set" => e > 0)
    <2>1. CASE r.kind = "set"
        <3>1. s # << >>
            BY <2>1 DEF NextPart, More
        <3>2. PartEnd(s) \in 1..Len(s)
            BY <1>2, <3>1, PartEndFound
        <3>. QED BY <1>2, <2>1, <3>2
    <2>2. CASE r.kind # "set"
        BY <1>2, <2>2
    <2>. QED BY <2>1, <2>2
<1>4. r.kind # "set" => r.kids = << >>
    BY DEF NextPart, More
<1>5. stack' = [stack EXCEPT ![Len(stack)].rest = x] /\ arg' = y /\ mode' = "parse"
    BY DEF NextPart
<1>6. stack' = [stack EXCEPT ![n] = g]
    BY <1>5 DEF Top
<1>7. n \in Nat /\ n > 0 /\ n \in DOMAIN stack /\ DOMAIN stack = 1..n /\ stack \in Seq(Range(stack)) /\ r = stack[n]
    BY <1>1, EmptySeq, LenProperties DEF Calls, Top
<1>. HIDE DEF e, r
<1>8. Len(x) = Len(s) - e /\ Len(y) = e
    <2>. DEFINE l == Len(s)
                d == e + 1
    <2>1. l \in Nat /\ e \in Nat /\ e <= l
        BY <1>2, <1>3
    <2>2. d \in Int /\ l \in Int /\ 1 \in Int /\ e \in Int
        BY <2>1
    <2>3. \A i \in 1..l : s[i] \in Tokens
        BY <1>2, ElementOfSeq
    <2>4. (\A i \in d..l : s[i] \in Tokens) /\ \A i \in 1..e : s[i] \in Tokens
        BY <2>1, <2>3
    <2>. HIDE DEF l, d
    <2>5. Len(SubSeq(s, d, l)) = IF d <= l THEN l - d + 1 ELSE 0
        BY <2>2, <2>4, SubSeqProperties
    <2>6. Len(SubSeq(s, 1, e)) = IF 1 <= e THEN e - 1 + 1 ELSE 0
        BY <2>2, <2>4, SubSeqProperties
    <2>7. Len(SubSeq(s, d, l)) = l - e
        BY <2>1, <2>5 DEF d
    <2>8. Len(SubSeq(s, 1, e)) = e
        BY <2>1, <2>6
    <2>. QED BY <2>7, <2>8 DEF l, d
<1>. HIDE DEF x, y, s
<1>9. g = [kind |-> r.kind, rest |-> x, kids |-> r.kids]
    BY <1>1, FrameWith
<1>10. g.kind = r.kind /\ g.rest = x /\ g.kids = r.kids
    BY <1>9
<1>. HIDE DEF g
<1>11. Len(stack') = n /\ \A i \in 1..n : stack'[i] = IF i = n THEN g ELSE stack[i]
    BY <1>6, <1>7, ExceptAny
<1>12. stack'[n] = g /\ Unanswered(stack') = Unanswered(stack) /\ stack' # << >>
    <2>1. stack'[n] = g
        BY <1>7, <1>11
    <2>2. stack' # << >>
        <3>1. Len(stack') > 0
            BY <1>7, <1>11
        <3>. QED BY <3>1, EmptyAny
    <2>. QED BY <1>1, <1>7, <1>10, <1>11, <2>1, <2>2 DEF Unanswered
<1>13. Cardinality(Unread(stack, n)) = b + Len(s) /\ b \in Nat
    BY <1>1, <1>7, UnreadTop DEF s
<1>14. Cardinality(Unread(stack', n)) = b + (Len(s) - e)
    <2>. DEFINE k == n - 1
    <2>1. \A i \in 1..k : stack'[i] = stack[i]
        <3>. HIDE DEF n
        <3>1. \A i \in 1..k : i \in 1..n /\ i # n
            BY <1>7
        <3>. QED BY <1>11, <3>1
    <2>2. Unread(stack', k) = Unread(stack, k)
        <3>. HIDE DEF k
        <3>1. \A i \in 1..k : stack'[i].rest = stack[i].rest
            BY <2>1
        <3>. QED BY <3>1, UnreadSame
    <2>3. k \in Nat /\ k + 1 = n
        BY <1>7
    <2>4. \A i \in 1..n : Len(stack'[i].rest) \in Nat
        <3>1. \A i \in 1..n : Len(stack[i].rest) \in Nat
            <4>1. \A i \in 1..n : stack[i].rest \in Seq(Tokens)
                BY <1>1, <1>7 DEF Calls, IsFrame
            <4>. QED BY <4>1, LenProperties
        <3>2. Len(x) \in Nat
            BY <1>2, <1>3, <1>8
        <3>. QED BY <1>10, <1>11, <3>1, <3>2
    <2>. HIDE DEF k
    <2>5. Cardinality(Unread(stack', k + 1)) = Cardinality(Unread(stack', k)) + Len(stack'[k + 1].rest)
        BY <2>3, <2>4, UnreadMore
    <2>. QED BY <1>8, <1>10, <1>12, <2>2, <2>3, <2>5 DEF k
<1>15. Left = 5 * (b + Len(s)) + n + w + 2
    BY <1>1, <1>13 DEF Left, Weight, Final
<1>16. Left' = 5 * (b + (Len(s) - e)) + n + w + (5 * e + 1)
    BY <1>5, <1>8, <1>11, <1>12, <1>14 DEF Left, Weight, Final
<1>17. w \in {0, 2}
    OBVIOUS
<1>18. Asked'
    <2>1. Top' = g
        BY <1>11, <1>12 DEF Top
    <2>2. r.kind = "set" => y # << >>
        BY <1>3, <1>8, EmptyAny
    <2>. QED BY <1>4, <1>5, <1>10, <2>1, <2>2 DEF Asked
<1>. HIDE DEF b, n, w
<1>19. Left' < Left
    BY <1>2, <1>3, <1>7, <1>13, <1>15, <1>16, <1>17
<1>. QED BY <1>18, <1>19

LEMMA ReturnLeaves ==
    ASSUME IInv, Return
    PROVE  Left' < Left /\ Asked'
<1>. DEFINE f == IF Top.kind = "set" THEN Set(Top.kids) ELSE Not(Top.kids[1])
            n == Len(stack)
            st == Front(stack)
<1>1. stack # << >> /\ IsFrame(Top) /\ Calls(stack) /\ mode = "loop"
    BY TopFrame, InvariantCalls DEF Return
<1>2. IsFilter(f)
    BY <1>1, ComplexIsFilter DEF IsFrame
<1>3. CASE n = 1
    <2>1. mode' = "done"
        BY <1>3 DEF Return
    <2>. QED BY <1>1, <2>1, EndLeaves DEF Final
<1>4. CASE n # 1
    <2>. DEFINE k == n - 1
                u == Cardinality(Unread(stack, n))
                b == Cardinality(Unread(stack, k))
                l == Len(stack[n].rest)
                w == IF Unanswered(stack) THEN 2 ELSE 0
    <2>1. stack' = [st EXCEPT ![n - 1].kids = Append(@, f)] /\ mode' = "loop"
        BY <1>4 DEF Return
    <2>2. Calls(st) /\ st # << >> /\ Len(st) = k
        BY <1>1, <1>4, CallsLeave
    <2>3. n \in Nat /\ n > 0 /\ l \in Nat /\ b \in Nat /\ u = b + l
        BY <1>1, UnreadTop
    <2>4. k \in Nat /\ n > 1
        <3>. HIDE DEF n
        <3>. QED BY <1>4, <2>3
    <2>5. Unread(st, k) = Unread(stack, k)
        <3>1. \A i \in 1..k : st[i] = stack[i]
            BY <1>1, <2>4, FrontAny DEF Calls
        <3>. HIDE DEF st, k
        <3>2. \A i \in 1..k : st[i].rest = stack[i].rest
            BY <3>1
        <3>. QED BY <3>2, UnreadSame
    <2>. HIDE DEF f, st
    <2>6. stack' = [st EXCEPT ![Len(st)].kids = Append(@, f)]
        BY <2>1, <2>2
    <2>7. Len(stack') = k /\ ~Unanswered(stack') /\ Unread(stack', Len(stack')) = Unread(stack, k)
        BY <1>2, <2>2, <2>5, <2>6, WithFilter
    <2>8. Left = 5 * u + n + w + 2
        BY <1>1 DEF Left, Weight, Final
    <2>9. Left' = 5 * b + k + 0 + 2
        BY <2>1, <2>7 DEF Left, Weight, Final
    <2>10. w \in {0, 2} /\ k = n - 1
        OBVIOUS
    <2>11. Asked'
        BY <2>1 DEF Asked
    <2>. HIDE DEF n, k, u, b, l, w
    <2>. QED BY <2>3, <2>8, <2>9, <2>10, <2>11
<1>. QED BY <1>3, <1>4

LEMMA NextLeaves ==
    ASSUME IInv, Asked, Next
    PROVE  Left' < Left /\ Asked'
<1>1. CASE ParseBlank
    BY <1>1, Constants, DeliverLeaves DEF ParseBlank
<1>2. ASSUME mode = "parse", Fail PROVE Left' < Left /\ Asked'
    BY <1>2, EndLeaves DEF Fail, Finish, Final
<1>3. CASE ParseUnsound
    BY <1>2, <1>3 DEF ParseUnsound
<1>0. arg \in Seq(Tokens) /\ "(&" \in Openers /\ "(!" \in Openers
    BY DEF IInv, TypeOK, Openers
<1>4. CASE ParseSet
    <2>1. mode = "parse" /\ Sound /\ Given[1] = "(&" /\ Enter("set")
        BY <1>0, <1>4, CutEnters DEF ParseSet
    <2>. QED BY <2>1, EnterLeaves
<1>5. CASE ParseNot
    <2>1. mode = "parse" /\ Sound /\ Given[1] = "(!" /\ (Fail \/ Enter("not"))
        BY <1>0, <1>5, CutEnters DEF ParseNot
    <2>. QED BY <1>2, <2>1, EnterLeaves
<1>6. CASE ParseItem
    <2>1. mode = "parse" /\ Sound
        BY <1>6 DEF ParseItem
    <2>2. CASE ItemOutcome(Given) = "error"
        BY <1>2, <1>6, <2>1, <2>2 DEF ParseItem
    <2>3. CASE ItemOutcome(Given) = "panic"
        <3>1. Finish("panic", Invalid)
            BY <1>6, <2>3 DEF ParseItem, Fault
        <3>. QED BY <2>1, <3>1, EndLeaves DEF Finish, Final
    <2>4. CASE ItemOutcome(Given) = "muted"
        <3>1. Deliver(Invalid)
            BY <1>6, <2>4 DEF ParseItem
        <3>. QED BY <2>1, <3>1, Constants, DeliverLeaves
    <2>5. CASE ItemOutcome(Given) = "item"
        <3>1. Deliver(Leaf(Bare(Given)))
            BY <1>6, <2>5 DEF ParseItem
        <3>2. Bare(Given) \in Seq(Tokens)
            BY <2>1, GivenPiece, InsidePiece DEF Bare
        <3>. QED BY <2>1, <3>1, <3>2, LeafIsFilter, DeliverLeaves
    <2>6. ItemOutcome(Given) \in {"error", "panic", "muted", "item"}
        BY DEF ItemOutcome
    <2>. QED BY <2>2, <2>3, <2>4, <2>5, <2>6
<1>7. CASE NextPart
    BY <1>7, NextPartLeaves
<1>8. CASE Return
    BY <1>8, ReturnLeaves
<1>. QED BY <1>1, <1>3, <1>4, <1>5, <1>6, <1>7, <1>8 DEF Next

\* For a text of any length and depth: NewFilter takes at most a number of steps that is
\* fixed when it starts, and so stops.  No part is parsed twice, a call opened has used up
\* its opener, and a not without anything in it parses that once.
THEOREM ParsesEnd == Spec => [](Left \in Nat) /\ LeavesLess
<1>1. Spec => []IInv
    BY InitIInv, NextIInv, PTL DEF Spec
<1>2. Init => Asked
    BY DEF Init, Asked
<1>3. IInv /\ Asked /\ [Next]_vars => Asked'
    <2>. SUFFICES ASSUME IInv, Asked, [Next]_vars PROVE Asked'
        OBVIOUS
    <2>1. CASE Next
        BY <2>1, NextLeaves
    <2>2. CASE UNCHANGED vars
        BY <2>2 DEF vars, Asked, Top
    <2>. QED BY <2>1, <2>2
<1>4. IInv /\ Asked /\ [Next]_vars => [Left' < Left]_vars
    BY NextLeaves
<1>. QED BY <1>1, <1>2, <1>3, <1>4, LeftIsNat, PTL DEF Spec, LeavesLess
=============================================================================
