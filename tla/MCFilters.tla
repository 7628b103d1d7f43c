------------------------------ MODULE MCFilters ------------------------------
(***************************************************************************)
(* Filters for TLC: the texts to parse, the grammar of RFC 4515 as the     *)
(* reference, and what relates the filter returned to the text.            *)
(***************************************************************************)
EXTENDS FilterCodec

CONSTANTS p, q, MaxChunks

MCChars == [x \in Equals |-> IF x = q THEN 5 ELSE 3]

-----------------------------------------------------------------------------
(* The reference: section 3 of RFC 4515, with the empty set of RFC 4526    *)

Enclosed(s) == /\ Len(s) >= 2 /\ s[1] \in Openers
               /\ Balanced(s)
               /\ \A n \in 1..(Len(s) - 1) : Opened(s, n) > Closed(s, n)

None == Filter("none", << >>, << >>)

\* attribute "=" value
IsItem(s) == /\ s # << >> /\ s[1] \in Items
             /\ \A i \in 2..Len(s) : s[i] \in Equals \cup {"blank"} /\ s[i] # "muted"

RECURSIVE Grammar(_)
Grammar(s) ==
    LET inner == Inside(s)
        outer == {i \in 1..Len(inner) : Opened(inner, i) = Closed(inner, i)}
        ends  == SelectSeq([i \in 1..Len(inner) |-> i], LAMBDA i : i \in outer)
        part(k) == SubSeq(inner, IF k = 1 THEN 1 ELSE ends[k - 1] + 1, ends[k])
        fs    == << >> \o [k \in DOMAIN ends |-> Grammar(part(k))]
    IN  IF ~Enclosed(s) THEN None
        ELSE IF s[1] = "(" THEN IF IsItem(inner) \/ inner = <<"objectClass=*">> THEN Leaf(inner) ELSE None
        ELSE IF s[1] = "(&" THEN IF None \in Range(fs) THEN None ELSE Set(fs)
        ELSE IF Len(fs) # 1 \/ None \in Range(fs) THEN None ELSE Not(fs[1])

\* String.
RECURSIVE Written(_)
Written(f) ==
    CASE f.choice = "item"    -> <<"(">> \o f.toks \o <<")">>
      [] f.choice = "set"     -> <<"(&">> \o FlattenSeq(<< >> \o [i \in DOMAIN f.kids |-> Written(f.kids[i])]) \o <<")">>
      [] f.choice = "not"     -> <<"(!">> \o Written(f.kids[1]) \o <<")">>
      [] f.choice = "invalid" -> << >>

-----------------------------------------------------------------------------
(* The texts: any few chunks, and what filters are written as with an edit *)

Chunks == {<<"(&">>, <<"(!">>, <<"(">>, <<")">>, <<"blank">>, <<p>>, <<q>>}
          \cup {<<"(", x, ")">> : x \in {p, q, "refused", "muted", "hollow"}}

Leaves   == {Leaf(<<p>>), Leaf(<<q>>)}
Over(fs) == fs \cup {Not(f) : f \in fs} \cup {Set(<< >>)} \cup {Set(<<f>>) : f \in fs}
                \cup {Set(<<f, g>>) : f, g \in fs}

Sure     == {t \in UNION {[1..n -> Chunks] : n \in 0..MaxChunks} : Len(t) <= 2 \/ Balanced(FlattenSeq(t))}
Edits(s) == {s} \cup {SubSeq(s, 1, i - 1) \o SubSeq(s, i + 1, Len(s)) : i \in 1..Len(s)}
                \cup {SubSeq(s, 1, i) \o <<x>> \o SubSeq(s, i + 1, Len(s)) : i \in 0..Len(s), x \in Tokens}

Inputs == {FlattenSeq(t) : t \in Sure} \cup UNION {Edits(Written(f)) : f \in Over(Over(Leaves))}

\* The forms of the two items: one of each choice, and the parts it may lack.
Form(c, a, parts) == [choice |-> c, attr |-> a, parts |-> parts]
Simple    == {Form(c, "descr", {}) : c \in Ordered} \cup {Form("present", a, {}) : a \in {"descr", "oid"}}
Compound  == {Form("substrings", "descr", ps) : ps \in SUBSET {"initial", "final"}}
               \cup {Form("extensible", "oid", ps) : ps \in SUBSET {"rule", "type", "dn"} \ {{}, {"dn"}}}
MCForms   == {[x \in Items |-> IF x = p THEN f ELSE g] : f \in Simple, g \in {Form("lessOrEqual", "descr", {})}}
               \cup {[x \in Items |-> IF x = p THEN f ELSE g] : f \in {Form("equality", "descr", {})}, g \in Compound}
               \cup {[x \in Items |-> Form("approximate", "oid", {})]}

-----------------------------------------------------------------------------
(* Properties                                                              *)

RECURSIVE Holds(_, _)
Holds(f, g) == f = g \/ \E i \in DOMAIN f.kids : Holds(f.kids[i], g)

Whole(f) == ~Holds(f, Invalid)

\* The one filter of the grammar that is refused: a not of the empty set, which has
\* fewer than eight characters.
TooShort(f) == Holds(f, Not(Set(<< >>)))

\* Every text of the grammar is accepted and is the filter the grammar says, at any
\* nesting: splitFilterParts cuts at the right parentheses, and the checks that are
\* looser or stricter than the grammar refuse none, but for "(!(&))".
GrammarAccepted ==
    LET g == Grammar(text)
    IN  mode \in Final /\ g # None => IF TooShort(g) THEN mode = "error" ELSE mode = "done" /\ result = g

\* Of a text that is accepted without an invalid part, in the grammar or not, nothing is
\* lost: its sets, nots and items are those of the filter, in the same order.
Skeleton(s) == SelectSeq(s, LAMBDA x : x \notin {"(", ")", "blank", "objectClass=*"})
KeepsSkeleton == mode = "done" /\ Whole(result) => Skeleton(text) = Skeleton(Written(result))

\* What String writes is a text of the grammar for that very filter.
ReadsBack == mode = "done" /\ Whole(result) => Grammar(Written(result)) = result

=============================================================================
