------------------------------ MODULE MCGuides ------------------------------
(***************************************************************************)
(* Guides for TLC: the texts, the grammar of RFC 4517 (3.3.10 and 3.3.14)  *)
(* as the reference, and what relates a guide to its text.                 *)
(***************************************************************************)
EXTENDS GuideCodec

CONSTANTS MaxChunks, Deep

-----------------------------------------------------------------------------
(* The reference: criteria by the places where no parenthesis is open      *)

None == Criteria("none", << >>, "", << >>)
Name(s) == s # << >> /\ (s = <<"oid">> \/ Range(s) \subseteq Words \ {"oid"})

Depth(s, n) == Cardinality({i \in 1..n : s[i] = "("}) - Cardinality({i \in 1..n : s[i] = ")"})

Split(s, sep) ==
    LET Read(parts, i) == IF s[i] = sep /\ Depth(s, i) = 0 THEN Append(parts, << >>)
                          ELSE [parts EXCEPT ![Len(parts)] = Append(@, s[i])]
    IN  FoldLeft(Read, << << >> >>, [i \in DOMAIN s |-> i])

Joined(kind, cs) == IF None \in Range(cs) THEN None ELSE Gathered(kind, cs)

RECURSIVE Grammar(_)
Grammar(s) ==
    LET Term(t) ==
            IF t = << >> THEN None
            ELSE IF t[1] = "!" THEN LET c == Grammar(Tail(t)) IN IF c = None THEN None ELSE Not(c)
            ELSE IF t[1] = "(" THEN IF t[Len(t)] = ")" THEN Grammar(SubSeq(t, 2, Len(t) - 1)) ELSE None
            ELSE IF t = <<"?", "true">> THEN And(<< >>)
            ELSE IF t = <<"?", "false">> THEN Or(<< >>)
            ELSE IF Len(t) > 2 /\ t[Len(t) - 1] = "$" /\ t[Len(t)] \in MatchTypes /\ Name(SubSeq(t, 1, Len(t) - 2))
                 THEN Item(SubSeq(t, 1, Len(t) - 2), t[Len(t)])
            ELSE None
        Terms(t) == LET ts == Split(t, "&") IN Joined("and", << >> \o [k \in DOMAIN ts |-> Term(ts[k])])
        sets == Split(s, "|")
    IN  IF Depth(s, Len(s)) # 0 THEN None ELSE Joined("or", << >> \o [k \in DOMAIN sets |-> Terms(sets[k])])

\* The object class is an oid, which is a descriptor or a numeric one.  White space may
\* be around every part; the RFC has less of it around the criteria of a Guide and
\* behind the subset.
GuideGrammar(e, t) ==
    LET parts == Split(t, "#")
        class == Trim(parts[1])
        oc    == IF class = <<"oid">> THEN "oid" ELSE "descr"
        c     == Grammar(Trim(parts[IF Len(parts) > 1 THEN 2 ELSE 1]))
    IN  IF c = None THEN NoGuide
        ELSE IF e = "guide" /\ Len(parts) = 1 THEN Guide("", c, "")
        ELSE IF e = "guide" /\ Len(parts) = 2 /\ Name(class) THEN Guide(oc, c, "")
        ELSE IF e = "enhanced" /\ Len(parts) = 3 /\ Name(class) /\ Trim(parts[3]) = <<"whole">>
             THEN Guide(oc, c, "whole")
        ELSE NoGuide

Separated(ss, sep) == FoldLeft(LAMBDA a, s : IF a = << >> THEN s ELSE a \o <<sep>> \o s, << >>, ss)

WrittenItem(c) == c.attr \o <<"$", c.match>>

\* String.
RECURSIVE Written(_)
Written(c) ==
    LET terms(sep) == Separated([i \in DOMAIN c.kids |-> Written(c.kids[i])], sep)
        Wrapped(s) == IF Len(c.kids) > 1 THEN <<"(">> \o s \o <<")">> ELSE s
    IN  CASE c.choice = "item" -> WrittenItem(c)
          [] c.choice = "and"  -> IF c.kids = << >> THEN <<"?", "true">> ELSE Wrapped(terms("&"))
          [] c.choice = "or"   -> IF c.kids = << >> THEN <<"?", "false">> ELSE Wrapped(terms("|"))
          [] c.choice = "not"  -> <<"!">> \o Written(c.kids[1])

WrittenEnhanced(g) == <<"oid", "#">> \o Written(g.criteria) \o <<"#", "whole">>
WrittenGuide(g)    == (IF g.oc = "" THEN << >> ELSE <<"oid", "#">>) \o Written(g.criteria)

-----------------------------------------------------------------------------
(* The texts: any few chunks, and what criteria are written as with an     *)
(* edit, with and without an object class and a subset                     *)

Chunks == {<<"x", "$", "EQ">>} \cup {<<"?", c>> : c \in {"true", "false"}} \cup {<<t>> : t \in Symbols \ {"esc"}}
            \cup {<<"x">>, <<"LE">>}

Leaves   == {Item(<<"x">>, "EQ"), Item(<<"true">>, "LE"), And(<< >>)}
Over(cs) == cs \cup {Not(c) : c \in cs} \cup {And(<<c, d>>) : c, d \in cs} \cup {Or(<<c, d>>) : c, d \in cs}
Written2 == {Written(c) : c \in IF Deep THEN Over(Over({Item(<<"x">>, "EQ")})) \cup Over(Leaves) ELSE Over(Leaves)}

Matched  == {Item(<<"x">>, m) : m \in MatchTypes}
Mixed    == {<<"oid", "#">> \o Written(c) : c \in Over(Matched)}

Edits(s) == {s} \cup {SubSeq(s, 1, i - 1) \o SubSeq(s, i + 1, Len(s)) : i \in 1..Len(s)}
                \cup {SubSeq(s, 1, i) \o <<t>> \o SubSeq(s, i + 1, Len(s)) : i \in 0..Len(s), t \in Symbols \cup {"x", "LE"}}

Bodies   == {FlattenSeq(t) : t \in UNION {[1..n -> Chunks] : n \in 1..MaxChunks}} \cup UNION {Edits(s) : s \in Written2}
Item1    == <<"x", "$", "LE">>
Framed   == UNION {Edits(<<class, "#", "blank">> \o Item1 \o b) :
                     class \in {"oid", "x"}, b \in {<< >>, <<"#", "whole">>, <<"#", "x">>}}
Inputs   == Bodies \cup Framed \cup Mixed \cup {<<"oid", "#">> \o b \o <<"#", "blank", "whole">> : b \in {b \in Bodies : Len(b) <= 4}}

-----------------------------------------------------------------------------
(* Properties                                                              *)

\* Every text of the grammar is accepted, as the guide the grammar says, whatever is
\* nested in what, but for two kinds, which are refused: a text shorter than five bytes,
\* c$EQ, and every text whose object class is a descriptor, person#cn$EQ, for which
\* newObjectIdentifierStr (oid.go:354) wants two arcs.
GrammarAccepted ==
    LET meant == GuideGrammar(entry, text)
    IN  mode \in Final /\ meant # NoGuide =>
            IF Size(text) < 5 \/ meant.oc = "descr" THEN mode = "error" ELSE mode = "done" /\ guide = meant

RECURSIVE Attributes(_)
Attributes(c) == (IF c.choice = "item" THEN {c.attr} ELSE {})
                   \cup UNION {Attributes(c.kids[i]) : i \in DOMAIN c.kids}
Clean(c) == \A a \in Attributes(c) : Name(a)

\* The parser is looser than the grammar in four ways and no other: what follows the
\* criteria is ignored, and so is the byte that closes a group, an attribute is any
\* text, and a "?" before one is dropped.  A text without these is accepted only if it
\* is in the grammar, for the criteria the grammar says.
LaxOnlyFor ==
    mode = "done" =>
        \/ pos < Len(input)
        \/ Depth(input, Len(input)) # 0
        \/ ~Clean(guide.criteria)
        \/ \E i \in DOMAIN input : input[i] = "?" /\ (i = Len(input) \/ input[i + 1] \notin {"true", "false"})
        \/ Grammar(input) = guide.criteria

\* What String writes of an accepted guide is a text of the grammar for that very
\* guide, unless an attribute is no name.
ReadsBack ==
    mode = "done" /\ Clean(guide.criteria) =>
        GuideGrammar(entry, IF entry = "enhanced" THEN WrittenEnhanced(guide) ELSE WrittenGuide(guide)) = guide

=============================================================================
