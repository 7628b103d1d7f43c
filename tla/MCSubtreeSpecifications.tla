---------------------- MODULE MCSubtreeSpecifications ----------------------
(***************************************************************************)
(* SubtreeSpecifications for TLC: specifications, how they are spelled,    *)
(* and what must become of a spelling.                                     *)
(***************************************************************************)
EXTENDS SubtreeCodec

Separated(ss, sep) == FoldLeft(LAMBDA a, s : IF a = << >> THEN s ELSE a \o sep \o s, << >>, ss)
Quoted(name) == <<"quote">> \o name \o <<"quote">>

\* itoa, of numbers whose digits are 0 and 1.
RECURSIVE Numeral(_)
Numeral(n) == IF n < 2 THEN <<IF n = 0 THEN "0" ELSE "1">> ELSE Numeral(n \div 10) \o Numeral(n % 10)

\* String of a refinement.
WrittenSet(ws) == <<"and:", "{">> \o Separated(ws, <<",">>) \o <<"}">>
RECURSIVE WrittenFilter(_)
WrittenFilter(f) ==
    CASE f.choice = "item" -> <<"item:">> \o f.toks
      [] f.choice = "and"  -> WrittenSet([k \in DOMAIN f.kids |-> WrittenFilter(f.kids[k])])
      [] f.choice = "not"  -> <<"not:">> \o WrittenFilter(f.kids[1])
      [] OTHER -> << >>

\* String of an exclusion, and of all of them.
WrittenExclusion(name) == IF name = << >> THEN << >> ELSE <<"chopBefore", "blank">> \o Quoted(name)
WrittenExclusions(names, sp) ==
    <<"{">> \o sp \o Separated([k \in DOMAIN names |-> WrittenExclusion(names[k])], <<",", "blank">>) \o sp \o <<"}">>

\* String, with sp where RFC 3672 allows any number of spaces.
Written(s, sp) ==
    LET parts == << IF s.base = << >> THEN << >> ELSE <<"base", "blank">> \o Quoted(s.base),
                    IF s.exclusions = << >> THEN << >>
                    ELSE <<"specificExclusions", "blank">> \o sp \o WrittenExclusions(s.exclusions, <<"blank">> \o sp),
                    IF s.minimum = 0 THEN << >> ELSE <<"minimum", "blank">> \o Numeral(s.minimum),
                    IF s.maximum = 0 THEN << >> ELSE <<"maximum", "blank">> \o Numeral(s.maximum),
                    IF s.filter = NoFilter THEN << >> ELSE <<"specificationFilter", "blank">> \o sp \o WrittenFilter(s.filter) >>
    IN  <<"{">> \o sp \o Separated(SelectSeq(parts, LAMBDA c : c # << >>), <<",", "blank">> \o sp) \o sp \o <<"}">>

-----------------------------------------------------------------------------
(* Instances                                                               *)

X == <<"x">>
Names == {X, <<"x", ",", "x">>, <<"x", "{", "x", "}">>, <<"}", "{">>, <<"x", "esc", ",">>}
            \cup {<<c, "blank", "1">> : c \in {"base", "minimum"}} \cup {<<"maximum">>}
ExclusionLists == {<< >>, <<X>>} \cup {<<n>> : n \in Names} \cup {<<n, m>> : n, m \in Names}

Item(s)  == Refinement("item", s, << >>)
And(fs)  == Refinement("and", << >>, fs)
Not(f)   == Refinement("not", << >>, <<f>>)
Flat     == {Item(X), And(<< >>), And(<<Item(X)>>), And(<<Item(X), Item(X)>>), Not(Item(X))}
Filters  == {NoFilter} \cup Flat \cup {Not(f) : f \in Flat} \cup {And(<<f, g>>) : f, g \in Flat}

Specs == {Specification(b, << >>, 0, n, f) : b \in {<< >>, X}, n \in {0, 10}, f \in Filters}
           \cup {Specification(b, e, n, 0, NoFilter) : b \in Names \cup {<< >>}, e \in ExclusionLists, n \in {0, 1}}
Wordy == {Specification(X, <<X>>, 1, 11, And(<<Item(X)>>)), Specification(<< >>, <<X, X>>, 0, 10, NoFilter)}

Spaces == {<< >>, <<"blank">>, <<"blank", "blank">>}
Edits(s) == {s} \cup {SubSeq(s, 1, i - 1) \o SubSeq(s, i + 1, Len(s)) : i \in 1..Len(s)}
                \cup {SubSeq(s, 1, i) \o <<t>> \o SubSeq(s, i + 1, Len(s)) : i \in 0..Len(s), t \in Tokens}

Spellings == {<<s, sp>> : s \in Specs, sp \in Spaces}
Meanings  == {[text |-> Written(d[1], d[2]), spec |-> d[1]] : d \in Spellings}
Inputs == {m.text : m \in Meanings}
            \cup UNION {Edits(Written(s, << >>)) : s \in Wordy}
            \cup UNION {Edits(Written(s, << >>)) : s \in {Specification(<< >>, << >>, 0, 0, f) : f \in Filters}}
            \cup {<<"{", "}">>, <<"{">>}

Used == Specification(<<"x", "x">>, <<X>>, 1, 0, Item(<<"x", "x">>))
MCReceivers == {EmptySpecification, Used}

-----------------------------------------------------------------------------
(* Properties                                                              *)

\* A name in which a marshal function finds its word: one of a component that does not
\* begin before that name.
Hijacked(s) ==
    \/ \E c \in {"specificExclusions", "minimum", "maximum", "specificationFilter"} : Found(s.base, c)
    \/ \E k \in DOMAIN s.exclusions, c \in {"minimum", "maximum", "specificationFilter"} : Found(s.exclusions[k], c)
    \/ \E k \in DOMAIN s.exclusions : s.base = << >> /\ Found(s.exclusions[k], "base")

\* A name of an exclusion whose braces move the end that findMatchingBrace finds.
Unbraced(s) == \E k \in DOMAIN s.exclusions :
                  LET n == s.exclusions[k]
                  IN  Depth(n, Len(n)) # 0 \/ \E i \in DOMAIN n : Depth(n, i) < 0

\* Every spelling of a specification is accepted as that very specification, whatever
\* commas, braces and backslashes its names have, unless a name holds the word of a
\* component that comes later or not at all, or the name of an exclusion has braces
\* that do not match.
SpellingsAccepted ==
    mode \in Final =>
        \A m \in Meanings : m.text = text /\ ~Hijacked(m.spec) /\ ~Unbraced(m.spec) => mode = "done" /\ spec = m.spec

RECURSIVE Whole(_)
Whole(f) == /\ f.choice = "item" => f.toks = X
            /\ f.choice # "invalid"
            /\ \A k \in DOMAIN f.kids : Whole(f.kids[k])
PlainName(n) == /\ n # << >>
                /\ \/ Range(n) \subseteq Letters \cup Digits \cup {"blank", ","}
                   \/ Range(n) \subseteq {"x", "quote"} /\ Cardinality({i \in DOMAIN n : n[i] = "quote"}) % 2 = 0
Plain(s) == /\ s.base = << >> \/ PlainName(s.base)
            /\ \A k \in DOMAIN s.exclusions : PlainName(Trim(s.exclusions[k])) /\ s.exclusions[k] = Trim(s.exclusions[k])
            /\ Whole(s.filter) /\ ~Hijacked(s)

\* What NewSubtreeSpecification answers with is, once it is written by String, read as
\* itself, for every text that is accepted: also for those that are in no grammar.
Again(s) == LET raw == Trim(SubSeq(s, 2, Len(s) - 1))
                Part(c, r, zero) == IF Found(raw, c) THEN r ELSE zero
            IN  Specification(Part("base", BaseOf(After(raw, "base")).out, << >>),
                              Part("specificExclusions", ExclusionsOf(After(raw, "specificExclusions")).out, << >>),
                              Part("minimum", DistanceOf(After(raw, "minimum")).out, 0),
                              Part("maximum", DistanceOf(After(raw, "maximum")).out, 0),
                              Part("specificationFilter", FilterOf(After(raw, "specificationFilter")).out, NoFilter))
ReadsBack == mode = "done" /\ Plain(spec) => Again(Written(spec, << >>)) = spec

=============================================================================
