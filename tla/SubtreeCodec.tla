---------------------------- MODULE SubtreeCodec ----------------------------
(***************************************************************************)
(* The DER codec of subtree specifications (subtree_asn1.go): what         *)
(* NewSubtreeSpecification returned is encoded, and what was written is    *)
(* decoded into a value that may have been used before.  The version, one  *)
(* byte, is an element here.  A set of refinements stands for both kinds,  *)
(* whose tags are 0 and 1.                                                 *)
(***************************************************************************)
EXTENDS SubtreeSpecifications, TLV

CONSTANT Receivers      \* the values decoded into

VARIABLES
    codec,      \* how far the specification has come
    enc,        \* its encoding
    receiver,   \* the value decoded into, as it was
    decoded     \* and as it is, and how Decode ended

allvars == <<subVars, codec, enc, receiver, decoded>>

Version == Tag("byte", FALSE, 1)
Choice(c) == CASE c = "and" -> 0 [] c = "not" -> 2 [] c = "item" -> 3

-----------------------------------------------------------------------------
(* Encode                                                                  *)

\* encodeRefinementDER, of a refinement that is none of the four choices: an error.
RECURSIVE Encodable(_)
Encodable(f) == f.choice # "invalid" /\ \A k \in DOMAIN f.kids : Encodable(f.kids[k])

RECURSIVE EncodedRefinement(_)
EncodedRefinement(f) ==
    Wrap(IF f.choice = "item" THEN Hold(f.toks, UTF8)
         ELSE FlattenSeq(<< >> \o [k \in DOMAIN f.kids |-> EncodedRefinement(f.kids[k])]),
         Constructed(Choice(f.choice)))

Unless(absent, elements) == IF absent THEN << >> ELSE elements

EncodedExclusion(name) == Wrap(Unless(name = << >>, Wrap(Hold(name, UTF8), Constructed(0))), Constructed(3))
EncodedChop(s) ==
    Unless(s.exclusions = << >>,
           Wrap(FlattenSeq([k \in DOMAIN s.exclusions |-> EncodedExclusion(s.exclusions[k])]), Constructed(0)))
      \o Unless(s.minimum = 0, Wrap(Hold(<<s.minimum>>, INTEGER), Constructed(1)))
      \o Unless(s.maximum = 0, Wrap(Hold(<<s.maximum>>, INTEGER), Constructed(2)))

\* encodeSubtreeSpecification: the error of a filter that cannot be encoded is lost with
\* its scope, and the filter is left out.
EncodedSpecification(s) ==
    Hold(<< >>, Version)
      \o Unless(s.base = << >>, Wrap(Hold(s.base, UTF8), Constructed(0)))
      \o Unless(EncodedChop(s) = << >>, Wrap(EncodedChop(s), Constructed(1)))
      \o Unless(s.filter = NoFilter \/ ~Encodable(s.filter), Wrap(EncodedRefinement(s.filter), Constructed(2)))

-----------------------------------------------------------------------------
(* Decode: one function for each component, all of which add to what the   *)
(* receiver has                                                            *)

\* decodeRefinementDER.
RECURSIVE DecodedRefinement(_)
DecodedRefinement(bytes) ==
    LET n    == bytes[1].tag.number
        subs == << >> \o [k \in DOMAIN bytes[1].inside |-> DecodedRefinement(<<bytes[1].inside[k]>>)]
        item == UTF8Read(bytes[1].inside)
    IN  IF bytes = << >> THEN Failed(NoFilter)
        ELSE IF n = 3 THEN [item EXCEPT !.val = Refinement("item", item.val, << >>)]
        ELSE IF ~AllOk(subs) \/ (n = 2 /\ subs = << >>) THEN Failed(NoFilter)
        ELSE IF n = 2 THEN Got(Refinement("not", << >>, <<subs[1].val>>))
        ELSE Got(Refinement("and", << >>, [k \in DOMAIN subs |-> subs[k].val]))

\* Mutant: a name that is not there is not decoded as an empty one.
DecodedExclusionsNamed(elements) ==
    [k \in DOMAIN SelectSeq(elements, LAMBDA e : e.inside # << >>)
        |-> UTF8Read(SelectSeq(elements, LAMBDA e : e.inside # << >>)[k].inside[1].inside).val]

\* decodeExclusions and decodeSpecificExclusion: the first that fails ends the loop, and
\* the error is not returned.
DecodedExclusions(elements) ==
    LET read(e) == IF e.inside = << >> THEN Got(<< >>) ELSE UTF8Read(e.inside[1].inside)
        good    == CHOOSE n \in 0..Len(elements) : /\ \A k \in 1..n : read(elements[k]).end = "ok"
                                                   /\ n = Len(elements) \/ read(elements[n + 1]).end # "ok"
    IN  [k \in 1..good |-> read(elements[k]).val]

\* decodeChop: a distance is taken whether it was decoded or not.
ChopInto(s, elements) ==
    LET Put(r, e) == CASE e.tag = Constructed(0) -> [r EXCEPT !.exclusions = @ \o DecodedExclusions(e.inside)]
                       [] e.tag = Constructed(1) -> [r EXCEPT !.minimum = e.inside[1].text[1]]
                       [] e.tag = Constructed(2) -> [r EXCEPT !.maximum = e.inside[1].text[1]]
    IN  FoldLeft(Put, s, elements)

\* decodeBase, decodeChop and decodeSpecFilter.
ElementInto(s, e) ==
    LET base   == UTF8Read(e.inside)
        filter == DecodedRefinement(e.inside)
    IN  CASE e.tag = Constructed(0) -> IF base.end = "ok" THEN Got([s EXCEPT !.base = base.val]) ELSE Failed(s)
          [] e.tag = Constructed(1) -> Got(ChopInto(s, e.inside))
          [] e.tag = Constructed(2) -> IF filter.end = "ok" THEN Got([s EXCEPT !.filter = filter.val]) ELSE Failed(s)

\* decodeSubtreeSpecification.
DecodedInto(s, bytes) ==
    FoldLeft(LAMBDA r, e : IF r.end = "ok" THEN ElementInto(r.val, e) ELSE r, Got(s), Tail(bytes))

-----------------------------------------------------------------------------
CodecInit == SubtreeInit /\ codec = "idle" /\ enc = << >> /\ receiver = EmptySpecification /\ decoded = Got(EmptySpecification)

Parser == SubtreeNext /\ UNCHANGED <<codec, enc, receiver, decoded>>

Encode ==
    /\ mode = "done" /\ codec = "idle" /\ codec' = "encoded"
    /\ enc' = EncodedSpecification(spec)
    /\ UNCHANGED <<subVars, receiver, decoded>>

Decode ==
    /\ codec = "encoded" /\ codec' = "decoded"
    /\ receiver' \in Receivers
    /\ decoded' = DecodedInto(receiver', enc)
    /\ UNCHANGED <<subVars, enc>>

CodecNext == Parser \/ Encode \/ Decode

CodecSpec == CodecInit /\ [][CodecNext]_allvars

-----------------------------------------------------------------------------
\* Decoding never fails, and a new value becomes the specification that was encoded, but
\* for a filter that is no refinement: it is left out without an error, and what was a
\* filter of something becomes no filter at all.  A value that was used before keeps
\* what the encoding does not have, and adds the exclusions to those it has.
RoundTrips ==
    LET kept == IF Encodable(spec.filter) THEN spec.filter ELSE NoFilter
        Or(new, none, old) == IF new = none THEN old ELSE new
    IN  codec = "decoded" =>
            decoded = Got(Specification(Or(spec.base, << >>, receiver.base),
                                        receiver.exclusions \o spec.exclusions,
                                        Or(spec.minimum, 0, receiver.minimum),
                                        Or(spec.maximum, 0, receiver.maximum),
                                        Or(kept, NoFilter, receiver.filter)))
=============================================================================
