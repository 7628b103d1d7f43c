----------------------------- MODULE GuideCodec -----------------------------
(***************************************************************************)
(* The BER codec of guides (guide.go): what NewGuide or NewEnhancedGuide   *)
(* returned is encoded, and what was written is decoded into a new value.  *)
(* A choice of criteria is told by the number of its tag: and, or and not  *)
(* are 1, 2 and 3, the items are 0 to 4.                                   *)
(***************************************************************************)
EXTENDS Guides, TLV

VARIABLES
    codec,      \* how far the guide has come
    enc,        \* its encoding
    decoded     \* the guide decoded, and how Decode ended

allvars == <<vars, codec, enc, decoded>>

NoCriteria == Criteria("nil", << >>, "", << >>)     \* a nil interface

Choice(c)     == CASE c = "and" -> 1 [] c = "or" -> 2 [] c = "not" -> 3
ItemTag(m)    == CASE m = "EQ" -> 0 [] m = "SUBSTR" -> 1 [] m = "GE" -> 2 [] m = "LE" -> 3 [] m = "APPROX" -> 4
ItemOfTag(n)  == CHOOSE m \in MatchTypes : ItemTag(m) = n

-----------------------------------------------------------------------------
(* Encode                                                                  *)

\* criteriaItemEncode, and encodeCriteriaSet.
EncodedItem(c)         == Wrap(Hold(c.attr, OCTET), Primitive(ItemTag(c.match)))
EncodedSet(c, members) == Wrap(Wrap(members, SET), Constructed(Choice(c.choice)))

RECURSIVE Encoded(_)
Encoded(c) ==
    LET members == FlattenSeq(<< >> \o [k \in DOMAIN c.kids |-> Encoded(c.kids[k])])
    IN  CASE c.choice = "item" -> EncodedItem(c)
          [] c.choice = "not"  -> Wrap(members, Constructed(Choice("not")))
          [] OTHER             -> EncodedSet(c, members)

\* Guide.Encode and EnhancedGuide.Encode, of a guide that has an object class.
EncodedGuide(g) ==
    Wrap(Wrap(Hold(<<g.oc>>, OID), Primitive(0))
           \o Wrap(Encoded(g.criteria), Constructed(1))
           \o (IF entry = "enhanced" THEN Wrap(Hold(<<g.subset>>, INTEGER), Primitive(2)) ELSE << >>),
         SEQUENCE)

-----------------------------------------------------------------------------
(* Decode                                                                  *)

\* Mutant: the SET is taken for a member.
SetInsideKept(strict, bytes, n) == Unwrapped(strict, bytes, Constructed(n))

SetInside(strict, bytes, n) ==
    LET outer == Unwrapped(strict, bytes, Constructed(n))
    IN  IF outer.end = "ok" THEN Unwrapped(strict, outer.val, SET) ELSE outer

\* The item of the tag 0; that tag is read a second time for the match type.
DecodedItem(strict, bytes) ==
    LET n     == bytes[1].tag.number
        value == Unwrapped(strict, bytes, Primitive(n))
        attr  == OctetRead(value.val)
    IN  IF value.end # "ok" \/ attr.end # "ok" THEN Failed(NoCriteria) ELSE Got(Item(attr.val, ItemOfTag(n)))

\* decodeCriteriaByTag, CriteriaAnd.Decode, CriteriaOr.Decode, CriteriaNot.Decode and
\* decodeCriteriaSet.  What is returned beside an error is the value that was not
\* filled: a set of nothing or a not of nothing.  A set whose tags are passed over is
\* its own member, and decoding it never ends.
RECURSIVE DecodedCriteria(_, _)
DecodedCriteria(strict, bytes) ==
    LET n      == bytes[1].tag.number
        inside == SetInside(strict, bytes, n)
        subs   == << >> \o [k \in DOMAIN inside.val |-> DecodedCriteria(strict, <<inside.val[k]>>)]
        set(cs) == IF n = 1 THEN And(cs) ELSE Or(cs)
        child  == Expected(bytes, Constructed(3))
        sub    == DecodedCriteria(strict, <<child.val[1]>>)
    IN  CASE n = 0 -> DecodedItem(strict, bytes)
          [] n \in {1, 2} ->
                IF inside.end # "ok" THEN Failed(set(<< >>))
                ELSE IF inside.val = bytes THEN Endless(NoCriteria)
                ELSE IF AllOk(subs) THEN Got(set([k \in DOMAIN subs |-> subs[k].val]))
                ELSE [subs[FirstBad(subs)] EXCEPT !.val = set(<< >>)]
          [] n = 3 ->
                IF child.end # "ok" \/ child.val = << >> THEN Failed(Not(NoCriteria))
                ELSE IF sub.end = "ok" THEN Got(Not(sub.val))
                ELSE [sub EXCEPT !.val = Not(NoCriteria)]
          [] OTHER -> Failed(NoCriteria)

\* Guide.Decode and EnhancedGuide.Decode: what precedes an error is kept.
DecodedGuide(strict, bytes) ==
    LET fields   == Unwrapped(strict, bytes, SEQUENCE).val
        class    == Expected(<<fields[1]>>, Primitive(0)).val[1].text[1]
        criteria == DecodedCriteria(strict, Expected(<<fields[2]>>, Constructed(1)).val)
        subset   == IF entry = "enhanced" THEN Expected(<<fields[3]>>, Primitive(2)).val[1].text[1] ELSE ""
    IN  IF criteria.end = "ok" THEN Got(Guide(class, criteria.val, subset))
        ELSE [criteria EXCEPT !.val = Guide(class, criteria.val, "")]

-----------------------------------------------------------------------------
CodecInit == Init /\ codec = "idle" /\ enc = << >> /\ decoded = Got(NoGuide)

Parser == Next /\ UNCHANGED <<codec, enc, decoded>>

\* An object identifier without arcs cannot be encoded.
Encode ==
    /\ mode = "done" /\ codec = "idle"
    /\ IF guide.oc = "" THEN codec' = "refused" /\ UNCHANGED enc
       ELSE codec' = "encoded" /\ enc' = EncodedGuide(guide)
    /\ UNCHANGED <<vars, decoded>>

Decode ==
    /\ codec = "encoded" /\ codec' = "decoded"
    /\ \E strict \in BOOLEAN : decoded' = DecodedGuide(strict, enc)
    /\ UNCHANGED <<vars, enc>>

CodecNext == Parser \/ Encode \/ Decode

\* A parse runs to its end; whether its answer is encoded is for the caller to say.
CodecSpec == CodecInit /\ [][CodecNext]_allvars /\ WF_allvars(Parser)

-----------------------------------------------------------------------------
RECURSIVE Matches(_)
Matches(c) == (IF c.choice = "item" THEN {c.match} ELSE {}) \cup UNION {Matches(c.kids[k]) : k \in DOMAIN c.kids}

\* A guide that was accepted and has an object class comes back from its encoding as it
\* was, however its criteria nest, if all its items are equality items.  With any other
\* item it never does, for the tags of these items are those of the sets and of the not;
\* but neither does it come back as another guide without an error.
RoundTrips ==
    codec = "decoded" =>
        IF Matches(guide.criteria) \subseteq {"EQ"} THEN decoded = Got(guide) ELSE decoded.end # "ok"
=============================================================================
