----------------------------- MODULE FilterCodec -----------------------------
(***************************************************************************)
(* The BER codec of filters (filter_asn1.go, and substr.go's part of it):  *)
(* what NewFilter returned is encoded, and what was written is decoded     *)
(* into a new value.                                                       *)
(*                                                                         *)
(* The parser's items are given a form here: which of the seven choices    *)
(* one is, its attribute, a plain descriptor ("descr") or an OID or        *)
(* descriptor with options ("oid"), and the parts it has besides.  A set   *)
(* stands for both kinds, whose tags are 0 and 1.                          *)
(***************************************************************************)
EXTENDS Filters, TLV

CONSTANT Forms      \* what the items of a filter may be

Ordered == {"equality", "greaterOrEqual", "lessOrEqual", "approximate"}
ItemChoices == Ordered \cup {"substrings", "present", "extensible"}

\* "parts" are initial and final substrings, or the rule, type and dnAttributes of an
\* extensible match.
ASSUME FormsAssumption ==
    Forms \subseteq [Items -> [choice : ItemChoices, attr : {"descr", "oid"},
                               parts : SUBSET {"initial", "final", "rule", "type", "dn"}]]

VARIABLES
    form,       \* what the items of this filter are
    codec,      \* how far the filter has come
    enc,        \* its encoding
    decoded     \* the filter decoded, and how Decode ended

allvars == <<vars, form, codec, enc, decoded>>

-----------------------------------------------------------------------------
(* Values.  An item is told by its parts; an absent part is "", and so is  *)
(* a part that is there and empty.                                         *)

ItemTag(c) == CASE c = "equality" -> 3 [] c = "substrings" -> 4 [] c = "greaterOrEqual" -> 5 [] c = "lessOrEqual" -> 6
                [] c = "present" -> 7 [] c = "approximate" -> 8 [] c = "extensible" -> 9
ItemOfTag(n) == CHOOSE c \in ItemChoices : ItemTag(c) = n

NoParts == [type |-> "", value |-> << >>, initial |-> "", any |-> << >>, final |-> "", rule |-> "", dn |-> FALSE]

Value(choice, item, kids) == [choice |-> choice, item |-> item, kids |-> kids]
Nothing == Value("nil", NoParts, << >>)

ItemParts(toks, f) ==
    LET has(x) == IF x \in f.parts THEN x ELSE ""
    IN  CASE f.choice \in Ordered     -> [NoParts EXCEPT !.type = f.attr, !.value = toks]
          [] f.choice = "present"     -> [NoParts EXCEPT !.type = f.attr]
          [] f.choice = "substrings"  -> [NoParts EXCEPT !.type = f.attr, !.any = <<toks>>,
                                             !.initial = has("initial"), !.final = has("final")]
          [] f.choice = "extensible"  -> [NoParts EXCEPT !.type = IF "type" \in f.parts THEN f.attr ELSE "", !.value = toks,
                                             !.rule = has("rule"), !.dn = "dn" \in f.parts]

\* The filter NewFilter returned, with its items in their form; the default is a
\* presence filter.
RECURSIVE Meant(_, _)
Meant(f, fm) ==
    IF f = Default THEN Value("present", [NoParts EXCEPT !.type = "descr"], << >>)
    ELSE IF f.choice = "item"
    THEN LET x == FirstEqual(f.toks) IN Value(fm[f.toks[x]].choice, ItemParts(f.toks, fm[f.toks[x]]), << >>)
    ELSE Value(f.choice, NoParts, << >> \o [k \in DOMAIN f.kids |-> Meant(f.kids[k], fm)])

-----------------------------------------------------------------------------
(* Encode                                                                  *)

Maybe(string, tag) == IF string = "" THEN << >> ELSE Hold(<<string>>, tag)

\* Substrings.Encode, whose inner substrings have an element each.
EncodedSubstrings(i) ==
    Wrap(Maybe(i.initial, Primitive(0))
           \o FlattenSeq([k \in DOMAIN i.any |-> Hold(i.any[k], Primitive(1))])
           \o Maybe(i.final, Primitive(2)), SEQUENCE)

\* MatchingRuleAssertion.Encode, where FALSE and what is empty are left out.
EncodedAssertion(i) ==
    Maybe(i.rule, Primitive(1)) \o Maybe(i.type, Primitive(2)) \o Hold(i.value, Primitive(3))
      \o (IF i.dn THEN Hold(<<"TRUE">>, Primitive(4)) ELSE << >>)

\* AttributeValueAssertion.Encode, whose SEQUENCE is taken off again.
EncodedPair(i) == Hold(<<i.type>>, OCTET) \o Hold(i.value, OCTET)

EncodedItem(v) ==
    CASE v.choice \in Ordered    -> Wrap(EncodedPair(v.item), Constructed(ItemTag(v.choice)))
      [] v.choice = "substrings" -> Wrap(Hold(<<v.item.type>>, OCTET) \o EncodedSubstrings(v.item), Constructed(4))
      [] v.choice = "present"    -> Hold(<<v.item.type>>, Primitive(7))
      [] v.choice = "extensible" -> Wrap(EncodedAssertion(v.item), Constructed(9))

\* AttributeDescription.Encode asks isDescr; a presence filter and an extensible match
\* do not call it.
RECURSIVE Encodable(_)
Encodable(v) ==
    CASE v.choice = "invalid" -> FALSE
      [] v.choice \in Ordered \cup {"substrings"} -> v.item.type = "descr"
      [] OTHER -> \A k \in DOMAIN v.kids : Encodable(v.kids[k])

RECURSIVE Encoded(_)
Encoded(v) ==
    LET members == FlattenSeq(<< >> \o [k \in DOMAIN v.kids |-> Encoded(v.kids[k])])
    IN  CASE v.choice = "set" -> Wrap(members, Constructed(0))
          [] v.choice = "not" -> Wrap(members, Constructed(2))
          [] OTHER            -> EncodedItem(v)

-----------------------------------------------------------------------------
(* Decode                                                                  *)

\* The text of the first element with tag n, or of the last one.
TextAt(elements, n) == LET is == {k \in DOMAIN elements : elements[k].tag = Primitive(n)}
                       IN  IF is = {} THEN "" ELSE elements[CHOOSE k \in is : \A j \in is : j <= k].text[1]

\* Substrings.Decode: the inner ones are collected, and come after the initial.
DecodedSubstrings(strict, type, bytes) ==
    LET parts  == Unwrapped(strict, bytes, SEQUENCE)
        inners == SelectSeq(parts.val, LAMBDA e : e.tag = Primitive(1))
    IN  IF parts.end # "ok" THEN Failed(NoParts)
        ELSE Got([NoParts EXCEPT !.type = type, !.initial = TextAt(parts.val, 0),
                                 !.any = [k \in DOMAIN inners |-> inners[k].text], !.final = TextAt(parts.val, 2)])

\* Mutant: the attribute is read from the first octet string, the value too.
DecodedPairTwice(fields) ==
    LET a == OctetRead(fields)
        v == OctetRead(fields)
    IN  IF a.end # "ok" \/ v.end # "ok" THEN Failed(NoParts)
        ELSE Got([NoParts EXCEPT !.type = a.val[1], !.value = v.val])

\* AttributeValueAssertion.Decode, of what was wrapped again as a SEQUENCE.
DecodedPair(fields) ==
    LET a == OctetRead(fields)
        v == OctetRead(Tail(fields))
    IN  IF a.end # "ok" \/ v.end # "ok" THEN Failed(NoParts)
        ELSE Got([NoParts EXCEPT !.type = a.val[1], !.value = v.val])

\* MatchingRuleAssertion.Decode.
DecodedAssertion(fields) ==
    IF \E k \in DOMAIN fields : fields[k].tag \notin {Primitive(n) : n \in 1..4} THEN Failed(NoParts)
    ELSE LET at(n) == SelectSeq(fields, LAMBDA e : e.tag = Primitive(n))
         IN  Got([NoParts EXCEPT !.rule = TextAt(fields, 1), !.type = TextAt(fields, 2),
                                 !.value = IF at(3) = << >> THEN << >> ELSE at(3)[1].text, !.dn = at(4) # << >>])

\* The Decode of an item, from the element with its own tag.  FilterSubstrings.Decode
\* takes the SEQUENCE off before it calls Substrings.Decode, which wants it.
DecodedItem(strict, choice, bytes) ==
    LET fields == Unwrapped(strict, bytes, Constructed(ItemTag(choice))).val
    IN  CASE choice \in Ordered    -> DecodedPair(fields)
          [] choice = "substrings" -> DecodedSubstrings(strict, OctetRead(fields).val[1], fields[2].inside)
          [] choice = "present"    -> Got([NoParts EXCEPT !.type = bytes[1].text[1]])
          [] choice = "extensible" -> DecodedAssertion(fields)

\* FilterDecode, decodeFilterByTag, FilterAnd.Decode, FilterNot.Decode, decodeFilterSet.
\* A not takes the first element it finds.
RECURSIVE Decoded(_, _)
Decoded(strict, bytes) ==
    LET n     == bytes[1].tag.number
        set   == Unwrapped(strict, bytes, Constructed(0))
        subs  == << >> \o [k \in DOMAIN set.val |-> Decoded(strict, <<set.val[k]>>)]
        child == Expected(bytes, Constructed(2))
        sub   == Decoded(strict, <<child.val[1]>>)
        item  == DecodedItem(strict, ItemOfTag(n), bytes)
    IN  CASE n = 0 -> IF set.end # "ok" \/ ~AllOk(subs) THEN Failed(Value("set", NoParts, << >>))
                      ELSE Got(Value("set", NoParts, [k \in DOMAIN subs |-> subs[k].val]))
          [] n = 2 -> IF child.end # "ok" \/ sub.end # "ok" THEN Failed(Value("not", NoParts, <<Nothing>>))
                      ELSE Got(Value("not", NoParts, <<sub.val>>))
          [] n \in 3..9 -> [item EXCEPT !.val = Value(ItemOfTag(n), item.val, << >>)]
          [] OTHER -> Failed(Nothing)

-----------------------------------------------------------------------------
CodecInit == Init /\ form = << >> /\ codec = "idle" /\ enc = << >> /\ decoded = Got(Nothing)

Parser == Next /\ UNCHANGED <<form, codec, enc, decoded>>

Encode ==
    /\ mode = "done" /\ codec = "idle"
    /\ form' \in Forms
    /\ IF Encodable(Meant(result, form')) THEN codec' = "encoded" /\ enc' = Encoded(Meant(result, form'))
       ELSE codec' = "refused" /\ UNCHANGED enc
    /\ UNCHANGED <<vars, decoded>>

Decode ==
    /\ codec = "encoded" /\ codec' = "decoded"
    /\ \E strict \in BOOLEAN : decoded' = Decoded(strict, enc)
    /\ UNCHANGED <<vars, form, enc>>

CodecNext == Parser \/ Encode \/ Decode

\* A parse runs to its end; whether its answer is encoded is for the caller to say.
CodecSpec == CodecInit /\ [][CodecNext]_allvars /\ WF_allvars(Parser)

-----------------------------------------------------------------------------
(* Properties                                                              *)

RECURSIVE Kinds(_)
Kinds(v) == {v.choice} \cup UNION {Kinds(v.kids[k]) : k \in DOMAIN v.kids}

\* A filter comes back from its encoding as it was, whatever its items are and however
\* deep they are; one with substrings may not come back at all, for its decoder counts
\* on unwrapTLV to pass over a tag it does not find.
RoundTrips ==
    LET v == Meant(result, form)
    IN  codec = "decoded" => decoded = Got(v) \/ ("substrings" \in Kinds(v) /\ decoded.end = "error")

=============================================================================
