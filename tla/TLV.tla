-------------------------------- MODULE TLV --------------------------------
(***************************************************************************)
(* BER elements as the functions of asn1.go read and write them.  Their    *)
(* bodies are in another repository, github.com/go-directory/encoding, so  *)
(* they are modelled from their use here; only the tags of asn1.go and the *)
(* decoders of octet and UTF-8 strings are code of this one.               *)
(*                                                                         *)
(* An encoding is a list of elements; an element has a tag and, as its     *)
(* contents, a text or a list of elements.  A result is what a decoder     *)
(* leaves behind and how it ended.                                         *)
(*                                                                         *)
(* How unwrapTLV treats an element with another tag cannot be told from    *)
(* here: filter_test.go:62 passes only if it hands it back as it is, every *)
(* other use only says that it checks.  "strict" is this choice.           *)
(***************************************************************************)
EXTENDS Naturals, Sequences

Tag(class, constructed, number) == [class |-> class, constructed |-> constructed, number |-> number]
Primitive(n)   == Tag("context", FALSE, n)
Constructed(n) == Tag("context", TRUE, n)

INTEGER  == Tag("universal", FALSE, 2)
OCTET    == Tag("universal", FALSE, 4)
OID      == Tag("universal", FALSE, 6)
UTF8     == Tag("universal", FALSE, 12)
SEQUENCE == Tag("universal", TRUE, 16)
SET      == Tag("universal", TRUE, 17)

\* wrapTLV and writeCTLV, of elements and of a text.
Wrap(elements, tag) == <<[tag |-> tag, inside |-> elements, text |-> << >>]>>
Hold(string, tag)   == <<[tag |-> tag, inside |-> << >>, text |-> string]>>

Got(v)     == [end |-> "ok", val |-> v]
Failed(v)  == [end |-> "error", val |-> v]
Endless(v) == [end |-> "endless", val |-> v]

\* An error, or a call that does not return, ends a sequence of calls.
FirstBad(rs) == CHOOSE k \in DOMAIN rs : rs[k].end # "ok" /\ \A j \in 1..(k - 1) : rs[j].end = "ok"
AllOk(rs)    == \A k \in DOMAIN rs : rs[k].end = "ok"

HasTag(enc, tag) == enc # << >> /\ enc[1].tag = tag

\* readECTLV and readEPTLV, whose name says that a tag is expected.
Expected(enc, tag) == IF HasTag(enc, tag) THEN Got(enc[1].inside) ELSE Failed(<< >>)

\* unwrapTLV.
Unwrapped(strict, enc, tag) ==
    IF HasTag(enc, tag) THEN Got(enc[1].inside)
    ELSE IF strict \/ enc = << >> THEN Failed(<< >>) ELSE Got(enc)

\* OctetString.Decode takes an empty string, UTF8String.Decode wants a byte.
OctetRead(enc) == IF HasTag(enc, OCTET) THEN Got(enc[1].text) ELSE Failed(<< >>)
UTF8Read(enc)  == IF HasTag(enc, UTF8) /\ enc[1].text # << >> THEN Got(enc[1].text) ELSE Failed(<< >>)
=============================================================================
