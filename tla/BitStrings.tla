----------------------------- MODULE BitStrings -----------------------------
(***************************************************************************)
(* BitString (bitstr.go): a number of bits and a slice of bytes, which the *)
(* copies of a value share until Set needs more of them.                   *)
(*                                                                         *)
(* A byte has BitsPerByte bits: 8 in the code. A slice is as long as the   *)
(* array it was made with; no operation of the package makes another.      *)
(***************************************************************************)
EXTENDS Naturals, Sequences, SequencesExt

CONSTANTS
    BitHandles,     \* the variables of type BitString
    Arrays,         \* the arrays of bytes there may be
    BitsPerByte,
    MaxBits         \* bound: the bits a value may have

ASSUME BitsPerByteAssumption == BitsPerByte \in Nat \ {0} /\ MaxBits \in Nat

VARIABLES
    bit,        \* the BitStrings: the array of Bytes, none at first, and BitLength
    data,       \* the bits of the arrays in use, the first one on the left
    shared      \* history: the arrays that two BitStrings have had at a time

bitVars == <<bit, data, shared>>

NoBytes == "nil"

ASSUME ArraysAssumption == NoBytes \notin Arrays

Padding(n) == (BitsPerByte - (n % BitsPerByte)) % BitsPerByte
Zeros(n)   == [k \in 1..n |-> 0]
Padded(s)  == s \o Zeros(Padding(Len(s)))

BytesOf(i) == IF bit[i].bytes = NoBytes THEN << >> ELSE data[bit[i].bytes]

\* marshalBitString: the digits between the quotes, of which one is needed.
Marshals(s) == s # << >>

Has(i, pos) == pos < Len(BytesOf(i)) /\ BytesOf(i)[pos + 1] = 1
At(i, pos)  == IF pos < bit[i].length THEN BytesOf(i)[pos + 1] ELSE 0

-----------------------------------------------------------------------------
(* BER: the number of bits of padding, and the bytes                       *)

EncodedBits(i) == [padding |-> Padding(bit[i].length), bits |-> BytesOf(i)]

Decodable(e) == /\ e.bits = << >> => e.padding = 0
                /\ \A k \in (Len(e.bits) - e.padding + 1)..Len(e.bits) : e.bits[k] = 0
DecodedLength(e) == Len(e.bits) - e.padding

-----------------------------------------------------------------------------
(* Operations                                                              *)

UsedArrays(b) == {b[i].bytes : i \in BitHandles} \ {NoBytes}
FreeArrays    == Arrays \ UsedArrays(bit)

\* What an operation leaves; an array nobody has any more is forgotten.
LeaveBits(b, d, s) ==
    /\ bit' = b
    /\ data' = [a \in UsedArrays(b) |-> d[a]]
    /\ shared' = s \cap UsedArrays(b)

\* i has an array of its own, with these bits.
Replace(i, s, n) ==
    /\ FreeArrays # {}
    /\ LET a == CHOOSE a \in FreeArrays : TRUE
       IN  LeaveBits([bit EXCEPT ![i] = [bytes |-> a, length |-> n]],
                     [c \in DOMAIN data \cup {a} |-> IF c = a THEN s ELSE data[c]], shared)

BitsInit == /\ bit = [i \in BitHandles |-> [bytes |-> NoBytes, length |-> 0]]
            /\ data = << >> /\ shared = {}

\* NewBitString.
NewBits(i, s) == Marshals(s) /\ Replace(i, Padded(s), Len(s))

CopyBits(i, j) ==
    /\ i # j
    /\ LeaveBits([bit EXCEPT ![i] = bit[j]], data, shared \cup {bit[j].bytes})

\* Mutant: the length is a position behind.
LengthWithout(i, pos) == IF pos > bit[i].length THEN pos ELSE bit[i].length

LengthWith(i, pos) == IF pos + 1 > bit[i].length THEN pos + 1 ELSE bit[i].length

\* Set: new bytes if the position is behind those there are, else the ones there are.
SetBit(i, pos) ==
    IF pos < Len(BytesOf(i))
    THEN LeaveBits([bit EXCEPT ![i].length = LengthWith(i, pos)],
                   [data EXCEPT ![bit[i].bytes][pos + 1] = 1], shared)
    ELSE Replace(i, Padded([k \in 1..(pos + 1) |->
                      IF k = pos + 1 THEN 1 ELSE IF k <= Len(BytesOf(i)) THEN BytesOf(i)[k] ELSE 0]),
                 LengthWith(i, pos))

UnsetBit(i, pos) ==
    /\ pos < Len(BytesOf(i))
    /\ LeaveBits(bit, [data EXCEPT ![bit[i].bytes][pos + 1] = 0], shared)

DecodeBits(i, j) ==
    LET e == EncodedBits(j)
    IN  Decodable(e) /\ Replace(i, e.bits, DecodedLength(e))

BitTexts == UNION {[1..n -> {0, 1}] : n \in 0..MaxBits}

BitsNext ==
    \/ \E i \in BitHandles : \E s \in BitTexts : NewBits(i, s)
    \/ \E i, j \in BitHandles : CopyBits(i, j) \/ DecodeBits(i, j)
    \/ \E i \in BitHandles : \E pos \in 0..(MaxBits - 1) : SetBit(i, pos) \/ UnsetBit(i, pos)

BitsSpec == BitsInit /\ [][BitsNext]_bitVars

-----------------------------------------------------------------------------
(* Properties                                                              *)

\* A BitString that no other has shared bytes with is read back from its encoding, and
\* its positions behind the length are clear. One that has may have had a bit set in its
\* padding by a longer copy; then Decode refuses what Encode makes of it, and there is
\* no other way to that. What it decodes to is the same bits, unset ones included.
PaddingIsClear ==
    \A i \in BitHandles :
        /\ Decodable(EncodedBits(i)) => DecodedLength(EncodedBits(i)) = bit[i].length
        /\ bit[i].bytes \notin shared =>
              /\ Decodable(EncodedBits(i))
              /\ \A pos \in 0..MaxBits : Has(i, pos) <=> At(i, pos) = 1
=============================================================================
