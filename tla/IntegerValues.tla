--------------------------- MODULE IntegerValues ---------------------------
(***************************************************************************)
(* Integer (integer.go): a value that holds its magnitude in an int64 or,  *)
(* where it does not fit, behind a *big.Int, which the copies of the value *)
(* share, and which the caller may hold as well.                           *)
(*                                                                         *)
(* An int64 has NativeBytes bytes of ByteBits bits: the code's numbers are *)
(* 8 and 8. A magnitude is an integer, and the texts are read as decimal.  *)
(***************************************************************************)
EXTENDS Integers, Sequences, FiniteSets, SequencesExt, TLC

CONSTANTS
    Handles,        \* the variables of type Integer
    Cells,          \* the big.Ints there may be
    ByteBits, NativeBytes,
    Texts,          \* the texts given to NewInteger
    MaxMagnitude    \* bound: the largest magnitude an action makes

\* The powers of two.
Power[n \in Nat] == IF n = 0 THEN 1 ELSE 2 * Power[n - 1]
Half == Power[ByteBits * NativeBytes - 1]
Digit == "0" :> 0 @@ "1" :> 1 @@ "2" :> 2 @@ "3" :> 3
Characters == DOMAIN Digit \cup {"-", "x"}

None   == "none"
Caller == "caller"
Holders == Handles \cup {Caller}

ASSUME WidthAssumption == ByteBits \in Nat \ {0} /\ NativeBytes \in Nat \ {0} /\ ByteBits * NativeBytes > 1
ASSUME MagnitudeAssumption == MaxMagnitude \in Nat /\ MaxMagnitude >= Half
ASSUME CellsAssumption == None \notin Cells /\ Caller \notin Handles /\ IsFiniteSet(Cells)
ASSUME TextsAssumption == Texts \subseteq Seq(Characters)

VARIABLES
    int,    \* the Integers: big, ok, native and bigInt
    held,   \* the *big.Int the caller has in hand
    bigs,   \* the magnitudes of the big.Ints in use
    kin,    \* history: who may share a big.Int with whom
    fault   \* the text at which NewInteger dereferenced nil, and the caller stopped

intVars == <<int, held, bigs, kin, fault>>

-----------------------------------------------------------------------------
(* Values                                                                  *)

Magnitudes == -MaxMagnitude..MaxMagnitude

Fits(v) == -Half <= v /\ v < Half
Wrap(v) == ((v + Half) % (2 * Half)) - Half
Bounded(v) == v \in Magnitudes

Native(v) == [big |-> FALSE, ok |-> TRUE, native |-> v, bigInt |-> None]
Big(c)    == [big |-> TRUE, ok |-> TRUE, native |-> 0, bigInt |-> c]
Bogus     == [big |-> FALSE, ok |-> FALSE, native |-> 0, bigInt |-> None]

\* What String writes, Encode encodes and the comparisons compare.
Magnitude(r, b) == IF r.big THEN b[r.bigInt] ELSE r.native
Value(i) == Magnitude(int[i], bigs)

InUse(is, h) == ({is[i].bigInt : i \in Handles} \cup {h}) \ {None}
Fresh == CHOOSE c \in Cells : c \notin InUse(int, held)
Room  == Cells \ InUse(int, held) # {}

\* What an operation leaves; a big.Int nobody holds any more is forgotten.
Leave(is, h, b) == /\ int' = is /\ held' = h
                   /\ bigs' = [c \in InUse(is, h) |-> b[c]]
Put(b, c, v) == [d \in DOMAIN b \cup {c} |-> IF d = c THEN v ELSE b[d]]

Alone(i)  == {p \in kin : i \notin {p[1], p[2]}}
With(i, j) == Alone(i) \cup UNION {{<<i, k>>, <<k, i>>} : k \in {j} \cup {l \in Holders \ {i} : <<j, l>> \in kin}}

-----------------------------------------------------------------------------
(* Comparisons                                                             *)

Sign(v) == IF v < 0 THEN -1 ELSE IF v > 0 THEN 1 ELSE 0

\* cmpInteger; cmpInt64, cmpUint64, cmpBig and cmpIntegerStr differ in how b is made.
Cmp(a, b) == IF ~a.big /\ ~b.big THEN Sign(a.native - b.native)
             ELSE Sign(Magnitude(a, bigs) - Magnitude(b, bigs))

\* integerMatchingRule, whose operator is none, ">=" or any other; both arguments are ok.
Matches(i, op, j) ==
    /\ int[i].ok /\ int[j].ok
    /\ CASE op = "=" -> Cmp(int[i], int[j]) = 0
         [] op = ">=" -> Cmp(int[i], int[j]) >= 0
         [] OTHER -> Cmp(int[i], int[j]) <= 0

-----------------------------------------------------------------------------
(* BER                                                                     *)

\* The bytes of the shortest two's complement, and those of the tag and the length.
FitsIn(v, n) == LET half == Power[ByteBits * n - 1] IN -half <= v /\ v < half
Bytes(v) == CHOOSE n \in 1..(MaxMagnitude + NativeBytes) :
              FitsIn(v, n) /\ (n > 1 => ~FitsIn(v, n - 1))
Encoded(v) == [value |-> v, length |-> 2 + Bytes(v)]

\* Mutant: the longest encoding of an int64 is taken for a big one.
DecodedBigAtLimit(e) == e.length >= 2 + NativeBytes

DecodedBig(e) == e.length > 2 + NativeBytes

\* Decode sets one of the two fields and ok, and leaves the flag that says which counts.
DecodedInto(r, e, c) == IF DecodedBig(e) THEN [r EXCEPT !.bigInt = c, !.ok = TRUE]
                        ELSE [r EXCEPT !.native = e.value, !.ok = TRUE]

-----------------------------------------------------------------------------
(* Texts                                                                   *)

Numeral(t) == IF t # << >> /\ t[1] = "-" THEN Tail(t) ELSE t

\* integerStrCheck.
Check(t) == /\ t # << >>
            /\ ~(Len(Numeral(t)) > 1 /\ Numeral(t)[1] = "0")
            /\ \A k \in DOMAIN Numeral(t) : Numeral(t)[k] \in DOMAIN Digit

\* big.Int.SetString returns nil for what is not a number; IsInt64 then dereferences it.
IsNumber(t) == Numeral(t) # << >> /\ \A k \in DOMAIN Numeral(t) : Numeral(t)[k] \in DOMAIN Digit
NumberOf(t) == LET n == FoldLeft(LAMBDA sum, c : 10 * sum + Digit[c], 0, Numeral(t))
               IN  IF t[1] = "-" THEN -n ELSE n

-----------------------------------------------------------------------------
(* Operations                                                              *)

IntegerInit == /\ int = [i \in Handles |-> Bogus] /\ held = None
        /\ bigs = << >> /\ kin = {} /\ fault = << >>

Assign(i, v) == /\ Bounded(v)
                /\ IF Fits(v) THEN Leave([int EXCEPT ![i] = Native(v)], held, bigs)
                   ELSE Room /\ Leave([int EXCEPT ![i] = Big(Fresh)], held, Put(bigs, Fresh, v))
                /\ kin' = Alone(i)

\* NewInteger of an int, int32, int64 or uint64.
New(i, v) == Assign(i, v) /\ UNCHANGED fault

\* strToInteger. An error assigns the zero Integer.
NewFromText(i, t) ==
    IF Check(t) /\ ~IsNumber(t)
    THEN fault' = t /\ UNCHANGED <<int, held, bigs, kin>>
    ELSE /\ IF Check(t) THEN Assign(i, NumberOf(t))
            ELSE Leave([int EXCEPT ![i] = Bogus], held, bigs) /\ kin' = Alone(i)
         /\ UNCHANGED fault

\* bigToInteger keeps the caller's big.Int.
NewFromBig(i) ==
    /\ held # None
    /\ IF Fits(bigs[held])
       THEN Leave([int EXCEPT ![i] = Native(bigs[held])], held, bigs) /\ kin' = Alone(i)
       ELSE Leave([int EXCEPT ![i] = Big(held)], held, bigs) /\ kin' = With(i, Caller)
    /\ UNCHANGED fault

\* An assignment of the value, or NewInteger of an Integer.
Copy(i, j) == /\ i # j /\ Leave([int EXCEPT ![i] = int[j]], held, bigs)
              /\ kin' = With(i, j) /\ UNCHANGED fault

\* The caller makes a big.Int, takes the one Big returns, or adds to the one it has.
Hold(v) == /\ Room /\ Leave(int, Fresh, Put(bigs, Fresh, v))
           /\ kin' = Alone(Caller) /\ UNCHANGED fault
TakeBig(i) ==
    /\ IF int[i].big THEN Leave(int, int[i].bigInt, bigs) /\ kin' = With(Caller, i)
       ELSE Room /\ Leave(int, Fresh, Put(bigs, Fresh, int[i].native)) /\ kin' = Alone(Caller)
    /\ UNCHANGED fault
AddToHeld(v) == /\ held # None /\ Bounded(bigs[held] + v)
                /\ Leave(int, held, [bigs EXCEPT ![held] = @ + v]) /\ UNCHANGED <<kin, fault>>

\* Mutant: the value that becomes big takes the big.Int of the other.
UpgradedCellOf(x) == x.bigInt

UpgradedCell(x) == Fresh

\* Increment by v, which is held as a big.Int or not: upgrade sets bigInt and not big.
Add(i, isBig, v, c) ==
    /\ int[i].ok
    /\ IF int[i].big
       THEN /\ Bounded(Value(i) + v) /\ Leave(int, held, [bigs EXCEPT ![int[i].bigInt] = @ + v])
            /\ UNCHANGED kin
       ELSE IF isBig
       THEN /\ Bounded(Value(i) + v)
            /\ Leave([int EXCEPT ![i].bigInt = c, ![i].native = 0], held, Put(bigs, c, Value(i) + v))
            /\ kin' = Alone(i)
       ELSE Leave([int EXCEPT ![i].native = Wrap(@ + v)], held, bigs) /\ UNCHANGED kin
    /\ UNCHANGED fault

\* The argument of Increment is a number, or an Integer.
Increment(i, v)   == Room /\ Add(i, ~Fits(v), v, Fresh)
IncrementBy(i, j) == Room /\ int[j].ok /\ Add(i, int[j].big, Value(j), UpgradedCell(int[j]))

\* Decode what another Integer encodes; one without a value encodes no byte at all, and
\* what DecodeInteger makes of that is not this package's.
Decode(i, j) ==
    /\ Room
    /\ IF int[j].ok
       THEN LET e == Encoded(Value(j)) IN
            /\ Leave([int EXCEPT ![i] = DecodedInto(@, e, Fresh)], held, Put(bigs, Fresh, e.value))
            /\ IF DecodedBig(e) THEN kin' = Alone(i) ELSE UNCHANGED kin
       ELSE /\ \E read \in BOOLEAN : Leave([int EXCEPT ![i].native = 0, ![i].ok = read], held, bigs)
            /\ UNCHANGED kin
    /\ UNCHANGED fault

IntegerNext ==
    /\ fault = << >>
    /\ \/ \E i \in Handles : \E v \in -Half..(2 * Half - 1) : New(i, v)
       \/ \E i \in Handles : \E t \in Texts : NewFromText(i, t)
       \/ \E i \in Handles : NewFromBig(i) \/ TakeBig(i)
       \/ \E i, j \in Handles : Copy(i, j) \/ IncrementBy(i, j) \/ Decode(i, j)
       \/ \E v \in Magnitudes : Hold(v) \/ AddToHeld(v)
       \/ \E i \in Handles : \E v \in -Half..(2 * Half - 1) : Increment(i, v)

IntegerSpec == IntegerInit /\ [][IntegerNext]_intVars

-----------------------------------------------------------------------------
(* Properties                                                              *)

TypeOK ==
    /\ int \in [Handles -> [big : BOOLEAN, ok : BOOLEAN, native : -Half..(Half - 1), bigInt : Cells \cup {None}]]
    /\ \A i \in Handles : int[i].big => int[i].bigInt # None
    /\ held \in Cells \cup {None}
    /\ DOMAIN bigs = InUse(int, held) /\ \A c \in DOMAIN bigs : bigs[c] \in Magnitudes
    /\ kin \subseteq Holders \X Holders /\ fault \in Texts \cup {<< >>}

\* A new Integer that decodes what another encodes has its magnitude if that fits an
\* int64, up to the limit, and is 0 otherwise: the big.Int is there and the flag is not.
\* It compares with every Integer as that magnitude does, whichever of them are native,
\* big, or big and small again after an increment, and so do those among themselves; the
\* three integer rules say what the comparisons say.
RoundTrips ==
    \A i, j \in Handles :
        int[i].ok /\ int[j].ok =>
            LET decoded == DecodedInto(Bogus, Encoded(Value(i)), None)
                read    == IF Fits(Value(i)) THEN Value(i) ELSE 0
            IN  /\ Magnitude(decoded, bigs) = read
                /\ Cmp(decoded, int[j]) = Sign(read - Value(j))
                /\ Cmp(int[i], int[j]) = Sign(Value(i) - Value(j))
                /\ Matches(i, "=", j) <=> Matches(i, ">=", j) /\ Matches(i, "<=", j)

\* No step changes two magnitudes unless they are copies of one another: Increment and
\* Decode never leave two Integers, or one and the caller, with one big.Int.
Seen(x) == IF x # Caller THEN <<Value(x)>> ELSE IF held = None THEN << >> ELSE <<bigs[held]>>
OnlyCopiesFollow ==
    [][\E x \in Holders : \A y \in Holders \ {x} : Seen(y)' # Seen(y) => <<x, y>> \in kin']_intVars

\* "Increment shall increment or (if x is negative) decrement the receiver magnitude
\* according to the magnitude of x."
IncrementAdds ==
    [][\A i \in Handles : \A v \in -Half..(2 * Half - 1) : Increment(i, v) => Value(i)' = Value(i) + v]_intVars
=============================================================================
