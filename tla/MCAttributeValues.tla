-------------------------- MODULE MCAttributeValues --------------------------
(***************************************************************************)
(* The attribute values for TLC, each by itself: the two whose copies      *)
(* share storage, and substring assertions, of which there are short       *)
(* values over two letters, against assertions with up to two inner        *)
(* substrings and against every short text.                                *)
(***************************************************************************)
EXTENDS IntegerValues, BitStrings, Substrings

CONSTANTS MaxValue, MaxAssertion, MaxOdd

VARIABLE type   \* which of them is looked at

MCHandles == {"a", "b"}
MCCells   == {"p", "q", "r"}
MCTexts   == {<< >>, <<"-">>, <<"-", "-">>, <<"0">>, <<"-", "0">>, <<"0", "1">>, <<"x">>,
              <<"2">>, <<"-", "2">>, <<"-", "3">>, <<"1", "x">>}

Strings(S, n) == UNION {[1..k -> S] : k \in 0..n}
Letters    == {"x", "y"}
Structured == {Written(Parsed(i, a, f)) : i \in Strings(Letters, 1), f \in Strings(Letters, 1),
                                          a \in Strings(Strings(Letters, 2) \ {<< >>}, 2)}
Odd    == {<< >>, <<"x", "$", "y">>, <<"X", "u", "blank">>, <<"x", "x">>, <<"x", "bs", "bs", "y">>}
Paths  == {<<"*">> \o s \o <<"*">> : s \in Strings({"x", "y", "bs", "$"}, 4)}
Inputs == [value : Strings(Letters, MaxValue), assertion : Structured \cup Strings(Letters \cup {"*"}, MaxAssertion)]
            \cup [value : Odd, assertion : {s \in Strings(Tokens, MaxOdd) \cup Paths : Distinct(s)}]

AttributeValuesInit ==
    /\ type \in {"Integer", "BitString", "Substrings"}
    /\ IntegerInit /\ BitsInit /\ Init
    /\ type # "Substrings" => rule = "list" /\ value = << >> /\ assertion = << >>
AttributeValuesNext ==
    \/ type = "Integer" /\ IntegerNext /\ UNCHANGED <<bitVars, vars, type>>
    \/ type = "BitString" /\ BitsNext /\ UNCHANGED <<intVars, vars, type>>
    \/ type = "Substrings" /\ Next /\ UNCHANGED <<intVars, bitVars, type>>
AttributeValuesSpec == AttributeValuesInit /\ [][AttributeValuesNext]_<<intVars, bitVars, vars, type>>
=============================================================================
