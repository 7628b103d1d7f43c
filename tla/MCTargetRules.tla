---------------------------- MODULE MCTargetRules ----------------------------
(***************************************************************************)
(* Target rules for TLC, and apart from them what their items hold: lists  *)
(* of values, the operations made from items and those read from texts.    *)
(* The items of the heap are interchangeable, and so are the lists.        *)
(***************************************************************************)
EXTENDS TargetRules, AttributeFilterOperations, ValueLists, TLC

VARIABLE type   \* which of them is looked at

Sym == Permutations(Items) \cup Permutations(Lists)

MCListTexts ==
    [kind \in Kinds |->
        CASE kind = "dn"  -> {<<"cn=a">>, <<Prefix, "CN=A">>, <<"LDAP:///", "cn=a">>, <<"cn=b">>, <<Prefix, "all">>,
                              <<"LDAP:///", "ALL">>, <<Prefix, "anyone">>, <<"all">>}
          [] kind = "oid" -> {<<"1.2.3">>, <<"2.5.4">>, <<"2.5.4", "||", "cn">>, <<"1.2.3", "||", "2.5.4">>, <<"cn">>}
          [] OTHER        -> {<<"cn">>, <<"sn">>, <<"cn", "||", "1.2.3">>, <<"sn", "||", "cn=a", "||", "cn">>, <<"*">>}]

MCFilterValues == {DefaultValue, <<"v">>, <<"v", ",", "v">>, <<"v", "&&", "v">>}
GoodPieces  == {<<"cn", ":", "(o=", "v", ")">>, <<"sn", ":">>, <<"cn", ":", "(o=", "v", ",", "v", ")">>}
OtherPieces == {<<"*", ":", "(o=", "v", ")">>, <<"sn", ":", "(o=", "bad", ")">>, <<"cn", "v">>}
PairTexts   == {p \o <<"&&">> \o q : p \in GoodPieces, q \in OtherPieces}
                 \cup {p \o <<"&&">> \o q : p \in OtherPieces, q \in GoodPieces}
Headed(pieces)   == {<<h>> \o p : h \in OperationWords \cup {"v"}, p \in pieces}
MCItemTexts      == Headed(GoodPieces \cup OtherPieces) \cup {<<"add=">> \o p : p \in PairTexts}
MCOperationTexts == LET parts == Headed(GoodPieces \cup OtherPieces) \cup {<< >>}
                    IN  Headed(PairTexts) \cup (parts \ {<< >>}) \cup {p \o <<d>> \o q : d \in Delimiters, p, q \in parts}

TargetsInit == Init /\ ListsInit /\ AfoInit /\ type \in {"rules", "lists", "made", "read"}
TargetsNext == \/ type = "rules" /\ Next /\ UNCHANGED <<listVars, afoVars, type>>
               \/ type = "lists" /\ ListsNext /\ UNCHANGED <<vars, afoVars, type>>
               \/ type = "made" /\ MadeNext /\ UNCHANGED <<vars, listVars, type>>
               \/ type = "read" /\ ReadNext /\ UNCHANGED <<vars, listVars, type>>
TargetsSpec == TargetsInit /\ [][TargetsNext]_<<vars, listVars, afoVars, type>>
=============================================================================
