--------------------------- MODULE BindRuleGrammar ---------------------------
(***************************************************************************)
(* What the bind rule parser promises: the rule a token list stands for,   *)
(* by cutting the list at its outermost Boolean operators, and nothing     *)
(* about positions or loops.  The specification takes one step, from no    *)
(* answer to the answer.  BindRuleParser is shown to implement it.         *)
(***************************************************************************)
EXTENDS Naturals, Sequences, FiniteSets, SequencesExt

VARIABLES entry, input, answer

Operators == {"and", "or", "not"}
Texts     == {"item", "word", "junk"}
Tokens    == Operators \cup Texts \cup {"(", ")"}

\* A rule is an item, And, Or, Not or the nil interface; a list that stands for no
\* rule is answered with Refused, and None says that there is no answer yet.
Rule(k, paren, kids) == [kind |-> k, paren |-> paren, kids |-> kids]
Nil     == Rule("nil", FALSE, << >>)
Item    == Rule("item", FALSE, << >>)
Refused == Rule("error", FALSE, << >>)
None    == Rule("none", FALSE, << >>)

-----------------------------------------------------------------------------
(* Parentheses                                                             *)

CountOf(s, t, n) == Cardinality({i \in 1..n : s[i] = t})
Depth(s, n)      == CountOf(s, "(", n) - CountOf(s, ")", n)
Balanced(s)      == /\ \A n \in 1..Len(s) : CountOf(s, ")", n) <= CountOf(s, "(", n)
                    /\ Depth(s, Len(s)) = 0
Enclosed(s)      == /\ Len(s) >= 2 /\ s[1] = "("
                    /\ Balanced(s)
                    /\ \A n \in 1..(Len(s) - 1) : Depth(s, n) > 0
Inside(s)        == SubSeq(s, 2, Len(s) - 1)

\* The outermost operators of a list, in order, and the segments between them.
Cuts(s)     == SetToSortSeq({i \in DOMAIN s : s[i] \in Operators /\ Depth(s, i) = 0}, <)
Segments(s) == LET c == <<0>> \o Cuts(s) \o <<Len(s) + 1>>
               IN  [i \in 1..(Len(c) - 1) |-> SubSeq(s, c[i] + 1, c[i + 1] - 1)]

-----------------------------------------------------------------------------
(* The rule of a list                                                      *)

RECURSIVE TreeOf(_)

\* One operand: nothing, or words, for the nil rule; an item; a group.
OperandOf(s) ==
    IF s = << >> \/ s = <<"word">> THEN Nil
    ELSE IF s = <<"item">> THEN Item
    ELSE IF Enclosed(s)
         THEN LET t == TreeOf(Inside(s))
              IN  IF t = Nil THEN Refused ELSE [t EXCEPT !.paren = (t # Refused)]
    ELSE Refused

\* A chain: one operand, or several under OR, or several under AND and AND NOT.
TreeOf(s) ==
    LET segs == Segments(s)
        kids == [i \in DOMAIN segs |-> OperandOf(segs[i])]
        ops  == {s[Cuts(s)[i]] : i \in DOMAIN Cuts(s)}
        notted(i) == i > 1 /\ s[Cuts(s)[i - 1]] = "not"
    IN  IF ~Balanced(s) \/ \E i \in DOMAIN kids : kids[i] = Refused THEN Refused
        ELSE IF ops = {} THEN kids[1]
        ELSE IF ops = {"or"} THEN Rule("or", FALSE, kids)
        ELSE IF "or" \notin ops
             THEN Rule("and", FALSE,
                       [i \in DOMAIN kids |->
                          IF ~notted(i) THEN kids[i]
                          ELSE Rule("not", FALSE, IF kids[i] = Nil THEN << >> ELSE <<kids[i]>>)])
        ELSE Refused

\* NewBindRule: at least three tokens, an operand at the very end, and an OR around
\* a single operand.
ExpressionOf(s) ==
    LET t == TreeOf(s)
    IN  IF Len(s) + 2 * Cardinality({i \in DOMAIN s : s[i] \in Texts}) < 3
           \/ Last(s) \in Operators THEN Refused
        ELSE IF Len(Cuts(s)) = 0 /\ t # Refused THEN Rule("or", FALSE, <<t>>)
        ELSE t

\* parseACIv3BindRuleTokens: one operand and nothing after it.
SingleOf(s) == IF s = << >> \/ (s[1] \notin {"item", "word", "("}) THEN Refused ELSE OperandOf(s)

\* parseACIv3BindRuleGroup from BindRuleNot.Push: the group the list begins with.
PrefixOf(s) ==
    LET ends == {n \in 2..Len(s) : Enclosed(SubSeq(s, 1, n))}
    IN  IF ends = {} THEN Refused ELSE OperandOf(SubSeq(s, 1, CHOOSE n \in ends : TRUE))

\* Accepted with its rule, or refused (by an error, or by a fault).
Meaning(e, s) == CASE e = "expression" -> ExpressionOf(s)
                   [] e = "tokens"     -> SingleOf(s)
                   [] e = "group"      -> PrefixOf(s)

Init == answer = None /\ input = << >> /\ entry \in {"expression", "tokens", "group"}

Next == /\ answer = None
        /\ input' \in Seq(Tokens)
        /\ answer' = Meaning(entry, input')
        /\ UNCHANGED entry

Spec == Init /\ [][Next]_<<entry, input, answer>> /\ <>(answer # None)

-----------------------------------------------------------------------------
(* String: the token list a rule is written as                             *)

RECURSIVE Written(_)
Written(r) ==
    LET join == IF r.kind = "or" THEN "or" ELSE "and"
        kid(i) == IF r.kids[i].kind = "not"
                  THEN <<"not">> \o Written(r.kids[i])      \* "AND NOT", combined
                  ELSE (IF i > 1 THEN <<join>> ELSE << >>) \o Written(r.kids[i])
        body == CASE r.kind = "item" -> <<"item">>
                  [] r.kind = "nil"  -> << >>
                  [] OTHER -> FlattenSeq([i \in DOMAIN r.kids |-> kid(i)])
    IN  IF r.paren THEN <<"(">> \o body \o <<")">> ELSE body
=============================================================================
