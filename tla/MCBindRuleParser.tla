--------------------------- MODULE MCBindRuleParser ---------------------------
(***************************************************************************)
(* BindRuleParser for TLC: its refinement of BindRuleGrammar, and what     *)
(* relates the rule it returns to the text it read.                        *)
(***************************************************************************)
EXTENDS BindRuleParser

\* The refinement mapping: the list read so far is the abstract input once the
\* parser has ended, and what it ended with is the answer.
Answered == mode \in Final
G == INSTANCE BindRuleGrammar WITH
        input  <- IF Answered THEN input ELSE << >>,
        answer <- IF ~Answered THEN Rule("none", FALSE, << >>)
                  ELSE IF mode = "done" THEN result
                  ELSE Rule("error", FALSE, << >>)

\* Every list is answered, and with the rule that cutting it at its outermost
\* operators gives: the loops of parseACIv3BindRuleGroup and of
\* parseACIv3BindRuleExpression lose no operand, attach each "NOT" to the operand
\* after it, keep AND and OR apart, and end whatever they are given.
ImplementsGrammar == G!Spec

\* Rules with no nil operand, the ones String can write without a fault.
RECURSIVE Whole(_)
Whole(r) == /\ r.kind # "nil"
            /\ r.kind = "not" => r.kids # << >>
            /\ \A i \in DOMAIN r.kids : Whole(r.kids[i])

\* What String writes for a rule the parser returned is read back, by the same entry
\* point, as that very rule: no parenthesis, operator or operand that the rule
\* depends on is lost between reading and writing.
ReadsBack ==
    mode = "done" /\ Whole(result) => G!Meaning(entry, G!Written(result)) = result
=============================================================================
