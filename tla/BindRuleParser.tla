--------------------------- MODULE BindRuleParser ---------------------------
(***************************************************************************)
(* The parser of ACIv3 bind rules (aci/aci.go): processACIv3BindRule,      *)
(* parseACIv3BindRuleGroup, parseACIv3BindRuleExpression and               *)
(* parseACIv3BindRuleTokens.  They are mutually recursive over one shared  *)
(* position in the token list; here the recursion is a stack of frames, a  *)
(* frame being the operands and operators a loop of the code has collected.*)
(*                                                                         *)
(* The tokens are those combineACIv3BindRuleTokens leaves: "AND NOT" is    *)
(* one "not".  A value token stands for a maximal run of brValue tokens,   *)
(* which processACIv3BindRule joins and reads as a whole: "item" is one    *)
(* keyword, operator and value; "word" has no comparison operator in it;   *)
(* "junk" has one, with a keyword or a value that is refused.  Each is     *)
(* three or more of the code's tokens (a run of one or two differs only in *)
(* the len(tokens) < 3 of an expression).                                  *)
(*                                                                         *)
(* The code has the whole list before it starts.  As it never looks past   *)
(* the position, the model draws the next token when the parser reaches    *)
(* it, which explores every list and tells apart only prefixes that matter.*)
(***************************************************************************)
EXTENDS Naturals, Sequences, FiniteSets, SequencesExt

CONSTANTS
    MaxTokens   \* the longest input (a bound for model checking only)

ASSUME MaxTokensAssumption == MaxTokens \in Nat

VARIABLES
    entry,      \* which function the caller entered
    input,      \* the tokens drawn so far
    ended,      \* whether there are no more
    pos,        \* *pos + 1: the next token
    stack,      \* the loops under way, outermost first
    mode,       \* what the parser does next, or how it ended
    result      \* the rule returned, once mode is "done"

vars == <<entry, input, ended, pos, stack, mode, result>>

Operators == {"and", "or", "not"}
Texts     == {"item", "word", "junk"}
Tokens    == Operators \cup Texts \cup {"(", ")"}

\* NewBindRule enters parseACIv3BindRuleExpression; And.Push, Or.Push, the item and
\* the PermissionBindRule constructors enter parseACIv3BindRuleTokens; Not.Push
\* enters parseACIv3BindRuleGroup and never looks at what follows the group.
Entries == {"expression", "tokens", "group"}
Final   == {"done", "error", "panic"}

-----------------------------------------------------------------------------
(* Rules: BindRuleItem, And, Or, Not; "nil" is the nil interface           *)

Rule(k, paren, kids) == [kind |-> k, paren |-> paren, kids |-> kids]

Nil  == Rule("nil", FALSE, << >>)
Item == Rule("item", FALSE, << >>)
WithParen(r) == Rule(r.kind, TRUE, r.kids)

\* newACIv3BindRuleNot of an operand: a nil one leaves the Not without a child.
Negated(r) == Rule("not", FALSE, IF r = Nil THEN << >> ELSE <<r>>)

AllOr(ops)  == \A i \in DOMAIN ops : ops[i] = "or"
AllAnd(ops) == \A i \in DOMAIN ops : ops[i] \in {"and", "not"}
Mixed(ops)  == ~AllOr(ops) /\ ~AllAnd(ops)

\* Mutant: an operator is looked up one operand too late.
CombinedLate(kids, ops, paren) ==
    IF AllOr(ops)
    THEN Rule("or", paren, kids)
    ELSE Rule("and", paren,
              [i \in DOMAIN kids |->
                 IF i \in DOMAIN ops /\ ops[i] = "not" THEN Negated(kids[i]) ELSE kids[i]])

\* Mutant: a group of several operands forgets its parentheses.
CombinedBare(kids, ops, paren) ==
    IF AllOr(ops)
    THEN Rule("or", FALSE, kids)
    ELSE Rule("and", FALSE,
              [i \in DOMAIN kids |->
                 IF i > 1 /\ ops[i - 1] = "not" THEN Negated(kids[i]) ELSE kids[i]])

\* The rule of a chain of operands; no operator at all counts as "all OR".
Combined(kids, ops, paren) ==
    IF AllOr(ops)
    THEN Rule("or", paren, kids)
    ELSE Rule("and", paren,
              [i \in DOMAIN kids |->
                 IF i > 1 /\ ops[i - 1] = "not" THEN Negated(kids[i]) ELSE kids[i]])

-----------------------------------------------------------------------------
Frame(k) == [kind |-> k, kids |-> << >>, ops |-> << >>]
Top      == stack[Len(stack)]

\* How many of the code's tokens a list has, as far as "len(tokens) < 3" asks.
Width(s) == Len(s) + 2 * Cardinality({i \in DOMAIN s : s[i] \in Texts})

Init ==
    /\ entry \in Entries
    /\ input = << >> /\ ended = FALSE /\ pos = 1
    /\ stack = << >>
    /\ mode = "start"
    /\ result = Nil

\* The parser needs a token it has not got; two runs of values never meet, and an
\* "and" before a "not" has been combined away.
Starved == /\ ~ended /\ mode \notin Final
           /\ IF mode = "start" THEN Width(input) < 3 ELSE pos > Len(input)

Draw(t) ==
    /\ Starved
    /\ Len(input) < MaxTokens
    /\ input # << >> =>
         /\ ~(t \in Texts /\ Last(input) \in Texts)
         /\ ~(t = "not" /\ Last(input) = "and")
    /\ input' = Append(input, t)
    /\ UNCHANGED <<entry, ended, pos, stack, mode, result>>

DrawEnd ==
    /\ Starved
    /\ ended' = TRUE
    /\ UNCHANGED <<entry, input, pos, stack, mode, result>>

Finish(m, r) ==
    /\ mode' = m
    /\ result' = r
    /\ UNCHANGED <<entry, input, ended, pos, stack>>

Fail  == Finish("error", Nil)
Panic == Finish("panic", Nil)

\* Entering: an expression of fewer than three tokens is refused; a group is asked
\* for its "(" without asking whether there is a token.
Start ==
    /\ mode = "start" /\ ~Starved
    /\ CASE entry = "expression" /\ Width(input) < 3 -> Fail
         [] entry = "group" /\ input = << >> -> Panic
         [] entry = "group" /\ input # << >> /\ input[1] # "(" -> Fail
         [] OTHER -> /\ stack' = <<Frame(entry)>>
                     /\ mode' = "operand"
                     /\ UNCHANGED <<entry, input, ended, pos, result>>

Ready(m) == mode = m /\ ~Starved
AtEnd    == pos > Len(input)

\* The operand r is appended by the innermost loop, which goes on after it.
Deliver(st, r, p) ==
    /\ stack' = [st EXCEPT ![Len(st)].kids = Append(@, r)]
    /\ pos' = p
    /\ mode' = "operator"
    /\ UNCHANGED <<entry, input, ended, result>>

\* processACIv3BindRule at "(": parseACIv3BindRuleGroup.
OpenGroup ==
    /\ Ready("operand") /\ ~AtEnd /\ input[pos] = "("
    /\ stack' = Append(stack, Frame("(")) 
    /\ pos' = pos + 1
    /\ UNCHANGED <<entry, input, ended, mode, result>>

\* processACIv3BindRule elsewhere: an item, an error, or, when no value is there or
\* none with an operator in it, a nil rule without an error.
Operand ==
    /\ Ready("operand") /\ ~AtEnd /\ input[pos] # "("
    /\ CASE input[pos] = "item" -> Deliver(stack, Item, pos + 1)
         [] input[pos] = "word" -> Deliver(stack, Nil, pos + 1)
         [] input[pos] = "junk" -> Fail
         [] OTHER -> Deliver(stack, Nil, pos)

NoOperand == Ready("operand") /\ AtEnd /\ Fail

\* Mutant: the operator is skipped and not collected.
OperatorSkipped ==
    /\ Ready("operator") /\ ~AtEnd /\ input[pos] \in Operators
    /\ Top.kind \in {"(", "expression"}
    /\ pos' = pos + 1
    /\ mode' = "operand"
    /\ UNCHANGED <<entry, input, ended, stack, result>>

\* The loops of a group and of an expression at a Boolean operator.
Operator ==
    /\ Ready("operator") /\ ~AtEnd /\ input[pos] \in Operators
    /\ Top.kind \in {"(", "expression"}
    /\ stack' = [stack EXCEPT ![Len(stack)].ops = Append(@, input[pos])]
    /\ pos' = pos + 1
    /\ mode' = "operand"
    /\ UNCHANGED <<entry, input, ended, result>>

\* Mutant: SetParen is called on the first operand of every group.
CloseGroupSetsFirst ==
    LET outer == Front(stack)
    IN  /\ Ready("operator") /\ ~AtEnd /\ input[pos] = ")" /\ Top.kind = "("
        /\ CASE Top.kids[1] = Nil -> Panic
             [] Top.ops = << >> /\ Top.kids[1] # Nil ->
                  Deliver(outer, WithParen(Top.kids[1]), pos + 1)
             [] Top.ops # << >> /\ Top.kids[1] # Nil /\ Mixed(Top.ops) -> Fail
             [] OTHER -> Deliver(outer, Combined(Top.kids, Top.ops, TRUE), pos + 1)

\* A group at ")": one operand is the group, in parentheses, and SetParen of a nil
\* one faults; more are combined, unless AND and OR are mixed.
CloseGroup ==
    LET outer == Front(stack)
    IN  /\ Ready("operator") /\ ~AtEnd /\ input[pos] = ")" /\ Top.kind = "("
        /\ CASE Top.ops = << >> /\ Top.kids[1] = Nil -> Panic
             [] Top.ops = << >> /\ Top.kids[1] # Nil ->
                  Deliver(outer, WithParen(Top.kids[1]), pos + 1)
             [] Top.ops # << >> /\ Mixed(Top.ops) -> Fail
             [] OTHER -> Deliver(outer, Combined(Top.kids, Top.ops, TRUE), pos + 1)

\* Anything else after an operand of a group or of an expression is an error.
Unexpected ==
    /\ Ready("operator")
    /\ Top.kind \in {"(", "expression"}
    /\ IF AtEnd THEN Top.kind = "("
       ELSE input[pos] \notin Operators /\ <<Top.kind, input[pos]>> # <<"(", ")">>
    /\ Fail

\* The outermost call returns.
Return ==
    /\ Ready("operator")
    /\ \/ /\ Top.kind = "expression" /\ AtEnd
          /\ IF Mixed(Top.ops) THEN Fail ELSE Finish("done", Combined(Top.kids, Top.ops, FALSE))
       \/ /\ Top.kind = "tokens"
          /\ IF AtEnd THEN Finish("done", Top.kids[1]) ELSE Fail
       \/ /\ Top.kind = "group"
          /\ Finish("done", Top.kids[1])

Step == \/ Start \/ OpenGroup \/ Operand \/ NoOperand \/ Operator
        \/ CloseGroup \/ Unexpected \/ Return

Next == (\E t \in Tokens : Draw(t)) \/ DrawEnd \/ Step

\* The parser is a plain loop in the caller's goroutine, so it takes its next step;
\* the list it works on is finite, so drawing comes to an end.
Spec == Init /\ [][Next]_vars /\ WF_vars(Step) /\ WF_vars(DrawEnd)

-----------------------------------------------------------------------------
(* Properties                                                              *)

RuleKinds == {"nil", "item", "and", "or", "not"}
IsRule(r) == /\ r = Rule(r.kind, r.paren, r.kids)
             /\ r.kind \in RuleKinds /\ r.paren \in BOOLEAN
             /\ r.kids \in Seq(Range(r.kids))
IsFrame(f) == /\ f = [kind |-> f.kind, kids |-> f.kids, ops |-> f.ops]
              /\ f.kind \in Entries \cup {"("}
              /\ f.kids \in Seq(Range(f.kids)) /\ \A i \in DOMAIN f.kids : IsRule(f.kids[i])
              /\ f.ops \in Seq(Operators)

\* Types: in particular every operand collected is a rule, at every depth of the
\* recursion, and the position is never more than one past the tokens read.
TypeOK ==
    /\ entry \in Entries
    /\ input \in Seq(Tokens) /\ Len(input) <= MaxTokens
    /\ ended \in BOOLEAN
    /\ pos \in 1..(Len(input) + 1)
    /\ stack \in Seq(Range(stack)) /\ \A i \in DOMAIN stack : IsFrame(stack[i])
    /\ mode \in Final \cup {"start", "operand", "operator"}
    /\ IsRule(result)

\* In every loop under way an operator waits for its right operand exactly while the
\* loop parses one: operands[idx+1] in the loops that build an AND, and operands[0],
\* are never out of range, and only the outermost loop is not a group.
OperandsMatchOperators ==
    mode \notin Final =>
        /\ mode # "start" => stack # << >>
        /\ \A i \in DOMAIN stack :
             /\ stack[i].kind = IF i = 1 THEN entry ELSE "("
             /\ Len(stack[i].kids) = Len(stack[i].ops)
                    + (IF mode = "operator" /\ i = Len(stack) THEN 1 ELSE 0)

\* The parser faults in two cases only: the group parser is called with no token at
\* all, or a group holds no rule, so that SetParen is called on the nil interface.
FaultsOnlyOnEmptyGroup ==
    mode = "panic" =>
        \/ input = << >> /\ entry = "group"
        \/ \E i \in 1..(pos - 1) :
             /\ input[i] = "("
             /\ SubSeq(input, i + 1, pos) \in {<<")">>, <<"word", ")">>}
=============================================================================
