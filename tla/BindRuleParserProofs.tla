------------------------ MODULE BindRuleParserProofs ------------------------
(***************************************************************************)
(* Proofs about BindRuleParser, for token lists of any length and any      *)
(* depth of groups.                                                        *)
(*                                                                         *)
(* TypeOK needs OperandsMatchOperators: a group is closed with at least    *)
(* one operand collected and an enclosing loop to return to, which is what *)
(* makes Top.kids[1] and Front(stack) well defined.  The two are proved    *)
(* together through Loops, which is both of them said of a stack.          *)
(* FaultsOnlyOnEmptyGroup needs to know where the innermost group began as *)
(* long as it has no rule: NoRuleBehindOpened.                             *)
(*                                                                         *)
(* AcceptedHasADerivation states the grammar as productions, which need no *)
(* recursion: for any sets closed under them, what a loop has collected    *)
(* since it began is in the sets, and so is what it hands on.              *)
(* DerivationsAreAccepted is the converse: the parser on a list known as a *)
(* whole is a function of where it stands, each production is a run of     *)
(* that function, and no run leads on from an outcome.                     *)
(* ParsesEnd weighs what there is left to draw, to pass and to decide.     *)
(***************************************************************************)
EXTENDS BindRuleParser, SequenceLemmas, TLAPS

IInv == TypeOK /\ OperandsMatchOperators

\* st is a stack of loops, and the innermost has n operands more than operators.
Loops(st, n) ==
    /\ st \in Seq(Range(st))
    /\ \A i \in DOMAIN st :
         /\ IsFrame(st[i])
         /\ st[i].kind = IF i = 1 THEN entry ELSE "("
         /\ Len(st[i].kids) = Len(st[i].ops) + (IF i = Len(st) THEN n ELSE 0)

-----------------------------------------------------------------------------
(* Rules and loops                                                         *)

LEMMA RuleIsRule ==
    ASSUME NEW k \in RuleKinds, NEW p \in BOOLEAN, NEW c, c \in Seq(Range(c))
    PROVE  IsRule(Rule(k, p, c))
BY DEF IsRule, Rule

LEMMA NilAndItem == IsRule(Nil) /\ IsRule(Item)
BY RuleIsRule, EmptyAny DEF Nil, Item, RuleKinds

LEMMA WithParenIsRule ==
    ASSUME NEW r, IsRule(r)
    PROVE  IsRule(WithParen(r))
<1>. r.kind \in RuleKinds /\ r.kids \in Seq(Range(r.kids))
    BY DEF IsRule
<1>. QED BY RuleIsRule DEF WithParen

LEMMA NegatedIsRule ==
    ASSUME NEW r
    PROVE  IsRule(Negated(r))
<1>1. CASE r = Nil
    BY <1>1, RuleIsRule, EmptyAny DEF Negated, RuleKinds
<1>2. CASE r # Nil
    BY <1>2, RuleIsRule, SingletonAny DEF Negated, RuleKinds
<1>. QED BY <1>1, <1>2

\* Whatever the operators, the operands of a chain make a rule.
LEMMA CombinedIsRule ==
    ASSUME NEW c, c \in Seq(Range(c)), NEW ops, NEW p \in BOOLEAN
    PROVE  IsRule(Combined(c, ops, p))
<1>. DEFINE nots == [i \in DOMAIN c |-> IF i > 1 /\ ops[i - 1] = "not" THEN Negated(c[i]) ELSE c[i]]
<1>1. Len(c) \in Nat /\ DOMAIN c = 1..Len(c)
    BY LenProperties
<1>2. nots \in [1..Len(c) -> Range(nots)]
    BY <1>1 DEF Range
<1>3. nots \in Seq(Range(nots))
    <2>. HIDE DEF nots
    <2>. QED BY <1>1, <1>2, SeqDef
<1>4. IsRule(Rule("and", p, nots))
    <2>. HIDE DEF nots
    <2>. QED BY <1>3, RuleIsRule DEF RuleKinds
<1>5. IsRule(Rule("or", p, c))
    BY RuleIsRule DEF RuleKinds
<1>. QED BY <1>4, <1>5 DEF Combined

LEMMA FrameIsFrame ==
    ASSUME NEW k \in Entries \cup {"("}
    PROVE  IsFrame(Frame(k)) /\ Frame(k).kind = k /\ Len(Frame(k).kids) = 0 /\ Len(Frame(k).ops) = 0
BY EmptyAny DEF IsFrame, Frame

LEMMA LoopsStart ==
    ASSUME entry \in Entries
    PROVE  Loops(<<Frame(entry)>>, 0) /\ <<Frame(entry)>> # << >>
<1>. DEFINE st == <<Frame(entry)>>
<1>1. st \in Seq(Range(st)) /\ Len(st) = 1 /\ DOMAIN st = {1} /\ st[1] = Frame(entry)
    BY SingletonAny
<1>2. st # << >>
    BY <1>1, EmptyAny
<1>. HIDE DEF st
<1>3. Loops(st, 0)
    BY <1>1, FrameIsFrame DEF Loops
<1>. QED BY <1>2, <1>3 DEF st

LEMMA LoopsOpen ==
    ASSUME NEW st, Loops(st, 0), st # << >>
    PROVE  Loops(Append(st, Frame("(")), 0) /\ Append(st, Frame("(")) # << >>
<1>. DEFINE st2 == Append(st, Frame("("))
<1>1. /\ st2 \in Seq(Range(st2))
      /\ Len(st2) = Len(st) + 1
      /\ DOMAIN st2 = 1..(Len(st) + 1)
      /\ \A i \in 1..Len(st) : st2[i] = st[i]
      /\ st2[Len(st) + 1] = Frame("(")
    BY AppendAny DEF Loops
<1>2. Len(st) \in Nat \ {0} /\ DOMAIN st = 1..Len(st)
    BY EmptySeq, LenProperties DEF Loops
<1>3. IsFrame(Frame("(")) /\ Frame("(").kind = "(" /\ Len(Frame("(").kids) = 0 /\ Len(Frame("(").ops) = 0
    BY FrameIsFrame
<1>. HIDE DEF st2
<1>4. ASSUME NEW i \in DOMAIN st2
      PROVE  /\ IsFrame(st2[i])
             /\ st2[i].kind = IF i = 1 THEN entry ELSE "("
             /\ Len(st2[i].kids) = Len(st2[i].ops) + (IF i = Len(st2) THEN 0 ELSE 0)
    <2>1. CASE i = Len(st) + 1
        BY <2>1, <1>1, <1>2, <1>3
    <2>2. CASE i \in 1..Len(st)
        <3>1. st2[i] = st[i] /\ i \in DOMAIN st
            BY <2>2, <1>1, <1>2
        <3>2. /\ IsFrame(st[i])
              /\ st[i].kind = IF i = 1 THEN entry ELSE "("
              /\ Len(st[i].kids) = Len(st[i].ops) + (IF i = Len(st) THEN 0 ELSE 0)
            BY <3>1 DEF Loops
        <3>. QED BY <3>1, <3>2
    <2>. QED BY <2>1, <2>2, <1>1, <1>2
<1>5. st2 # << >>
    BY <1>1, <1>2, EmptyAny
<1>6. Loops(st2, 0)
    BY <1>1, <1>4 DEF Loops
<1>. QED BY <1>5, <1>6 DEF st2

\* The stack st with frame f in place of its innermost.
LEMMA LoopsReplace ==
    ASSUME NEW st, NEW m \in {0, 1}, Loops(st, m), st # << >>, NEW n \in {0, 1},
           NEW f, IsFrame(f), f.kind = st[Len(st)].kind, Len(f.kids) = Len(f.ops) + n
    PROVE  Loops([st EXCEPT ![Len(st)] = f], n) /\ [st EXCEPT ![Len(st)] = f] # << >>
<1>. DEFINE st2 == [st EXCEPT ![Len(st)] = f]
<1>2. Len(st) \in Nat \ {0} /\ DOMAIN st = 1..Len(st)
    BY EmptySeq, LenProperties DEF Loops
<1>3. Len(st) \in DOMAIN st
    BY <1>2
<1>1. /\ st2 \in Seq(Range(st2))
      /\ Len(st2) = Len(st)
      /\ DOMAIN st2 = DOMAIN st
      /\ \A i \in DOMAIN st : st2[i] = IF i = Len(st) THEN f ELSE st[i]
    BY <1>3, ExceptAny DEF Loops
<1>. HIDE DEF st2
<1>4. ASSUME NEW i \in DOMAIN st2
      PROVE  /\ IsFrame(st2[i])
             /\ st2[i].kind = IF i = 1 THEN entry ELSE "("
             /\ Len(st2[i].kids) = Len(st2[i].ops) + (IF i = Len(st2) THEN n ELSE 0)
    <2>1. /\ IsFrame(st[i])
          /\ st[i].kind = IF i = 1 THEN entry ELSE "("
          /\ Len(st[i].kids) = Len(st[i].ops) + (IF i = Len(st) THEN m ELSE 0)
        BY <1>1 DEF Loops
    <2>2. CASE i = Len(st)
        BY <2>1, <2>2, <1>1
    <2>3. CASE i # Len(st)
        BY <2>1, <2>3, <1>1
    <2>. QED BY <2>2, <2>3
<1>5. st2 # << >>
    BY <1>1, <1>2, EmptyAny
<1>6. Loops(st2, n)
    BY <1>1, <1>4 DEF Loops
<1>. QED BY <1>5, <1>6 DEF st2

LEMMA LoopsClose ==
    ASSUME NEW st, Loops(st, 1), st # << >>, st[Len(st)].kind = "(", entry # "("
    PROVE  Loops(Front(st), 0) /\ Front(st) # << >>
<1>1. Len(st) \in Nat \ {0} /\ DOMAIN st = 1..Len(st) /\ st \in Seq(Range(st))
    BY EmptySeq, LenProperties DEF Loops
<1>2. Len(st) > 1
    <2>1. Len(st) \in DOMAIN st
        BY <1>1
    <2>2. st[Len(st)].kind = IF Len(st) = 1 THEN entry ELSE "("
        BY <2>1 DEF Loops
    <2>. QED BY <1>1, <2>2
<1>3. /\ Front(st) \in Seq(Range(Front(st)))
      /\ Len(Front(st)) = Len(st) - 1
      /\ DOMAIN Front(st) = 1..(Len(st) - 1)
      /\ \A i \in 1..(Len(st) - 1) : Front(st)[i] = st[i]
    BY <1>1, <1>2, FrontAny
<1>4. ASSUME NEW i \in DOMAIN Front(st)
      PROVE  /\ IsFrame(Front(st)[i])
             /\ Front(st)[i].kind = IF i = 1 THEN entry ELSE "("
             /\ Len(Front(st)[i].kids) = Len(Front(st)[i].ops) + (IF i = Len(Front(st)) THEN 0 ELSE 0)
    <2>1. Front(st)[i] = st[i] /\ i \in DOMAIN st /\ i # Len(st)
        BY <1>1, <1>2, <1>3
    <2>2. /\ IsFrame(st[i])
          /\ st[i].kind = IF i = 1 THEN entry ELSE "("
          /\ Len(st[i].kids) = Len(st[i].ops) + (IF i = Len(st) THEN 1 ELSE 0)
        BY <2>1 DEF Loops
    <2>. QED BY <2>1, <2>2
<1>5. Front(st) # << >>
    BY <1>2, <1>3, <1>1, EmptyAny
<1>6. Loops(Front(st), 0)
    BY <1>3, <1>4 DEF Loops
<1>. QED BY <1>5, <1>6

\* Replacing one field of a frame makes the frame of the others and of it.
LEMMA FieldReplaced ==
    ASSUME NEW K, NEW D, NEW O, NEW f \in [kind : K, kids : D, ops : O], NEW v
    PROVE  /\ [f EXCEPT !.kids = v] = [kind |-> f.kind, kids |-> v, ops |-> f.ops]
           /\ [f EXCEPT !.ops = v] = [kind |-> f.kind, kids |-> f.kids, ops |-> v]
<1>1. [f EXCEPT !.kids = v] = [kind |-> f.kind, kids |-> v, ops |-> f.ops]
    BY SMT
<1>2. [f EXCEPT !.ops = v] = [kind |-> f.kind, kids |-> f.kids, ops |-> v]
    BY SMT
<1>. QED BY <1>1, <1>2

LEMMA FrameWithKid ==
    ASSUME NEW f, IsFrame(f), NEW r
    PROVE  [f EXCEPT !.kids = Append(@, r)] = [kind |-> f.kind, kids |-> Append(f.kids, r), ops |-> f.ops]
<1>1. f \in [kind : {f.kind}, kids : {f.kids}, ops : {f.ops}]
    BY DEF IsFrame
<1>. QED BY <1>1, FieldReplaced

LEMMA FrameWithOperator ==
    ASSUME NEW f, IsFrame(f), NEW op
    PROVE  [f EXCEPT !.ops = Append(@, op)] = [kind |-> f.kind, kids |-> f.kids, ops |-> Append(f.ops, op)]
<1>1. f \in [kind : {f.kind}, kids : {f.kids}, ops : {f.ops}]
    BY DEF IsFrame
<1>. QED BY <1>1, FieldReplaced, SMTT(30)

\* An operand joins the innermost loop.
LEMMA LoopsDeliver ==
    ASSUME NEW st, Loops(st, 0), st # << >>, NEW r, IsRule(r)
    PROVE  LET st2 == [st EXCEPT ![Len(st)].kids = Append(@, r)]
           IN  Loops(st2, 1) /\ st2 # << >>
<1>. DEFINE f == st[Len(st)]
            g == [f EXCEPT !.kids = Append(@, r)]
<1>1. Len(st) \in DOMAIN st
    BY EmptySeq, LenProperties DEF Loops
<1>2. IsFrame(f) /\ Len(f.kids) = Len(f.ops)
    <2>1. Len(f.kids) = Len(f.ops) + 0 /\ IsFrame(f)
        BY <1>1 DEF Loops
    <2>2. f.ops \in Seq(Operators)
        BY <2>1 DEF IsFrame
    <2>3. Len(f.ops) \in Nat
        BY <2>2
    <2>. QED BY <2>1, <2>3
<1>3. g = [kind |-> f.kind, kids |-> Append(f.kids, r), ops |-> f.ops]
    BY <1>2, FrameWithKid
<1>. DEFINE c == Append(f.kids, r)
<1>4. /\ c \in Seq(Range(c)) /\ Len(c) = Len(f.kids) + 1
      /\ \A i \in DOMAIN c : IsRule(c[i])
    <2>1. f.kids \in Seq(Range(f.kids)) /\ \A i \in DOMAIN f.kids : IsRule(f.kids[i])
        BY <1>2 DEF IsFrame
    <2>2. DOMAIN f.kids = 1..Len(f.kids) /\ Len(f.kids) \in Nat
        BY <2>1, LenProperties
    <2>3. /\ c \in Seq(Range(c))
          /\ Len(c) = Len(f.kids) + 1
          /\ DOMAIN c = 1..(Len(f.kids) + 1)
          /\ \A i \in 1..Len(f.kids) : c[i] = f.kids[i]
          /\ c[Len(f.kids) + 1] = r
        BY <2>1, AppendAny
    <2>. HIDE DEF c, f
    <2>. QED BY <2>1, <2>2, <2>3
<1>5. g.kind = f.kind /\ g.kids = c /\ g.ops = f.ops /\ g = [kind |-> g.kind, kids |-> g.kids, ops |-> g.ops]
    BY <1>3
<1>6. IsFrame(g) /\ Len(g.kids) = Len(g.ops) + 1
    <2>. HIDE DEF g, c
    <2>. QED BY <1>2, <1>4, <1>5 DEF IsFrame
<1>7. Loops([st EXCEPT ![Len(st)] = g], 1) /\ [st EXCEPT ![Len(st)] = g] # << >>
    <2>. HIDE DEF g
    <2>. QED BY <1>5, <1>6, LoopsReplace
<1>. QED BY <1>7

\* An operator joins the innermost loop.
LEMMA LoopsOperator ==
    ASSUME NEW st, Loops(st, 1), st # << >>, NEW op \in Operators
    PROVE  LET st2 == [st EXCEPT ![Len(st)].ops = Append(@, op)]
           IN  Loops(st2, 0) /\ st2 # << >>
<1>. DEFINE f == st[Len(st)]
            g == [f EXCEPT !.ops = Append(@, op)]
            c == Append(f.ops, op)
<1>1. Len(st) \in DOMAIN st
    BY EmptySeq, LenProperties DEF Loops
<1>2. IsFrame(f) /\ Len(f.kids) = Len(f.ops) + 1
    BY <1>1 DEF Loops
<1>3. g = [kind |-> f.kind, kids |-> f.kids, ops |-> c]
    BY <1>2, FrameWithOperator
<1>4. c \in Seq(Operators) /\ Len(c) = Len(f.ops) + 1
    BY <1>2 DEF IsFrame
<1>5. g.kind = f.kind /\ g.kids = f.kids /\ g.ops = c /\ g = [kind |-> g.kind, kids |-> g.kids, ops |-> g.ops]
    BY <1>3
<1>6. IsFrame(g) /\ Len(g.kids) = Len(g.ops) + 0
    <2>1. Len(c) \in Nat
        BY <1>4
    <2>. HIDE DEF g, c
    <2>. QED BY <1>2, <1>4, <1>5, <2>1 DEF IsFrame
<1>7. Loops([st EXCEPT ![Len(st)] = g], 0) /\ [st EXCEPT ![Len(st)] = g] # << >>
    <2>. HIDE DEF g
    <2>. QED BY <1>5, <1>6, LoopsReplace
<1>. QED BY <1>7

-----------------------------------------------------------------------------
(* The invariant                                                           *)

Due == IF mode = "operator" THEN 1 ELSE 0

LEMMA InvariantLoops ==
    ASSUME IInv, mode \in {"operand", "operator"}
    PROVE  Loops(stack, Due) /\ stack # << >>
BY DEF IInv, TypeOK, OperandsMatchOperators, Loops, Due, Final

LEMMA LoopsInvariant ==
    ASSUME TypeOK, UNCHANGED <<entry, input, ended, result>>,
           mode' \in {"operand", "operator"}, pos' \in 1..(Len(input) + 1),
           Loops(stack', Due'), stack' # << >>
    PROVE  IInv'
<1>1. TypeOK'
    BY DEF TypeOK, Loops
<1>2. OperandsMatchOperators'
    BY DEF OperandsMatchOperators, Loops, Due
<1>. QED BY <1>1, <1>2 DEF IInv

LEMMA FinishInvariant ==
    ASSUME TypeOK, NEW m \in Final, NEW r, IsRule(r), Finish(m, r)
    PROVE  IInv'
<1>1. TypeOK'
    BY DEF TypeOK, Finish
<1>2. OperandsMatchOperators'
    BY DEF OperandsMatchOperators, Finish
<1>. QED BY <1>1, <1>2 DEF IInv

LEMMA FailInvariant == ASSUME TypeOK, Fail \/ Panic PROVE IInv'
BY FinishInvariant, NilAndItem DEF Fail, Panic, Final

LEMMA DeliverInvariant ==
    ASSUME TypeOK, NEW st, Loops(st, 0), st # << >>, NEW r, IsRule(r),
           NEW p \in 1..(Len(input) + 1), Deliver(st, r, p)
    PROVE  IInv'
<1>1. Loops(stack', 1) /\ stack' # << >>
    BY LoopsDeliver DEF Deliver
<1>2. Due' = 1
    BY DEF Deliver, Due
<1>. QED BY <1>1, <1>2, LoopsInvariant DEF Deliver

\* Where the next token is, when there is one.
LEMMA Position ==
    ASSUME TypeOK, ~AtEnd
    PROVE  pos \in 1..Len(input) /\ input[pos] \in Tokens /\ pos + 1 \in 1..(Len(input) + 1)
<1>1. Len(input) \in Nat
    BY DEF TypeOK
<1>2. pos \in 1..Len(input) /\ pos + 1 \in 1..(Len(input) + 1)
    BY <1>1 DEF TypeOK, AtEnd
<1>. QED BY <1>2, ElementOfSeq DEF TypeOK

LEMMA InitIInv == Init => IInv
<1>. SUFFICES ASSUME Init PROVE IInv
    OBVIOUS
<1>1. TypeOK
    <2>1. 0 <= MaxTokens
        BY MaxTokensAssumption
    <2>2. Len(input) = 0 /\ input \in Seq(Tokens) /\ pos \in 1..(Len(input) + 1)
        BY DEF Init
    <2>3. stack \in Seq(Range(stack)) /\ DOMAIN stack = {}
        BY EmptyAny DEF Init
    <2>. QED BY <2>1, <2>2, <2>3, NilAndItem DEF Init, TypeOK
<1>2. OperandsMatchOperators
    BY EmptyAny DEF Init, OperandsMatchOperators
<1>. QED BY <1>1, <1>2 DEF IInv

LEMMA DrawIInv ==
    ASSUME IInv, NEW t \in Tokens, Draw(t)
    PROVE  IInv'
<1>1. input' \in Seq(Tokens) /\ Len(input') = Len(input) + 1 /\ Len(input) \in Nat
    BY DEF IInv, TypeOK, Draw
<1>2. Len(input') <= MaxTokens /\ pos' \in 1..(Len(input') + 1)
    BY <1>1, MaxTokensAssumption DEF IInv, TypeOK, Draw
<1>3. TypeOK'
    BY <1>1, <1>2 DEF IInv, TypeOK, Draw
<1>4. OperandsMatchOperators'
    BY DEF IInv, OperandsMatchOperators, Draw
<1>. QED BY <1>3, <1>4 DEF IInv

LEMMA StartIInv == ASSUME IInv, Start PROVE IInv'
<1>1. CASE Fail
    BY <1>1, FailInvariant DEF IInv
<1>2. CASE Panic
    BY <1>2, FailInvariant DEF IInv
<1>3. CASE /\ stack' = <<Frame(entry)>>
           /\ mode' = "operand"
           /\ UNCHANGED <<entry, input, ended, pos, result>>
    <2>1. Loops(stack', 0) /\ stack' # << >>
        BY <1>3, LoopsStart DEF IInv, TypeOK
    <2>2. Due' = 0
        BY <1>3 DEF Due
    <2>. QED BY <1>3, <2>1, <2>2, LoopsInvariant DEF IInv, TypeOK
<1>. QED BY <1>1, <1>2, <1>3 DEF Start

LEMMA OpenGroupIInv == ASSUME IInv, OpenGroup PROVE IInv'
<1>1. Loops(stack, 0) /\ stack # << >>
    BY InvariantLoops DEF OpenGroup, Ready, Due
<1>2. Loops(stack', 0) /\ stack' # << >>
    BY <1>1, LoopsOpen DEF OpenGroup
<1>3. Due' = 0 /\ mode' = "operand"
    BY DEF OpenGroup, Ready, Due
<1>. QED BY <1>2, <1>3, LoopsInvariant, Position DEF OpenGroup, IInv

LEMMA OperandIInv == ASSUME IInv, Operand PROVE IInv'
<1>1. Loops(stack, 0) /\ stack # << >>
    BY InvariantLoops DEF Operand, Ready, Due
<1>2. CASE Deliver(stack, Item, pos + 1)
    BY <1>1, <1>2, DeliverInvariant, NilAndItem, Position DEF IInv, Operand
<1>3. CASE Deliver(stack, Nil, pos + 1)
    BY <1>1, <1>3, DeliverInvariant, NilAndItem, Position DEF IInv, Operand
<1>4. CASE Deliver(stack, Nil, pos)
    BY <1>1, <1>4, DeliverInvariant, NilAndItem DEF IInv, TypeOK
<1>5. CASE Fail
    BY <1>5, FailInvariant DEF IInv
<1>. QED BY <1>2, <1>3, <1>4, <1>5 DEF Operand

LEMMA OperatorIInv == ASSUME IInv, Operator PROVE IInv'
<1>1. Loops(stack, 1) /\ stack # << >>
    BY InvariantLoops DEF Operator, Ready, Due
<1>2. Loops(stack', 0) /\ stack' # << >>
    BY <1>1, LoopsOperator DEF Operator
<1>3. Due' = 0
    BY DEF Operator, Due
<1>. QED BY <1>2, <1>3, LoopsInvariant, Position DEF Operator, IInv

\* What the innermost loop has when a group or the whole text is over.
LEMMA TopOperands ==
    ASSUME Loops(stack, 1), stack # << >>
    PROVE  /\ Top.kids \in Seq(Range(Top.kids))
           /\ IsRule(Top.kids[1])
           /\ Top.kind = IF Len(stack) = 1 THEN entry ELSE "("
<1>1. Len(stack) \in DOMAIN stack
    BY EmptySeq, LenProperties DEF Loops
<1>2. /\ IsFrame(Top) /\ Len(Top.kids) = Len(Top.ops) + 1
      /\ Top.kind = IF Len(stack) = 1 THEN entry ELSE "("
    BY <1>1 DEF Loops, Top
<1>3. /\ Top.kids \in Seq(Range(Top.kids)) /\ Len(Top.ops) \in Nat
      /\ \A i \in DOMAIN Top.kids : IsRule(Top.kids[i])
    BY <1>2 DEF IsFrame
<1>4. 1 \in DOMAIN Top.kids
    BY <1>2, <1>3, LenProperties
<1>. QED BY <1>2, <1>3, <1>4

LEMMA CloseGroupIInv == ASSUME IInv, CloseGroup PROVE IInv'
<1>1. Loops(stack, 1) /\ stack # << >>
    BY InvariantLoops DEF CloseGroup, Ready, Due
<1>2. /\ Top.kids \in Seq(Range(Top.kids)) /\ IsRule(Top.kids[1])
      /\ Top.kind = "("
    BY <1>1, TopOperands DEF CloseGroup
<1>3. Loops(Front(stack), 0) /\ Front(stack) # << >>
    <2>1. entry # "("
        BY DEF IInv, TypeOK, Entries
    <2>. QED BY <1>1, <1>2, <2>1, LoopsClose DEF Top
<1>4. pos + 1 \in 1..(Len(input) + 1)
    BY Position DEF IInv, CloseGroup
<1>5. CASE Deliver(Front(stack), WithParen(Top.kids[1]), pos + 1)
    BY <1>2, <1>3, <1>4, <1>5, WithParenIsRule, DeliverInvariant DEF IInv
<1>6. CASE Deliver(Front(stack), Combined(Top.kids, Top.ops, TRUE), pos + 1)
    BY <1>2, <1>3, <1>4, <1>6, CombinedIsRule, DeliverInvariant DEF IInv
<1>7. CASE Fail \/ Panic
    BY <1>7, FailInvariant DEF IInv
<1>. QED BY <1>5, <1>6, <1>7 DEF CloseGroup

LEMMA ReturnIInv == ASSUME IInv, Return PROVE IInv'
<1>1. Loops(stack, 1) /\ stack # << >>
    BY InvariantLoops DEF Return, Ready, Due
<1>2. Top.kids \in Seq(Range(Top.kids)) /\ IsRule(Top.kids[1])
    BY <1>1, TopOperands
<1>3. CASE Fail
    BY <1>3, FailInvariant DEF IInv
<1>4. CASE Finish("done", Top.kids[1])
    BY <1>2, <1>4, FinishInvariant DEF IInv, Final
<1>5. CASE Finish("done", Combined(Top.kids, Top.ops, FALSE))
    BY <1>2, <1>5, CombinedIsRule, FinishInvariant DEF IInv, Final
<1>. QED BY <1>3, <1>4, <1>5 DEF Return

LEMMA NextIInv == IInv /\ [Next]_vars => IInv'
<1>. SUFFICES ASSUME IInv, [Next]_vars PROVE IInv'
    OBVIOUS
<1>1. CASE \E t \in Tokens : Draw(t)
    BY <1>1, DrawIInv
<1>2. CASE DrawEnd
    BY <1>2 DEF DrawEnd, IInv, TypeOK, OperandsMatchOperators
<1>3. CASE Start
    BY <1>3, StartIInv
<1>4. CASE OpenGroup
    BY <1>4, OpenGroupIInv
<1>5. CASE Operand
    BY <1>5, OperandIInv
<1>6. CASE NoOperand \/ Unexpected
    BY <1>6, FailInvariant DEF NoOperand, Unexpected, IInv
<1>7. CASE Operator
    BY <1>7, OperatorIInv
<1>8. CASE CloseGroup
    BY <1>8, CloseGroupIInv
<1>9. CASE Return
    BY <1>9, ReturnIInv
<1>10. CASE UNCHANGED vars
    BY <1>10 DEF vars, IInv, TypeOK, OperandsMatchOperators
<1>. QED BY <1>1, <1>2, <1>3, <1>4, <1>5, <1>6, <1>7, <1>8, <1>9, <1>10 DEF Next, Step

\* At every moment of every parse, in every loop under way, there is one operand for
\* each operator, and one more exactly when the innermost loop has just got it:
\* operands[idx+1] and operands[0] are in range for lists of any length.
THEOREM OperandsAlwaysMatch == Spec => [](TypeOK /\ OperandsMatchOperators)
BY InitIInv, NextIInv, PTL DEF Spec, IInv
-----------------------------------------------------------------------------
(* FaultsOnlyOnEmptyGroup                                                  *)

Opened(n) == pos > n /\ input[pos - n] = "("
Bare(f)   == f.kind = "(" /\ f.ops = << >>

\* A group in which no operator was met has had at most one rule, so that, as long as
\* there is none, its parenthesis is the token before, or the one before a single word.
NoRuleBehindOpened ==
    /\ mode = "operand" /\ Bare(Top) => Opened(1)
    /\ mode = "operator" /\ Bare(Top) /\ Top.kids[1] = Nil =>
          Opened(1) \/ (Opened(2) /\ input[pos - 1] = "word")

\* The innermost loop once a rule has been delivered to it.
LEMMA TopDelivered ==
    ASSUME NEW st, Loops(st, 0), st # << >>, NEW r,
           stack' = [st EXCEPT ![Len(st)].kids = Append(@, r)]
    PROVE  Bare(Top)' <=> Bare(st[Len(st)]) /\ (Bare(Top)' => (Top.kids[1])' = r)
<1>. DEFINE f == st[Len(st)]
            g == [f EXCEPT !.kids = Append(@, r)]
<1>1. Len(st) \in DOMAIN st
    BY EmptySeq, LenProperties DEF Loops
<1>2. IsFrame(f) /\ Len(f.kids) = Len(f.ops)
    <2>1. Len(f.kids) = Len(f.ops) + 0 /\ IsFrame(f)
        BY <1>1 DEF Loops
    <2>2. f.ops \in Seq(Operators)
        BY <2>1 DEF IsFrame
    <2>3. Len(f.ops) \in Nat
        BY <2>2
    <2>. QED BY <2>1, <2>3
<1>3. g = [kind |-> f.kind, kids |-> Append(f.kids, r), ops |-> f.ops]
    BY <1>2, FrameWithKid
<1>4. Len(stack') = Len(st) /\ stack'[Len(st)] = g
    <2>1. stack' = [st EXCEPT ![Len(st)] = g]
        OBVIOUS
    <2>. HIDE DEF g
    <2>. QED BY <1>1, <2>1, ExceptAny DEF Loops
<1>5. Top' = g
    BY <1>4 DEF Top
<1>6. g.kind = f.kind /\ g.ops = f.ops /\ g.kids = Append(f.kids, r)
    BY <1>3
<1>7. ASSUME f.ops = << >> PROVE Append(f.kids, r)[1] = r
    <2>1. Len(f.kids) = 0
        BY <1>2, <1>7, EmptyAny
    <2>2. f.kids \in Seq(Range(f.kids))
        BY <1>2 DEF IsFrame
    <2>3. Append(f.kids, r)[Len(f.kids) + 1] = r
        BY <2>2, AppendAny
    <2>. QED BY <2>1, <2>3
<1>. HIDE DEF f, g
<1>8. Bare(Top)' <=> Bare(f)
    BY <1>5, <1>6 DEF Bare
<1>9. (Top.kids[1])' = (g.kids)[1]
    BY <1>5
<1>. QED BY <1>6, <1>7, <1>8, <1>9 DEF Bare, f

LEMMA OperandOpened ==
    ASSUME IInv, NoRuleBehindOpened, Operand
    PROVE  NoRuleBehindOpened'
<1>1. Loops(stack, 0) /\ stack # << >>
    BY InvariantLoops DEF Operand, Ready, Due
<1>2. Bare(Top) => Opened(1)
    BY DEF Operand, Ready, NoRuleBehindOpened
<1>3. Item # Nil
    BY DEF Item, Nil, Rule
<1>4. pos \in Nat
    BY DEF IInv, TypeOK
<1>5. ASSUME NEW r, NEW p, Deliver(stack, r, p), Bare(Top) /\ r = Nil => p = pos \/ (p = pos + 1 /\ input[pos] = "word")
      PROVE  NoRuleBehindOpened'
    <2>1. Bare(Top)' <=> Bare(Top) /\ (Bare(Top)' => (Top.kids[1])' = r)
        BY <1>1, <1>5, TopDelivered DEF Deliver, Top
    <2>2. mode' = "operator" /\ pos' = p /\ input' = input
        BY <1>5 DEF Deliver
    <2>3. ASSUME Bare(Top), r = Nil PROVE (Opened(1) \/ (Opened(2) /\ input[pos - 1] = "word"))'
        <3>1. CASE p = pos
            BY <1>2, <2>2, <2>3, <3>1 DEF Opened
        <3>2. CASE p = pos + 1 /\ input[pos] = "word"
            <4>1. p - 1 = pos /\ p - 2 = pos - 1 /\ (pos > 1 => p > 2)
                BY <1>4, <3>2
            <4>. QED BY <1>2, <2>2, <2>3, <3>2, <4>1 DEF Opened
        <3>. QED BY <1>5, <2>3, <3>1, <3>2
    <2>. QED BY <2>1, <2>2, <2>3 DEF NoRuleBehindOpened
<1>6. CASE Fail
    BY <1>6 DEF Fail, Finish, NoRuleBehindOpened
<1>. QED BY <1>3, <1>5, <1>6 DEF Operand

LEMMA CloseGroupOpened ==
    ASSUME IInv, CloseGroup
    PROVE  NoRuleBehindOpened'
<1>1. Loops(Front(stack), 0) /\ Front(stack) # << >>
    <2>1. Loops(stack, 1) /\ stack # << >>
        BY InvariantLoops DEF CloseGroup, Ready, Due
    <2>2. entry # "("
        BY DEF IInv, TypeOK, Entries
    <2>. QED BY <2>1, <2>2, LoopsClose DEF CloseGroup, Top
<1>2. Nil.paren = FALSE
    BY DEF Nil, Rule
<1>3. ASSUME NEW r, r.paren = TRUE, Deliver(Front(stack), r, pos + 1) PROVE NoRuleBehindOpened'
    <2>1. Bare(Top)' => (Top.kids[1])' = r
        BY <1>1, <1>3, TopDelivered DEF Deliver
    <2>2. mode' = "operator"
        BY <1>3 DEF Deliver
    <2>. QED BY <1>2, <1>3, <2>1, <2>2 DEF NoRuleBehindOpened
<1>4. CASE Fail \/ Panic
    BY <1>4 DEF Fail, Panic, Finish, NoRuleBehindOpened
<1>5. WithParen(Top.kids[1]).paren = TRUE /\ Combined(Top.kids, Top.ops, TRUE).paren = TRUE
    BY DEF WithParen, Combined, Rule
<1>. QED BY <1>3, <1>4, <1>5 DEF CloseGroup

LEMMA NextOpened == IInv /\ NoRuleBehindOpened /\ [Next]_vars => NoRuleBehindOpened'
<1>. SUFFICES ASSUME IInv, NoRuleBehindOpened, [Next]_vars PROVE NoRuleBehindOpened'
    OBVIOUS
<1>1. ASSUME NEW t \in Tokens, Draw(t) PROVE NoRuleBehindOpened'
    <2>1. UNCHANGED <<pos, stack, mode>> /\ \A i \in 1..Len(input) : input'[i] = input[i]
        BY <1>1 DEF Draw, IInv, TypeOK
    <2>2. pos \in 1..(Len(input) + 1) /\ Len(input) \in Nat
        BY DEF IInv, TypeOK
    <2>3. \A n \in {1, 2} : pos > n => input'[pos - n] = input[pos - n]
        BY <2>1, <2>2
    <2>4. \A n \in {1, 2} : Opened(n) => Opened(n)'
        BY <2>1, <2>3 DEF Opened
    <2>5. Opened(2) => pos > 1
        BY <2>2 DEF Opened
    <2>6. Top' = Top /\ (Bare(Top))' = Bare(Top)
        BY <2>1 DEF Top, Bare
    <2>. QED BY <2>1, <2>3, <2>4, <2>5, <2>6 DEF NoRuleBehindOpened
<1>2. CASE Start
    <2>1. CASE stack' = <<Frame(entry)>> /\ mode' = "operand" /\ UNCHANGED <<entry, input, ended, pos, result>>
        <3>1. Len(<<Frame(entry)>>) = 1 /\ <<Frame(entry)>>[1] = Frame(entry)
            BY SingletonAny
        <3>2. Top' = Frame(entry)
            BY <2>1, <3>1 DEF Top
        <3>3. Frame(entry).kind # "("
            BY DEF Frame, IInv, TypeOK, Entries
        <3>. QED BY <2>1, <3>2, <3>3 DEF NoRuleBehindOpened, Bare
    <2>2. CASE Fail \/ Panic
        BY <2>2 DEF Fail, Panic, Finish, NoRuleBehindOpened
    <2>. QED BY <1>2, <2>1, <2>2 DEF Start
<1>3. CASE OpenGroup
    <2>1. pos \in Nat /\ pos > 0 /\ pos' = pos + 1 /\ input' = input /\ input[pos] = "(" /\ mode' = "operand"
        BY <1>3 DEF OpenGroup, Ready, IInv, TypeOK
    <2>2. Opened(1)'
        BY <2>1 DEF Opened
    <2>. QED BY <2>1, <2>2 DEF NoRuleBehindOpened
<1>4. CASE Operand
    BY <1>4, OperandOpened
<1>5. CASE Operator
    <2>1. Loops(stack, 1) /\ stack # << >>
        BY <1>5, InvariantLoops DEF Operator, Ready, Due
    <2>. DEFINE f == stack[Len(stack)]
                g == [f EXCEPT !.ops = Append(@, input[pos])]
    <2>2. Len(stack) \in DOMAIN stack /\ IsFrame(f)
        <3>1. Len(stack) \in DOMAIN stack
            BY <2>1, EmptySeq, LenProperties DEF Loops
        <3>. QED BY <2>1, <3>1 DEF Loops
    <2>3. g = [kind |-> f.kind, kids |-> f.kids, ops |-> Append(f.ops, input[pos])]
        BY <2>2, FrameWithOperator
    <2>4. Top' = g
        <3>1. stack' = [stack EXCEPT ![Len(stack)] = g]
            BY <1>5 DEF Operator
        <3>. HIDE DEF g
        <3>2. Len(stack') = Len(stack) /\ stack'[Len(stack)] = g
            BY <2>1, <2>2, <3>1, ExceptAny DEF Loops
        <3>. QED BY <3>2 DEF Top
    <2>5. Append(f.ops, input[pos]) # << >>
        <3>1. f.ops \in Seq(Operators) /\ input[pos] \in Operators
            BY <1>5, <2>2 DEF IsFrame, Operator
        <3>. HIDE DEF f
        <3>. QED BY <3>1
    <2>6. ~Bare(Top)'
        <3>1. g.ops # << >>
            BY <2>3, <2>5
        <3>. HIDE DEF g
        <3>. QED BY <2>4, <3>1 DEF Bare
    <2>. QED BY <2>6 DEF NoRuleBehindOpened
<1>6. CASE CloseGroup
    BY <1>6, CloseGroupOpened
<1>7. CASE NoOperand \/ Unexpected \/ Return
    BY <1>7 DEF NoOperand, Unexpected, Return, Fail, Finish, NoRuleBehindOpened
<1>8. CASE DrawEnd \/ UNCHANGED vars
    BY <1>8 DEF DrawEnd, vars, NoRuleBehindOpened, Top, Bare, Opened
<1>. QED BY <1>1, <1>2, <1>3, <1>4, <1>5, <1>6, <1>7, <1>8 DEF Next, Step

LEMMA Opening ==
    ASSUME IInv, NoRuleBehindOpened, CloseGroup, Panic
    PROVE  \E i \in 1..(pos - 1) : /\ input[i] = "("
                                   /\ SubSeq(input, i + 1, pos) \in {<<")">>, <<"word", ")">>}
<1>1. input[pos] = ")" /\ ~AtEnd
    BY DEF CloseGroup
<1>2. pos \in 1..Len(input) /\ Len(input) \in Nat /\ input \in Seq(Tokens)
    BY <1>1, Position DEF IInv, TypeOK
<1>3. Bare(Top) /\ Top.kids[1] = Nil /\ mode = "operator"
    BY DEF CloseGroup, Panic, Fail, Finish, Deliver, Ready, Bare
<1>4. Opened(1) \/ (Opened(2) /\ input[pos - 1] = "word")
    BY <1>3 DEF NoRuleBehindOpened
<1>5. CASE Opened(1)
    <2>1. pos - 1 \in 1..(pos - 1) /\ (pos - 1) + 1 = pos
        BY <1>2, <1>5 DEF Opened
    <2>2. SubSeq(input, pos, pos) = <<")">>
        <3>1. \A i \in pos..pos : input[i] \in Tokens
            BY <1>2, ElementOfSeq
        <3>2. /\ SubSeq(input, pos, pos) \in Seq(Tokens)
              /\ Len(SubSeq(input, pos, pos)) = 1
              /\ SubSeq(input, pos, pos)[1] = ")"
            BY <1>1, <1>2, <3>1, SubSeqProperties
        <3>. DEFINE s == SubSeq(input, pos, pos)
        <3>. HIDE DEF s
        <3>3. s \in Seq(Tokens) /\ Len(s) = 1 /\ s[1] = ")"
            BY <3>2 DEF s
        <3>4. <<")">> \in Seq(Tokens) /\ Len(<<")">>) = 1 /\ <<")">>[1] = ")"
            BY DEF Tokens
        <3>. DEFINE t == <<")">>
        <3>. HIDE DEF t
        <3>5. t \in Seq(Tokens) /\ Len(s) = Len(t) /\ \A i \in 1..Len(s) : s[i] = t[i]
            BY <3>3, <3>4 DEF t
        <3>6. s = t
            BY <3>3, <3>5, SeqEqual
        <3>. QED BY <3>6 DEF s, t
    <2>. QED BY <1>5, <2>1, <2>2 DEF Opened
<1>6. CASE Opened(2) /\ input[pos - 1] = "word"
    <2>1. pos - 2 \in 1..(pos - 1) /\ (pos - 2) + 1 = pos - 1 /\ pos - 1 \in 1..Len(input)
        BY <1>2, <1>6 DEF Opened
    <2>2. SubSeq(input, pos - 1, pos) = <<"word", ")">>
        <3>1. \A i \in (pos - 1)..pos : input[i] \in Tokens
            BY <1>2, <2>1, ElementOfSeq
        <3>2. /\ SubSeq(input, pos - 1, pos) \in Seq(Tokens)
              /\ Len(SubSeq(input, pos - 1, pos)) = 2
              /\ SubSeq(input, pos - 1, pos)[1] = "word"
              /\ SubSeq(input, pos - 1, pos)[2] = ")"
            BY <1>1, <1>2, <1>6, <2>1, <3>1, SubSeqProperties
        <3>. DEFINE s == SubSeq(input, pos - 1, pos)
        <3>. HIDE DEF s
        <3>3. s \in Seq(Tokens) /\ Len(s) = 2 /\ s[1] = "word" /\ s[2] = ")"
            BY <3>2 DEF s
        <3>4. <<"word", ")">> \in Seq(Tokens) /\ Len(<<"word", ")">>) = 2
              /\ <<"word", ")">>[1] = "word" /\ <<"word", ")">>[2] = ")"
            BY DEF Tokens, Texts
        <3>. DEFINE t == <<"word", ")">>
        <3>. HIDE DEF t
        <3>5. t \in Seq(Tokens) /\ Len(s) = Len(t) /\ \A i \in 1..Len(s) : s[i] = t[i]
            BY <3>3, <3>4 DEF t
        <3>6. s = t
            BY <3>3, <3>5, SeqEqual
        <3>. QED BY <3>6 DEF s, t
    <2>. QED BY <1>6, <2>1, <2>2 DEF Opened
<1>. QED BY <1>4, <1>5, <1>6

\* Whatever the tokens, however deep the groups: the calls on operands[0] and on what a
\* group returns fault in no list but the empty one and one with an empty group, or a
\* group of nothing but a word, in it.
THEOREM FaultsAreEmptyGroups == Spec => []FaultsOnlyOnEmptyGroup
<1>1. Init => NoRuleBehindOpened /\ FaultsOnlyOnEmptyGroup
    BY DEF Init, NoRuleBehindOpened, FaultsOnlyOnEmptyGroup
<1>2. IInv /\ NoRuleBehindOpened /\ FaultsOnlyOnEmptyGroup /\ [Next]_vars => FaultsOnlyOnEmptyGroup'
    <2>. SUFFICES ASSUME IInv, NoRuleBehindOpened, FaultsOnlyOnEmptyGroup, [Next]_vars, mode' = "panic"
                  PROVE  FaultsOnlyOnEmptyGroup'
        BY DEF FaultsOnlyOnEmptyGroup
    <2>1. CASE mode = "panic"
        <3>1. UNCHANGED vars
            BY <2>1 DEF Next, Step, Draw, DrawEnd, Starved, Final, Start, OpenGroup, Operand, NoOperand,
                        Operator, CloseGroup, Unexpected, Return, Ready
        <3>. QED BY <3>1 DEF vars, FaultsOnlyOnEmptyGroup
    <2>2. CASE mode # "panic"
        <3>1. \/ Panic /\ CloseGroup
              \/ Panic /\ entry = "group" /\ input = << >>
            BY <2>2 DEF Next, Step, Draw, DrawEnd, Start, OpenGroup, Operand, NoOperand, Operator, CloseGroup,
                        Unexpected, Return, Fail, Finish, Deliver, vars, Ready
        <3>. QED BY <3>1, Opening DEF Panic, Finish, FaultsOnlyOnEmptyGroup
    <2>. QED BY <2>1, <2>2
<1>3. Spec => []IInv
    BY InitIInv, NextIInv, PTL DEF Spec
<1>. QED BY <1>1, <1>2, <1>3, NextOpened, PTL DEF Spec
-----------------------------------------------------------------------------
(* What is accepted has a derivation                                       *)

\* The grammar of bind rules, as its productions.  An operand is an item, a word, nothing
\* at all, or a chain in parentheses; a chain is an operand, or a chain, an operator and
\* an operand.  operands has pairs of a token list and its rule, chains has token lists
\* with the rules and the operators of the chain.  What is in any two sets that are
\* closed under the productions has a derivation.
Productions(operands, chains) ==
    /\ {<< <<"item">>, Item >>, << <<"word">>, Nil >>, << << >>, Nil >>} \subseteq operands
    /\ \A s, r : <<s, r>> \in operands => <<s, <<r>>, << >> >> \in chains
    /\ \A s, t, kids, ops, r : \A op \in Operators :
          <<s, kids, ops>> \in chains /\ <<t, r>> \in operands
            => <<(s \o <<op>>) \o t, Append(kids, r), Append(ops, op)>> \in chains
    /\ \A s, kids, ops : <<s, kids, ops>> \in chains =>
          /\ ops = << >> /\ kids[1] # Nil
               => <<(<<"(">> \o s) \o <<")">>, WithParen(kids[1])>> \in operands
          /\ ops # << >> /\ ~Mixed(ops)
               => <<(<<"(">> \o s) \o <<")">>, Combined(kids, ops, TRUE)>> \in operands

\* The rule r is derived for the list s: by parseACIv3BindRuleExpression, for a whole chain
\* that does not end in an operator and does not mix AND and OR; by
\* parseACIv3BindRuleTokens, for a whole operand; by parseACIv3BindRuleGroup, for an operand
\* the list begins with.
Derived(e, s, r) ==
    /\ s # << >>
    /\ e = "expression" => Width(s) >= 3 /\ s[Len(s)] \notin Operators
    /\ e = "group" => s[1] = "("
    /\ \A operands, chains : Productions(operands, chains) =>
         /\ e = "expression" => \E kids, ops : /\ <<s, kids, ops>> \in chains /\ ~Mixed(ops)
                                               /\ r = Combined(kids, ops, FALSE)
         /\ e = "tokens" => <<s, r>> \in operands
         /\ e = "group"  => \E n \in 1..Len(s) : <<SubSeq(s, 1, n), r>> \in operands

\* No rule is returned but one derived for the list it is returned for.
AcceptedIsDerived == mode = "done" => Derived(entry, input, result)

-----------------------------------------------------------------------------
(* There are sets closed under the productions: all lists with the rules   *)
(* of finite depth.  The levels of these are made from their initial       *)
(* pieces, by the least number that has none.                              *)

RulesOver(R) == {Rule(x[1], x[2], x[3]) : x \in RuleKinds \X BOOLEAN \X Seq(R)}
Grown(R) == R \cup RulesOver(R)

Levels(n, f) ==
    /\ DOMAIN f = 0..n /\ f[0] = {}
    /\ \A i \in 1..n : f[i] = Grown(f[i - 1])

LEMMA LevelsExist == \A n \in Nat : \E f : Levels(n, f)
<1>. SUFFICES ASSUME NEW n \in Nat, ~\E f : Levels(n, f) PROVE FALSE
    OBVIOUS
<1>. DEFINE T == {m \in 1..(n + 1) : ~\E f : Levels(m - 1, f)}
<1>1. n + 1 \in 1..(n + 1) /\ (n + 1) - 1 = n
    OBVIOUS
<1>2. T \subseteq 1..(n + 1) /\ T # {} /\ n + 1 \in Nat
    BY <1>1
<1>3. PICK m \in T : \A y \in T : m <= y
    <2>. HIDE DEF T
    <2>. QED BY <1>2, FirstPosition
<1>4. CASE m = 1
    <2>. DEFINE f == [i \in 0..0 |-> {}]
    <2>1. Levels(0, f)
        BY DEF Levels
    <2>2. m - 1 = 0
        BY <1>4
    <2>. QED BY <2>1, <2>2
<1>5. CASE m # 1
    <2>1. m \in 1..(n + 1) /\ m - 1 \in 1..(n + 1) /\ ~(m <= m - 1)
        BY <1>5
    <2>2. m - 1 \notin T
        BY <1>3, <2>1, Zenon
    <2>3. PICK g : Levels((m - 1) - 1, g)
        BY <2>1, <2>2
    <2>. DEFINE d == m - 1
                f == [i \in 0..d |-> IF i = d THEN Grown(g[d - 1]) ELSE g[i]]
    <2>4. /\ d \in Nat /\ d >= 1 /\ DOMAIN g = 0..(d - 1) /\ g[0] = {}
          /\ \A i \in 1..(d - 1) : g[i] = Grown(g[i - 1])
        BY <2>1, <2>3 DEF Levels
    <2>. HIDE DEF d
    <2>5. DOMAIN f = 0..d /\ f[0] = {} /\ f[d] = Grown(g[d - 1]) /\ \A i \in 0..(d - 1) : f[i] = g[i]
        BY <2>4
    <2>. HIDE DEF f
    <2>6. ASSUME NEW i \in 1..d PROVE f[i] = Grown(f[i - 1])
        <3>1. f[i - 1] = g[i - 1]
            BY <2>4, <2>5
        <3>2. CASE i = d
            BY <2>5, <3>1, <3>2
        <3>3. CASE i # d
            <4>1. i \in 1..(d - 1) /\ i \in 0..(d - 1)
                BY <2>4, <3>3
            <4>. QED BY <2>4, <2>5, <3>1, <4>1
        <3>. QED BY <3>2, <3>3
    <2>7. Levels(d, f)
        BY <2>5, <2>6 DEF Levels
    <2>8. Levels(m - 1, f)
        BY <2>7 DEF d
    <2>. QED BY <2>8
<1>. QED BY <1>4, <1>5

LEMMA LevelsAgree ==
    ASSUME NEW k \in Nat, NEW l \in Nat, NEW f, NEW g, Levels(k, f), Levels(l, g),
           NEW n \in 0..k, n \in 0..l
    PROVE  f[n] = g[n]
<1>. SUFFICES ASSUME f[n] # g[n] PROVE FALSE
    OBVIOUS
<1>. DEFINE T == {m \in 1..n : f[m] # g[m]}
<1>1. f[0] = g[0]
    BY DEF Levels
<1>2. n \in Nat /\ n \in 1..n /\ T \subseteq 1..n /\ T # {}
    BY <1>1
<1>3. PICK m \in T : \A y \in T : m <= y
    <2>. HIDE DEF T
    <2>. QED BY <1>2, FirstPosition
<1>4. f[m - 1] = g[m - 1]
    <2>1. CASE m = 1
        BY <2>1, <1>1
    <2>2. CASE m # 1
        <3>1. m - 1 \in 1..n /\ ~(m <= m - 1)
            BY <2>2
        <3>. QED BY <3>1, <1>3, Zenon
    <2>. QED BY <2>1, <2>2
<1>5. f[m] = Grown(f[m - 1]) /\ g[m] = Grown(g[m - 1])
    <2>1. m \in 1..k /\ m \in 1..l
        OBVIOUS
    <2>. QED BY <2>1 DEF Levels
<1>. QED BY <1>4, <1>5

\* The rules of finite depth: whatever list of them is made a rule is one of them, and
\* there are no others.
LEMMA FiniteRules == \E R : RulesOver(R) = R
<1>. DEFINE F == [n \in Nat |-> (CHOOSE f : Levels(n, f))[n]]
            R == UNION {F[n] : n \in Nat}
<1>1. ASSUME NEW n \in Nat PROVE F[n + 1] = Grown(F[n])
    <2>. DEFINE f == CHOOSE h : Levels(n, h)
                g == CHOOSE h : Levels(n + 1, h)
    <2>1. Levels(n, f) /\ Levels(n + 1, g)
        BY LevelsExist
    <2>2. F[n] = f[n] /\ F[n + 1] = g[n + 1]
        OBVIOUS
    <2>. HIDE DEF f, g, F
    <2>3. n + 1 \in Nat /\ n \in 0..n /\ n \in 0..(n + 1) /\ n + 1 \in 1..(n + 1) /\ (n + 1) - 1 = n
        OBVIOUS
    <2>4. f[n] = g[n]
        BY <2>1, <2>3, LevelsAgree
    <2>5. g[n + 1] = Grown(g[n])
        BY <2>1, <2>3 DEF Levels
    <2>. QED BY <2>2, <2>4, <2>5
<1>2. F[0] = {}
    <2>1. Levels(0, CHOOSE h : Levels(0, h))
        BY LevelsExist
    <2>. QED BY <2>1 DEF Levels
<1>. HIDE DEF F
<1>3. ASSUME NEW n \in Nat, NEW m \in 0..n PROVE F[m] \subseteq F[n]
    <2>. SUFFICES ASSUME ~(F[m] \subseteq F[n]) PROVE FALSE
        OBVIOUS
    <2>. DEFINE T == {i \in 1..n : m <= i /\ ~(F[m] \subseteq F[i])}
    <2>1. m # n
        OBVIOUS
    <2>2. n \in T /\ T \subseteq 1..n /\ T # {}
        BY <2>1
    <2>3. PICK i \in T : \A y \in T : i <= y
        <3>. HIDE DEF T
        <3>. QED BY <2>2, FirstPosition
    <2>4. i # m
        OBVIOUS
    <2>5. i - 1 \in Nat /\ (i - 1) + 1 = i /\ m <= i - 1 /\ i - 1 <= n /\ ~(i <= i - 1)
        BY <2>4
    <2>6. F[m] \subseteq F[i - 1]
        <3>1. CASE i = 1
            BY <3>1, <2>5
        <3>2. CASE i # 1
            <4>1. i - 1 \in 1..n
                BY <3>2
            <4>. QED BY <4>1, <2>3, <2>5
        <3>. QED BY <3>1, <3>2
    <2>7. F[i] = Grown(F[i - 1])
        BY <1>1, <2>5
    <2>. QED BY <2>6, <2>7 DEF Grown
<1>4. ASSUME NEW c \in Seq(R) PROVE \E n \in Nat : c \in Seq(F[n])
    <2>1. Len(c) \in Nat /\ DOMAIN c = 1..Len(c) /\ \A i \in 1..Len(c) : c[i] \in R
        BY LenProperties, ElementOfSeq
    <2>. DEFINE Within(m, n) == \A i \in 1..m : c[i] \in F[n]
    <2>2. ASSUME ~\E n \in Nat : Within(Len(c), n) PROVE FALSE
        <3>. DEFINE T == {m \in 1..Len(c) : ~\E n \in Nat : Within(m, n)}
        <3>1. Len(c) # 0
            <4>1. Len(c) = 0 => Within(Len(c), 0)
                OBVIOUS
            <4>. QED BY <4>1, <2>2
        <3>2. T \subseteq 1..Len(c) /\ Len(c) \in T
            <4>1. Len(c) \in 1..Len(c)
                BY <2>1, <3>1
            <4>. HIDE DEF Within
            <4>. QED BY <2>2, <4>1
        <3>3. PICK m \in T : \A y \in T : m <= y
            <4>. HIDE DEF T
            <4>. QED BY <2>1, <3>2, FirstPosition
        <3>. m \in 1..Len(c)
            OBVIOUS
        <3>4. \E n \in Nat : Within(m - 1, n)
            <4>1. CASE m = 1
                <5>1. Within(m - 1, 0)
                    BY <4>1
                <5>. HIDE DEF Within
                <5>. QED BY <5>1
            <4>2. CASE m # 1
                <5>. HIDE DEF Within, T
                <5>1. m - 1 \in 1..Len(c) /\ ~(m <= m - 1)
                    BY <2>1, <4>2
                <5>2. m - 1 \notin T
                    BY <3>3, <5>1, Zenon
                <5>3. (~\E n \in Nat : Within(m - 1, n)) => m - 1 \in T
                    BY <5>1 DEF T
                <5>. QED BY <5>2, <5>3
            <4>. QED BY <4>1, <4>2
        <3>5. PICK a \in Nat : Within(m - 1, a)
            BY <3>4
        <3>6. PICK b \in Nat : c[m] \in F[b]
            BY <2>1
        <3>7. PICK n \in Nat : a <= n /\ b <= n
            <4>1. a <= a + b /\ b <= a + b /\ a + b \in Nat
                OBVIOUS
            <4>. QED BY <4>1
        <3>8. F[a] \subseteq F[n] /\ F[b] \subseteq F[n]
            <4>1. a \in 0..n /\ b \in 0..n
                BY <3>7
            <4>. QED BY <4>1, <1>3, Zenon
        <3>9. Within(m, n)
            <4>1. ASSUME NEW i \in 1..m PROVE i = m \/ i \in 1..(m - 1)
                OBVIOUS
            <4>. QED BY <3>5, <3>6, <3>8, <4>1
        <3>. QED BY <3>9
    <2>3. PICK n \in Nat : Within(Len(c), n)
        BY <2>2
    <2>4. c \in [1..Len(c) -> F[n]]
        <3>1. c = [i \in 1..Len(c) |-> c[i]]
            BY <2>1
        <3>. QED BY <2>3, <3>1
    <2>5. c \in UNION {[1..l -> F[n]] : l \in Nat}
        BY <2>1, <2>4, Zenon
    <2>. QED BY <2>5, SeqDef, Zenon
<1>5. ASSUME NEW k \in RuleKinds, NEW p \in BOOLEAN, NEW c \in Seq(R) PROVE Rule(k, p, c) \in R
    <2>1. PICK n \in Nat : c \in Seq(F[n])
        BY <1>4
    <2>. DEFINE x == <<k, p, c>>
    <2>2. Rule(k, p, c) \in RulesOver(F[n])
        <3>1. x \in RuleKinds \X BOOLEAN \X Seq(F[n]) /\ x[1] = k /\ x[2] = p /\ x[3] = c
            BY <2>1
        <3>. HIDE DEF x
        <3>. QED BY <3>1 DEF RulesOver
    <2>3. Rule(k, p, c) \in F[n + 1] /\ n + 1 \in Nat
        BY <2>2, <1>1 DEF Grown
    <2>. QED BY <2>3
<1>. HIDE DEF R
<1>6. RulesOver(R) \subseteq R
    <2>1. ASSUME NEW x \in RuleKinds \X BOOLEAN \X Seq(R) PROVE Rule(x[1], x[2], x[3]) \in R
        BY <1>5
    <2>. QED BY <2>1 DEF RulesOver
<1>7. ASSUME NEW n \in Nat PROVE F[n] \subseteq RulesOver(R)
    <2>. SUFFICES ASSUME NEW x \in F[n] PROVE x \in RulesOver(R)
        OBVIOUS
    <2>. DEFINE T == {m \in 1..n : x \in F[m]}
    <2>1. n \in T /\ T \subseteq 1..n /\ T # {}
        <3>1. n # 0
            BY <1>2
        <3>. QED BY <3>1
    <2>2. PICK m \in T : \A y \in T : m <= y
        <3>. HIDE DEF T
        <3>. QED BY <2>1, FirstPosition
    <2>3. m - 1 \in Nat /\ (m - 1) + 1 = m /\ ~(m <= m - 1) /\ m - 1 <= n
        OBVIOUS
    <2>4. x \notin F[m - 1]
        <3>1. CASE m = 1
            BY <1>2, <3>1
        <3>2. CASE m # 1
            <4>1. m - 1 \in 1..n
                BY <3>2
            <4>. QED BY <2>2, <2>3, <4>1
        <3>. QED BY <3>1, <3>2
    <2>5. F[m] = Grown(F[m - 1])
        BY <1>1, <2>3
    <2>6. x \in RulesOver(F[m - 1])
        BY <2>4, <2>5 DEF Grown
    <2>7. F[m - 1] \subseteq R
        <3>. HIDE DEF T
        <3>. QED BY <2>3, Zenon DEF R
    <2>8. Seq(F[m - 1]) \subseteq Seq(R)
        BY <2>7
    <2>. QED BY <2>6, <2>8 DEF RulesOver
<1>8. R \subseteq RulesOver(R)
    <2>. SUFFICES ASSUME NEW x \in R PROVE x \in RulesOver(R)
        OBVIOUS
    <2>1. PICK n \in Nat : x \in F[n]
        BY DEF R
    <2>. QED BY <1>7, <2>1
<1>. QED BY <1>6, <1>8

\* Some sets are closed under the productions, so that Derived asks for something.
LEMMA DerivationsExist == \E operands, chains : Productions(operands, chains)
<1>1. PICK R : RulesOver(R) = R
    BY FiniteRules
<1>2. ASSUME NEW k \in RuleKinds, NEW p \in BOOLEAN, NEW c \in Seq(R) PROVE Rule(k, p, c) \in R
    <2>. DEFINE x == <<k, p, c>>
    <2>1. x \in RuleKinds \X BOOLEAN \X Seq(R) /\ x[1] = k /\ x[2] = p /\ x[3] = c
        OBVIOUS
    <2>2. Rule(x[1], x[2], x[3]) \in RulesOver(R)
        <3>. HIDE DEF x
        <3>. QED BY <2>1 DEF RulesOver
    <2>. QED BY <1>1, <2>1, <2>2
<1>3. /\ "nil" \in RuleKinds /\ "item" \in RuleKinds /\ "and" \in RuleKinds /\ "or" \in RuleKinds
      /\ "not" \in RuleKinds
    BY DEF RuleKinds
<1>4. Nil \in R /\ Item \in R
    <2>1. << >> \in Seq(R)
        OBVIOUS
    <2>. QED BY <1>2, <1>3, <2>1 DEF Nil, Item
<1>5. ASSUME NEW r \in R PROVE Negated(r) \in R /\ WithParen(r) \in R
    <2>1. <<r>> \in Seq(R) /\ << >> \in Seq(R)
        OBVIOUS
    <2>2. PICK x \in RuleKinds \X BOOLEAN \X Seq(R) : r = Rule(x[1], x[2], x[3])
        BY <1>1 DEF RulesOver
    <2>3. r.kind \in RuleKinds /\ r.kids \in Seq(R)
        BY <2>2 DEF Rule
    <2>. QED BY <1>2, <1>3, <2>1, <2>3 DEF Negated, WithParen
<1>. DEFINE O == Seq(Tokens) \X R
            C == {x \in Seq(Tokens) \X Seq(R) \X Seq(Operators) : x[2] # << >>}
<1>6. /\ <<"item">> \in Seq(Tokens) /\ <<"word">> \in Seq(Tokens) /\ << >> \in Seq(Tokens)
      /\ <<"(">> \in Seq(Tokens) /\ <<")">> \in Seq(Tokens)
    BY DEF Tokens, Texts
<1>7. << <<"item">>, Item >> \in O /\ << <<"word">>, Nil >> \in O /\ << << >>, Nil >> \in O
    BY <1>4, <1>6, Zenon
<1>8. ASSUME NEW s, NEW r, <<s, r>> \in O PROVE <<s, <<r>>, << >> >> \in C
    <2>1. s \in Seq(Tokens) /\ r \in R
        BY <1>8
    <2>2. <<r>> \in Seq(R) /\ <<r>> # << >> /\ << >> \in Seq(Operators)
        BY <2>1
    <2>. QED BY <2>1, <2>2
<1>9. ASSUME NEW s, NEW t, NEW kids, NEW ops, NEW r, NEW op \in Operators,
             <<s, kids, ops>> \in C, <<t, r>> \in O
      PROVE  <<(s \o <<op>>) \o t, Append(kids, r), Append(ops, op)>> \in C
    <2>1. s \in Seq(Tokens) /\ kids \in Seq(R) /\ ops \in Seq(Operators) /\ t \in Seq(Tokens) /\ r \in R
        BY <1>9
    <2>2. <<op>> \in Seq(Tokens)
        BY DEF Tokens
    <2>3. (s \o <<op>>) \o t \in Seq(Tokens)
        BY <2>1, <2>2, ConcatProperties
    <2>4. Append(kids, r) \in Seq(R) /\ Append(kids, r) # << >> /\ Append(ops, op) \in Seq(Operators)
        BY <2>1, AppendProperties
    <2>. QED BY <2>3, <2>4
<1>10. ASSUME NEW s, NEW kids, NEW ops, <<s, kids, ops>> \in C
       PROVE  /\ <<(<<"(">> \o s) \o <<")">>, WithParen(kids[1])>> \in O
              /\ <<(<<"(">> \o s) \o <<")">>, Combined(kids, ops, TRUE)>> \in O
    <2>1. s \in Seq(Tokens) /\ kids \in Seq(R) /\ kids # << >>
        BY <1>10
    <2>2. Len(kids) \in Nat /\ DOMAIN kids = 1..Len(kids) /\ \A i \in 1..Len(kids) : kids[i] \in R
        BY <2>1, LenProperties, ElementOfSeq
    <2>3. (<<"(">> \o s) \o <<")">> \in Seq(Tokens)
        BY <1>6, <2>1, ConcatProperties
    <2>4. kids[1] \in R
        <3>1. Len(kids) \in Nat \ {0}
            BY <2>1, EmptySeq
        <3>. QED BY <2>2, <3>1
    <2>. DEFINE nots == [i \in DOMAIN kids |-> IF i > 1 /\ ops[i - 1] = "not" THEN Negated(kids[i]) ELSE kids[i]]
    <2>5. nots \in [1..Len(kids) -> R]
        BY <1>5, <2>2
    <2>6. nots \in Seq(R)
        <3>. HIDE DEF nots
        <3>. QED BY <2>2, <2>5
    <2>7. Rule("or", TRUE, kids) \in R /\ Rule("and", TRUE, nots) \in R
        <3>. HIDE DEF nots
        <3>. QED BY <1>2, <1>3, <2>1, <2>6
    <2>8. Combined(kids, ops, TRUE) \in R
        BY <2>7 DEF Combined
    <2>9. WithParen(kids[1]) \in R
        BY <1>5, <2>4
    <2>. QED BY <2>3, <2>8, <2>9, Zenon
<1>. HIDE DEF O, C
<1>11. {<< <<"item">>, Item >>, << <<"word">>, Nil >>, << << >>, Nil >>} \subseteq O
    BY <1>7, Zenon
<1>12. Productions(O, C)
    BY <1>8, <1>9, <1>10, <1>11, Zenon DEF Productions
<1>. QED BY <1>12

-----------------------------------------------------------------------------
(* Every loop has what is derived for what it has read                     *)

\* The loop f began at p and waits for an operand at q: it has nothing yet, or the chain
\* before the operator at q - 1.
Chained(f) == f.kind \in {"(", "expression"}
Waits(chains, s, f, p, q) ==
    \/ p = q /\ f.kids = << >> /\ f.ops = << >>
    \/ /\ p < q /\ s[q - 1] \in Operators /\ Chained(f)
       /\ \E ops : f.ops = Append(ops, s[q - 1]) /\ <<SubSeq(s, p, q - 2), f.kids, ops>> \in chains

\* The loop f began at p, and what it has was read from there to q.
Has(operands, chains, s, f, p, q) ==
    /\ p <= q
    /\ <<SubSeq(s, p, q - 1), f.kids, f.ops>> \in chains
    /\ ~Chained(f) => f.ops = << >> /\ <<SubSeq(s, p, q - 1), f.kids[1]>> \in operands

\* Where the loops began, each but the first behind a parenthesis the one outside it waits for.
Began(chains, s, st, b) ==
    /\ b \in [1..Len(st) -> 1..(Len(s) + 1)] /\ b[1] = 1
    /\ \A i \in 2..Len(st) : /\ b[i] >= 2 /\ s[b[i] - 1] = "("
                             /\ Waits(chains, s, st[i - 1], b[i - 1], b[i] - 1)

DerivedSoFar(operands, chains) ==
    /\ mode = "operand" =>
         \E b : /\ Began(chains, input, stack, b)
                /\ Waits(chains, input, stack[Len(stack)], b[Len(stack)], pos)
    /\ mode = "operator" =>
         \E b : /\ Began(chains, input, stack, b)
                /\ Has(operands, chains, input, stack[Len(stack)], b[Len(stack)], pos)

\* What the entry points ask of the list, and that no operator is left without an operand.
Asked ==
    /\ mode = "start" => pos = 1
    /\ mode = "operator" /\ AtEnd => input # << >> /\ input[Len(input)] \notin Operators
    /\ mode \in {"operand", "operator"} /\ entry = "expression" => Width(input) >= 3
    /\ mode \in {"operand", "operator"} /\ entry = "group" =>
         /\ input # << >> /\ input[1] = "("
         /\ mode = "operator" => pos > 1

\* What a loop waits for does not change when the list grows.
LEMMA WaitsKept ==
    ASSUME NEW C, NEW s \in Seq(Tokens), NEW t \in Tokens, NEW f,
           NEW p \in Nat, p >= 1, NEW q \in Nat, q <= Len(s) + 1, Waits(C, s, f, p, q)
    PROVE  Waits(C, Append(s, t), f, p, q)
<1>1. CASE p = q
    BY <1>1 DEF Waits
<1>2. CASE p < q
    <2>1. Len(s) \in Nat /\ q - 1 \in 1..Len(s) /\ q - 2 \in Int /\ q - 2 <= Len(s)
        BY <1>2, LenProperties
    <2>2. Append(s, t)[q - 1] = s[q - 1]
        BY <2>1, AppendProperties
    <2>3. SubSeq(Append(s, t), p, q - 2) = SubSeq(s, p, q - 2)
        BY <2>1, PieceOfAppend
    <2>4. p # q
        BY <1>2
    <2>. QED BY <1>2, <2>2, <2>3, <2>4, Zenon DEF Waits
<1>. QED BY <1>1, <1>2 DEF Waits

\* The operand r, read from q to n, makes what the loop waited for one it has.
LEMMA OperandDerived ==
    ASSUME NEW O, NEW C, Productions(O, C), NEW s \in Seq(Tokens), NEW f, IsFrame(f),
           NEW p \in Nat, p >= 1, NEW q \in Nat, NEW n \in Nat, q <= n, n <= Len(s) + 1,
           Waits(C, s, f, p, q), NEW r, <<SubSeq(s, q, n - 1), r>> \in O
    PROVE  Has(O, C, s, [f EXCEPT !.kids = Append(@, r)], p, n)
<1>. DEFINE g == [f EXCEPT !.kids = Append(@, r)]
<1>1. g = [kind |-> f.kind, kids |-> Append(f.kids, r), ops |-> f.ops]
    BY FrameWithKid
<1>2. g.kind = f.kind /\ g.kids = Append(f.kids, r) /\ g.ops = f.ops
    BY <1>1
<1>. HIDE DEF g
<1>3. ASSUME p = q /\ f.kids = << >> /\ f.ops = << >>
      PROVE  Has(O, C, s, g, p, n)
    <2>1. Append(f.kids, r) = <<r>> /\ <<r>>[1] = r
        BY <1>3
    <2>2. <<SubSeq(s, p, n - 1), <<r>>, << >> >> \in C /\ <<SubSeq(s, p, n - 1), r>> \in O
        BY <1>3, Zenon DEF Productions
    <2>3. g.kids = <<r>> /\ g.kids[1] = r /\ g.ops = << >>
        BY <1>2, <1>3, <2>1
    <2>4. <<SubSeq(s, p, n - 1), g.kids, g.ops>> \in C /\ <<SubSeq(s, p, n - 1), g.kids[1]>> \in O
        BY <2>2, <2>3
    <2>5. p <= n
        BY <1>3
    <2>. QED BY <2>3, <2>4, <2>5, Zenon DEF Has
<1>4. ASSUME p < q /\ s[q - 1] \in Operators /\ Chained(f),
             \E ops : f.ops = Append(ops, s[q - 1]) /\ <<SubSeq(s, p, q - 2), f.kids, ops>> \in C
      PROVE  Has(O, C, s, g, p, n)
    <2>1. PICK ops : f.ops = Append(ops, s[q - 1]) /\ <<SubSeq(s, p, q - 2), f.kids, ops>> \in C
        BY <1>4
    <2>2. <<(SubSeq(s, p, q - 2) \o <<s[q - 1]>>) \o SubSeq(s, q, n - 1), Append(f.kids, r), Append(ops, s[q - 1])>> \in C
        BY <1>4, <2>1, Zenon DEF Productions
    <2>3. (SubSeq(s, p, q - 2) \o <<s[q - 1]>>) \o SubSeq(s, q, n - 1) = SubSeq(s, p, n - 1)
        <3>1. p \in 1..Len(s) /\ q - 1 \in p..Len(s) /\ n - 1 \in (q - 1)..Len(s)
            BY <1>4, LenProperties
        <3>2. (q - 1) - 1 = q - 2 /\ (q - 1) + 1 = q
            OBVIOUS
        <3>. QED BY <3>1, <3>2, PiecesMeet
    <2>4. Chained(g) /\ p <= n
        BY <1>2, <1>4 DEF Chained
    <2>5. <<SubSeq(s, p, n - 1), g.kids, g.ops>> \in C
        <3>1. g.ops = Append(ops, s[q - 1])
            BY <1>2, <2>1
        <3>. QED BY <1>2, <2>2, <2>3, <3>1, Zenon
    <2>. QED BY <2>4, <2>5, Zenon DEF Has
<1>5. Has(O, C, s, g, p, n)
    BY <1>3, <1>4, Zenon DEF Waits
<1>. QED BY <1>5 DEF g

\* The innermost of the loops st is delivered r, read from q to n.
LEMMA DeliverDerived ==
    ASSUME IInv, NEW O, NEW C, Productions(O, C), NEW st, Loops(st, 0), st # << >>,
           NEW b, Began(C, input, st, b), NEW q \in Nat, NEW n \in Nat, q <= n, n <= Len(input) + 1,
           Waits(C, input, st[Len(st)], b[Len(st)], q), NEW r, <<SubSeq(input, q, n - 1), r>> \in O,
           Deliver(st, r, n)
    PROVE  DerivedSoFar(O, C)'
<1>. DEFINE f == st[Len(st)]
            g == [f EXCEPT !.kids = Append(@, r)]
<1>1. Len(st) \in Nat \ {0} /\ DOMAIN st = 1..Len(st) /\ Len(st) \in DOMAIN st /\ st \in Seq(Range(st))
    BY EmptySeq, LenProperties DEF Loops
<1>2. IsFrame(f)
    BY <1>1 DEF Loops
<1>3. b[Len(st)] \in Nat /\ b[Len(st)] >= 1
    BY <1>1 DEF Began
<1>4. input \in Seq(Tokens)
    BY DEF IInv, TypeOK
<1>5. Has(O, C, input, g, b[Len(st)], n)
    BY <1>2, <1>3, <1>4, OperandDerived
<1>6. stack' = [st EXCEPT ![Len(st)] = g]
    BY DEF Deliver
<1>. HIDE DEF g
<1>7. /\ Len(stack') = Len(st) /\ stack'[Len(st)] = g
      /\ \A i \in DOMAIN st : stack'[i] = IF i = Len(st) THEN g ELSE st[i]
    BY <1>1, <1>6, ExceptAny
<1>8. \A i \in 2..Len(st) : stack'[i - 1] = st[i - 1]
    <2>1. \A i \in 2..Len(st) : i - 1 \in DOMAIN st /\ i - 1 # Len(st)
        BY <1>1
    <2>. QED BY <1>7, <2>1
<1>9. Began(C, input, stack', b)
    BY <1>7, <1>8 DEF Began
<1>10. mode' = "operator" /\ pos' = n /\ input' = input
    BY DEF Deliver
<1>. QED BY <1>5, <1>7, <1>9, <1>10 DEF DerivedSoFar

LEMMA DrawDerived ==
    ASSUME IInv, NEW O, NEW C, DerivedSoFar(O, C), NEW t \in Tokens, Draw(t)
    PROVE  DerivedSoFar(O, C)'
<1>1. input' = Append(input, t) /\ UNCHANGED <<stack, mode, pos>>
    BY DEF Draw
<1>2. input \in Seq(Tokens) /\ Len(input) \in Nat /\ pos \in 1..(Len(input) + 1)
    BY DEF IInv, TypeOK
<1>3. ASSUME mode \in {"operand", "operator"}
      PROVE  /\ Len(stack) \in Nat \ {0}
             /\ \A b : Began(C, input, stack, b) =>
                  /\ Began(C, Append(input, t), stack, b)
                  /\ b[Len(stack)] \in Nat /\ b[Len(stack)] >= 1
    <2>1. Len(stack) \in Nat \ {0}
        BY <1>3, InvariantLoops, EmptySeq, LenProperties DEF Loops
    <2>2. ASSUME NEW b, Began(C, input, stack, b)
          PROVE  /\ Began(C, Append(input, t), stack, b)
                 /\ b[Len(stack)] \in Nat /\ b[Len(stack)] >= 1
        <3>1. b \in [1..Len(stack) -> 1..(Len(input) + 1)] /\ b[1] = 1
            BY <2>2 DEF Began
        <3>2. Len(Append(input, t)) = Len(input) + 1
            BY <1>2
        <3>3. b \in [1..Len(stack) -> 1..(Len(Append(input, t)) + 1)]
            <4>1. 1..(Len(input) + 1) \subseteq 1..(Len(input) + 1 + 1)
                BY <1>2
            <4>. QED BY <3>1, <3>2, <4>1
        <3>4. ASSUME NEW i \in 2..Len(stack)
              PROVE  /\ b[i] >= 2 /\ Append(input, t)[b[i] - 1] = "("
                     /\ Waits(C, Append(input, t), stack[i - 1], b[i - 1], b[i] - 1)
            <4>1. i \in 1..Len(stack) /\ i - 1 \in 1..Len(stack)
                BY <2>1
            <4>2. b[i] \in 1..(Len(input) + 1) /\ b[i - 1] \in 1..(Len(input) + 1)
                BY <3>1, <4>1
            <4>3. /\ b[i] >= 2 /\ input[b[i] - 1] = "("
                  /\ Waits(C, input, stack[i - 1], b[i - 1], b[i] - 1)
                BY <2>2 DEF Began
            <4>4. /\ b[i] - 1 \in 1..Len(input) /\ b[i] - 1 \in Nat /\ b[i] - 1 <= Len(input) + 1
                  /\ b[i - 1] \in Nat /\ b[i - 1] >= 1
                <5>1. b[i] >= 2
                    BY <4>3
                <5>. QED BY <1>2, <4>2, <5>1
            <4>5. Append(input, t)[b[i] - 1] = input[b[i] - 1]
                BY <1>2, <4>4, AppendProperties
            <4>6. Waits(C, Append(input, t), stack[i - 1], b[i - 1], b[i] - 1)
                BY <1>2, <4>3, <4>4, WaitsKept
            <4>. QED BY <4>3, <4>5, <4>6
        <3>5. b[Len(stack)] \in 1..(Len(input) + 1)
            BY <2>1, <3>1
        <3>6. b[Len(stack)] \in Nat /\ b[Len(stack)] >= 1
            BY <1>2, <3>5
        <3>. QED BY <3>1, <3>3, <3>4, <3>6 DEF Began
    <2>. QED BY <2>1, <2>2
<1>4. CASE mode = "operand"
    <2>1. PICK b : /\ Began(C, input, stack, b)
                   /\ Waits(C, input, stack[Len(stack)], b[Len(stack)], pos)
        BY <1>4 DEF DerivedSoFar
    <2>2. /\ Began(C, Append(input, t), stack, b)
          /\ b[Len(stack)] \in Nat /\ b[Len(stack)] >= 1
        BY <1>3, <1>4, <2>1
    <2>3. pos \in Nat /\ pos <= Len(input) + 1
        BY <1>2
    <2>4. Waits(C, Append(input, t), stack[Len(stack)], b[Len(stack)], pos)
        BY <1>2, <2>1, <2>2, <2>3, WaitsKept
    <2>. QED BY <1>1, <1>4, <2>2, <2>4 DEF DerivedSoFar
<1>5. CASE mode = "operator"
    <2>1. PICK b : /\ Began(C, input, stack, b)
                   /\ Has(O, C, input, stack[Len(stack)], b[Len(stack)], pos)
        BY <1>5 DEF DerivedSoFar
    <2>2. /\ Began(C, Append(input, t), stack, b)
          /\ b[Len(stack)] \in Nat /\ b[Len(stack)] >= 1
        BY <1>3, <1>5, <2>1
    <2>3. pos - 1 \in Int /\ pos - 1 <= Len(input)
        BY <1>2
    <2>4. SubSeq(Append(input, t), b[Len(stack)], pos - 1) = SubSeq(input, b[Len(stack)], pos - 1)
        BY <1>2, <2>2, <2>3, PieceOfAppend
    <2>5. Has(O, C, Append(input, t), stack[Len(stack)], b[Len(stack)], pos)
        BY <2>1, <2>4, Zenon DEF Has
    <2>. QED BY <1>1, <1>5, <2>2, <2>5 DEF DerivedSoFar
<1>. QED BY <1>1, <1>4, <1>5 DEF DerivedSoFar

LEMMA StartDerived ==
    ASSUME IInv, Asked, NEW O, NEW C, Start
    PROVE  DerivedSoFar(O, C)'
<1>1. CASE Fail \/ Panic
    BY <1>1 DEF Fail, Panic, Finish, DerivedSoFar
<1>2. CASE stack' = <<Frame(entry)>> /\ mode' = "operand" /\ UNCHANGED <<entry, input, ended, pos, result>>
    <2>1. pos' = 1 /\ input' = input /\ Len(input) \in Nat
        BY <1>2 DEF IInv, TypeOK, Start, Asked
    <2>2. Len(stack') = 1 /\ stack'[1] = Frame(entry)
        BY <1>2, SingletonAny
    <2>. DEFINE b == [i \in 1..1 |-> 1]
    <2>3. b \in [1..1 -> 1..(Len(input) + 1)] /\ b[1] = 1
        BY <2>1
    <2>. HIDE DEF b
    <2>4. \A i \in 2..1 : FALSE
        OBVIOUS
    <2>5. Began(C, input, stack', b)
        BY <2>2, <2>3, <2>4 DEF Began
    <2>6. Waits(C, input, stack'[1], b[1], 1)
        BY <2>2, <2>3 DEF Waits, Frame
    <2>. QED BY <1>2, <2>1, <2>2, <2>5, <2>6 DEF DerivedSoFar
<1>. QED BY <1>1, <1>2 DEF Start

\* A group is waited for where its parenthesis stands.
LEMMA OpenGroupDerived ==
    ASSUME IInv, NEW O, NEW C, DerivedSoFar(O, C), OpenGroup
    PROVE  DerivedSoFar(O, C)'
<1>. DEFINE n == Len(stack)
<1>1. Loops(stack, 0) /\ stack # << >> /\ mode = "operand"
    BY InvariantLoops DEF OpenGroup, Ready, Due
<1>2. n \in Nat /\ n >= 1 /\ stack \in Seq(Range(stack))
    BY <1>1, EmptySeq, LenProperties DEF Loops
<1>3. PICK b : /\ Began(C, input, stack, b)
               /\ Waits(C, input, stack[n], b[n], pos)
    BY <1>1 DEF DerivedSoFar
<1>4. /\ Len(stack') = n + 1 /\ \A i \in 1..n : stack'[i] = stack[i]
      /\ stack'[n + 1] = Frame("(")
    BY <1>2, AppendAny DEF OpenGroup
<1>5. /\ mode' = "operand" /\ pos' = pos + 1 /\ input' = input /\ input[pos] = "("
      /\ pos \in Nat /\ pos >= 1 /\ pos + 1 \in 1..(Len(input) + 1)
    BY <1>1, Position DEF OpenGroup, IInv, TypeOK
<1>. HIDE DEF n
<1>. DEFINE c == [i \in 1..(n + 1) |-> IF i = n + 1 THEN pos + 1 ELSE b[i]]
<1>6. b \in [1..n -> 1..(Len(input) + 1)] /\ b[1] = 1
    BY <1>3 DEF Began, n
<1>7. c \in [1..(n + 1) -> 1..(Len(input) + 1)] /\ \A i \in 1..n : c[i] = b[i]
    BY <1>2, <1>5, <1>6
<1>8. c[n + 1] = pos + 1 /\ c[1] = 1
    BY <1>2, <1>6
<1>. HIDE DEF c
<1>9. ASSUME NEW i \in 2..(n + 1)
      PROVE  /\ c[i] >= 2 /\ input[c[i] - 1] = "("
             /\ Waits(C, input, stack'[i - 1], c[i - 1], c[i] - 1)
    <2>1. i - 1 \in 1..n
        BY <1>2
    <2>2. stack'[i - 1] = stack[i - 1] /\ c[i - 1] = b[i - 1]
        BY <1>4, <1>7, <2>1
    <2>3. CASE i = n + 1
        <3>1. c[i] = pos + 1 /\ c[i] - 1 = pos /\ i - 1 = n
            BY <1>2, <1>5, <1>8, <2>3
        <3>. QED BY <1>3, <1>5, <2>2, <3>1
    <2>4. CASE i # n + 1
        <3>1. i \in 2..n /\ c[i] = b[i]
            BY <1>2, <1>7, <2>4
        <3>2. /\ b[i] >= 2 /\ input[b[i] - 1] = "("
              /\ Waits(C, input, stack[i - 1], b[i - 1], b[i] - 1)
            BY <1>3, <3>1 DEF Began, n
        <3>. QED BY <2>2, <3>1, <3>2
    <2>. QED BY <2>3, <2>4
<1>10. Began(C, input, stack', c)
    BY <1>4, <1>7, <1>8, <1>9 DEF Began
<1>11. Waits(C, input, stack'[n + 1], c[n + 1], pos + 1)
    BY <1>4, <1>8 DEF Waits, Frame
<1>. QED BY <1>4, <1>5, <1>10, <1>11 DEF DerivedSoFar

LEMMA OperandStepDerived ==
    ASSUME IInv, NEW O, NEW C, Productions(O, C), DerivedSoFar(O, C), Operand
    PROVE  DerivedSoFar(O, C)'
<1>1. Loops(stack, 0) /\ stack # << >> /\ mode = "operand"
    BY InvariantLoops DEF Operand, Ready, Due
<1>2. PICK b : /\ Began(C, input, stack, b)
               /\ Waits(C, input, stack[Len(stack)], b[Len(stack)], pos)
    BY <1>1 DEF DerivedSoFar
<1>3. /\ input \in Seq(Tokens) /\ pos \in 1..Len(input) /\ Len(input) \in Nat
      /\ pos \in Nat /\ pos + 1 \in Nat /\ pos <= pos + 1 /\ pos <= Len(input) + 1 /\ pos + 1 <= Len(input) + 1
      /\ pos <= pos /\ (pos + 1) - 1 = pos /\ pos - 1 \in Int /\ pos - 1 < pos /\ pos \in Int
    BY Position DEF IInv, TypeOK, Operand
<1>4. SubSeq(input, pos, pos) = <<input[pos]>> /\ SubSeq(input, pos, pos - 1) = << >>
    BY <1>3, OneToken, SubSeqEmpty
<1>5. << <<"item">>, Item >> \in O /\ << <<"word">>, Nil >> \in O /\ << << >>, Nil >> \in O
    BY Zenon DEF Productions
<1>6. CASE input[pos] = "item" /\ Deliver(stack, Item, pos + 1)
    <2>1. <<SubSeq(input, pos, (pos + 1) - 1), Item>> \in O
        BY <1>3, <1>4, <1>5, <1>6, Zenon
    <2>. QED BY <1>1, <1>2, <1>3, <1>6, <2>1, DeliverDerived
<1>7. CASE input[pos] = "word" /\ Deliver(stack, Nil, pos + 1)
    <2>1. <<SubSeq(input, pos, (pos + 1) - 1), Nil>> \in O
        BY <1>3, <1>4, <1>5, <1>7, Zenon
    <2>. QED BY <1>1, <1>2, <1>3, <1>7, <2>1, DeliverDerived
<1>8. CASE Deliver(stack, Nil, pos)
    <2>1. <<SubSeq(input, pos, pos - 1), Nil>> \in O
        BY <1>4, <1>5
    <2>. QED BY <1>1, <1>2, <1>3, <1>8, <2>1, DeliverDerived
<1>9. CASE Fail
    BY <1>9 DEF Fail, Finish, DerivedSoFar
<1>. QED BY <1>6, <1>7, <1>8, <1>9 DEF Operand

LEMMA OperatorDerived ==
    ASSUME IInv, NEW O, NEW C, DerivedSoFar(O, C), Operator
    PROVE  DerivedSoFar(O, C)'
<1>. DEFINE n == Len(stack)
            f == stack[n]
            op == input[pos]
            g == [f EXCEPT !.ops = Append(@, op)]
<1>1. Loops(stack, 1) /\ stack # << >> /\ mode = "operator"
    BY InvariantLoops DEF Operator, Ready, Due
<1>2. n \in DOMAIN stack /\ IsFrame(f) /\ DOMAIN stack = 1..n /\ n \in Nat
    <2>1. n \in DOMAIN stack /\ DOMAIN stack = 1..n /\ n \in Nat
        BY <1>1, EmptySeq, LenProperties DEF Loops
    <2>. QED BY <1>1, <2>1 DEF Loops
<1>3. PICK b : /\ Began(C, input, stack, b)
               /\ Has(O, C, input, f, b[n], pos)
    BY <1>1 DEF DerivedSoFar
<1>4. g = [kind |-> f.kind, kids |-> f.kids, ops |-> Append(f.ops, op)]
    <2>. HIDE DEF f, op
    <2>. QED BY <1>2, FrameWithOperator
<1>5. stack' = [stack EXCEPT ![n] = g]
    BY DEF Operator
<1>6. g.kind = f.kind /\ g.kids = f.kids /\ g.ops = Append(f.ops, op)
    BY <1>4
<1>7. /\ mode' = "operand" /\ pos' = pos + 1 /\ input' = input /\ op \in Operators
      /\ f.kind \in {"(", "expression"} /\ pos \in Nat
    BY DEF Operator, Top, IInv, TypeOK
<1>. HIDE DEF g
<1>8. /\ Len(stack') = n /\ stack'[n] = g
      /\ \A i \in DOMAIN stack : stack'[i] = IF i = n THEN g ELSE stack[i]
    BY <1>1, <1>2, <1>5, ExceptAny DEF Loops
<1>9. \A i \in 2..n : stack'[i - 1] = stack[i - 1]
    <2>1. \A i \in 2..n : i - 1 \in DOMAIN stack /\ i - 1 # n
        BY <1>2
    <2>. QED BY <1>8, <2>1
<1>10. Began(C, input, stack', b)
    BY <1>3, <1>8, <1>9 DEF Began
<1>11. Waits(C, input, g, b[n], pos + 1)
    <2>1. (pos + 1) - 1 = pos /\ (pos + 1) - 2 = pos - 1
        BY <1>7
    <2>2. b[n] <= pos /\ <<SubSeq(input, b[n], pos - 1), f.kids, f.ops>> \in C
        BY <1>3, Zenon DEF Has
    <2>3. b[n] < pos + 1
        <3>1. b \in [1..n -> 1..(Len(input) + 1)] /\ n \in 1..n
            BY <1>2, <1>3 DEF Began
        <3>2. b[n] \in 1..(Len(input) + 1) /\ Len(input) \in Nat
            BY <3>1 DEF IInv, TypeOK
        <3>. QED BY <1>7, <2>2, <3>2
    <2>4. Chained(g)
        BY <1>6, <1>7 DEF Chained
    <2>5. input[(pos + 1) - 1] = op
        BY <2>1
    <2>6. <<SubSeq(input, b[n], (pos + 1) - 2), g.kids, f.ops>> \in C
        BY <1>6, <2>1, <2>2, Zenon
    <2>. HIDE DEF op, f
    <2>. QED BY <1>6, <1>7, <2>3, <2>4, <2>5, <2>6, Zenon DEF Waits
<1>. QED BY <1>7, <1>8, <1>10, <1>11 DEF DerivedSoFar

\* A group that closes is an operand of the loop outside it.
LEMMA CloseGroupDerived ==
    ASSUME IInv, NEW O, NEW C, Productions(O, C), DerivedSoFar(O, C), CloseGroup
    PROVE  DerivedSoFar(O, C)'
<1>. DEFINE n == Len(stack)
            outer == Front(stack)
<1>1. Loops(stack, 1) /\ stack # << >> /\ mode = "operator" /\ entry # "("
    BY InvariantLoops DEF CloseGroup, Ready, Due, IInv, TypeOK, Entries
<1>2. Loops(outer, 0) /\ outer # << >>
    BY <1>1, LoopsClose DEF CloseGroup, Top
<1>3. n \in Nat /\ n > 1 /\ stack \in Seq(Range(stack))
    <2>1. n \in Nat /\ n \in DOMAIN stack /\ stack \in Seq(Range(stack))
        BY <1>1, EmptySeq, LenProperties DEF Loops
    <2>2. stack[n].kind = IF n = 1 THEN entry ELSE "("
        BY <1>1, <2>1 DEF Loops
    <2>3. n # 1 /\ n # 0
        BY <1>1, <2>2, EmptySeq, <2>1 DEF CloseGroup, Top
    <2>. HIDE DEF n
    <2>4. n \in Nat => n > 1
        BY <2>3
    <2>. QED BY <2>1, <2>4
<1>4. Len(outer) = n - 1 /\ \A i \in 1..(n - 1) : outer[i] = stack[i]
    BY <1>3, FrontAny
<1>5. PICK b : /\ Began(C, input, stack, b)
               /\ Has(O, C, input, stack[n], b[n], pos)
    BY <1>1 DEF DerivedSoFar
<1>6. /\ input \in Seq(Tokens) /\ pos \in 1..Len(input) /\ Len(input) \in Nat /\ input[pos] = ")"
    BY Position DEF IInv, TypeOK, CloseGroup
<1>7. b \in [1..n -> 1..(Len(input) + 1)] /\ b[1] = 1
    BY <1>5 DEF Began
<1>8. /\ b[n] >= 2 /\ input[b[n] - 1] = "("
      /\ Waits(C, input, stack[n - 1], b[n - 1], b[n] - 1)
    <2>1. n \in 2..n
        BY <1>3
    <2>. QED BY <1>5, <2>1 DEF Began
<1>9. b[n] <= pos /\ <<SubSeq(input, b[n], pos - 1), Top.kids, Top.ops>> \in C
    BY <1>5, Zenon DEF Has, Top
<1>10. b[n] \in Nat /\ b[n] - 1 \in Nat /\ b[n] - 1 \in 1..Len(input) /\ pos \in ((b[n] - 1) + 1)..Len(input)
    <2>1. b[n] \in 1..(Len(input) + 1)
        BY <1>3, <1>7
    <2>2. b[n] >= 2 /\ b[n] <= pos
        BY <1>8, <1>9
    <2>. QED BY <1>6, <2>1, <2>2
<1>11. (<<"(">> \o SubSeq(input, b[n], pos - 1)) \o <<")">> = SubSeq(input, b[n] - 1, pos)
    <2>1. (b[n] - 1) + 1 = b[n]
        BY <1>10
    <2>2. (<<input[b[n] - 1]>> \o SubSeq(input, (b[n] - 1) + 1, pos - 1)) \o <<input[pos]>> = SubSeq(input, b[n] - 1, pos)
        BY <1>6, <1>10, PieceBetween
    <2>. QED BY <1>6, <1>8, <2>1, <2>2, Zenon
<1>. HIDE DEF n, outer
<1>. DEFINE c == [i \in 1..(n - 1) |-> b[i]]
<1>12. c \in [1..(n - 1) -> 1..(Len(input) + 1)] /\ \A i \in 1..(n - 1) : c[i] = b[i]
    BY <1>3, <1>7
<1>. HIDE DEF c
<1>13. Began(C, input, outer, c)
    <2>1. c[1] = 1
        BY <1>3, <1>7, <1>12
    <2>2. ASSUME NEW i \in 2..(n - 1)
          PROVE  /\ c[i] >= 2 /\ input[c[i] - 1] = "("
                 /\ Waits(C, input, outer[i - 1], c[i - 1], c[i] - 1)
        <3>1. i \in 2..n /\ i \in 1..(n - 1) /\ i - 1 \in 1..(n - 1)
            BY <1>3
        <3>2. /\ b[i] >= 2 /\ input[b[i] - 1] = "("
              /\ Waits(C, input, stack[i - 1], b[i - 1], b[i] - 1)
            BY <1>5, <3>1 DEF Began, n
        <3>. QED BY <1>4, <1>12, <3>1, <3>2
    <2>. QED BY <1>4, <1>12, <2>1, <2>2 DEF Began
<1>14. Waits(C, input, outer[Len(outer)], c[Len(outer)], b[n] - 1)
    <2>1. n - 1 \in 1..(n - 1)
        BY <1>3
    <2>. QED BY <1>4, <1>8, <1>12, <2>1
<1>15. ASSUME NEW r, <<SubSeq(input, b[n] - 1, pos), r>> \in O, Deliver(outer, r, pos + 1)
       PROVE  DerivedSoFar(O, C)'
    <2>1. /\ pos + 1 \in Nat /\ b[n] - 1 <= pos + 1 /\ pos + 1 <= Len(input) + 1 /\ (pos + 1) - 1 = pos
        BY <1>6, <1>9, <1>10
    <2>2. <<SubSeq(input, b[n] - 1, (pos + 1) - 1), r>> \in O
        BY <1>15, <2>1
    <2>. QED BY <1>2, <1>10, <1>13, <1>14, <1>15, <2>1, <2>2, DeliverDerived
<1>16. CASE Top.ops = << >> /\ Top.kids[1] # Nil /\ Deliver(outer, WithParen(Top.kids[1]), pos + 1)
    <2>1. <<(<<"(">> \o SubSeq(input, b[n], pos - 1)) \o <<")">>, WithParen(Top.kids[1])>> \in O
        BY <1>9, <1>16, Zenon DEF Productions
    <2>2. <<SubSeq(input, b[n] - 1, pos), WithParen(Top.kids[1])>> \in O
        BY <1>11, <2>1, Zenon
    <2>. QED BY <1>15, <1>16, <2>2
<1>17. CASE Top.ops # << >> /\ ~Mixed(Top.ops) /\ Deliver(outer, Combined(Top.kids, Top.ops, TRUE), pos + 1)
    <2>1. <<(<<"(">> \o SubSeq(input, b[n], pos - 1)) \o <<")">>, Combined(Top.kids, Top.ops, TRUE)>> \in O
        BY <1>9, <1>17, Zenon DEF Productions
    <2>2. <<SubSeq(input, b[n] - 1, pos), Combined(Top.kids, Top.ops, TRUE)>> \in O
        BY <1>11, <2>1, Zenon
    <2>. QED BY <1>15, <1>17, <2>2
<1>18. CASE Fail \/ Panic
    BY <1>18 DEF Fail, Panic, Finish, DerivedSoFar
<1>. QED BY <1>16, <1>17, <1>18 DEF CloseGroup, outer

\* What the outermost call returns.
LEMMA ReturnDerived ==
    ASSUME IInv, Asked, \A O, C : Productions(O, C) => DerivedSoFar(O, C), Return
    PROVE  AcceptedIsDerived'
<1>. SUFFICES ASSUME mode' = "done" PROVE Derived(entry, input, result')
    BY DEF AcceptedIsDerived, Return, Fail, Finish
<1>1. Loops(stack, 1) /\ stack # << >> /\ mode = "operator"
    BY InvariantLoops DEF Return, Ready, Due
<1>2. Top.kind # "("
    BY DEF Return
<1>3. Len(stack) = 1 /\ Top.kind = entry
    BY <1>1, <1>2, TopOperands
<1>4. /\ input \in Seq(Tokens) /\ Len(input) \in Nat /\ pos \in 1..(Len(input) + 1)
      /\ AtEnd => pos - 1 = Len(input)
    BY DEF IInv, TypeOK, AtEnd
<1>5. ASSUME NEW O, NEW C, Productions(O, C)
      PROVE  /\ <<SubSeq(input, 1, pos - 1), Top.kids, Top.ops>> \in C
             /\ ~Chained(Top) => <<SubSeq(input, 1, pos - 1), Top.kids[1]>> \in O
    <2>1. PICK b : /\ Began(C, input, stack, b)
                   /\ Has(O, C, input, stack[1], b[1], pos)
        BY <1>1, <1>3, <1>5 DEF DerivedSoFar
    <2>2. b[1] = 1 /\ Top = stack[1]
        BY <1>3, <2>1 DEF Began, Top
    <2>. QED BY <2>1, <2>2, Zenon DEF Has
<1>6. AtEnd => SubSeq(input, 1, pos - 1) = input
    BY <1>4, SubSeqFull
<1>7. AtEnd => input # << >> /\ input[Len(input)] \notin Operators
    BY <1>1 DEF Asked
<1>8. CASE entry = "expression"
    <2>1. AtEnd /\ ~Mixed(Top.ops) /\ result' = Combined(Top.kids, Top.ops, FALSE)
        BY <1>3, <1>8 DEF Return, Finish, Fail
    <2>2. Width(input) >= 3
        BY <1>1, <1>8 DEF Asked
    <2>3. \A O, C : Productions(O, C) => <<input, Top.kids, Top.ops>> \in C
        BY <1>5, <1>6, <2>1, Zenon
    <2>. QED BY <1>7, <1>8, <2>1, <2>2, <2>3, Zenon DEF Derived
<1>9. CASE entry = "tokens"
    <2>1. AtEnd /\ result' = Top.kids[1]
        BY <1>3, <1>9 DEF Return, Finish, Fail
    <2>2. ~Chained(Top)
        BY <1>3, <1>9 DEF Chained
    <2>3. \A O, C : Productions(O, C) => <<input, Top.kids[1]>> \in O
        BY <1>5, <1>6, <2>1, <2>2, Zenon
    <2>. QED BY <1>7, <1>9, <2>1, <2>3 DEF Derived
<1>10. CASE entry = "group"
    <2>1. result' = Top.kids[1] /\ ~Chained(Top)
        BY <1>3, <1>10 DEF Return, Finish, Fail, Chained
    <2>2. input # << >> /\ input[1] = "(" /\ pos > 1
        BY <1>1, <1>10 DEF Asked
    <2>3. pos - 1 \in 1..Len(input)
        BY <1>4, <2>2
    <2>4. \A O, C : Productions(O, C) => <<SubSeq(input, 1, pos - 1), Top.kids[1]>> \in O
        BY <1>5, <2>1
    <2>. QED BY <1>10, <2>1, <2>2, <2>3, <2>4 DEF Derived
<1>11. entry \in {"expression", "tokens", "group"}
    BY DEF IInv, TypeOK, Entries
<1>. QED BY <1>8, <1>9, <1>10, <1>11

LEMMA WidthOfAppend ==
    ASSUME NEW s \in Seq(Tokens), NEW t \in Tokens
    PROVE  Width(s) \in Nat /\ Width(Append(s, t)) \in Nat /\ Width(Append(s, t)) >= Width(s)
<1>. DEFINE a == Append(s, t)
            A == {i \in DOMAIN a : a[i] \in Texts}
            B == {i \in DOMAIN s : s[i] \in Texts}
<1>1. /\ Len(s) \in Nat /\ DOMAIN s = 1..Len(s) /\ Len(a) = Len(s) + 1 /\ DOMAIN a = 1..Len(a)
      /\ \A i \in 1..Len(s) : a[i] = s[i]
    <2>1. a \in Seq(Tokens)
        OBVIOUS
    <2>. QED BY <2>1, LenProperties, AppendProperties
<1>. HIDE DEF a
<1>2. B \subseteq A /\ A \subseteq 1..Len(a)
    <2>1. \A i \in 1..Len(s) : i \in 1..Len(a)
        BY <1>1
    <2>. QED BY <1>1, <2>1
<1>3. IsFiniteSet(1..Len(a))
    BY <1>1, FS_Interval
<1>. HIDE DEF A, B
<1>4. IsFiniteSet(A) /\ IsFiniteSet(B) /\ Cardinality(B) <= Cardinality(A)
    BY <1>2, <1>3, FS_Subset
<1>5. Cardinality(A) \in Nat /\ Cardinality(B) \in Nat
    BY <1>4, FS_CardinalityType
<1>6. Width(s) = Len(s) + 2 * Cardinality(B) /\ Width(a) = Len(a) + 2 * Cardinality(A)
    BY Zenon DEF Width, A, B
<1>7. Width(s) \in Nat /\ Width(a) \in Nat /\ Width(a) >= Width(s)
    BY <1>1, <1>4, <1>5, <1>6
<1>. QED BY <1>7 DEF a

LEMMA InitAsked == Init => Asked
BY DEF Init, Asked

LEMMA NextAsked == IInv /\ Asked /\ [Next]_vars => Asked'
<1>. SUFFICES ASSUME IInv, Asked, [Next]_vars PROVE Asked'
    OBVIOUS
<1>1. /\ input \in Seq(Tokens) /\ Len(input) \in Nat /\ pos \in 1..(Len(input) + 1)
      /\ DOMAIN input = 1..Len(input)
    BY LenProperties DEF IInv, TypeOK
<1>2. "item" \notin Operators /\ "word" \notin Operators /\ ")" \notin Operators
    BY DEF Operators
<1>3. ASSUME NEW t \in Tokens, Draw(t) PROVE Asked'
    <2>1. UNCHANGED <<entry, pos, stack, mode>> /\ input' = Append(input, t)
        BY <1>3 DEF Draw
    <2>2. input' # << >> /\ Len(input') = Len(input) + 1
        BY <1>1, <2>1
    <2>3. ~AtEnd'
        BY <1>1, <2>1, <2>2 DEF AtEnd
    <2>4. Width(input) >= 3 => Width(input') >= 3
        <3>1. Width(input) \in Nat /\ Width(input') \in Nat /\ Width(input') >= Width(input)
            BY <1>1, <2>1, WidthOfAppend
        <3>. QED BY <3>1
    <2>5. input # << >> => input'[1] = input[1]
        <3>1. input # << >> => 1 \in 1..Len(input)
            BY <1>1, EmptySeq
        <3>. QED BY <1>1, <2>1, <3>1, AppendProperties
    <2>. QED BY <2>1, <2>2, <2>3, <2>4, <2>5 DEF Asked
<1>4. ASSUME mode' \in Final PROVE Asked'
    BY <1>4 DEF Asked, Final
<1>5. ASSUME NEW st, NEW r, NEW p, Deliver(st, r, p), p > Len(input) => input[Len(input)] \notin Operators,
             input # << >>, entry = "group" => p > 1, mode \in {"operand", "operator"}
      PROVE  Asked'
    <2>1. mode' = "operator" /\ pos' = p /\ UNCHANGED <<entry, input>>
        BY <1>5 DEF Deliver
    <2>. QED BY <1>5, <2>1 DEF Asked, AtEnd
<1>6. ASSUME mode' = "operand", UNCHANGED <<entry, input>>, mode \in {"operand", "operator"}
      PROVE  Asked'
    BY <1>6 DEF Asked
<1>7. CASE Start
    <2>1. CASE Fail \/ Panic
        BY <2>1, <1>4 DEF Fail, Panic, Finish, Final
    <2>2. CASE /\ ~(entry = "expression" /\ Width(input) < 3)
               /\ ~(entry = "group" /\ input = << >>)
               /\ ~(entry = "group" /\ input # << >> /\ input[1] # "(")
               /\ mode' = "operand" /\ UNCHANGED <<entry, input>>
        <3>1. Width(input) \in Nat
            <4>1. "(" \in Tokens
                BY DEF Tokens
            <4>. QED BY <1>1, <4>1, WidthOfAppend
        <3>2. entry = "expression" => Width(input) >= 3
            BY <2>2, <3>1
        <3>. QED BY <2>2, <3>2 DEF Asked
    <2>. QED BY <1>7, <2>1, <2>2 DEF Start
<1>8. ~AtEnd => pos \in 1..Len(input) /\ input # << >> /\ pos + 1 > 1 /\ (pos + 1 > Len(input) => pos = Len(input))
    <2>1. ~AtEnd => pos \in 1..Len(input) /\ pos + 1 > 1 /\ (pos + 1 > Len(input) => pos = Len(input)) /\ Len(input) # 0
        <3>1. \A n \in Nat : \A p \in 1..(n + 1) :
                ~(p > n) => p \in 1..n /\ p + 1 > 1 /\ (p + 1 > n => p = n) /\ n # 0
            OBVIOUS
        <3>. QED BY <1>1, <3>1, Zenon DEF AtEnd
    <2>. QED BY <2>1, EmptyAny
<1>9. CASE Operand
    <2>1. ~AtEnd /\ mode = "operand" /\ input[pos] # "("
        BY <1>9 DEF Operand, Ready
    <2>2. entry = "group" => input[1] = "("
        BY <2>1 DEF Asked
    <2>3. entry = "group" => pos > 1
        BY <1>1, <2>1, <2>2
    <2>4. ~(pos > Len(input))
        BY <2>1 DEF AtEnd
    <2>5. CASE input[pos] = "item" /\ Deliver(stack, Item, pos + 1)
        <3>1. pos + 1 > Len(input) => input[Len(input)] \notin Operators
            BY <1>2, <1>8, <2>1, <2>5
        <3>. QED BY <1>5, <1>8, <2>1, <2>5, <3>1
    <2>6. CASE input[pos] = "word" /\ Deliver(stack, Nil, pos + 1)
        <3>1. pos + 1 > Len(input) => input[Len(input)] \notin Operators
            BY <1>2, <1>8, <2>1, <2>6
        <3>. QED BY <1>5, <1>8, <2>1, <2>6, <3>1
    <2>7. CASE Deliver(stack, Nil, pos)
        BY <1>5, <1>8, <2>1, <2>3, <2>4, <2>7
    <2>8. CASE Fail
        BY <2>8, <1>4 DEF Fail, Finish, Final
    <2>. QED BY <1>9, <2>5, <2>6, <2>7, <2>8 DEF Operand
<1>10. CASE CloseGroup
    <2>1. ~AtEnd /\ mode = "operator" /\ input[pos] = ")"
        BY <1>10 DEF CloseGroup, Ready
    <2>2. pos + 1 > Len(input) => input[Len(input)] \notin Operators
        BY <1>2, <1>8, <2>1
    <2>3. ASSUME NEW r, Deliver(Front(stack), r, pos + 1) PROVE Asked'
        BY <1>5, <1>8, <2>1, <2>2, <2>3
    <2>4. CASE Fail \/ Panic
        BY <2>4, <1>4 DEF Fail, Panic, Finish, Final
    <2>. QED BY <1>10, <2>3, <2>4 DEF CloseGroup
<1>11. CASE OpenGroup \/ Operator
    BY <1>6, <1>11 DEF OpenGroup, Operator, Ready
<1>12. CASE NoOperand \/ Unexpected \/ Return
    BY <1>4, <1>12 DEF NoOperand, Unexpected, Return, Fail, Finish, Final
<1>13. CASE DrawEnd \/ UNCHANGED vars
    BY <1>13 DEF DrawEnd, vars, Asked, AtEnd
<1>. QED BY <1>3, <1>7, <1>9, <1>10, <1>11, <1>12, <1>13 DEF Next, Step

LEMMA NextDerived ==
    ASSUME IInv, Asked, NEW O, NEW C, Productions(O, C), DerivedSoFar(O, C), [Next]_vars
    PROVE  DerivedSoFar(O, C)'
<1>1. CASE \E t \in Tokens : Draw(t)
    BY <1>1, DrawDerived
<1>2. CASE Start
    BY <1>2, StartDerived
<1>3. CASE OpenGroup
    BY <1>3, OpenGroupDerived
<1>4. CASE Operand
    BY <1>4, OperandStepDerived
<1>5. CASE Operator
    BY <1>5, OperatorDerived
<1>6. CASE CloseGroup
    BY <1>6, CloseGroupDerived
<1>7. CASE NoOperand \/ Unexpected \/ Return
    BY <1>7 DEF NoOperand, Unexpected, Return, Fail, Finish, DerivedSoFar
<1>8. CASE DrawEnd \/ UNCHANGED vars
    BY <1>8 DEF DrawEnd, vars, DerivedSoFar
<1>. QED BY <1>1, <1>2, <1>3, <1>4, <1>5, <1>6, <1>7, <1>8 DEF Next, Step

\* For every two sets closed under the productions, what each loop has is in them.
AllDerived == \A O, C : Productions(O, C) => DerivedSoFar(O, C)

\* No list is accepted but one the grammar derives, and with a rule it derives for it:
\* whatever the tokens and however deep the groups, the loops of
\* parseACIv3BindRuleExpression and parseACIv3BindRuleGroup drop, repeat and reorder no
\* operand, put each operator between the operands it stood between, keep AND and OR apart
\* in every chain, and accept no parenthesis that is left over and no operator at the end;
\* an operand that is missing elsewhere is a nil rule in its place.
THEOREM AcceptedHasADerivation == Spec => []AcceptedIsDerived
<1>1. Init => Asked /\ AllDerived /\ AcceptedIsDerived
    BY InitAsked DEF Init, AllDerived, DerivedSoFar, AcceptedIsDerived
<1>2. IInv /\ Asked /\ AllDerived /\ [Next]_vars => AllDerived'
    <2>. SUFFICES ASSUME IInv, Asked, AllDerived, [Next]_vars, NEW O, NEW C, Productions(O, C)
                  PROVE  DerivedSoFar(O, C)'
        BY DEF AllDerived
    <2>. QED BY NextDerived DEF AllDerived
<1>3. IInv /\ Asked /\ AllDerived /\ AcceptedIsDerived /\ [Next]_vars => AcceptedIsDerived'
    <2>. SUFFICES ASSUME IInv, Asked, AllDerived, AcceptedIsDerived, [Next]_vars
                  PROVE  AcceptedIsDerived'
        OBVIOUS
    <2>1. CASE Return
        BY <2>1, ReturnDerived DEF AllDerived
    <2>2. CASE mode = "done"
        <3>1. UNCHANGED vars
            BY <2>2 DEF Next, Step, Draw, DrawEnd, Starved, Final, Start, OpenGroup, Operand, NoOperand,
                        Operator, CloseGroup, Unexpected, Return, Ready
        <3>. QED BY <3>1 DEF vars, AcceptedIsDerived
    <2>3. CASE mode # "done" /\ ~Return
        <3>1. mode' # "done"
            BY <2>3 DEF Next, Step, Draw, DrawEnd, Start, OpenGroup, Operand, NoOperand,
                        Operator, CloseGroup, Unexpected, Ready, Fail, Panic, Finish, Deliver, vars
        <3>. QED BY <3>1 DEF AcceptedIsDerived
    <2>. QED BY <2>1, <2>2, <2>3
<1>4. Spec => []IInv
    BY InitIInv, NextIInv, PTL DEF Spec
<1>. QED BY <1>1, <1>2, <1>3, <1>4, NextAsked, PTL DEF Spec

-----------------------------------------------------------------------------
(* What has a derivation is accepted                                       *)

\* The parser on a list that is known as a whole: a moment of a parse, or its outcome.
Moment(m, st, p) == [mode |-> m, stack |-> st, pos |-> p, result |-> Nil]
Outcome(m, r)    == [mode |-> m, stack |-> << >>, pos |-> 0, result |-> r]
Now == IF mode \in Final THEN Outcome(mode, result) ELSE Moment(mode, stack, pos)

WithKid(st, r) == [st EXCEPT ![Len(st)].kids = Append(@, r)]
WithOp(st, op) == [st EXCEPT ![Len(st)].ops = Append(@, op)]

\* The next moment, on the list s: Step with nothing left to draw.
MoveOperand(s, st, p) ==
    IF p > Len(s) THEN Outcome("error", Nil)
    ELSE CASE s[p] = "("    -> Moment("operand", Append(st, Frame("(")), p + 1)
           [] s[p] = "item" -> Moment("operator", WithKid(st, Item), p + 1)
           [] s[p] = "word" -> Moment("operator", WithKid(st, Nil), p + 1)
           [] s[p] = "junk" -> Outcome("error", Nil)
           [] OTHER         -> Moment("operator", WithKid(st, Nil), p)

MoveReturn(s, f, p) ==
    IF f.kind = "expression" /\ p > Len(s) /\ ~Mixed(f.ops) THEN Outcome("done", Combined(f.kids, f.ops, FALSE))
    ELSE IF f.kind = "group" \/ (f.kind = "tokens" /\ p > Len(s)) THEN Outcome("done", f.kids[1])
    ELSE Outcome("error", Nil)

MoveOperator(s, st, p) ==
    LET f == st[Len(st)]
    IN  IF p > Len(s) \/ ~Chained(f) THEN MoveReturn(s, f, p)
        ELSE IF s[p] \in Operators THEN Moment("operand", WithOp(st, s[p]), p + 1)
        ELSE IF s[p] # ")" \/ f.kind # "(" THEN Outcome("error", Nil)
        ELSE IF f.ops = << >>
             THEN IF f.kids[1] = Nil THEN Outcome("panic", Nil)
                  ELSE Moment("operator", WithKid(Front(st), WithParen(f.kids[1])), p + 1)
        ELSE IF Mixed(f.ops) THEN Outcome("error", Nil)
        ELSE Moment("operator", WithKid(Front(st), Combined(f.kids, f.ops, TRUE)), p + 1)

Move(s, c) == CASE c.mode = "operand"  -> MoveOperand(s, c.stack, c.pos)
                [] c.mode = "operator" -> MoveOperator(s, c.stack, c.pos)
                [] OTHER               -> c

\* The moves from c come to d: d is wherever c is and one more move leads nowhere else.
Leads(s, c, d) == \A R : c \in R /\ (\A x \in R : Move(s, x) \in R) => d \in R

LEMMA LeadsOn ==
    ASSUME NEW s, NEW c, NEW d, NEW e
    PROVE  /\ Leads(s, c, c) /\ Leads(s, c, Move(s, c))
           /\ Leads(s, c, d) /\ Leads(s, d, e) => Leads(s, c, e)
<1>1. Leads(s, c, c) /\ Leads(s, c, Move(s, c))
    BY Zenon DEF Leads
<1>2. Leads(s, c, d) /\ Leads(s, d, e) => Leads(s, c, e)
    BY Zenon DEF Leads
<1>. QED BY <1>1, <1>2

\* What is still to come is still to come after one move.
LEMMA LeadsAfter ==
    ASSUME NEW s, NEW c, NEW d, Leads(s, c, d), c # d
    PROVE  Leads(s, Move(s, c), d)
<1>. SUFFICES ASSUME NEW R, Move(s, c) \in R, \A x \in R : Move(s, x) \in R
              PROVE  d \in R
    BY Zenon DEF Leads
<1>1. \A x \in R \cup {c} : Move(s, x) \in R \cup {c}
    OBVIOUS
<1>2. d \in R \cup {c}
    BY <1>1, Zenon DEF Leads
<1>. QED BY <1>2

\* An outcome is the end.
LEMMA LeadsNowhere ==
    ASSUME NEW s, NEW m \in Final, NEW r, NEW d, Leads(s, Outcome(m, r), d)
    PROVE  d = Outcome(m, r)
<1>1. Move(s, Outcome(m, r)) = Outcome(m, r)
    BY DEF Move, Outcome, Final
<1>2. \A x \in {Outcome(m, r)} : Move(s, x) \in {Outcome(m, r)}
    BY <1>1
<1>. QED BY <1>2, Zenon DEF Leads

-----------------------------------------------------------------------------
(* Every production is made by moves                                       *)

\* t stands in s from p on.
Holds(s, p, t) == p + Len(t) <= Len(s) + 1 /\ \A i \in 1..Len(t) : s[p + i - 1] = t[i]

\* Behind nothing at all, an operand ends because an operator or a parenthesis follows.
Followed(s, q) == q <= Len(s) /\ s[q] \in Operators \cup {")"}
Opens(t)       == t = << >> \/ t[Len(t)] \in Operators

Loop(k, kids, ops) == [kind |-> k, kids |-> kids, ops |-> ops]

ReadsOperand(t, r) ==
    /\ t \in Seq(Tokens)
    /\ \A s \in Seq(Tokens) : \A p \in Nat \ {0} : \A st, k, kids, ops :
         /\ st \in Seq(Range(st)) /\ kids \in Seq(Range(kids))
         /\ Holds(s, p, t) /\ (t = << >> => Followed(s, p))
         => Leads(s, Moment("operand", Append(st, Loop(k, kids, ops)), p),
                     Moment("operator", Append(st, Loop(k, Append(kids, r), ops)), p + Len(t)))

ReadsChain(t, kids, ops) ==
    /\ t \in Seq(Tokens) /\ kids \in Seq(Range(kids)) /\ ops \in Seq(Operators)
    /\ \A s \in Seq(Tokens) : \A p \in Nat \ {0} : \A k \in {"(", "expression"} : \A st :
         /\ st \in Seq(Range(st))
         /\ Holds(s, p, t) /\ (Opens(t) => Followed(s, p + Len(t)))
         => Leads(s, Moment("operand", Append(st, Frame(k)), p),
                     Moment("operator", Append(st, Loop(k, kids, ops)), p + Len(t)))

LEMMA LoopChanged ==
    ASSUME NEW k, NEW kids, NEW ops
    PROVE  /\ \A r : [Loop(k, kids, ops) EXCEPT !.kids = Append(@, r)] = Loop(k, Append(kids, r), ops)
           /\ \A op : [Loop(k, kids, ops) EXCEPT !.ops = Append(@, op)] = Loop(k, kids, Append(ops, op))
<1>1. ASSUME NEW f, f = [kind |-> f.kind, kids |-> f.kids, ops |-> f.ops], NEW x
      PROVE  /\ [f EXCEPT !.kids = x] = [kind |-> f.kind, kids |-> x, ops |-> f.ops]
             /\ [f EXCEPT !.ops = x] = [kind |-> f.kind, kids |-> f.kids, ops |-> x]
    <2>1. f \in [kind : {f.kind}, kids : {f.kids}, ops : {f.ops}]
        BY <1>1
    <2>. QED BY <2>1, FieldReplaced
<1>. DEFINE f == Loop(k, kids, ops)
<1>2. f.kind = k /\ f.kids = kids /\ f.ops = ops /\ f = [kind |-> f.kind, kids |-> f.kids, ops |-> f.ops]
    BY DEF Loop
<1>. HIDE DEF f
<1>3. /\ \A r : [f EXCEPT !.kids = Append(f.kids, r)] = Loop(k, Append(kids, r), ops)
      /\ \A op : [f EXCEPT !.ops = Append(f.ops, op)] = Loop(k, kids, Append(ops, op))
    BY <1>1, <1>2 DEF Loop
<1>. QED BY <1>3 DEF f

\* The innermost of a stack.
LEMMA InnermostLoop ==
    ASSUME NEW st, st \in Seq(Range(st)), NEW k, NEW kids, NEW ops
    PROVE  LET a == Append(st, Loop(k, kids, ops))
           IN  /\ a \in Seq(Range(a)) /\ Len(a) = Len(st) + 1
               /\ a[Len(a)] = Loop(k, kids, ops) /\ Front(a) = st
               /\ \A r : WithKid(a, r) = Append(st, Loop(k, Append(kids, r), ops))
               /\ \A op : WithOp(a, op) = Append(st, Loop(k, kids, Append(ops, op)))
<1>. DEFINE f == Loop(k, kids, ops)
            a == Append(st, f)
<1>1. /\ a \in Seq(Range(a)) /\ Len(a) = Len(st) + 1 /\ DOMAIN a = 1..(Len(st) + 1)
      /\ \A i \in 1..Len(st) : a[i] = st[i]
      /\ a[Len(st) + 1] = f
    BY AppendAny
<1>2. Len(st) \in Nat /\ DOMAIN st = 1..Len(st)
    BY LenProperties
<1>3. ASSUME NEW g PROVE [a EXCEPT ![Len(a)] = g] = Append(st, g)
    <2>. DEFINE x == [a EXCEPT ![Len(a)] = g]
                y == Append(st, g)
    <2>1. Len(a) \in DOMAIN a
        BY <1>1, <1>2
    <2>2. x \in Seq(Range(x)) /\ Len(x) = Len(a) /\ \A i \in DOMAIN a : x[i] = IF i = Len(a) THEN g ELSE a[i]
        <3>. HIDE DEF a
        <3>. QED BY <1>1, <2>1, ExceptAny
    <2>3. /\ y \in Seq(Range(y)) /\ Len(y) = Len(st) + 1
          /\ \A i \in 1..Len(st) : y[i] = st[i]
          /\ y[Len(st) + 1] = g
        BY AppendAny
    <2>. HIDE DEF x, y, a
    <2>4. Len(x) = Len(y) /\ \A i \in 1..Len(x) : x[i] = y[i]
        BY <1>1, <1>2, <2>2, <2>3
    <2>5. x = y
        <3>1. x \in Seq(Range(x) \cup Range(y)) /\ y \in Seq(Range(x) \cup Range(y))
            BY <2>2, <2>3, SeqMonotonic
        <3>. QED BY <2>4, <3>1, SeqEqual
    <2>. QED BY <2>5 DEF x, y
<1>4. ASSUME NEW r PROVE WithKid(a, r) = Append(st, Loop(k, Append(kids, r), ops))
    <2>. DEFINE g == [f EXCEPT !.kids = Append(@, r)]
    <2>1. g = Loop(k, Append(kids, r), ops)
        BY LoopChanged
    <2>2. WithKid(a, r) = [a EXCEPT ![Len(a)] = g]
        BY <1>1 DEF WithKid
    <2>. HIDE DEF g, a
    <2>. QED BY <1>3, <2>1, <2>2
<1>5. ASSUME NEW op PROVE WithOp(a, op) = Append(st, Loop(k, kids, Append(ops, op)))
    <2>. DEFINE g == [f EXCEPT !.ops = Append(@, op)]
    <2>1. g = Loop(k, kids, Append(ops, op))
        BY LoopChanged
    <2>2. WithOp(a, op) = [a EXCEPT ![Len(a)] = g]
        BY <1>1 DEF WithOp
    <2>. HIDE DEF g, a
    <2>. QED BY <1>3, <2>1, <2>2
<1>6. Front(a) = st
    <2>1. Front(a) = SubSeq(a, 1, Len(st))
        BY <1>1, <1>2 DEF Front
    <2>2. st \in Seq(Range(st) \cup {f})
        BY SeqMonotonic
    <2>. QED BY <2>1, <2>2, AppendProperties, <1>1
<1>. QED BY <1>1, <1>4, <1>5, <1>6

LEMMA MovesOperand ==
    ASSUME NEW s \in Seq(Tokens), NEW p \in Nat \ {0}, NEW st, st \in Seq(Range(st)), NEW k, NEW kids, NEW ops
    PROVE  LET a == Append(st, Loop(k, kids, ops))
               after(r, q) == Moment("operator", Append(st, Loop(k, Append(kids, r), ops)), q)
           IN  /\ p <= Len(s) /\ s[p] = "item" => Move(s, Moment("operand", a, p)) = after(Item, p + 1)
               /\ p <= Len(s) /\ s[p] = "word" => Move(s, Moment("operand", a, p)) = after(Nil, p + 1)
               /\ p <= Len(s) /\ s[p] = "(" =>
                    Move(s, Moment("operand", a, p)) = Moment("operand", Append(a, Frame("(")), p + 1)
               /\ Followed(s, p) => Move(s, Moment("operand", a, p)) = after(Nil, p)
<1>. DEFINE a == Append(st, Loop(k, kids, ops))
<1>1. \A r : WithKid(a, r) = Append(st, Loop(k, Append(kids, r), ops))
    BY InnermostLoop
<1>2. Move(s, Moment("operand", a, p)) = MoveOperand(s, a, p)
    <2>. HIDE DEF a
    <2>. QED BY DEF Move, Moment
<1>3. Len(s) \in Nat
    BY LenProperties
<1>4. p <= Len(s) => ~(p > Len(s))
    BY <1>3
<1>. HIDE DEF a
<1>5. p <= Len(s) /\ s[p] = "item" => MoveOperand(s, a, p) = Moment("operator", WithKid(a, Item), p + 1)
    BY <1>4 DEF MoveOperand
<1>6. p <= Len(s) /\ s[p] = "word" => MoveOperand(s, a, p) = Moment("operator", WithKid(a, Nil), p + 1)
    BY <1>4 DEF MoveOperand
<1>7. p <= Len(s) /\ s[p] = "(" => MoveOperand(s, a, p) = Moment("operand", Append(a, Frame("(")), p + 1)
    BY <1>4 DEF MoveOperand
<1>8. Followed(s, p) => MoveOperand(s, a, p) = Moment("operator", WithKid(a, Nil), p)
    BY <1>4 DEF MoveOperand, Followed, Operators
<1>9. p \in Nat
    OBVIOUS
<1>. QED BY <1>1, <1>2, <1>5, <1>6, <1>7, <1>8 DEF a

\* At an operator, and at the parenthesis that closes a group.
LEMMA AtOperator ==
    ASSUME NEW s \in Seq(Tokens), NEW p \in Nat \ {0}, p <= Len(s), NEW st, st \in Seq(Range(st)),
           NEW k, NEW kids, NEW ops
    PROVE  LET a == Append(st, Loop(k, kids, ops))
           IN  /\ Move(s, Moment("operator", a, p)) = MoveOperator(s, a, p)
               /\ a[Len(a)] = Loop(k, kids, ops) /\ Front(a) = st
               /\ \A op : WithOp(a, op) = Append(st, Loop(k, kids, Append(ops, op)))
               /\ ~(p > Len(s)) /\ ")" \notin Operators
               /\ Loop(k, kids, ops).kind = k /\ Loop(k, kids, ops).kids = kids /\ Loop(k, kids, ops).ops = ops
               /\ k \in {"(", "expression"} => Chained(Loop(k, kids, ops))
<1>. DEFINE a == Append(st, Loop(k, kids, ops))
<1>1. /\ \A op : WithOp(a, op) = Append(st, Loop(k, kids, Append(ops, op)))
      /\ a[Len(a)] = Loop(k, kids, ops) /\ Front(a) = st
    BY InnermostLoop
<1>2. Move(s, Moment("operator", a, p)) = MoveOperator(s, a, p)
    <2>. HIDE DEF a
    <2>. QED BY DEF Move, Moment
<1>3. ~(p > Len(s))
    <2>1. Len(s) \in Nat
        BY LenProperties
    <2>. QED BY <2>1
<1>4. Loop(k, kids, ops).kind = k /\ Loop(k, kids, ops).kids = kids /\ Loop(k, kids, ops).ops = ops
    BY DEF Loop
<1>5. ")" \notin Operators
    BY DEF Operators
<1>. QED BY <1>1, <1>2, <1>3, <1>4, <1>5 DEF Chained

LEMMA MovesOn ==
    ASSUME NEW s \in Seq(Tokens), NEW p \in Nat \ {0}, NEW st, st \in Seq(Range(st)),
           NEW k \in {"(", "expression"}, NEW kids, NEW ops, p <= Len(s), NEW op \in Operators, s[p] = op
    PROVE  Leads(s, Moment("operator", Append(st, Loop(k, kids, ops)), p),
                    Moment("operand", Append(st, Loop(k, kids, Append(ops, op))), p + 1))
<1>. DEFINE a == Append(st, Loop(k, kids, ops))
<1>1. /\ Move(s, Moment("operator", a, p)) = MoveOperator(s, a, p)
      /\ a[Len(a)] = Loop(k, kids, ops)
      /\ WithOp(a, op) = Append(st, Loop(k, kids, Append(ops, op)))
      /\ ~(p > Len(s))
      /\ Chained(Loop(k, kids, ops))
    BY AtOperator
<1>. HIDE DEF a
<1>2. MoveOperator(s, a, p) = Moment("operand", WithOp(a, op), p + 1)
    BY <1>1 DEF MoveOperator
<1>3. Leads(s, Moment("operator", a, p), Moment("operand", WithOp(a, op), p + 1))
    BY <1>1, <1>2, LeadsOn, Zenon
<1>4. WithOp(a, op) = Append(st, Loop(k, kids, Append(ops, op)))
    BY <1>1
<1>. QED BY <1>3, <1>4 DEF a

LEMMA MovesOut ==
    ASSUME NEW s \in Seq(Tokens), NEW p \in Nat \ {0}, NEW st, st \in Seq(Range(st)),
           NEW kids, NEW ops, p <= Len(s), s[p] = ")", NEW r,
           \/ ops = << >> /\ kids[1] # Nil /\ r = WithParen(kids[1])
           \/ ops # << >> /\ ~Mixed(ops) /\ r = Combined(kids, ops, TRUE)
    PROVE  Leads(s, Moment("operator", Append(st, Loop("(", kids, ops)), p), Moment("operator", WithKid(st, r), p + 1))
<1>. DEFINE f == Loop("(", kids, ops)
            a == Append(st, f)
<1>1. /\ Move(s, Moment("operator", a, p)) = MoveOperator(s, a, p)
      /\ a[Len(a)] = f /\ Front(a) = st
      /\ ~(p > Len(s)) /\ ")" \notin Operators
      /\ f.kind = "(" /\ f.kids = kids /\ f.ops = ops
      /\ Chained(f)
    BY AtOperator
<1>. HIDE DEF a, f
<1>2. MoveOperator(s, a, p) = Moment("operator", WithKid(st, r), p + 1)
    <2>1. CASE ops = << >> /\ kids[1] # Nil /\ r = WithParen(kids[1])
        BY <1>1, <2>1 DEF MoveOperator
    <2>2. CASE ops # << >> /\ ~Mixed(ops) /\ r = Combined(kids, ops, TRUE)
        BY <1>1, <2>2 DEF MoveOperator
    <2>. QED BY <2>1, <2>2
<1>. QED BY <1>1, <1>2, LeadsOn, Zenon DEF a, f

\* The list (t, op, u) stands in s from p on: t does, then op, then u.
LEMMA HoldsParts ==
    ASSUME NEW s \in Seq(Tokens), NEW p \in Nat \ {0}, NEW t \in Seq(Tokens), NEW u \in Seq(Tokens),
           NEW op \in Tokens, Holds(s, p, (t \o <<op>>) \o u)
    PROVE  /\ Holds(s, p, t) /\ p + Len(t) <= Len(s) /\ s[p + Len(t)] = op
           /\ Holds(s, p + Len(t) + 1, u)
           /\ Len((t \o <<op>>) \o u) = Len(t) + 1 + Len(u)
<1>. DEFINE v == t \o <<op>>
            w == v \o u
<1>1. Len(t) \in Nat /\ Len(u) \in Nat /\ Len(s) \in Nat
    BY LenProperties
<1>2. <<op>> \in Seq(Tokens) /\ Len(<<op>>) = 1 /\ <<op>>[1] = op
    OBVIOUS
<1>3. /\ v \in Seq(Tokens) /\ Len(v) = Len(t) + 1
      /\ \A i \in 1..Len(t) : v[i] = t[i]
      /\ v[Len(t) + 1] = op
    BY <1>1, <1>2, ConcatProperties
<1>. HIDE DEF v
<1>4. /\ Len(w) = Len(v) + Len(u)
      /\ \A i \in 1..(Len(v) + Len(u)) : w[i] = IF i <= Len(v) THEN v[i] ELSE u[i - Len(v)]
    BY <1>3, ConcatProperties
<1>5. /\ \A i \in 1..Len(t) : w[i] = t[i]
      /\ w[Len(t) + 1] = op
      /\ \A i \in 1..Len(u) : w[Len(t) + 1 + i] = u[i]
    <2>1. \A i \in 1..Len(t) : i \in 1..(Len(v) + Len(u)) /\ i <= Len(v)
        BY <1>1, <1>3
    <2>2. Len(t) + 1 \in 1..(Len(v) + Len(u)) /\ Len(t) + 1 <= Len(v)
        BY <1>1, <1>3
    <2>3. \A i \in 1..Len(u) : /\ Len(t) + 1 + i \in 1..(Len(v) + Len(u)) /\ ~(Len(t) + 1 + i <= Len(v))
                               /\ Len(t) + 1 + i - Len(v) = i
        BY <1>1, <1>3
    <2>. QED BY <1>3, <1>4, <2>1, <2>2, <2>3
<1>6. p + Len(w) <= Len(s) + 1 /\ \A i \in 1..Len(w) : s[p + i - 1] = w[i]
    BY DEF Holds, v
<1>. HIDE DEF w
<1>7. Holds(s, p, t)
    <2>1. \A i \in 1..Len(t) : i \in 1..Len(w)
        BY <1>1, <1>3, <1>4
    <2>2. p + Len(t) <= Len(s) + 1
        BY <1>1, <1>3, <1>4, <1>6
    <2>. QED BY <1>5, <1>6, <2>1, <2>2 DEF Holds
<1>8. p + Len(t) <= Len(s) /\ s[p + Len(t)] = op
    <2>1. Len(t) + 1 \in 1..Len(w) /\ p + (Len(t) + 1) - 1 = p + Len(t)
        BY <1>1, <1>3, <1>4
    <2>2. p + Len(t) <= Len(s)
        BY <1>1, <1>3, <1>4, <1>6
    <2>. QED BY <1>5, <1>6, <2>1, <2>2
<1>9. Holds(s, p + Len(t) + 1, u)
    <2>1. ASSUME NEW i \in 1..Len(u) PROVE s[(p + Len(t) + 1) + i - 1] = u[i]
        <3>1. Len(t) + 1 + i \in 1..Len(w) /\ p + (Len(t) + 1 + i) - 1 = (p + Len(t) + 1) + i - 1
            BY <1>1, <1>3, <1>4
        <3>2. s[p + (Len(t) + 1 + i) - 1] = w[Len(t) + 1 + i]
            BY <1>6, <3>1
        <3>. QED BY <1>5, <3>1, <3>2
    <2>2. (p + Len(t) + 1) + Len(u) <= Len(s) + 1
        BY <1>1, <1>3, <1>4, <1>6
    <2>. QED BY <2>1, <2>2 DEF Holds
<1>10. Len(w) = Len(t) + 1 + Len(u)
    BY <1>1, <1>3, <1>4
<1>. QED BY <1>7, <1>8, <1>9, <1>10 DEF w, v

\* Whether such a list is open is up to u.
LEMMA OpensParts ==
    ASSUME NEW t \in Seq(Tokens), NEW u \in Seq(Tokens), NEW op \in Tokens
    PROVE  LET w == (t \o <<op>>) \o u
           IN  /\ w \in Seq(Tokens) /\ w # << >>
               /\ u = << >> => w[Len(w)] = op
               /\ u # << >> => w[Len(w)] = u[Len(u)]
<1>. DEFINE v == t \o <<op>>
            w == v \o u
<1>1. Len(t) \in Nat /\ Len(u) \in Nat
    BY LenProperties
<1>2. <<op>> \in Seq(Tokens) /\ Len(<<op>>) = 1 /\ <<op>>[1] = op
    OBVIOUS
<1>3. v \in Seq(Tokens) /\ Len(v) = Len(t) + 1 /\ v[Len(t) + 1] = op
    BY <1>1, <1>2, ConcatProperties
<1>. HIDE DEF v
<1>4. /\ w \in Seq(Tokens) /\ Len(w) = Len(v) + Len(u)
      /\ \A i \in 1..(Len(v) + Len(u)) : w[i] = IF i <= Len(v) THEN v[i] ELSE u[i - Len(v)]
    BY <1>3, ConcatProperties
<1>. HIDE DEF w
<1>5. Len(w) \in 1..(Len(v) + Len(u)) /\ Len(w) # 0
    BY <1>1, <1>3, <1>4
<1>6. w # << >>
    BY <1>5, EmptyAny
<1>7. u = << >> => w[Len(w)] = op
    <2>1. u = << >> => Len(u) = 0
        BY EmptyAny
    <2>. QED BY <1>1, <1>3, <1>4, <1>5, <2>1
<1>8. u # << >> => w[Len(w)] = u[Len(u)]
    <2>1. u # << >> => Len(u) # 0
        BY EmptySeq
    <2>. QED BY <1>1, <1>3, <1>4, <1>5, <2>1
<1>. QED BY <1>4, <1>6, <1>7, <1>8 DEF w, v

\* An item, a word and nothing at all.
LEMMA SimpleOperands ==
    ReadsOperand(<<"item">>, Item) /\ ReadsOperand(<<"word">>, Nil) /\ ReadsOperand(<< >>, Nil)
<1>1. /\ <<"item">> \in Seq(Tokens) /\ <<"word">> \in Seq(Tokens) /\ << >> \in Seq(Tokens)
      /\ Len(<<"item">>) = 1 /\ Len(<<"word">>) = 1 /\ Len(<< >>) = 0
      /\ <<"item">>[1] = "item" /\ <<"word">>[1] = "word"
    BY DEF Tokens, Texts
<1>2. ASSUME NEW s \in Seq(Tokens), NEW p \in Nat \ {0}, NEW t, Len(t) = 1, Holds(s, p, t)
      PROVE  p <= Len(s) /\ s[p] = t[1]
    <2>1. Len(s) \in Nat /\ 1 \in 1..Len(t) /\ p + 1 - 1 = p
        BY <1>2, LenProperties
    <2>. QED BY <1>2, <2>1 DEF Holds
<1>3. ASSUME NEW s \in Seq(Tokens), NEW p \in Nat \ {0}, NEW st, NEW k, NEW kids, NEW ops,
             st \in Seq(Range(st)), Holds(s, p, <<"item">>)
      PROVE  Leads(s, Moment("operand", Append(st, Loop(k, kids, ops)), p),
                      Moment("operator", Append(st, Loop(k, Append(kids, Item), ops)), p + 1))
    <2>1. p <= Len(s) /\ s[p] = "item"
        BY <1>1, <1>2, <1>3
    <2>2. Move(s, Moment("operand", Append(st, Loop(k, kids, ops)), p))
            = Moment("operator", Append(st, Loop(k, Append(kids, Item), ops)), p + 1)
        BY <1>3, <2>1, MovesOperand
    <2>. QED BY <2>2, LeadsOn, Zenon
<1>4. ASSUME NEW s \in Seq(Tokens), NEW p \in Nat \ {0}, NEW st, NEW k, NEW kids, NEW ops,
             st \in Seq(Range(st)), Holds(s, p, <<"word">>)
      PROVE  Leads(s, Moment("operand", Append(st, Loop(k, kids, ops)), p),
                      Moment("operator", Append(st, Loop(k, Append(kids, Nil), ops)), p + 1))
    <2>1. p <= Len(s) /\ s[p] = "word"
        BY <1>1, <1>2, <1>4
    <2>2. Move(s, Moment("operand", Append(st, Loop(k, kids, ops)), p))
            = Moment("operator", Append(st, Loop(k, Append(kids, Nil), ops)), p + 1)
        BY <1>4, <2>1, MovesOperand
    <2>. QED BY <2>2, LeadsOn, Zenon
<1>5. ASSUME NEW s \in Seq(Tokens), NEW p \in Nat \ {0}, NEW st, NEW k, NEW kids, NEW ops,
             st \in Seq(Range(st)), Followed(s, p)
      PROVE  Leads(s, Moment("operand", Append(st, Loop(k, kids, ops)), p),
                      Moment("operator", Append(st, Loop(k, Append(kids, Nil), ops)), p + 0))
    <2>1. Move(s, Moment("operand", Append(st, Loop(k, kids, ops)), p))
            = Moment("operator", Append(st, Loop(k, Append(kids, Nil), ops)), p)
        BY <1>5, MovesOperand
    <2>2. p + 0 = p
        OBVIOUS
    <2>. QED BY <2>1, <2>2, LeadsOn, Zenon
<1>6. ReadsOperand(<<"item">>, Item)
    BY <1>1, <1>3, Zenon DEF ReadsOperand
<1>7. ReadsOperand(<<"word">>, Nil)
    BY <1>1, <1>4, Zenon DEF ReadsOperand
<1>8. ReadsOperand(<< >>, Nil)
    BY <1>1, <1>5, Zenon DEF ReadsOperand
<1>. QED BY <1>6, <1>7, <1>8

\* An operand is a chain.
LEMMA ChainOfOne ==
    ASSUME NEW t, NEW r, ReadsOperand(t, r)
    PROVE  ReadsChain(t, <<r>>, << >>)
<1>1. t \in Seq(Tokens) /\ <<r>> \in Seq(Range(<<r>>)) /\ << >> \in Seq(Operators)
    BY SingletonAny DEF ReadsOperand
<1>2. << >> \in Seq(Range(<< >>)) /\ Append(<< >>, r) = <<r>>
    BY EmptyAny
<1>3. ASSUME NEW s \in Seq(Tokens), NEW p \in Nat \ {0}, NEW k \in {"(", "expression"}, NEW st,
             st \in Seq(Range(st)), Holds(s, p, t), Opens(t) => Followed(s, p + Len(t))
      PROVE  Leads(s, Moment("operand", Append(st, Frame(k)), p),
                      Moment("operator", Append(st, Loop(k, <<r>>, << >>)), p + Len(t)))
    <2>1. t = << >> => Followed(s, p)
        <3>1. t = << >> => p + Len(t) = p
            BY EmptyAny
        <3>. QED BY <1>3, <3>1, Zenon DEF Opens
    <2>2. Frame(k) = Loop(k, << >>, << >>)
        BY DEF Frame, Loop
    <2>3. Leads(s, Moment("operand", Append(st, Loop(k, << >>, << >>)), p),
                   Moment("operator", Append(st, Loop(k, Append(<< >>, r), << >>)), p + Len(t)))
        BY <1>2, <1>3, <2>1, Zenon DEF ReadsOperand
    <2>. QED BY <1>2, <2>2, <2>3, Zenon
<1>. QED BY <1>1, <1>3, Zenon DEF ReadsChain

\* A chain, an operator and an operand are a chain.
LEMMA ChainOfMore ==
    ASSUME NEW t, NEW kids, NEW ops, ReadsChain(t, kids, ops), NEW op \in Operators,
           NEW u, NEW r, ReadsOperand(u, r)
    PROVE  ReadsChain((t \o <<op>>) \o u, Append(kids, r), Append(ops, op))
<1>. DEFINE w == (t \o <<op>>) \o u
<1>1. /\ t \in Seq(Tokens) /\ u \in Seq(Tokens) /\ op \in Tokens
      /\ kids \in Seq(Range(kids)) /\ ops \in Seq(Operators)
    BY DEF ReadsChain, ReadsOperand, Tokens
<1>2. Append(kids, r) \in Seq(Range(Append(kids, r))) /\ Append(ops, op) \in Seq(Operators)
    BY <1>1, AppendAny
<1>3. w \in Seq(Tokens)
    BY <1>1, OpensParts
<1>4. ASSUME NEW s \in Seq(Tokens), NEW p \in Nat \ {0}, NEW k \in {"(", "expression"}, NEW st,
             st \in Seq(Range(st)), Holds(s, p, w), Opens(w) => Followed(s, p + Len(w))
      PROVE  Leads(s, Moment("operand", Append(st, Frame(k)), p),
                      Moment("operator", Append(st, Loop(k, Append(kids, r), Append(ops, op))), p + Len(w)))
    <2>. DEFINE q == p + Len(t)
                c1 == Moment("operator", Append(st, Loop(k, kids, ops)), q)
                c2 == Moment("operand", Append(st, Loop(k, kids, Append(ops, op))), q + 1)
                c3 == Moment("operator", Append(st, Loop(k, Append(kids, r), Append(ops, op))), (q + 1) + Len(u))
    <2>1. /\ Holds(s, p, t) /\ p + Len(t) <= Len(s) /\ s[p + Len(t)] = op
          /\ Holds(s, p + Len(t) + 1, u)
          /\ Len(w) = Len(t) + 1 + Len(u)
        BY <1>1, <1>4, HoldsParts
    <2>2. Len(t) \in Nat /\ Len(u) \in Nat
        BY <1>1, LenProperties
    <2>. HIDE DEF w
    <2>3. q \in Nat \ {0} /\ q + 1 \in Nat \ {0} /\ (q + 1) + Len(u) = p + Len(w)
        BY <2>1, <2>2
    <2>4. Followed(s, q)
        BY <2>1 DEF Followed
    <2>5. Leads(s, Moment("operand", Append(st, Frame(k)), p), c1)
        BY <1>4, <2>1, <2>4, Zenon DEF ReadsChain
    <2>6. Leads(s, c1, c2)
        <3>. HIDE DEF q
        <3>1. s[q] = op /\ q <= Len(s)
            BY <2>1 DEF q
        <3>. QED BY <1>4, <2>3, <3>1, MovesOn
    <2>7. u = << >> => Followed(s, q + 1)
        <3>. SUFFICES ASSUME u = << >> PROVE Followed(s, q + 1)
            OBVIOUS
        <3>1. Len(u) = 0
            BY EmptyAny
        <3>2. p + Len(w) = q + 1
            BY <2>2, <2>3, <3>1
        <3>3. Opens(w)
            BY <1>1, OpensParts DEF Opens, w
        <3>. QED BY <1>4, <3>2, <3>3, Zenon
    <2>8. Leads(s, c2, c3)
        <3>. HIDE DEF q
        <3>1. Holds(s, q + 1, u)
            BY <2>1 DEF q
        <3>. QED BY <1>1, <1>4, <2>3, <2>7, <3>1, Zenon DEF ReadsOperand
    <2>9. Leads(s, Moment("operand", Append(st, Frame(k)), p), c3)
        <3>. HIDE DEF c1, c2, c3
        <3>. QED BY <2>5, <2>6, <2>8, LeadsOn, Zenon
    <2>. QED BY <2>3, <2>9
<1>. HIDE DEF w
<1>5. ReadsChain(w, Append(kids, r), Append(ops, op))
    BY <1>2, <1>3, <1>4, Zenon DEF ReadsChain
<1>. QED BY <1>5 DEF w

\* A chain in parentheses is an operand.
LEMMA HoldsInside ==
    ASSUME NEW s \in Seq(Tokens), NEW p \in Nat \ {0}, NEW t \in Seq(Tokens),
           Holds(s, p, (<<"(">> \o t) \o <<")">>)
    PROVE  /\ p <= Len(s) /\ s[p] = "("
           /\ Holds(s, p + 1, t)
           /\ p + 1 + Len(t) <= Len(s) /\ s[p + 1 + Len(t)] = ")"
           /\ Len((<<"(">> \o t) \o <<")">>) = Len(t) + 2
<1>. DEFINE v == <<"(">> \o t
            w == v \o <<")">>
<1>1. Len(t) \in Nat /\ Len(s) \in Nat
    BY LenProperties
<1>2. /\ <<"(">> \in Seq(Tokens) /\ Len(<<"(">>) = 1 /\ <<"(">>[1] = "("
      /\ <<")">> \in Seq(Tokens) /\ Len(<<")">>) = 1 /\ <<")">>[1] = ")"
    BY DEF Tokens
<1>3. /\ v \in Seq(Tokens) /\ Len(v) = 1 + Len(t)
      /\ v[1] = "("
      /\ \A i \in 1..Len(t) : v[i + 1] = t[i]
    <2>1. /\ v \in Seq(Tokens) /\ Len(v) = 1 + Len(t)
          /\ \A i \in 1..(1 + Len(t)) : v[i] = IF i <= 1 THEN <<"(">>[i] ELSE t[i - 1]
        BY <1>2, ConcatProperties
    <2>2. 1 \in 1..(1 + Len(t)) /\ \A i \in 1..Len(t) : i + 1 \in 1..(1 + Len(t)) /\ ~(i + 1 <= 1) /\ (i + 1) - 1 = i
        BY <1>1
    <2>. HIDE DEF v
    <2>. QED BY <1>2, <2>1, <2>2
<1>. HIDE DEF v
<1>4. /\ Len(w) = Len(t) + 2
      /\ \A i \in 1..Len(v) : w[i] = v[i]
      /\ w[Len(t) + 2] = ")"
    <2>1. /\ Len(w) = Len(v) + 1
          /\ \A i \in 1..(Len(v) + 1) : w[i] = IF i <= Len(v) THEN v[i] ELSE <<")">>[i - Len(v)]
        BY <1>2, <1>3, ConcatProperties
    <2>2. /\ Len(t) + 2 \in 1..(Len(v) + 1) /\ ~(Len(t) + 2 <= Len(v)) /\ Len(t) + 2 - Len(v) = 1
          /\ \A i \in 1..Len(v) : i \in 1..(Len(v) + 1) /\ i <= Len(v)
        BY <1>1, <1>3
    <2>. HIDE DEF w
    <2>. QED BY <1>1, <1>2, <1>3, <2>1, <2>2
<1>5. p + Len(w) <= Len(s) + 1 /\ \A i \in 1..Len(w) : s[p + i - 1] = w[i]
    BY DEF Holds, v
<1>. HIDE DEF w
<1>6. p <= Len(s) /\ s[p] = "("
    <2>1. 1 \in 1..Len(w) /\ 1 \in 1..Len(v) /\ p + 1 - 1 = p
        BY <1>1, <1>3, <1>4
    <2>. QED BY <1>1, <1>3, <1>4, <1>5, <2>1
<1>7. Holds(s, p + 1, t)
    <2>1. ASSUME NEW i \in 1..Len(t) PROVE s[(p + 1) + i - 1] = t[i]
        <3>1. i + 1 \in 1..Len(w) /\ i + 1 \in 1..Len(v) /\ p + (i + 1) - 1 = (p + 1) + i - 1
            BY <1>1, <1>3, <1>4
        <3>2. s[p + (i + 1) - 1] = w[i + 1]
            BY <1>5, <3>1
        <3>. QED BY <1>3, <1>4, <3>1, <3>2
    <2>2. (p + 1) + Len(t) <= Len(s) + 1
        BY <1>1, <1>4, <1>5
    <2>. QED BY <2>1, <2>2 DEF Holds
<1>8. p + 1 + Len(t) <= Len(s) /\ s[p + 1 + Len(t)] = ")"
    <2>1. Len(t) + 2 \in 1..Len(w) /\ p + (Len(t) + 2) - 1 = p + 1 + Len(t)
        BY <1>1, <1>4
    <2>2. p + 1 + Len(t) <= Len(s)
        BY <1>1, <1>4, <1>5
    <2>. QED BY <1>4, <1>5, <2>1, <2>2
<1>. QED BY <1>4, <1>6, <1>7, <1>8 DEF w, v

LEMMA OperandOfChain ==
    ASSUME NEW t, NEW kids, NEW ops, ReadsChain(t, kids, ops), NEW r,
           \/ ops = << >> /\ kids[1] # Nil /\ r = WithParen(kids[1])
           \/ ops # << >> /\ ~Mixed(ops) /\ r = Combined(kids, ops, TRUE)
    PROVE  ReadsOperand((<<"(">> \o t) \o <<")">>, r)
<1>. DEFINE w == (<<"(">> \o t) \o <<")">>
<1>1. t \in Seq(Tokens)
    BY DEF ReadsChain
<1>2. w \in Seq(Tokens)
    <2>1. <<"(">> \in Seq(Tokens) /\ <<")">> \in Seq(Tokens)
        BY DEF Tokens
    <2>. QED BY <1>1, <2>1, ConcatProperties
<1>3. ASSUME NEW s \in Seq(Tokens), NEW p \in Nat \ {0}, NEW st, NEW k, NEW ks, NEW os,
             st \in Seq(Range(st)), Holds(s, p, w)
      PROVE  Leads(s, Moment("operand", Append(st, Loop(k, ks, os)), p),
                      Moment("operator", Append(st, Loop(k, Append(ks, r), os)), p + Len(w)))
    <2>. DEFINE q  == p + 1
                a  == Append(st, Loop(k, ks, os))
                c1 == Moment("operand", a, p)
                c2 == Moment("operand", Append(a, Frame("(")), q)
                c3 == Moment("operator", Append(a, Loop("(", kids, ops)), q + Len(t))
                c4 == Moment("operator", WithKid(a, r), (q + Len(t)) + 1)
    <2>1. /\ p <= Len(s) /\ s[p] = "("
          /\ Holds(s, q, t)
          /\ q + Len(t) <= Len(s) /\ s[q + Len(t)] = ")"
          /\ Len(w) = Len(t) + 2
        BY <1>1, <1>3, HoldsInside
    <2>2. Len(t) \in Nat
        BY <1>1, LenProperties
    <2>. HIDE DEF w
    <2>3. q \in Nat \ {0} /\ q + Len(t) \in Nat \ {0} /\ (q + Len(t)) + 1 = p + Len(w)
        BY <2>1, <2>2
    <2>4. a \in Seq(Range(a)) /\ WithKid(a, r) = Append(st, Loop(k, Append(ks, r), os))
        BY <1>3, InnermostLoop
    <2>5. Leads(s, c1, c2)
        <3>1. Move(s, c1) = c2
            BY <1>3, <2>1, MovesOperand
        <3>. QED BY <3>1, LeadsOn, Zenon
    <2>. HIDE DEF a, q
    <2>6. Leads(s, c2, c3)
        <3>1. Followed(s, q + Len(t))
            BY <2>1 DEF Followed
        <3>2. "(" \in {"(", "expression"}
            OBVIOUS
        <3>. QED BY <1>3, <2>1, <2>3, <2>4, <3>1, <3>2, Zenon DEF ReadsChain
    <2>7. Leads(s, c3, c4)
        BY <1>3, <2>1, <2>3, <2>4, MovesOut
    <2>8. Leads(s, c1, c4)
        <3>. HIDE DEF c1, c2, c3, c4
        <3>. QED BY <2>5, <2>6, <2>7, LeadsOn, Zenon
    <2>. QED BY <2>3, <2>4, <2>8 DEF a
<1>. HIDE DEF w
<1>4. ReadsOperand(w, r)
    BY <1>2, <1>3, Zenon DEF ReadsOperand
<1>. QED BY <1>4 DEF w

-----------------------------------------------------------------------------
(* What is derived is what the moves come to                               *)

\* The productions hold of what the moves read.
LEMMA ReadsClosed ==
    \E O, C : /\ Productions(O, C)
              /\ \A t, r : <<t, r>> \in O => ReadsOperand(t, r)
              /\ \A t, kids, ops : <<t, kids, ops>> \in C => ReadsChain(t, kids, ops)
<1>1. PICK O1, C1 : Productions(O1, C1)
    BY DerivationsExist
<1>. DEFINE O == {x \in O1 : ReadsOperand(x[1], x[2])}
            C == {x \in C1 : ReadsChain(x[1], x[2], x[3])}
<1>2. ASSUME NEW t, NEW r PROVE <<t, r>> \in O <=> <<t, r>> \in O1 /\ ReadsOperand(t, r)
    <2>1. <<t, r>>[1] = t /\ <<t, r>>[2] = r
        OBVIOUS
    <2>. QED BY <2>1, Zenon
<1>3. ASSUME NEW t, NEW kids, NEW ops
      PROVE  <<t, kids, ops>> \in C <=> <<t, kids, ops>> \in C1 /\ ReadsChain(t, kids, ops)
    <2>1. <<t, kids, ops>>[1] = t /\ <<t, kids, ops>>[2] = kids /\ <<t, kids, ops>>[3] = ops
        OBVIOUS
    <2>. QED BY <2>1, Zenon
<1>. HIDE DEF O, C
<1>4. {<< <<"item">>, Item >>, << <<"word">>, Nil >>, << << >>, Nil >>} \subseteq O
    <2>1. << <<"item">>, Item >> \in O1 /\ << <<"word">>, Nil >> \in O1 /\ << << >>, Nil >> \in O1
        BY <1>1, Zenon DEF Productions
    <2>2. << <<"item">>, Item >> \in O /\ << <<"word">>, Nil >> \in O /\ << << >>, Nil >> \in O
        BY <1>2, <2>1, SimpleOperands, Zenon
    <2>. QED BY <2>2, Zenon
<1>5. ASSUME NEW t, NEW r, <<t, r>> \in O PROVE <<t, <<r>>, << >> >> \in C
    <2>1. <<t, r>> \in O1 /\ ReadsOperand(t, r)
        BY <1>2, <1>5, Zenon
    <2>2. <<t, <<r>>, << >> >> \in C1
        BY <1>1, <2>1, Zenon DEF Productions
    <2>3. ReadsChain(t, <<r>>, << >>)
        BY <2>1, ChainOfOne, Zenon
    <2>. QED BY <1>3, <2>2, <2>3, Zenon
<1>6. ASSUME NEW t, NEW u, NEW kids, NEW ops, NEW r, NEW op \in Operators,
             <<t, kids, ops>> \in C, <<u, r>> \in O
      PROVE  <<(t \o <<op>>) \o u, Append(kids, r), Append(ops, op)>> \in C
    <2>1. /\ <<t, kids, ops>> \in C1 /\ ReadsChain(t, kids, ops)
          /\ <<u, r>> \in O1 /\ ReadsOperand(u, r)
        BY <1>2, <1>3, <1>6, Zenon
    <2>2. <<(t \o <<op>>) \o u, Append(kids, r), Append(ops, op)>> \in C1
        BY <1>1, <1>6, <2>1, Zenon DEF Productions
    <2>3. ReadsChain((t \o <<op>>) \o u, Append(kids, r), Append(ops, op))
        BY <1>6, <2>1, ChainOfMore, Zenon
    <2>. QED BY <1>3, <2>2, <2>3, Zenon
<1>7. ASSUME NEW t, NEW kids, NEW ops, NEW r, <<t, kids, ops>> \in C,
             \/ ops = << >> /\ kids[1] # Nil /\ r = WithParen(kids[1])
             \/ ops # << >> /\ ~Mixed(ops) /\ r = Combined(kids, ops, TRUE)
      PROVE  <<(<<"(">> \o t) \o <<")">>, r>> \in O
    <2>1. <<t, kids, ops>> \in C1 /\ ReadsChain(t, kids, ops)
        BY <1>3, <1>7, Zenon
    <2>2. <<(<<"(">> \o t) \o <<")">>, r>> \in O1
        BY <1>1, <1>7, <2>1, Zenon DEF Productions
    <2>3. ReadsOperand((<<"(">> \o t) \o <<")">>, r)
        BY <1>7, <2>1, OperandOfChain, Zenon
    <2>. QED BY <1>2, <2>2, <2>3, Zenon
<1>8. Productions(O, C)
    BY <1>4, <1>5, <1>6, <1>7, Zenon DEF Productions
<1>. QED BY <1>2, <1>3, <1>8, Zenon

\* A list that starts a loop of its own.
LEMMA HoldsWhole ==
    ASSUME NEW s \in Seq(Tokens), NEW n \in 0..Len(s)
    PROVE  /\ Holds(s, 1, SubSeq(s, 1, n)) /\ SubSeq(s, 1, n) \in Seq(Tokens)
           /\ Len(SubSeq(s, 1, n)) = n /\ (n > 0 => SubSeq(s, 1, n) # << >>)
<1>. DEFINE t == SubSeq(s, 1, n)
<1>1. Len(s) \in Nat /\ \A i \in 1..n : i \in 1..Len(s) /\ s[i] \in Tokens
    BY LenProperties, ElementOfSeq
<1>2. /\ t \in Seq(Tokens) /\ Len(t) = IF 1 <= n THEN n - 1 + 1 ELSE 0
      /\ \A i \in 1..(n - 1 + 1) : t[i] = s[1 + i - 1]
    <2>1. n \in Int /\ \A i \in 1..n : s[i] \in Tokens
        BY <1>1
    <2>. QED BY <2>1, SubSeqProperties
<1>. HIDE DEF t
<1>3. Len(t) = n
    BY <1>1, <1>2
<1>4. Holds(s, 1, t)
    <2>1. 1 + Len(t) <= Len(s) + 1
        BY <1>1, <1>3
    <2>2. \A i \in 1..n : t[i] = s[1 + i - 1]
        BY <1>1, <1>2
    <2>. QED BY <1>3, <2>1, <2>2 DEF Holds
<1>5. n > 0 => t # << >>
    BY <1>3, EmptyAny
<1>. QED BY <1>2, <1>3, <1>4, <1>5 DEF t

\* What is derived is the outcome of the moves from where Start leaves the parser.
LEMMA DerivedIsReached ==
    ASSUME NEW e \in Entries, NEW s \in Seq(Tokens), NEW r, Derived(e, s, r)
    PROVE  Leads(s, Moment("operand", <<Frame(e)>>, 1), Outcome("done", r))
<1>1. PICK O, C : /\ Productions(O, C)
                  /\ \A t, x : <<t, x>> \in O => ReadsOperand(t, x)
                  /\ \A t, kids, ops : <<t, kids, ops>> \in C => ReadsChain(t, kids, ops)
    BY ReadsClosed
<1>. DEFINE st0 == << >>
<1>2. /\ st0 \in Seq(Range(st0)) /\ Append(st0, Frame(e)) = <<Frame(e)>>
      /\ Frame(e) = Loop(e, << >>, << >>) /\ 1 \in Nat \ {0}
    BY EmptyAny DEF Frame, Loop
<1>. HIDE DEF st0
<1>3. Len(s) \in Nat /\ s # << >> /\ Len(s) > 0 /\ Len(s) + 1 > Len(s)
    <2>1. s # << >>
        BY DEF Derived
    <2>. QED BY <2>1, EmptySeq, LenProperties
<1>4. Holds(s, 1, s)
    <2>1. SubSeq(s, 1, Len(s)) = s
        BY SubSeqFull
    <2>2. Len(s) \in 0..Len(s)
        BY <1>3
    <2>. QED BY <2>1, <2>2, HoldsWhole
<1>5. ASSUME NEW k, NEW kids, NEW ops, NEW p, NEW x, MoveReturn(s, Loop(k, kids, ops), p) = x,
             p > Len(s) \/ k \notin {"(", "expression"}
      PROVE  Leads(s, Moment("operator", Append(st0, Loop(k, kids, ops)), p), x)
    <2>. DEFINE a == Append(st0, Loop(k, kids, ops))
    <2>1. a[Len(a)] = Loop(k, kids, ops)
        BY <1>2, InnermostLoop
    <2>2. Chained(Loop(k, kids, ops)) <=> k \in {"(", "expression"}
        BY DEF Chained, Loop
    <2>. HIDE DEF a
    <2>3. Move(s, Moment("operator", a, p)) = MoveOperator(s, a, p)
        BY DEF Move, Moment
    <2>4. MoveOperator(s, a, p) = x
        BY <1>5, <2>1, <2>2 DEF MoveOperator
    <2>. QED BY <2>3, <2>4, LeadsOn, Zenon DEF a
<1>6. CASE e = "expression"
    <2>1. PICK kids, ops : <<s, kids, ops>> \in C /\ ~Mixed(ops) /\ r = Combined(kids, ops, FALSE)
        BY <1>1, <1>6, Zenon DEF Derived
    <2>2. ~Opens(s)
        BY <1>3, <1>6 DEF Derived, Opens
    <2>3. Leads(s, Moment("operand", Append(st0, Frame(e)), 1),
                   Moment("operator", Append(st0, Loop(e, kids, ops)), 1 + Len(s)))
        <3>1. ReadsChain(s, kids, ops) /\ e \in {"(", "expression"}
            BY <1>1, <1>6, <2>1
        <3>. QED BY <1>2, <1>4, <2>2, <3>1, Zenon DEF ReadsChain
    <2>. DEFINE f == Loop(e, kids, ops)
    <2>4. f.kind = "expression" /\ f.kids = kids /\ f.ops = ops
        BY <1>6 DEF Loop
    <2>. HIDE DEF f
    <2>5. MoveReturn(s, f, 1 + Len(s)) = Outcome("done", r)
        <3>1. 1 + Len(s) > Len(s)
            BY <1>3
        <3>. QED BY <2>1, <2>4, <3>1, Zenon DEF MoveReturn
    <2>6. Leads(s, Moment("operator", Append(st0, Loop(e, kids, ops)), 1 + Len(s)), Outcome("done", r))
        <3>1. 1 + Len(s) > Len(s)
            BY <1>3
        <3>. QED BY <1>5, <2>5, <3>1 DEF f
    <2>. QED BY <1>2, <2>3, <2>6, LeadsOn, Zenon
<1>7. ASSUME NEW t, ReadsOperand(t, r), Holds(s, 1, t), t # << >>,
             e = "group" \/ (e = "tokens" /\ t = s)
      PROVE  Leads(s, Moment("operand", <<Frame(e)>>, 1), Outcome("done", r))
    <2>1. Leads(s, Moment("operand", Append(st0, Loop(e, << >>, << >>)), 1),
                   Moment("operator", Append(st0, Loop(e, Append(<< >>, r), << >>)), 1 + Len(t)))
        <3>1. << >> \in Seq(Range(<< >>))
            BY EmptyAny
        <3>. QED BY <1>2, <1>7, <3>1, Zenon DEF ReadsOperand
    <2>. DEFINE f == Loop(e, Append(<< >>, r), << >>)
    <2>2. f.kind = e /\ f.kids[1] = r
        <3>1. Append(<< >>, r) = <<r>> /\ <<r>>[1] = r
            OBVIOUS
        <3>. QED BY <3>1 DEF Loop
    <2>. HIDE DEF f
    <2>3. MoveReturn(s, f, 1 + Len(t)) = Outcome("done", r)
        <3>1. e = "tokens" => 1 + Len(t) > Len(s) /\ e # "group"
            BY <1>3, <1>7
        <3>2. e # "expression"
            BY <1>7
        <3>. QED BY <1>7, <2>2, <3>1, <3>2 DEF MoveReturn
    <2>4. Leads(s, Moment("operator", Append(st0, Loop(e, Append(<< >>, r), << >>)), 1 + Len(t)), Outcome("done", r))
        <3>1. e \notin {"(", "expression"}
            BY <1>7
        <3>. QED BY <1>5, <2>3, <3>1 DEF f
    <2>. QED BY <1>2, <2>1, <2>4, LeadsOn, Zenon
<1>8. CASE e = "tokens"
    <2>1. <<s, r>> \in O
        BY <1>1, <1>8, Zenon DEF Derived
    <2>. QED BY <1>1, <1>3, <1>4, <1>7, <1>8, <2>1, Zenon
<1>9. CASE e = "group"
    <2>1. PICK n \in 1..Len(s) : <<SubSeq(s, 1, n), r>> \in O
        BY <1>1, <1>9, Zenon DEF Derived
    <2>2. n \in 0..Len(s) /\ n > 0
        BY <1>3
    <2>3. Holds(s, 1, SubSeq(s, 1, n)) /\ SubSeq(s, 1, n) # << >>
        BY <2>2, HoldsWhole
    <2>. QED BY <1>1, <1>7, <1>9, <2>1, <2>3, Zenon
<1>. QED BY <1>6, <1>8, <1>9 DEF Entries

-----------------------------------------------------------------------------
(* The parser makes these moves                                            *)

\* s is a list the parser may be reading: what was drawn, and what may still be.
Extends(s) ==
    /\ s \in Seq(Tokens) /\ Len(input) <= Len(s)
    /\ \A i \in 1..Len(input) : s[i] = input[i]
    /\ ended => s = input

\* A list that is derived is accepted, with the rule derived for it; so that what the
\* parser refuses, or faults on, has no derivation, and no list has two rules.
DerivedIsAccepted ==
    mode \in Final =>
        \A s, r : Extends(s) /\ Derived(entry, s, r) => mode = "done" /\ result = r

\* What is derived lies ahead.
OnTheWay ==
    mode # "start" =>
        \A s, r : Extends(s) /\ Derived(entry, s, r) => Leads(s, Now, Outcome("done", r))

LEMMA StepMoves ==
    ASSUME IInv, mode # "start", Step, NEW s, Extends(s)
    PROVE  /\ Now' = Move(s, Now) /\ mode' # "start"
           /\ \A r : Now # Outcome("done", r)
<1>1. /\ s \in Seq(Tokens) /\ Len(s) \in Nat /\ Len(input) \in Nat /\ pos \in 1..(Len(input) + 1)
      /\ Len(input) <= Len(s) /\ input \in Seq(Tokens)
    BY LenProperties DEF IInv, TypeOK, Extends
<1>2. /\ mode \in {"operand", "operator"} /\ ~Starved
      /\ mode \notin Final
    BY DEF Step, Start, OpenGroup, Operand, NoOperand, Operator, CloseGroup, Unexpected, Return, Ready, Final
<1>3. /\ AtEnd <=> pos > Len(s)
      /\ ~AtEnd => s[pos] = input[pos]
    <2>1. ended \/ ~(pos > Len(input))
        BY <1>2 DEF Starved
    <2>2. CASE ended
        BY <2>2 DEF Extends, AtEnd
    <2>3. CASE ~(pos > Len(input))
        <3>1. pos \in 1..Len(input) /\ ~(pos > Len(s))
            BY <1>1, <2>3
        <3>. QED BY <2>3, <3>1 DEF Extends, AtEnd
    <2>. QED BY <2>1, <2>2, <2>3
<1>4. Now = Moment(mode, stack, pos)
    BY <1>2 DEF Now
<1>5. \A r : Now # Outcome("done", r)
    BY <1>2, <1>4 DEF Moment, Outcome
<1>6. /\ mode = "operand" => Move(s, Now) = MoveOperand(s, stack, pos)
      /\ mode = "operator" => Move(s, Now) = MoveOperator(s, stack, pos)
    BY <1>4 DEF Move, Moment
<1>7. ASSUME NEW m \in Final, NEW r, Finish(m, r) PROVE Now' = Outcome(m, r) /\ mode' # "start"
    BY <1>7 DEF Finish, Now, Final
<1>8. ASSUME NEW m \in {"operand", "operator"}, NEW st, NEW p, mode' = m, stack' = st, pos' = p
      PROVE  Now' = Moment(m, st, p) /\ mode' # "start"
    BY <1>8 DEF Now, Final
<1>9. ASSUME NEW st, NEW r, NEW p, Deliver(st, r, p) PROVE Now' = Moment("operator", WithKid(st, r), p) /\ mode' # "start"
    BY <1>8, <1>9 DEF Deliver, WithKid
<1>10. Fail => Now' = Outcome("error", Nil) /\ mode' # "start"
    BY <1>7 DEF Fail, Final
<1>11. Panic => Now' = Outcome("panic", Nil) /\ mode' # "start"
    BY <1>7 DEF Panic, Final
<1>12. ")" \notin Operators /\ "(" \notin Operators
    BY DEF Operators
<1>13. CASE OpenGroup
    <2>1. MoveOperand(s, stack, pos) = Moment("operand", Append(stack, Frame("(")), pos + 1)
        BY <1>3, <1>13 DEF OpenGroup, MoveOperand
    <2>2. Now' = Moment("operand", Append(stack, Frame("(")), pos + 1) /\ mode' # "start"
        BY <1>8, <1>13 DEF OpenGroup, Ready
    <2>. QED BY <1>5, <1>6, <1>13, <2>1, <2>2 DEF OpenGroup, Ready
<1>14. CASE Operand
    <2>0. mode = "operand" /\ ~AtEnd /\ ~(pos > Len(s)) /\ input[pos] # "(" /\ s[pos] = input[pos]
        BY <1>3, <1>14 DEF Operand, Ready
    <2>1. CASE input[pos] = "item" /\ Deliver(stack, Item, pos + 1)
        <3>1. MoveOperand(s, stack, pos) = Moment("operator", WithKid(stack, Item), pos + 1)
            BY <2>0, <2>1 DEF MoveOperand
        <3>. QED BY <1>5, <1>6, <1>9, <2>0, <2>1, <3>1
    <2>2. CASE input[pos] = "word" /\ Deliver(stack, Nil, pos + 1)
        <3>1. MoveOperand(s, stack, pos) = Moment("operator", WithKid(stack, Nil), pos + 1)
            BY <2>0, <2>2 DEF MoveOperand
        <3>. QED BY <1>5, <1>6, <1>9, <2>0, <2>2, <3>1
    <2>3. CASE input[pos] = "junk" /\ Fail
        <3>1. MoveOperand(s, stack, pos) = Outcome("error", Nil)
            BY <2>0, <2>3 DEF MoveOperand
        <3>. QED BY <1>5, <1>6, <1>10, <2>0, <2>3, <3>1
    <2>4. CASE input[pos] \notin {"item", "word", "junk"} /\ Deliver(stack, Nil, pos)
        <3>1. MoveOperand(s, stack, pos) = Moment("operator", WithKid(stack, Nil), pos)
            BY <2>0, <2>4 DEF MoveOperand
        <3>. QED BY <1>5, <1>6, <1>9, <2>0, <2>4, <3>1
    <2>. QED BY <1>14, <2>1, <2>2, <2>3, <2>4 DEF Operand
<1>15. CASE NoOperand
    <2>1. MoveOperand(s, stack, pos) = Outcome("error", Nil) /\ mode = "operand"
        BY <1>3, <1>15 DEF NoOperand, MoveOperand, Ready
    <2>. QED BY <1>5, <1>6, <1>10, <1>15, <2>1 DEF NoOperand
<1>16. CASE Operator
    <2>1. MoveOperator(s, stack, pos) = Moment("operand", WithOp(stack, input[pos]), pos + 1)
        BY <1>3, <1>16 DEF Operator, MoveOperator, Top, Chained
    <2>2. Now' = Moment("operand", WithOp(stack, input[pos]), pos + 1) /\ mode' # "start" /\ mode = "operator"
        BY <1>8, <1>16 DEF Operator, WithOp, Ready
    <2>. QED BY <1>5, <1>6, <2>1, <2>2
<1>17. CASE CloseGroup
    <2>1. /\ mode = "operator" /\ ~(pos > Len(s)) /\ s[pos] = ")" /\ Top.kind = "(" /\ Chained(Top)
          /\ Top = stack[Len(stack)]
        BY <1>3, <1>17 DEF CloseGroup, Ready, Chained, Top
    <2>2. CASE Top.ops = << >> /\ Top.kids[1] = Nil /\ Panic
        <3>1. MoveOperator(s, stack, pos) = Outcome("panic", Nil)
            BY <1>12, <2>1, <2>2 DEF MoveOperator
        <3>. QED BY <1>5, <1>6, <1>11, <2>1, <2>2, <3>1
    <2>3. CASE Top.ops = << >> /\ Top.kids[1] # Nil /\ Deliver(Front(stack), WithParen(Top.kids[1]), pos + 1)
        <3>1. MoveOperator(s, stack, pos) = Moment("operator", WithKid(Front(stack), WithParen(Top.kids[1])), pos + 1)
            BY <1>12, <2>1, <2>3 DEF MoveOperator
        <3>. QED BY <1>5, <1>6, <1>9, <2>1, <2>3, <3>1
    <2>4. CASE Top.ops # << >> /\ Mixed(Top.ops) /\ Fail
        <3>1. MoveOperator(s, stack, pos) = Outcome("error", Nil)
            BY <1>12, <2>1, <2>4 DEF MoveOperator
        <3>. QED BY <1>5, <1>6, <1>10, <2>1, <2>4, <3>1
    <2>5. CASE Top.ops # << >> /\ ~Mixed(Top.ops) /\ Deliver(Front(stack), Combined(Top.kids, Top.ops, TRUE), pos + 1)
        <3>1. MoveOperator(s, stack, pos) = Moment("operator", WithKid(Front(stack), Combined(Top.kids, Top.ops, TRUE)), pos + 1)
            BY <1>12, <2>1, <2>5 DEF MoveOperator
        <3>. QED BY <1>5, <1>6, <1>9, <2>1, <2>5, <3>1
    <2>. QED BY <1>17, <2>2, <2>3, <2>4, <2>5 DEF CloseGroup
<1>18. CASE Unexpected
    <2>1. mode = "operator" /\ Chained(Top) /\ Top = stack[Len(stack)]
        BY <1>18 DEF Unexpected, Ready, Chained, Top
    <2>2. MoveOperator(s, stack, pos) = Outcome("error", Nil)
        <3>1. CASE AtEnd
            <4>1. Top.kind = "(" /\ pos > Len(s)
                BY <1>3, <1>18, <3>1 DEF Unexpected
            <4>. QED BY <2>1, <4>1 DEF MoveOperator, MoveReturn
        <3>2. CASE ~AtEnd
            <4>1. s[pos] \notin Operators /\ (s[pos] # ")" \/ Top.kind # "(") /\ ~(pos > Len(s))
                BY <1>3, <1>18, <3>2 DEF Unexpected
            <4>. QED BY <2>1, <4>1 DEF MoveOperator
        <3>. QED BY <3>1, <3>2
    <2>. QED BY <1>5, <1>6, <1>10, <1>18, <2>1, <2>2 DEF Unexpected
<1>19. CASE Return
    <2>0. mode = "operator" /\ Top = stack[Len(stack)]
        BY <1>19 DEF Return, Ready, Top
    <2>1. CASE Top.kind = "expression" /\ AtEnd /\ IF Mixed(Top.ops) THEN Fail ELSE Finish("done", Combined(Top.kids, Top.ops, FALSE))
        <3>1. MoveOperator(s, stack, pos) = MoveReturn(s, Top, pos)
            BY <1>3, <2>0, <2>1 DEF MoveOperator
        <3>2. CASE Mixed(Top.ops) /\ Fail
            <4>1. MoveReturn(s, Top, pos) = Outcome("error", Nil)
                BY <2>1, <3>2 DEF MoveReturn
            <4>. QED BY <1>5, <1>6, <1>10, <2>0, <3>1, <3>2, <4>1
        <3>3. CASE ~Mixed(Top.ops) /\ Finish("done", Combined(Top.kids, Top.ops, FALSE))
            <4>1. MoveReturn(s, Top, pos) = Outcome("done", Combined(Top.kids, Top.ops, FALSE))
                BY <1>3, <2>1, <3>3 DEF MoveReturn
            <4>. QED BY <1>5, <1>6, <1>7, <2>0, <3>1, <3>3, <4>1 DEF Final
        <3>. QED BY <2>1, <3>2, <3>3
    <2>2. CASE Top.kind = "tokens" /\ IF AtEnd THEN Finish("done", Top.kids[1]) ELSE Fail
        <3>1. MoveOperator(s, stack, pos) = MoveReturn(s, Top, pos)
            BY <2>0, <2>2 DEF MoveOperator, Chained
        <3>2. CASE ~AtEnd /\ Fail
            <4>1. MoveReturn(s, Top, pos) = Outcome("error", Nil)
                BY <1>3, <2>2, <3>2 DEF MoveReturn
            <4>. QED BY <1>5, <1>6, <1>10, <2>0, <3>1, <3>2, <4>1
        <3>3. CASE AtEnd /\ Finish("done", Top.kids[1])
            <4>1. MoveReturn(s, Top, pos) = Outcome("done", Top.kids[1])
                BY <1>3, <2>2, <3>3 DEF MoveReturn
            <4>. QED BY <1>5, <1>6, <1>7, <2>0, <3>1, <3>3, <4>1 DEF Final
        <3>. QED BY <2>2, <3>2, <3>3
    <2>3. CASE Top.kind = "group" /\ Finish("done", Top.kids[1])
        <3>1. MoveOperator(s, stack, pos) = MoveReturn(s, Top, pos)
            BY <2>0, <2>3 DEF MoveOperator, Chained
        <3>2. MoveReturn(s, Top, pos) = Outcome("done", Top.kids[1])
            BY <2>3 DEF MoveReturn
        <3>. QED BY <1>5, <1>6, <1>7, <2>0, <2>3, <3>1, <3>2 DEF Final
    <2>. QED BY <1>19, <2>1, <2>2, <2>3 DEF Return
<1>20. ~Start
    BY DEF Start
<1>. QED BY <1>13, <1>14, <1>15, <1>16, <1>17, <1>18, <1>19, <1>20 DEF Step

\* Nothing that is derived is turned away at the entry.
LEMMA StartOnTheWay ==
    ASSUME IInv, Asked, Start
    PROVE  OnTheWay'
<1>. SUFFICES ASSUME NEW s, NEW r, Extends(s), Derived(entry, s, r)
              PROVE  Leads(s, Now', Outcome("done", r))
    BY DEF Start, Fail, Panic, Finish, OnTheWay, Extends
<1>1. /\ s \in Seq(Tokens) /\ input \in Seq(Tokens) /\ Len(input) \in Nat /\ Len(s) \in Nat
      /\ entry \in Entries /\ pos = 1 /\ mode = "start"
    BY LenProperties DEF Extends, IInv, TypeOK, Asked, Start
<1>2. Width(input) \in Nat
    <2>1. "(" \in Tokens
        BY DEF Tokens
    <2>. QED BY <1>1, <2>1, WidthOfAppend
<1>3. ended => s = input
    BY DEF Extends
<1>4. ~(entry = "expression" /\ Width(input) < 3)
    <2>1. Width(input) < 3 => ended
        BY <1>1 DEF Start, Starved, Final
    <2>2. entry = "expression" => Width(s) >= 3
        BY DEF Derived
    <2>. QED BY <1>2, <1>3, <2>1, <2>2
<1>5. ~(entry = "group" /\ input = << >>)
    <2>. SUFFICES ASSUME input = << >> PROVE FALSE
        OBVIOUS
    <2>1. Width(input) = 0
        <3>1. Len(input) = 0 /\ {i \in DOMAIN input : input[i] \in Texts} = {}
            BY EmptyAny
        <3>. QED BY <3>1, FS_EmptySet DEF Width
    <2>2. ended
        BY <1>1, <2>1 DEF Start, Starved, Final
    <2>. QED BY <1>3, <2>2 DEF Derived
<1>6. ~(entry = "group" /\ input # << >> /\ input[1] # "(")
    <2>. SUFFICES ASSUME entry = "group", input # << >> PROVE input[1] = "("
        OBVIOUS
    <2>1. 1 \in 1..Len(input)
        BY <1>1, EmptySeq
    <2>. QED BY <2>1 DEF Extends, Derived
<1>7. stack' = <<Frame(entry)>> /\ mode' = "operand" /\ pos' = 1
    BY <1>1, <1>4, <1>5, <1>6 DEF Start
<1>8. Now' = Moment("operand", <<Frame(entry)>>, 1)
    BY <1>7 DEF Now, Final
<1>. QED BY <1>1, <1>8, DerivedIsReached

LEMMA NextOnTheWay == IInv /\ Asked /\ OnTheWay /\ [Next]_vars => OnTheWay'
<1>. SUFFICES ASSUME IInv, Asked, OnTheWay, [Next]_vars PROVE OnTheWay'
    OBVIOUS
<1>1. ASSUME UNCHANGED <<entry, stack, pos, mode, result>>, \A s : Extends(s)' => Extends(s)
      PROVE  OnTheWay'
    <2>1. Now' = Now
        BY <1>1 DEF Now
    <2>. QED BY <1>1, <2>1 DEF OnTheWay
<1>2. ASSUME NEW t \in Tokens, Draw(t) PROVE OnTheWay'
    <2>1. /\ input \in Seq(Tokens) /\ Len(input) \in Nat /\ ~ended /\ input' = Append(input, t)
          /\ ended' = ended
        BY <1>2, LenProperties DEF IInv, TypeOK, Draw, Starved
    <2>2. /\ Len(input') = Len(input) + 1
          /\ \A i \in 1..Len(input) : i \in 1..Len(input') /\ input'[i] = input[i]
        BY <2>1, AppendProperties
    <2>3. ASSUME NEW s, Extends(s)' PROVE Extends(s)
        <3>1. /\ s \in Seq(Tokens) /\ Len(input') <= Len(s) /\ Len(s) \in Nat
              /\ \A i \in 1..Len(input') : s[i] = input'[i]
            BY <2>3, LenProperties DEF Extends
        <3>2. Len(input) <= Len(s)
            BY <2>1, <2>2, <3>1
        <3>. QED BY <2>1, <2>2, <3>1, <3>2 DEF Extends
    <2>. QED BY <1>1, <1>2, <2>3 DEF Draw
<1>3. CASE DrawEnd
    <2>1. ~ended /\ input' = input
        BY <1>3 DEF DrawEnd, Starved
    <2>2. \A s : Extends(s)' => Extends(s)
        BY <2>1 DEF Extends
    <2>. QED BY <1>1, <1>3, <2>2 DEF DrawEnd
<1>4. CASE Start
    BY <1>4, StartOnTheWay
<1>5. CASE Step /\ mode # "start"
    <2>1. UNCHANGED <<entry, input, ended>>
        BY <1>5 DEF Step, Start, OpenGroup, Operand, NoOperand, Operator, CloseGroup, Unexpected, Return,
                    Deliver, Fail, Panic, Finish
    <2>2. ASSUME NEW s, NEW r, Extends(s)', Derived(entry, s, r) PROVE Leads(s, Now', Outcome("done", r))
        <3>1. Extends(s)
            BY <2>1, <2>2 DEF Extends
        <3>2. Leads(s, Now, Outcome("done", r))
            BY <1>5, <2>2, <3>1 DEF OnTheWay
        <3>3. Now' = Move(s, Now) /\ Now # Outcome("done", r)
            BY <1>5, <3>1, StepMoves
        <3>. QED BY <3>2, <3>3, LeadsAfter, Zenon
    <2>. QED BY <2>1, <2>2 DEF OnTheWay
<1>6. CASE UNCHANGED vars
    BY <1>1, <1>6 DEF vars, Extends
<1>7. mode = "start" => (Step => Start)
    BY DEF Step, OpenGroup, Operand, NoOperand, Operator, CloseGroup, Unexpected, Return, Ready
<1>. QED BY <1>2, <1>3, <1>4, <1>5, <1>6, <1>7 DEF Next

\* The other half of AcceptedHasADerivation: the loops give up no list that the grammar
\* derives, and answer it with the one rule that it has.  A list that is refused for AND
\* and OR in one chain, for a parenthesis, for what stands behind an operand or for an
\* operator at its end, and a group that faults, have no derivation; and the grammar is
\* not ambiguous, though operands may be missing in it.
THEOREM DerivationsAreAccepted == Spec => []DerivedIsAccepted
<1>1. Init => OnTheWay
    BY DEF Init, OnTheWay
<1>2. OnTheWay => DerivedIsAccepted
    <2>. SUFFICES ASSUME OnTheWay, mode \in Final, NEW s, NEW r, Extends(s), Derived(entry, s, r)
                  PROVE  mode = "done" /\ result = r
        BY DEF DerivedIsAccepted
    <2>1. mode # "start" /\ Now = Outcome(mode, result)
        BY DEF Now, Final
    <2>2. Leads(s, Outcome(mode, result), Outcome("done", r))
        BY <2>1 DEF OnTheWay
    <2>3. Outcome("done", r) = Outcome(mode, result)
        BY <2>2, LeadsNowhere
    <2>. QED BY <2>3 DEF Outcome
<1>3. Spec => []IInv
    BY InitIInv, NextIInv, PTL DEF Spec
<1>. QED BY <1>1, <1>2, <1>3, InitAsked, NextAsked, NextOnTheWay, PTL DEF Spec

-----------------------------------------------------------------------------
(* Every parse ends                                                        *)

\* What there is left to do: tokens to draw and the end of them, tokens to pass, and how
\* far the parser is between two of them.
Stage == CASE mode = "start" -> 3 [] mode = "operand" -> 2 [] mode = "operator" -> 1 [] OTHER -> 0
Left  == (IF ended THEN 0 ELSE 1) + (MaxTokens - Len(input)) + 2 * (MaxTokens + 1 - pos) + Stage

\* Every step leaves less.
LeavesLess == [][Left' < Left]_vars

LEMMA LeftIsNat == IInv => Left \in Nat
<1>. SUFFICES ASSUME IInv PROVE Left \in Nat
    OBVIOUS
<1>1. /\ MaxTokens \in Nat /\ Len(input) \in Nat /\ Len(input) <= MaxTokens
      /\ pos \in 1..(Len(input) + 1)
    BY MaxTokensAssumption DEF IInv, TypeOK
<1>2. MaxTokens - Len(input) \in Nat /\ 2 * (MaxTokens + 1 - pos) \in Nat
    BY <1>1
<1>3. Stage \in Nat
    BY DEF Stage
<1>. QED BY <1>2, <1>3 DEF Left

LEMMA NextLeaves == IInv /\ [Next]_vars => [Left' < Left]_vars
<1>. SUFFICES ASSUME IInv, Next PROVE Left' < Left
    OBVIOUS
<1>1. /\ MaxTokens \in Nat /\ Len(input) \in Nat /\ pos \in Nat /\ input \in Seq(Tokens)
    BY MaxTokensAssumption DEF IInv, TypeOK
<1>2. /\ mode = "start" => Stage = 3
      /\ mode = "operand" => Stage = 2
      /\ mode = "operator" => Stage = 1
      /\ mode \in Final => Stage = 0
    BY DEF Stage, Final
<1>3. /\ mode' = "operand" => Stage' = 2
      /\ mode' = "operator" => Stage' = 1
      /\ mode' \in Final => Stage' = 0
    BY DEF Stage, Final
<1>4. ASSUME UNCHANGED <<input, ended>>, NEW m \in 0..3, NEW n \in 0..3, Stage = m, Stage' = n,
             pos' \in Nat, 2 * (pos' - pos) + m > n
      PROVE  Left' < Left
    <2>. DEFINE w == IF ended THEN 0 ELSE 1
                l == MaxTokens - Len(input)
    <2>1. w \in Nat /\ l \in Int
        BY <1>1
    <2>2. /\ Left = w + l + 2 * (MaxTokens + 1 - pos) + m
          /\ Left' = w + l + 2 * (MaxTokens + 1 - pos') + n
        BY <1>4 DEF Left
    <2>. HIDE DEF w, l
    <2>3. m \in Nat /\ n \in Nat
        OBVIOUS
    <2>4. \A a, b, p, q, M \in Nat : \A v \in Nat : \A k \in Int :
            2 * (q - p) + a > b => v + k + 2 * (M + 1 - q) + b < v + k + 2 * (M + 1 - p) + a
        OBVIOUS
    <2>5. w + l + 2 * (MaxTokens + 1 - pos') + n < w + l + 2 * (MaxTokens + 1 - pos) + m
        BY <1>1, <1>4, <2>1, <2>3, <2>4
    <2>. QED BY <2>2, <2>5
<1>5. ASSUME NEW t \in Tokens, Draw(t) PROVE Left' < Left
    <2>1. Len(input') = Len(input) + 1
        BY <1>1, <1>5 DEF Draw
    <2>2. Stage' = Stage /\ pos' = pos /\ ended' = ended /\ Stage \in Nat
        BY <1>5 DEF Draw, Stage
    <2>3. /\ Left = (IF ended THEN 0 ELSE 1) + (MaxTokens - Len(input)) + 2 * (MaxTokens + 1 - pos) + Stage
          /\ Left' = (IF ended THEN 0 ELSE 1) + (MaxTokens - (Len(input) + 1)) + 2 * (MaxTokens + 1 - pos) + Stage
        BY <2>1, <2>2 DEF Left
    <2>. QED BY <1>1, <2>2, <2>3
<1>6. CASE DrawEnd
    <2>1. Stage' = Stage /\ pos' = pos /\ input' = input /\ ~ended /\ ended' /\ Stage \in Nat
        BY <1>6 DEF DrawEnd, Stage, Starved
    <2>2. /\ Left = 1 + (MaxTokens - Len(input)) + 2 * (MaxTokens + 1 - pos) + Stage
          /\ Left' = 0 + (MaxTokens - Len(input)) + 2 * (MaxTokens + 1 - pos) + Stage
        BY <2>1 DEF Left
    <2>. QED BY <1>1, <2>1, <2>2
<1>7. ASSUME Fail \/ Panic \/ \E r : Finish("done", r), mode \notin Final PROVE Left' < Left
    <2>1. mode' \in Final /\ UNCHANGED <<input, ended, pos>>
        BY <1>7 DEF Fail, Panic, Finish, Final
    <2>2. Stage \in {1, 2, 3}
        BY <1>2, <1>7 DEF IInv, TypeOK
    <2>3. 2 * (pos' - pos) + Stage > 0
        BY <1>1, <2>1, <2>2
    <2>. QED BY <1>1, <1>3, <1>4, <2>1, <2>2, <2>3
<1>8. ASSUME NEW st, NEW r, NEW p \in {pos, pos + 1}, Deliver(st, r, p),
             mode = "operand" \/ (mode = "operator" /\ p = pos + 1)
      PROVE  Left' < Left
    <2>1. Stage' = 1 /\ pos' = p /\ UNCHANGED <<input, ended>>
        BY <1>3, <1>8 DEF Deliver
    <2>. QED BY <1>1, <1>2, <1>4, <1>8, <2>1
<1>9. CASE Start
    <2>1. CASE Fail \/ Panic
        BY <1>7, <1>9, <2>1 DEF Start, Final
    <2>2. CASE mode' = "operand" /\ UNCHANGED <<input, ended, pos>>
        BY <1>1, <1>2, <1>3, <1>4, <1>9, <2>2 DEF Start
    <2>. QED BY <1>9, <2>1, <2>2 DEF Start
<1>10. CASE OpenGroup
    BY <1>1, <1>2, <1>3, <1>4, <1>10 DEF OpenGroup, Ready
<1>11. CASE Operand
    BY <1>7, <1>8, <1>11 DEF Operand, Ready, Final
<1>12. CASE Operator
    <2>1. UNCHANGED <<input, ended>> /\ Stage = 1 /\ Stage' = 2 /\ pos' = pos + 1
        BY <1>2, <1>3, <1>12 DEF Operator, Ready
    <2>2. pos' \in Nat /\ 2 * (pos' - pos) + 1 > 2
        BY <1>1, <2>1
    <2>. QED BY <1>4, <2>1, <2>2
<1>13. CASE CloseGroup
    BY <1>7, <1>8, <1>13 DEF CloseGroup, Ready, Final
<1>14. CASE NoOperand \/ Unexpected
    BY <1>7, <1>14 DEF NoOperand, Unexpected, Ready, Final
<1>15. CASE Return
    BY <1>7, <1>15 DEF Return, Ready, Final
<1>. QED BY <1>5, <1>6, <1>9, <1>10, <1>11, <1>12, <1>13, <1>14, <1>15 DEF Next, Step

\* For a list of any length: the parser takes at most a number of steps that is fixed when
\* it starts, and so stops.  A loop goes on only past a token, a group that closes has
\* passed two, and an operand that is nothing at all is followed by an operator or by the
\* end of its loop.
THEOREM ParsesEnd == Spec => [](Left \in Nat) /\ LeavesLess
<1>1. Spec => []IInv
    BY InitIInv, NextIInv, PTL DEF Spec
<1>. QED BY <1>1, LeftIsNat, NextLeaves, PTL DEF Spec, LeavesLess
=============================================================================
