------------------------------ MODULE BindRules ------------------------------
(***************************************************************************)
(* The bind rule objects of aci/aci.go: BindRuleItem, BindRuleAnd,         *)
(* BindRuleOr and BindRuleNot.  Each Go value is a struct that embeds one  *)
(* pointer, so a handle is a reference: a rule pushed into another rule is *)
(* shared with it, and whoever keeps the handle goes on mutating what the  *)
(* parent holds.  The module is that heap: the objects, the calls a        *)
(* program makes on its handles and the ways a call can end, a Go panic    *)
(* and a recursion without end included.                                   *)
(*                                                                         *)
(* Push takes any number of arguments and stops at the first bad one.  Its *)
(* loop is modelled one iteration a step; "loop" is the receiver while the *)
(* loop runs, and no other call starts in the meantime.                    *)
(***************************************************************************)
EXTENDS Naturals, Sequences, FiniteSets

CONSTANTS
    Objs,       \* the objects a program may allocate (bounds the heap)
    Keywords,   \* bind keywords
    DNKeywords, \* those whose value is a distinguished name (userdn, groupdn, roledn)
    Flags,      \* the formatting flags the model keeps (bounds the state)
    MaxKids,    \* longest slice the model lets a rule grow to (bounds the heap)
    NoObj,      \* "no object": no Push in progress
    NoKw,       \* invalidACIv3BindKeyword, and "no expression"
    NoRule,     \* the nil BindRule interface value (badACIv3BindRule)
    ZeroItem,   \* BindRuleItem{}, the zero value: a handle without a pointer
    ZeroAnd,    \* BindRuleAnd{}
    ZeroOr,     \* BindRuleOr{}
    ZeroNot     \* BindRuleNot{}

Zeros  == {ZeroItem, ZeroAnd, ZeroOr, ZeroNot}
Values == Objs \cup Zeros \cup {NoRule}

\* The outcomes of tokenizing and parsing a string argument, as far as Push and
\* the constructors tell them apart: an error; words without a comparison
\* operator, for which processACIv3BindRule returns (nil, nil); one item.
Texts == {"bad", "bare", "item"}

ASSUME ConstantsAssumption ==
    /\ IsFiniteSet(Objs)
    /\ MaxKids \in Nat
    /\ NoObj \notin Objs
    /\ NoKw \notin Keywords
    /\ DNKeywords \subseteq Keywords
    /\ Flags \subseteq {"paren", "pad", "mvq"}
    /\ Zeros \cap Objs = {}
    /\ NoRule \notin Objs \cup Zeros
    /\ ZeroNot \notin {ZeroItem, ZeroAnd, ZeroOr}
    /\ ZeroAnd # ZeroOr /\ ZeroItem \notin {ZeroAnd, ZeroOr}

VARIABLES
    kind,   \* kind[o]: which of the four types o is, or "free"
    kids,   \* kids[o]: the slice of an And or Or; << >> or <<child>> of a Not
    item,   \* item[o]: keyword, operator and expression of a BindRuleItem
    style,  \* style[o]: which of the paren, pad and mvq flags are set
    loop,   \* the receiver of the Push in progress, or NoObj
    out     \* how the last call ended: Done, or a SetParen, or a call that faulted

vars == <<kind, kids, item, style, loop, out>>

Slices   == {"and", "or"}
Kinds    == Slices \cup {"not", "item"}
Outcomes == {"ok", "panic", "overflow"}
Calls    == {"any", "Text", "Push", "Valid", "String", "Index", "Len",
             "SetParen", "SetPaddingStyle", "IsParen"}
Items    == [kw : Keywords \cup {NoKw}, op : BOOLEAN, ex : Keywords \cup {NoKw}]

EmptyItem == [kw |-> NoKw, op |-> FALSE, ex |-> NoKw]

\* The second part: no link dangles, only the three composite types have links,
\* and only an And or an Or is ever in the middle of a Push loop.
TypeOK ==
    /\ kind \in [Objs -> Kinds \cup {"free"}]
    /\ kids \in [Objs -> Seq(Values)]
    /\ item \in [Objs -> Items]
    /\ style \in [Objs -> SUBSET Flags]
    /\ loop \in Objs \cup {NoObj}
    /\ out \in Calls \X Outcomes
    /\ loop # NoObj => kind[loop] \in Slices
    /\ \A o \in Objs :
         /\ kind[o] \in {"item", "free"} => kids[o] = << >>
         /\ \A i \in DOMAIN kids[o] :
              kids[o][i] \in Objs => kind[kids[o][i]] # "free"

-----------------------------------------------------------------------------
(* Reading the heap                                                        *)

Live == {o \in Objs : kind[o] # "free"}

KindOf(v) == IF v \in Objs THEN kind[v]
             ELSE IF v = ZeroItem THEN "item"
             ELSE IF v = ZeroAnd THEN "and"
             ELSE IF v = ZeroOr THEN "or" ELSE "not"

Complete(i) == i.kw # NoKw /\ i.op /\ i.ex # NoKw

FirstOf(S) == CHOOSE i \in S : \A j \in S : i <= j

\* The outcome of visiting a slice in order: that of the first element which is
\* not ok.
FirstBad(outcome) ==
    LET bad == {i \in DOMAIN outcome : outcome[i] # "ok"}
    IN  IF bad = {} THEN "ok" ELSE outcome[FirstOf(bad)]

\* The recursion of Valid and of String over the object graph, from what each value
\* answers by itself ("deeper": whatever its slice says).  A path that is longer
\* than the number of objects meets an object again, and then never ends.
Visit(here, slices, value) ==
    LET V[d \in 0..Cardinality(Objs)] ==
            [v \in Values |->
                IF here[v] # "deeper" THEN here[v]
                ELSE IF d = 0 THEN "overflow"
                ELSE FirstBad([i \in DOMAIN slices[v] |-> V[d - 1][slices[v][i]]])]
    IN  V[Cardinality(Objs)][value]

\* Mutant: Valid without the IsZero checks.
ValidHereNoZeroCheck(v) ==
    IF v \notin Objs THEN "panic"
    ELSE IF kind[v] = "item" THEN IF Complete(item[v]) THEN "ok" ELSE "err"
    ELSE IF kids[v] = << >> THEN IF kind[v] = "not" THEN "panic" ELSE "err"
    ELSE "deeper"

ValidHere(v) ==
    IF v = NoRule THEN "panic"
    ELSE IF v \in Zeros THEN "err"
    ELSE IF kind[v] = "item" THEN IF Complete(item[v]) THEN "ok" ELSE "err"
    ELSE IF kids[v] = << >> THEN IF kind[v] = "not" THEN "panic" ELSE "err"
    ELSE "deeper"

ValidOf(v) == Visit([w \in Values |-> ValidHere(w)], kids, v)

\* Of String only a nil element or a zero BindRuleNot faults.
StringHere(v) ==
    IF v \in {NoRule, ZeroNot} THEN "panic"
    ELSE IF v \in Zeros \/ kind[v] = "item" THEN "ok"
    ELSE "deeper"

StringOf(v) == Visit([w \in Values |-> StringHere(w)], kids, v)

\* Len, IsParen, SetParen and SetPaddingStyle follow a chain of Nots only; a Not
\* holds no Not, so the chain is one link long.
EmptyNot(v) == v \in Objs /\ kind[v] = "not" /\ kids[v] = << >>

Done == <<"any", "ok">>

\* A call that returns is Done, whether it returned an error or not: the calls of
\* this package that push or set drop the error.
Ended(call, outcome) == IF outcome \in {"panic", "overflow"} THEN <<call, outcome>> ELSE Done

Running == out[2] = "ok"
Idle    == Running /\ loop = NoObj

-----------------------------------------------------------------------------
(* Constructors                                                            *)

Init ==
    /\ kind  = [o \in Objs |-> "free"]
    /\ kids  = [o \in Objs |-> << >>]
    /\ item  = [o \in Objs |-> EmptyItem]
    /\ style = [o \in Objs |-> {}]
    /\ loop  = NoObj
    /\ out   = Done

\* An object of kind k: its pointer is fresh, so no existing handle sees it.
Allocate(o, k) ==
    /\ kind[o] = "free"
    /\ kind' = [kind EXCEPT ![o] = k]

\* What a text that parses to one item makes of the fresh object o.
TextItem(o, k) == item' = [item EXCEPT ![o] = [kw |-> k, op |-> TRUE, ex |-> k]]

\* NewBindRuleAnd(x...), NewBindRuleOr(x...): a fresh slice, then the Push loop.
NewSlice(o, k) ==
    /\ Idle
    /\ Allocate(o, k)
    /\ loop' = o
    /\ out' = Done
    /\ UNCHANGED <<kids, item, style>>

\* NewBindRuleItem(keyword, operator, expression), or with nothing usable.  The
\* operator is ignored when it is not one of the six, the expression when the
\* keyword does not accept it; neither is an error.
NewItem(o, kw, op, ok) ==
    /\ Idle
    /\ Allocate(o, "item")
    /\ item' = [item EXCEPT ![o] = [kw |-> kw, op |-> op /\ kw # NoKw,
                                    ex |-> IF ok THEN kw ELSE NoKw]]
    /\ out' = Done
    /\ UNCHANGED <<kids, style, loop>>

\* NewBindRuleNot(x) of a rule: anything but a Not is taken, valid or not.
NewNot(o, x) ==
    /\ Idle
    /\ x \in Live \cup Zeros \cup {NoRule}
    /\ Allocate(o, "not")
    /\ kids' = [kids EXCEPT ![o] =
                  IF x = NoRule \/ KindOf(x) = "not" THEN << >> ELSE <<x>>]
    /\ out' = Done
    /\ UNCHANGED <<item, style, loop>>

\* NewBindRuleNot(x) of a text, which may parse to the fresh item i of keyword k.
NewNotText(o, t, i, k) ==
    /\ Idle
    /\ kind[o] = "free" /\ kind[i] = "free" /\ o # i
    /\ CASE t = "bad" ->
              /\ kind' = [kind EXCEPT ![o] = "not"]
              /\ out' = Done
              /\ UNCHANGED <<kids, item>>
         [] t = "bare" ->           \* z.Kind() of a nil z
              /\ out' = <<"Text", "panic">>
              /\ UNCHANGED <<kind, kids, item>>
         [] t = "item" ->
              /\ kind' = [kind EXCEPT ![o] = "not", ![i] = "item"]
              /\ kids' = [kids EXCEPT ![o] = <<i>>]
              /\ TextItem(i, k)
              /\ out' = Done
    /\ UNCHANGED <<style, loop>>

-----------------------------------------------------------------------------
(* Push                                                                    *)

\* BindRuleAnd.Push, BindRuleOr.Push: a zero receiver gets a fresh slice.
PushStart(r) ==
    /\ Idle
    /\ \/ /\ r \in Live /\ kind[r] \in Slices
          /\ loop' = r
          /\ UNCHANGED kind
       \/ /\ r \in {ZeroAnd, ZeroOr}
          /\ \E o \in Objs : Allocate(o, KindOf(r)) /\ loop' = o
    /\ out' = Done
    /\ UNCHANGED <<kids, item, style>>

CanGrow(r) == Len(kids[r]) < MaxKids

\* Mutant: Valid is not asked.
PushRuleUnchecked(x) ==
    /\ Running /\ loop # NoObj
    /\ x \in Live \cup Zeros
    /\ CanGrow(loop)
    /\ kids' = [kids EXCEPT ![loop] = Append(@, x)]
    /\ out' = Done
    /\ UNCHANGED <<kind, item, style, loop>>

\* One iteration with a rule: it is appended when it is valid now; otherwise the
\* loop ends and the error is dropped.  A nil argument matches no case.
PushRule(x) ==
    LET v == ValidOf(x)
    IN  /\ Running /\ loop # NoObj
        /\ x \in Live \cup Zeros
        /\ CanGrow(loop)
        /\ kids' = IF v = "ok" THEN [kids EXCEPT ![loop] = Append(@, x)] ELSE kids
        /\ loop' = IF v = "err" THEN NoObj ELSE loop
        /\ out' = Ended("Push", v)
        /\ UNCHANGED <<kind, item, style>>

\* One iteration with a text.  Its rule is appended without asking Valid, a nil
\* one too.
PushText(t, i, k) ==
    /\ Running /\ loop # NoObj
    /\ CanGrow(loop)
    /\ CASE t = "bad" -> loop' = NoObj /\ UNCHANGED <<kind, kids, item>>
         [] t = "bare" ->
              /\ kids' = [kids EXCEPT ![loop] = Append(@, NoRule)]
              /\ UNCHANGED <<kind, item, loop>>
         [] t = "item" ->
              /\ Allocate(i, "item")
              /\ TextItem(i, k)
              /\ kids' = [kids EXCEPT ![loop] = Append(@, i)]
              /\ UNCHANGED loop
    /\ out' = Done
    /\ UNCHANGED style

PushEnd ==
    /\ Running /\ loop # NoObj
    /\ loop' = NoObj
    /\ UNCHANGED <<kind, kids, item, style, out>>

\* Mutant: any valid rule becomes the child, another Not too.
NotPushAnyKind(o, x) ==
    /\ Idle
    /\ kind[o] = "not"
    /\ x \in Live /\ ValidOf(x) = "ok"
    /\ kids' = [kids EXCEPT ![o] = <<x>>]
    /\ out' = Done
    /\ UNCHANGED <<kind, item, style, loop>>

\* BindRuleNot.Push(x): only the first argument counts; a valid rule of another
\* kind replaces the child.  A zero receiver gets a fresh object.
NotPush(o, x) ==
    LET v == IF x = NoRule THEN "err" ELSE ValidOf(x)
    IN  /\ Idle
        /\ x \in Live \cup Zeros \cup {NoRule}
        /\ \/ kind[o] = "not" /\ UNCHANGED kind
           \/ Allocate(o, "not")
        /\ kids' = IF v = "ok" /\ KindOf(x) # "not" THEN [kids EXCEPT ![o] = <<x>>]
                   ELSE kids
        /\ out' = Ended("Push", v)
        /\ UNCHANGED <<item, style, loop>>

\* BindRuleNot.Push of a text goes to parseACIv3BindRuleGroup: it must be in
\* parentheses; words without an operator there are a nil rule whose SetParen
\* faults, and so does a text without tokens.
NotPushText(o, t, i, k) ==
    /\ Idle
    /\ kind[o] = "not"
    /\ CASE t = "bad" -> out' = Done /\ UNCHANGED <<kind, kids, item, style>>
         [] t = "bare" -> out' = <<"Text", "panic">> /\ UNCHANGED <<kind, kids, item, style>>
         [] t = "item" ->
              /\ Allocate(i, "item")
              /\ TextItem(i, k)
              /\ kids' = [kids EXCEPT ![o] = <<i>>]
              /\ style' = [style EXCEPT ![i] = {"paren"} \cap Flags]
              /\ out' = Done
    /\ UNCHANGED loop

-----------------------------------------------------------------------------
(* Setters                                                                 *)

SetFlag(o, f, b) ==
    style' = [style EXCEPT ![o] = IF b THEN @ \cup ({f} \cap Flags) ELSE @ \ {f}]

\* SetParen of a Not only asks its child IsParen, which faults without a child.
SetParen(o, b) ==
    /\ Idle /\ o \in Live
    /\ IF kind[o] = "not"
          THEN UNCHANGED style /\ out' = <<"SetParen", IF EmptyNot(o) THEN "panic" ELSE "ok">>
          ELSE SetFlag(o, "paren", b) /\ out' = <<"SetParen", "ok">>
    /\ UNCHANGED <<kind, kids, item, loop>>

\* SetPaddingStyle of a Not sets its child's.
SetPaddingStyle(o, b) ==
    /\ Idle /\ o \in Live
    /\ CASE kind[o] # "not" ->
              SetFlag(o, "pad", b) /\ out' = Done
         [] EmptyNot(o) ->
              UNCHANGED style /\ out' = <<"SetPaddingStyle", "panic">>
         [] OTHER ->
              /\ IF kids[o][1] \in Objs THEN SetFlag(kids[o][1], "pad", b) ELSE UNCHANGED style
              /\ out' = Done
    /\ UNCHANGED <<kind, kids, item, loop>>

\* SetQuotationStyle: only an item with a DN keyword and a DN expression has one.
SetQuotationStyle(o, b) ==
    /\ Idle /\ o \in Live
    /\ IF kind[o] = "item" /\ {item[o].kw, item[o].ex} \subseteq DNKeywords
          THEN SetFlag(o, "mvq", b)
          ELSE UNCHANGED style
    /\ out' = Done
    /\ UNCHANGED <<kind, kids, item, loop>>

\* The receiver of an item's setter: a live item, or the object a zero handle gets.
ItemReceiver(o) == \/ kind[o] = "item" /\ UNCHANGED kind
                   \/ Allocate(o, "item")

SetKeyword(o, kw) ==
    /\ Idle /\ ItemReceiver(o)
    /\ item' = [item EXCEPT ![o].kw = kw]
    /\ out' = Done
    /\ UNCHANGED <<kids, style, loop>>

\* Mutant: an operator out of range is stored.
SetOperatorUnchecked(o, ok) ==
    /\ Idle /\ ItemReceiver(o)
    /\ item' = [item EXCEPT ![o].op = ok]
    /\ out' = Done
    /\ UNCHANGED <<kids, style, loop>>

\* An operator out of 1..6 leaves the old one; no keyword refuses an operator.
SetOperator(o, ok) ==
    /\ Idle /\ ItemReceiver(o)
    /\ item' = [item EXCEPT ![o].op = @ \/ ok]
    /\ out' = Done
    /\ UNCHANGED <<kids, style, loop>>

\* A value the current keyword does not accept leaves the old one.
SetExpression(o, ok) ==
    /\ Idle /\ ItemReceiver(o)
    /\ item' = [item EXCEPT ![o].ex = IF ok THEN item[o].kw ELSE @]
    /\ out' = Done
    /\ UNCHANGED <<kids, style, loop>>

-----------------------------------------------------------------------------
(* Calls that only read                                                    *)

Read(call, outcome) ==
    /\ Idle
    /\ out' = Ended(call, outcome)
    /\ UNCHANGED <<kind, kids, item, style, loop>>

Valid(v)   == Read("Valid", ValidOf(v))
String(v)  == Read("String", StringOf(v))
Len_(v)    == Read("Len", IF v = ZeroNot THEN "panic" ELSE "ok")
Index(v)   == Read("Index", IF v = ZeroNot THEN "panic" ELSE "ok")
IsParen(v) == Read("IsParen", IF EmptyNot(v) THEN "panic" ELSE "ok")

Next ==
    \/ \E o \in Objs, k \in Slices : NewSlice(o, k)
    \/ \E o \in Objs, kw \in Keywords \cup {NoKw}, op, ok \in BOOLEAN : NewItem(o, kw, op, ok)
    \/ \E o \in Objs, x \in Values : NewNot(o, x)
    \/ \E o, i \in Objs, t \in Texts, k \in Keywords : NewNotText(o, t, i, k)
    \/ \E r \in Objs \cup {ZeroAnd, ZeroOr} : PushStart(r)
    \/ \E x \in Values : PushRule(x)
    \/ \E t \in Texts, i \in Objs, k \in Keywords : PushText(t, i, k)
    \/ PushEnd
    \/ \E o \in Objs, x \in Values : NotPush(o, x)
    \/ \E o, i \in Objs, t \in Texts, k \in Keywords : NotPushText(o, t, i, k)
    \/ \E o \in Objs, b \in BOOLEAN : SetParen(o, b)
    \/ \E o \in Objs, b \in BOOLEAN : SetPaddingStyle(o, b)
    \/ \E o \in Objs, b \in BOOLEAN : SetQuotationStyle(o, b)
    \/ \E o \in Objs, kw \in Keywords \cup {NoKw} : SetKeyword(o, kw)
    \/ \E o \in Objs, ok \in BOOLEAN : SetOperator(o, ok)
    \/ \E o \in Objs, ok \in BOOLEAN : SetExpression(o, ok)
    \/ \E v \in Live \cup Zeros : Valid(v)
    \/ \E v \in Live \cup Zeros : String(v)
    \/ \E v \in Live \cup Zeros : Len_(v)
    \/ \E v \in Live \cup Zeros : Index(v)
    \/ \E v \in Live \cup Zeros : IsParen(v)

Spec == Init /\ [][Next]_vars

-----------------------------------------------------------------------------
(* Properties                                                              *)

\* A Not never holds a Not (newACIv3BindRuleNot, BindRuleNot.Push; the chain
\* that IsParen and SetPaddingStyle follow is one link long), and it holds at
\* most one rule, never the nil interface, whatever a program and its aliases do.
OneRule(o) == /\ Len(kids[o]) <= 1
              /\ kids[o] # << >> => kids[o][1] # NoRule /\ KindOf(kids[o][1]) # "not"

NotHoldsOneRule == \A o \in Objs : kind[o] = "not" => OneRule(o)

\* Nothing a caller still holds changes type, and a slice is never cut, reordered
\* or overwritten, only appended to, one object a call: BindRuleAnd.Push and
\* BindRuleOr.Push stop at a bad argument but keep what came before it.
AppendStep ==
    /\ \A o \in Live : kind'[o] = kind[o]
    /\ \A o \in Objs : kind[o] \in Slices =>
         \/ kids'[o] = kids[o]
         \/ o = loop /\ \E x \in Values : kids'[o] = Append(kids[o], x)

AppendOnly == [][AppendStep]_vars

\* The slots of the heap from which a call can fault.
Hole(o) == \/ EmptyNot(o)
           \/ kind[o] \in Slices /\ \E i \in DOMAIN kids[o] : kids[o][i] = NoRule

Children(o) == {kids[o][i] : i \in DOMAIN kids[o]} \cap Objs

\* The objects one link or more away from o: the least set that holds what o links
\* to and is closed under links.
Reached(links, o) ==
    {q \in Objs : \A S \in SUBSET Objs :
                     links[o] \subseteq S /\ (\A p \in S : links[p] \subseteq S) => q \in S}

Below(o) == Reached([p \in Objs |-> Children(p)], o)

Acyclic == \A o \in Objs : o \notin Below(o)

\* Every fault has a cause in the heap: a call panics only over a Not without a
\* child or a nil element, on a zero Not, or on a text without an operator, and
\* runs without end only over a cycle.  (The recursions of Valid and String, the
\* Valid that Push calls, and the one-link chain of Not.)
FaultsHaveACause ==
    /\ out[2] = "overflow" => ~Acyclic
    /\ out[2] = "panic" /\ out[1] \in {"Push", "Valid", "SetParen", "SetPaddingStyle", "IsParen"}
         => \E o \in Objs : Hole(o)

\* Push never looks for cycles, so a program can close one, after which Valid and
\* String do not return.  It takes a rule that Valid accepts and that contains the
\* receiver: no constructor, text, setter or rejected argument closes one.
CyclesCloseOverValidRules ==
    [][Acyclic /\ ~Acyclic' =>
         /\ Live' = Live
         /\ \E o, x \in Live :
              /\ x \in Children(o)' \ Children(o)
              /\ o \in {x} \cup Below(x)
              /\ ValidOf(x) = "ok"]_vars

\* What Valid answered goes stale only for the reasons a holder of the handle can
\* see: a nil element was pushed, a cycle was closed, or SetKeyword took the
\* keyword of an item somewhere below it away.  Nothing else undoes it.
ValidityIsLostFor ==
    [][\A o \in Live : ValidOf(o) = "ok" /\ ValidOf(o)' # "ok" =>
         \E p \in {o} \cup Below(o) :
            \/ ~Hole(p) /\ Hole(p)'
            \/ p \notin Below(p) /\ p \in Below(p)'
            \/ item[p].kw # NoKw /\ item'[p].kw = NoKw]_vars
=============================================================================
