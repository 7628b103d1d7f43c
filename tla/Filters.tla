------------------------------- MODULE Filters -------------------------------
(***************************************************************************)
(* The parser of search filters (filter.go): NewFilter, parseSubFilter,    *)
(* parseFilterAnd, parseFilterOr, parseFilterNot, parseComplexFilter,      *)
(* splitFilterParts and parseItemFilter.  parseSubFilter cuts its text and *)
(* calls itself on the parts; here the calls under way are a stack of      *)
(* frames, with the text not parsed yet and the filters parsed so far.     *)
(*                                                                         *)
(* A text is a list of tokens.  "(&" stands for both kinds of set, "(&"    *)
(* and "(|", whose code is the same; "blank" is a space.  An item is a     *)
(* maximal run of other characters around its first "=", without "*"; by   *)
(* what parseItemFilter makes of it, it is one of Items; "refused", whose  *)
(* attribute or rule is no OID or descriptor; "muted", whose value has a   *)
(* character that is not allowed; or "hollow", ":=x", an extensible match  *)
(* without a rule.                                                         *)
(***************************************************************************)
EXTENDS Naturals, Sequences, FiniteSets, SequencesExt

CONSTANTS
    Items,      \* items that are accepted
    Chars,      \* how many characters an item has
    Texts       \* what callers pass to NewFilter

Openers  == {"(", "(&", "(!"}
Equals   == Items \cup {"refused", "muted", "hollow"}
Tokens   == Openers \cup {")", "blank"} \cup Equals

ASSUME ItemsAssumption == Items \cap (Openers \cup {")", "blank", "refused", "muted", "hollow"}) = {}
ASSUME CharsAssumption == Chars \in [Equals -> Nat \ {0}]
ASSUME TextsAssumption == Texts \subseteq Seq(Tokens)

VARIABLES
    text,       \* the argument of NewFilter
    arg,        \* the argument of the parseSubFilter call being made
    stack,      \* the sets and nots under way, outermost first
    mode,       \* what the parser does next, or how it ended
    result      \* the filter returned, with or without an error

vars == <<text, arg, stack, mode, result>>

Final == {"done", "error", "panic"}

-----------------------------------------------------------------------------
(* Filters                                                                 *)

Filter(c, toks, kids) == [choice |-> c, toks |-> toks, kids |-> kids]

Leaf(s)  == Filter("item", s, << >>)
Default  == Leaf(<<"objectClass=*">>)           \* FilterDefault
Invalid  == Filter("invalid", << >>, << >>)     \* invalidFilter{}
Set(fs)  == Filter("set", << >>, fs)
Not(f)   == Filter("not", << >>, <<f>>)

-----------------------------------------------------------------------------
(* Texts                                                                   *)

Opened(s, n) == Cardinality({i \in 1..n : s[i] \in Openers})
Closed(s, n) == Cardinality({i \in 1..n : s[i] = ")"})

\* bytes.TrimSpace.
Blank(s) == \A i \in DOMAIN s : s[i] = "blank"
Trim(s)  == IF Blank(s) THEN << >>
            ELSE SubSeq(s, CHOOSE i \in DOMAIN s : s[i] # "blank" /\ \A j \in 1..(i - 1) : s[j] = "blank",
                           CHOOSE i \in DOMAIN s : s[i] # "blank" /\ \A j \in (i + 1)..Len(s) : s[j] = "blank")

\* checkParenBalanced counts, in whatever order they come, and "((" is nowhere.
Balanced(s) == Opened(s, Len(s)) = Closed(s, Len(s))
Doubled(s)  == \E i \in 1..(Len(s) - 1) : s[i] = "(" /\ s[i + 1] \in Openers

Size(s) == LET w[n \in 0..Len(s)] ==
                   IF n = 0 THEN 0
                   ELSE w[n - 1] + (CASE s[n] \in Equals -> Chars[s[n]]
                                      [] s[n] \in {"(&", "(!"} -> 2
                                      [] OTHER -> 1)
           IN  w[Len(s)]

\* Mutant: the depth is not looked at.
BeginsAnywhere(s, i) == s[i] \in Openers

\* splitFilterParts begins a part at a parenthesis that opens outside all others, so
\* the next part can be found in what is left.
Begins(s, i) == s[i] \in Openers /\ Opened(s, i - 1) = Closed(s, i - 1)

PartEnd(s) == CHOOSE n \in 1..Len(s) :
                 /\ n = Len(s) \/ Begins(s, n + 1)
                 /\ \A i \in 2..n : ~Begins(s, i)

\* s[a:b] of a text of these tokens: the code faults when a bound is out of range.  "(&"
\* and "(!" are the only tokens of two characters at which a cut begins, and no token
\* has none, so that a cut of characters is in range when the one of tokens is.
InRange(s, a, b) == 0 <= a /\ a <= b /\ b <= Len(s)

\* input[2:len(input)-1]: what "(&" or "(!" and the last character enclose, if there is
\* such a character (Cut).  The last token is ")", or the parts are not balanced.
Inside(s) == SubSeq(s, 2, Len(s) - 1)

-----------------------------------------------------------------------------
(* parseItemFilter                                                         *)

\* bytes.Index: where the first "=" is, or 0.
FirstEqual(s) ==
    IF \A i \in DOMAIN s : s[i] \notin Equals THEN 0
    ELSE CHOOSE i \in DOMAIN s : s[i] \in Equals /\ \A j \in 1..(i - 1) : s[j] \notin Equals

\* What becomes of a text that is no set and no not: the sides of its first "=" are
\* both in parentheses or both not, what precedes it is an attribute, and what
\* follows it, ")" left out, is a value; the error of the value is not returned.
ItemOutcome(s) ==
    LET e == FirstEqual(s)
    IN  IF e = 0 THEN "error"
        ELSE IF ~InRange(s, 0, e - 1) \/ ~InRange(s, e, Len(s)) THEN "panic"
        ELSE IF (s[1] = "(") # (s[Len(s)] = ")") THEN "error"
        ELSE IF s[e] = "refused" \/ \E i \in 1..(e - 1) : s[i] # "(" THEN "error"
        ELSE IF s[e] = "hollow" THEN "panic"
        ELSE IF \E i \in e..Len(s) : s[i] \in Openers \cup {"muted"} THEN "muted"
        ELSE "item"

\* Mutant: the closing parenthesis stays.
BareClosed(s) == IF s[1] = "(" THEN Tail(s) ELSE s

\* The parentheses around an item are removed; no others are left in one.
Bare(s) == IF s[1] = "(" THEN Inside(s) ELSE s

-----------------------------------------------------------------------------
Init ==
    /\ text \in Texts /\ arg = text
    /\ stack = << >> /\ mode = "parse" /\ result = Invalid

Finish(m, f) == mode' = m /\ result' = f /\ UNCHANGED <<text, arg, stack>>

\* An error ends every call under way, and marshalFilter returns invalidFilter{}.
Fail == Finish("error", Invalid)

\* The goroutine panics: a slice is out of range.
Fault == Finish("panic", Invalid)

\* A call returns f without an error: to NewFilter, or to the loop that made it.
Deliver(f) ==
    IF stack = << >> THEN Finish("done", f)
    ELSE /\ stack' = [stack EXCEPT ![Len(stack)].kids = Append(@, f)]
         /\ mode' = "loop"
         /\ UNCHANGED <<text, arg, result>>

Given == Trim(arg)

\* A call to parseFilterAnd, parseFilterOr or parseFilterNot begins.
Enter(kind) ==
    /\ stack' = Append(stack, [kind |-> kind, rest |-> Inside(Given), kids |-> << >>])
    /\ mode' = "loop"
    /\ UNCHANGED <<text, arg, result>>

\* input[2:len(input)-1] is the argument of the call.
Cut(kind) == IF InRange(Given, 1, Len(Given) - 1) THEN Enter(kind) ELSE Fault

\* Mutant: the parentheses are not counted.
SoundUncounted == ~Blank(arg) /\ ~Doubled(arg)

\* What parseSubFilter asks of a text that is not blank.
Sound == ~Blank(arg) /\ ~Doubled(arg) /\ Balanced(arg)

\* Mutant: the trimmed text is parsed as any other.
ParseBlankAgain ==
    /\ mode = "parse" /\ Blank(arg)
    /\ arg' = << >>
    /\ UNCHANGED <<text, stack, mode, result>>

ParseBlank == mode = "parse" /\ Blank(arg) /\ Deliver(Default)

ParseUnsound == mode = "parse" /\ ~Blank(arg) /\ ~Sound /\ Fail

ParseSet == mode = "parse" /\ Sound /\ Given[1] = "(&" /\ Cut("set")

\* A not of fewer than eight characters, "(!(a=b))", is an error.
ParseNot ==
    /\ mode = "parse" /\ Sound /\ Given[1] = "(!"
    /\ IF Size(Given) < 8 THEN Fail ELSE Cut("not")

ParseItem ==
    /\ mode = "parse" /\ Sound /\ Given[1] \notin {"(&", "(!"}
    /\ CASE ItemOutcome(Given) = "error" -> Fail
         [] ItemOutcome(Given) = "panic" -> Fault
         [] ItemOutcome(Given) = "muted" -> Deliver(Invalid)
         [] ItemOutcome(Given) = "item"  -> Deliver(Leaf(Bare(Given)))

Top     == stack[Len(stack)]
More(r) == IF r.kind = "set" THEN r.rest # << >> ELSE r.kids = << >>

\* Mutant: a part that the loop goes past is forgotten if it is not in parentheses.
NextPartClosed ==
    LET n == IF Top.kind = "set" THEN PartEnd(Top.rest) ELSE Len(Top.rest)
    IN  /\ mode = "loop" /\ More(Top)
        /\ stack' = [stack EXCEPT ![Len(stack)].rest = SubSeq(Top.rest, n + 1, Len(Top.rest))]
        /\ IF Top.kind = "set" /\ Top.rest[1] \notin Openers
           THEN UNCHANGED <<arg, mode>>
           ELSE arg' = SubSeq(Top.rest, 1, n) /\ mode' = "parse"
        /\ UNCHANGED <<text, result>>

\* The loop of parseComplexFilter goes from part to part; parseFilterNot parses what
\* it has as one.
NextPart ==
    LET n == IF Top.kind = "set" THEN PartEnd(Top.rest) ELSE Len(Top.rest)
    IN  /\ mode = "loop" /\ More(Top)
        /\ stack' = [stack EXCEPT ![Len(stack)].rest = SubSeq(Top.rest, n + 1, Len(Top.rest))]
        /\ arg' = SubSeq(Top.rest, 1, n)
        /\ mode' = "parse"
        /\ UNCHANGED <<text, result>>

\* The set or the not is complete, and is delivered to the frame below.
Return ==
    LET f == IF Top.kind = "set" THEN Set(Top.kids) ELSE Not(Top.kids[1])
        n == Len(stack)
    IN  /\ mode = "loop" /\ ~More(Top)
        /\ IF n = 1 THEN stack' = << >> /\ mode' = "done" /\ result' = f
           ELSE /\ stack' = [Front(stack) EXCEPT ![n - 1].kids = Append(@, f)]
                /\ mode' = "loop" /\ UNCHANGED result
        /\ UNCHANGED <<text, arg>>

Next == \/ ParseBlank \/ ParseUnsound \/ ParseSet \/ ParseNot \/ ParseItem
        \/ NextPart \/ Return

\* The calls are made one after another in the caller's goroutine.
Spec == Init /\ [][Next]_vars /\ WF_vars(Next)

-----------------------------------------------------------------------------
(* Properties                                                              *)

IsFilter(f) == /\ f = Filter(f.choice, f.toks, f.kids)
               /\ f.choice \in {"invalid", "item", "set", "not"}
               /\ f.toks \in Seq(Tokens \cup {"objectClass=*"})
               /\ f.kids \in Seq(Range(f.kids))
IsFrame(r)  == /\ r = [kind |-> r.kind, rest |-> r.rest, kids |-> r.kids]
               /\ r.kind \in {"set", "not"}
               /\ r.rest \in Seq(Tokens)
               /\ r.kids \in Seq(Range(r.kids)) /\ \A i \in DOMAIN r.kids : IsFilter(r.kids[i])

\* Types, at every depth of the recursion; and a loop has a frame to look at.
TypeOK ==
    /\ text \in Seq(Tokens) /\ arg \in Seq(Tokens)
    /\ stack \in Seq(Range(stack)) /\ \A i \in DOMAIN stack : IsFrame(stack[i])
    /\ mode \in Final \cup {"parse", "loop"}
    /\ IsFilter(result)
    /\ mode = "loop" => stack # << >>

\* What parseFilterAnd, parseFilterOr, parseFilterNot and parseItemFilter cut is in
\* range for every text and at every depth, since checkParenBalanced has let no opening
\* parenthesis stand alone; only an extensible match without a rule faults, and only
\* if its text gets as far as parseExtensibleMatch.
FaultsOnlyOnHollow == mode = "panic" => "hollow" \in Range(text)

\* NewFilter answers whatever text it is given.
Answers == <>(mode \in Final)

\* NewFilter (comment): "Any errors found will result in the return of an invalid
\* Filter instance", and an invalid one is an error.
InvalidIsAnError == mode = "done" => result # Invalid
=============================================================================
