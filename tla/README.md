# Verification of go-directory/syntax

This directory models package `syntax`, a Go library of LDAP syntaxes, and its
subpackage `aci`, the Netscape access control instructions of version 3, in
TLA+. TLC checks the models on small instances; TLAPS proves the theorems at the
end for every value of the constants.

Run from this directory:

    tlasany M.tla                            # parse
    tlc -workers 2 -config MCx.cfg MCx       # model-check
    tlapm XProofs.tla                        # prove

`PROJECT.json` lists the runs, the lines of the source each definition stands
for, the hazards of the code and the theorems.

## 1. Inventory

The library is sequential: it starts no goroutine and takes no lock, reads no
clock and writes no file. There is nothing to crash and no message to lose. What
makes it hard is elsewhere:

* **sharing** - most values of `aci` are a struct around one pointer, so that what is
  pushed into a rule stays in the hands of whoever made it, and goes on changing;
* **errors that do not come out** - Push has no error to return, and several parsers
  keep their error in a variable nobody reads or overwrites;
* **recursion over text** - bind rules, filters, criteria and refinements are parsed by
  functions that call each other, over one shared position or over pieces cut out
  of their argument;
* **global state** - the registry of object classes is a pair of package variables
  that decides what parses and what verifies;
* **edges** - indices computed from what a text is supposed to contain, limits, fixed
  widths.

| component | state | operations | interacts with | correct if |
|---|---|---|---|---|
| bind rule objects (`aci.go`) | a heap of And, Or, Not, Item, linked by pointers | constructors, Push, SetKeyword, SetOperator, SetExpression, SetParen, styles, Valid, String | its parser, for text arguments; permission bind rules | a Not holds one rule at most and never a Not; slices only grow; faults, cycles and lost validity have the causes a caller can see |
| bind rule parser (`aci.go`) | position, operands and operators of each loop | four mutually recursive functions | constructors and Push | it answers every token list with the rule the parentheses say; indices stay in range; String is read back |
| target rules (`aci.go`) | items (pointers), the slice | NewTargetRuleItem, setters, Push, the text parser | filters, for `targetfilter`; instructions | nine items at most; one item a keyword; a valid rule stays valid |
| permissions (`aci.go`) | a 16-bit set | Shift, Unshift, String, parse | permission bind rules | rights are read back as written |
| permission bind rules, instructions (`aci.go`) | a slice of pairs; label, target rule, permissions | Push, parse, NewInstruction of one to three arguments | all of the above | an accepted instruction is complete; items stay; items are valid unless a setter changed them |
| refinements and registry (`subtree.go`) | two maps; the receiver of Push | RegisterOID, Resolve, parse, Push, Verify | subtree specifications; filters, by conversion | the maps agree; Push loses no argument but behind a bad text, and what it parses verifies; verification is not lost to a registration |
| subtree specifications (`subtree.go`) | the specification that five functions fill | NewSubtreeSpecification, String | refinements | every component lands in its field whatever the names hold; a cut is in range; String is read back |
| filters (`filter.go`) | none beyond the recursion | NewFilter, String | target rules, attribute filters | every filter of the grammar is accepted as itself, nothing is lost, every call answers |
| guides (`guide.go`) | the parser's position | criteria parser, String | - | every guide of the grammar is accepted as itself; where the parser is looser is known; every call answers |
| BER (`filter_asn1.go`, `subtree_asn1.go`, parts of `guide.go` and `substr.go`) | none; a receiver that may have been used | Encode, Decode by tag | `encoding/asn1` (external) | decode gives what was encoded |
| substrings and matching (`substr.go`, `cbm.go`) | what is left of the value | parse, String, match | filters | the matcher says what the RFC says; String is read back |
| integers (`integer.go`) | a number in two forms, one of them shared by copies | constructors, Big, Increment, comparisons, Encode, Decode | BER | copies alone follow a change; what is decoded compares as what was encoded |
| bit strings (`bitstr.go`) | a length, and bytes shared by copies | Set, Unset, Has, At, Encode, Decode | BER | padding stays clear, so that Decode takes what Encode gives |
| lists of `aci` (names, OIDs, attributes) | slices behind a pointer | Push of texts and lists, Eq and Ne, String, the readers | bind and target rules | no duplicates; what is written is read as the same list |
| attribute filter operations of `aci` | filters and items, shared pointers | constructors, setters, Push, String, the parsers | filters, target rules | what is written is read back; conflicts are refused |
| small values of `aci` (days, levels, times, strength factors, addresses) | a set or a number | Shift, Set, parse, String | bind rules | written is read back |
| names and descriptions (`dn.go`, `at.go`, `oid.go`) | none | parse, compare | almost everything | equality is an equivalence; text is read back |
| flat values (telephone, postal, time, UUID, URI, NIS, images, X.509, strings) | none | parse, String | the verifier table | conversions, within reach of tests |
| tables and helpers (`syn.go`, `misc.go`, ...) | none | lookup | - | - |

The packages `go-directory/common` (bit values) and `go-directory/encoding/asn1` are
imported and not part of the repository.

## 2. Modules

    BindRules            the heap of bind rule objects
      MCBindRules, BindRulesProofs
    BindRuleParser       the parser, as a stack of loops
      BindRuleGrammar    what it promises: the rule of a token list, in one step
      MCBindRuleParser, BindRuleParserProofs
    TargetRules          items, the rule, and the parser Push runs
      MCTargetRules, TargetRulesProofs
    Instructions         permissions, permission bind rules, instructions
      MCInstructions, InstructionsProofs
    Refinements          the registry, Resolve, Push and Verify
      MCRefinements, RefinementsProofs
    Filters              the parser of filters, as a stack of calls
      FiltersProofs
      FilterCodec        what a filter returned is encoded to, and decoded from
      MCFilters          and the grammar of RFC 4515 as its reference
    Guides               the criteria parser, as a stack of calls
      GuideCodec, MCGuides
    SubtreeSpecifications  the five components, read from one text
      SubtreeCodec, MCSubtreeSpecifications; proved about in RefinementsProofs
    TLV                  tagged elements, which the three codecs are made of
    Cuts                 texts joined with a separator, and cut at it, by the next two and
                         by Substrings
    ValueLists           the lists an item of a target rule may have
    AttributeFilterOperations  its attribute filters
      MCTargetRules      target rules, and these two; TargetRulesProofs has all three
    IntegerValues, BitStrings, Substrings
      MCAttributeValues  the three, each by itself
      AttributeValuesProofs
    SequenceLemmas       facts the proofs share, about positions, sequences and Cuts: that
                         texts without the separator, joined and cut again, are the same

Operators named `...` with the comment "Mutant" are alternative forms of the
definition that follows them, with a plausible bug. No specification uses them;
each shows that a property is able to fail.

### BindRules

A Go value such as `BindRuleAnd` is a struct that embeds a pointer, so a handle
is a reference: `kind`, `kids`, `item` and `style` are the heap, by object. `Zeros` are
the zero values, handles without a pointer, and `NoRule` is the nil interface, which
`NewBindRule` can return without an error and `Push` can append. `Push` takes any
number of arguments, and is one step per argument: `loop` is its receiver while it
runs. A call that faults (a Go panic) or that recurses over a cycle for ever is
recorded in `out`; after it nothing happens, which is why these runs allow
deadlock. Of a text argument the module keeps what Push and the constructors
tell apart: an error, an item, or words without an operator, which parse to nil.
Valid and String recurse over the heap: `Visit` is their recursion, with a depth no heap
without a cycle exceeds, and `ValidHere` and `StringHere` what they do at one object. What
lies below an object is `Reached`: the least set closed under the links.

### BindRuleParser and BindRuleGrammar

`processACIv3BindRule`, `parseACIv3BindRuleGroup`, `parseACIv3BindRuleExpression` and
`parseACIv3BindRuleTokens` share `*pos`. Their recursion is `stack`, one frame a loop with
its operands and operators; `mode` says whether an operand or an operator comes
next. A maximal run of value tokens is one token of the model, of three classes:
an item, words without an operator, and one with a keyword or value that is
refused. The list is drawn token by token as the parser reaches it, since it never
looks ahead, so that all lists are explored and no tail is that does not matter.

`BindRuleGrammar` says what a list stands for by cutting it at its outermost
operators; it has no position and no loop. `MCBindRuleParser` maps the one to the
other and checks it as a refinement, liveness included: the parser answers.

### TargetRules

`item` is a heap of items shared with the caller, `slice` the rule. The parser of
a text is met token by token: `text` keeps how many of the first three tokens were
read, whether they begin an item, and whether values followed. When an item is
closed, whether its values are accepted for its keyword is a choice. The loop that
never ends is the mode `stuck`, out of which no step leads; an index out of range
is `panic`.

### Instructions

`Permission`, `PermissionBindRule` and `Instruction`, with bind rules reduced to
whether Valid accepts them (BindRules) and target rules to what their parser may do
(TargetRules). `at` is the call under way; each part of `NewInstruction` is a step, so
that what an error leaves behind is seen. A text of permissions is met segment by
segment.

### Refinements

`fwd` and `rev` are `OIDFwdMap` and `OIDRevMap`. `RegisterOID` is atomic, because no
other call can come between its loops; its two passes are written as the two
maps' values after them. `Push` is one step an argument, with the variable `failed` for
the `err` that outlives an iteration: after a text that is refused, refinements are left
out until a text parses, and a text never is. `PushKeeps` says so of the arguments as they
came, for which `base` and `given` keep the history of the call. A refinement without
names (`and:{}`) is parsed and does not verify. Descriptors have a case: `Lower` is
`strings.ToLower`.

### Filters

`parseSubFilter` calls itself on slices of its argument. `arg` is the argument of the
call being made, and a frame of `stack` is a `parseComplexFilter` loop or a
`parseFilterNot`, with the text that is left and the filters it has. `"(&"` stands for
`(&` and `(|`, whose code is the same. A token is a parenthesis, a blank or an item,
which is a run of other characters with its first `=`; four classes of items are told
apart by what `parseItemFilter` makes of them. Parentheses may come in any order: the
code counts them, and no more. Go faults where a slice is out of range and `SubSeq` does
not, so the cuts of the text are guarded: `Cut` and `ItemOutcome` go on only if the bounds
are in range (`InRange`), and end in `Fault` if not.

### FilterCodec, GuideCodec, SubtreeCodec and TLV

Each codec extends the parser, so that what is encoded is what a parser returned.
An encoding is a tree of elements with a class, a kind and a number, which are the
code's; octets below that are `encoding/asn1`'s. That package is not here, and how its
`UnwrapTLV` treats an element with another tag cannot be told: `filter_test.go:62`
passes only if it hands the element back. `Decode` takes both behaviours, and
`RoundTrips` holds of both, except that a filter with substrings needs the lenient one.
Items of filters are given all seven choices (`Forms`). A subtree specification is
decoded into a new value and into a used one, because Decode assigns only what it finds.

### Guides

As Filters, with one position over one text: `pos` counts tokens, and `cut` the bytes
of the next token that are gone, because the parser skips one byte behind a criteria
in parentheses whatever it is. `entry` is NewGuide or NewEnhancedGuide, `raws` the parts
between `#`. `MCGuides` has the grammar of RFC 4517 (3.3.10, 3.3.14) as its reference.

### SubtreeSpecifications

One action per marshal function, in the order of the calls. Each looks for the word of its
component in the whole text (`Found`, `After`), and cuts with its own function: `BaseOf`,
`ExclusionsOf`, `DistanceOf`, `FilterOf`. All five run, whatever fails; the fifth drops its
error. Whether a class is known is left to Refinements: no registry is in use.

### ValueLists

A list is a pointer to a slice. `Push` and `PushList` are the four Push methods, whose
duplicate checks differ; `NewRuleItem` is Eq and Ne, `ShareList` is SetExpression.
`ReadByRule` is what the parser of a target rule makes of what the item writes, quoted
as one text or one by one, and `ReadByItem` what the parser of an item by itself does.

### AttributeFilterOperations

The filters and the items made are shared pointers (`filter`, `operItem`), `oper` an
operation made of one item, `read` one read from a text. Texts are cut as the code cuts
them: at the first delimiter, wherever it is, at every `&&`, at the first colon.

### IntegerValues, BitStrings and Substrings

An Integer is `big`, `ok`, `native` and `bigInt`, as in the code, with the big.Ints in a
heap (`bigs`) that copies and the caller refer to. `Increment` of a native value by a big
one does what `upgrade` does: it leaves `big` false. A byte has `ByteBits` bits and an
int64 `NativeBytes` bytes. A BitString refers to an array (`data`); `Set` behind its
end makes another array, in front of it writes into the one its copies have. `kin` and
`shared` are history: who may have one storage with whom. In `Substrings`, the matcher
is one step for the initial, one for each inner substring and one for the final, and
`rest` is what is left of the value.

## 3. Runs

| run | distinct states | what it asks |
|---|---|---|
| `bindrules` | 73,780 | any calls on shared rules: what a Not may hold, and the causes of faults, cycles and stale validity |
| `bindruleparser` | 928,134 | any list of up to seven tokens, three entry points: the grammar is implemented, indices are in range, what is written is read back |
| `targetrules` | 208,617 | pushes of items and texts, setters on items held: the limit, duplicates, validity. Lists of values: no name twice, and what a quoted list is read as. Attribute filter operations: which are read back |
| `instructions` | 1,002,144 | NewInstruction in all forms with shared parts: completeness, rights read back, validity |
| `refinements` | 115,657 | registrations, resets and pushes in any order: agreement of the maps, which arguments Push keeps, verification |
| `filters` | 329,231 | texts of the grammar, edited texts and all short ones: acceptance, nothing lost, faults, an answer; what is accepted, encoded and decoded |
| `guides` | 205,793 | the same of guides, and in which ways the parser is looser than the grammar |
| `subtrees` | 154,671 | spellings with names that hold commas, braces, backslashes and the words of components, and edited texts: acceptance, faults, text and encoding read back |
| `attributevalues` | 1,142,799 | Integers and bit strings with copies: who follows a change, what is decoded, how it compares; substring matching against its definition |

The bounds:

* `bindrules`: three objects give a shared child, a self push and a cycle of two beside
  another rule; two children give an order and a prefix. Two keywords are needed for a
  value of the wrong one. The formatting flags are left out (`Flags = {}`): no property
  is about them.
* `bindruleparser`: `MaxTokens = 7`, enough for a group within a group with an operator
  in both, and for every shorter malformed list.
* `targetrules`: `MaxItems = 2` stands for nine: the limit is reached, inside a text and
  between arguments, with an item and a text to spare. Two lists of `MaxValues = 2`
  values give every merge and every repetition; the texts have a name in two cases and
  with the prefix in two cases. `MaxFilters = 2`, `MaxOperationItems = 1`, `MaxPieces = 3`:
  an item that holds one filter twice, beside one it does not hold. One text is read in a
  behaviour, of about a thousand: a part has up to two pieces, of which one may be refused.
* `instructions`: two of each shared object, at most `MaxItems = 2` items in all
  permission bind rules (a state constraint), three rights and one bit without a name.
* `refinements`: two OIDs, so that a descriptor can move; one descriptor in two cases;
  `MaxRefs = 2` and `MaxArguments = 4`: a refused text, a refinement that is lost to it, a
  text that parses and a refinement that is kept again, on one receiver.
* `filters`: any text of up to two chunks (a chunk is a token or an item in parentheses),
  any balanced one of up to four, and all filters of two levels over two items, written and then
  edited by one token. `Chars` makes one item short enough that a not of it is just
  long enough, eight characters.
* `guides`: as `filters`, with three chunks, and every match type in every position of a
  criteria of one level.
* `subtrees`: up to two exclusions, refinements of two levels, numbers of one and two
  digits; eight names; a blank more or less between components. A specification with
  all five components, and every refinement, with one token too many or too few.
* `attributevalues`: an int64 of two bits (`ByteBits = 1`, `NativeBytes = 2`: -2 to 1) and
  magnitudes up to 3 (`MaxMagnitude`), so that values are on both sides of either limit
  and an increment crosses it both ways; two Integers and the caller's big.Int; bytes
  of two bits, two of them (`MaxBits = 4`), so that a length ends inside and at the
  end of a byte; values of five letters over two, assertions with two inner substrings of
  two letters, every text of four, and pairs of backslashes and dollars where the matcher
  drops them.

SYMMETRY is used where no liveness is checked and the objects are interchangeable.
`MaxKids`, `MaxTokens`, `MaxRefs` and the bounds of the values bound the models and nothing
in the code; `MaxItems` of `TargetRules` is the code's own limit, that of `MCInstructions` is
a bound.

Three more runs end in a violation: each states what a comment of the code says, and
shows a run of the code's model that does otherwise.

| run | the comment | the code |
|---|---|---|
| `silentinvalid` | an invalid filter comes with an error | not if its value is at fault (`filter.go:958`) |
| `increment` | Increment adds the magnitude of its argument | two native values wrap; a native value and a big one make 0 (`integer.go:259`) |
| `conflicts` | the result of a split is scanned for conflicts | the error is overwritten (`aci.go:6402`) |

### Differences the models have and no run states

They were found while the code was translated, most of them by a property that had to
say so; the models do what the code does.

* SetParen of a Not calls IsParen of its child and changes nothing (`aci.go:1684`), against
  `aci.go:1523`; Valid of a Not without a child faults (`aci.go:1447`), against `aci.go:1553`.
* A permission bind rule without an item is accepted (`aci.go:5428`), against `aci.go:31`.
* A numeric OID resolves to itself (`subtree.go:1199`), against `subtree.go:1216`; a registered
  descriptor with an upper-case letter is refused (`subtree.go:1278`), against `subtree.go:1163`.
* A rule may come to hold two items of one keyword, which the comment of TargetRule
  excludes, but only by a setter on an item it holds (`DuplicatesComeFromSetKeyword`).
* A blank after `(&`, `(|` or `(!` becomes a filter of its own, the default
  `(objectClass=*)`: `(| (cn=x))` matches everything.
* `(2.5.4.3=x)` and `(cn;lang-en=x)` are accepted as filters and cannot be encoded.
* A guide whose object class is a descriptor, `person#cn$EQ`, is refused: `guide.go:286` and
  `guide.go:127` want a numeric OID (`oid.go:354`), against the `object-class = WSP oid WSP` of
  `guide.go:18` and `guide.go:195`, where an oid may be either. The reference has both kinds;
  `GrammarAccepted` says that all guides of the first are refused.
* The attributes of a guide's criteria are never looked at; a guide without an object
  class cannot be encoded; a failed Decode leaves empty sets in the receiver.
* `specificationFilter and:{item:x, item:` with a bad second item keeps the first; an
  exclusion spelt `chopBefore:"x"`, as the RFC spells it, is refused; a base or a distance
  wants exactly one blank before it; a name that holds the word of another component is
  read as that component (`Hijacked`).
* A big Integer is decoded to one that is 0 (`integer.go:178`); `NewInteger("-")`
  dereferences nil.
* The quotation style of attributes has no effect, though `aci.go:5161` lists it. Between two
  quotes, a list of OIDs or names is one value or none; an item by itself is read
  with one value only (`QuotedReadsBack`). `ldap:///` in capitals gets a second prefix.
* Lists of OIDs that are merged may repeat (`NoRepeats`); `*` as a text makes an
  attribute list, and Eq refuses it.
* `add=cn:(o=bad)` with a value that is refused is accepted, written without its filter,
  and read back with the default one; two parts that both add are accepted.
* `distinguishedNameMatch` makes both names from its first argument (`dn.go:548`); this file
  is not modelled.

## 4. Fairness

Only three parsers have liveness properties. They are loops of one call on a
finite text in the caller's goroutine: once called, the next step is taken if there
is one, so weak fairness of the step is what Go guarantees. In `BindRuleParser`
the drawing of tokens is fair only in that a list ends; in `Filters` and `Guides` the
text is given. Encoding what was parsed is the caller's choice, and is not fair. The
other specifications are driven by callers who may stop at any time, and have no
fairness and no liveness.

## 5. Proofs

| module | theorem | for every value of the constants |
|---|---|---|
| BindRulesProofs | TypeCorrect, NotHoldsOneRuleAlways, AppendOnlyAlways | the heap is well-typed; a Not holds one rule, never a Not or nil; slices only grow |
| | FaultsAlwaysHaveACause, CyclesOnlyOverValidRules, ValidityKept | heaps of any size, shared and cyclic: why a call faults or never returns, how a cycle closes, how a valid rule becomes invalid |
| BindRuleParserProofs | OperandsAlwaysMatch, FaultsAreEmptyGroups | lists of any length: no operand is missing where one is indexed; only an empty group faults |
| | AcceptedHasADerivation, DerivationsAreAccepted | lists of any length: what is returned is derived by the grammar, and what is derived is returned: no list has two rules |
| | ParsesEnd | lists of any length: every step leaves less to do |
| TargetRulesProofs | LimitHolds, DuplicatesOnlyFromSetters, ValidityKept, NothingMoves | the limit; where duplicates and invalid items come from |
| | ListsHaveNoRepeats | lists of any number and length: no name twice in any spelling |
| | WhatIsQuotedIsReadBack | lists of any length, whoever shares them: which of the written lists a rule reads back, and which an item |
| | WhatIsWrittenOfOperationsIsReadBack | any number of filters, items and pieces, shared and changed in any order: which of the written operations are read back |
| InstructionsProofs | ReadBackAlways, CompleteAlways, ValidityKept, NothingMoves | rights read back; accepted means complete; validity |
| RefinementsProofs | MapsAgree, VerificationIsKept, ParsedAlwaysVerifies | no half registration; what is parsed verifies, and does so after every registration |
| | ArgumentsAreKept | pushes of any number of arguments: the receiver grows by one for each that no error shuts out, and what verifies stands where a text was parsed |
| | FaultsAreOpenBases, CutsStayInRange | specifications of any length: every cut is in range but that of an open base |
| FiltersProofs | OnlyHollowFaults | texts of any length and depth: the balance check keeps the cuts in range; only `:=x` faults |
| | AcceptedHasADerivation | what is returned for a text is derived for it, by RFC 4515 and the four things the parser takes beyond it |
| | DerivationsAreAccepted | what RFC 4515 derives for a text, short nots apart, is what is returned: no text has two filters |
| | ParsesEnd | texts of any length and depth: every step leaves less to parse, so that NewFilter returns |
| AttributeValuesProofs | FirstOccurrenceTheorem | values and assertions of any length: the matcher decides what RFC 4517 defines |
| | WrittenReadsBack | assertions of any length: what is written is read back as the same substrings |
| | IntegersRoundTrip, OnlyCopiesFollowTheorem | integers of any width: a value that fits an int64 is decoded as itself, any other as 0, and all compare as their numbers; only copies follow a change |
| | PaddingIsClearTheorem | bit strings of any length and number: Decode takes what Encode gives, unless bytes are shared |

Assumptions are those named in the modules: that names of different kinds differ,
that folding to lower case is idempotent, that bounds are natural numbers, that a byte has a
bit, that texts are sequences, and that the value of a filter has neither the parentheses
nor the token that stands for what NewFilter refuses. TLC evaluates them in every run.

The inductive invariants:

* **BindRules**: `TypeOK /\ NotHoldsOneRule`. That a Not's child is no Not must survive
  allocation, and does because `TypeOK` has no link to an object not yet made. The other
  three theorems are about the recursions of Valid and String, over a heap that may have
  cycles. A recursion that ends does so for something it met below its object
  (`VisitHasACause`); one that does not met a cycle, because without one every link leads to
  an object with strictly less below it. Valid accepts an object exactly if all below it is
  sound by itself and on no cycle (`OkBelow`, `ValidWhenSound`). What is left is which links
  a step adds (`NextLinks`) and which objects it makes unsound (`NextSound`).
* **BindRuleParser**: `TypeOK /\ OperandsMatchOperators`, stated of a stack as `Loops(st, n)`:
  every loop has one operand for each operator, the innermost `n` more. A group that
  closes needs its operand and an enclosing loop, and hands one on. For the faults,
  `NoRuleBehindOpened`: as long as a group has no rule, its parenthesis is one or two tokens
  back. For the derivation, `DerivedSoFar`: there is a place where each loop began, behind the
  parenthesis the loop outside it waits for an operand at, and what a loop has collected is
  derived for the tokens from there to the position. The grammar is given as `Productions` that
  two sets are closed under, and a derivation is membership in all such sets. That needs no
  recursion, and it is not empty: `DerivationsExist` builds such sets. The converse takes the
  parser on a list that is known as a whole: its next place is a function of where it stands
  (`Leads`), each production is a run of that function, and no run leads on from an outcome.
  So what is derived for the list lies ahead of the parser all the way (`OnTheWay`). `Left`
  weighs the tokens to draw and to pass and how far the parser is between two of them.
* **TargetRules**: `TypeOK /\ WithinLimit`. The action properties follow from it,
  since an item in the slice was made and is not made again. **ValueLists**: `ListsInv`, each
  list by itself a `GoodList` for whether a list was pushed to it; what a pushed list brings is
  looked at name by name (`PushedInTurn`). For what is read back, `QuotedInv`: in every list, and in the one an item has of its own, each
  value is one its kind's Push takes (`ValueOf`). Written one by one, the values are pushed in
  turn and each is found to be new exactly where it was; written between two quotes, all of
  them are one token, which is a value exactly if there is one. Two arms of `Values` had
  overlapped, which TLC reads as the first and TLA+ leaves open; they are disjoint now.
  **AttributeFilterOperations**: `AfoInv`. An item has filters that were made, an operation
  an item that was made, and one that was read has only valid filters. An item's
  text is cut at every `&&`, an operation's at its first delimiter, so what is read depends
  on what the values hold. A value that holds one of them is told by where it falls: every piece
  that is written begins with an attribute and ends with `)` (`NormalText`), so a text cut
  inside a value has a fragment that does neither and is not written again (`ItemBack`,
  `BrokenText`). `KeptOfNormal` is the converse: where all fragments are whole pieces, the cuts
  were between the pieces. What the values may be is said of every value the
  parsers return (`AfoValues`), not of those in the configuration alone.
* **Instructions**: `TypeOK /\ CallMatches`, which says how far the call under way is
  with the instruction it makes.
* **Refinements**: `TypeOK /\ RegisteredTogether`. Verification is kept because the
  domains of the maps only grow between resets, and a reset makes the registry unused,
  when everything verifies. What was parsed verifies because Resolve returns the name it
  was given: a registered descriptor as it is, and a registered numeric OID as it is, for
  which `OIDRevMap` keeps no descriptor (`NoDescriptorKept`, `ResolvedAsWritten`). So what
  was resolved is resolved again. For Push, `KeepInv`: `failed` holds exactly if the next
  argument has a refused text before it and no parsed one in between, which is what decides
  over the next refinement (`OneMoreArgument`); the places of those before it stay.
* **SubtreeSpecifications**: `SubtreeInv`. The invariant is small; the work is in the cuts,
  which are at first and last positions of what the functions look for.
* **Filters**: `TypeOK /\ FaultsOnlyOnHollow /\ Within`. A cut is out of
  range only in a text that is one opening parenthesis: it is not balanced, and trimming
  leaves the balance as it is (`OpenerIsNotAlone`). The other fault depends on a token, so
  every text in work, the argument and the rest of each frame, is kept within the
  text given. The cuts are at first and last positions, whose existence is
  `FirstPosition` of `SequenceLemmas`: the least-number principle, from the
  well-foundedness of strict inclusion among finite sets. Derivations are again membership in
  all sets closed under productions, strict or lax. `OnTrack` says of every frame that the text
  of its call is its opener, what it has read, with a derivation, the part that is being
  parsed, its rest and its last token; `OnCourse` says, for any filter the text derives,
  which filter each call still owes. The second needs that the parser cuts where the
  derivation does: a derived text is balanced, and no shorter piece from its front is.
  `Left` counts the tokens in the rests and in the argument, each worth more than the call it
  opens; a step moves tokens from a rest to the argument, or drops some. That needs `Asked`: the
  argument is empty only if a not has nothing in it.
* **Substrings**: `MatcherInv`. Whenever the inner substrings found so far can be placed one
  behind the other in the value, the matcher is at the earliest place the last of them can end
  (`Halfway`). A match of the rest from anywhere later is one from there. For what is read
  back, `AcceptedOnce`: the substrings are those of a text that was accepted. Such a text is
  told by where its asterisks are (`Marks`): the segments are the pieces between two of them,
  the parts are the segments but an empty first and last, and joined they are the text again.
* **IntegerValues**: the type invariant, by which a native value fits its bytes, for the
  round trip; `KinInv` for the copies: two holders of one big.Int are recorded as kin. Powers
  of two, which bound what an encoding of n bytes holds, are built from their initial pieces.
* **BitStrings**: `BitsInv`. The bytes are as many as the bits need; two strings with one
  array are in the history; bytes that are one string's alone are clear behind its length.

Only model-checked:

* Liveness, which the prover does not do: `Answers`, and the answer in `ImplementsGrammar`.
  The safety part of it, that no run is without end, is `ParsesEnd` for the two parsers.
* What recursive definitions over data compute, which would need an induction the provers
  cannot instantiate: the grammars, the printers and the codecs (`ImplementsGrammar`, whose
  two halves are `AcceptedHasADerivation` and `DerivationsAreAccepted` in another form, as
  they are of `GrammarAccepted` for filters;
  `ReadsBack` of all but the substrings, `GrammarAccepted`, `KeepsSkeleton`, `LaxOnlyFor`, `SpellingsAccepted`, `RoundTrips` of the
  codecs).

Proved and in no run: `TypeCorrect`, `AppendOnlyAlways`, `NothingMoves`, `CutsStayInRange`,
`ParsedAlwaysVerifies`, and of both parsers `ParsesEnd`, `AcceptedHasADerivation` and `DerivationsAreAccepted`. The theorems say of every instance what a run would say of one.

## 6. Not modelled

* The values of expressions: which addresses, names, times or strength factors a
  keyword accepts is a choice in the models that call for it.
* Tokenizers, where they only cut strings; what is kept is what they can return.
* Numbers outside the named constants (`TargetKeyword(99)`) and shifts whose effect
  is decided by the external bit value package.
* Data races: a program may call the library from several goroutines, but the
  library promises nothing to it and no comment says it does.
* The octets of an encoding, and what the external package does with a malformed one: the
  codecs are run on what the library encodes.
* Distinguished names and attribute descriptions: work on characters without state.
* The flat values, the small values of `aci`, the character sets and the tables, listed in
  `PROJECT.json`: they keep no state, or one assignment's worth, and their tests reach
  what they do.

## 7. Plan

Modelled, in the order of importance: bind rules and their parser, instructions and
permissions, target rules, the registry and its refinements, filters; then guides,
subtree specifications, the three codecs, substrings, integers, bit strings, lists of
values, attribute filter operations. Proved: what section 5 lists.
What is left is to prove, in this order:

1. The type invariant of `Guides`: a call that returns has a frame to return to, and the
   position never passes the end.
2. `LaxOnlyFor`, as far as it can be said without recursion, by productions as for filters.

The codecs, the grammars and the printers are recursive over data and stay with TLC.
Not planned, with the reasons of section 6: distinguished names, attribute descriptions, the
flat and the small values.
