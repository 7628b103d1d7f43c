---------------------------- MODULE Instructions ----------------------------
(***************************************************************************)
(* ACIv3 instructions (aci/aci.go): Permission, a pointer to a set of      *)
(* rights, PermissionBindRule, a pointer to a slice of permissions paired  *)
(* with bind rules, and Instruction, made of a target rule, a label and a  *)
(* permission bind rule by the one, two and three argument forms of        *)
(* NewInstruction.                                                         *)
(*                                                                         *)
(* Everything but the Instruction is a pointer: an instruction made of     *)
(* values the caller still has changes with them.  The disposition of a    *)
(* permission never changes and is left out; of a bind rule the model      *)
(* keeps whether Valid accepts it (BindRules), of a target rule what its   *)
(* parser may do (TargetRules), and of a label whether there is one.       *)
(***************************************************************************)
EXTENDS Naturals, Sequences, SequencesExt

CONSTANTS
    Perms, Rules, PBRs, Insts,  \* the objects a program may make
    Named,                      \* the bits of a Permission that are named rights
    Proxy,                      \* the named right "all" does not include
    Unnamed,                    \* the other bits of its sixteen
    NoPBR, NoInst               \* no such object

ASSUME BitsAssumption == Proxy \in Named /\ Named # {Proxy} /\ Named \cap Unnamed = {}
ASSUME WordsAssumption == {"all", "none", ""} \cap Named = {}
ASSUME ObjectsAssumption == NoPBR \notin PBRs /\ NoInst \notin Insts

VARIABLES
    made, perm, \* the permissions made, and their rights
    rule,       \* the bind rules: what Valid says of each
    pbrs, pbr,  \* the permission bind rules made, and their items
    inst,       \* the instructions
    at          \* the Push or NewInstruction under way

values == <<made, perm, rule>>
vars   == <<made, perm, rule, pbrs, pbr, inst, at>>

Bits  == Named \cup Unnamed
Item  == Perms \X Rules
Idle  == [mode |-> "idle", pbr |-> NoPBR, inst |-> NoInst, text |-> FALSE]
Calls == [mode : {"idle", "push", "targets", "label", "permissions", "segments", "stuck", "panic"},
          pbr : PBRs \cup {NoPBR}, inst : Insts \cup {NoInst}, text : BOOLEAN]
Instruction == [status : {"free", "building", "ok", "refused"}, label : BOOLEAN, pb : PBRs \cup {NoPBR}]
Zero  == [status |-> "free", label |-> FALSE, pb |-> NoPBR]

-----------------------------------------------------------------------------
(* Permission                                                              *)

AllAccess == Named \ {Proxy}
Words     == Named \cup {"all", "none", ""}

\* Permission.String: the words between the parentheses.  A bit that has no name
\* is written as the empty word.
Written(rights) ==
    CASE rights = AllAccess -> {"all"}
      [] rights = Named     -> {"all", Proxy}
      [] rights = {}        -> {"none"}
      [] OTHER              -> (rights \cap Named) \cup {"" : b \in rights \ Named}

\* Mutant: "all" is every named right.
MeaningAll(w) ==
    CASE w = "all" -> Named
      [] w \in Named -> {w}
      [] OTHER -> {}

\* aCIRightsNames: what a word of a text stands for; unknown words are skipped.
Meaning(w) ==
    CASE w = "all" -> AllAccess
      [] w \in Named -> {w}
      [] OTHER -> {}

\* parseACIv3Permission: the words are shifted into a new value one after another.
Read(words) == UNION {Meaning(w) : w \in words}

NewPermission(p, rights) ==
    /\ at.mode = "idle" /\ p \notin made
    /\ made' = made \cup {p} /\ perm' = [perm EXCEPT ![p] = rights]
    /\ UNCHANGED <<rule, pbrs, pbr, inst, at>>

Shift(p, rights) ==
    /\ at.mode = "idle" /\ p \in made
    /\ perm' = [perm EXCEPT ![p] = @ \cup rights]
    /\ UNCHANGED <<made, rule, pbrs, pbr, inst, at>>

Unshift(p, rights) ==
    /\ at.mode = "idle" /\ p \in made
    /\ perm' = [perm EXCEPT ![p] = @ \ rights]
    /\ UNCHANGED <<made, rule, pbrs, pbr, inst, at>>

\* The constructors and setters of bind rules (BindRules): a rule is valid or not,
\* and a setter may change which.
NewBindRule(b, validity) ==
    /\ at.mode = "idle" /\ rule[b] = "free"
    /\ rule' = [rule EXCEPT ![b] = validity]
    /\ UNCHANGED <<made, perm, pbrs, pbr, inst, at>>

SetBindRule(b, validity) ==
    /\ at.mode = "idle" /\ rule[b] # "free"
    /\ rule' = [rule EXCEPT ![b] = validity]
    /\ UNCHANGED <<made, perm, pbrs, pbr, inst, at>>

-----------------------------------------------------------------------------
(* PermissionBindRule                                                      *)

NewPermissionBindRule(o) ==
    /\ at.mode = "idle" /\ o \notin pbrs
    /\ pbrs' = pbrs \cup {o}
    /\ UNCHANGED <<values, pbr, inst, at>>

PushStart(o) ==
    /\ at.mode = "idle" /\ o \in pbrs
    /\ at' = [Idle EXCEPT !.mode = "push", !.pbr = o]
    /\ UNCHANGED <<values, pbrs, pbr, inst>>

\* Mutant: the item is not asked whether it is valid still.
PushItemUnchecked(p, b) ==
    /\ at.mode = "push" /\ p \in made /\ rule[b] # "free"
    /\ pbr' = [pbr EXCEPT ![at.pbr] = Append(@, <<p, b>>)]
    /\ UNCHANGED <<values, pbrs, inst, at>>

\* An argument that is an item NewPermissionBindRuleItem made of the two.
PushItem(p, b) ==
    /\ at.mode = "push" /\ p \in made /\ rule[b] # "free"
    /\ pbr' = IF rule[b] = "valid" THEN [pbr EXCEPT ![at.pbr] = Append(@, <<p, b>>)] ELSE pbr
    /\ UNCHANGED <<values, pbrs, inst, at>>

\* An argument that is text with a ";"; one without is an error, and dropped.
PushText ==
    /\ at.mode = "push"
    /\ at' = [at EXCEPT !.mode = "segments"]
    /\ UNCHANGED <<values, pbrs, pbr, inst>>

PushEnd ==
    /\ at.mode = "push"
    /\ at' = Idle
    /\ UNCHANGED <<values, pbrs, pbr, inst>>

\* The call returns to Push, which forgets the error, or out of NewInstruction.
Returns(status) ==
    IF at.inst = NoInst
    THEN at' = [at EXCEPT !.mode = "push"] /\ inst' = inst
    ELSE at' = Idle /\ inst' = [inst EXCEPT ![at.inst].status = status]

\* A segment between two ";" of the text: a permission and a bind rule of its own.
Segment(p, b, words) ==
    /\ at.mode = "segments" /\ p \notin made /\ rule[b] = "free"
    /\ made' = made \cup {p} /\ perm' = [perm EXCEPT ![p] = Read(words)]
    /\ rule' = [rule EXCEPT ![b] = "valid"]
    /\ pbr' = [pbr EXCEPT ![at.pbr] = Append(@, <<p, b>>)]
    /\ UNCHANGED <<pbrs, inst, at>>

\* A segment that is refused ends the loop; what the ones before it pushed stays.
SegmentRefused ==
    /\ at.mode = "segments" /\ Returns("refused")
    /\ UNCHANGED <<values, pbrs, pbr>>

\* A segment that ends with ")" has no room for a bind rule: x[idx+2:idx2] is out of
\* range.
SegmentFaults ==
    /\ at.mode = "segments" /\ at' = [at EXCEPT !.mode = "panic"]
    /\ UNCHANGED <<values, pbrs, pbr, inst>>

\* No segment is left, empty ones being skipped.
SegmentsEnd ==
    /\ at.mode = "segments" /\ Returns("ok")
    /\ UNCHANGED <<values, pbrs, pbr>>

-----------------------------------------------------------------------------
(* Instruction                                                             *)

\* NewInstruction() returns an empty instruction and no error.
NewInstruction(i) ==
    /\ at.mode = "idle" /\ inst[i].status = "free"
    /\ inst' = [inst EXCEPT ![i].status = "ok"]
    /\ UNCHANGED <<values, pbrs, pbr, at>>

\* NewInstruction(text): refused unless it has "version 3.0;" past its beginning.
ParseText(i) ==
    /\ at.mode = "idle" /\ inst[i].status = "free"
    /\ \/ /\ inst' = [inst EXCEPT ![i].status = "building"]
          /\ at' = [mode |-> "targets", pbr |-> NoPBR, inst |-> i, text |-> TRUE]
       \/ inst' = [inst EXCEPT ![i].status = "refused"] /\ at' = at
    /\ UNCHANGED <<values, pbrs, pbr>>

\* parseLen2 begins with the label, parseLen3 with the target rule.
ParseArguments(i, mode) ==
    /\ at.mode = "idle" /\ inst[i].status = "free" /\ mode \in {"targets", "label"}
    /\ inst' = [inst EXCEPT ![i].status = "building"]
    /\ at' = [mode |-> mode, pbr |-> NoPBR, inst |-> i, text |-> FALSE]
    /\ UNCHANGED <<values, pbrs, pbr>>

\* The target rule is accepted (or the text has none), or refused, or its parser
\* does not return (TargetRules).
TargetsEnd ==
    /\ at.mode = "targets"
    /\ \/ at' = [at EXCEPT !.mode = "label"] /\ inst' = inst
       \/ Returns("refused")
       \/ \E m \in {"stuck", "panic"} : at' = [at EXCEPT !.mode = m] /\ inst' = inst
    /\ UNCHANGED <<values, pbrs, pbr>>

\* Mutant: an empty label is a label.
LabelEmptyAccepted ==
    /\ at.mode = "label"
    /\ at' = [at EXCEPT !.mode = "permissions"] /\ inst' = inst
    /\ UNCHANGED <<values, pbrs, pbr>>

\* The label: a quoted one of a text, or a string argument, that is not empty.
Label ==
    /\ at.mode = "label"
    /\ at' = [at EXCEPT !.mode = "permissions"]
    /\ inst' = [inst EXCEPT ![at.inst].label = TRUE]
    /\ UNCHANGED <<values, pbrs, pbr>>

\* No label, or, as an argument, an empty one.
LabelRefused ==
    /\ at.mode = "label" /\ Returns("refused")
    /\ UNCHANGED <<values, pbrs, pbr>>

\* An empty label in a text: the character before its closing quote is a[-1].
LabelFaults ==
    /\ at.mode = "label" /\ at.text
    /\ at' = [at EXCEPT !.mode = "panic"]
    /\ UNCHANGED <<values, pbrs, pbr, inst>>

\* A text is parsed into a permission bind rule made for it; without ";" it is
\* refused, and leaves the rule it made.
PermissionsText(o) ==
    /\ at.mode = "permissions" /\ o \notin pbrs
    /\ pbrs' = pbrs \cup {o}
    /\ \/ /\ inst' = [inst EXCEPT ![at.inst].pb = o]
          /\ at' = [at EXCEPT !.mode = "segments", !.pbr = o]
       \/ inst' = [inst EXCEPT ![at.inst].pb = o, ![at.inst].status = "refused"] /\ at' = Idle
    /\ UNCHANGED <<values, pbr>>

\* What follows the label of a text may be refused before; so may an argument that
\* is nil or of another type.
PermissionsRefused ==
    /\ at.mode = "permissions" /\ Returns("refused")
    /\ UNCHANGED <<values, pbrs, pbr>>

\* A permission bind rule given as an argument is shared with the caller; Valid
\* accepts all that are not nil.
PermissionsShared(o) ==
    /\ at.mode = "permissions" /\ ~at.text /\ o \in pbrs
    /\ inst' = [inst EXCEPT ![at.inst].pb = o, ![at.inst].status = "ok"]
    /\ at' = Idle
    /\ UNCHANGED <<values, pbrs, pbr>>

-----------------------------------------------------------------------------
Init ==
    /\ made = {} /\ perm = [p \in Perms |-> {}]
    /\ rule = [b \in Rules |-> "free"]
    /\ pbrs = {} /\ pbr = [o \in PBRs |-> << >>]
    /\ inst = [i \in Insts |-> Zero] /\ at = Idle

Next ==
    \/ \E p \in Perms, rights \in SUBSET Bits : \/ NewPermission(p, rights)
                                              \/ Shift(p, rights)
                                              \/ Unshift(p, rights)
    \/ \E b \in Rules, validity \in {"valid", "invalid"} : \/ NewBindRule(b, validity)
                                                         \/ SetBindRule(b, validity)
    \/ \E o \in PBRs : \/ NewPermissionBindRule(o) \/ PushStart(o)
                      \/ PermissionsText(o) \/ PermissionsShared(o)
    \/ \E p \in Perms, b \in Rules : \/ PushItem(p, b)
                                    \/ \E words \in SUBSET Words : Segment(p, b, words)
    \/ PushText \/ PushEnd \/ SegmentRefused \/ SegmentFaults \/ SegmentsEnd
    \/ \E i \in Insts : \/ NewInstruction(i) \/ ParseText(i)
                       \/ \E mode \in {"targets", "label"} : ParseArguments(i, mode)
    \/ TargetsEnd \/ Label \/ LabelRefused \/ LabelFaults \/ PermissionsRefused

Spec == Init /\ [][Next]_vars

-----------------------------------------------------------------------------
(* Properties                                                              *)

TypeOK ==
    /\ made \subseteq Perms /\ perm \in [Perms -> SUBSET Bits]
    /\ rule \in [Rules -> {"free", "valid", "invalid"}]
    /\ pbrs \subseteq PBRs /\ pbr \in [PBRs -> Seq(Item)]
    /\ inst \in [Insts -> Instruction] /\ at \in Calls

\* A permission none of whose bits lacks a name reads back as it was written, though
\* "all" leaves out proxy and the writer merges rights into it.
RightsReadBack == \A p \in made : perm[p] \subseteq Named => Read(Written(perm[p])) = perm[p]

ValidItems(o) == \A e \in Range(pbr[o]) : rule[e[2]] = "valid"

\* NewInstruction returns no error only for an instruction that has a label and a
\* permission bind rule, in each of its forms, and a refused one is never accepted.
AcceptedIsComplete ==
    [][\A i \in Insts :
         inst[i].status # "free" /\ inst[i].status # "ok" /\ inst'[i].status = "ok" =>
           inst[i].status = "building" /\ inst'[i].label /\ inst'[i].pb \in pbrs]_vars

\* The items of a permission bind rule are valid when they are pushed, and one of them
\* is invalid later only because a setter changed its bind rule: the rule itself,
\* which Valid of the permission bind rule does not look at, is the same.
ValidityIsLostFor ==
    [][\A o \in PBRs : ValidItems(o) /\ ~ValidItems(o)' =>
         pbr'[o] = pbr[o] /\ at.mode = "idle" /\ \E b \in Rules : rule[b] # rule'[b]]_vars

\* What a permission bind rule held stays in its place, in the calls that fail too.
AppendOnly == [][\A o \in PBRs : IsPrefix(pbr[o], pbr'[o])]_vars
=============================================================================
