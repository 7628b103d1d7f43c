------------------------- MODULE InstructionsProofs -------------------------
(***************************************************************************)
(* Proofs about Instructions, for any numbers of objects and any rights.   *)
(* What NewInstruction returns depends on what the call under way has done *)
(* so far: CallMatches relates the two, and is inductive with the types.   *)
(***************************************************************************)
EXTENDS Instructions, SequenceTheorems, TLAPS

\* How far the call under way is with the instruction it makes.
CallMatches ==
    /\ at.mode \in {"idle", "push"} => at.inst = NoInst
    /\ at.mode \in {"targets", "label", "permissions"} => at.inst # NoInst
    /\ at.inst # NoInst => inst[at.inst].status = "building"
    /\ at.mode = "push" => at.pbr \in pbrs
    /\ at.mode = "permissions" => inst[at.inst].label
    /\ at.mode = "segments" =>
         /\ at.pbr \in pbrs
         /\ at.inst # NoInst => inst[at.inst].label /\ inst[at.inst].pb = at.pbr

IInv == TypeOK /\ CallMatches

-----------------------------------------------------------------------------
(* Rights                                                                  *)

\* Reading what String writes gives the rights back.
LEMMA ReadWritten ==
    ASSUME NEW rights \in SUBSET Named
    PROVE  Read(Written(rights)) = rights
<1>1. \A w \in Named : Meaning(w) = {w}
    BY WordsAssumption DEF Meaning
<1>2. Meaning("all") = AllAccess /\ Meaning("none") = {} /\ Meaning("") = {}
    BY WordsAssumption DEF Meaning
<1>3. Proxy \in Named /\ AllAccess \cup {Proxy} = Named /\ AllAccess # Named /\ AllAccess # {}
    BY BitsAssumption DEF AllAccess
<1>4. CASE rights = AllAccess
    <2>1. Written(rights) = {"all"}
        BY <1>3, <1>4 DEF Written
    <2>. QED BY <1>2, <1>4, <2>1 DEF Read
<1>5. CASE rights = Named
    <2>1. Written(rights) = {"all", Proxy}
        BY <1>3, <1>5 DEF Written
    <2>2. Read(Written(rights)) = Meaning("all") \cup Meaning(Proxy)
        BY <2>1 DEF Read
    <2>. QED BY <1>1, <1>2, <1>3, <1>5, <2>2
<1>6. CASE rights = {} /\ rights # AllAccess /\ rights # Named
    <2>1. Written(rights) = {"none"}
        BY <1>6 DEF Written
    <2>. QED BY <1>2, <1>6, <2>1 DEF Read
<1>7. CASE rights # {} /\ rights # AllAccess /\ rights # Named
    <2>1. Written(rights) = (rights \cap Named) \cup {"" : b \in rights \ Named}
        BY <1>7 DEF Written
    <2>2. Written(rights) = rights
        BY <2>1
    <2>. QED BY <1>1, <2>2 DEF Read
<1>. QED BY <1>4, <1>5, <1>6, <1>7

\* A set of words read is a set of rights.
LEMMA ReadsRights ==
    ASSUME NEW words
    PROVE  Read(words) \subseteq Bits
BY DEF Read, Meaning, AllAccess, Bits

-----------------------------------------------------------------------------
(* The invariant                                                           *)

LEMMA InitIInv == Init => IInv
<1>. SUFFICES ASSUME Init PROVE IInv
    OBVIOUS
<1>1. Zero \in Instruction /\ Idle \in Calls
    BY DEF Zero, Instruction, Idle, Calls
<1>2. pbr \in [PBRs -> Seq(Item)]
    BY DEF Init
<1>. QED BY <1>1, <1>2 DEF Init, IInv, TypeOK, CallMatches, Idle

\* Append keeps a slice of items one.
LEMMA AppendTypes ==
    ASSUME TypeOK, NEW p \in Perms, NEW b \in Rules, NEW o \in PBRs \cup {NoPBR}
    PROVE  [pbr EXCEPT ![o] = Append(@, <<p, b>>)] \in [PBRs -> Seq(Item)]
<1>1. CASE o \in PBRs
    <2>1. <<p, b>> \in Item /\ pbr[o] \in Seq(Item)
        BY <1>1 DEF TypeOK, Item
    <2>2. Append(pbr[o], <<p, b>>) \in Seq(Item)
        BY <2>1
    <2>. QED BY <2>2 DEF TypeOK
<1>2. CASE o = NoPBR
    BY <1>2, ObjectsAssumption DEF TypeOK
<1>. QED BY <1>1, <1>2

\* So is an instruction of which one part is set.
LEMMA StatusTypes ==
    ASSUME NEW x \in Instruction, NEW status \in {"free", "building", "ok", "refused"}
    PROVE  /\ [x EXCEPT !.status = status] \in Instruction
           /\ [x EXCEPT !.status = status].status = status
           /\ [x EXCEPT !.status = status].label = x.label
           /\ [x EXCEPT !.status = status].pb = x.pb
BY DEF Instruction

LEMMA LabelTypes ==
    ASSUME NEW x \in Instruction
    PROVE  /\ [x EXCEPT !.label = TRUE] \in Instruction
           /\ [x EXCEPT !.label = TRUE].status = x.status
           /\ [x EXCEPT !.label = TRUE].label
           /\ [x EXCEPT !.label = TRUE].pb = x.pb
BY DEF Instruction

LEMMA PBTypes ==
    ASSUME NEW x \in Instruction, NEW o \in PBRs
    PROVE  /\ [x EXCEPT !.pb = o] \in Instruction
           /\ [x EXCEPT !.pb = o].status = x.status
           /\ [x EXCEPT !.pb = o].label = x.label
           /\ [x EXCEPT !.pb = o].pb = o
BY DEF Instruction

LEMMA ReturnsIInv ==
    ASSUME IInv, NEW status \in {"ok", "refused"}, Returns(status), at.mode # "idle", at.mode # "push",
           at.mode = "segments" \/ at.inst # NoInst,
           UNCHANGED <<values, pbrs, pbr>>
    PROVE  IInv'
<1>1. CASE at.inst = NoInst
    <2>1. at' \in Calls /\ at'.mode = "push" /\ at'.inst = NoInst /\ at'.pbr = at.pbr
        BY <1>1 DEF Returns, IInv, TypeOK, Calls
    <2>. QED BY <1>1, <2>1 DEF Returns, IInv, TypeOK, CallMatches, values
<1>2. CASE at.inst # NoInst
    <2>1. at.inst \in Insts
        BY <1>2 DEF IInv, TypeOK, Calls
    <2>2. at' = Idle /\ Idle \in Calls /\ Idle.mode = "idle" /\ Idle.inst = NoInst
        BY <1>2 DEF Returns, Idle, Calls
    <2>3. inst' \in [Insts -> Instruction]
        <3>. DEFINE y == [inst[at.inst] EXCEPT !.status = status]
        <3>1. inst[at.inst] \in Instruction /\ inst \in [Insts -> Instruction]
            BY <2>1 DEF IInv, TypeOK
        <3>2. y \in Instruction
            BY <3>1, StatusTypes
        <3>3. inst' = [inst EXCEPT ![at.inst] = y]
            BY <1>2 DEF Returns
        <3>. HIDE DEF y
        <3>. QED BY <3>1, <3>2, <3>3
    <2>. QED BY <2>2, <2>3 DEF IInv, TypeOK, CallMatches, values
<1>. QED BY <1>1, <1>2

\* A step that sets one part of an instruction being made.
LEMMA SetPart ==
    ASSUME IInv, NEW i \in Insts, NEW y \in Instruction
    PROVE  /\ [inst EXCEPT ![i] = y] \in [Insts -> Instruction]
           /\ [inst EXCEPT ![i] = y][i] = y
BY DEF IInv, TypeOK

LEMMA NextIInv == IInv /\ [Next]_vars => IInv'
<1>. SUFFICES ASSUME IInv, [Next]_vars PROVE IInv'
    OBVIOUS
<1>0. TypeOK /\ CallMatches /\ Idle \in Calls /\ Idle.mode = "idle" /\ Idle.inst = NoInst
    BY DEF IInv, Idle, Calls
<1>1. ASSUME NEW p \in Perms, NEW rights \in SUBSET Bits,
             NewPermission(p, rights) \/ Shift(p, rights) \/ Unshift(p, rights)
      PROVE  IInv'
    <2>1. made' \subseteq Perms /\ perm' \in [Perms -> SUBSET Bits]
        BY <1>0, <1>1 DEF NewPermission, Shift, Unshift, TypeOK
    <2>2. UNCHANGED <<rule, pbrs, pbr, inst, at>>
        BY <1>1 DEF NewPermission, Shift, Unshift
    <2>. QED BY <1>0, <2>1, <2>2 DEF IInv, TypeOK, CallMatches
<1>2. ASSUME NEW b \in Rules, NEW validity \in {"valid", "invalid"},
             NewBindRule(b, validity) \/ SetBindRule(b, validity)
      PROVE  IInv'
    <2>1. rule' \in [Rules -> {"free", "valid", "invalid"}]
        BY <1>0, <1>2 DEF NewBindRule, SetBindRule, TypeOK
    <2>2. UNCHANGED <<made, perm, pbrs, pbr, inst, at>>
        BY <1>2 DEF NewBindRule, SetBindRule
    <2>. QED BY <1>0, <2>1, <2>2 DEF IInv, TypeOK, CallMatches
<1>3. ASSUME NEW o \in PBRs, NewPermissionBindRule(o) PROVE IInv'
    BY <1>0, <1>3 DEF NewPermissionBindRule, values, IInv, TypeOK, CallMatches
<1>4. ASSUME NEW o \in PBRs, PushStart(o) PROVE IInv'
    <2>1. at' \in Calls /\ at'.mode = "push" /\ at'.inst = NoInst /\ at'.pbr = o
        BY <1>4 DEF PushStart, Idle, Calls
    <2>. QED BY <1>0, <1>4, <2>1 DEF PushStart, values, IInv, TypeOK, CallMatches
<1>5. ASSUME NEW p \in Perms, NEW b \in Rules, PushItem(p, b) PROVE IInv'
    <2>1. pbr' \in [PBRs -> Seq(Item)]
        BY <1>0, <1>5, AppendTypes DEF PushItem, TypeOK, Calls
    <2>. QED BY <1>0, <1>5, <2>1 DEF PushItem, values, IInv, TypeOK, CallMatches
<1>6. ASSUME NEW p \in Perms, NEW b \in Rules, NEW words \in SUBSET Words, Segment(p, b, words)
      PROVE  IInv'
    <2>1. pbr' \in [PBRs -> Seq(Item)]
        BY <1>0, <1>6, AppendTypes DEF Segment, TypeOK, Calls
    <2>2. made' \subseteq Perms /\ perm' \in [Perms -> SUBSET Bits] /\ rule' \in [Rules -> {"free", "valid", "invalid"}]
        BY <1>0, <1>6, ReadsRights DEF Segment, TypeOK
    <2>. QED BY <1>0, <1>6, <2>1, <2>2 DEF Segment, IInv, TypeOK, CallMatches
<1>7. CASE PushText
    <2>1. at' \in Calls /\ at'.mode = "segments" /\ at'.inst = at.inst /\ at'.pbr = at.pbr
        BY <1>0, <1>7 DEF PushText, TypeOK, Calls
    <2>. QED BY <1>0, <1>7, <2>1 DEF PushText, values, IInv, TypeOK, CallMatches
<1>8. CASE PushEnd
    BY <1>0, <1>8 DEF PushEnd, values, IInv, TypeOK, CallMatches
<1>9. CASE SegmentRefused \/ SegmentsEnd
    BY <1>0, <1>9, ReturnsIInv DEF SegmentRefused, SegmentsEnd
<1>10. CASE LabelRefused \/ PermissionsRefused
    BY <1>0, <1>10, ReturnsIInv DEF LabelRefused, PermissionsRefused, CallMatches
<1>11. ASSUME NEW m \in {"stuck", "panic", "label"}, at' = [at EXCEPT !.mode = m],
              at.mode \in {"segments", "targets", "label"}, m = "label" => at.mode = "targets",
              UNCHANGED <<values, pbrs, pbr, inst>>
       PROVE  IInv'
    <2>1. at' \in Calls /\ at'.mode = m /\ at'.inst = at.inst /\ at'.pbr = at.pbr
        BY <1>0, <1>11 DEF TypeOK, Calls
    <2>. QED BY <1>0, <1>11, <2>1 DEF values, IInv, TypeOK, CallMatches
<1>12. CASE SegmentFaults \/ LabelFaults
    BY <1>11, <1>12 DEF SegmentFaults, LabelFaults
<1>13. CASE TargetsEnd
    <2>1. CASE Returns("refused")
        BY <1>0, <1>13, <2>1, ReturnsIInv DEF TargetsEnd, CallMatches
    <2>2. CASE ~Returns("refused")
        BY <1>11, <1>13, <2>2 DEF TargetsEnd
    <2>. QED BY <2>1, <2>2
<1>14. ASSUME NEW i \in Insts, NewInstruction(i) PROVE IInv'
    <2>. DEFINE y == [inst[i] EXCEPT !.status = "ok"]
    <2>1. y \in Instruction
        BY <1>0, StatusTypes DEF TypeOK
    <2>2. inst' = [inst EXCEPT ![i] = y]
        BY <1>14 DEF NewInstruction
    <2>. HIDE DEF y
    <2>3. inst' \in [Insts -> Instruction]
        BY <2>1, <2>2, SetPart
    <2>. QED BY <1>0, <1>14, <2>3 DEF NewInstruction, values, IInv, TypeOK, CallMatches
<1>15. ASSUME NEW i \in Insts, NEW status \in {"building", "refused"},
              at.mode = "idle", inst' = [inst EXCEPT ![i].status = status],
              \/ status = "refused" /\ at' = at
              \/ /\ status = "building" /\ at' \in Calls /\ at'.inst = i
                 /\ at'.mode \in {"targets", "label"},
              UNCHANGED <<values, pbrs, pbr>>
       PROVE  IInv'
    <2>. DEFINE y == [inst[i] EXCEPT !.status = status]
    <2>0. inst[i] \in Instruction /\ status \in {"free", "building", "ok", "refused"}
        BY <1>0 DEF TypeOK
    <2>1. y \in Instruction /\ y.status = status
        BY <2>0, StatusTypes
    <2>2. inst' = [inst EXCEPT ![i] = y]
        BY <1>15
    <2>. HIDE DEF y
    <2>3. inst' \in [Insts -> Instruction] /\ inst'[i].status = status
        BY <2>1, <2>2, SetPart
    <2>. QED BY <1>0, <1>15, <2>3, ObjectsAssumption DEF values, IInv, TypeOK, CallMatches
<1>16. ASSUME NEW i \in Insts, ParseText(i) PROVE IInv'
    <2>1. [mode |-> "targets", pbr |-> NoPBR, inst |-> i, text |-> TRUE] \in Calls
        BY DEF Calls
    <2>2. CASE inst' = [inst EXCEPT ![i].status = "refused"] /\ at' = at
        BY <1>15, <1>16, <2>2 DEF ParseText
    <2>3. CASE /\ inst' = [inst EXCEPT ![i].status = "building"]
               /\ at' = [mode |-> "targets", pbr |-> NoPBR, inst |-> i, text |-> TRUE]
        <3>1. at' \in Calls /\ at'.inst = i /\ at'.mode \in {"targets", "label"}
            BY <2>1, <2>3
        <3>. QED BY <1>15, <1>16, <2>3, <3>1 DEF ParseText
    <2>. QED BY <1>16, <2>2, <2>3 DEF ParseText
<1>17. ASSUME NEW i \in Insts, NEW mode \in {"targets", "label"}, ParseArguments(i, mode) PROVE IInv'
    <2>1. [mode |-> mode, pbr |-> NoPBR, inst |-> i, text |-> FALSE] \in Calls
        BY DEF Calls
    <2>. QED BY <1>15, <1>17, <2>1 DEF ParseArguments
<1>18. CASE Label
    <2>. DEFINE y == [inst[at.inst] EXCEPT !.label = TRUE]
    <2>0. at.inst \in Insts /\ at.mode = "label"
        BY <1>0, <1>18 DEF Label, CallMatches, TypeOK, Calls
    <2>1. y \in Instruction /\ y.status = inst[at.inst].status /\ y.label
        BY <1>0, <2>0, LabelTypes DEF TypeOK
    <2>2. inst' = [inst EXCEPT ![at.inst] = y]
        BY <1>18 DEF Label
    <2>. HIDE DEF y
    <2>3. inst' \in [Insts -> Instruction] /\ inst'[at.inst] = y
        BY <2>0, <2>1, <2>2, SetPart
    <2>4. at' \in Calls /\ at'.mode = "permissions" /\ at'.inst = at.inst
        BY <1>0, <1>18 DEF Label, TypeOK, Calls
    <2>. QED BY <1>0, <1>18, <2>0, <2>1, <2>3, <2>4 DEF Label, values, IInv, TypeOK, CallMatches
<1>19. ASSUME NEW o \in PBRs, PermissionsText(o) PROVE IInv'
    <2>. DEFINE y == [inst[at.inst] EXCEPT !.pb = o]
                z == [y EXCEPT !.status = "refused"]
    <2>0. at.inst \in Insts /\ at.inst # NoInst /\ inst[at.inst].label /\ inst[at.inst].status = "building"
        BY <1>0, <1>19 DEF PermissionsText, CallMatches, TypeOK, Calls
    <2>5. inst[at.inst] \in Instruction
        BY <1>0, <2>0 DEF TypeOK
    <2>6. y \in Instruction /\ y.status = "building" /\ y.label /\ y.pb = o
        BY <2>0, <2>5, PBTypes
    <2>1. /\ y \in Instruction /\ y.status = "building" /\ y.label /\ y.pb = o
          /\ z \in Instruction
        BY <2>6, StatusTypes
    <2>2. CASE /\ inst' = [inst EXCEPT ![at.inst].pb = o]
               /\ at' = [at EXCEPT !.mode = "segments", !.pbr = o]
        <3>1. inst' = [inst EXCEPT ![at.inst] = y]
            BY <2>2
        <3>. HIDE DEF y, z
        <3>2. inst' \in [Insts -> Instruction] /\ inst'[at.inst] = y
            BY <2>0, <2>1, <3>1, SetPart
        <3>3. at' \in Calls /\ at'.mode = "segments" /\ at'.inst = at.inst /\ at'.pbr = o
            BY <1>0, <2>2 DEF TypeOK, Calls
        <3>. QED BY <1>0, <1>19, <2>0, <2>1, <3>2, <3>3 DEF PermissionsText, values, IInv, TypeOK, CallMatches
    <2>3. CASE inst' = [inst EXCEPT ![at.inst].pb = o, ![at.inst].status = "refused"] /\ at' = Idle
        <3>1. inst' = [inst EXCEPT ![at.inst] = z]
            BY <1>0, <2>0, <2>3 DEF TypeOK
        <3>. HIDE DEF y, z
        <3>2. inst' \in [Insts -> Instruction]
            BY <2>0, <2>1, <3>1, SetPart
        <3>. QED BY <1>0, <1>19, <2>3, <3>2 DEF PermissionsText, values, IInv, TypeOK, CallMatches
    <2>. QED BY <1>19, <2>2, <2>3 DEF PermissionsText
<1>20. ASSUME NEW o \in PBRs, PermissionsShared(o) PROVE IInv'
    <2>. DEFINE y == [inst[at.inst] EXCEPT !.pb = o]
                z == [y EXCEPT !.status = "ok"]
    <2>0. at.inst \in Insts
        BY <1>0, <1>20 DEF PermissionsShared, CallMatches, TypeOK, Calls
    <2>1. y \in Instruction /\ z \in Instruction
        BY <1>0, <2>0, StatusTypes, PBTypes DEF TypeOK
    <2>2. inst' = [inst EXCEPT ![at.inst] = z]
        BY <1>0, <1>20, <2>0 DEF PermissionsShared, TypeOK
    <2>. HIDE DEF y, z
    <2>3. inst' \in [Insts -> Instruction]
        BY <2>0, <2>1, <2>2, SetPart
    <2>. QED BY <1>0, <1>20, <2>3 DEF PermissionsShared, values, IInv, TypeOK, CallMatches
<1>21. CASE UNCHANGED vars
    BY <1>0, <1>21 DEF vars, IInv, TypeOK, CallMatches
<1>. QED BY <1>1, <1>2, <1>3, <1>4, <1>5, <1>6, <1>7, <1>8, <1>9, <1>10, <1>12, <1>13, <1>14, <1>16, <1>17,
            <1>18, <1>19, <1>20, <1>21 DEF Next

-----------------------------------------------------------------------------
(* The theorems                                                            *)

LEMMA InvariantHolds == Spec => []IInv
BY InitIInv, NextIInv, PTL DEF Spec

\* The types hold, and every permission with named rights reads back as written.
THEOREM ReadBackAlways == Spec => [](TypeOK /\ RightsReadBack)
<1>1. IInv => TypeOK /\ RightsReadBack
    BY ReadWritten DEF IInv, RightsReadBack
<1>. QED BY <1>1, InvariantHolds, PTL

LEMMA CompleteStep ==
    ASSUME IInv, [Next]_vars, NEW i \in Insts,
           inst[i].status # "free", inst[i].status # "ok", inst'[i].status = "ok"
    PROVE  inst[i].status = "building" /\ inst'[i].label /\ inst'[i].pb \in pbrs
<1>0. TypeOK /\ CallMatches /\ inst[i] \in Instruction /\ inst \in [Insts -> Instruction]
    BY DEF IInv, TypeOK
<1>1. CASE Returns("ok") /\ at.mode = "segments"
    <2>1. at.inst = i
        BY <1>0, <1>1 DEF Returns
    <2>2. inst'[i] = [inst[i] EXCEPT !.status = "ok"] /\ i # NoInst
        BY <1>0, <1>1, <2>1, ObjectsAssumption DEF Returns
    <2>3. inst'[i].label = inst[i].label /\ inst'[i].pb = inst[i].pb
        BY <1>0, <2>2, StatusTypes
    <2>. QED BY <1>0, <1>1, <2>1, <2>2, <2>3 DEF CallMatches
<1>2. ASSUME NEW o \in PBRs, PermissionsShared(o)
      PROVE  inst[i].status = "building" /\ inst'[i].label /\ inst'[i].pb \in pbrs
    <2>1. at.inst = i /\ o \in pbrs /\ inst[i].label /\ inst[i].status = "building"
        BY <1>0, <1>2, ObjectsAssumption DEF PermissionsShared, CallMatches
    <2>2. inst'[i] = [[inst[i] EXCEPT !.pb = o] EXCEPT !.status = "ok"]
        BY <1>0, <1>2, <2>1 DEF PermissionsShared
    <2>3. [inst[i] EXCEPT !.pb = o] \in Instruction /\ [inst[i] EXCEPT !.pb = o].label /\ [inst[i] EXCEPT !.pb = o].pb = o
        BY <1>0, <2>1, PBTypes
    <2>4. inst'[i].label /\ inst'[i].pb = o
        BY <2>2, <2>3, StatusTypes
    <2>. QED BY <2>1, <2>4
<1>3. ASSUME NEW j \in Insts, NewInstruction(j) \/ ParseText(j)
                              \/ \E mode \in {"targets", "label"} : ParseArguments(j, mode)
      PROVE  FALSE
    BY <1>0, <1>3, StatusTypes DEF NewInstruction, ParseText, ParseArguments
<1>4. ASSUME Returns("refused") PROVE FALSE
    <2>1. inst'[i] = [inst[i] EXCEPT !.status = "refused"] \/ inst'[i] = inst[i]
        BY <1>0, <1>4 DEF Returns
    <2>. QED BY <1>0, <2>1, StatusTypes
<1>5. ASSUME Label PROVE FALSE
    <2>1. inst'[i] = [inst[i] EXCEPT !.label = TRUE] \/ inst'[i] = inst[i]
        BY <1>0, <1>5 DEF Label
    <2>. QED BY <1>0, <2>1, LabelTypes
<1>7. ASSUME NEW o \in PBRs, PermissionsText(o) PROVE FALSE
    <2>1. \/ inst'[i] = [inst[i] EXCEPT !.pb = o] \/ inst'[i] = inst[i]
          \/ inst'[i] = [[inst[i] EXCEPT !.pb = o] EXCEPT !.status = "refused"]
        BY <1>0, <1>7 DEF PermissionsText
    <2>2. [inst[i] EXCEPT !.pb = o] \in Instruction /\ [inst[i] EXCEPT !.pb = o].status = inst[i].status
        BY <1>0, PBTypes
    <2>. QED BY <1>0, <2>1, <2>2, StatusTypes, ZenonT(30)
<1>6. CASE inst' = inst
    BY <1>6
<1>. QED BY <1>1, <1>2, <1>3, <1>4, <1>5, <1>6, <1>7
         DEF Next, vars, values, NewPermission, Shift, Unshift, NewBindRule, SetBindRule, NewPermissionBindRule,
             PushStart, PushItem, Segment, PushText, PushEnd, SegmentRefused, SegmentFaults, SegmentsEnd,
             TargetsEnd, LabelRefused, LabelFaults, PermissionsRefused

\* An instruction is accepted with a label and a permission bind rule, or not at all.
THEOREM CompleteAlways == Spec => AcceptedIsComplete
<1>1. IInv /\ [Next]_vars =>
        [\A i \in Insts :
           inst[i].status # "free" /\ inst[i].status # "ok" /\ inst'[i].status = "ok" =>
             inst[i].status = "building" /\ inst'[i].label /\ inst'[i].pb \in pbrs]_vars
    BY CompleteStep
<1>. QED BY <1>1, InvariantHolds, PTL DEF Spec, AcceptedIsComplete

\* The items of a permission bind rule change by one being appended, valid.
LEMMA PBRStep ==
    ASSUME IInv, [Next]_vars, NEW o \in PBRs
    PROVE  \/ pbr'[o] = pbr[o] /\ at.mode = "idle"
           \/ pbr'[o] = pbr[o] /\ \A b \in Rules : rule[b] = "valid" => rule'[b] = "valid"
           \/ \E p \in Perms, b \in Rules :
                /\ pbr'[o] = Append(pbr[o], <<p, b>>)
                /\ rule'[b] = "valid"
                /\ \A c \in Rules : rule[c] = "valid" => rule'[c] = "valid"
<1>0. TypeOK
    BY DEF IInv
<1>1. ASSUME NEW p \in Perms, NEW b \in Rules, PushItem(p, b)
      PROVE  \/ pbr'[o] = pbr[o] /\ rule' = rule
             \/ pbr'[o] = Append(pbr[o], <<p, b>>) /\ rule'[b] = "valid" /\ rule' = rule
    BY <1>0, <1>1 DEF PushItem, values, TypeOK
<1>2. ASSUME NEW p \in Perms, NEW b \in Rules, NEW words \in SUBSET Words, Segment(p, b, words)
      PROVE  /\ rule'[b] = "valid" /\ \A c \in Rules : rule[c] = "valid" => rule'[c] = "valid"
             /\ pbr'[o] = pbr[o] \/ pbr'[o] = Append(pbr[o], <<p, b>>)
    BY <1>0, <1>2 DEF Segment, TypeOK
<1>3. CASE pbr' = pbr /\ rule' = rule
    BY <1>3
<1>4. CASE pbr' = pbr /\ at.mode = "idle"
    BY <1>4
<1>. QED BY <1>1, <1>2, <1>3, <1>4
         DEF Next, vars, values, NewPermission, Shift, Unshift, NewBindRule, SetBindRule, NewPermissionBindRule,
             PushStart, PushText, PushEnd, SegmentRefused, SegmentFaults, SegmentsEnd, NewInstruction, ParseText,
             ParseArguments, TargetsEnd, Label, LabelRefused, LabelFaults, PermissionsText, PermissionsRefused,
             PermissionsShared

LEMMA ValidityStep ==
    ASSUME IInv, [Next]_vars, NEW o \in PBRs, ValidItems(o), ~ValidItems(o)'
    PROVE  pbr'[o] = pbr[o] /\ at.mode = "idle" /\ \E b \in Rules : rule[b] # rule'[b]
<1>0. pbr[o] \in Seq(Item)
    BY DEF IInv, TypeOK
<1>1. \A e \in Range(pbr[o]) : e[2] \in Rules
    BY <1>0, ElementOfSeq, LenProperties DEF Range, Item
<1>2. CASE pbr'[o] = pbr[o]
    BY <1>1, <1>2, PBRStep DEF ValidItems
<1>3. ASSUME NEW p \in Perms, NEW b \in Rules, pbr'[o] = Append(pbr[o], <<p, b>>), rule'[b] = "valid",
             \A c \in Rules : rule[c] = "valid" => rule'[c] = "valid"
      PROVE  FALSE
    <2>1. Range(pbr'[o]) \subseteq Range(pbr[o]) \cup {<<p, b>>}
        BY <1>0, <1>3, LenProperties DEF Range
    <2>. QED BY <1>1, <1>3, <2>1 DEF ValidItems
<1>. QED BY <1>2, <1>3, PBRStep

\* An item of a permission bind rule is valid when it is pushed, and goes invalid only
\* for a setter of its bind rule.
THEOREM ValidityKept == Spec => ValidityIsLostFor
<1>1. IInv /\ [Next]_vars =>
        [\A o \in PBRs : ValidItems(o) /\ ~ValidItems(o)' =>
           pbr'[o] = pbr[o] /\ at.mode = "idle" /\ \E b \in Rules : rule[b] # rule'[b]]_vars
    BY ValidityStep
<1>. QED BY <1>1, InvariantHolds, PTL DEF Spec, ValidityIsLostFor

LEMMA AppendStep ==
    ASSUME IInv, [Next]_vars, NEW o \in PBRs
    PROVE  IsPrefix(pbr[o], pbr'[o])
<1>1. pbr[o] \in Seq(Item)
    BY DEF IInv, TypeOK
<1>2. CASE pbr'[o] = pbr[o]
    BY <1>1, <1>2, LenProperties, SeqDef DEF IsPrefix
<1>3. ASSUME NEW p \in Perms, NEW b \in Rules, pbr'[o] = Append(pbr[o], <<p, b>>)
      PROVE  IsPrefix(pbr[o], pbr'[o])
    <2>1. <<p, b>> \in Item
        BY DEF Item
    <2>. QED BY <1>1, <1>3, <2>1 DEF IsPrefix
<1>. QED BY <1>2, <1>3, PBRStep

\* What was pushed stays where it is, in the calls that fail too.
THEOREM NothingMoves == Spec => AppendOnly
<1>1. IInv /\ [Next]_vars => [\A o \in PBRs : IsPrefix(pbr[o], pbr'[o])]_vars
    BY AppendStep
<1>. QED BY <1>1, InvariantHolds, PTL DEF Spec, AppendOnly
=============================================================================
