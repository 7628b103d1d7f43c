----------------------------- MODULE Refinements -----------------------------
(***************************************************************************)
(* Refinements of a subtree specification (subtree.go) and the registry of *)
(* object classes they are resolved against: the package variables         *)
(* OIDFwdMap and OIDRevMap, RegisterOID, Resolve, the parsing of one       *)
(* refinement from text, and RefinementAnd.Push / RefinementOr.Push, whose *)
(* error variable outlives the iteration that set it.                      *)
(*                                                                         *)
(* A refinement is its choice and the object classes in it: "item" and     *)
(* "not" have one (a zero "not" has none), a "set", which is an "and" or   *)
(* an "or" (their code is the same), any number.  Refinements nest to any  *)
(* depth in the code; here an operand of the receiver has items below it   *)
(* and nothing deeper.                                                     *)
(***************************************************************************)
EXTENDS Naturals, Sequences, SequencesExt, FiniteSets

CONSTANTS
    OIDs,       \* numeric OIDs
    Descrs,     \* descriptors, in whatever case they are written
    Lower,      \* strings.ToLower of a descriptor
    Odd,        \* an identifier beginning with neither a digit nor a letter
    Malformed,  \* one that begins so and is no OID or descriptor
    Empty,      \* ""
    Refused,    \* the error of Resolve
    Lists,      \* the lists of names a caller writes or registers
    MaxRefs,    \* the longest RefinementAnd (a bound for model checking only)
    MaxArguments \* the most arguments of one Push (likewise)

ASSUME NamesAssumption ==
    /\ OIDs \cap Descrs = {} /\ {Odd, Malformed, Empty} \cap (OIDs \cup Descrs) = {}
    /\ Refused \notin OIDs \cup Descrs \cup {Odd, Malformed, Empty}
    /\ Odd # Empty /\ Malformed # Empty /\ Odd # Malformed
    /\ Lower \in [Descrs -> Descrs]
    /\ \A d \in Descrs : Lower[Lower[d]] = Lower[d]
ASSUME ListsAssumption == Lists \subseteq Seq(OIDs \cup Descrs \cup {Odd, Malformed, Empty})
ASSUME BoundsAssumption == MaxRefs \in Nat /\ MaxArguments \in Nat

VARIABLES
    fwd,        \* OIDFwdMap: descriptor -> numeric OID
    rev,        \* OIDRevMap: numeric OID -> its descriptors
    refs,       \* the receiver of Push: a RefinementAnd or RefinementOr
    pushing,    \* whether a Push is under way
    failed,     \* its err # nil
    base,       \* history: how many refinements the receiver had when it began,
    given       \* and what its arguments have been: texts parsed or refused, refinements

vars == <<fwd, rev, refs, pushing, failed, base, given>>
registry == <<fwd, rev>>
push == <<refs, pushing, failed, base, given>>

Ids == OIDs \cup Descrs \cup {Odd, Malformed, Empty}
Ref(c, ids) == [choice |-> c, ids |-> ids]

\* invalidRefinement is what a failed parse or an index out of range gives.
Refs == {r \in [choice : {"item", "not", "set", "invalid"}, ids : Lists] :
           /\ r.choice = "item" => Len(r.ids) = 1
           /\ r.choice = "not" => Len(r.ids) <= 1
           /\ r.choice = "invalid" => r.ids = << >>}

-----------------------------------------------------------------------------
(* The registry                                                            *)

NoEntries == [x \in {} |-> x]

\* The map m once the keys ks have been given the value v.
Entered(m, ks, v) == [x \in DOMAIN m \cup ks |-> IF x \in ks THEN v ELSE m[x]]

\* Mutant: the descriptors are entered one by one until one is empty.
RegisterSome(o, ds) ==
    /\ ~pushing
    /\ o # Empty
    /\ LET good == {d \in Range(ds) : d # Empty}
       IN  fwd' = Entered(fwd, good, o)
    /\ IF Empty \in Range(ds) THEN UNCHANGED rev ELSE rev' = Entered(rev, {o}, << >>)
    /\ UNCHANGED push

\* Mutant: the reverse map is made anew.
RegisterAnew(o, ds) ==
    /\ ~pushing
    /\ o # Empty /\ ds # << >> /\ Empty \notin Range(ds)
    /\ rev' = Entered(NoEntries, {o}, << >>)
    /\ fwd' = Entered(fwd, Range(ds), o)
    /\ UNCHANGED push

\* RegisterOID: all descriptors or none.  The list stored for the numeric OID is
\* tempD, which nothing was appended to.
RegisterOID(o, ds) ==
    /\ ~pushing
    /\ o # Empty /\ ds # << >> /\ Empty \notin Range(ds)
    /\ rev' = Entered(rev, {o}, << >>)
    /\ fwd' = Entered(fwd, Range(ds), o)
    /\ UNCHANGED push

\* A caller empties both maps, as the package's test does.
Reset ==
    /\ ~pushing
    /\ fwd' = NoEntries /\ rev' = NoEntries
    /\ UNCHANGED push

useRevMap == DOMAIN rev # {}
useFwdMap == DOMAIN fwd # {}
InUse == useRevMap \/ useFwdMap

\* What Resolve returns: Refused, or the name it makes of id.
resolveO2D(o) ==
    IF o \notin DOMAIN rev THEN Refused
    ELSE IF rev[o] # << >> /\ rev[o][1] # Empty THEN rev[o][1]
    ELSE o

resolveD2O(d) == IF Lower[d] \in DOMAIN fwd THEN d ELSE Refused

Resolve(id) ==
    IF ~InUse THEN id
    ELSE IF id \in OIDs THEN resolveO2D(id)
    ELSE IF id \in Descrs THEN resolveD2O(id)
    ELSE Refused

-----------------------------------------------------------------------------
(* Refinements                                                             *)

\* IsObjectClass, which looks at the syntax of a name only if it begins with a digit
\* or a letter.
IsObjectClass(id) == id \notin {Empty, Malformed}

\* parseItem: the name is a syntactical object class and is resolved.
Parses(id) == IsObjectClass(id) /\ Resolve(id) # Refused

\* Whether a text, given by its choice and the names in it, is parsed without an
\* error; "and:{}" is.
Accepted(t) ==
    /\ t.choice # "invalid"
    /\ t.choice = "not" => t.ids # << >>
    /\ \A i \in DOMAIN t.ids : Parses(t.ids[i])

\* The refinement an accepted text is parsed as: its names replaced by what Resolve
\* returned for them.
Parsed(t) == Ref(t.choice, [i \in DOMAIN t.ids |-> Resolve(t.ids[i])])

\* Verify of a refinement, against the registry as it is now.
Verified(r) ==
    /\ r.choice # "invalid"
    /\ r.ids # << >>
    /\ \A i \in DOMAIN r.ids : Resolve(r.ids[i]) # Refused

PushStart ==
    /\ ~pushing
    /\ pushing' = TRUE /\ failed' = FALSE
    /\ base' = Len(refs) /\ given' = << >>
    /\ UNCHANGED <<registry, refs>>

CanGrow == Len(refs) < MaxRefs /\ Len(given) < MaxArguments

\* Mutant: an error stays for the rest of the call.
PushTextSticky(t) ==
    /\ pushing /\ CanGrow
    /\ failed' = (failed \/ ~Accepted(t))
    /\ refs' = IF failed' THEN refs ELSE Append(refs, Parsed(t))
    /\ given' = Append(given, IF Accepted(t) THEN "parsed" ELSE "refused")
    /\ UNCHANGED <<registry, pushing, base>>

\* An argument that is text: parsed anew, its error replaces the one before.
PushText(t) ==
    /\ pushing /\ CanGrow
    /\ failed' = ~Accepted(t)
    /\ refs' = IF Accepted(t) THEN Append(refs, Parsed(t)) ELSE refs
    /\ given' = Append(given, IF Accepted(t) THEN "parsed" ELSE "refused")
    /\ UNCHANGED <<registry, pushing, base>>

\* An argument that is a refinement is not verified, and it is left out as long as
\* the last text before it was refused.
PushRef(r) ==
    /\ pushing /\ CanGrow
    /\ refs' = IF failed THEN refs ELSE Append(refs, r)
    /\ given' = Append(given, "refinement")
    /\ UNCHANGED <<registry, pushing, failed, base>>

PushEnd ==
    /\ pushing
    /\ pushing' = FALSE /\ failed' = FALSE
    /\ base' = 0 /\ given' = << >>
    /\ UNCHANGED <<registry, refs>>

-----------------------------------------------------------------------------
Init ==
    /\ fwd = NoEntries /\ rev = NoEntries
    /\ refs = << >> /\ pushing = FALSE /\ failed = FALSE
    /\ base = 0 /\ given = << >>

Next ==
    \/ \E o \in OIDs \cup {Empty}, ds \in Lists \cap Seq(Descrs \cup {Empty}) : RegisterOID(o, ds)
    \/ Reset
    \/ PushStart \/ PushEnd
    \/ \E r \in Refs : PushText(r) \/ PushRef(r)

Spec == Init /\ [][Next]_vars

-----------------------------------------------------------------------------
(* Properties                                                              *)

TypeOK ==
    /\ DOMAIN fwd \subseteq Descrs /\ fwd \in [DOMAIN fwd -> OIDs]
    /\ DOMAIN rev \subseteq OIDs /\ rev \in [DOMAIN rev -> Seq(Descrs)]
    /\ refs \in Seq([choice : {"item", "not", "set", "invalid"}, ids : Seq(Ids)])
    /\ pushing \in BOOLEAN /\ failed \in BOOLEAN
    /\ base \in Nat /\ given \in Seq({"parsed", "refused", "refinement"})

\* The two maps agree: the numeric OID any descriptor names is itself registered.
\* RegisterOID enters all descriptors or none, although it makes two separate
\* passes over them.
RegisteredTogether == \A d \in DOMAIN fwd : fwd[d] \in DOMAIN rev

\* The arguments that are not lost: the texts that parse, and the refinements but those
\* that come after a text that was refused with none that parsed in between.
Kept == {i \in DOMAIN given :
            \/ given[i] = "parsed"
            \/ /\ given[i] = "refinement"
               /\ \A j \in 1..(i - 1) : given[j] = "refused" => \E k \in (j + 1)..(i - 1) : given[k] = "parsed"}

PlaceOf(i) == base + Cardinality({k \in Kept : k <= i})

\* At any time in a Push the receiver has grown by one for each argument that is not
\* lost, and no other argument is: an error refuses its own text, and refinements up to
\* the next text that parses, never a text.  Where such a text belongs, in the order of
\* the arguments, is a refinement that verifies, for the names Resolve returned resolve
\* again; but not if it has no names, "and:{}" or "or:{}", which is parsed all the same.
PushKeeps ==
    pushing =>
        /\ Len(refs) = base + Cardinality(Kept)
        /\ \A i \in Kept :
              LET r == refs[PlaceOf(i)]
              IN  given[i] = "parsed" => (Verified(r) <=> r.ids # << >>)

\* Verify asks the registry again: a refinement that was verified stops being so only
\* when the first registration puts the registry to use, never by a later one
\* (which may move a descriptor to another OID) and never by a Push.
VerificationIsLostFor ==
    [][\A i \in DOMAIN refs :
          Verified(refs[i]) /\ ~(Verified(refs[i]))' => ~InUse /\ InUse']_vars
=============================================================================
