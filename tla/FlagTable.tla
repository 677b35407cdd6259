------------------------------ MODULE FlagTable ------------------------------
(***************************************************************************)
(* What the transactions on the flags of one environment amount to: as if  *)
(* each request that succeeds had run alone, on the committed state.       *)
(***************************************************************************)
EXTENDS Integers

CONSTANTS
    Flags,      \* flag keys of the environment
    Fields,     \* fields of the data of a flag
    Values,     \* values of a field
    Targeted,   \* the data whose rules reference the segment
    Rules,      \* rules of the segment
    NoSegment,  \* there is no such segment
    Absent      \* there is no such flag

VARIABLES
    row,        \* row[f]: data and revision of flag f
    segment,    \* rules of the segment, or NoSegment
    protected,  \* require_approval of the environment
    done        \* the request that succeeded last

vars == <<row, segment, protected, done>>

Data == [Fields -> Values]
Patch == [field : Fields, value : Values]

\* JSON merge: the fields of the patch replace those of the flag.
Merge(d, p) == [d EXCEPT ![p.field] = p.value]

NoRow == [data |-> Absent, rev |-> 0]
NoRequest == [kind |-> "none"]

Init ==
    /\ row = [f \in Flags |-> NoRow]
    /\ segment = NoSegment
    /\ protected \in BOOLEAN
    /\ done = NoRequest

\* Flag f has data d from now on, at a higher revision.
Put(f, d) ==
    /\ row'[f].rev > row[f].rev
    /\ row' = [row EXCEPT ![f] = [data |-> d, rev |-> row'[f].rev]]
    /\ UNCHANGED <<segment, protected>>

Create(f, d) ==
    /\ ~protected \/ row[f].data = Absent
    /\ Put(f, d)
    /\ done' = [kind |-> "create", key |-> f, data |-> d]

Promote(f, d) ==
    /\ ~protected
    /\ Put(f, d)
    /\ done' = [kind |-> "promote", key |-> f, data |-> d]

\* A patch changes one field of what the flag is when the patch is applied.
PatchFlag(f, p) ==
    /\ ~protected
    /\ row[f].data # Absent
    /\ Put(f, Merge(row[f].data, p))
    /\ done' = [kind |-> "patch", key |-> f, patch |-> p]

\* The approval of a change request applies its patch.
Approve(f, p) ==
    /\ row[f].data # Absent
    /\ Put(f, Merge(row[f].data, p))
    /\ done' = [kind |-> "approve", key |-> f, patch |-> p]

Archive(f) ==
    /\ row[f].data # Absent
    /\ Put(f, row[f].data)
    /\ done' = [kind |-> "archive", key |-> f]

Delete(f) ==
    /\ ~protected
    /\ row[f].data # Absent
    /\ row' = [row EXCEPT ![f] = NoRow]
    /\ done' = [kind |-> "delete", key |-> f]
    /\ UNCHANGED <<segment, protected>>

\* The segment changes, and with it the revision of every flag that uses it.
WriteSegment(s) ==
    /\ ~protected
    /\ segment # NoSegment \/ s # NoSegment
    /\ segment' = s
    /\ \A f \in Flags :
          IF row[f].data \in Targeted THEN row'[f].rev > row[f].rev ELSE row'[f] = row[f]
    /\ row' = [f \in Flags |-> [data |-> row[f].data, rev |-> row'[f].rev]]
    /\ done' = [kind |-> "segment", rules |-> s]
    /\ UNCHANGED protected

SetPolicy(b) ==
    /\ protected' = b
    /\ done' = [kind |-> "policy", protect |-> b]
    /\ UNCHANGED <<row, segment>>

Next ==
    \/ \E f \in Flags :
         \/ \E d \in Data : Create(f, d) \/ Promote(f, d)
         \/ \E p \in Patch : PatchFlag(f, p) \/ Approve(f, p)
         \/ Archive(f) \/ Delete(f)
    \/ \E s \in Rules \cup {NoSegment} : WriteSegment(s)
    \/ \E b \in BOOLEAN : SetPolicy(b)

Spec == Init /\ [][Next]_vars
=============================================================================
