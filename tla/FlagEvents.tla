----------------------------- MODULE FlagEvents -----------------------------
(***************************************************************************)
(* Expanded flags, the change events that carry them, and the rule by which *)
(* an SDK drops an event that is older than what it holds.                 *)
(***************************************************************************)
EXTENDS Integers

CONSTANTS
    Targeted,   \* values of the data column whose rules reference the segment
    NoSegment,  \* there is no such segment (or it was not loaded)
    Absent      \* there is no such flag

\* expand_flag_with_segments: a reference to a segment that is not in the map
\* is dropped, a flag without references is unchanged.
Expand(d, s) == [data |-> d, seg |-> IF d \in Targeted THEN s ELSE NoSegment]

\* What is known of one flag: an expanded flag, or Absent; rev is 0 when there
\* is no revision for it.
Unknown == [val |-> Absent, rev |-> 0]

\* A change event: UPSERT when val is a flag, DELETE when it is Absent.
ChangeOf(f, s) == [type |-> "change", key |-> f, val |-> s.val, rev |-> s.rev]
SlotOf(m) == [val |-> m.val, rev |-> m.rev]

\* Mutant of IsStale: the upsert after a delete is not special.
StaleIfLower(held, m) == held.rev # 0 /\ m.rev < held.rev

\* isStaleEvent of the SDKs: whether m is older than what is held.
IsStale(held, m) ==
    /\ held.rev # 0
    /\ IF m.val # Absent /\ held.val = Absent
         THEN m.rev <= held.rev
         ELSE m.rev < held.rev

\* Position of a state of a flag in its history: by revision, and the deletion
\* of a revision after that revision.
Stamp(s) == 2 * s.rev + (IF s.val = Absent THEN 1 ELSE 0)

Larger(a, b) == IF a >= b THEN a ELSE b
=============================================================================
