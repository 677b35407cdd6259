------------------------------- MODULE FlagTx -------------------------------
(***************************************************************************)
(* The transactions on the flags of one environment, statement by          *)
(* statement, with the locks PostgreSQL (READ COMMITTED) gives them:        *)
(*                                                                         *)
(*   - the environment row, FOR SHARE for flag writes, exclusive for        *)
(*     segment writes and for a change of the approval policy;             *)
(*   - the flag row, from the first statement that locks or writes it, or   *)
(*     from its insertion, to the end of the transaction;                  *)
(*   - the tombstone row, from the AFTER DELETE trigger on.                 *)
(*                                                                         *)
(* A statement sees what is committed and waits for the locks it needs.     *)
(* FlagSync takes each of these transactions as one step; this module looks *)
(* at whether that is what they amount to (FlagTable), and at what the      *)
(* revisions drawn inside them are worth.                                  *)
(***************************************************************************)
EXTENDS FlagEvents, FiniteSets

CONSTANTS
    Flags,        \* flag keys of the environment
    Fields,       \* fields of the data of a flag
    Values,       \* values of a field
    Rules,        \* rules of the segment
    Writers,      \* request handlers (each serves one request after another)
    Nobody,       \* holder of a lock that is free
    Same,         \* a row the transaction leaves alone
    Kinds,        \* kinds of request of this run
    MaxRevision   \* bound: revisions drawn from flag_revision_seq

AllKinds == {"create", "promote", "patch", "approve", "archive", "delete",
             "segment", "policy"}

Data == [Fields -> Values]

ASSUME TargetedAssumption == Targeted \subseteq Data
ASSUME MarkersAssumption ==
    /\ Absent \notin Data \cup [data : Data, seg : Rules \cup {NoSegment}]
    /\ Same \notin [data : Data \cup {Absent}, rev : Nat]
    /\ NoSegment \notin Rules
    /\ Nobody \notin Writers
ASSUME KindsAssumption == Kinds \subseteq AllKinds
ASSUME RevisionAssumption == MaxRevision \in Nat

VARIABLES
    \* committed
    row,        \* row[f]: the flags row, data = Absent when there is none
    tomb,       \* tomb[f]: revision in flag_tombstones, 0 when there is none
    aged,       \* flags whose tombstone is more than a day old
    segment,    \* rules of the segment, or NoSegment
    protected,  \* environments.require_approval
    \* not transactional
    seq,        \* last value drawn from flag_revision_seq
    \* handlers and their transactions
    req,        \* req[w]: the request handler w serves
    pc,         \* pc[w]: its next statement or step
    env,        \* env[w]: its lock on the environment row
    lock,       \* lock[f]: transaction that holds the row (or inserts it)
    tlock,      \* tlock[f]: transaction that holds the tombstone of f
    new,        \* new[w][f]: its uncommitted version of row f, or Same
    saw,        \* saw[w]: require_approval as it read it
    drawn,      \* drawn[w]: revision its INSERT drew for the column default
    merged,     \* merged[w]: the flag after its patch (merge_and_validate)
    todo,       \* todo[w]: rows its current statement has still to visit
    out,        \* out[w]: committed, not yet published
    \* history
    done,       \* the request that succeeded last
    announced,  \* announced[f]: revision of the last version of f to be published
    told        \* told[f]: what a client holds that gets every event

committed == <<row, tomb, aged, segment, protected, done, announced>>
txState   == <<env, lock, tlock, new, saw, drawn, merged, todo>>
vars == <<committed, seq, req, pc, txState, out, told>>

-----------------------------------------------------------------------------
(***************************************************************************)
(* Data and requests                                                       *)
(***************************************************************************)

Revision == 0 .. MaxRevision
Row == [data : Data \cup {Absent}, rev : Revision]
NoRow == [data |-> Absent, rev |-> 0]

Patch == [field : Fields, value : Values]

\* merge_and_validate: the fields of the patch replace those of the flag.
Merge(d, p) == [d EXCEPT ![p.field] = p.value]

NoRequest == [kind |-> "none"]

\* "patch" stands for the PATCH handler and for the scheduler, "approve" for
\* the approval of a change request.
Requests ==
    {q \in [kind : {"create", "promote"}, key : Flags, data : Data]
           \cup [kind : {"patch", "approve"}, key : Flags, patch : Patch]
           \cup [kind : {"archive", "delete"}, key : Flags]
           \cup [kind : {"segment"}, rules : Rules \cup {NoSegment}]
           \cup [kind : {"policy"}, protect : BOOLEAN]
        : q.kind \in Kinds}

Inserts == {"create", "promote"}
Patches == {"patch", "approve"}

\* What a protected environment refuses outright (a patch becomes a change
\* request instead, and the flag stays as it is).
Refused == {"promote", "patch", "delete", "segment"}

Exists(f) == row[f].data # Absent

\* What the database holds for f, expanded with the segment.
Expanded(f) == IF Exists(f) THEN Expand(row[f].data, segment) ELSE Absent

Init ==
    /\ row = [f \in Flags |-> NoRow]
    /\ tomb = [f \in Flags |-> 0]
    /\ aged = {}
    /\ segment = NoSegment
    /\ protected \in BOOLEAN
    /\ seq = 0
    /\ req = [w \in Writers |-> NoRequest]
    /\ pc = [w \in Writers |-> "idle"]
    /\ env = [w \in Writers |-> "none"]
    /\ lock = [f \in Flags |-> Nobody]
    /\ tlock = [f \in Flags |-> Nobody]
    /\ new = [w \in Writers |-> [f \in Flags |-> Same]]
    /\ saw = [w \in Writers |-> FALSE]
    /\ drawn = [w \in Writers |-> 0]
    /\ merged = [w \in Writers |-> Absent]
    /\ todo = [w \in Writers |-> {}]
    /\ out = [w \in Writers |-> {}]
    /\ done = NoRequest
    /\ announced = [f \in Flags |-> 0]
    /\ told = [f \in Flags |-> Unknown]

-----------------------------------------------------------------------------
(***************************************************************************)
(* Locks                                                                   *)
(***************************************************************************)

\* The transactions that hold what the next statement of w waits for.  A
\* statement on a row that is not there finds nothing and does not wait, but
\* an INSERT waits for the INSERT of another transaction.
WaitsFor(w) ==
    {v \in Writers \ {w} :
        \/ /\ pc[w] = "environment"
           /\ env[v] = "exclusive" \/ (env[v] = "share" /\ req[w].kind \in {"segment", "policy"})
        \/ pc[w] = "insert" /\ lock[req[w].key] = v
        \/ pc[w] \in {"select", "update", "delete"}
              /\ Exists(req[w].key) /\ lock[req[w].key] = v
        \/ pc[w] = "rerevise" /\ \E f \in todo[w] : lock[f] = v
        \/ pc[w] = "tombstone" /\ tlock[req[w].key] = v
        \/ pc[w] = "prune" /\ \E f \in todo[w] : tlock[f] = v}

\* The next statement of w is s and has what it needs.
At(w, s) == pc[w] = s /\ WaitsFor(w) = {}

Goto(w, s) == pc' = [pc EXCEPT ![w] = s]

\* The transaction of w is over: its locks are free.
Released(w) ==
    /\ env' = [env EXCEPT ![w] = "none"]
    /\ lock' = [f \in Flags |-> IF lock[f] = w THEN Nobody ELSE lock[f]]
    /\ tlock' = [f \in Flags |-> IF tlock[f] = w THEN Nobody ELSE tlock[f]]
    /\ new' = [new EXCEPT ![w] = [f \in Flags |-> Same]]
    /\ saw' = [saw EXCEPT ![w] = FALSE]
    /\ drawn' = [drawn EXCEPT ![w] = 0]
    /\ merged' = [merged EXCEPT ![w] = Absent]
    /\ todo' = [todo EXCEPT ![w] = {}]

\* w locks row f and writes r, with the revision the trigger draws.
WriteRow(w, f, d) ==
    /\ seq < MaxRevision
    /\ seq' = seq + 1
    /\ lock' = [lock EXCEPT ![f] = w]
    /\ new' = [new EXCEPT ![w][f] = [data |-> d, rev |-> seq + 1]]

-----------------------------------------------------------------------------
(***************************************************************************)
(* Transactions                                                            *)
(***************************************************************************)

\* A handler takes request q.  Archiving does not lock the environment.
Begin(w, q) ==
    /\ pc[w] = "idle"
    /\ req' = [req EXCEPT ![w] = q]
    /\ Goto(w, IF q.kind = "archive" THEN "update" ELSE "environment")
    /\ UNCHANGED <<committed, seq, txState, out, told>>

\* An error, a row that is not there, a policy that forbids it, a dropped
\* request, a deadlock: the transaction leaves nothing behind.
Rollback(w) ==
    /\ pc[w] \notin {"idle", "expand", "publish"}
    /\ Released(w)
    /\ Goto(w, "idle")
    /\ req' = [req EXCEPT ![w] = NoRequest]
    /\ UNCHANGED <<committed, seq, out, told>>

FirstStatement(k) ==
    IF k \in Inserts THEN "draw" ELSE IF k \in Patches THEN "select" ELSE k

\* lock_environment: SELECT require_approval .. FOR SHARE.
LockEnvironment(w) ==
    /\ At(w, "environment")
    /\ req[w].kind \notin {"segment", "policy"}
    /\ ~(protected /\ req[w].kind \in Refused)
    /\ env' = [env EXCEPT ![w] = "share"]
    /\ saw' = [saw EXCEPT ![w] = protected]
    /\ Goto(w, FirstStatement(req[w].kind))
    /\ UNCHANGED <<committed, seq, req, lock, tlock, new, drawn, merged, todo, out, told>>

\* INSERT .. ON CONFLICT: the column default draws a revision, before the
\* statement looks for a conflicting row.
DrawDefault(w) ==
    /\ At(w, "draw")
    /\ seq < MaxRevision
    /\ seq' = seq + 1
    /\ drawn' = [drawn EXCEPT ![w] = seq + 1]
    /\ Goto(w, "insert")
    /\ UNCHANGED <<committed, req, env, lock, tlock, new, saw, merged, todo, out, told>>

\* No row conflicts: the row is inserted with the revision drawn before.
InsertRow(w) ==
    LET f == req[w].key IN
    /\ At(w, "insert")
    /\ ~Exists(f)
    /\ lock' = [lock EXCEPT ![f] = w]
    /\ new' = [new EXCEPT ![w][f] = [data |-> req[w].data, rev |-> drawn[w]]]
    /\ Goto(w, "commit")
    /\ UNCHANGED <<committed, seq, req, env, tlock, saw, drawn, merged, todo, out, told>>

\* A row conflicts: it is updated, by a create only if not protected.
UpdateOnConflict(w) ==
    LET f == req[w].key IN
    /\ At(w, "insert")
    /\ Exists(f)
    /\ ~(saw[w] /\ req[w].kind = "create")
    /\ WriteRow(w, f, req[w].data)
    /\ Goto(w, "commit")
    /\ UNCHANGED <<committed, req, env, tlock, saw, drawn, merged, todo, out, told>>

\* Mutant of SelectForUpdate: the row is read and not locked.
SelectRow(w) ==
    /\ At(w, "select")
    /\ Exists(req[w].key)
    /\ Goto(w, "merge")
    /\ UNCHANGED <<committed, seq, req, txState, out, told>>

\* apply_patch_in_tx: SELECT .. FOR UPDATE.
SelectForUpdate(w) ==
    /\ At(w, "select")
    /\ Exists(req[w].key)
    /\ lock' = [lock EXCEPT ![req[w].key] = w]
    /\ Goto(w, "merge")
    /\ UNCHANGED <<committed, seq, req, env, tlock, new, saw, drawn, merged, todo, out, told>>

\* merge_and_validate reads the data with a SELECT of its own.
MergePatch(w) ==
    /\ At(w, "merge")
    /\ Exists(req[w].key)
    /\ merged' = [merged EXCEPT ![w] = Merge(row[req[w].key].data, req[w].patch)]
    /\ Goto(w, "update")
    /\ UNCHANGED <<committed, seq, req, env, lock, tlock, new, saw, drawn, todo, out, told>>

\* UPDATE of one row: of its data by a patch, of archived_at by an archiving.
UpdateRow(w) ==
    LET f == req[w].key IN
    /\ At(w, "update")
    /\ Exists(f)
    /\ WriteRow(w, f, IF req[w].kind = "archive" THEN row[f].data ELSE merged[w])
    /\ Goto(w, "commit")
    /\ UNCHANGED <<committed, req, env, tlock, saw, drawn, merged, todo, out, told>>

DeleteRow(w) ==
    LET f == req[w].key IN
    /\ At(w, "delete")
    /\ Exists(f)
    /\ lock' = [lock EXCEPT ![f] = w]
    /\ new' = [new EXCEPT ![w][f] = NoRow]
    /\ Goto(w, "tombstone")
    /\ UNCHANGED <<committed, seq, req, env, tlock, saw, drawn, merged, todo, out, told>>

\* flags_record_tombstone: writes the tombstone, then deletes the old ones.
RecordTombstone(w) ==
    LET f == req[w].key IN
    /\ At(w, "tombstone")
    /\ tlock' = [tlock EXCEPT ![f] = w]
    /\ todo' = [todo EXCEPT ![w] = aged \ {f}]
    /\ Goto(w, IF aged \subseteq {f} THEN "commit" ELSE "prune")
    /\ UNCHANGED <<committed, seq, req, env, lock, new, saw, drawn, merged, out, told>>

\* The next old tombstone: deleted, unless another transaction has just
\* renewed it.
PruneTombstone(w, f) ==
    /\ pc[w] = "prune"
    /\ f \in todo[w]
    /\ tlock[f] = Nobody
    /\ tlock' = [tlock EXCEPT ![f] = IF f \in aged THEN w ELSE Nobody]
    /\ todo' = [todo EXCEPT ![w] = @ \ {f}]
    /\ Goto(w, IF todo[w] = {f} THEN "commit" ELSE "prune")
    /\ UNCHANGED <<committed, seq, req, env, lock, new, saw, drawn, merged, out, told>>

\* Mutants of LockForSegmentWrite: the lock of a flag write; that lock first,
\* and then the exclusive one.
LockForSegmentWriteShared(w) ==
    LET users == {f \in Flags : row[f].data \in Targeted} IN
    /\ pc[w] = "environment" /\ req[w].kind = "segment" /\ ~protected
    /\ \A v \in Writers \ {w} : env[v] # "exclusive"
    /\ segment # NoSegment \/ req[w].rules # NoSegment
    /\ env' = [env EXCEPT ![w] = "share"]
    /\ todo' = [todo EXCEPT ![w] = users]
    /\ Goto(w, IF users = {} THEN "commit" ELSE "rerevise")
    /\ UNCHANGED <<committed, seq, req, lock, tlock, new, saw, drawn, merged, out, told>>

LockForSegmentWriteTwice(w) ==
    LET users == {f \in Flags : row[f].data \in Targeted} IN
    /\ pc[w] = "environment" /\ req[w].kind = "segment" /\ ~protected
    /\ segment # NoSegment \/ req[w].rules # NoSegment
    /\ IF env[w] = "none"
         THEN /\ \A v \in Writers : env[v] # "exclusive"
              /\ env' = [env EXCEPT ![w] = "share"]
              /\ UNCHANGED <<pc, todo>>
         ELSE /\ WaitsFor(w) = {}
              /\ env' = [env EXCEPT ![w] = "exclusive"]
              /\ todo' = [todo EXCEPT ![w] = users]
              /\ Goto(w, IF users = {} THEN "commit" ELSE "rerevise")
    /\ UNCHANGED <<committed, seq, req, lock, tlock, new, saw, drawn, merged, out, told>>

\* lock_environment_for_segment_write, the write of the segment, and the start
\* of rerevision_referencing_flags: an UPDATE of the flags that use it.
LockForSegmentWrite(w) ==
    LET users == {f \in Flags : row[f].data \in Targeted} IN
    /\ At(w, "environment")
    /\ req[w].kind = "segment"
    /\ ~protected
    /\ segment # NoSegment \/ req[w].rules # NoSegment
    /\ env' = [env EXCEPT ![w] = "exclusive"]
    /\ todo' = [todo EXCEPT ![w] = users]
    /\ Goto(w, IF users = {} THEN "commit" ELSE "rerevise")
    /\ UNCHANGED <<committed, seq, req, lock, tlock, new, saw, drawn, merged, out, told>>

\* The UPDATE reaches row f, which may have changed since it began.
Rerevise(w, f) ==
    /\ pc[w] = "rerevise"
    /\ f \in todo[w]
    /\ lock[f] = Nobody
    /\ IF row[f].data \in Targeted
         THEN WriteRow(w, f, row[f].data)
         ELSE UNCHANGED <<seq, lock, new>>
    /\ todo' = [todo EXCEPT ![w] = @ \ {f}]
    /\ Goto(w, IF todo[w] = {f} THEN "commit" ELSE "rerevise")
    /\ UNCHANGED <<committed, req, env, tlock, saw, drawn, merged, out, told>>

\* set_require_approval: an UPDATE of the environment row.
SetRequireApproval(w) ==
    /\ At(w, "environment")
    /\ req[w].kind = "policy"
    /\ env' = [env EXCEPT ![w] = "exclusive"]
    /\ Goto(w, "commit")
    /\ UNCHANGED <<committed, seq, req, lock, tlock, new, saw, drawn, merged, todo, out, told>>

\* What w publishes once it has committed.
Changes(w) ==
    {ChangeOf(f, IF new[w][f] = NoRow
                   THEN [val |-> Absent, rev |-> row[f].rev]
                   ELSE [val |-> Expand(new[w][f].data,
                                        IF req[w].kind = "segment" THEN req[w].rules ELSE NoSegment),
                         rev |-> new[w][f].rev])
       : f \in {g \in Flags : new[w][g] # Same}}

AfterCommit(w) ==
    IF req[w].kind \in Inserts \cup Patches THEN "expand"
    ELSE IF req[w].kind = "delete" \/ (req[w].kind = "segment" /\ Changes(w) # {}) THEN "publish"
    ELSE "idle"

Commit(w) ==
    /\ pc[w] = "commit"
    /\ row' = [f \in Flags |-> IF new[w][f] = Same THEN row[f] ELSE new[w][f]]
    /\ tomb' = [f \in Flags |->
                  IF tlock[f] # w THEN tomb[f]
                  ELSE IF f = req[w].key THEN Larger(tomb[f], row[f].rev)
                  ELSE 0]
    /\ aged' = {f \in aged : tlock[f] # w}
    /\ segment' = IF req[w].kind = "segment" THEN req[w].rules ELSE segment
    /\ protected' = IF req[w].kind = "policy" THEN req[w].protect ELSE protected
    /\ done' = req[w]
    /\ announced' = [f \in Flags |-> IF new[w][f] = Same \/ req[w].kind = "archive"
                                       THEN announced[f] ELSE new[w][f].rev]
    /\ Released(w)
    /\ Goto(w, AfterCommit(w))
    /\ out' = [out EXCEPT ![w] = IF AfterCommit(w) = "idle" THEN {} ELSE Changes(w)]
    /\ req' = [req EXCEPT ![w] = IF AfterCommit(w) = "idle" THEN NoRequest ELSE @]
    /\ UNCHANGED <<seq, told>>

-----------------------------------------------------------------------------
(***************************************************************************)
(* After the commit, and time                                              *)
(***************************************************************************)

\* load_env_segments and expand_flag_with_segments, outside the transaction.
LoadSegments(w) ==
    /\ pc[w] = "expand"
    /\ out' = [out EXCEPT ![w] = {[m EXCEPT !.val = Expand(m.val.data, segment)] : m \in @}]
    /\ Goto(w, "publish")
    /\ UNCHANGED <<committed, seq, req, txState, told>>

\* An event is published, and reaches a client that keeps it unless it is
\* older than what the client holds.
Publish(w, m) ==
    /\ pc[w] = "publish"
    /\ m \in out[w]
    /\ told' = IF IsStale(told[m.key], m) THEN told ELSE [told EXCEPT ![m.key] = SlotOf(m)]
    /\ out' = [out EXCEPT ![w] = @ \ {m}]
    /\ Goto(w, IF out[w] = {m} THEN "idle" ELSE "publish")
    /\ req' = [req EXCEPT ![w] = IF out[w] = {m} THEN NoRequest ELSE @]
    /\ UNCHANGED <<committed, seq, txState>>

\* A tombstone gets more than a day old.
Age(f) ==
    /\ tomb[f] # 0
    /\ aged' = aged \cup {f}
    /\ UNCHANGED <<row, tomb, segment, protected, done, announced, seq, req, pc, txState, out, told>>

Statement(w) ==
    \/ LockEnvironment(w) \/ LockForSegmentWrite(w) \/ SetRequireApproval(w)
    \/ DrawDefault(w) \/ InsertRow(w) \/ UpdateOnConflict(w)
    \/ SelectForUpdate(w) \/ MergePatch(w) \/ UpdateRow(w)
    \/ DeleteRow(w) \/ RecordTombstone(w)
    \/ \E f \in Flags : PruneTombstone(w, f) \/ Rerevise(w, f)

Next ==
    \/ \E w \in Writers :
         \/ \E q \in Requests : Begin(w, q)
         \/ Statement(w)
         \/ Commit(w)
         \/ Rollback(w)
         \/ LoadSegments(w)
         \/ \E m \in out[w] : Publish(w, m)
    \/ \E f \in Flags : Age(f)

Spec == Init /\ [][Next]_vars

-----------------------------------------------------------------------------
(***************************************************************************)
(* Properties                                                              *)
(***************************************************************************)

Change == {m \in [type : {"change"}, key : Flags,
                  val : [data : Data, seg : Rules \cup {NoSegment}] \cup {Absent},
                  rev : Revision] : m.rev # 0}

Steps == {"idle", "environment", "draw", "insert", "select", "merge", "update", "delete",
          "tombstone", "prune", "rerevise", "commit", "expand", "publish"}

\* Types of the variables.
TypeOK ==
    /\ row \in [Flags -> Row]
    /\ tomb \in [Flags -> Revision]
    /\ aged \subseteq Flags
    /\ segment \in Rules \cup {NoSegment}
    /\ protected \in BOOLEAN
    /\ seq \in Revision
    /\ req \in [Writers -> Requests \cup {NoRequest}]
    /\ pc \in [Writers -> Steps]
    /\ env \in [Writers -> {"none", "share", "exclusive"}]
    /\ lock \in [Flags -> Writers \cup {Nobody}]
    /\ tlock \in [Flags -> Writers \cup {Nobody}]
    /\ new \in [Writers -> [Flags -> Row \cup {Same}]]
    /\ saw \in [Writers -> BOOLEAN]
    /\ drawn \in [Writers -> Revision]
    /\ merged \in [Writers -> Data \cup {Absent}]
    /\ todo \in [Writers -> SUBSET Flags]
    /\ out \in [Writers -> SUBSET Change]
    /\ done \in Requests \cup {NoRequest}
    /\ announced \in [Flags -> Revision]
    /\ told \in [Flags -> [val : [data : Data, seg : Rules \cup {NoSegment}] \cup {Absent},
                           rev : Revision]]

\* The requests that succeed are serializable, in the order of their commits:
\* a patch changes only its own field of what is committed, no direct write
\* succeeds in an environment protected at that moment, a segment write gives
\* every flag that uses the segment a new revision, and the revision of a flag
\* rises with each of its writes.
Table == INSTANCE FlagTable
Serializable == Table!Spec

\* Once nothing is under way, a client that got every event, in whatever order
\* the handlers published, holds each flag as it is, with the rules the
\* segment has; save a flag that was deleted and inserted again, of which no
\* version was published since that is newer than the deletion: the client takes
\* it for deleted (RecreatedHigher).
Fresh ==
    (\A w \in Writers : pc[w] = "idle") =>
        \A f \in Flags :
            \/ told[f].val = Expanded(f)
            \/ /\ Exists(f)
               /\ told[f].val = Absent /\ told[f].rev # 0
               /\ announced[f] <= told[f].rev

\* Transactions wait for each other in a circle only where deletions prune old
\* tombstones; the environment and row locks are taken in one order.
OnlyPrunersDeadlock ==
    \A S \in (SUBSET Writers) \ {{}} :
        (\A w \in S : WaitsFor(w) \cap S # {}) => \E w \in S : pc[w] = "prune"

\* "A later re-create always gets a higher one": the revision of a flag that
\* was deleted and created again is above that of its tombstone.
RecreatedHigher ==
    \A f \in Flags : Exists(f) /\ tomb[f] # 0 => row[f].rev > tomb[f]

-----------------------------------------------------------------------------
(***************************************************************************)
(* Why the requests are serializable: the invariant the proof needs.        *)
(***************************************************************************)

\* The rows w has written and not committed.
Written(w) == {f \in Flags : new[w][f] # Same}

\* A row that is there has a revision, one that is not has none.
RowsOK == \A f \in Flags : (row[f].rev = 0) = ~Exists(f) /\ row[f].rev <= seq

\* The environment lock a handler holds: none before its statement and after
\* the commit, and in between the one its kind of request needs.
Outside == {"idle", "environment", "expand", "publish"}
Needed(w) ==
    IF pc[w] \in Outside \/ req[w].kind = "archive" THEN "none"
    ELSE IF req[w].kind \in {"segment", "policy"} THEN "exclusive" ELSE "share"

\* w holds the lock it needs, and the policy is as w read it.
EnvironmentOK(w) ==
    /\ env[w] = Needed(w)
    /\ env[w] = "exclusive" => \A v \in Writers \ {w} : env[v] = "none"
    /\ env[w] = "share" => saw[w] = protected
    /\ env[w] # "none" /\ req[w].kind \in Refused => ~protected

\* The only row w has written is that of its flag, with data d and a revision
\* above that of the committed row.
WroteFlag(w, d) ==
    /\ Written(w) = {req[w].key}
    /\ new[w][req[w].key].data = d
    /\ new[w][req[w].key].rev > row[req[w].key].rev

\* The flags w has still to reach, or has given a new revision, are those that
\* use the segment.
Rerevised(w) ==
    \A f \in Flags :
        IF row[f].data \in Targeted /\ f \notin todo[w]
          THEN /\ new[w][f] # Same
               /\ new[w][f].data = row[f].data
               /\ new[w][f].rev > row[f].rev
          ELSE new[w][f] = Same

\* w holds the row of its flag, and the flag is there.
HasFlag(w) == lock[req[w].key] = w /\ Exists(req[w].key)

\* What w will commit is what its request amounts to on the committed state.
ReadyToCommit(w) ==
    \/ /\ req[w].kind \in Inserts
       /\ WroteFlag(w, req[w].data)
       /\ req[w].kind = "create" => ~protected \/ ~Exists(req[w].key)
    \/ /\ req[w].kind \in Patches
       /\ Exists(req[w].key)
       /\ WroteFlag(w, Merge(row[req[w].key].data, req[w].patch))
    \/ /\ req[w].kind = "archive"
       /\ Exists(req[w].key)
       /\ WroteFlag(w, row[req[w].key].data)
    \/ /\ req[w].kind = "delete"
       /\ HasFlag(w)
       /\ Written(w) = {req[w].key} /\ new[w][req[w].key] = NoRow
    \/ /\ req[w].kind = "segment"
       /\ segment # NoSegment \/ req[w].rules # NoSegment
       /\ todo[w] = {}
       /\ Rerevised(w)
    \/ /\ req[w].kind = "policy"
       /\ Written(w) = {}

\* Where the transaction of w is, and what it has done so far.
WorkOK(w) ==
    /\ \A f \in Written(w) : lock[f] = w /\ new[w][f].rev <= seq
    /\ pc[w] \notin {"tombstone", "prune", "rerevise", "commit"} => Written(w) = {}
    /\ pc[w] = "idle" <=> req[w] = NoRequest
    /\ pc[w] \in {"draw", "insert"} => req[w].kind \in Inserts
    /\ pc[w] = "insert" => drawn[w] \in 1 .. seq
    /\ pc[w] \in {"select", "merge"} => req[w].kind \in Patches
    /\ pc[w] = "merge" => HasFlag(w)
    /\ pc[w] = "update" =>
          \/ req[w].kind = "archive"
          \/ /\ req[w].kind \in Patches
             /\ HasFlag(w)
             /\ merged[w] = Merge(row[req[w].key].data, req[w].patch)
    /\ pc[w] = "delete" => req[w].kind = "delete"
    /\ pc[w] \in {"tombstone", "prune"} =>
          /\ req[w].kind = "delete"
          /\ HasFlag(w)
          /\ Written(w) = {req[w].key} /\ new[w][req[w].key] = NoRow
    /\ pc[w] = "rerevise" =>
          /\ req[w].kind = "segment"
          /\ segment # NoSegment \/ req[w].rules # NoSegment
          /\ Rerevised(w)
    /\ pc[w] = "environment" => req[w].kind # "archive"
    /\ pc[w] = "commit" => ReadyToCommit(w)
    /\ pc[w] = "expand" => \A m \in out[w] : m.val # Absent

IInv ==
    /\ TypeOK
    /\ RowsOK
    /\ \A w \in Writers : EnvironmentOK(w) /\ WorkOK(w)
=============================================================================
