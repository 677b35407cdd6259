---------------------------- MODULE FlagTx_proofs ----------------------------
(***************************************************************************)
(* The transactions on the flags of an environment are serializable, for    *)
(* every number of handlers, flags, fields and values: the locks make each  *)
(* of them what FlagTable says of its request.  They deadlock only where    *)
(* tombstones are pruned, and the events they publish leave a client with   *)
(* what they committed.                                                    *)
(*                                                                         *)
(* A step of one handler is looked at twice: what it does to the handler    *)
(* itself, action by action, and what it leaves of the others (Others).     *)
(***************************************************************************)
EXTENDS FlagTx, TLAPS

\* What a request is, by its kind.
LEMMA RequestFields ==
    ASSUME NEW q \in Requests \cup {NoRequest}
    PROVE  /\ q.kind \in AllKinds \cup {"none"}
           /\ q.kind = "none" <=> q = NoRequest
           /\ q.kind \in Inserts =>
                 /\ q.key \in Flags /\ q.data \in Data
                 /\ q = [kind |-> q.kind, key |-> q.key, data |-> q.data]
           /\ q.kind \in Patches =>
                 /\ q.key \in Flags /\ q.patch \in Patch
                 /\ q = [kind |-> q.kind, key |-> q.key, patch |-> q.patch]
           /\ q.kind \in {"archive", "delete"} =>
                 q.key \in Flags /\ q = [kind |-> q.kind, key |-> q.key]
           /\ q.kind = "segment" =>
                 /\ q.rules \in Rules \cup {NoSegment}
                 /\ q = [kind |-> q.kind, rules |-> q.rules]
           /\ q.kind = "policy" =>
                 /\ q.protect \in BOOLEAN
                 /\ q = [kind |-> q.kind, protect |-> q.protect]
<1>1. CASE q = NoRequest
  BY <1>1 DEF NoRequest, AllKinds, Inserts, Patches
<1>2. CASE q \in [kind : {"create", "promote"}, key : Flags, data : Data]
  BY <1>2 DEF NoRequest, AllKinds, Inserts, Patches
<1>3. CASE q \in [kind : {"patch", "approve"}, key : Flags, patch : Patch]
  BY <1>3 DEF NoRequest, AllKinds, Inserts, Patches
<1>4. CASE q \in [kind : {"archive", "delete"}, key : Flags]
  BY <1>4 DEF NoRequest, AllKinds, Inserts, Patches
<1>5. CASE q \in [kind : {"segment"}, rules : Rules \cup {NoSegment}]
  BY <1>5 DEF NoRequest, AllKinds, Inserts, Patches
<1>6. CASE q \in [kind : {"policy"}, protect : BOOLEAN]
  BY <1>6 DEF NoRequest, AllKinds, Inserts, Patches
<1> QED
  BY <1>1, <1>2, <1>3, <1>4, <1>5, <1>6 DEF Requests

\* A merged flag is a flag.
LEMMA MergeType ==
    ASSUME NEW d \in Data, NEW p \in Patch
    PROVE  Merge(d, p) \in Data
  BY DEF Merge, Patch, Data

\* An absent row is told from every row that is there.
LEMMA Markers ==
    /\ Absent \notin Data
    /\ \A d \in Data, s \in Rules \cup {NoSegment} : [data |-> d, seg |-> s] # Absent
    /\ \A r \in Row : r # Same
    /\ NoRow \in Row
<1>1. Absent \notin Data /\ \A d \in Data, s \in Rules \cup {NoSegment} : [data |-> d, seg |-> s] # Absent
  BY MarkersAssumption
<1>2. \A r \in Row : r \in [data : Data \cup {Absent}, rev : Nat]
  BY RevisionAssumption DEF Row, Revision
<1>3. NoRow \in Row
  BY RevisionAssumption DEF Row, NoRow, Revision
<1> QED  BY <1>1, <1>2, <1>3, MarkersAssumption

-----------------------------------------------------------------------------
(***************************************************************************)
(* The other handlers                                                      *)
(***************************************************************************)

\* Nothing of handler v changes.
Untouched(v) ==
    /\ pc'[v] = pc[v] /\ req'[v] = req[v] /\ env'[v] = env[v] /\ new'[v] = new[v]
    /\ saw'[v] = saw[v] /\ drawn'[v] = drawn[v] /\ merged'[v] = merged[v]
    /\ todo'[v] = todo[v] /\ out'[v] = out[v]

\* The locks of v are respected.
Respected(v) ==
    /\ \A f \in Flags : lock[f] = v => lock'[f] = v /\ row'[f] = row[f]
    /\ env[v] # "none" => protected' = protected
    /\ env[v] = "exclusive" =>
          /\ segment' = segment
          /\ \A f \in Flags : row'[f].data = row[f].data

\* What v has done stays right as long as its locks are respected.
LEMMA Others ==
    ASSUME IInv, NEW v \in Writers, Untouched(v), Respected(v), seq' \in Nat, seq' >= seq
    PROVE  WorkOK(v)'
<1> USE DEF Untouched
<1>t. TypeOK /\ WorkOK(v) /\ EnvironmentOK(v)
  BY DEF IInv
<1>s. seq \in Nat
  BY <1>t, RevisionAssumption DEF TypeOK, Revision
<1>n. \A f \in Flags : new[v][f] # Same => new[v][f].rev \in Nat
  BY <1>t, RevisionAssumption DEF TypeOK, Row, Revision
<1>r. req[v] \in Requests \cup {NoRequest}
  BY <1>t DEF TypeOK
<1>w. Written(v)' = Written(v)
  BY DEF Written
<1>1. (\A f \in Written(v) : lock[f] = v /\ new[v][f].rev <= seq)'
  <2> TAKE f \in Written(v)'
  <2>1. f \in Flags /\ lock[f] = v /\ new[v][f].rev <= seq /\ new[v][f].rev \in Nat
    BY <1>w, <1>t, <1>n DEF WorkOK, Written
  <2> QED  BY <2>1, <1>s DEF Respected
<1>2. HasFlag(v) /\ req[v].key \in Flags => HasFlag(v)' /\ row'[req[v].key] = row[req[v].key]
  BY DEF HasFlag, Respected, Exists
<1>k. req[v].kind \in Inserts \cup Patches \cup {"archive", "delete"} => req[v].key \in Flags
  BY <1>r, RequestFields
<1>3. (pc[v] = "insert" => drawn[v] \in 1 .. seq)'
  BY <1>t, <1>s DEF WorkOK
<1>4. (pc[v] = "merge" => HasFlag(v))'
  BY <1>t, <1>2, <1>k DEF WorkOK
<1>5. (pc[v] = "update" =>
          \/ req[v].kind = "archive"
          \/ /\ req[v].kind \in Patches
             /\ HasFlag(v)
             /\ merged[v] = Merge(row[req[v].key].data, req[v].patch))'
  BY <1>t, <1>2, <1>k DEF WorkOK
<1>6. (pc[v] \in {"tombstone", "prune"} =>
          /\ req[v].kind = "delete"
          /\ HasFlag(v)
          /\ Written(v) = {req[v].key} /\ new[v][req[v].key] = NoRow)'
  BY <1>t, <1>2, <1>k, <1>w DEF WorkOK
<1>7. ASSUME req[v].kind = "segment", env[v] = "exclusive", Rerevised(v)
      PROVE  Rerevised(v)'
  <2> SUFFICES ASSUME NEW f \in Flags
               PROVE  (IF row[f].data \in Targeted /\ f \notin todo[v]
                         THEN /\ new[v][f] # Same
                              /\ new[v][f].data = row[f].data
                              /\ new[v][f].rev > row[f].rev
                         ELSE new[v][f] = Same)'
    BY DEF Rerevised
  <2>1. row'[f].data = row[f].data
    BY <1>7 DEF Respected
  <2>2. new[v][f] # Same => row'[f] = row[f]
    BY <1>t DEF WorkOK, Written, Respected
  <2> QED  BY <1>7, <2>1, <2>2 DEF Rerevised
<1>8. pc[v] \in {"rerevise", "commit"} /\ req[v].kind = "segment" => env[v] = "exclusive"
  BY <1>t DEF EnvironmentOK, Needed, Outside
<1>9. (pc[v] = "rerevise" =>
          /\ req[v].kind = "segment"
          /\ segment # NoSegment \/ req[v].rules # NoSegment
          /\ Rerevised(v))'
  BY <1>t, <1>7, <1>8 DEF WorkOK, Respected
<1>10. ASSUME pc[v] = "commit" PROVE ReadyToCommit(v)'
  <2>1. ReadyToCommit(v)
    BY <1>10, <1>t DEF WorkOK
  <2>2. ASSUME req[v].key \in Flags, Written(v) = {req[v].key}
        PROVE  row'[req[v].key] = row[req[v].key] /\ lock[req[v].key] = v
    BY <2>2, <1>t DEF WorkOK, Respected
  <2>3. CASE req[v].kind \in Inserts /\ WroteFlag(v, req[v].data)
    <3>1. req[v].kind = "create" => protected' = protected
      BY <1>10, <1>t DEF EnvironmentOK, Needed, Outside, Respected
    <3>2. row'[req[v].key] = row[req[v].key]
      BY <2>2, <2>3, <1>k DEF WroteFlag
    <3>3. req[v].kind = "create" => ~protected \/ ~Exists(req[v].key)
      BY <2>1, <2>3 DEF ReadyToCommit, Inserts, Patches
    <3> QED  BY <2>3, <3>1, <3>2, <3>3, <1>w DEF ReadyToCommit, WroteFlag, Exists
  <2>4. CASE /\ req[v].kind \in Patches /\ Exists(req[v].key)
             /\ WroteFlag(v, Merge(row[req[v].key].data, req[v].patch))
    <3>1. row'[req[v].key] = row[req[v].key]
      BY <2>2, <2>4, <1>k DEF WroteFlag
    <3> QED  BY <2>4, <3>1, <1>w DEF ReadyToCommit, WroteFlag, Exists
  <2>5. CASE /\ req[v].kind = "archive" /\ Exists(req[v].key)
             /\ WroteFlag(v, row[req[v].key].data)
    <3>1. row'[req[v].key] = row[req[v].key]
      BY <2>2, <2>5, <1>k DEF WroteFlag
    <3> QED  BY <2>5, <3>1, <1>w DEF ReadyToCommit, WroteFlag, Exists
  <2>6. CASE /\ req[v].kind = "delete" /\ HasFlag(v)
             /\ Written(v) = {req[v].key} /\ new[v][req[v].key] = NoRow
    BY <2>6, <1>2, <1>k, <1>w DEF ReadyToCommit
  <2>7. CASE /\ req[v].kind = "segment"
             /\ segment # NoSegment \/ req[v].rules # NoSegment
             /\ todo[v] = {}
             /\ Rerevised(v)
    BY <2>7, <1>7, <1>8, <1>10 DEF ReadyToCommit, Respected
  <2>8. CASE req[v].kind = "policy" /\ Written(v) = {}
    BY <2>8, <1>w DEF ReadyToCommit
  <2> QED  BY <2>1, <2>3, <2>4, <2>5, <2>6, <2>7, <2>8 DEF ReadyToCommit
<1> QED
  BY <1>t, <1>w, <1>1, <1>3, <1>4, <1>5, <1>6, <1>9, <1>10 DEF WorkOK

-----------------------------------------------------------------------------
(***************************************************************************)
(* What a handler may rely on before a step                                *)
(***************************************************************************)

\* A handler at a statement on a flag row has a request with a flag.
LEMMA KeyOf ==
    ASSUME IInv, NEW w \in Writers,
           pc[w] \in {"draw", "insert", "select", "merge", "update", "delete", "tombstone", "prune"}
    PROVE  req[w].key \in Flags
<1>1. WorkOK(w) /\ req[w] \in Requests \cup {NoRequest}
  BY DEF IInv, TypeOK
<1>2. req[w].kind \in Inserts \cup Patches \cup {"archive", "delete"}
  BY <1>1 DEF WorkOK
<1> QED  BY <1>1, <1>2, RequestFields

\* The row of a statement that does not wait is not held by another.
LEMMA FreeRow ==
    ASSUME IInv, NEW w \in Writers, WaitsFor(w) = {},
           \/ pc[w] = "insert"
           \/ pc[w] \in {"select", "update", "delete"} /\ Exists(req[w].key)
    PROVE  req[w].key \in Flags /\ lock[req[w].key] \in {w, Nobody}
<1>1. req[w].key \in Flags
  BY KeyOf
<1>2. lock[req[w].key] \in Writers \cup {Nobody}
  BY <1>1 DEF IInv, TypeOK
<1>3. lock[req[w].key] \notin Writers \ {w}
  BY DEF WaitsFor
<1> QED  BY <1>1, <1>2, <1>3

\* The environment lock is given when no other holds one that excludes it.
LEMMA FreeEnvironment ==
    ASSUME IInv, NEW w \in Writers, At(w, "environment")
    PROVE  /\ \A v \in Writers \ {w} : env[v] # "exclusive"
           /\ req[w].kind \in {"segment", "policy"} =>
                 \A v \in Writers \ {w} : env[v] = "none"
           /\ env[w] = "none"
<1>1. \A v \in Writers : env[v] \in {"none", "share", "exclusive"}
  BY DEF IInv, TypeOK
<1>2. env[w] = "none"
  BY DEF IInv, EnvironmentOK, Needed, Outside, At
<1> QED  BY <1>1, <1>2 DEF At, WaitsFor

\* The steps of handler w.
HandlerStep(w) ==
    \/ \E q \in Requests : Begin(w, q)
    \/ Statement(w)
    \/ Commit(w)
    \/ Rollback(w)
    \/ LoadSegments(w)
    \/ \E m \in out[w] : Publish(w, m)

\* Before it commits, a statement of w leaves the others alone.
LEMMA StatementApart ==
    ASSUME IInv, NEW w \in Writers, NEW v \in Writers \ {w}, Statement(w)
    PROVE  Untouched(v) /\ Respected(v) /\ seq' \in Nat /\ seq' >= seq
<1> USE DEF Goto
<1>t. TypeOK
  BY DEF IInv
<1>u. v \in Writers /\ v # w /\ v # Nobody
  BY MarkersAssumption
<1>s. seq \in Nat
  BY <1>t, RevisionAssumption DEF TypeOK, Revision
<1>1. row' = row /\ protected' = protected /\ segment' = segment /\ req' = req /\ out' = out
  BY DEF Statement, LockEnvironment, LockForSegmentWrite, SetRequireApproval, DrawDefault,
         InsertRow, UpdateOnConflict, SelectForUpdate, MergePatch, UpdateRow, DeleteRow,
         RecordTombstone, PruneTombstone, Rerevise, committed, txState
<1>2. seq' \in Nat /\ seq' >= seq
  BY <1>s DEF Statement, LockEnvironment, LockForSegmentWrite, SetRequireApproval, DrawDefault,
         InsertRow, UpdateOnConflict, SelectForUpdate, MergePatch, UpdateRow, DeleteRow,
         RecordTombstone, PruneTombstone, Rerevise, WriteRow, txState
<1>3. pc'[v] = pc[v] /\ env'[v] = env[v] /\ saw'[v] = saw[v] /\ drawn'[v] = drawn[v]
        /\ merged'[v] = merged[v] /\ todo'[v] = todo[v]
  BY <1>t, <1>u DEF TypeOK, Statement, LockEnvironment, LockForSegmentWrite, SetRequireApproval, DrawDefault,
         InsertRow, UpdateOnConflict, SelectForUpdate, MergePatch, UpdateRow, DeleteRow,
         RecordTombstone, PruneTombstone, Rerevise, txState
<1>4. new'[v] = new[v]
  BY <1>t, <1>u DEF TypeOK, Statement, LockEnvironment, LockForSegmentWrite, SetRequireApproval, DrawDefault,
         InsertRow, UpdateOnConflict, SelectForUpdate, MergePatch, UpdateRow, DeleteRow,
         RecordTombstone, PruneTombstone, Rerevise, WriteRow, txState
<1>5. \/ lock' = lock
      \/ \E f \in Flags : lock[f] \in {w, Nobody} /\ lock' = [lock EXCEPT ![f] = w]
  <2>1. CASE InsertRow(w)
    BY <2>1, FreeRow DEF InsertRow, At
  <2>2. CASE UpdateOnConflict(w)
    BY <2>2, FreeRow DEF UpdateOnConflict, At, WriteRow
  <2>3. CASE SelectForUpdate(w)
    BY <2>3, FreeRow DEF SelectForUpdate, At
  <2>4. CASE UpdateRow(w)
    BY <2>4, FreeRow DEF UpdateRow, At, WriteRow
  <2>5. CASE DeleteRow(w)
    BY <2>5, FreeRow DEF DeleteRow, At
  <2>6. ASSUME NEW f \in Flags, Rerevise(w, f) 
      PROVE  lock' = lock \/ (lock[f] = Nobody /\ lock' = [lock EXCEPT ![f] = w])
    BY <2>6 DEF Rerevise, WriteRow
  <2>7. CASE \/ LockEnvironment(w) \/ LockForSegmentWrite(w) \/ SetRequireApproval(w)
             \/ DrawDefault(w) \/ MergePatch(w) \/ RecordTombstone(w)
             \/ \E f \in Flags : PruneTombstone(w, f)
    BY <2>7 DEF LockEnvironment, LockForSegmentWrite, SetRequireApproval, DrawDefault,
         MergePatch, RecordTombstone, PruneTombstone, txState
  <2> QED  BY <2>1, <2>2, <2>3, <2>4, <2>5, <2>6, <2>7 DEF Statement
<1>6. \A f \in Flags : lock[f] = v => lock'[f] = v
  BY <1>5, <1>u, <1>t DEF TypeOK
<1> QED  BY <1>1, <1>2, <1>3, <1>4, <1>6 DEF Untouched, Respected

\* At the end of the transaction of w, the locks of the others stay.
LEMMA ReleaseApart ==
    ASSUME IInv, NEW w \in Writers, NEW v \in Writers \ {w}, Released(w)
    PROVE  /\ env'[v] = env[v] /\ new'[v] = new[v] /\ saw'[v] = saw[v]
           /\ drawn'[v] = drawn[v] /\ merged'[v] = merged[v] /\ todo'[v] = todo[v]
           /\ \A f \in Flags : lock[f] = v => lock'[f] = v
<1>1. TypeOK /\ v \in Writers /\ v # w
  BY DEF IInv
<1> QED  BY <1>1 DEF TypeOK, Released

\* A commit changes no row and no policy that another handler has locked.
LEMMA CommitApart ==
    ASSUME IInv, NEW w \in Writers, NEW v \in Writers \ {w}, Commit(w)
    PROVE  Untouched(v) /\ Respected(v) /\ seq' \in Nat /\ seq' >= seq
<1>t. TypeOK /\ v \in Writers /\ v # w
  BY DEF IInv
<1>s. seq' = seq /\ seq \in Nat
  BY <1>t, RevisionAssumption DEF TypeOK, Revision, Commit
<1>1. Untouched(v)
  BY <1>t, ReleaseApart DEF TypeOK, Commit, Goto, Untouched
<1>2. \A f \in Flags : lock[f] = v => lock'[f] = v /\ row'[f] = row[f]
  <2> TAKE f \in Flags
  <2> HAVE lock[f] = v
  <2>1. new[w][f] = Same
    BY <1>t DEF IInv, WorkOK, Written
  <2> QED  BY <2>1, ReleaseApart DEF Commit
<1>w. WorkOK(w) /\ EnvironmentOK(w) /\ EnvironmentOK(v) /\ ReadyToCommit(w)
  BY DEF IInv, WorkOK, Commit
<1>k. req[w] \in Requests \cup {NoRequest} /\ pc[w] = "commit"
  BY <1>t DEF TypeOK, Commit
<1>3. env[v] # "none" => env[w] # "exclusive"
  BY <1>w, <1>t DEF EnvironmentOK
<1>4. env[v] # "none" => protected' = protected
  <2> HAVE env[v] # "none"
  <2>1. req[w].kind # "policy"
    BY <1>3, <1>w, <1>k DEF EnvironmentOK, Needed, Outside
  <2> QED  BY <2>1 DEF Commit
<1>5. ASSUME env[v] = "exclusive"
      PROVE  segment' = segment /\ \A f \in Flags : row'[f].data = row[f].data
  <2>1. env[w] = "none"
    BY <1>5, <1>w, <1>t DEF EnvironmentOK
  <2>2. req[w].kind = "archive"
    BY <2>1, <1>w, <1>k DEF EnvironmentOK, Needed, Outside
  <2>3. WroteFlag(w, row[req[w].key].data)
    BY <2>2, <1>w DEF ReadyToCommit, Inserts, Patches
  <2>4. ASSUME NEW f \in Flags PROVE row'[f].data = row[f].data
    BY <2>3 DEF WroteFlag, Written, Commit
  <2> QED  BY <2>2, <2>4 DEF Commit
<1> QED  BY <1>s, <1>1, <1>2, <1>4, <1>5 DEF Respected

\* Nor does any other step of w disturb them.
LEMMA RestApart ==
    ASSUME IInv, NEW w \in Writers, NEW v \in Writers \ {w},
           \/ \E q \in Requests : Begin(w, q)
           \/ Rollback(w)
           \/ LoadSegments(w)
           \/ \E m \in out[w] : Publish(w, m)
    PROVE  Untouched(v) /\ Respected(v) /\ seq' \in Nat /\ seq' >= seq
<1>t. TypeOK /\ v \in Writers /\ v # w
  BY DEF IInv
<1>s. seq \in Nat
  BY <1>t, RevisionAssumption DEF TypeOK, Revision
<1>1. CASE \E q \in Requests : Begin(w, q)
  BY <1>t, <1>s, <1>1 DEF TypeOK, Begin, Goto, Untouched, Respected, committed, txState
<1>2. CASE Rollback(w)
  <2>1. pc'[v] = pc[v] /\ req'[v] = req[v] /\ out' = out /\ UNCHANGED <<committed, seq>>
    BY <1>t, <1>2 DEF TypeOK, Rollback, Goto
  <2>2. Released(w)
    BY <1>2 DEF Rollback
  <2> QED  BY <1>s, <2>1, <2>2, ReleaseApart DEF Untouched, Respected, committed
<1>3. CASE LoadSegments(w)
  BY <1>t, <1>s, <1>3 DEF TypeOK, LoadSegments, Goto, Untouched, Respected, committed, txState
<1>4. CASE \E m \in out[w] : Publish(w, m)
  BY <1>t, <1>s, <1>4 DEF TypeOK, Publish, Goto, Untouched, Respected, committed, txState
<1> QED  BY <1>1, <1>2, <1>3, <1>4

\* So a step of w keeps the work of every other handler.
LEMMA OthersKept ==
    ASSUME IInv, NEW w \in Writers, NEW v \in Writers \ {w}, HandlerStep(w)
    PROVE  WorkOK(v)' /\ Untouched(v) /\ Respected(v) /\ seq' \in Nat /\ seq' >= seq
<1>1. Untouched(v) /\ Respected(v) /\ seq' \in Nat /\ seq' >= seq
  BY StatementApart, CommitApart, RestApart DEF HandlerStep
<1> QED  BY <1>1, Others

-----------------------------------------------------------------------------
(***************************************************************************)
(* The environment lock                                                    *)
(***************************************************************************)

\* A step that takes no lock on the environment, and stays on its side of it.
LEMMA EnvironmentKept ==
    ASSUME IInv, NEW w \in Writers, env' = env, protected' = protected,
           Needed(w)' = Needed(w),
           env[w] # "none" => req'[w] = req[w] /\ saw'[w] = saw[w],
           \A v \in Writers \ {w} : Untouched(v)
    PROVE  \A v \in Writers : EnvironmentOK(v)'
<1> TAKE v \in Writers
<1>1. EnvironmentOK(v)
  BY DEF IInv
<1>2. CASE v = w
  BY <1>1, <1>2 DEF EnvironmentOK
<1>3. CASE v # w
  BY <1>1, <1>3 DEF EnvironmentOK, Untouched, Needed
<1> QED  BY <1>2, <1>3

\* w takes the lock it needs.
LEMMA EnvironmentTaken ==
    ASSUME IInv, NEW w \in Writers, At(w, "environment"), protected' = protected,
           env' = [env EXCEPT ![w] = Needed(w)'], req' = req,
           req[w].kind # "archive" /\ pc'[w] \notin Outside,
           req[w].kind \notin {"segment", "policy"} => saw'[w] = protected,
           protected => req[w].kind \notin Refused,
           \A v \in Writers \ {w} : Untouched(v)
    PROVE  \A v \in Writers : EnvironmentOK(v)'
<1> TAKE v \in Writers
<1>t. TypeOK /\ EnvironmentOK(v)
  BY DEF IInv
<1>1. env'[w] = Needed(w)' /\ \A u \in Writers \ {w} : env'[u] = env[u]
  BY <1>t DEF TypeOK
<1>2. CASE v = w
  <2>1. env'[w] = IF req[w].kind \in {"segment", "policy"} THEN "exclusive" ELSE "share"
    BY <1>1 DEF Needed
  <2> QED  BY <1>1, <1>2, <2>1, FreeEnvironment DEF EnvironmentOK
<1>3. CASE v # w
  BY <1>t, <1>1, <1>3, FreeEnvironment DEF EnvironmentOK, Untouched, Needed
<1> QED  BY <1>2, <1>3

\* w is done and holds none.
LEMMA EnvironmentReleased ==
    ASSUME IInv, NEW w \in Writers, Released(w), pc'[w] \in Outside,
           \A v \in Writers \ {w} : Untouched(v) /\ Respected(v)
    PROVE  \A v \in Writers : EnvironmentOK(v)'
<1> TAKE v \in Writers
<1>t. TypeOK /\ EnvironmentOK(v)
  BY DEF IInv
<1>1. env'[w] = "none" /\ \A u \in Writers \ {w} : env'[u] = env[u]
  BY <1>t DEF TypeOK, Released
<1>2. CASE v = w
  BY <1>1, <1>2 DEF EnvironmentOK, Needed
<1>3. CASE v # w
  BY <1>t, <1>1, <1>3 DEF EnvironmentOK, Untouched, Respected, Needed
<1> QED  BY <1>2, <1>3

LEMMA EnvironmentStep ==
    ASSUME IInv, NEW w \in Writers, HandlerStep(w)
    PROVE  \A v \in Writers : EnvironmentOK(v)'
<1>t. TypeOK /\ WorkOK(w) /\ EnvironmentOK(w)
  BY DEF IInv
<1>q. req[w] \in Requests \cup {NoRequest}
  BY <1>t DEF TypeOK
<1>u. \A v \in Writers \ {w} : Untouched(v) /\ Respected(v)
  BY OthersKept
<1>1. CASE \E q \in Requests : Begin(w, q)
  <2> PICK q \in Requests : Begin(w, q)
    BY <1>1
  <2>1. pc[w] = "idle" /\ env' = env /\ protected' = protected
    BY DEF Begin, committed, txState
  <2>2. q.kind # "archive" => pc'[w] = "environment"
    BY <1>t DEF Begin, Goto, TypeOK
  <2>3. req'[w] = q
    BY <1>t DEF Begin, TypeOK
  <2>4. Needed(w)' = "none" /\ Needed(w) = "none"
    BY <2>1, <2>2, <2>3 DEF Needed, Outside
  <2>5. env[w] = "none"
    BY <1>t, <2>4 DEF EnvironmentOK
  <2> QED  BY <1>u, <2>1, <2>4, <2>5, EnvironmentKept
<1>2. CASE LockEnvironment(w)
  <2>1. req[w].kind \notin {"segment", "policy", "archive"}
    BY <1>t, <1>2 DEF LockEnvironment, WorkOK, At
  <2>2. req[w].kind \in {"create", "promote", "patch", "approve", "delete"}
    BY <1>q, <1>t, <1>2, <2>1, RequestFields DEF AllKinds, WorkOK, LockEnvironment, At
  <2>3. pc'[w] = FirstStatement(req[w].kind) /\ pc'[w] \notin Outside
    BY <1>t, <1>2, <2>2 DEF LockEnvironment, Goto, TypeOK, FirstStatement, Outside, Inserts, Patches
  <2>4. Needed(w)' = "share" /\ req' = req
    BY <1>2, <2>1, <2>3 DEF Needed, LockEnvironment
  <2>5. saw'[w] = protected /\ protected' = protected
    BY <1>t, <1>2 DEF LockEnvironment, TypeOK, committed
  <2> QED  BY <1>2, <1>u, <2>1, <2>3, <2>4, <2>5, EnvironmentTaken DEF LockEnvironment
<1>3. CASE LockForSegmentWrite(w)
  <2>1. pc'[w] \in {"commit", "rerevise"}
    BY <1>t, <1>3 DEF LockForSegmentWrite, Goto, TypeOK
  <2>2. Needed(w)' = "exclusive" /\ pc'[w] \notin Outside
    BY <1>3, <2>1 DEF Needed, LockForSegmentWrite, Outside
  <2> QED  BY <1>3, <1>u, <2>2, EnvironmentTaken DEF LockForSegmentWrite, committed
<1>4. CASE SetRequireApproval(w)
  <2>1. pc'[w] = "commit"
    BY <1>t, <1>4 DEF SetRequireApproval, Goto, TypeOK
  <2>2. Needed(w)' = "exclusive" /\ pc'[w] \notin Outside
    BY <1>4, <2>1 DEF Needed, SetRequireApproval, Outside
  <2> QED  BY <1>4, <1>u, <2>2, EnvironmentTaken DEF SetRequireApproval, committed, Refused
<1>5. CASE \/ DrawDefault(w) \/ InsertRow(w) \/ UpdateOnConflict(w) \/ SelectForUpdate(w)
           \/ MergePatch(w) \/ UpdateRow(w) \/ DeleteRow(w) \/ RecordTombstone(w)
           \/ \E f \in Flags : PruneTombstone(w, f) \/ Rerevise(w, f)
  <2>1. pc[w] \notin Outside /\ pc'[w] \notin Outside
    BY <1>t, <1>5 DEF TypeOK, DrawDefault, InsertRow, UpdateOnConflict, SelectForUpdate,
         MergePatch, UpdateRow, DeleteRow, RecordTombstone, PruneTombstone, Rerevise,
         At, Goto, Outside
  <2>2. env' = env /\ saw' = saw /\ req' = req /\ protected' = protected
    BY <1>5 DEF DrawDefault, InsertRow, UpdateOnConflict, SelectForUpdate,
         MergePatch, UpdateRow, DeleteRow, RecordTombstone, PruneTombstone, Rerevise, committed
  <2>3. Needed(w)' = Needed(w)
    BY <2>1, <2>2 DEF Needed
  <2> QED  BY <1>u, <2>2, <2>3, EnvironmentKept
<1>6. CASE Commit(w)
  <2>1. pc'[w] \in Outside
    BY <1>t, <1>6 DEF Commit, Goto, AfterCommit, Outside, TypeOK
  <2> QED  BY <1>6, <1>u, <2>1, EnvironmentReleased DEF Commit
<1>7. CASE Rollback(w)
  <2>1. pc'[w] \in Outside
    BY <1>t, <1>7 DEF Rollback, Goto, Outside, TypeOK
  <2> QED  BY <1>7, <1>u, <2>1, EnvironmentReleased DEF Rollback
<1>8. CASE LoadSegments(w) \/ \E m \in out[w] : Publish(w, m)
  <2>1. pc[w] \in Outside /\ pc'[w] \in Outside
    BY <1>t, <1>8 DEF LoadSegments, Publish, Goto, Outside, TypeOK
  <2>2. env' = env /\ protected' = protected
    BY <1>8 DEF LoadSegments, Publish, committed, txState
  <2>3. Needed(w)' = "none" /\ Needed(w) = "none" /\ env[w] = "none"
    BY <1>t, <2>1 DEF Needed, EnvironmentOK
  <2> QED  BY <1>u, <2>2, <2>3, EnvironmentKept
<1> QED  BY <1>1, <1>2, <1>3, <1>4, <1>5, <1>6, <1>7, <1>8 DEF HandlerStep, Statement

-----------------------------------------------------------------------------
(***************************************************************************)
(* The work of the handler itself                                          *)
(***************************************************************************)

\* A step to a place where nothing is written yet.
LEMMA WorkBlank ==
    ASSUME NEW w \in Writers, Written(w)' = {},
           pc'[w] \in {"idle", "environment", "select", "delete", "draw", "publish"},
           pc'[w] = "idle" <=> req'[w] = NoRequest,
           pc'[w] = "draw" => req'[w].kind \in Inserts,
           pc'[w] = "select" => req'[w].kind \in Patches,
           pc'[w] = "delete" => req'[w].kind = "delete",
           pc'[w] = "environment" => req'[w].kind # "archive"
    PROVE  WorkOK(w)'
  BY DEF WorkOK

\* Before its first write a transaction has written nothing.
LEMMA NothingWritten ==
    ASSUME IInv, NEW w \in Writers,
           pc[w] \notin {"tombstone", "prune", "rerevise", "commit"}
    PROVE  Written(w) = {} /\ \A f \in Flags : new[w][f] = Same
  BY DEF IInv, WorkOK, Written

LEMMA BeginWork ==
    ASSUME IInv, NEW w \in Writers, NEW q \in Requests, Begin(w, q)
    PROVE  WorkOK(w)'
<1>t. TypeOK /\ WorkOK(w)
  BY DEF IInv
<1>1. Written(w)' = {}
  BY NothingWritten DEF Begin, Written, txState
<1>2. pc'[w] = (IF q.kind = "archive" THEN "update" ELSE "environment") /\ req'[w] = q
  BY <1>t DEF Begin, Goto, TypeOK
<1>3. q # NoRequest
  BY KindsAssumption DEF Requests, NoRequest, AllKinds
<1> QED  BY <1>1, <1>2, <1>3 DEF WorkOK

LEMMA LockWork ==
    ASSUME IInv, NEW w \in Writers, LockEnvironment(w)
    PROVE  WorkOK(w)'
<1>t. TypeOK /\ WorkOK(w) /\ req[w] \in Requests \cup {NoRequest}
  BY DEF IInv, TypeOK
<1>1. Written(w)' = {}
  BY NothingWritten DEF LockEnvironment, At, Written
<1>2. req' = req /\ req[w] # NoRequest /\ pc'[w] = FirstStatement(req[w].kind)
  BY <1>t DEF LockEnvironment, At, Goto, WorkOK, TypeOK
<1>3. req[w].kind \in {"create", "promote", "patch", "approve", "delete"}
  BY <1>t, <1>2, RequestFields DEF LockEnvironment, At, WorkOK, AllKinds
<1> QED  BY <1>1, <1>2, <1>3, WorkBlank DEF FirstStatement, Inserts, Patches

LEMMA SegmentWork ==
    ASSUME IInv, NEW w \in Writers, LockForSegmentWrite(w)
    PROVE  WorkOK(w)'
<1>t. TypeOK /\ WorkOK(w)
  BY DEF IInv
<1>1. \A f \in Flags : new'[w][f] = Same
  BY NothingWritten DEF LockForSegmentWrite, At
<1>2. req' = req /\ row' = row /\ segment' = segment /\ req[w].kind = "segment"
        /\ (segment # NoSegment \/ req[w].rules # NoSegment)
  BY DEF LockForSegmentWrite, committed
<1>3. todo'[w] = {f \in Flags : row[f].data \in Targeted}
  BY <1>t DEF LockForSegmentWrite, TypeOK
<1>4. pc'[w] = IF todo'[w] = {} THEN "commit" ELSE "rerevise"
  BY <1>t, <1>3 DEF LockForSegmentWrite, Goto, TypeOK
<1>5. Rerevised(w)'
  BY <1>1, <1>2, <1>3 DEF Rerevised
<1>6. ReadyToCommit(w)' \/ pc'[w] = "rerevise"
  BY <1>2, <1>4, <1>5 DEF ReadyToCommit
<1>7. req[w] # NoRequest
  BY <1>2 DEF NoRequest
<1> QED  BY <1>1, <1>2, <1>4, <1>5, <1>6, <1>7 DEF WorkOK, Written

LEMMA PolicyWork ==
    ASSUME IInv, NEW w \in Writers, SetRequireApproval(w)
    PROVE  WorkOK(w)'
<1>t. TypeOK /\ WorkOK(w)
  BY DEF IInv
<1>1. Written(w)' = {}
  BY NothingWritten DEF SetRequireApproval, At, Written
<1>2. pc'[w] = "commit" /\ req' = req /\ req[w].kind = "policy"
  BY <1>t DEF SetRequireApproval, Goto, TypeOK
<1>3. ReadyToCommit(w)'
  BY <1>1, <1>2 DEF ReadyToCommit
<1> QED  BY <1>1, <1>2, <1>3 DEF WorkOK, NoRequest

LEMMA DrawWork ==
    ASSUME IInv, NEW w \in Writers, DrawDefault(w)
    PROVE  WorkOK(w)'
<1>t. TypeOK /\ WorkOK(w) /\ seq \in Nat
  BY RevisionAssumption DEF IInv, TypeOK, Revision
<1>1. Written(w)' = {}
  BY NothingWritten DEF DrawDefault, At, Written
<1>2. pc'[w] = "insert" /\ req' = req /\ req[w].kind \in Inserts
  BY <1>t DEF DrawDefault, At, Goto, TypeOK, WorkOK
<1>3. drawn'[w] \in 1 .. seq'
  BY <1>t DEF DrawDefault, TypeOK
<1> QED  BY <1>1, <1>2, <1>3 DEF WorkOK, NoRequest, Inserts

\* A row written by w, and no other, by a statement that has its lock.
LEMMA WriteOne ==
    ASSUME IInv, NEW w \in Writers, NEW f \in Flags, NEW r \in Row,
           \A g \in Flags : new[w][g] = Same,
           new' = [new EXCEPT ![w][f] = r], lock' = [lock EXCEPT ![f] = w]
    PROVE  /\ Written(w)' = {f} /\ new'[w][f] = r /\ lock'[f] = w
<1>1. TypeOK
  BY DEF IInv
<1>2. new'[w][f] = r /\ \A g \in Flags \ {f} : new'[w][g] = Same
  BY <1>1 DEF TypeOK
<1>3. r # Same
  BY Markers
<1> QED  BY <1>1, <1>2, <1>3 DEF TypeOK, Written

\* The same, with the revision the trigger draws.
LEMMA WriteRowOne ==
    ASSUME IInv, NEW w \in Writers, NEW f \in Flags, NEW d \in Data,
           \A g \in Flags : new[w][g] = Same, WriteRow(w, f, d)
    PROVE  /\ Written(w)' = {f} /\ new'[w][f] = [data |-> d, rev |-> seq + 1]
           /\ lock'[f] = w /\ seq' = seq + 1 /\ seq \in Nat /\ row[f].rev <= seq /\ row[f].rev \in Nat
<1> DEFINE r == [data |-> d, rev |-> seq + 1]
<1>1. seq \in Nat /\ row[f].rev \in Nat /\ row[f].rev <= seq
  BY RevisionAssumption DEF IInv, TypeOK, Revision, Row, RowsOK
<1>2. r \in Row
  BY <1>1, RevisionAssumption DEF WriteRow, Row, Revision
<1>3. new' = [new EXCEPT ![w][f] = r] /\ lock' = [lock EXCEPT ![f] = w] /\ seq' = seq + 1
  BY DEF WriteRow
<1>4. Written(w)' = {f} /\ new'[w][f] = r /\ lock'[f] = w
  <2> HIDE DEF r
  <2> QED  BY <1>2, <1>3, WriteOne
<1> QED  BY <1>1, <1>3, <1>4

LEMMA InsertWork ==
    ASSUME IInv, NEW w \in Writers, InsertRow(w)
    PROVE  WorkOK(w)'
<1> DEFINE f == req[w].key
           r == [data |-> req[w].data, rev |-> drawn[w]]
<1>t. TypeOK /\ WorkOK(w) /\ req[w] \in Requests \cup {NoRequest} /\ RowsOK
  BY DEF IInv, TypeOK
<1>1. pc[w] = "insert" /\ req[w].kind \in Inserts /\ drawn[w] \in 1 .. seq
  BY <1>t DEF InsertRow, At, WorkOK
<1>2. f \in Flags /\ req[w].data \in Data
  BY <1>1, <1>t, RequestFields
<1>3. r \in Row
  BY <1>2, <1>t DEF TypeOK, Row
<1>4. Written(w)' = {f} /\ new'[w][f] = r /\ lock'[f] = w
  <2> HIDE DEF r
  <2>1. new' = [new EXCEPT ![w][f] = r] /\ lock' = [lock EXCEPT ![f] = w]
    BY DEF InsertRow, r
  <2> QED  BY <1>1, <1>2, <1>3, <2>1, NothingWritten, WriteOne
<1>5. pc'[w] = "commit" /\ req' = req /\ row' = row /\ seq' = seq /\ ~Exists(f)
  BY <1>t DEF InsertRow, Goto, TypeOK, committed
<1>6. row[f].rev = 0 /\ drawn[w] > row[f].rev
  BY <1>1, <1>2, <1>5, <1>t, RevisionAssumption DEF RowsOK, Revision, TypeOK
<1>7. WroteFlag(w, req[w].data)'
  BY <1>4, <1>5, <1>6 DEF WroteFlag
<1>8. ReadyToCommit(w)'
  BY <1>1, <1>5, <1>7 DEF ReadyToCommit, Exists
<1>9. \A g \in Written(w)' : lock'[g] = w /\ new'[w][g].rev <= seq'
  BY <1>1, <1>4, <1>5
<1> QED  BY <1>1, <1>5, <1>8, <1>9 DEF WorkOK, NoRequest, Inserts

LEMMA ConflictWork ==
    ASSUME IInv, NEW w \in Writers, UpdateOnConflict(w)
    PROVE  WorkOK(w)'
<1> DEFINE f == req[w].key
<1>t. TypeOK /\ WorkOK(w) /\ req[w] \in Requests \cup {NoRequest} /\ EnvironmentOK(w)
  BY DEF IInv, TypeOK
<1>1. pc[w] = "insert" /\ req[w].kind \in Inserts
  BY <1>t DEF UpdateOnConflict, At, WorkOK
<1>2. f \in Flags /\ req[w].data \in Data
  BY <1>1, <1>t, RequestFields
<1>4. /\ Written(w)' = {f} /\ new'[w][f] = [data |-> req[w].data, rev |-> seq + 1]
      /\ lock'[f] = w /\ seq' = seq + 1 /\ seq \in Nat /\ row[f].rev <= seq /\ row[f].rev \in Nat
  BY <1>1, <1>2, NothingWritten, WriteRowOne DEF UpdateOnConflict
<1>5. pc'[w] = "commit" /\ req' = req /\ row' = row /\ protected' = protected
  BY <1>t DEF UpdateOnConflict, Goto, TypeOK, committed
<1>6. req[w].kind = "create" => ~protected
  BY <1>1, <1>t DEF EnvironmentOK, Needed, Outside, UpdateOnConflict, Inserts
<1>7. WroteFlag(w, req[w].data)'
  BY <1>4, <1>5 DEF WroteFlag
<1>8. ReadyToCommit(w)'
  BY <1>1, <1>5, <1>6, <1>7 DEF ReadyToCommit
<1>9. \A g \in Written(w)' : lock'[g] = w /\ new'[w][g].rev <= seq'
  BY <1>4
<1> QED  BY <1>1, <1>5, <1>8, <1>9 DEF WorkOK, NoRequest, Inserts

LEMMA SelectWork ==
    ASSUME IInv, NEW w \in Writers, SelectForUpdate(w)
    PROVE  WorkOK(w)'
<1>t. TypeOK /\ WorkOK(w)
  BY DEF IInv
<1>1. Written(w)' = {}
  BY NothingWritten DEF SelectForUpdate, At, Written
<1>2. pc[w] = "select" /\ req[w].kind \in Patches /\ req[w].key \in Flags
  BY <1>t, KeyOf DEF SelectForUpdate, At, WorkOK
<1>3. pc'[w] = "merge" /\ req' = req /\ row' = row
  BY <1>t DEF SelectForUpdate, Goto, TypeOK, committed
<1>4. HasFlag(w)'
  BY <1>t, <1>2, <1>3 DEF HasFlag, Exists, SelectForUpdate, TypeOK
<1> QED  BY <1>1, <1>2, <1>3, <1>4 DEF WorkOK, NoRequest, Patches

LEMMA MergeWork ==
    ASSUME IInv, NEW w \in Writers, MergePatch(w)
    PROVE  WorkOK(w)'
<1>t. TypeOK /\ WorkOK(w)
  BY DEF IInv
<1>1. Written(w)' = {}
  BY NothingWritten DEF MergePatch, At, Written
<1>2. pc[w] = "merge" /\ req[w].kind \in Patches /\ HasFlag(w)
  BY <1>t DEF MergePatch, At, WorkOK
<1>3. pc'[w] = "update" /\ req' = req /\ row' = row /\ lock' = lock
  BY <1>t DEF MergePatch, Goto, TypeOK, committed
<1>4. merged'[w] = Merge(row[req[w].key].data, req[w].patch)
  BY <1>t DEF MergePatch, TypeOK
<1>5. HasFlag(w)'
  BY <1>2, <1>3 DEF HasFlag, Exists
<1> QED  BY <1>1, <1>2, <1>3, <1>4, <1>5 DEF WorkOK, NoRequest, Patches

LEMMA UpdateWork ==
    ASSUME IInv, NEW w \in Writers, UpdateRow(w)
    PROVE  WorkOK(w)'
<1> DEFINE f == req[w].key
           d == IF req[w].kind = "archive" THEN row[f].data ELSE merged[w]
<1>t. TypeOK /\ WorkOK(w) /\ req[w] \in Requests \cup {NoRequest}
  BY DEF IInv, TypeOK
<1>1. pc[w] = "update" /\ f \in Flags /\ Exists(f)
  BY KeyOf DEF UpdateRow, At
<1>2. row[f].data \in Data
  BY <1>1, <1>t DEF TypeOK, Row, Exists
<1>3. req[w].kind = "archive" \/
        (req[w].kind \in Patches /\ req[w].patch \in Patch /\ merged[w] = Merge(row[f].data, req[w].patch))
  BY <1>1, <1>t, RequestFields DEF WorkOK
<1>4. d \in Data
  BY <1>2, <1>3, MergeType
<1>5. /\ Written(w)' = {f} /\ new'[w][f] = [data |-> d, rev |-> seq + 1]
      /\ lock'[f] = w /\ seq' = seq + 1 /\ seq \in Nat /\ row[f].rev <= seq /\ row[f].rev \in Nat
  <2>1. WriteRow(w, f, d)
    BY DEF UpdateRow
  <2> HIDE DEF d
  <2> QED  BY <1>1, <1>4, <2>1, NothingWritten, WriteRowOne
<1>6. pc'[w] = "commit" /\ req' = req /\ row' = row /\ merged' = merged
  BY <1>t DEF UpdateRow, Goto, TypeOK, committed
<1>7. WroteFlag(w, d)'
  BY <1>5, <1>6 DEF WroteFlag
<1>8. ReadyToCommit(w)'
  <2>1. CASE req[w].kind = "archive"
    BY <1>1, <1>6, <1>7, <2>1 DEF ReadyToCommit, Exists
  <2>2. CASE req[w].kind \in Patches /\ merged[w] = Merge(row[f].data, req[w].patch)
    BY <1>1, <1>6, <1>7, <2>2 DEF ReadyToCommit, Exists, Patches
  <2> QED  BY <1>3, <2>1, <2>2
<1>9. \A g \in Written(w)' : lock'[g] = w /\ new'[w][g].rev <= seq'
  BY <1>5
<1> QED  BY <1>3, <1>6, <1>8, <1>9 DEF WorkOK, NoRequest, Patches

LEMMA DeleteWork ==
    ASSUME IInv, NEW w \in Writers, DeleteRow(w)
    PROVE  WorkOK(w)'
<1> DEFINE f == req[w].key
<1>t. TypeOK /\ WorkOK(w) /\ seq \in Nat
  BY RevisionAssumption DEF IInv, TypeOK, Revision
<1>1. pc[w] = "delete" /\ f \in Flags /\ Exists(f) /\ req[w].kind = "delete"
  BY <1>t, KeyOf DEF DeleteRow, At, WorkOK
<1>2. Written(w)' = {f} /\ new'[w][f] = NoRow /\ lock'[f] = w
  BY <1>1, NothingWritten, WriteOne, Markers DEF DeleteRow
<1>3. pc'[w] = "tombstone" /\ req' = req /\ row' = row /\ seq' = seq
  BY <1>t DEF DeleteRow, Goto, TypeOK, committed
<1>4. HasFlag(w)'
  BY <1>1, <1>2, <1>3 DEF HasFlag, Exists
<1>5. \A g \in Written(w)' : lock'[g] = w /\ new'[w][g].rev <= seq'
  BY <1>2, <1>3, <1>t DEF NoRow
<1> QED  BY <1>1, <1>2, <1>3, <1>4, <1>5 DEF WorkOK, NoRequest

LEMMA TombstoneWork ==
    ASSUME IInv, NEW w \in Writers,
           RecordTombstone(w) \/ \E f \in Flags : PruneTombstone(w, f)
    PROVE  WorkOK(w)'
<1>t. TypeOK /\ WorkOK(w)
  BY DEF IInv
<1>1. pc[w] \in {"tombstone", "prune"} /\ pc'[w] \in {"prune", "commit"}
  BY <1>t DEF RecordTombstone, PruneTombstone, At, Goto, TypeOK
<1>2. UNCHANGED <<row, req, lock, new, seq>>
  BY DEF RecordTombstone, PruneTombstone, committed
<1>3. /\ req[w].kind = "delete" /\ HasFlag(w)
      /\ Written(w) = {req[w].key} /\ new[w][req[w].key] = NoRow
  BY <1>1, <1>t DEF WorkOK
<1>4. /\ HasFlag(w)'
      /\ Written(w)' = Written(w)
  BY <1>2, <1>3 DEF HasFlag, Exists, Written
<1>5. ReadyToCommit(w)'
  BY <1>2, <1>3, <1>4 DEF ReadyToCommit
<1> QED  BY <1>1, <1>2, <1>3, <1>4, <1>5, <1>t DEF WorkOK, NoRequest

LEMMA RereviseWork ==
    ASSUME IInv, NEW w \in Writers, NEW f \in Flags, Rerevise(w, f)
    PROVE  WorkOK(w)'
<1>t. TypeOK /\ WorkOK(w) /\ seq \in Nat
  BY RevisionAssumption DEF IInv, TypeOK, Revision
<1>1. /\ pc[w] = "rerevise" /\ req[w].kind = "segment" /\ Rerevised(w) /\ f \in todo[w]
      /\ segment # NoSegment \/ req[w].rules # NoSegment
  BY <1>t DEF Rerevise, WorkOK
<1>2. UNCHANGED <<row, req, segment>> /\ todo'[w] = todo[w] \ {f}
  BY <1>t DEF Rerevise, committed, TypeOK
<1>3. pc'[w] = IF todo'[w] = {} THEN "commit" ELSE "rerevise"
  BY <1>t, <1>1, <1>2 DEF Rerevise, Goto, TypeOK
<1>4. new[w][f] = Same
  BY <1>1 DEF Rerevised
<1>5. CASE row[f].data \in Targeted
  <2>1. row[f].data \in Data
    BY <1>5, TargetedAssumption
  <2>2. seq' = seq + 1 /\ new' = [new EXCEPT ![w][f] = [data |-> row[f].data, rev |-> seq + 1]]
          /\ lock' = [lock EXCEPT ![f] = w] /\ seq < MaxRevision
    BY <1>5 DEF Rerevise, WriteRow
  <2>3. [data |-> row[f].data, rev |-> seq + 1] # Same
    BY <1>t, <2>1, <2>2, RevisionAssumption, Markers DEF Row, Revision
  <2>4. /\ new'[w][f] = [data |-> row[f].data, rev |-> seq + 1]
        /\ \A g \in Flags \ {f} : new'[w][g] = new[w][g]
        /\ lock'[f] = w /\ \A g \in Flags \ {f} : lock'[g] = lock[g]
    BY <1>t, <2>2 DEF TypeOK
  <2>5. row[f].rev \in Nat /\ row[f].rev <= seq
    BY RevisionAssumption DEF IInv, TypeOK, Row, Revision, RowsOK
  <2>6. Rerevised(w)'
    BY <1>1, <1>2, <1>5, <1>t, <2>3, <2>4, <2>5 DEF Rerevised
  <2>7. \A g \in Written(w)' : lock'[g] = w /\ new'[w][g].rev <= seq'
    <3> TAKE g \in Written(w)'
    <3>1. CASE g = f
      BY <3>1, <1>t, <2>2, <2>4
    <3>2. CASE g # f
      <4>1. g \in Flags /\ new[w][g] # Same
        BY <3>2, <2>4 DEF Written
      <4>2. lock[g] = w /\ new[w][g].rev <= seq /\ new[w][g].rev \in Nat
        BY <4>1, <1>t, RevisionAssumption DEF WorkOK, Written, TypeOK, Row, Revision
      <4> QED  BY <3>2, <4>1, <4>2, <1>t, <2>2, <2>4
    <3> QED  BY <3>1, <3>2
  <2>8. ReadyToCommit(w)' \/ pc'[w] = "rerevise"
    BY <1>1, <1>2, <1>3, <2>6 DEF ReadyToCommit
  <2> QED  BY <1>1, <1>2, <1>3, <2>6, <2>7, <2>8 DEF WorkOK, NoRequest
<1>6. CASE row[f].data \notin Targeted
  <2>1. UNCHANGED <<seq, lock, new>>
    BY <1>6 DEF Rerevise
  <2>2. Rerevised(w)' /\ Written(w)' = Written(w)
    BY <1>1, <1>2, <1>6, <2>1 DEF Rerevised, Written
  <2>3. ReadyToCommit(w)' \/ pc'[w] = "rerevise"
    BY <1>1, <1>2, <1>3, <2>2 DEF ReadyToCommit
  <2> QED  BY <1>1, <1>2, <1>3, <1>t, <2>1, <2>2, <2>3 DEF WorkOK, NoRequest
<1> QED  BY <1>5, <1>6

\* A released transaction has written nothing.
LEMMA ReleasedBlank ==
    ASSUME IInv, NEW w \in Writers, Released(w)
    PROVE  Written(w)' = {}
  BY DEF IInv, TypeOK, Released, Written

LEMMA RollbackWork ==
    ASSUME IInv, NEW w \in Writers, Rollback(w)
    PROVE  WorkOK(w)'
<1>1. pc'[w] = "idle" /\ req'[w] = NoRequest
  BY DEF IInv, TypeOK, Rollback, Goto
<1>2. Written(w)' = {}
  BY ReleasedBlank DEF Rollback
<1> QED  BY <1>1, <1>2, WorkBlank

\* What a committing transaction has written, row by row.
LEMMA WrittenRow ==
    ASSUME IInv, NEW w \in Writers, pc[w] = "commit", NEW f \in Flags, new[w][f] # Same
    PROVE  \/ /\ req[w].kind = "delete" /\ new[w][f] = NoRow
              /\ row[f].rev \in Revision \ {0}
           \/ new[w][f].data \in Data /\ new[w][f].rev \in Revision \ {0}
<1>t. TypeOK /\ WorkOK(w) /\ ReadyToCommit(w) /\ RowsOK
  BY DEF IInv, WorkOK
<1>r. req[w] \in Requests \cup {NoRequest}
  BY <1>t DEF TypeOK
<1>1. new[w][f] \in Row /\ row[f] \in Row
  BY <1>t DEF TypeOK
<1>2. new[w][f].rev \in Nat /\ row[f].rev \in Nat
  BY <1>1, RevisionAssumption DEF Row, Revision
<1>3. ASSUME NEW d \in Data, WroteFlag(w, d)
      PROVE  new[w][f].data \in Data /\ new[w][f].rev \in Revision \ {0}
  BY <1>1, <1>2, <1>3 DEF WroteFlag, Written, Row
<1>4. CASE req[w].kind \in Inserts
  BY <1>3, <1>4, <1>t, <1>r, RequestFields DEF ReadyToCommit, Inserts, Patches
<1>5. CASE req[w].kind \in Patches
  <2>1. /\ req[w].key \in Flags /\ req[w].patch \in Patch /\ Exists(req[w].key)
        /\ WroteFlag(w, Merge(row[req[w].key].data, req[w].patch))
    BY <1>5, <1>t, <1>r, RequestFields DEF ReadyToCommit, Inserts, Patches
  <2>2. row[req[w].key].data \in Data
    BY <2>1, <1>t DEF TypeOK, Row, Exists
  <2> QED  BY <1>3, <2>1, <2>2, MergeType
<1>6. CASE req[w].kind = "archive"
  <2>1. /\ req[w].key \in Flags /\ Exists(req[w].key)
        /\ WroteFlag(w, row[req[w].key].data)
    BY <1>6, <1>t, <1>r, RequestFields DEF ReadyToCommit, Inserts, Patches
  <2>2. row[req[w].key].data \in Data
    BY <2>1, <1>t DEF TypeOK, Row, Exists
  <2> QED  BY <1>3, <2>1, <2>2
<1>7. CASE req[w].kind = "delete"
  <2>1. f = req[w].key /\ new[w][f] = NoRow /\ Exists(f)
    BY <1>7, <1>t DEF ReadyToCommit, Inserts, Patches, Written, HasFlag
  <2> QED  BY <2>1, <1>1, <1>7, <1>t DEF RowsOK, Row
<1>8. CASE req[w].kind = "segment"
  <2>1. Rerevised(w)
    BY <1>8, <1>t DEF ReadyToCommit, Inserts, Patches
  <2>2. row[f].data \in Targeted /\ new[w][f].data = row[f].data /\ new[w][f].rev > row[f].rev
    BY <2>1 DEF Rerevised
  <2> QED  BY <2>2, <1>1, <1>2, TargetedAssumption DEF Row
<1>9. CASE req[w].kind = "policy"
  BY <1>9, <1>t DEF ReadyToCommit, Inserts, Patches, Written
<1> QED  BY <1>4, <1>5, <1>6, <1>7, <1>8, <1>9, <1>t DEF ReadyToCommit

\* What a commit publishes: only a deletion is without a flag.
LEMMA ChangesOf ==
    ASSUME IInv, NEW w \in Writers, pc[w] = "commit"
    PROVE  /\ Changes(w) \subseteq Change
           /\ req[w].kind # "delete" => \A m \in Changes(w) : m.val # Absent
<1>t. TypeOK /\ WorkOK(w) /\ ReadyToCommit(w) /\ RowsOK
  BY DEF IInv, WorkOK
<1>r. req[w] \in Requests \cup {NoRequest}
  BY <1>t DEF TypeOK
<1> DEFINE s == IF req[w].kind = "segment" THEN req[w].rules ELSE NoSegment
<1>s. s \in Rules \cup {NoSegment}
  BY <1>r, RequestFields
<1>1. ASSUME NEW f \in Flags, new[w][f] # Same
      PROVE  \/ /\ req[w].kind = "delete" /\ new[w][f] = NoRow
                /\ row[f].rev \in Revision \ {0}
             \/ new[w][f].data \in Data /\ new[w][f].rev \in Revision \ {0}
  BY <1>1, WrittenRow
<1>2. ASSUME NEW m \in Changes(w)
      PROVE  m \in Change /\ (req[w].kind # "delete" => m.val # Absent)
  <2>1. PICK f \in Flags :
          /\ new[w][f] # Same
          /\ m = ChangeOf(f, IF new[w][f] = NoRow
                   THEN [val |-> Absent, rev |-> row[f].rev]
                   ELSE [val |-> Expand(new[w][f].data, s), rev |-> new[w][f].rev])
    BY <1>2 DEF Changes
  <2> HIDE DEF s
  <2>2. CASE req[w].kind = "delete" /\ new[w][f] = NoRow /\ row[f].rev \in Revision \ {0}
    BY <2>1, <2>2 DEF Change, ChangeOf
  <2>3. CASE new[w][f].data \in Data /\ new[w][f].rev \in Revision \ {0}
    <3>1. new[w][f] # NoRow
      BY <2>3 DEF NoRow
    <3>2. m = ChangeOf(f, [val |-> Expand(new[w][f].data, s), rev |-> new[w][f].rev])
      BY <2>1, <3>1
    <3>3. Expand(new[w][f].data, s) \in [data : Data, seg : Rules \cup {NoSegment}]
      BY <2>3, <1>s DEF Expand
    <3>4. Expand(new[w][f].data, s) # Absent
      BY <3>3, MarkersAssumption
    <3> QED  BY <2>3, <3>2, <3>3, <3>4 DEF Change, ChangeOf
  <2> QED  BY <1>1, <2>1, <2>2, <2>3
<1> QED  BY <1>2

LEMMA CommitWork ==
    ASSUME IInv, NEW w \in Writers, Commit(w)
    PROVE  WorkOK(w)'
<1>t. TypeOK /\ WorkOK(w) /\ pc[w] = "commit"
  BY DEF IInv, Commit
<1>1. Written(w)' = {}
  BY ReleasedBlank DEF Commit
<1>2. pc'[w] = AfterCommit(w) /\ pc'[w] \in {"expand", "publish", "idle"}
  BY <1>t DEF Commit, Goto, TypeOK, AfterCommit
<1>3. req'[w] = IF AfterCommit(w) = "idle" THEN NoRequest ELSE req[w]
  BY <1>t DEF Commit, TypeOK
<1>4. req[w] # NoRequest
  BY <1>t DEF WorkOK
<1>5. out'[w] = IF AfterCommit(w) = "idle" THEN {} ELSE Changes(w)
  BY <1>t DEF Commit, TypeOK
<1>6. pc'[w] = "expand" => req[w].kind # "delete"
  BY <1>2 DEF AfterCommit, Inserts, Patches
<1>7. pc'[w] = "expand" => \A m \in out'[w] : m.val # Absent
  BY <1>t, <1>2, <1>5, <1>6, ChangesOf
<1>8. pc'[w] = "idle" <=> req'[w] = NoRequest
  BY <1>2, <1>3, <1>4
<1> QED  BY <1>1, <1>2, <1>7, <1>8 DEF WorkOK

LEMMA AfterWork ==
    ASSUME IInv, NEW w \in Writers, LoadSegments(w) \/ \E m \in out[w] : Publish(w, m)
    PROVE  WorkOK(w)'
<1>t. TypeOK /\ WorkOK(w)
  BY DEF IInv
<1>1. pc[w] \in {"expand", "publish"} /\ pc'[w] \in {"publish", "idle"}
  BY <1>t DEF LoadSegments, Publish, Goto, TypeOK
<1>2. Written(w)' = {}
  BY <1>1, NothingWritten DEF LoadSegments, Publish, Written, txState
<1>3. req[w] # NoRequest
  BY <1>t, <1>1 DEF WorkOK
<1>4. pc'[w] = "idle" <=> req'[w] = NoRequest
  BY <1>t, <1>3 DEF LoadSegments, Publish, Goto, TypeOK
<1> QED  BY <1>1, <1>2, <1>4, WorkBlank

LEMMA WorkStep ==
    ASSUME IInv, NEW w \in Writers, HandlerStep(w)
    PROVE  WorkOK(w)'
  BY BeginWork, LockWork, SegmentWork, PolicyWork, DrawWork, InsertWork, ConflictWork,
     SelectWork, MergeWork, UpdateWork, DeleteWork, TombstoneWork, RereviseWork,
     CommitWork, RollbackWork, AfterWork DEF HandlerStep, Statement

-----------------------------------------------------------------------------
(***************************************************************************)
(* Rows and types                                                          *)
(***************************************************************************)

\* No statement but the commit changes a row.
LEMMA RowsStep ==
    ASSUME IInv, NEW w \in Writers, HandlerStep(w)
    PROVE  RowsOK'
<1>t. TypeOK /\ RowsOK /\ seq \in Nat /\ \A f \in Flags : row[f].rev \in Nat
  BY RevisionAssumption DEF IInv, TypeOK, Revision, Row
<1>1. CASE Commit(w)
  <2> SUFFICES ASSUME NEW f \in Flags
               PROVE  ((row[f].rev = 0) = ~Exists(f) /\ row[f].rev <= seq)'
    BY DEF RowsOK
  <2>1. pc[w] = "commit" /\ WorkOK(w) /\ ReadyToCommit(w) /\ req[w] \in Requests \cup {NoRequest}
    BY <1>1 DEF Commit, IInv, WorkOK, TypeOK
  <2>2. seq' = seq /\ row'[f] = IF new[w][f] = Same THEN row[f] ELSE new[w][f]
    BY <1>1 DEF Commit
  <2>3. CASE new[w][f] = Same
    BY <1>t, <2>2, <2>3 DEF RowsOK, Exists
  <2>4. CASE new[w][f] # Same
    <3>1. new[w][f] \in Row /\ new[w][f].rev <= seq
      BY <2>1, <2>4, <1>t DEF TypeOK, WorkOK, Written
    <3>2. (new[w][f].rev = 0) = (new[w][f].data = Absent)
      BY <2>1, <2>4, WrittenRow, Markers DEF NoRow
    <3> QED  BY <2>2, <2>4, <3>1, <3>2 DEF Exists
  <2> QED  BY <2>3, <2>4
<1>2. CASE ~Commit(w)
  <2>1. row' = row
    BY <1>2 DEF HandlerStep, Statement, LockEnvironment, LockForSegmentWrite, SetRequireApproval,
         DrawDefault, InsertRow, UpdateOnConflict, SelectForUpdate, MergePatch, UpdateRow, DeleteRow,
         RecordTombstone, PruneTombstone, Rerevise, committed, txState,
         Begin, Rollback, LoadSegments, Publish
  <2>2. seq' \in Nat /\ seq' >= seq
    BY <1>2, <1>t DEF HandlerStep, Statement, LockEnvironment, LockForSegmentWrite, SetRequireApproval,
         DrawDefault, InsertRow, UpdateOnConflict, SelectForUpdate, MergePatch, UpdateRow, DeleteRow,
         RecordTombstone, PruneTombstone, Rerevise, WriteRow, committed, txState,
         Begin, Rollback, LoadSegments, Publish
  <2> QED  BY <1>t, <2>1, <2>2 DEF RowsOK, Exists
<1> QED  BY <1>1, <1>2

\* A released transaction is of the right type.
LEMMA ReleasedTypes ==
    ASSUME TypeOK, NEW w \in Writers, Released(w)
    PROVE  /\ env' \in [Writers -> {"none", "share", "exclusive"}]
           /\ lock' \in [Flags -> Writers \cup {Nobody}]
           /\ tlock' \in [Flags -> Writers \cup {Nobody}]
           /\ new' \in [Writers -> [Flags -> Row \cup {Same}]]
           /\ saw' \in [Writers -> BOOLEAN]
           /\ drawn' \in [Writers -> Revision]
           /\ merged' \in [Writers -> Data \cup {Absent}]
           /\ todo' \in [Writers -> SUBSET Flags]
<1>1. 0 \in Revision
  BY RevisionAssumption DEF Revision
<1>2. [f \in Flags |-> Same] \in [Flags -> Row \cup {Same}]
  OBVIOUS
<1>3. new' \in [Writers -> [Flags -> Row \cup {Same}]]
  BY <1>2 DEF TypeOK, Released
<1> QED  BY <1>1, <1>3 DEF TypeOK, Released

\* So is a row written with the revision the trigger draws.
LEMMA WriteRowTypes ==
    ASSUME TypeOK, NEW w \in Writers, NEW f \in Flags, NEW d \in Data, WriteRow(w, f, d)
    PROVE  /\ seq' \in Revision
           /\ lock' \in [Flags -> Writers \cup {Nobody}]
           /\ new' \in [Writers -> [Flags -> Row \cup {Same}]]
<1> DEFINE r == [data |-> d, rev |-> seq + 1]
<1>1. seq' \in Revision /\ r \in Row
  BY RevisionAssumption DEF TypeOK, WriteRow, Revision, Row
<1>2. new' = [new EXCEPT ![w][f] = r] /\ lock' = [lock EXCEPT ![f] = w]
  BY DEF WriteRow
<1> HIDE DEF r
<1> QED  BY <1>1, <1>2 DEF TypeOK

LEMMA StatementTypes ==
    ASSUME IInv, NEW w \in Writers, Statement(w)
    PROVE  TypeOK'
<1>t. TypeOK /\ WorkOK(w)
  BY DEF IInv
<1>r. req[w] \in Requests \cup {NoRequest}
  BY <1>t DEF TypeOK
<1>p. pc[w] \in Steps
  BY <1>t DEF TypeOK
<1>1. CASE LockEnvironment(w)
  <2>1. req[w].kind \in {"create", "promote", "patch", "approve", "delete"}
    BY <1>1, <1>r, <1>t, RequestFields DEF LockEnvironment, At, WorkOK, AllKinds
  <2>2. FirstStatement(req[w].kind) \in Steps
    BY <2>1 DEF FirstStatement, Inserts, Patches, Steps
  <2> QED  BY <1>1, <1>t, <2>2 DEF TypeOK, LockEnvironment, Goto, committed
<1>2. CASE LockForSegmentWrite(w)
  BY <1>2, <1>t DEF TypeOK, LockForSegmentWrite, Goto, committed, Steps
<1>3. CASE SetRequireApproval(w)
  BY <1>3, <1>t DEF TypeOK, SetRequireApproval, Goto, committed, Steps
<1>4. CASE DrawDefault(w)
  <2>1. seq + 1 \in Revision
    BY <1>4, <1>t, RevisionAssumption DEF TypeOK, Revision, DrawDefault
  <2> QED  BY <1>4, <1>t, <2>1 DEF TypeOK, DrawDefault, Goto, committed, Steps
<1>5. CASE InsertRow(w)
  <2> DEFINE r == [data |-> req[w].data, rev |-> drawn[w]]
  <2>1. req[w].key \in Flags /\ req[w].data \in Data
    BY <1>5, <1>r, <1>t, RequestFields DEF InsertRow, At, WorkOK
  <2>2. r \in Row
    BY <2>1, <1>t DEF TypeOK, Row
  <2>3. new' = [new EXCEPT ![w][req[w].key] = r]
    BY <1>5 DEF InsertRow
  <2> HIDE DEF r
  <2>4. new' \in [Writers -> [Flags -> Row \cup {Same}]]
    BY <1>t, <2>1, <2>2, <2>3 DEF TypeOK
  <2> QED  BY <1>5, <1>t, <2>1, <2>4 DEF TypeOK, InsertRow, Goto, committed, Steps
<1>6. CASE UpdateOnConflict(w)
  <2>1. req[w].key \in Flags /\ req[w].data \in Data
    BY <1>6, <1>r, <1>t, RequestFields DEF UpdateOnConflict, At, WorkOK
  <2>2. /\ seq' \in Revision
        /\ lock' \in [Flags -> Writers \cup {Nobody}]
        /\ new' \in [Writers -> [Flags -> Row \cup {Same}]]
    BY <1>6, <1>t, <2>1, WriteRowTypes DEF UpdateOnConflict
  <2> QED  BY <1>6, <1>t, <2>2 DEF TypeOK, UpdateOnConflict, Goto, committed, Steps
<1>7. CASE SelectForUpdate(w)
  <2>1. req[w].key \in Flags
    BY <1>7, KeyOf DEF SelectForUpdate, At
  <2> QED  BY <1>7, <1>t, <2>1 DEF TypeOK, SelectForUpdate, Goto, committed, Steps
<1>8. CASE MergePatch(w)
  <2>1. req[w].kind \in Patches /\ HasFlag(w)
    BY <1>8, <1>t DEF WorkOK, MergePatch, At
  <2>2. req[w].key \in Flags /\ req[w].patch \in Patch
    BY <2>1, <1>r, RequestFields
  <2>3. row[req[w].key].data \in Data
    BY <2>1, <2>2, <1>t DEF TypeOK, Row, HasFlag, Exists
  <2>4. Merge(row[req[w].key].data, req[w].patch) \in Data
    BY <2>2, <2>3, MergeType
  <2> QED  BY <1>8, <1>t, <2>4 DEF TypeOK, MergePatch, Goto, committed, Steps
<1>9. CASE UpdateRow(w)
  <2> DEFINE d == IF req[w].kind = "archive" THEN row[req[w].key].data ELSE merged[w]
  <2>1. pc[w] = "update" /\ req[w].key \in Flags /\ Exists(req[w].key)
    BY <1>9, KeyOf DEF UpdateRow, At
  <2>2. row[req[w].key].data \in Data
    BY <2>1, <1>t DEF TypeOK, Row, Exists
  <2>3. req[w].kind = "archive" \/
        (/\ req[w].kind \in Patches /\ req[w].patch \in Patch
         /\ merged[w] = Merge(row[req[w].key].data, req[w].patch))
    BY <2>1, <1>t, <1>r, RequestFields DEF WorkOK
  <2>4. d \in Data
    BY <2>2, <2>3, MergeType
  <2>5. WriteRow(w, req[w].key, d)
    BY <1>9 DEF UpdateRow
  <2> HIDE DEF d
  <2>6. /\ seq' \in Revision
        /\ lock' \in [Flags -> Writers \cup {Nobody}]
        /\ new' \in [Writers -> [Flags -> Row \cup {Same}]]
    BY <1>t, <2>1, <2>4, <2>5, WriteRowTypes
  <2> QED  BY <1>9, <1>t, <2>6 DEF TypeOK, UpdateRow, Goto, committed, Steps
<1>10. CASE DeleteRow(w)
  <2>1. req[w].key \in Flags
    BY <1>10, KeyOf DEF DeleteRow, At
  <2>2. new' \in [Writers -> [Flags -> Row \cup {Same}]]
    BY <1>10, <1>t, <2>1, Markers DEF TypeOK, DeleteRow
  <2> QED  BY <1>10, <1>t, <2>1, <2>2 DEF TypeOK, DeleteRow, Goto, committed, Steps
<1>11. CASE RecordTombstone(w)
  <2>1. req[w].key \in Flags
    BY <1>11, KeyOf DEF RecordTombstone, At
  <2> QED  BY <1>11, <1>t, <2>1 DEF TypeOK, RecordTombstone, Goto, committed, Steps
<1>12. ASSUME NEW f \in Flags, PruneTombstone(w, f)
       PROVE  TypeOK'
  BY <1>12, <1>t DEF TypeOK, PruneTombstone, Goto, committed, Steps
<1>13. ASSUME NEW f \in Flags, Rerevise(w, f)
       PROVE  TypeOK'
  <2>1. /\ seq' \in Revision
        /\ lock' \in [Flags -> Writers \cup {Nobody}]
        /\ new' \in [Writers -> [Flags -> Row \cup {Same}]]
    <3>1. CASE row[f].data \in Targeted
      <4>1. row[f].data \in Data /\ WriteRow(w, f, row[f].data)
        BY <1>13, <3>1, TargetedAssumption DEF Rerevise
      <4> QED  BY <1>t, <4>1, WriteRowTypes
    <3>2. CASE row[f].data \notin Targeted
      BY <1>13, <1>t, <3>2 DEF TypeOK, Rerevise
    <3> QED  BY <3>1, <3>2
  <2>2. todo' \in [Writers -> SUBSET Flags] /\ pc' \in [Writers -> Steps]
    BY <1>13, <1>t DEF TypeOK, Rerevise, Goto, Steps
  <2> QED  BY <1>13, <1>t, <2>1, <2>2 DEF TypeOK, Rerevise, committed
<1> QED
  BY <1>1, <1>2, <1>3, <1>4, <1>5, <1>6, <1>7, <1>8, <1>9, <1>10, <1>11, <1>12, <1>13
     DEF Statement

LEMMA CommitTypes ==
    ASSUME IInv, NEW w \in Writers, Commit(w)
    PROVE  TypeOK'
<1>t. TypeOK /\ WorkOK(w) /\ pc[w] = "commit"
  BY DEF IInv, Commit
<1>r. req[w] \in Requests \cup {NoRequest} /\ req[w] # NoRequest
  BY <1>t DEF TypeOK, WorkOK
<1>n. \A r \in Revision : r \in Nat
  BY RevisionAssumption DEF Revision
<1>1. row' \in [Flags -> Row]
  BY <1>t DEF TypeOK, Commit
<1>2. tomb' \in [Flags -> Revision]
  <2>1. 0 \in Revision
    BY RevisionAssumption DEF Revision
  <2>2. \A f \in Flags : Larger(tomb[f], row[f].rev) \in Revision
    BY <1>t DEF Larger, TypeOK, Row
  <2> QED  BY <1>t, <2>1, <2>2 DEF TypeOK, Commit
<1>3. aged' \subseteq Flags
  BY <1>t DEF TypeOK, Commit
<1>4. segment' \in Rules \cup {NoSegment} /\ protected' \in BOOLEAN
  BY <1>t, <1>r, RequestFields DEF TypeOK, Commit
<1>5. done' \in Requests \cup {NoRequest}
  BY <1>r DEF Commit
<1>6. AfterCommit(w) \in Steps
  BY DEF AfterCommit, Steps
<1>7. pc' \in [Writers -> Steps] /\ req' \in [Writers -> Requests \cup {NoRequest}]
  BY <1>t, <1>r, <1>6 DEF TypeOK, Commit, Goto
<1>8. out' \in [Writers -> SUBSET Change]
  BY <1>t, ChangesOf DEF TypeOK, Commit
<1>9. Released(w) /\ UNCHANGED <<seq, told>>
  BY DEF Commit
<1>10. announced' \in [Flags -> Revision]
  BY <1>t DEF TypeOK, Row, Commit
<1> QED
  BY <1>1, <1>2, <1>3, <1>4, <1>5, <1>7, <1>8, <1>9, <1>10, <1>t, ReleasedTypes DEF TypeOK

LEMMA RestTypes ==
    ASSUME IInv, NEW w \in Writers,
           \/ \E q \in Requests : Begin(w, q)
           \/ Rollback(w)
           \/ LoadSegments(w)
           \/ \E m \in out[w] : Publish(w, m)
    PROVE  TypeOK'
<1>t. TypeOK /\ WorkOK(w)
  BY DEF IInv
<1>1. ASSUME NEW q \in Requests, Begin(w, q)
      PROVE  TypeOK'
  BY <1>1, <1>t DEF TypeOK, Begin, Goto, committed, txState, Steps
<1>2. CASE Rollback(w)
  <2>1. Released(w)
    BY <1>2 DEF Rollback
  <2> QED  BY <1>2, <1>t, <2>1, ReleasedTypes DEF TypeOK, Rollback, Goto, committed, Steps
<1>3. CASE LoadSegments(w)
  <2> DEFINE sent(m) == [m EXCEPT !.val = Expand(m.val.data, segment)]
  <2>1. ASSUME NEW m \in out[w]
        PROVE  sent(m) \in Change
    <3>1. m \in Change /\ m.val # Absent
      BY <1>3, <1>t DEF TypeOK, WorkOK, LoadSegments
    <3>2. Expand(m.val.data, segment) \in [data : Data, seg : Rules \cup {NoSegment}]
      BY <3>1, <1>t DEF Change, Expand, TypeOK
    <3> QED  BY <3>1, <3>2 DEF Change
  <2>2. out' = [out EXCEPT ![w] = {sent(m) : m \in out[w]}]
    BY <1>3, <1>t DEF LoadSegments, TypeOK
  <2> HIDE DEF sent
  <2>3. out' \in [Writers -> SUBSET Change]
    BY <1>t, <2>1, <2>2 DEF TypeOK
  <2> QED  BY <1>3, <1>t, <2>3 DEF TypeOK, LoadSegments, Goto, committed, txState, Steps
<1>4. ASSUME NEW m \in out[w], Publish(w, m)
      PROVE  TypeOK'
  <2>1. m \in Change
    BY <1>t DEF TypeOK
  <2>2. SlotOf(m) \in [val : [data : Data, seg : Rules \cup {NoSegment}] \cup {Absent},
                       rev : Revision]
    BY <2>1 DEF Change, SlotOf
  <2>3. told' \in [Flags -> [val : [data : Data, seg : Rules \cup {NoSegment}] \cup {Absent},
                             rev : Revision]]
    BY <1>4, <1>t, <2>2 DEF TypeOK, Publish
  <2>4. out' \in [Writers -> SUBSET Change] /\ pc' \in [Writers -> Steps]
          /\ req' \in [Writers -> Requests \cup {NoRequest}]
    BY <1>4, <1>t DEF TypeOK, Publish, Goto, Steps
  <2> QED  BY <1>4, <1>t, <2>3, <2>4 DEF TypeOK, Publish, committed, txState
<1> QED  BY <1>1, <1>2, <1>3, <1>4

-----------------------------------------------------------------------------
(***************************************************************************)
(* The invariant                                                           *)
(***************************************************************************)

LEMMA Start == Init => IInv
<1> SUFFICES ASSUME Init PROVE IInv
  OBVIOUS
<1>1. 0 \in Revision /\ NoRow \in Row /\ 0 \in Nat
  BY RevisionAssumption, Markers DEF Revision
<1>2. TypeOK
  BY <1>1 DEF Init, TypeOK, Steps, Unknown
<1>3. RowsOK
  BY <1>1 DEF Init, RowsOK, Exists, NoRow
<1>4. \A w \in Writers : EnvironmentOK(w)
  BY DEF Init, EnvironmentOK, Needed, Outside
<1>5. \A w \in Writers : WorkOK(w)
  BY DEF Init, WorkOK, Written
<1> QED  BY <1>2, <1>3, <1>4, <1>5 DEF IInv

\* Nothing happens but that tombstones age.
LEMMA Settled ==
    ASSUME IInv, aged' \subseteq Flags,
           UNCHANGED <<row, tomb, segment, protected, done, announced, seq, req, pc, txState, out, told>>
    PROVE  IInv'
<1>t. TypeOK /\ RowsOK /\ seq \in Nat
  BY RevisionAssumption DEF IInv, TypeOK, Revision
<1>1. TypeOK'
  BY <1>t DEF TypeOK, txState
<1>2. RowsOK'
  BY <1>t DEF RowsOK, Exists
<1>3. ASSUME NEW w \in Writers
      PROVE  EnvironmentOK(w)' /\ WorkOK(w)'
  <2>1. EnvironmentOK(w)'
    BY DEF IInv, EnvironmentOK, Needed, txState
  <2>2. Untouched(w) /\ Respected(w)
    BY DEF Untouched, Respected, txState
  <2>3. WorkOK(w)'
    BY <1>t, <2>2, Others
  <2> QED  BY <2>1, <2>3
<1> QED  BY <1>1, <1>2, <1>3 DEF IInv

LEMMA Inductive == IInv /\ [Next]_vars => IInv'
<1> SUFFICES ASSUME IInv, [Next]_vars PROVE IInv'
  OBVIOUS
<1>1. ASSUME NEW w \in Writers, HandlerStep(w)
      PROVE  IInv'
  <2>1. TypeOK'
    BY <1>1, StatementTypes, CommitTypes, RestTypes DEF HandlerStep
  <2>2. RowsOK'
    BY <1>1, RowsStep
  <2>3. \A v \in Writers : EnvironmentOK(v)'
    BY <1>1, EnvironmentStep
  <2>4. \A v \in Writers : WorkOK(v)'
    BY <1>1, WorkStep, OthersKept
  <2> QED  BY <2>1, <2>2, <2>3, <2>4 DEF IInv
<1>2. CASE \E f \in Flags : Age(f)
  <2>1. aged' \subseteq Flags
    BY <1>2 DEF Age, IInv, TypeOK
  <2> QED  BY <1>2, <2>1, Settled DEF Age
<1>3. CASE UNCHANGED vars
  <2>1. aged' \subseteq Flags
    BY <1>3 DEF vars, committed, IInv, TypeOK
  <2> QED  BY <1>3, <2>1, Settled DEF vars, committed
<1> QED  BY <1>1, <1>2, <1>3 DEF Next, HandlerStep

\* Every handler holds the locks its request needs, and what it has written is
\* what the request amounts to on the committed state: lock_environment,
\* lock_environment_for_segment_write, SELECT .. FOR UPDATE and the row locks
\* of the writes suffice for that.
THEOREM Invariant == Spec => []IInv
  BY Start, Inductive, PTL DEF Spec

\* The variables have their types.
THEOREM TypeCorrect == Spec => []TypeOK
<1>1. IInv => TypeOK
  BY DEF IInv
<1> QED  BY <1>1, Invariant, PTL

-----------------------------------------------------------------------------
(***************************************************************************)
(* Serializability                                                         *)
(***************************************************************************)

\* A transaction that wrote one flag puts its data there.
LEMMA PutFlag ==
    ASSUME IInv, NEW w \in Writers, Commit(w), NEW d, WroteFlag(w, d),
           req[w].key \in Flags, req[w].kind \notin {"segment", "policy"}
    PROVE  Table!Put(req[w].key, d)
<1> DEFINE f == req[w].key
<1>1. new[w][f] \in Row \cup {Same} /\ row \in [Flags -> Row]
  BY DEF IInv, TypeOK
<1>2. /\ \A g \in Flags : new[w][g] # Same <=> g = f
      /\ new[w][f].data = d /\ new[w][f].rev > row[f].rev
  BY DEF WroteFlag, Written
<1>3. new[w][f] = [data |-> d, rev |-> new[w][f].rev]
  BY <1>1, <1>2 DEF Row
<1>4. row' = [g \in Flags |-> IF g = f THEN new[w][f] ELSE row[g]]
  BY <1>2 DEF Commit
<1>5. row'[f] = new[w][f]
  BY <1>4
<1>6. row' = [row EXCEPT ![f] = [data |-> d, rev |-> row'[f].rev]]
  BY <1>1, <1>3, <1>4, <1>5
<1>7. UNCHANGED <<segment, protected>>
  BY DEF Commit
<1> QED  BY <1>2, <1>5, <1>6, <1>7 DEF Table!Put

\* A commit is the request, run alone.
LEMMA CommitRefines ==
    ASSUME IInv, NEW w \in Writers, Commit(w)
    PROVE  Table!Next
<1> DEFINE f == req[w].key
<1>t. TypeOK /\ RowsOK /\ EnvironmentOK(w) /\ pc[w] = "commit" /\ ReadyToCommit(w)
  BY DEF IInv, WorkOK, Commit
<1>r. req[w] \in Requests \cup {NoRequest}
  BY <1>t DEF TypeOK
<1>d. done' = req[w]
  BY DEF Commit
<1>p. req[w].kind \in Refused => ~protected
  BY <1>t DEF EnvironmentOK, Needed, Outside, Refused
<1>1. CASE req[w].kind \in Inserts
  <2>1. f \in Flags /\ req[w].data \in Data
          /\ done' = [kind |-> req[w].kind, key |-> f, data |-> req[w].data]
    BY <1>1, <1>r, <1>d, RequestFields
  <2>2. WroteFlag(w, req[w].data) /\ (req[w].kind = "create" => ~protected \/ ~Exists(f))
    BY <1>1, <1>t DEF ReadyToCommit, Inserts, Patches
  <2>3. Table!Put(f, req[w].data)
    BY <1>1, <2>1, <2>2, PutFlag DEF Inserts
  <2>4. CASE req[w].kind = "create"
    BY <2>1, <2>2, <2>3, <2>4 DEF Table!Next, Table!Create, Table!Data, Data, Exists
  <2>5. CASE req[w].kind = "promote"
    BY <2>1, <2>3, <2>5, <1>p DEF Table!Next, Table!Promote, Table!Data, Data, Refused
  <2> QED  BY <1>1, <2>4, <2>5 DEF Inserts
<1>2. CASE req[w].kind \in Patches
  <2>1. f \in Flags /\ req[w].patch \in Patch
          /\ done' = [kind |-> req[w].kind, key |-> f, patch |-> req[w].patch]
    BY <1>2, <1>r, <1>d, RequestFields
  <2>2. WroteFlag(w, Merge(row[f].data, req[w].patch)) /\ Exists(f)
    BY <1>2, <1>t DEF ReadyToCommit, Inserts, Patches
  <2>3. Table!Put(f, Table!Merge(row[f].data, req[w].patch))
    <3>1. Table!Put(f, Merge(row[f].data, req[w].patch))
      BY <1>2, <2>1, <2>2, PutFlag DEF Patches
    <3> QED  BY <3>1 DEF Merge, Table!Merge
  <2>4. CASE req[w].kind = "patch"
    BY <2>1, <2>2, <2>3, <2>4, <1>p DEF Table!Next, Table!PatchFlag, Table!Patch, Patch, Exists, Refused
  <2>5. CASE req[w].kind = "approve"
    BY <2>1, <2>2, <2>3, <2>5 DEF Table!Next, Table!Approve, Table!Patch, Patch, Exists
  <2> QED  BY <1>2, <2>4, <2>5 DEF Patches
<1>3. CASE req[w].kind = "archive"
  <2>1. f \in Flags /\ done' = [kind |-> "archive", key |-> f]
    BY <1>3, <1>r, <1>d, RequestFields
  <2>2. WroteFlag(w, row[f].data) /\ Exists(f)
    BY <1>3, <1>t DEF ReadyToCommit, Inserts, Patches
  <2>3. Table!Put(f, row[f].data)
    BY <1>3, <2>1, <2>2, PutFlag
  <2> QED  BY <2>1, <2>2, <2>3 DEF Table!Next, Table!Archive, Exists
<1>4. CASE req[w].kind = "delete"
  <2>1. f \in Flags /\ done' = [kind |-> "delete", key |-> f]
    BY <1>4, <1>r, <1>d, RequestFields
  <2>2. Written(w) = {f} /\ new[w][f] = NoRow /\ Exists(f)
    BY <1>4, <1>t DEF ReadyToCommit, Inserts, Patches, HasFlag
  <2>3. row' = [row EXCEPT ![f] = NoRow]
    BY <2>2, <1>t DEF Commit, Written, TypeOK
  <2>4. UNCHANGED <<segment, protected>>
    BY <1>4 DEF Commit
  <2> QED
    BY <1>4, <1>p, <2>1, <2>2, <2>3, <2>4
       DEF Table!Next, Table!Delete, Table!NoRow, NoRow, Exists, Refused
<1>5. CASE req[w].kind = "segment"
  <2> DEFINE s == req[w].rules
  <2>1. s \in Rules \cup {NoSegment} /\ done' = [kind |-> "segment", rules |-> s]
    BY <1>5, <1>r, <1>d, RequestFields
  <2>2. (segment # NoSegment \/ s # NoSegment) /\ todo[w] = {} /\ Rerevised(w)
    BY <1>5, <1>t DEF ReadyToCommit, Inserts, Patches
  <2>3. segment' = s /\ protected' = protected
    BY <1>5 DEF Commit
  <2>4. row' = [g \in Flags |-> IF new[w][g] = Same THEN row[g] ELSE new[w][g]]
    BY DEF Commit
  <2>5. ASSUME NEW g \in Flags
        PROVE  /\ IF row[g].data \in Targeted THEN row'[g].rev > row[g].rev ELSE row'[g] = row[g]
               /\ row'[g] = [data |-> row[g].data, rev |-> row'[g].rev]
    <3>1. row[g] \in Row /\ new[w][g] \in Row \cup {Same}
      BY <1>t DEF TypeOK
    <3>2. CASE row[g].data \in Targeted
      <4>1. new[w][g] # Same /\ new[w][g].data = row[g].data /\ new[w][g].rev > row[g].rev
        BY <2>2, <3>2 DEF Rerevised
      <4>2. row'[g] = new[w][g] /\ row'[g] \in Row
        BY <2>4, <4>1, <3>1
      <4> QED  BY <3>2, <4>1, <4>2 DEF Row
    <3>3. CASE row[g].data \notin Targeted
      <4>1. row'[g] = row[g]
        BY <2>2, <2>4, <3>3 DEF Rerevised
      <4> QED  BY <3>1, <3>3, <4>1 DEF Row
    <3> QED  BY <3>2, <3>3
  <2>6. row' = [g \in Flags |-> [data |-> row[g].data, rev |-> row'[g].rev]]
    BY <2>4, <2>5
  <2> QED
    BY <1>5, <1>p, <2>1, <2>2, <2>3, <2>5, <2>6 DEF Table!Next, Table!WriteSegment, Refused
<1>6. CASE req[w].kind = "policy"
  <2>1. req[w].protect \in BOOLEAN /\ done' = [kind |-> "policy", protect |-> req[w].protect]
    BY <1>6, <1>r, <1>d, RequestFields
  <2>2. Written(w) = {}
    BY <1>6, <1>t DEF ReadyToCommit, Inserts, Patches
  <2>3. row' = row
    BY <2>2, <1>t DEF Commit, Written, TypeOK
  <2>4. protected' = req[w].protect /\ segment' = segment
    BY <1>6 DEF Commit
  <2> QED  BY <2>1, <2>3, <2>4 DEF Table!Next, Table!SetPolicy
<1> QED  BY <1>1, <1>2, <1>3, <1>4, <1>5, <1>6, <1>t DEF ReadyToCommit

\* Nothing else of a transaction is seen.
LEMMA StepRefines ==
    IInv /\ [Next]_vars => [Table!Next]_(Table!vars)
<1> SUFFICES ASSUME IInv, [Next]_vars PROVE [Table!Next]_(Table!vars)
  OBVIOUS
<1>1. ASSUME NEW w \in Writers, Commit(w)
      PROVE  Table!Next
  BY <1>1, CommitRefines
<1>2. ASSUME NEW w \in Writers, HandlerStep(w), ~Commit(w)
      PROVE  UNCHANGED <<row, segment, protected, done>>
  BY <1>2 DEF HandlerStep, Statement, LockEnvironment, LockForSegmentWrite, SetRequireApproval,
         DrawDefault, InsertRow, UpdateOnConflict, SelectForUpdate, MergePatch, UpdateRow, DeleteRow,
         RecordTombstone, PruneTombstone, Rerevise, committed, txState,
         Begin, Rollback, LoadSegments, Publish
<1>3. CASE (\E f \in Flags : Age(f)) \/ UNCHANGED vars
  BY <1>3 DEF Age, vars, committed, Table!vars
<1> QED  BY <1>1, <1>2, <1>3 DEF Next, HandlerStep, Table!vars

\* The requests that succeed are serializable in the order of their commits,
\* for any number of handlers, flags and fields.
THEOREM Serial == Spec => Serializable
<1>1. Init => Table!Init
  BY DEF Init, Table!Init, NoRow, Table!NoRow, NoRequest, Table!NoRequest
<1> QED  BY <1>1, StepRefines, Invariant, PTL DEF Spec, Serializable, Table!Spec

-----------------------------------------------------------------------------
(***************************************************************************)
(* Deadlock                                                                *)
(***************************************************************************)

\* The statements at which w can hold a row, and those at which it can hold a
\* tombstone.
LocksOK(w) ==
    \A f \in Flags :
        /\ lock[f] = w =>
              /\ pc[w] \in {"merge", "update", "tombstone", "prune", "rerevise", "commit"}
              /\ pc[w] = "update" => req[w].kind \in Patches
        /\ tlock[f] = w => pc[w] \in {"prune", "commit"}

\* A step of w gives the others no lock.
LEMMA NoLockForOthers ==
    ASSUME IInv, NEW w \in Writers, NEW v \in Writers \ {w}, HandlerStep(w), NEW f \in Flags
    PROVE  (lock'[f] = v => lock[f] = v) /\ (tlock'[f] = v => tlock[f] = v)
<1>t. TypeOK /\ v # w /\ v # Nobody
  BY MarkersAssumption DEF IInv
<1>1. CASE Statement(w)
  <2>1. \/ lock' = lock
        \/ \E g \in Flags : lock' = [lock EXCEPT ![g] = w]
        \/ lock' = [lock EXCEPT ![req[w].key] = w]
    BY <1>1 DEF Statement, LockEnvironment, LockForSegmentWrite, SetRequireApproval, DrawDefault,
         InsertRow, UpdateOnConflict, SelectForUpdate, MergePatch, UpdateRow, DeleteRow,
         RecordTombstone, PruneTombstone, Rerevise, WriteRow, txState
  <2>2. \/ tlock' = tlock
        \/ tlock' = [tlock EXCEPT ![req[w].key] = w]
        \/ \E g \in Flags, x \in {w, Nobody} : tlock' = [tlock EXCEPT ![g] = x]
    BY <1>1 DEF Statement, LockEnvironment, LockForSegmentWrite, SetRequireApproval, DrawDefault,
         InsertRow, UpdateOnConflict, SelectForUpdate, MergePatch, UpdateRow, DeleteRow,
         RecordTombstone, PruneTombstone, Rerevise, WriteRow, txState
  <2> QED  BY <1>t, <2>1, <2>2 DEF TypeOK
<1>2. CASE Commit(w) \/ Rollback(w)
  <2>1. Released(w)
    BY <1>2 DEF Commit, Rollback
  <2> QED  BY <1>t, <2>1 DEF Released
<1>3. CASE \/ \E q \in Requests : Begin(w, q)
           \/ LoadSegments(w)
           \/ \E m \in out[w] : Publish(w, m)
  BY <1>3 DEF Begin, LoadSegments, Publish, txState
<1> QED  BY <1>1, <1>2, <1>3 DEF HandlerStep

\* A step of w takes locks where it may.
LEMMA LocksStep ==
    ASSUME IInv, NEW w \in Writers, HandlerStep(w), LocksOK(w)
    PROVE  LocksOK(w)'
<1> USE DEF Goto, At
<1>t. TypeOK /\ WorkOK(w) /\ w # Nobody
  BY MarkersAssumption DEF IInv
<1>p. \A s : pc' = [pc EXCEPT ![w] = s] => pc'[w] = s
  BY <1>t DEF TypeOK
<1>1. CASE \/ \E q \in Requests : Begin(w, q)
           \/ LockEnvironment(w) \/ LockForSegmentWrite(w) \/ SetRequireApproval(w)
           \/ DrawDefault(w) \/ LoadSegments(w)
           \/ \E m \in out[w] : Publish(w, m)
  <2>1. lock' = lock /\ tlock' = tlock
    BY <1>1 DEF Begin, LockEnvironment, LockForSegmentWrite, SetRequireApproval, DrawDefault,
                LoadSegments, Publish, txState
  <2>2. pc[w] \in {"idle", "environment", "draw", "expand", "publish"}
    BY <1>1 DEF Begin, LockEnvironment, LockForSegmentWrite, SetRequireApproval, DrawDefault,
                LoadSegments, Publish
  <2> QED  BY <2>1, <2>2 DEF LocksOK
<1>2. CASE InsertRow(w) \/ UpdateOnConflict(w) \/ UpdateRow(w)
  <2>1. tlock' = tlock /\ pc'[w] = "commit" /\ pc[w] \in {"insert", "update"}
    BY <1>2, <1>p DEF InsertRow, UpdateOnConflict, UpdateRow
  <2> QED  BY <2>1 DEF LocksOK
<1>3. CASE SelectForUpdate(w) \/ DeleteRow(w)
  <2>1. tlock' = tlock /\ pc'[w] \in {"merge", "tombstone"} /\ pc[w] \in {"select", "delete"}
    BY <1>3, <1>p DEF SelectForUpdate, DeleteRow
  <2> QED  BY <2>1 DEF LocksOK
<1>4. CASE MergePatch(w)
  <2>1. tlock' = tlock /\ pc'[w] = "update" /\ pc[w] = "merge" /\ req' = req
    BY <1>4, <1>p DEF MergePatch
  <2>2. req[w].kind \in Patches
    BY <1>t, <2>1 DEF WorkOK
  <2> QED  BY <2>1, <2>2 DEF LocksOK
<1>5. CASE RecordTombstone(w) \/ \E f \in Flags : PruneTombstone(w, f)
  <2>1. lock' = lock /\ pc'[w] \in {"prune", "commit"}
    BY <1>5, <1>p DEF RecordTombstone, PruneTombstone
  <2> QED  BY <2>1 DEF LocksOK
<1>6. CASE \E f \in Flags : Rerevise(w, f)
  <2>1. tlock' = tlock /\ pc'[w] \in {"rerevise", "commit"} /\ pc[w] = "rerevise"
    BY <1>6, <1>p DEF Rerevise
  <2> QED  BY <2>1 DEF LocksOK
<1>7. CASE Commit(w) \/ Rollback(w)
  <2>1. Released(w)
    BY <1>7 DEF Commit, Rollback
  <2>2. \A f \in Flags : lock'[f] # w /\ tlock'[f] # w
    BY <2>1, <1>t DEF Released
  <2> QED  BY <2>2 DEF LocksOK
<1> QED  BY <1>1, <1>2, <1>3, <1>4, <1>5, <1>6, <1>7 DEF HandlerStep, Statement

LEMMA LocksInductive ==
    IInv /\ (\A w \in Writers : LocksOK(w)) /\ [Next]_vars => (\A w \in Writers : LocksOK(w))'
<1> SUFFICES ASSUME IInv, \A w \in Writers : LocksOK(w), [Next]_vars, NEW v \in Writers
             PROVE  LocksOK(v)'
  OBVIOUS
<1>1. ASSUME NEW w \in Writers, HandlerStep(w)
      PROVE  LocksOK(v)'
  <2>1. CASE w = v
    BY <1>1, <2>1, LocksStep
  <2>2. CASE w # v
    <3>1. pc'[v] = pc[v] /\ req'[v] = req[v]
      BY <1>1, <2>2, OthersKept DEF Untouched
    <3>2. \A f \in Flags : (lock'[f] = v => lock[f] = v) /\ (tlock'[f] = v => tlock[f] = v)
      BY <1>1, <2>2, NoLockForOthers
    <3> QED  BY <3>1, <3>2 DEF LocksOK
  <2> QED  BY <2>1, <2>2
<1>2. CASE (\E f \in Flags : Age(f)) \/ UNCHANGED vars
  BY <1>2 DEF Age, vars, txState, LocksOK
<1> QED  BY <1>1, <1>2 DEF Next, HandlerStep

\* Along a circle the statements a handler can wait at are excluded one after
\* the other: who waits for a tombstone waits for one that prunes or commits,
\* who gives the flags of a segment new revisions waits for one that does
\* neither that nor wait for a row, who waits for a row waits for one of
\* these, and who waits for the environment for any of them.
LEMMA Circles ==
    ASSUME IInv, \A w \in Writers : LocksOK(w),
           NEW S \in SUBSET Writers, S # {}, \A w \in S : WaitsFor(w) \cap S # {},
           \A w \in S : pc[w] # "prune"
    PROVE  FALSE
<1>t. TypeOK /\ \A w \in Writers : EnvironmentOK(w) /\ WorkOK(w) /\ req[w] \in Requests \cup {NoRequest}
  BY DEF IInv, TypeOK
<1>w. \A w \in S : \E v \in S : v \in WaitsFor(w)
  OBVIOUS
<1>1. \A w \in S : pc[w] \in {"environment", "insert", "select", "update", "delete", "rerevise", "tombstone"}
  <2> SUFFICES ASSUME NEW w \in S PROVE WaitsFor(w) # {} /\ pc[w] # "prune" =>
        pc[w] \in {"environment", "insert", "select", "update", "delete", "rerevise", "tombstone"}
    OBVIOUS
  <2> QED  BY DEF WaitsFor
<1>2. \A w \in S : pc[w] # "tombstone"
  <2> SUFFICES ASSUME NEW w \in S, pc[w] = "tombstone" PROVE FALSE
    OBVIOUS
  <2>1. PICK v \in S : tlock[req[w].key] = v
    BY <1>w DEF WaitsFor
  <2>2. req[w].key \in Flags
    BY KeyOf
  <2>3. pc[v] \in {"prune", "commit"}
    BY <2>1, <2>2 DEF LocksOK
  <2> QED  BY <2>3, <1>1
<1>3. \A w \in S : pc[w] = "update" => req[w].kind = "archive"
  <2> SUFFICES ASSUME NEW w \in S, pc[w] = "update", req[w].kind # "archive" PROVE FALSE
    OBVIOUS
  <2>1. HasFlag(w)
    BY <1>t DEF WorkOK
  <2>2. PICK v \in S : v # w /\ lock[req[w].key] = v
    BY <1>w DEF WaitsFor
  <2> QED  BY <2>1, <2>2 DEF HasFlag
<1>4. ASSUME NEW v \in S, NEW f \in Flags, lock[f] = v
      PROVE  pc[v] = "rerevise"
  <2>1. pc[v] \in {"merge", "update", "tombstone", "prune", "rerevise", "commit"}
          /\ (pc[v] = "update" => req[v].kind \in Patches)
    BY <1>4 DEF LocksOK
  <2>2. pc[v] # "update"
    BY <2>1, <1>3 DEF Patches
  <2> QED  BY <2>1, <2>2, <1>1, <1>2
<1>5. \A w \in S : pc[w] # "rerevise"
  <2> SUFFICES ASSUME NEW w \in S, pc[w] = "rerevise" PROVE FALSE
    OBVIOUS
  <2>1. PICK v \in S, f \in todo[w] : v # w /\ lock[f] = v
    BY <1>w DEF WaitsFor
  <2>2. f \in Flags
    BY <2>1, <1>t DEF TypeOK
  <2>3. pc[v] = "rerevise"
    BY <2>1, <2>2, <1>4
  <2>4. \A u \in {v, w} : env[u] = "exclusive"
    BY <2>3, <1>t DEF EnvironmentOK, Needed, Outside, WorkOK
  <2> QED  BY <2>1, <2>4, <1>t DEF EnvironmentOK
<1>6. \A w \in S : pc[w] = "environment"
  <2> SUFFICES ASSUME NEW w \in S, pc[w] \in {"insert", "select", "update", "delete"} PROVE FALSE
    BY <1>1, <1>2, <1>5
  <2>1. PICK v \in S : lock[req[w].key] = v
    BY <1>w DEF WaitsFor
  <2>2. req[w].key \in Flags
    BY KeyOf
  <2> QED  BY <2>1, <2>2, <1>4, <1>5
<1>7. PICK w \in S : TRUE
  OBVIOUS
<1>8. PICK v \in S : env[v] # "none"
  BY <1>7, <1>6, <1>w DEF WaitsFor
<1> QED  BY <1>8, <1>6, <1>t DEF EnvironmentOK, Needed, Outside

\* However many transactions there are, they wait for each other in a circle
\* only where deletions prune old tombstones: lock_environment and
\* lock_environment_for_segment_write come before the row locks in all of
\* them, and of those that lock several rows no two run at a time.
THEOREM NoOtherDeadlock == Spec => []OnlyPrunersDeadlock
<1> DEFINE L == \A w \in Writers : LocksOK(w)
<1>1. Init => L
  BY MarkersAssumption DEF Init, LocksOK
<1>2. IInv /\ L /\ [Next]_vars => L'
  BY LocksInductive
<1>3. IInv /\ L => OnlyPrunersDeadlock
  <2> SUFFICES ASSUME IInv, L, NEW S \in (SUBSET Writers) \ {{}},
                      \A w \in S : WaitsFor(w) \cap S # {},
                      \A w \in S : pc[w] # "prune"
               PROVE  FALSE
    BY DEF OnlyPrunersDeadlock
  <2>1. S \in SUBSET Writers /\ S # {}
    OBVIOUS
  <2> QED  BY <2>1, Circles
<1> QED  BY <1>1, <1>2, <1>3, Invariant, PTL DEF Spec

-----------------------------------------------------------------------------
(***************************************************************************)
(* What a client holds in the end                                          *)
(***************************************************************************)

\* The events w has still to publish, with the rules they will carry if the
\* segment stays as it is.
Coming(w) ==
    IF pc[w] = "expand"
      THEN {[m EXCEPT !.val = Expand(m.val.data, segment)] : m \in out[w]}
      ELSE out[w]

\* What the client holds of f, and what it will be told of it.
ComingOf(w, f) == {SlotOf(m) : m \in {n \in Coming(w) : n.key = f}}
Heard(f) == {told[f]} \cup UNION {ComingOf(w, f) : w \in Writers}

\* s is what the database holds for f, or a deletion that nothing published of
\* the flag inserted again is newer than.
Right(f, s) ==
    \/ s.val = Expanded(f) /\ (s.val # Absent => s.rev <= row[f].rev)
    \/ Exists(f) /\ s.val = Absent /\ s.rev # 0 /\ announced[f] <= s.rev

\* The latest of what the client will have heard, which is what it keeps, is
\* right.
LatestRight(f) ==
    \A s \in Heard(f) : (\A t \in Heard(f) : Stamp(t) <= Stamp(s)) => Right(f, s)

\* No event has a revision that is still to be drawn, and a revision drawn for
\* a flag that is there is above those of all events of the flag.
HeardOK(f) ==
    /\ \A s \in Heard(f) : s.rev <= seq
    /\ told[f].rev = 0 => told[f].val = Absent
    /\ \A w \in Writers : Exists(f) /\ new[w][f] \notin {Same, NoRow} =>
          \A s \in Heard(f) : s.rev < new[w][f].rev

OutOK(w) == pc[w] \notin {"expand", "publish"} => out[w] = {}

FreshInv ==
    /\ \A w \in Writers : OutOK(w)
    /\ \A f \in Flags : LatestRight(f) /\ HeardOK(f)

ExpandedFlag == [data : Data, seg : Rules \cup {NoSegment}]
Slot == [val : ExpandedFlag \cup {Absent}, rev : Revision]

LEMMA ExpandType ==
    ASSUME TypeOK, NEW d \in Data, NEW s \in Rules \cup {NoSegment}
    PROVE  /\ Expand(d, s) \in ExpandedFlag /\ Expand(d, s) # Absent
           /\ Expand(d, s).data = d
           /\ d \notin Targeted => Expand(d, s) = Expand(d, NoSegment)
<1>1. Expand(d, s) \in ExpandedFlag
  BY DEF Expand, ExpandedFlag
<1> QED  BY <1>1, MarkersAssumption DEF Expand, ExpandedFlag

\* An event to come has a type.
LEMMA ComingType ==
    ASSUME IInv, NEW w \in Writers
    PROVE  Coming(w) \subseteq Change
<1>t. TypeOK /\ WorkOK(w) /\ out[w] \subseteq Change
  BY DEF IInv, TypeOK
<1>1. CASE pc[w] = "expand"
  <2>1. ASSUME NEW m \in out[w]
        PROVE  [m EXCEPT !.val = Expand(m.val.data, segment)] \in Change
    <3>1. m \in Change /\ m.val # Absent
      BY <1>1, <1>t DEF WorkOK
    <3>2. Expand(m.val.data, segment) \in ExpandedFlag
      BY <3>1, <1>t, ExpandType DEF Change, TypeOK
    <3> QED  BY <3>1, <3>2 DEF Change, ExpandedFlag
  <2> QED  BY <1>1, <2>1 DEF Coming
<1>2. CASE pc[w] # "expand"
  BY <1>2, <1>t DEF Coming
<1> QED  BY <1>1, <1>2

LEMMA HeardType ==
    ASSUME IInv, NEW f \in Flags, NEW s \in Heard(f)
    PROVE  s \in Slot /\ s.rev \in Nat /\ Stamp(s) \in Nat
<1>r. \A r \in Revision : r \in Nat
  BY RevisionAssumption DEF Revision
<1>1. told[f] \in Slot
  BY DEF IInv, TypeOK, Slot, ExpandedFlag
<1>2. ASSUME NEW w \in Writers, NEW m \in Coming(w)
      PROVE  SlotOf(m) \in Slot
  <2>1. m \in Change
    BY ComingType
  <2> QED  BY <2>1 DEF Change, Slot, SlotOf, ExpandedFlag
<1>3. s \in Slot
  BY <1>1, <1>2 DEF Heard, ComingOf
<1>4. s.rev \in Nat
  BY <1>3, <1>r DEF Slot
<1> QED  BY <1>3, <1>4 DEF Stamp

\* A handler with nothing to publish tells nothing.
LEMMA NothingComing ==
    ASSUME NEW w \in Writers, out[w] = {}
    PROVE  Coming(w) = {}
  BY DEF Coming

LEMMA HeardSame ==
    ASSUME told' = told, \A w \in Writers : Coming(w)' = Coming(w), NEW f \in Flags
    PROVE  Heard(f)' = Heard(f)
<1>1. \A w \in Writers : ComingOf(w, f)' = ComingOf(w, f)
  BY DEF ComingOf
<1> QED  BY <1>1 DEF Heard

-----------------------------------------------------------------------------
\* The versions a statement writes: none, a deletion, the insertion of a flag
\* that is not there, or one with the next revision.
LEMMA NewVersion ==
    ASSUME IInv, NEW w \in Writers, Statement(w) \/ Rollback(w) \/ \E q \in Requests : Begin(w, q),
           NEW f \in Flags
    PROVE  \/ new'[w][f] = new[w][f]
           \/ new'[w][f] \in {Same, NoRow}
           \/ ~Exists(f)
           \/ new'[w][f].rev = seq + 1
<1>t. TypeOK
  BY DEF IInv
<1>1. CASE InsertRow(w)
  BY <1>1, <1>t DEF InsertRow, TypeOK
<1>2. CASE UpdateOnConflict(w)
  BY <1>2, <1>t DEF UpdateOnConflict, WriteRow, TypeOK
<1>3. CASE UpdateRow(w)
  BY <1>3, <1>t DEF UpdateRow, WriteRow, TypeOK
<1>4. CASE DeleteRow(w)
  BY <1>4, <1>t DEF DeleteRow, TypeOK
<1>5. CASE \E g \in Flags : Rerevise(w, g)
  BY <1>5, <1>t DEF Rerevise, WriteRow, TypeOK
<1>6. CASE Rollback(w)
  BY <1>6, <1>t DEF Rollback, Released, TypeOK
<1>7. CASE \/ \E q \in Requests : Begin(w, q)
           \/ LockEnvironment(w) \/ LockForSegmentWrite(w) \/ SetRequireApproval(w)
           \/ DrawDefault(w) \/ SelectForUpdate(w) \/ MergePatch(w) \/ RecordTombstone(w)
           \/ \E g \in Flags : PruneTombstone(w, g)
  BY <1>7 DEF Begin, LockEnvironment, LockForSegmentWrite, SetRequireApproval, DrawDefault,
              SelectForUpdate, MergePatch, RecordTombstone, PruneTombstone, txState
<1> QED  BY <1>1, <1>2, <1>3, <1>4, <1>5, <1>6, <1>7 DEF Statement

\* Before it commits, a handler tells nothing and changes no row.
LEMMA QuietTx ==
    ASSUME IInv, FreshInv, NEW w \in Writers,
           Statement(w) \/ Rollback(w) \/ \E q \in Requests : Begin(w, q)
    PROVE  FreshInv'
<1>t. TypeOK /\ seq \in Nat
  BY RevisionAssumption DEF IInv, TypeOK, Revision
<1>1. UNCHANGED <<row, segment, announced, out, told>>
  BY DEF Statement, LockEnvironment, LockForSegmentWrite, SetRequireApproval, DrawDefault,
         InsertRow, UpdateOnConflict, SelectForUpdate, MergePatch, UpdateRow, DeleteRow,
         RecordTombstone, PruneTombstone, Rerevise, Rollback, Begin, committed, txState
<1>2. pc[w] \notin {"expand", "publish"} /\ pc'[w] \notin {"expand", "publish"}
  <2>1. CASE Statement(w)
    <3>1. pc[w] \notin {"expand", "publish"}
      BY <2>1 DEF Statement, LockEnvironment, LockForSegmentWrite, SetRequireApproval, DrawDefault,
         InsertRow, UpdateOnConflict, SelectForUpdate, MergePatch, UpdateRow, DeleteRow,
         RecordTombstone, PruneTombstone, Rerevise, At
    <3>2. \E s : pc' = [pc EXCEPT ![w] = s] /\ s \notin {"expand", "publish"}
      <4>1. CASE LockEnvironment(w)
        <5>1. FirstStatement(req[w].kind) \notin {"expand", "publish"}
          <6>1. req[w].kind \in AllKinds \cup {"none"}
            BY <1>t, RequestFields DEF TypeOK
          <6> QED  BY <6>1 DEF FirstStatement, AllKinds
        <5> QED  BY <4>1, <5>1 DEF LockEnvironment, Goto
      <4>2. CASE ~LockEnvironment(w)
        BY <2>1, <4>2 DEF Statement, LockForSegmentWrite, SetRequireApproval, DrawDefault,
         InsertRow, UpdateOnConflict, SelectForUpdate, MergePatch, UpdateRow, DeleteRow,
         RecordTombstone, PruneTombstone, Rerevise, Goto
      <4> QED  BY <4>1, <4>2
    <3> QED  BY <3>1, <3>2, <1>t DEF TypeOK
  <2>2. CASE Rollback(w)
    BY <2>2, <1>t DEF Rollback, Goto, TypeOK
  <2>3. CASE \E q \in Requests : Begin(w, q)
    BY <2>3, <1>t DEF Begin, Goto, TypeOK
  <2> QED  BY <2>1, <2>2, <2>3
<1>3. \A v \in Writers \ {w} : Untouched(v) /\ seq' \in Nat /\ seq' >= seq
  BY OthersKept DEF HandlerStep
<1>s. seq' \in Nat /\ seq' >= seq
  BY <1>t DEF Statement, LockEnvironment, LockForSegmentWrite, SetRequireApproval, DrawDefault,
         InsertRow, UpdateOnConflict, SelectForUpdate, MergePatch, UpdateRow, DeleteRow,
         RecordTombstone, PruneTombstone, Rerevise, WriteRow, Rollback, Begin, txState
<1>4. ASSUME NEW v \in Writers
      PROVE  OutOK(v)' /\ Coming(v)' = Coming(v)
  <2>1. CASE v = w
    <3>1. out[w] = {}
      BY <1>2 DEF FreshInv, OutOK
    <3> QED  BY <2>1, <3>1, <1>1, <1>2 DEF OutOK, Coming
  <2>2. CASE v # w
    <3>1. pc'[v] = pc[v]
      BY <2>2, <1>3 DEF Untouched
    <3> QED  BY <2>2, <3>1, <1>1 DEF OutOK, Coming, FreshInv
  <2> QED  BY <2>1, <2>2
<1>5. ASSUME NEW f \in Flags
      PROVE  LatestRight(f)' /\ HeardOK(f)'
  <2>1. Heard(f)' = Heard(f)
    BY <1>1, <1>4, HeardSame
  <2>o. LatestRight(f) /\ HeardOK(f)
    BY DEF FreshInv
  <2>2. Exists(f)' = Exists(f) /\ Expanded(f)' = Expanded(f)
    BY <1>1 DEF Exists, Expanded
  <2>3. \A s : Right(f, s)' = Right(f, s)
    BY <1>1, <2>2 DEF Right
  <2>4. LatestRight(f)'
    <3> SUFFICES ASSUME NEW s \in Heard(f), \A u \in Heard(f) : Stamp(u) <= Stamp(s)
                 PROVE  Right(f, s)'
      BY <2>1 DEF LatestRight
    <3> QED  BY <2>o, <2>3 DEF LatestRight
  <2>5. \A s \in Heard(f) : s.rev \in Nat /\ s.rev <= seq
    BY <2>o, HeardType DEF HeardOK
  <2>6. ASSUME NEW v \in Writers, Exists(f), new'[v][f] \notin {Same, NoRow}, NEW s \in Heard(f)
        PROVE  s.rev < new'[v][f].rev
    <3>1. CASE new'[v][f] = new[v][f]
      BY <2>6, <3>1, <2>o DEF HeardOK
    <3>2. CASE new'[v][f] # new[v][f]
      <4>1. v = w
        BY <3>2, <1>3 DEF Untouched
      <4>2. new'[w][f].rev = seq + 1
        BY <4>1, <3>2, <2>6, NewVersion
      <4> QED  BY <4>1, <4>2, <2>5, <1>t
    <3> QED  BY <3>1, <3>2
  <2>7. \A s \in Heard(f) : s.rev <= seq'
    BY <2>5, <1>s, <1>t
  <2> QED  BY <2>1, <2>2, <2>4, <2>6, <2>7, <2>o, <1>1 DEF HeardOK
<1> QED  BY <1>4, <1>5 DEF FreshInv

\* Loading the segment settles what the events carry.
LEMMA LoadTx ==
    ASSUME IInv, FreshInv, NEW w \in Writers, LoadSegments(w)
    PROVE  FreshInv'
<1>t. TypeOK
  BY DEF IInv
<1>1. UNCHANGED <<row, segment, announced, told, seq, new>> /\ pc[w] = "expand" /\ pc'[w] = "publish"
  BY <1>t DEF LoadSegments, Goto, committed, txState, TypeOK
<1>2. out'[w] = {[m EXCEPT !.val = Expand(m.val.data, segment)] : m \in out[w]}
  BY <1>t DEF LoadSegments, TypeOK
<1>3. ASSUME NEW v \in Writers
      PROVE  OutOK(v)' /\ Coming(v)' = Coming(v)
  <2>1. CASE v = w
    BY <2>1, <1>1, <1>2 DEF OutOK, Coming
  <2>2. CASE v # w
    <3>1. pc'[v] = pc[v] /\ out'[v] = out[v]
      BY <2>2, OthersKept DEF HandlerStep, Untouched
    <3> QED  BY <3>1, <1>1 DEF OutOK, Coming, FreshInv
  <2> QED  BY <2>1, <2>2
<1>4. ASSUME NEW f \in Flags
      PROVE  LatestRight(f)' /\ HeardOK(f)'
  <2>1. Heard(f)' = Heard(f)
    BY <1>1, <1>3, HeardSame
  <2>o. LatestRight(f) /\ HeardOK(f)
    BY DEF FreshInv
  <2> QED  BY <2>1, <2>o, <1>1 DEF LatestRight, HeardOK, Right, Exists, Expanded, Stamp
<1> QED  BY <1>3, <1>4 DEF FreshInv

\* What the client will have heard shrinks to what it keeps of it.
LEMMA Shrunk ==
    ASSUME IInv, FreshInv, NEW f \in Flags,
           UNCHANGED <<row, segment, announced, seq, new>>,
           Heard(f)' \subseteq Heard(f),
           \A t \in Heard(f) : \E u \in Heard(f)' : Stamp(t) <= Stamp(u),
           told'[f].rev = 0 => told'[f].val = Absent
    PROVE  LatestRight(f)' /\ HeardOK(f)'
<1>o. LatestRight(f) /\ HeardOK(f)
  BY DEF FreshInv
<1>n. \A s \in Heard(f) : Stamp(s) \in Nat
  BY HeardType
<1>2. Exists(f)' = Exists(f) /\ Expanded(f)' = Expanded(f)
  BY DEF Exists, Expanded
<1>3. \A s : Right(f, s)' = Right(f, s)
  BY <1>2 DEF Right
<1>4. LatestRight(f)'
  <2> SUFFICES ASSUME NEW s \in Heard(f)', \A u \in Heard(f)' : Stamp(u) <= Stamp(s)
               PROVE  Right(f, s)'
    BY DEF LatestRight, Stamp
  <2>1. \A t \in Heard(f) : Stamp(t) <= Stamp(s)
    <3> TAKE t \in Heard(f)
    <3>1. PICK u \in Heard(f)' : Stamp(t) <= Stamp(u)
      OBVIOUS
    <3> QED  BY <3>1, <1>n
  <2> QED  BY <2>1, <1>o, <1>3 DEF LatestRight
<1> QED  BY <1>o, <1>2, <1>4 DEF HeardOK

\* A client keeps the later of what it holds and what it is told.
LEMMA PublishTx ==
    ASSUME IInv, FreshInv, NEW w \in Writers, NEW m \in out[w], Publish(w, m)
    PROVE  FreshInv'
<1>t. TypeOK
  BY DEF IInv
<1>r. \A r \in Revision : r \in Nat
  BY RevisionAssumption DEF Revision
<1>m. m \in Change
  BY <1>t DEF TypeOK
<1>1. UNCHANGED <<row, segment, announced, seq, new>> /\ pc[w] = "publish"
  BY DEF Publish, committed, txState
<1>2. /\ out'[w] = out[w] \ {m}
      /\ pc'[w] = IF out[w] = {m} THEN "idle" ELSE "publish"
  BY <1>t DEF Publish, Goto, TypeOK
<1>3. \A v \in Writers \ {w} : pc'[v] = pc[v] /\ out'[v] = out[v]
  BY OthersKept DEF HandlerStep, Untouched
<1>4. \A v \in Writers : OutOK(v)'
  BY <1>2, <1>3 DEF OutOK, FreshInv
<1>c. Coming(w) = out[w] /\ Coming(w)' = out[w] \ {m}
  BY <1>1, <1>2 DEF Coming
<1>d. \A v \in Writers \ {w} : Coming(v)' = Coming(v)
  BY <1>1, <1>3 DEF Coming
<1>5. ASSUME NEW f \in Flags
      PROVE  LatestRight(f)' /\ HeardOK(f)'
  <2> DEFINE s == SlotOf(m)
  <2>o. told[f].rev = 0 => told[f].val = Absent
    BY DEF FreshInv, HeardOK
  <2>v. \A v \in Writers \ {w} : ComingOf(v, f)' = ComingOf(v, f)
    BY <1>d DEF ComingOf
  <2>1. CASE f # m.key
    <3>1. ComingOf(w, f)' = ComingOf(w, f)
      BY <1>c, <2>1 DEF ComingOf
    <3>2. told'[f] = told[f]
      BY <2>1, <1>t DEF Publish, TypeOK
    <3>3. Heard(f)' = Heard(f)
      BY <3>1, <3>2, <2>v DEF Heard
    <3>4. \A u \in Heard(f) : Stamp(u) \in Nat
      BY HeardType
    <3> QED  BY <3>2, <3>3, <3>4, <2>o, <1>1, Shrunk
  <2>2. CASE f = m.key
    <3>1. s \in ComingOf(w, f) /\ s \in Heard(f)
      BY <1>c, <2>2 DEF ComingOf, Heard
    <3>2. ComingOf(w, f)' \subseteq ComingOf(w, f) /\ ComingOf(w, f) \subseteq ComingOf(w, f)' \cup {s}
      BY <1>c DEF ComingOf
    <3>3. told'[f] = IF IsStale(told[f], m) THEN told[f] ELSE s
      BY <2>2, <1>t DEF Publish, TypeOK
    <3>4. Heard(f)' \subseteq Heard(f)
      BY <3>1, <3>2, <3>3, <2>v DEF Heard
    <3>5. s.rev \in Nat \ {0} /\ s.val = m.val /\ s.rev = m.rev
      BY <1>m, <1>r DEF Change, SlotOf
    <3>6. told[f].rev \in Nat /\ told[f] \in Heard(f)
      BY HeardType DEF Heard
    <3>7. IF IsStale(told[f], m) THEN Stamp(s) <= Stamp(told[f]) ELSE Stamp(told[f]) <= Stamp(s)
      BY <3>5, <3>6, <2>o DEF IsStale, Stamp
    <3>8. \A u \in Heard(f) : Stamp(u) \in Nat
      BY HeardType
    <3>9. told'[f] \in Heard(f)' /\ Stamp(told[f]) <= Stamp(told'[f]) /\ Stamp(s) <= Stamp(told'[f])
      BY <3>3, <3>7, <3>8, <3>1, <3>6 DEF Heard
    <3>10. ASSUME NEW u \in Heard(f)
           PROVE  \E x \in Heard(f)' : Stamp(u) <= Stamp(x)
      <4>1. CASE u \in {told[f], s}
        BY <4>1, <3>9
      <4>2. CASE u \notin {told[f], s}
        <5>1. u \in Heard(f)'
          BY <4>2, <3>2, <2>v DEF Heard
        <5> QED  BY <5>1, <3>8
      <4> QED  BY <4>1, <4>2
    <3>11. told'[f].rev = 0 => told'[f].val = Absent
      BY <3>3, <3>5, <2>o
    <3> QED  BY <3>4, <3>10, <3>11, <1>1, Shrunk
  <2> QED  BY <2>1, <2>2
<1> QED  BY <1>4, <1>5 DEF FreshInv

-----------------------------------------------------------------------------
\* t is s, or the flag of s with the rules the segment has after the step.
Kin(s, t) ==
    /\ t.rev = s.rev
    /\ \/ t = s
       \/ /\ s.val \in ExpandedFlag /\ s.val # Absent
          /\ t.val = Expand(s.val.data, segment') /\ t.val # Absent

LEMMA KinStamp ==
    ASSUME NEW s, NEW t, Kin(s, t)
    PROVE  Stamp(s) = Stamp(t) /\ (s.val = Absent <=> t.val = Absent)
  BY DEF Kin, Stamp

\* The events of the others are as they were, but for the rules.
LEMMA ComingKin ==
    ASSUME IInv, NEW w \in Writers, Commit(w), NEW v \in Writers \ {w}, NEW f \in Flags
    PROVE  /\ \A s \in ComingOf(v, f) : \E t \in ComingOf(v, f)' : Kin(s, t)
           /\ \A t \in ComingOf(v, f)' : \E s \in ComingOf(v, f) : Kin(s, t)
<1>t. TypeOK /\ WorkOK(v) /\ segment' \in Rules \cup {NoSegment}
  BY CommitTypes DEF IInv, TypeOK
<1>1. pc'[v] = pc[v] /\ out'[v] = out[v]
  BY OthersKept DEF HandlerStep, Untouched
<1>2. CASE pc[v] # "expand"
  <2>1. ComingOf(v, f)' = ComingOf(v, f)
    BY <1>1, <1>2 DEF ComingOf, Coming
  <2> QED  BY <2>1 DEF Kin
<1>3. CASE pc[v] = "expand"
  <2> DEFINE was(m) == [m EXCEPT !.val = Expand(m.val.data, segment)]
             is(m) == [m EXCEPT !.val = Expand(m.val.data, segment')]
             key(m) == m.key = f
  <2>1. Coming(v) = {was(m) : m \in out[v]} /\ Coming(v)' = {is(m) : m \in out[v]}
    BY <1>1, <1>3 DEF Coming, Expand
  <2>2. ASSUME NEW m \in out[v]
        PROVE  was(m).key = m.key /\ is(m).key = m.key /\ Kin(SlotOf(was(m)), SlotOf(is(m)))
    <3>1. m \in Change /\ m.val # Absent /\ m.val.data \in Data
      BY <1>t, <1>3 DEF WorkOK, TypeOK, Change
    <3>2. was(m).key = m.key /\ is(m).key = m.key /\ was(m).rev = m.rev /\ is(m).rev = m.rev
            /\ was(m).val = Expand(m.val.data, segment) /\ is(m).val = Expand(m.val.data, segment')
      BY <3>1 DEF Change
    <3>3. /\ Expand(m.val.data, segment) \in ExpandedFlag /\ Expand(m.val.data, segment) # Absent
          /\ Expand(m.val.data, segment).data = m.val.data
          /\ Expand(m.val.data, segment') # Absent
      BY <3>1, <1>t, ExpandType DEF TypeOK
    <3>5. /\ SlotOf(was(m)).val = Expand(m.val.data, segment) /\ SlotOf(was(m)).rev = m.rev
          /\ SlotOf(is(m)).val = Expand(m.val.data, segment') /\ SlotOf(is(m)).rev = m.rev
      BY <3>2 DEF SlotOf
    <3> HIDE DEF was, is
    <3> QED  BY <3>2, <3>3, <3>5 DEF Kin, Expand
  <2> HIDE DEF was, is
  <2>3. \A s : s \in ComingOf(v, f) <=> \E m \in out[v] : m.key = f /\ s = SlotOf(was(m))
    BY <2>1, <2>2 DEF ComingOf
  <2>4. \A s : s \in ComingOf(v, f)' <=> \E m \in out[v] : m.key = f /\ s = SlotOf(is(m))
    BY <2>1, <2>2 DEF ComingOf
  <2> QED  BY <2>2, <2>3, <2>4
<1> QED  BY <1>2, <1>3

\* What a commit tells of flag f: its deletion, or the version it wrote, unless
\* it only archived the flag.
News(w, f) ==
    IF new[w][f] = Same \/ req[w].kind = "archive" THEN {}
    ELSE IF new[w][f] = NoRow THEN {[val |-> Absent, rev |-> row[f].rev]}
    ELSE {[val |-> Expand(new[w][f].data, segment'), rev |-> new[w][f].rev]}

LEMMA NewsOf ==
    ASSUME IInv, FreshInv, NEW w \in Writers, Commit(w), NEW f \in Flags
    PROVE  OutOK(w)' /\ ComingOf(w, f) = {} /\ ComingOf(w, f)' = News(w, f)
<1>t. TypeOK /\ WorkOK(w) /\ ReadyToCommit(w) /\ pc[w] = "commit"
  BY DEF IInv, WorkOK, Commit
<1>q. req[w] \in Requests \cup {NoRequest} /\ req[w] # NoRequest
  BY <1>t DEF TypeOK, WorkOK
<1>s. segment' \in Rules \cup {NoSegment}
  BY CommitTypes DEF TypeOK
<1>1. Coming(w) = {}
  BY <1>t DEF FreshInv, OutOK, Coming
<1>2. /\ pc'[w] = AfterCommit(w)
      /\ out'[w] = IF AfterCommit(w) = "idle" THEN {} ELSE Changes(w)
  BY <1>t DEF Commit, Goto, TypeOK
<1>3. OutOK(w)'
  BY <1>2 DEF OutOK, AfterCommit
<1> DEFINE s == IF req[w].kind = "segment" THEN req[w].rules ELSE NoSegment
           slot(g) == IF new[w][g] = NoRow
                        THEN [val |-> Absent, rev |-> row[g].rev]
                        ELSE [val |-> Expand(new[w][g].data, s), rev |-> new[w][g].rev]
<1>4. Changes(w) = {ChangeOf(g, slot(g)) : g \in {h \in Flags : new[w][h] # Same}}
  BY DEF Changes
<1>5. \A g \in Flags : SlotOf(ChangeOf(g, slot(g))) = slot(g) /\ ChangeOf(g, slot(g)).key = g
                       /\ ChangeOf(g, slot(g)).val = slot(g).val
  BY DEF SlotOf, ChangeOf
<1>6. ASSUME new[w][f] # Same
      PROVE  \/ new[w][f] = NoRow /\ req[w].kind = "delete"
             \/ new[w][f] # NoRow /\ new[w][f].data \in Data
  BY <1>6, <1>t, WrittenRow, Markers DEF NoRow
<1>7. CASE req[w].kind \in Inserts \cup Patches
  <2>1. AfterCommit(w) = "expand" /\ s = NoSegment /\ req[w].kind \notin {"archive", "delete"}
    BY <1>7 DEF AfterCommit, Inserts, Patches
  <2> DEFINE is(m) == [m EXCEPT !.val = Expand(m.val.data, segment')]
  <2>2. Coming(w)' = {is(m) : m \in Changes(w)}
    BY <1>2, <2>1 DEF Coming, Expand
  <2>3. ASSUME NEW g \in Flags, new[w][g] # Same
        PROVE  /\ is(ChangeOf(g, slot(g))).key = g
               /\ SlotOf(is(ChangeOf(g, slot(g)))) =
                    [val |-> Expand(new[w][g].data, segment'), rev |-> new[w][g].rev]
    <3>1. new[w][g] # NoRow /\ new[w][g].data \in Data
      BY <2>1, <2>3, <1>t, WrittenRow, Markers DEF NoRow
    <3>2. slot(g) = [val |-> Expand(new[w][g].data, NoSegment), rev |-> new[w][g].rev]
      BY <3>1, <2>1
    <3>3. slot(g).val.data = new[w][g].data /\ slot(g).rev = new[w][g].rev
      BY <3>2 DEF Expand
    <3> HIDE DEF slot
    <3> QED  BY <3>3 DEF ChangeOf, SlotOf
  <2> HIDE DEF is, slot
  <2>4. ComingOf(w, f)' = {SlotOf(is(ChangeOf(g, slot(g)))) : g \in {h \in Flags : new[w][h] # Same /\ h = f}}
    BY <2>2, <2>3, <1>4 DEF ComingOf
  <2>5. CASE new[w][f] = Same
    BY <2>4, <2>5, <1>1, <1>3 DEF News, ComingOf
  <2>6. CASE new[w][f] # Same
    <3>1. ComingOf(w, f)' = {SlotOf(is(ChangeOf(f, slot(f))))}
      BY <2>4, <2>6
    <3>2. new[w][f] # NoRow
      BY <1>6, <2>6, <2>1
    <3> QED  BY <3>1, <3>2, <2>1, <2>3, <2>6, <1>1, <1>3 DEF News, ComingOf
  <2> QED  BY <2>5, <2>6
<1>8. CASE req[w].kind \in {"delete", "segment"}
  <2>1. AfterCommit(w) \in {"publish", "idle"} /\ (AfterCommit(w) = "idle" => Changes(w) = {})
    BY <1>8 DEF AfterCommit, Inserts, Patches
  <2>2. Coming(w)' = Changes(w)
    BY <1>2, <2>1 DEF Coming
  <2> HIDE DEF slot
  <2>3. ComingOf(w, f)' = {slot(g) : g \in {h \in Flags : new[w][h] # Same /\ h = f}}
    BY <2>2, <1>4, <1>5 DEF ComingOf
  <2>4. CASE new[w][f] = Same
    BY <2>3, <2>4, <1>1, <1>3 DEF News, ComingOf
  <2>5. CASE new[w][f] # Same
    <3>1. ComingOf(w, f)' = {slot(f)} /\ ComingOf(w, f) = {}
      BY <2>3, <2>5, <1>1 DEF ComingOf
    <3>2. new[w][f] # NoRow => segment' = s
      BY <1>6, <2>5, <1>8, <1>t DEF Commit, ReadyToCommit, Written, Inserts, Patches
    <3> QED  BY <3>1, <3>2, <2>5, <1>3, <1>8 DEF News, slot
  <2> QED  BY <2>4, <2>5
<1>9. CASE req[w].kind \in {"archive", "policy"}
  <2>1. AfterCommit(w) = "idle"
    BY <1>9 DEF AfterCommit, Inserts, Patches
  <2>2. ComingOf(w, f)' = {}
    BY <1>2, <2>1 DEF Coming, ComingOf
  <2>3. req[w].kind = "policy" => new[w][f] = Same
    BY <1>t DEF ReadyToCommit, Written, Inserts, Patches
  <2> QED  BY <2>2, <2>3, <1>1, <1>3, <1>9 DEF News, ComingOf
<1>10. req[w].kind \in AllKinds
  BY <1>q, RequestFields
<1> QED  BY <1>7, <1>8, <1>9, <1>10 DEF AllKinds, Inserts, Patches

\* A commit adds its news to what the client will have heard.
LEMMA HeardAfterCommit ==
    ASSUME IInv, FreshInv, NEW w \in Writers, Commit(w), NEW f \in Flags
    PROVE  /\ \A s \in Heard(f) : \E t \in Heard(f)' : Kin(s, t)
           /\ \A t \in Heard(f)' : t \in News(w, f) \/ \E s \in Heard(f) : Kin(s, t)
           /\ News(w, f) \subseteq Heard(f)'
<1>1. told' = told
  BY DEF Commit
<1>2. ComingOf(w, f) = {} /\ ComingOf(w, f)' = News(w, f)
  BY NewsOf
<1>3. Heard(f) = {told[f]} \cup UNION {ComingOf(v, f) : v \in Writers \ {w}}
  BY <1>2 DEF Heard
<1>4. Heard(f)' = {told[f]} \cup News(w, f) \cup UNION {ComingOf(v, f)' : v \in Writers \ {w}}
  BY <1>1, <1>2 DEF Heard
<1>5. Kin(told[f], told[f])
  BY DEF Kin
<1>6. ASSUME NEW s \in Heard(f)
      PROVE  \E t \in Heard(f)' : Kin(s, t)
  <2>1. CASE s = told[f]
    BY <2>1, <1>4, <1>5
  <2>2. ASSUME NEW v \in Writers \ {w}, s \in ComingOf(v, f)
        PROVE  \E t \in Heard(f)' : Kin(s, t)
    BY <2>2, <1>4, ComingKin
  <2> QED  BY <2>1, <2>2, <1>3
<1>7. ASSUME NEW t \in Heard(f)', t \notin News(w, f)
      PROVE  \E s \in Heard(f) : Kin(s, t)
  <2>1. CASE t = told[f]
    BY <2>1, <1>3, <1>5
  <2>2. ASSUME NEW v \in Writers \ {w}, t \in ComingOf(v, f)'
        PROVE  \E s \in Heard(f) : Kin(s, t)
    BY <2>2, <1>3, ComingKin
  <2> QED  BY <2>1, <2>2, <1>4, <1>7
<1> QED  BY <1>4, <1>6, <1>7

\* Without news of f, the flag is as it was, but for its revision and the
\* rules of the segment.
LEMMA NoNews ==
    ASSUME IInv, FreshInv, NEW w \in Writers, Commit(w), NEW f \in Flags, News(w, f) = {}
    PROVE  LatestRight(f)'
<1>t. TypeOK /\ WorkOK(w) /\ ReadyToCommit(w) /\ EnvironmentOK(w)
  BY DEF IInv, WorkOK, Commit
<1>k. row[f] \in Row /\ row[f].rev \in Nat
  BY <1>t, RevisionAssumption DEF TypeOK, Row, Revision
<1>1. row'[f] = IF new[w][f] = Same THEN row[f] ELSE new[w][f]
  BY DEF Commit
<1>2. new[w][f] # Same => req[w].kind = "archive"
  BY DEF News
<1>a. announced'[f] = announced[f]
  BY <1>2 DEF Commit
<1>3. row'[f].data = row[f].data /\ row'[f].rev \in Nat /\ row'[f].rev >= row[f].rev
  <2>1. CASE new[w][f] = Same
    BY <2>1, <1>1, <1>k
  <2>2. CASE new[w][f] # Same
    <3>1. WroteFlag(w, row[req[w].key].data) /\ f = req[w].key
      BY <2>2, <1>2, <1>t DEF ReadyToCommit, WroteFlag, Written, Inserts, Patches
    <3>2. row'[f] \in Row
      BY CommitTypes DEF TypeOK
    <3> QED  BY <2>2, <3>1, <3>2, <1>1, <1>k, RevisionAssumption DEF WroteFlag, Row, Revision
  <2> QED  BY <2>1, <2>2
<1>4. ASSUME Exists(f)
      PROVE  row[f].data \in Data /\ (segment' = segment \/ row[f].data \notin Targeted)
  <2>1. row[f].data \in Data
    BY <1>4, <1>k DEF Exists, Row
  <2>2. CASE req[w].kind = "segment"
    <3>1. new[w][f] = Same
      BY <1>2, <2>2
    <3>2. Rerevised(w) /\ todo[w] = {}
      BY <2>2, <1>t DEF ReadyToCommit, Inserts, Patches
    <3> QED  BY <2>1, <3>1, <3>2 DEF Rerevised
  <2>3. CASE req[w].kind # "segment"
    BY <2>1, <2>3 DEF Commit
  <2> QED  BY <2>2, <2>3
<1>5. SUFFICES ASSUME NEW t \in Heard(f)', \A u \in Heard(f)' : Stamp(u) <= Stamp(t)
               PROVE  Right(f, t)'
  BY DEF LatestRight, Stamp
<1>6. PICK s \in Heard(f) : Kin(s, t)
  BY <1>5, HeardAfterCommit
<1>7. \A u \in Heard(f) : Stamp(u) <= Stamp(s)
  <2> TAKE u \in Heard(f)
  <2>1. PICK x \in Heard(f)' : Kin(u, x)
    BY HeardAfterCommit
  <2>2. Stamp(x) <= Stamp(t) /\ Stamp(x) = Stamp(u) /\ Stamp(t) = Stamp(s)
    BY <1>5, <1>6, <2>1, KinStamp
  <2> QED  BY <2>2
<1>8. Right(f, s)
  BY <1>7 DEF FreshInv, LatestRight
<1>9. Exists(f)' = Exists(f) /\ s.rev \in Nat
  BY <1>3, HeardType DEF Exists
<1>10. CASE s.val = Absent
  <2>1. t = s
    BY <1>6, <1>10 DEF Kin
  <2>2. \A d \in Data : Expand(d, segment) # Absent
    BY <1>t, ExpandType DEF TypeOK
  <2>3. (s.rev # 0 /\ announced[f] <= s.rev /\ Exists(f)) \/ ~Exists(f)
    BY <1>8, <1>10, <2>2, <1>4 DEF Right, Expanded
  <2> QED  BY <1>9, <1>10, <1>a, <2>1, <2>3 DEF Right, Expanded
<1>11. CASE s.val # Absent
  <2>1. Exists(f) /\ s.val = Expand(row[f].data, segment) /\ s.rev <= row[f].rev
    BY <1>8, <1>11 DEF Right, Expanded
  <2>2. t.rev = s.rev /\ t.val # Absent
    BY <1>6, <1>11 DEF Kin
  <2>3. s.val.data = row[f].data
    BY <2>1 DEF Expand
  <2>4. t.val = Expand(row[f].data, segment')
    <3>1. t.val = s.val \/ t.val = Expand(s.val.data, segment')
      BY <1>6 DEF Kin
    <3> QED  BY <3>1, <2>1, <2>3, <1>4 DEF Expand
  <2>5. t.val = Expanded(f)'
    BY <2>1, <2>4, <1>9, <1>3 DEF Expanded, Expand
  <2> QED  BY <2>1, <2>2, <2>5, <1>3, <1>9, <1>k DEF Right
<1> QED  BY <1>10, <1>11

\* With news of f, they are the latest, unless the flag had been deleted at a
\* higher revision than the one it was inserted with.
LEMMA SomeNews ==
    ASSUME IInv, FreshInv, NEW w \in Writers, Commit(w), NEW f \in Flags, News(w, f) # {}
    PROVE  LatestRight(f)'
<1>t. TypeOK /\ WorkOK(w) /\ ReadyToCommit(w) /\ RowsOK /\ pc[w] = "commit"
  BY DEF IInv, WorkOK, Commit
<1>k. row[f] \in Row /\ row[f].rev \in Nat
  BY <1>t, RevisionAssumption DEF TypeOK, Row, Revision
<1>s. segment' \in Rules \cup {NoSegment}
  BY CommitTypes DEF TypeOK
<1>1. new[w][f] # Same /\ row'[f] = new[w][f]
  BY DEF News, Commit
<1>n. new[w][f] \in Row /\ new[w][f].rev \in Nat
  BY <1>1, <1>t, RevisionAssumption DEF TypeOK, Row, Revision
<1>a. announced'[f] = new[w][f].rev
  BY DEF News, Commit
<1>2. SUFFICES ASSUME NEW t \in Heard(f)', \A u \in Heard(f)' : Stamp(u) <= Stamp(t)
               PROVE  Right(f, t)'
  BY DEF LatestRight, Stamp
<1>3. \A u \in News(w, f) : u \in Heard(f)' /\ Stamp(u) <= Stamp(t)
  BY <1>2, HeardAfterCommit
\* What was the latest, and still is, was right.
<1>4. ASSUME NEW s \in Heard(f), Kin(s, t)
      PROVE  Right(f, s) /\ s.rev \in Nat /\ t.rev = s.rev /\ (s.val = Absent => t = s)
  <2>1. \A u \in Heard(f) : Stamp(u) <= Stamp(s)
    <3> TAKE u \in Heard(f)
    <3>1. PICK x \in Heard(f)' : Kin(u, x)
      BY HeardAfterCommit
    <3>2. Stamp(x) <= Stamp(t) /\ Stamp(x) = Stamp(u) /\ Stamp(t) = Stamp(s)
      BY <1>2, <1>4, <3>1, KinStamp
    <3> QED  BY <3>2
  <2> QED  BY <1>4, <2>1, HeardType DEF FreshInv, LatestRight, Kin
<1>5. CASE new[w][f] = NoRow
  <2>1. News(w, f) = {[val |-> Absent, rev |-> row[f].rev]}
    BY <1>1, <1>5 DEF News
  <2>2. ~Exists(f)' /\ Expanded(f)' = Absent
    BY <1>1, <1>5 DEF Exists, Expanded, NoRow
  <2>3. 2 * row[f].rev + 1 <= Stamp(t)
    BY <1>3, <2>1, <1>k DEF Stamp
  <2>4. ASSUME t.val # Absent PROVE FALSE
    <3>1. PICK s \in Heard(f) : Kin(s, t)
      BY <2>1, <2>4, HeardAfterCommit
    <3>2. s.val # Absent /\ Right(f, s) /\ s.rev \in Nat /\ Stamp(t) = Stamp(s)
      BY <2>4, <3>1, <1>4, KinStamp
    <3>3. s.rev <= row[f].rev /\ Stamp(s) = 2 * s.rev
      BY <3>2 DEF Right, Stamp
    <3> QED  BY <3>2, <3>3, <2>3, <1>k
  <2> QED  BY <2>2, <2>4 DEF Right
<1>6. CASE new[w][f] # NoRow
  <2> DEFINE n == [val |-> Expand(new[w][f].data, segment'), rev |-> new[w][f].rev]
  <2>1. News(w, f) = {n}
    BY <1>1, <1>6 DEF News
  <2>2. new[w][f].data \in Data /\ new[w][f].rev # 0
    BY <1>1, <1>6, <1>t, WrittenRow DEF NoRow
  <2>3. Exists(f)' /\ \A x : x = n => x.val = Expanded(f)'
    BY <1>1, <2>2, Markers DEF Exists, Expanded, Expand
  <2>4. t = n => Right(f, t)'
    BY <1>1, <1>n, <2>3 DEF Right
  <2>5. n.val # Absent /\ Stamp(n) = 2 * new[w][f].rev
    <3>1. Expand(new[w][f].data, segment') # Absent
      BY <2>2, <1>t, <1>s, ExpandType
    <3> QED  BY <3>1, <1>n DEF Stamp
  <2>6. 2 * new[w][f].rev <= Stamp(t)
    BY <1>3, <2>1, <2>5
  <2>7. ASSUME t # n
        PROVE  Right(f, t)'
    <3>1. PICK s \in Heard(f) : Kin(s, t)
      BY <2>1, <2>7, HeardAfterCommit
    <3>2. Right(f, s) /\ s.rev \in Nat /\ t.rev = s.rev /\ (s.val = Absent => t = s)
            /\ Stamp(t) = Stamp(s)
      BY <3>1, <1>4, KinStamp
    <3>3. CASE Exists(f)
      <4>1. s.rev < new[w][f].rev
        BY <3>3, <1>1, <1>6 DEF FreshInv, HeardOK
      <4>2. Stamp(s) \in Nat /\ Stamp(s) <= 2 * s.rev + 1
        BY <3>2 DEF Stamp
      <4> QED  BY <4>1, <4>2, <3>2, <2>6, <1>n
    <3>4. CASE ~Exists(f)
      <4>1. s.val = Absent
        BY <3>2, <3>4 DEF Right, Expanded
      <4>2. Stamp(s) = 2 * s.rev + 1
        BY <4>1 DEF Stamp
      <4>3. s.rev # 0 /\ new[w][f].rev <= s.rev
        BY <4>2, <3>2, <2>6, <2>2, <1>n
      <4> QED  BY <4>1, <4>3, <3>2, <2>3, <1>a DEF Right
    <3> QED  BY <3>3, <3>4
  <2> QED  BY <2>4, <2>7
<1> QED  BY <1>5, <1>6

\* The revisions of the news are drawn, and no one else has written the flag.
LEMMA NewsDrawn ==
    ASSUME IInv, FreshInv, NEW w \in Writers, Commit(w), NEW f \in Flags
    PROVE  HeardOK(f)'
<1>t. TypeOK /\ WorkOK(w) /\ RowsOK /\ seq' = seq /\ told' = told
  BY DEF IInv, Commit
<1>o. HeardOK(f)
  BY DEF FreshInv
<1>1. \A t \in News(w, f) : t.rev <= seq
  <2>1. new[w][f] # Same => new[w][f].rev <= seq
    BY <1>t DEF WorkOK, Written
  <2> QED  BY <2>1, <1>t DEF News, RowsOK
<1>2. \A t \in Heard(f)' : t.rev <= seq'
  <2> TAKE t \in Heard(f)'
  <2> QED  BY <1>1, <1>o, <1>t, HeardAfterCommit DEF Kin, HeardOK
<1>3. ASSUME NEW v \in Writers, Exists(f)', new'[v][f] \notin {Same, NoRow}, NEW t \in Heard(f)'
      PROVE  t.rev < new'[v][f].rev
  <2>1. v # w
    BY <1>3, <1>t DEF Commit, Released, TypeOK
  <2>2. new'[v] = new[v] /\ Respected(v)
    BY <2>1, OthersKept DEF HandlerStep, Untouched
  <2>3. lock[f] = v
    BY <1>3, <2>2 DEF IInv, WorkOK, Written
  <2>4. new[w][f] = Same
    BY <2>1, <2>3, <1>t DEF WorkOK, Written
  <2>5. Exists(f)
    BY <1>3, <2>2, <2>3 DEF Respected, Exists
  <2>6. PICK s \in Heard(f) : Kin(s, t)
    BY <2>4, HeardAfterCommit DEF News
  <2> QED  BY <1>3, <2>2, <2>5, <2>6, <1>o DEF HeardOK, Kin
<1> QED  BY <1>2, <1>3, <1>o, <1>t DEF HeardOK

LEMMA CommitTx ==
    ASSUME IInv, FreshInv, NEW w \in Writers, Commit(w)
    PROVE  FreshInv'
<1>1. ASSUME NEW v \in Writers
      PROVE  OutOK(v)'
  <2>1. CASE v = w
    <3>1. pc'[w] = AfterCommit(w) /\ out'[w] = IF AfterCommit(w) = "idle" THEN {} ELSE Changes(w)
      BY DEF IInv, TypeOK, Commit, Goto
    <3> QED  BY <2>1, <3>1 DEF OutOK, AfterCommit
  <2>2. CASE v # w
    BY <2>2, OthersKept DEF HandlerStep, Untouched, OutOK, FreshInv
  <2> QED  BY <2>1, <2>2
<1>2. \A f \in Flags : LatestRight(f)' /\ HeardOK(f)'
  BY NoNews, SomeNews, NewsDrawn
<1> QED  BY <1>1, <1>2 DEF FreshInv

LEMMA FreshStart == Init => FreshInv
<1> SUFFICES ASSUME Init PROVE FreshInv
  OBVIOUS
<1>1. \A w \in Writers : Coming(w) = {} /\ OutOK(w)
  BY DEF Init, Coming, OutOK
<1>2. ASSUME NEW f \in Flags
      PROVE  LatestRight(f) /\ HeardOK(f)
  <2>1. Heard(f) = {Unknown}
    BY <1>1 DEF Heard, ComingOf, Init
  <2>2. ~Exists(f)
    BY DEF Init, Exists, NoRow
  <2> QED  BY <2>1, <2>2 DEF LatestRight, HeardOK, Right, Expanded, Unknown, Init
<1> QED  BY <1>1, <1>2 DEF FreshInv

LEMMA FreshInductive == IInv /\ FreshInv /\ [Next]_vars => FreshInv'
<1> SUFFICES ASSUME IInv, FreshInv, [Next]_vars PROVE FreshInv'
  OBVIOUS
<1>1. ASSUME NEW w \in Writers, HandlerStep(w)
      PROVE  FreshInv'
  BY <1>1, QuietTx, CommitTx, LoadTx, PublishTx DEF HandlerStep
<1>2. CASE (\E f \in Flags : Age(f)) \/ UNCHANGED vars
  <2>1. UNCHANGED <<row, segment, announced, seq, pc, new, out, told>>
    BY <1>2 DEF Age, vars, committed, txState
  <2>2. \A w \in Writers : OutOK(w)' /\ Coming(w)' = Coming(w)
    BY <2>1 DEF FreshInv, OutOK, Coming
  <2>3. ASSUME NEW f \in Flags
        PROVE  LatestRight(f)' /\ HeardOK(f)'
    <3>1. Heard(f)' = Heard(f)
      BY <2>1, <2>2, HeardSame
    <3> QED  BY <3>1, <2>1 DEF FreshInv, LatestRight, HeardOK, Right, Exists, Expanded, Stamp
  <2> QED  BY <2>2, <2>3 DEF FreshInv
<1> QED  BY <1>1, <1>2 DEF Next, HandlerStep

\* Once all handlers are done a client that got every event, in whatever order
\* they published, holds every flag as it is, or takes for deleted one that
\* was inserted again and not published with a higher revision since: a revision is drawn while the row is locked, and what
\* load_env_segments reads is as new as the event or followed by another.
THEOREM FreshInTheEnd == Spec => []Fresh
<1>1. IInv /\ FreshInv => Fresh
  <2> SUFFICES ASSUME IInv, FreshInv, \A w \in Writers : pc[w] = "idle", NEW f \in Flags
               PROVE  \/ told[f].val = Expanded(f)
                      \/ /\ Exists(f)
                         /\ told[f].val = Absent /\ told[f].rev # 0
                         /\ announced[f] <= told[f].rev
    BY DEF Fresh
  <2>1. \A w \in Writers : Coming(w) = {}
    BY DEF FreshInv, OutOK, Coming
  <2>2. Heard(f) = {told[f]}
    BY <2>1 DEF Heard, ComingOf
  <2>3. Stamp(told[f]) \in Nat
    BY <2>2, HeardType
  <2> QED  BY <2>2, <2>3 DEF FreshInv, LatestRight, Right
<1> QED  BY <1>1, FreshStart, FreshInductive, Invariant, PTL DEF Spec
=============================================================================
