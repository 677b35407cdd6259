------------------------------ MODULE FlagSync ------------------------------
(***************************************************************************)
(* Propagation of flag changes from the handlers of the server to the SDK  *)
(* clients, for the flags of one environment:                              *)
(*                                                                         *)
(*   handler --commit--> PostgreSQL --(after commit)--> publish on Redis   *)
(*   Redis --> subscriber task of each instance --> broadcast channel      *)
(*   broadcast channel --> one SSE connection per client --> SDK           *)
(*                                                                         *)
(* Nothing between the commit and the SDK is transactional: handlers that  *)
(* committed in one order publish in another, a publish may fail or be     *)
(* processed although it reports a failure, a subscription or a connection *)
(* may drop, a receiver may lag.  The revision of the flag row, the        *)
(* snapshot an SSE connection starts with and the RESYNC broadcast are     *)
(* what the code opposes to all this.                                      *)
(*                                                                         *)
(* A transaction is one step here, but for the revision of an INSERT, which *)
(* is drawn before the transaction can see whether there is a row.  A       *)
(* client is an SDK that streams (its polling fallback and its offline      *)
(* cache are not part of this module).                                      *)
(***************************************************************************)
EXTENDS FlagEvents, Sequences, FiniteSets, SequencesExt

CONSTANTS
    Flags,        \* flag keys of the environment
    Data,         \* values of the data column of a flag row
    Rules,        \* values of the rules column of the segment
    Instances,    \* server processes
    Nowhere,      \* where the stream of a client without one is served
    Writers,      \* request handlers (each serves one write after another)
    Home,         \* Home[w]: the instance handler w runs in
    Clients,      \* SDK clients
    RxCapacity,   \* capacity of the broadcast channel (256 in main.rs)
    MaxRevision,  \* bound: revisions drawn from flag_revision_seq
    Faults,       \* kinds of fault that may happen
    MaxFaults     \* bound: how many of them, together

(***************************************************************************)
(* What may go wrong; a run names the kinds it allows.  The code repairs    *)
(* what the first group does:                                              *)
(*   "publish"       an attempt to publish fails                           *)
(*   "subscription"  the Redis subscription of an instance breaks          *)
(*   "connection"    an SSE connection breaks                              *)
(* and lets the gaps happen:                                               *)
(*   "crash"         an instance dies and restarts                         *)
(*   "cancel"        a request is dropped between its commit and publish   *)
(*   "segment_load"  the segments cannot be read after the commit          *)
(*   "early_connect" a client streams from an instance whose subscriber    *)
(*                   has not yet subscribed for the first time             *)
(*   "late_clear"    resync_pending is cleared only some time after the    *)
(*                   RESYNC broadcast went out                             *)
(***************************************************************************)
Tolerated == {"publish", "subscription", "connection"}
Gaps == {"crash", "cancel", "segment_load", "early_connect", "late_clear"}

ASSUME FlagsAssumption == IsFiniteSet(Flags)
ASSUME DataAssumption ==
    /\ Targeted \subseteq Data
    /\ Absent \notin Data \cup [data : Data, seg : Rules \cup {NoSegment}]
ASSUME RulesAssumption == NoSegment \notin Rules
ASSUME HomeAssumption == Home \in [Writers -> Instances] /\ Nowhere \notin Instances
ASSUME BoundsAssumption ==
    /\ RxCapacity \in Nat \ {0}
    /\ MaxRevision \in Nat
    /\ MaxFaults \in Nat
ASSUME FaultsAssumption == Faults \subseteq Tolerated \cup Gaps

VARIABLES
    \* PostgreSQL
    row,      \* row[f]: the flags row, data = Absent when there is none
    tomb,     \* tomb[f]: revision in flag_tombstones, 0 when there is none
    segment,  \* rules of the segment, or NoSegment
    seq,      \* last value drawn from flag_revision_seq
    \* server processes
    job,      \* job[w]: the revision handler w drew for an INSERT, and what it has
              \* still to publish
    resync,   \* resync[i]: state of the RESYNC retry loop of instance i
    sub,      \* sub[i]: state of the Redis subscription of instance i
    inbox,    \* inbox[i]: published, not yet read by the subscriber of i
    \* SSE connections, server side and wire
    phase,    \* phase[c]: progress of the connection of client c
    at,       \* at[c]: instance that serves it, or Nowhere
    rx,       \* rx[c]: broadcast payloads the connection has not yielded yet
    boot,     \* boot[c]: the snapshot the connection bootstraps from
    todo,     \* todo[c]: flags of boot[c] not yet sent
    \* SDK clients
    staged,   \* staged[c]: the replay received so far (_staged)
    view,     \* view[c]: the live flag set (_flagCache and _revisions)
    \* bounds and history
    faults,   \* number of faults left
    last,     \* last[f]: highest stamp of a committed state of f
    overtaken, \* overtaken[f]: up to this one, stamps of f do not tell the order
              \* of the commits
    unheard,  \* flags with a change that a fault may have kept from clients
    seen      \* seen[c][f]: highest stamp client c ever held for f

dbVars     == <<row, tomb, segment, seq, last, overtaken, unheard>>
serverVars == <<job, resync, sub, inbox>>
connVars   == <<phase, at, rx, boot, todo, staged>>
sdkVars    == <<view, seen>>
vars == <<dbVars, serverVars, connVars, sdkVars, faults>>

-----------------------------------------------------------------------------
(***************************************************************************)
(* Data                                                                    *)
(***************************************************************************)

Revision == 0 .. MaxRevision

\* An expanded flag: its data, and the segment rules spliced into it.
Content == [data : Data, seg : Rules \cup {NoSegment}]

\* What is known of one flag, and an event that brings it.
Slot == [val : Content \cup {Absent}, rev : Revision]
Change == [type : {"change"}, key : Flags, val : Content \cup {Absent}, rev : Revision]

Resync == [type |-> "resync"]   \* RESYNC_MESSAGE
Lagged == [type |-> "lagged"]   \* what recv() reports to a slow receiver

\* What the database holds for f: a row, expanded with the segments of the
\* same snapshot, or the tombstone when there is no row.
DbSlot(f) ==
    IF row[f].data # Absent
      THEN [val |-> Expand(row[f].data, segment), rev |-> row[f].rev]
      ELSE [val |-> Absent, rev |-> tomb[f]]

-----------------------------------------------------------------------------
(***************************************************************************)
(* Initial state: an empty environment, nobody connected, no subscriber    *)
(* yet subscribed.                                                         *)
(***************************************************************************)

\* A fault of kind k happens in this step.
Fault(k) == k \in Faults /\ faults > 0 /\ faults' = faults - 1

\* A handler that has the events of S to publish.
Working(pc, S) == [pc |-> pc, todo |-> S, retry |-> {}, draw |-> 0]
NoJob == Working("idle", {})
NoFlags == [f \in Flags |-> Unknown]

NothingUnderWay ==
    /\ tomb = [f \in Flags |-> 0]
    /\ segment = NoSegment
    /\ job = [w \in Writers |-> NoJob]
    /\ resync = [i \in Instances |-> "idle"]
    /\ sub = [i \in Instances |-> "never"]
    /\ inbox = [i \in Instances |-> <<>>]
    /\ phase = [c \in Clients |-> "closed"]
    /\ at = [c \in Clients |-> Nowhere]
    /\ rx = [c \in Clients |-> <<>>]
    /\ boot = [c \in Clients |-> NoFlags]
    /\ todo = [c \in Clients |-> {}]
    /\ staged = [c \in Clients |-> NoFlags]
    /\ view = [c \in Clients |-> NoFlags]
    /\ overtaken = [f \in Flags |-> 0]
    /\ unheard = {}
    /\ seen = [c \in Clients |-> [f \in Flags |-> Stamp(Unknown)]]

Init ==
    /\ NothingUnderWay
    /\ row = [f \in Flags |-> [data |-> Absent, rev |-> 0]]
    /\ seq = 0
    /\ last = [f \in Flags |-> Stamp(Unknown)]
    /\ faults = MaxFaults

-----------------------------------------------------------------------------
(***************************************************************************)
(* Handlers: the transaction                                               *)
(***************************************************************************)

\* The history after a commit that writes f at stamp[f], and publishes it.  The
\* stamps of f tell the order of its commits again when one is above the others.
Committed(stamp) ==
    /\ last' = [f \in Flags |->
                  IF f \in DOMAIN stamp THEN Larger(last[f], stamp[f]) ELSE last[f]]
    /\ overtaken' = [f \in Flags |->
                       IF f \in DOMAIN stamp /\ stamp[f] <= last[f] THEN last[f]
                                                                   ELSE overtaken[f]]
    /\ unheard' = unheard \ DOMAIN stamp

InOrder(f) == last[f] > overtaken[f]

\* A row for f at revision r, and a handler that has to expand it and publish it.
StoreFlag(w, f, d, r) ==
    /\ row' = [row EXCEPT ![f] = [data |-> d, rev |-> r]]
    /\ Committed([g \in {f} |-> 2 * r])
    /\ job' = [job EXCEPT ![w] =
                 Working("expand", {ChangeOf(f, [val |-> Expand(d, NoSegment), rev |-> r])})]
    /\ UNCHANGED <<tomb, segment, resync, sub, inbox, connVars, sdkVars, faults>>

\* An INSERT .. ON CONFLICT computes the revision of the new row, by the default
\* of the column, before it looks for a row to conflict with.
DrawDefault(w) ==
    /\ job[w].pc = "idle"
    /\ seq < MaxRevision
    /\ seq' = seq + 1
    /\ job' = [job EXCEPT ![w] = [Working("insert", {}) EXCEPT !.draw = seq + 1]]
    /\ UNCHANGED <<row, tomb, segment, last, overtaken, unheard, resync, sub, inbox,
                   connVars, sdkVars, faults>>

\* The request is refused (protected environment), or its statement fails.
Rollback(w) ==
    /\ job[w].pc = "insert"
    /\ job' = [job EXCEPT ![w] = NoJob]
    /\ UNCHANGED <<dbVars, resync, sub, inbox, connVars, sdkVars, faults>>

\* Without a row the INSERT keeps the revision drawn at its start, which may be
\* below the tombstone by now.
InsertFlag(w, f, d) ==
    /\ job[w].pc = "insert"
    /\ row[f].data = Absent
    /\ StoreFlag(w, f, d, job[w].draw)
    /\ UNCHANGED seq

\* Mutant of UpdateFlag: no trigger draws a revision.
UpdateFlagSameRevision(w, f, d) ==
    /\ row[f].data # Absent
    /\ StoreFlag(w, f, d, row[f].rev)
    /\ UNCHANGED seq

\* The trigger of the UPDATE of a row draws its revision under the row lock.
UpdateFlag(w, f, d) ==
    /\ row[f].data # Absent
    /\ seq < MaxRevision
    /\ seq' = seq + 1
    /\ StoreFlag(w, f, d, seq + 1)

\* The rest of the INSERT .. ON CONFLICT, and the commit.
UpsertFlag(w, f, d) ==
    \/ InsertFlag(w, f, d)
    \/ job[w].pc = "insert" /\ UpdateFlag(w, f, d)

\* POST flags: creates the flag or replaces it.
CreateFlag(w, f, d) == UpsertFlag(w, f, d)

\* Promotion from another environment: d is what that environment holds for f.
PromoteFlag(w, f, d) == UpsertFlag(w, f, d)

\* PATCH of a flag, directly, by the scheduler or by an approval.
PatchFlag(w, f, d) == job[w].pc = "idle" /\ UpdateFlag(w, f, d)

\* DELETE of a flag.  The trigger records the tombstone and prunes those of
\* more than a day; events are delayed by seconds, so none is in flight for a
\* flag whose tombstone is that old.
InFlight ==
    (UNION {job[w].todo : w \in Writers})
        \cup (UNION {ToSet(inbox[i]) : i \in Instances})
        \cup (UNION {ToSet(rx[c]) : c \in Clients})

EventsOf(f) == {m \in InFlight : m.type = "change" /\ m.key = f}

Prunable(f) == tomb[f] # 0 /\ EventsOf(f) = {}

DeleteFlag(w, f, old) ==
    /\ job[w].pc = "idle"
    /\ row[f].data # Absent
    /\ old \subseteq {g \in Flags \ {f} : Prunable(g)}
    /\ row' = [row EXCEPT ![f] = [data |-> Absent, rev |-> 0]]
    /\ tomb' = [g \in Flags |-> IF g = f THEN Larger(tomb[f], row[f].rev)
                                ELSE IF g \in old THEN 0 ELSE tomb[g]]
    /\ Committed([g \in {f} |-> 2 * row[f].rev + 1])
    /\ job' = [job EXCEPT ![w] =
                 Working("publish", {ChangeOf(f, [val |-> Absent, rev |-> row[f].rev])})]
    /\ UNCHANGED <<segment, seq, resync, sub, inbox, connVars, sdkVars, faults>>

\* Archiving updates the row, so the trigger gives it a new revision, and
\* publishes nothing: data is unchanged, and whoever ignored it still does.
ArchiveFlag(f) ==
    /\ row[f].data # Absent
    /\ seq < MaxRevision
    /\ seq' = seq + 1
    /\ row' = [row EXCEPT ![f].rev = seq + 1]
    /\ last' = [last EXCEPT ![f] = 2 * (seq + 1)]
    /\ overtaken' = [overtaken EXCEPT ![f] = IF InOrder(f) THEN @ ELSE 2 * (seq + 1)]
    /\ UNCHANGED <<tomb, segment, unheard, serverVars, connVars, sdkVars, faults>>

\* Orders in which one UPDATE may visit a set of rows.
Rankings(S) ==
    {r \in [S -> 1 .. Cardinality(S)] : \A f, g \in S : r[f] = r[g] => f = g}

\* A segment write and rerevision_referencing_flags in one transaction, then
\* publish_rebroadcast of the flags expanded inside it.
CommitSegment(w, s) ==
    LET users == {f \in Flags : row[f].data \in Targeted}
        n == Cardinality(users)
    IN  /\ job[w].pc = "idle"
        /\ seq + n <= MaxRevision
        /\ segment' = s
        /\ seq' = seq + n
        /\ \E rank \in Rankings(users) :
             /\ row' = [f \in Flags |->
                          IF f \in users
                            THEN [data |-> row[f].data, rev |-> seq + rank[f]]
                            ELSE row[f]]
             /\ Committed([f \in users |-> 2 * (seq + rank[f])])
             /\ job' = [job EXCEPT ![w] =
                          Working(IF users = {} THEN "idle" ELSE "publish",
                                  {ChangeOf(f, [val |-> Expand(row[f].data, s),
                                                rev |-> seq + rank[f]]) : f \in users})]
        /\ UNCHANGED <<tomb, resync, sub, inbox, connVars, sdkVars, faults>>

\* Mutant of DeleteSegment: the flags that use the segment are left alone.
DeleteSegmentAlone(w) ==
    /\ segment # NoSegment /\ job[w].pc = "idle"
    /\ segment' = NoSegment
    /\ UNCHANGED <<row, tomb, seq, last, overtaken, unheard, serverVars, connVars, sdkVars, faults>>

CreateSegment(w, s) == segment = NoSegment /\ CommitSegment(w, s)
PatchSegment(w, s) == segment # NoSegment /\ CommitSegment(w, s)
DeleteSegment(w) == segment # NoSegment /\ CommitSegment(w, NoSegment)

-----------------------------------------------------------------------------
(***************************************************************************)
(* Handlers: after the commit                                              *)
(***************************************************************************)

\* load_env_segments and expand_flag_with_segments, outside the transaction.
LoadSegments(w) ==
    /\ job[w].pc = "expand"
    /\ job' = [job EXCEPT ![w].pc = "publish",
                          ![w].todo = {[m EXCEPT !.val = Expand(m.val.data, segment)] : m \in @}]
    /\ UNCHANGED <<dbVars, resync, sub, inbox, connVars, sdkVars, faults>>

\* The flags handler w has still to publish.
Unpublished(w) == {m.key : m \in job[w].todo}

\* Clients may never hear, or not in full, of the last change of the flags of S.
Missed(S) ==
    /\ unheard' = unheard \cup S
    /\ UNCHANGED <<row, tomb, segment, seq, last, overtaken>>

\* load_env_segments(..).unwrap_or_default(): an error counts as no segments.
LoadSegmentsFails(w) ==
    /\ Fault("segment_load")
    /\ job[w].pc = "expand"
    /\ job' = [job EXCEPT ![w].pc = "publish"]
    /\ Missed(Unpublished(w))
    /\ UNCHANGED <<resync, sub, inbox, connVars, sdkVars>>

\* Redis hands a published message to the subscriptions that exist.
Published(m) ==
    [i \in Instances |-> IF sub[i] = "up" THEN Append(inbox[i], m) ELSE inbox[i]]

\* Mutant of Push: no capacity.
PushUnbounded(q, m) == Append(q, m)

\* flag_tx.send on instance i: every receiver gets m; one that has fallen
\* RxCapacity behind loses its backlog and is told so.
Push(q, m) ==
    IF q = <<Lagged>> THEN q
    ELSE IF Len(q) < RxCapacity THEN Append(q, m) ELSE <<Lagged>>

Broadcast(i, m) ==
    [c \in Clients |-> IF at[c] = i THEN Push(rx[c], m) ELSE rx[c]]

\* The change handler w is publishing: it retries one before it goes on.
Current(w) == IF job[w].retry = {} THEN job[w].todo ELSE job[w].retry

Finished(w, m) ==
    [job EXCEPT ![w] = Working(IF @.todo = {m} THEN "idle" ELSE "publish", @.todo \ {m})]

\* publish_update: publish_once succeeds.
Publish(w, m) ==
    /\ job[w].pc = "publish"
    /\ m \in Current(w)
    /\ inbox' = Published(m)
    /\ job' = Finished(w, m)
    /\ UNCHANGED <<dbVars, resync, sub, connVars, sdkVars, faults>>

\* publish_update: the first attempt fails, and may have reached Redis.
PublishFails(w, m) ==
    /\ Fault("publish")
    /\ job[w].pc = "publish"
    /\ job[w].retry = {}
    /\ m \in job[w].todo
    /\ inbox' \in {inbox, Published(m)}
    /\ job' = [job EXCEPT ![w].retry = {m}]
    /\ UNCHANGED <<dbVars, resync, sub, connVars, sdkVars>>

\* publish_update: the second attempt fails too.  The event goes to the
\* clients of this instance, and schedule_resync starts the retry loop unless
\* resync_pending says that one is running.
PublishGivesUp(w, m) ==
    /\ Fault("publish")
    /\ job[w].pc = "publish"
    /\ m \in job[w].retry
    /\ inbox' \in {inbox, Published(m)}
    /\ rx' = Broadcast(Home[w], m)
    /\ resync' = [resync EXCEPT ![Home[w]] = IF @ = "idle" THEN "pending" ELSE @]
    /\ job' = Finished(w, m)
    /\ UNCHANGED <<dbVars, sub, phase, at, boot, todo, staged, sdkVars>>

\* The client of the API goes away and the handler is dropped at an await.
AbandonRequest(w) ==
    /\ Fault("cancel")
    /\ job[w].pc # "idle"
    /\ job' = [job EXCEPT ![w] = NoJob]
    /\ Missed(Unpublished(w))
    /\ UNCHANGED <<resync, sub, inbox, connVars, sdkVars>>

-----------------------------------------------------------------------------
(***************************************************************************)
(* Server processes                                                        *)
(***************************************************************************)

\* schedule_resync: one attempt of the loop succeeds.  resync_pending is
\* cleared after that, which is a step of its own where the run looks at it.
ResyncPublish(i) ==
    /\ resync[i] = "pending"
    /\ inbox' = Published(Resync)
    /\ resync' = [resync EXCEPT ![i] = IF "late_clear" \in Faults THEN "sent" ELSE "idle"]
    /\ UNCHANGED <<dbVars, job, sub, connVars, sdkVars, faults>>

ResyncClear(i) ==
    /\ resync[i] = "sent"
    /\ resync' = [resync EXCEPT ![i] = "idle"]
    /\ UNCHANGED <<dbVars, job, sub, inbox, connVars, sdkVars, faults>>

\* An attempt fails, and may have reached Redis; the loop goes on.
ResyncFails(i) ==
    /\ Fault("publish")
    /\ resync[i] = "pending"
    /\ inbox' \in {inbox, Published(Resync)}
    /\ UNCHANGED <<dbVars, job, resync, sub, connVars, sdkVars>>

\* The subscriber task (re)subscribes; all but the first time it resyncs the
\* clients of this instance.
Subscribe(i) ==
    /\ sub[i] # "up"
    /\ sub' = [sub EXCEPT ![i] = "up"]
    /\ rx' = IF sub[i] = "down" THEN Broadcast(i, Resync) ELSE rx
    /\ UNCHANGED <<dbVars, job, resync, inbox, phase, at, boot, todo, staged, sdkVars, faults>>

\* The subscription breaks; what Redis had already pushed into it is lost.
SubscriptionDrops(i) ==
    /\ Fault("subscription")
    /\ sub[i] = "up"
    /\ sub' = [sub EXCEPT ![i] = "down"]
    /\ inbox' = [inbox EXCEPT ![i] = <<>>]
    /\ UNCHANGED <<dbVars, job, resync, connVars, sdkVars>>

\* The subscriber task forwards one payload to the SSE connections.
Forward(i) ==
    /\ inbox[i] # <<>>
    /\ rx' = Broadcast(i, Head(inbox[i]))
    /\ inbox' = [inbox EXCEPT ![i] = Tail(@)]
    /\ UNCHANGED <<dbVars, job, resync, sub, phase, at, boot, todo, staged, sdkVars, faults>>

\* The connections in C are gone, and with them what they had not delivered.
\* The SDK drops a replay that was cut short and keeps its flags.
Closed(C) ==
    /\ phase' = [c \in Clients |-> IF c \in C THEN "closed" ELSE phase[c]]
    /\ rx' = [c \in Clients |-> IF c \in C THEN <<>> ELSE rx[c]]
    /\ boot' = [c \in Clients |-> IF c \in C THEN NoFlags ELSE boot[c]]
    /\ todo' = [c \in Clients |-> IF c \in C THEN {} ELSE todo[c]]
    /\ staged' = [c \in Clients |-> IF c \in C THEN NoFlags ELSE staged[c]]
    /\ at' = [c \in Clients |-> IF c \in C THEN Nowhere ELSE at[c]]

\* The process of instance i dies and starts again: handlers, retry loop,
\* subscription and connections are gone.  A RESYNC that was due stands for any
\* change.
Crash(i) ==
    /\ Fault("crash")
    /\ job' = [w \in Writers |-> IF Home[w] = i THEN NoJob ELSE job[w]]
    /\ resync' = [resync EXCEPT ![i] = "idle"]
    /\ sub' = [sub EXCEPT ![i] = "never"]
    /\ inbox' = [inbox EXCEPT ![i] = <<>>]
    /\ Closed({c \in Clients : at[c] = i})
    /\ Missed(IF resync[i] = "pending" THEN Flags
              ELSE UNION {Unpublished(w) : w \in {v \in Writers : Home[v] = i}})
    /\ UNCHANGED sdkVars

-----------------------------------------------------------------------------
(***************************************************************************)
(* SSE connections and SDK clients                                         *)
(***************************************************************************)

\* sse_handler on instance i, up to flag_tx.subscribe().
Connect(c, i) ==
    /\ phase[c] = "closed"
    /\ sub[i] # "never" \/ "early_connect" \in Faults
    /\ phase' = [phase EXCEPT ![c] = "subscribed"]
    /\ at' = [at EXCEPT ![c] = i]
    /\ UNCHANGED <<dbVars, serverVars, rx, boot, todo, staged, sdkVars, faults>>

\* Mutant of ReadSnapshot: the tombstones are not sent.
ReadSnapshotRowsOnly(c) ==
    LET live == {f \in Flags : row[f].data # Absent} IN
    /\ phase[c] = "subscribed"
    /\ phase' = [phase EXCEPT ![c] = "boot"]
    /\ boot' = [boot EXCEPT ![c] = [f \in Flags |-> IF f \in live THEN DbSlot(f) ELSE Unknown]]
    /\ todo' = [todo EXCEPT ![c] = live]
    /\ staged' = [staged EXCEPT ![c] = NoFlags]
    /\ UNCHANGED <<dbVars, serverVars, at, rx, sdkVars, faults>>

\* sse_handler: the REPEATABLE READ transaction, then "connected", which makes
\* the SDK stage what follows.
ReadSnapshot(c) ==
    /\ phase[c] = "subscribed"
    /\ phase' = [phase EXCEPT ![c] = "boot"]
    /\ boot' = [boot EXCEPT ![c] = [f \in Flags |-> DbSlot(f)]]
    /\ todo' = [todo EXCEPT ![c] = {f \in Flags : DbSlot(f).rev # 0}]
    /\ staged' = [staged EXCEPT ![c] = NoFlags]
    /\ UNCHANGED <<dbVars, serverVars, at, rx, sdkVars, faults>>

\* One "update" of the bootstrap: _applyDelta while a replay is staged.
Replay(c, f) ==
    /\ phase[c] = "boot"
    /\ f \in todo[c]
    /\ staged' = [staged EXCEPT ![c][f] = boot[c][f]]
    /\ todo' = [todo EXCEPT ![c] = @ \ {f}]
    /\ UNCHANGED <<dbVars, serverVars, phase, at, rx, boot, sdkVars, faults>>

\* Mutants of Ready: "ready" before the replay is complete; the connection takes
\* only events from "ready" on.
ReadyEarly(c) ==
    /\ phase[c] = "boot"
    /\ phase' = [phase EXCEPT ![c] = "live"]
    /\ view' = [view EXCEPT ![c] = staged[c]]
    /\ seen' = [seen EXCEPT ![c] = [f \in Flags |-> Larger(@[f], Stamp(staged[c][f]))]]
    /\ staged' = [staged EXCEPT ![c] = NoFlags]
    /\ boot' = [boot EXCEPT ![c] = NoFlags]
    /\ todo' = [todo EXCEPT ![c] = {}]
    /\ UNCHANGED <<dbVars, serverVars, at, rx, faults>>

ReadyThenSubscribe(c) ==
    /\ phase[c] = "boot"
    /\ todo[c] = {}
    /\ phase' = [phase EXCEPT ![c] = "live"]
    /\ view' = [view EXCEPT ![c] = staged[c]]
    /\ seen' = [seen EXCEPT ![c] = [f \in Flags |-> Larger(@[f], Stamp(staged[c][f]))]]
    /\ staged' = [staged EXCEPT ![c] = NoFlags]
    /\ boot' = [boot EXCEPT ![c] = NoFlags]
    /\ rx' = [rx EXCEPT ![c] = <<>>]
    /\ UNCHANGED <<dbVars, serverVars, at, todo, faults>>

\* "ready": _applySnapshot puts the replay in the place of the live flags and
\* of their revisions.
Ready(c) ==
    /\ phase[c] = "boot"
    /\ todo[c] = {}
    /\ phase' = [phase EXCEPT ![c] = "live"]
    /\ view' = [view EXCEPT ![c] = staged[c]]
    /\ seen' = [seen EXCEPT ![c] = [f \in Flags |-> Larger(@[f], Stamp(staged[c][f]))]]
    /\ staged' = [staged EXCEPT ![c] = NoFlags]
    /\ boot' = [boot EXCEPT ![c] = NoFlags]
    /\ UNCHANGED <<dbVars, serverVars, at, rx, todo, faults>>

\* One live "update": _applyDelta drops it if it is stale.
Apply(c, m) ==
    IF IsStale(view[c][m.key], m)
      THEN UNCHANGED sdkVars
      ELSE /\ view' = [view EXCEPT ![c][m.key] = SlotOf(m)]
           /\ seen' = [seen EXCEPT ![c][m.key] = Larger(@, Stamp(SlotOf(m)))]

Receive(c) ==
    /\ phase[c] = "live"
    /\ rx[c] # <<>>
    /\ Head(rx[c]).type = "change"
    /\ Apply(c, Head(rx[c]))
    /\ rx' = [rx EXCEPT ![c] = Tail(@)]
    /\ UNCHANGED <<dbVars, serverVars, phase, at, boot, todo, staged, faults>>

\* A RESYNC or Lagged ends the stream; the SDK will reconnect.
EndStream(c) ==
    /\ phase[c] = "live"
    /\ rx[c] # <<>>
    /\ Head(rx[c]).type # "change"
    /\ Closed({c})
    /\ UNCHANGED <<dbVars, serverVars, sdkVars, faults>>

\* The connection drops at any moment (or the handler fails before it streams).
ConnectionDrops(c) ==
    /\ Fault("connection")
    /\ phase[c] # "closed"
    /\ Closed({c})
    /\ UNCHANGED <<dbVars, serverVars, sdkVars>>

-----------------------------------------------------------------------------
Write(w) ==
    \/ DrawDefault(w) \/ Rollback(w)
    \/ \E f \in Flags, d \in Data :
          CreateFlag(w, f, d) \/ PatchFlag(w, f, d) \/ PromoteFlag(w, f, d)
    \/ \E f \in Flags, old \in SUBSET Flags : DeleteFlag(w, f, old)
    \/ \E s \in Rules : CreateSegment(w, s) \/ PatchSegment(w, s)
    \/ DeleteSegment(w)

Emit(w) ==
    \/ LoadSegments(w)
    \/ LoadSegmentsFails(w)
    \/ \E m \in job[w].todo :
          Publish(w, m) \/ PublishFails(w, m) \/ PublishGivesUp(w, m)

Server(i) ==
    \/ ResyncPublish(i)
    \/ ResyncClear(i)
    \/ ResyncFails(i)
    \/ Subscribe(i)
    \/ SubscriptionDrops(i)
    \/ Forward(i)
    \/ Crash(i)

Client(c) ==
    \/ \E i \in Instances : Connect(c, i)
    \/ ReadSnapshot(c)
    \/ \E f \in Flags : Replay(c, f)
    \/ Ready(c)
    \/ Receive(c)
    \/ EndStream(c)
    \/ ConnectionDrops(c)

Next ==
    \/ \E w \in Writers : Write(w) \/ Emit(w) \/ AbandonRequest(w)
    \/ \E f \in Flags : ArchiveFlag(f)
    \/ \E i \in Instances : Server(i)
    \/ \E c \in Clients : Client(c)

Spec == Init /\ [][Next]_vars

(***************************************************************************)
(* Fairness.  A handler runs to its end; the subscriber task and the RESYNC *)
(* loop retry for ever; the SDK reconnects for ever and reads its stream.   *)
(* An attempt that may fail is attempted again, and faults are finitely     *)
(* many, so it is enough to ask for the attempts that succeed.              *)
(***************************************************************************)
HandlerEnds(w) == WF_vars(LoadSegments(w) \/ \E m \in job[w].todo : Publish(w, m))

InstanceRuns(i) ==
    /\ WF_vars(ResyncPublish(i) \/ ResyncClear(i))
    /\ WF_vars(Subscribe(i))
    /\ WF_vars(Forward(i))

ClientReconnects(c) ==
    WF_vars(\/ \E i \in Instances : Connect(c, i)
            \/ ReadSnapshot(c)
            \/ \E f \in Flags : Replay(c, f)
            \/ Ready(c)
            \/ Receive(c)
            \/ EndStream(c))

Fairness ==
    /\ \A w \in Writers : HandlerEnds(w)
    /\ \A i \in Instances : InstanceRuns(i)
    /\ \A c \in Clients : ClientReconnects(c)

FairSpec == Spec /\ Fairness

-----------------------------------------------------------------------------
(***************************************************************************)
(* Properties                                                              *)
(***************************************************************************)

Message == Change \cup {Resync}
Job == [pc : {"idle", "insert", "expand", "publish"}, todo : SUBSET Change,
        retry : SUBSET Change, draw : Revision]

\* Types of the variables.
TypeOK ==
    /\ row \in [Flags -> [data : Data \cup {Absent}, rev : Revision]]
    /\ tomb \in [Flags -> Revision]
    /\ segment \in Rules \cup {NoSegment}
    /\ seq \in Revision
    /\ job \in [Writers -> Job]
    /\ \A w \in Writers : job[w].pc = "expand" => \A m \in job[w].todo : m.val # Absent
    /\ resync \in [Instances -> {"idle", "pending", "sent"}]
    /\ sub \in [Instances -> {"never", "up", "down"}]
    /\ inbox \in [Instances -> Seq(Message)]
    /\ phase \in [Clients -> {"closed", "subscribed", "boot", "live"}]
    /\ at \in [Clients -> Instances \cup {Nowhere}]
    /\ rx \in [Clients -> Seq(Message \cup {Lagged})]
    /\ \A c \in Clients : Len(rx[c]) <= RxCapacity
    /\ boot \in [Clients -> [Flags -> Slot]]
    /\ todo \in [Clients -> SUBSET Flags]
    /\ staged \in [Clients -> [Flags -> Slot]]
    /\ view \in [Clients -> [Flags -> Slot]]
    /\ faults \in Nat
    /\ last \in [Flags -> Nat]
    /\ overtaken \in [Flags -> Nat]
    /\ unheard \subseteq Flags
    /\ seen \in [Clients -> [Flags -> Nat]]

\* A client never shows a flag in a state older than one it held before: not
\* when events of concurrent handlers arrive out of order or twice, not when a
\* delayed event of a deleted flag arrives, not across reconnections.  (But a
\* flag may be created again at a revision drawn before it was deleted.  Clients
\* are then on their own until they hold a state above all those before it.)
NoTimeTravel ==
    \A c \in Clients, f \in Flags :
        view[c][f].val # Absent /\ seen[c][f] > overtaken[f]
            => Stamp(view[c][f]) = seen[c][f]

\* Whether applying m on top of slot s leaves f as the database has it now.
Repairs(m, f, s) ==
    /\ m.type = "change"
    /\ m.key = f
    /\ ~IsStale(s, m)
    /\ m.val = DbSlot(f).val

\* What the client will have once its bootstrap is complete.
Held(c) == IF phase[c] = "live" THEN view[c] ELSE boot[c]

\* Something under way will bring client c the current state of f: an event
\* not yet published, forwarded or read, or the end of its stream.
OnItsWay(c, f) ==
    \/ sub[at[c]] = "down"
    \/ \E i \in Instances : resync[i] = "pending"
    \/ \E m \in ToSet(rx[c]) \cup ToSet(inbox[at[c]]) :
          m.type # "change" \/ Repairs(m, f, Held(c)[f])
    \/ \E w \in Writers : \E m \in job[w].todo :
          Repairs(IF job[w].pc = "expand"
                    THEN [m EXCEPT !.val = Expand(m.val.data, segment)] ELSE m,
                  f, Held(c)[f])

\* Flags whose last change clients can tell from those before it, and hear of.
Reliable == {f \in Flags : InOrder(f)} \ unheard

\* No change is lost silently: while a client has (or is about to have) an
\* outdated flag on an open stream, something that repairs it is under way.  A
\* crash, an abandoned request or a failure to read the segments harms the flags
\* whose events it drops, and a re-creation at an old revision its flag, until
\* the next change of the flag and no longer.
NothingLost ==
    \A c \in Clients, f \in Reliable :
        phase[c] \in {"boot", "live"}
            => Held(c)[f].val = DbSlot(f).val \/ OnItsWay(c, f)

\* Evaluations never see a part of a bootstrap: on a live connection the flags
\* of a client change one at a time, and otherwise all at once to the snapshot
\* the server read for it.
WholeSnapshots ==
    [][\A c \in Clients : view'[c] # view[c] =>
         \/ phase[c] = "boot" /\ view'[c] = boot[c]
         \/ phase[c] = "live" /\ \E f \in Flags : \A g \in Flags \ {f} :
                                     view'[c][g] = view[c][g]]_vars

\* A revision names one configuration: whoever shows a flag at the revision
\* the database has shows the data the database has, and two clients that show
\* a flag at the same revision show the same data.
RevisionNamesData ==
    \A c \in Clients, f \in Flags :
        LET Agree(v, d, r) == v.val # Absent /\ v.rev = r => v.val.data = d IN
        /\ row[f].data # Absent => Agree(view[c][f], row[f].data, row[f].rev)
        /\ \A b \in Clients :
              view[b][f].val # Absent
                => Agree(view[c][f], view[b][f].val.data, view[b][f].rev)

\* Every instance and every client ends up with the flags of the database, those
\* aside that were last changed below an earlier revision.
InSync ==
    \A c \in Clients, f \in Reliable : view[c][f].val = DbSlot(f).val
Converges == <>[]InSync

-----------------------------------------------------------------------------
(***************************************************************************)
(* Why a client never goes back: the invariants the proof needs.           *)
(***************************************************************************)

\* The history of a flag, while it is in order, ends with its row, or with its
\* tombstone; a flag with neither has no event under way.
HistoryOf(f) ==
    /\ 1 <= last[f] /\ last[f] <= 2 * seq + 1
    /\ overtaken[f] <= last[f]
    /\ IF row[f].data = Absent THEN row[f].rev = 0
                               ELSE row[f].rev # 0 /\ 2 * row[f].rev <= last[f]
    /\ tomb[f] # 0 => 2 * tomb[f] + 1 <= last[f]
    /\ row[f].data = Absent /\ tomb[f] = 0 => EventsOf(f) = {}
    /\ InOrder(f) =>
          /\ row[f].data # Absent => last[f] = 2 * row[f].rev
          /\ row[f].data = Absent /\ tomb[f] # 0 => last[f] = 2 * tomb[f] + 1
HistoryOK == \A f \in Flags : HistoryOf(f)

\* Revisions drawn for rows to come are drawn, each for one handler.
DrawsOK ==
    \A w \in Writers : job[w].pc = "insert" =>
        /\ job[w].draw # 0 /\ job[w].draw <= seq
        /\ \A v \in Writers \ {w} : job[v].pc = "insert" => job[v].draw # job[w].draw

\* Events under way are of committed states.
EventsOK ==
    \A f \in Flags : \A m \in EventsOf(f) : m.rev # 0 /\ Stamp(SlotOf(m)) <= last[f]

\* Nothing older than what client c has held of flag f can get past slot s:
\* a slot with a revision rejects it, one without has nothing coming.
Guards(c, f, s) ==
    IF s.rev # 0
      THEN Stamp(s) >= seen[c][f]
      ELSE /\ row[f].data # Absent => 2 * row[f].rev > seen[c][f]
           /\ \A m \in EventsOf(f) : Stamp(SlotOf(m)) > seen[c][f]

\* What client c has of flag f, or is about to have, is a committed state.
HoldsOK(c, f) ==
    /\ 1 <= seen[c][f] /\ seen[c][f] <= last[f]
    /\ view[c][f].rev = 0 => view[c][f] = Unknown
    /\ Stamp(view[c][f]) <= seen[c][f]
    /\ phase[c] = "boot" =>
          /\ boot[c][f].rev = 0 => boot[c][f] = Unknown
          /\ Stamp(boot[c][f]) <= last[f]

\* The live flags, and the snapshot that will replace them, guard the client.
GuardedOK(c, f) ==
    /\ Guards(c, f, view[c][f])
    /\ view[c][f].rev # 0 => Stamp(view[c][f]) = seen[c][f]
    /\ phase[c] = "boot" => Guards(c, f, boot[c][f])

ClientsOK ==
    \A c \in Clients, f \in Flags :
        HoldsOK(c, f) /\ (seen[c][f] > overtaken[f] => GuardedOK(c, f))

\* What is staged is the part of the snapshot already sent.
ReplayOK ==
    \A c \in Clients, f \in Flags :
        /\ phase[c] = "boot" =>
              staged[c][f] = IF f \in todo[c] THEN Unknown ELSE boot[c][f]
        /\ phase[c] # "boot" => staged[c][f] = Unknown /\ f \notin todo[c]

IInv == TypeOK /\ HistoryOK /\ DrawsOK /\ EventsOK /\ ClientsOK /\ ReplayOK

-----------------------------------------------------------------------------
(***************************************************************************)
(* What the feed promises, in FlagFeed: each client moves along the history *)
(* of each flag, forward only (where the history is in order) and never past *)
(* what is committed.                                                      *)
(***************************************************************************)

\* Where client c is in the history of f: at the state it shows, or, when it
\* shows no flag, no further back than it ever was.
Position ==
    [c \in Clients |-> [f \in Flags |->
        IF view[c][f].val # Absent THEN Stamp(view[c][f]) ELSE seen[c][f]]]

Feed == INSTANCE FlagFeed WITH
            Origin <- Stamp(Unknown), latest <- last, position <- Position

\* The propagation of changes implements the feed.
ImplementsFeed == Feed!Spec

=============================================================================
