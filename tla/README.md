# Checkgate: formal models

TLA+ models of Checkgate, a feature-flag service (Rust server, PostgreSQL,
Redis, SDKs in several languages), with the TLC runs that check them on small
instances and the proofs that TLAPS checks for every instance. All paths below
are relative to the repository.

    tlc -workers 4 -config FlagSync_segments.cfg MCFlagSync.tla   one run
    tlapm FlagTx_proofs.tla                                       one module of proofs

## 1. The system

Several server instances share one PostgreSQL and one Redis. An operator writes
flags and segments through the HTTP API of any instance; applications hold an
SDK that streams the flags of one environment from any instance and evaluates
them locally. The correctness question of the system is whether what the SDKs
evaluate is what the database holds, in the presence of concurrent writers and
of everything that breaks between a commit and an SDK.

| Component | State it keeps | Operations | Hard behaviours | What makes it correct |
|---|---|---|---|---|
| Flag writes (`server/src/api/flags.rs`) | `flags` rows | create-or-replace, patch, promote, archive, delete | concurrent read-modify-write; approval policy read under a lock; post-commit work not in the transaction | no lost patch; a protected environment is not written directly; one commit, one publish |
| Revisions and tombstones (migrations `…_flag_revisions.sql`, `…_flag_tombstones.sql`) | sequence `flag_revision_seq`, `flags.revision`, `flag_tombstones` | trigger on INSERT/UPDATE draws a revision, trigger on DELETE records a tombstone and prunes old ones | the trigger runs before a conflict is known; pruning against late events | successive states of a flag are ordered by revision, unless it is created again at one drawn earlier |
| Segments (`server/src/api/segments.rs`) | `segments` rows | create, patch, delete; re-revision and re-broadcast of the flags that use the segment | scan of the flags against concurrent flag writes; expansion outside the transaction | the newest revision of a flag carries the current rules |
| Propagation (`flags.rs` 988-1078, `main.rs` 290-392) | `resync_pending`, Redis subscription, broadcast channel | publish with one retry, local fallback, RESYNC loop, subscriber task | a publish that fails, or is processed and reported failed; subscriptions that break; reordering | nothing is lost silently; clients converge |
| SSE stream (`server/src/stream.rs`) | one receiver per connection | subscribe, repeatable-read snapshot, ready, live events, RESYNC and lag | changes between subscription and snapshot; a backlog larger than the channel | a connection that is open has, or will get, everything |
| SDK client (`sdks/nodejs/index.js`; web, React Native, Flutter alike) | `_flagCache`, `_revisions`, `_staged` | stage a replay, swap on ready, drop stale events, reconnect, poll, offline cache | late and repeated events, poll answers against the stream | evaluations never go back, never see half a snapshot |
| Governance (`api/change_requests.rs`, `scheduler.rs`, `api/scheduled.rs`, `api/environments.rs` 382-418) | change requests, scheduled changes, the approval policy | request, approve, reject, cancel; schedule, claim and execute due changes; set the policy | approve against cancel and against the policy, several schedulers, savepoints and back-off, a patch applied to a flag that changed since | decided once, applied once, to the flag as it is then; four eyes |
| Accounts (`api/users.rs`, `api/session.rs`, `api/tokens.rs`, `auth.rs`) | users, sessions in cookies, tokens, login attempts, `setup_complete` | first-run setup, login, logout, create and delete users and tokens | check and act in separate statements; the id of a cookie against a row that is gone | an administrator remains, failures are bounded, nobody returns |
| Projects, environments, keys (`api/projects.rs`, `api/environments.rs`, `api/keys.rs`) | their rows, memberships, the default of each project | create, delete, set default, revoke, members | deletions that count first; cascades against inserts that refer to what goes | one project, one environment, one key remains; no orphans; no request reaches another project |
| Evaluator (`core/src/evaluator.rs`) and the stores that hold its flags (`core/src/store.rs`, `sdks/react-native/src/lib.rs`) | flags by key; contexts behind handles | upsert, delete, clear; evaluate a flag with its prerequisites for a user | cycles and depth; other threads change the store during an evaluation; weights and the width of the hash | fails closed, not without reason; variants in proportion to their weights |
| Webhooks and integrations (`notify.rs`, `webhook_fire.rs`, `integrations.rs` and their APIs) | sinks, delivery tasks in memory, a log per sink | fan-out, retry, log and prune; create, patch, delete, test | sinks edited while a task retries; tasks that share a log; crash | who wants an event is told, nobody else is, the log is bounded |
| Edge cache (`edge/src/checkgate-edge.js`) | `_loaded`, `_loadedAt`, the core, `_refreshing` | ensureFresh, refresh | concurrent requests share a refresh, which may fail, last or be cancelled; the age is read before the wait | never an older snapshot, none older than the windows allow, and it catches up |
| Kubernetes operator (`integrations/kubernetes-operator`) | status of a resource | reconcile, finalizer | retries, drift | the flag follows the resource |
| Impressions, events, experiments, audit, rate limit, dashboard, CLI, SSR, Terraform | – | – | – | see `PROJECT.json`, `components` |

`PROJECT.json` lists every component with its sources and status, and under
`hazards` what is hard to test in this code, at its line, with the properties
that cover it.

### How the parts interact

    handler --one transaction--> PostgreSQL        (revision drawn by trigger)
    handler --after the commit--> PUBLISH          (one retry, then local delivery
                                                    and a RESYNC loop)
    Redis --> subscriber task of every instance --> broadcast channel (256)
    broadcast channel --> SSE connection --> SDK    (snapshot first, then events)

Nothing right of the first arrow is transactional. What the code opposes to it:
the revision, which lets an SDK drop what is older than what it holds; the
snapshot each connection starts with, read after the connection subscribed; and
RESYNC (and the lag error of the channel), which end streams so that SDKs take a
new snapshot.

## 2. Plan

In this order, the most important behaviour first.

| Module | Models | Composes | Status |
|---|---|---|---|
| `FlagEvents` | change events, expansion with a segment, the staleness rule of the SDKs | – | done |
| `FlagSync` | writes, revisions, tombstones, segments, publish, RESYNC, subscriber, channel, SSE, streaming SDK | `FlagEvents` | done, proved |
| `FlagFeed` | what an SDK may rely on: a position in each flag's history that only moves forward | implemented by `FlagSync` | done |
| `FlagTx` | the write transactions statement by statement: environment, row and tombstone locks, triggers, conflicts | `FlagEvents`; shows that a transaction may be one step in `FlagSync`, but for the revision an INSERT draws before it waits | done, proved |
| `FlagTable` | what the transactions amount to: requests one after another | implemented by `FlagTx` | done |
| `ChangeLedger` | what policy, change requests and scheduled changes promise: recorded changes, each decided once | implemented by `Governance` | done |
| `Governance` | approvals and the schedulers of several instances, statement by statement, next to every request they race with | `ChangeLedger`; uses what `FlagTx` shows of a flag write | done, proved |
| `Accounts` | setup, login and lockout, users, sessions, tokens | – | done, proved |
| `Workspace` | projects, members, environments, keys | `Accounts` | done, proved |
| `Evaluator` | one flag for one user | – | done |
| `LocalStore` | the store of an SDK, evaluation against it | `Evaluator` | done, proved |
| `SdkClient` | connect and disconnect, stream, polling fallback, offline cache, the snapshot endpoint | abstracts `FlagSync` to a version of the flag set | done, proved |
| `Delivery` | webhooks and integrations | run next to `Governance`, whose events it delivers | done, proved |
| `EdgeCache` | the snapshot of an edge isolate and the requests that share its refresh | run next to `SdkClient` | done, proved |

Abstract specifications: `FlagFeed` for the propagation, `FlagTable` for the
transactions on flags, `ChangeLedger` for governance. Runs stay at one or two flags,
two handlers, one or two instances and clients, a handful of revisions: the races of
this code are between two actors over one flag.

Left over: the Kubernetes operator, whose reconcile loop and finalizer would make a
module of their own (section 9); the CLI and the statistics never were part of the
plan.

## 3. FlagSync: from the commit to the SDK

`FlagSync.tla` models one environment. State and code:

| Variable | Code |
|---|---|
| `row`, `tomb`, `segment`, `seq` | tables `flags`, `flag_tombstones`, `segments`; `flag_revision_seq` |
| `job[w]` | the revision a handler drew for its INSERT (`draw`); what it still has to expand and publish after its commit (`emit_patch`, `publish_rebroadcast`); `retry` is the event whose first attempt failed |
| `resync[i]` | `resync_pending` of an instance and its loop |
| `sub[i]`, `inbox[i]` | the Redis subscription of the subscriber task and what it has not forwarded |
| `phase[c]`, `at[c]`, `rx[c]`, `boot[c]`, `todo[c]` | one SSE connection: `sse_handler`, its broadcast receiver, the snapshot, the part not sent |
| `staged[c]`, `view[c]` | `_staged`; `_flagCache` with `_revisions` |
| `last`, `seen` | history variables: the highest stamp of a committed state of a flag, and of a state a client held |
| `overtaken` | history variable: up to this stamp the stamps of a flag do not tell the order of its commits |
| `unheard` | history variable: flags with a change that a fault may have kept from clients |

Actions are one per step of the code: `DrawDefault` and then `CreateFlag`,
`PromoteFlag` or `Rollback`; `PatchFlag`, `DeleteFlag`, `ArchiveFlag`,
`CreateSegment`, `PatchSegment`, `DeleteSegment` (a transaction each),
`LoadSegments`/`LoadSegmentsFails` (the expansion after the commit), `Publish`/`PublishFails`/`PublishGivesUp` (`publish_update` and its
retry), `ResyncPublish`/`ResyncClear`/`ResyncFails`, `Subscribe`/
`SubscriptionDrops`/`Forward`, `Crash`, `AbandonRequest`, and for a client
`Connect`, `ReadSnapshot`, `Replay`, `Ready`, `Receive`, `EndStream`,
`ConnectionDrops`.

Abstractions. A transaction is one step, which draws its revision under the lock of
the row it updates (`FlagTx` looks inside). An `INSERT .. ON CONFLICT` is two: it
computes the default of the revision column (`DrawDefault`) before it knows of a
conflict, may then wait for other transactions, and inserts a row at that revision
if it finds none (`InsertFlag`). So a flag may be deleted and created again *below*
its tombstone (finding 3), and the properties say what is left in that case. Data
of a flag is a value that does or does not
reference the one segment. A stamp `2 * revision`, plus one for a deletion,
orders the states of a flag. Pruning a tombstone (older than a day) requires that
no event of its flag is under way: the migration's own assumption (its lines
18-19). An SDK is a streaming one.

Faults. The constant `Faults` names what may happen in a run. *Tolerated*
faults are those the code repairs: publishes that fail, subscriptions and
connections that break. *Gaps* are the ones it does not: a crash or a dropped
request between commit and publish, segments that cannot be read after the
commit, a client that streams before the instance first subscribed, and the
interval between the RESYNC publish and the clearing of `resync_pending`. Safety
of the clients (never back) is checked and proved with all of them; `NothingLost` names
the flags a fault may have harmed, until their next change. The two gaps that contradict
what the code says of itself have a run that shows how.

### Properties

* `NoTimeTravel`: a client never shows a flag in an older state than it held. A flag
  that is created again below a state of it that was committed before is the
  exception, and only as long as the client has seen nothing above that state: its
  stamps up to `overtaken` do not say which state is older. In that interval a late
  event of the earlier incarnation does take a client back.
* `NothingLost`: while a client has an outdated flag on an open stream,
  something that repairs it is under way. This is the safety core of
  convergence: it fails as soon as one retry, RESYNC or lag error is missing. It is
  claimed of the flags that are `Reliable`: their last change is above all before
  (a client ignores a flag created again below its tombstone, with no fault at
  all), and no crash, dropped request or failure to read the segments did away with
  its event. The next published change that is above all before makes a flag reliable
  again, and the property is claimed of it again from then on.
* `WholeSnapshots`: a bootstrap becomes visible at once or not at all.
* `RevisionNamesData`: equal revisions mean equal data, for clients and database.
* `Converges`: eventually always, every client has the database's reliable flags.
* `ImplementsFeed`: the propagation implements `FlagFeed`, whose history of a flag has
  the same exception.
* `IInv`, the inductive invariant, is proved and no property of a run: while the
  proof was developed TLC checked it on the instance of `gaps`.

### Runs

| Run | Instance | Properties | Shows |
|---|---|---|---|
| `segments` | 2 data values, the segment there or not, channel of capacity 1, two faults: broken connections, failed publishes, crashes, dropped requests, segments that cannot be read | `NothingLost`, `RevisionNamesData` | local delivery and the RESYNC loop cover a publish that is given up (which takes two faults); the last event of a flag carries the current rules; a revision names one configuration |
| `gaps` | 2 flags, channel of capacity 1, one fault of any kind, tolerated or not | `TypeOK`, `NoTimeTravel`, `ImplementsFeed`, `WholeSnapshots` | whatever is lost, no client goes back or sees half a replay |
| `converges` | 2 server processes, fairness; two initial states (`ConvergesInit`): 1 revision left and 3 faults (tolerated ones, and the late clearing of `resync_pending`); a flag that is there, 2 revisions left, no fault | `Converges` | convergence; with a flag that is changed, deleted and created again, above or below its tombstone |
| `early_connect`, `late_clear` | one gap each | `Converges`, `NothingLost` | *violated*: findings 1 and 2 |

Bounds: `MaxRevision` (1 to 3 revisions: one to replace another is what most races
need, with two a creation can come out below a tombstone, with three a creation can
replace a flag), `MaxFaults` (0 to 4; a publish that is given up needs two, so the run
`gaps`, whose only fault may be one failed attempt, does not get that far),
`RxCapacity` (1 or 2 instead of 256: full after one or two events, so lag happens). `CHECK_DEADLOCK
FALSE`: with the bounds used up and nothing under way the system rests.

Fairness (`Fairness`, used by the runs on `Converges`): a handler runs to its
end (its task is polled until done), the subscriber task and the RESYNC loop are
infinite loops with a delay, the SDK reconnects with a capped back-off for
ever. Only the attempts that succeed are fair, and faults are finite in number:
this says that Redis and the network are eventually back, nothing more.

### Findings

1. `early_connect`: the HTTP server accepts streams before the subscriber task
   subscribed for the first time, and the first subscription sends no RESYNC
   (`main.rs` 323-326).
2. `late_clear`: a publish that fails between the RESYNC publish and the
   clearing of `resync_pending` starts no loop (`flags.rs` 1047-1068).

Two more gaps are known and contradict no text, so no run is spent on them: a
request dropped, or an instance killed, between commit and publish loses the
event (nothing records what was still to publish); and a failure to read the
segments publishes the flag without their rules, at its newest revision
(`unwrap_or_default`, `flags.rs` 395). Both are faults of the runs `gaps` and
`segments`, and what `NothingLost` says is that the harm is confined to the flag and
ends with its next change. Finding 3 (section 4) shows itself here as the exceptions
of the properties.

`PROJECT.json`, `findings`, quotes the text each of them contradicts.

### Proofs

`FlagSync_proofs.tla` proves, for every set of flags (finite), handlers,
instances and clients, every bound and every choice of faults:

* `TypeCorrect`: `Spec => []TypeOK`;
* `Invariant`: `Spec => []IInv`;
* `NeverBack`: `Spec => []NoTimeTravel`;
* `Whole`: `Spec => WholeSnapshots`;
* `Refinement`: `Spec => ImplementsFeed`.

`FlagSync_delivery_proofs.tla` adds

* `OneRevisionOneConfiguration`: `Spec => []RevisionNamesData`;
* `NoChangeLost`: `Spec => []NothingLost`, assuming that neither `early_connect` nor
  `late_clear` is among the faults. All others may happen. The assumption is needed:
  with `late_clear` the run of that name violates the property.

Assumptions are the named ASSUMEs of `FlagSync`: finite set of flags, distinct
markers (`Absent`, `NoSegment`, `Nowhere`), natural bounds, known fault kinds.

Argument. `NoTimeTravel` alone is not inductive: it says nothing of the events
that are under way, nor of the snapshot about to replace the live flags.
`IInv` adds: the history of a flag, where it is in order, ends with its row or
tombstone (`HistoryOK`); revisions drawn for rows to come are drawn, each for one
handler (`DrawsOK`); events under way are of committed states, and there are none for
a flag with neither row nor tombstone (`EventsOK`, and the condition for pruning); what
a client holds, or its snapshot, *guards* it (`Guards`) once it has seen a state above
`overtaken`: either it has a revision that rejects everything older than what the
client has seen, or it has none and nothing older is under way; what is staged is the
part of the snapshot sent so far (`ReplayOK`). The steps fall into four groups with one lemma each: those that
only move events (`QuietStep`, `MovingStep`), commits (`CommitStep`), the
snapshot read, and the client's own steps. The refinement maps the position of a
client to the state it shows, or else to the newest one it held; where the history is
in order, every step leaves it alone or raises it.

`RevisionNamesData` speaks of rows and clients, and follows from `OneDataOK`, which
also has every event under way and every snapshot that is replayed (`Carriers`): a
commit adds one new state, at a revision that nothing has yet (the revision drawn for
an INSERT is not said of anything before it commits), and every other step only moves
what was said.

`NothingLost` follows from `DeliveryInv`. `LatestRight` says of a streaming client
and a reliable flag that the latest state it holds or may still hear, from its
connection, the inbox of its instance or a handler that has still to publish, is what
the database has; `StreamEnds` is the exception, a stream whose end is under way. So an outdated
flag is not the latest heard, and what is later is on its way. `NamesRow` adds that
an event with the revision of the row has the content of the row, `ServersOK` that no
instance streams before it subscribed. The steps that need an argument are those that
take something out of this set: `Publish` and its failures, `Forward`, `Receive`
(which drops what is stale, and so never the latest), and a commit, which makes its
own event the latest, or else the flag is not reliable until one does; a gap takes an
event away, and its flag out of the reliable ones. The latest of a set of states exists because stamps are
bounded, an induction over the naturals that is cited as `WFMin`.

Model-checked only: `Converges` (liveness under fairness is beyond the prover; its safety
half is `NothingLost`) and the violations.

## 4. FlagTx: inside the transactions

`FlagSync` takes the transaction of a handler as one step. `FlagTx.tla` opens
it: every SQL statement is a step, PostgreSQL runs them READ COMMITTED, and what
keeps two of them apart is only the locks the code takes.

| Variable | Code |
|---|---|
| `row`, `tomb`, `segment`, `protected` | the committed `flags`, `flag_tombstones`, `segments` rows and `environments.require_approval` |
| `aged` | the tombstones more than a day old |
| `seq` | `flag_revision_seq`: not transactional, never goes back |
| `req[w]`, `pc[w]` | the request a handler serves and its next statement |
| `env[w]`, `lock[f]`, `tlock[f]` | locks on the environment row (`FOR SHARE`, or exclusive), the flag row, the tombstone |
| `new[w]` | the rows a transaction wrote and has not committed |
| `saw[w]`, `drawn[w]`, `merged[w]`, `todo[w]` | locals of the handler or of the statement: the policy it read, the revision its INSERT drew, the merged flag, the rows an UPDATE has still to visit |
| `out[w]`, `told` | what is to be published; what a client holds that receives every event (history) |
| `done` | the request that committed last (history) |
| `announced[f]` | revision of the last version of a flag to be published (history) |

| Request | Statements |
|---|---|
| create, promote | `LockEnvironment`, `DrawDefault`, then `InsertRow` or `UpdateOnConflict` |
| patch (and the scheduler), approve | `LockEnvironment`, `SelectForUpdate`, `MergePatch`, `UpdateRow` |
| archive, restore | `UpdateRow`; no environment lock, as in `set_archived` |
| delete | `LockEnvironment`, `DeleteRow`, `RecordTombstone`, `PruneTombstone` row by row |
| segment | `LockForSegmentWrite`, `Rerevise` row by row |
| policy | `SetRequireApproval` |

Each ends in `Commit` or, at any statement, in `Rollback` (an error, a missing
row, a policy, a dropped request, a deadlock), then `LoadSegments` and `Publish`.
`WaitsFor` is the lock table: whom the next statement of a handler waits for. An
INSERT draws the revision of its column default before it looks for a conflict
(`DrawDefault`), an UPDATE draws one in the trigger; a patch in a protected
environment becomes a change request and writes no flag; an approval does not
look at the policy. A flag is a record of `Fields`, a patch replaces one.

### Properties and runs

* `Serializable`: the module implements `FlagTable`. Every commit is what its
  request would do alone on the committed state: a patch changes its own field
  only, a protected environment is not written directly, a segment write gives a
  new revision to every flag that uses the segment, and each write of a flag
  raises its revision.
* `Fresh`: when every handler is done, a client that got every event, in
  whatever order they were published, has each flag with the current rules. The
  exception written into it is the flag of finding 3: the client was told of a
  deletion, and no version of the flag that was to be published since has a revision
  above that deletion's (`announced[f] <= told[f].rev`). A flag created again at a
  higher revision must be there.
* `OnlyPrunersDeadlock`: handlers wait for each other in a circle only where
  deletions prune tombstones. This happens: two deletions, each of which renewed
  its own old tombstone, prune that of the other. PostgreSQL aborts one of them.
* `RecreatedHigher`: a flag created again has a revision above its tombstone.

| Run | Instance | Shows |
|---|---|---|
| `serial` | 2 handlers, 1 flag with 2 fields, 1 segment, 3 revisions, every kind of request but promote | `Serializable`, `Fresh` |
| `locks` | 2 handlers, 2 flags, promote, archive, delete, segment, 4 revisions | `OnlyPrunersDeadlock` |
| `recreate` | 2 handlers, 1 flag, create, archive, delete | `RecreatedHigher` *violated*: finding 3 |

`MaxRevision` bounds the revisions drawn: a create and two more writes, each with a
second handler in between, is what the races over one row need. Two handlers suffice
for a lock to be contended and for a circle of waits; circles of three are not
explored (the proofs cover any number of handlers). `CHECK_DEADLOCK FALSE`: with the
revisions used up and nothing under way the system rests. The module claims no
liveness.

Finding 3 (`recreate`): a create draws revision *n* and waits for a transaction
that holds the row; that transaction and a deletion after it draw and record a
higher revision; the create then finds no row and inserts one with revision *n*,
below the tombstone, which SDKs that saw the deletion ignore. `flags.rs` 498-499
says that a later re-create always gets a higher one.

### Proofs

`FlagTx_proofs.tla` proves, for every set of handlers, flags, fields, values,
rules and kinds of request, and every bound:

* `TypeCorrect`: `Spec => []TypeOK`;
* `Invariant`: `Spec => []IInv`;
* `Serial`: `Spec => Serializable`;
* `NoOtherDeadlock`: `Spec => []OnlyPrunersDeadlock`;
* `FreshInTheEnd`: `Spec => []Fresh`.

Assumptions are the named ASSUMEs of `FlagTx`: distinct markers, `Targeted` a set
of flag data, known kinds, a natural bound.

Argument. That a commit is right depends on what its transaction read, possibly
many statements earlier, so the invariant says for each handler what it has
established so far. `EnvironmentOK`: it holds exactly the environment lock its
request needs at this statement, an exclusive one excludes all others, and under
a shared one the policy is still as it was read. `WorkOK`: it holds the row of
every flag it wrote; the merged flag is still the merge of the *committed* flag
(only `SELECT .. FOR UPDATE` gives this); the flags a segment write has re-revised
or has still to visit are those that use the segment (only the exclusive lock
gives this, because every write of the data takes the shared one); at the commit,
`ReadyToCommit`. `RowsOK`: no row has a revision that was not drawn. Each step is
looked at twice: lemmas `Others`, `StatementApart`, `CommitApart`, `RestApart` show
that a step respects the locks of every other handler and therefore keeps its
`WorkOK`; one lemma per statement shows `WorkOK` of the handler that moves. The
refinement then reads the request off `ReadyToCommit` (`CommitRefines`), and every
other step leaves the committed state alone.

`OnlyPrunersDeadlock` needs to know at which statements a lock can be held
(`LocksOK`). Take handlers that all wait for one another, none of them pruning. Who
holds a tombstone prunes or commits, so none of them waits for a tombstone; who
holds a flag row and has to wait is then a segment write, of which there is one at a
time, because its lock on the environment is exclusive; so nobody waits for a row
either, and all of them wait for the lock on an environment, which nobody holds
who waits for it.

`Fresh` is `FreshInv` at the end. `Heard` is what the client holds of a flag and
what handlers have still to tell it, with the rules as they are now; the latest of
it is what the database holds, or the deletion of finding 3, which nothing announced
is above (`LatestRight`), and a
revision that a transaction has drawn is above all that was heard of the flag it
writes (`HeardOK`), which is what fails for an INSERT that drew its revision before
it waited.

Model-checked only: the violation.

## 5. Governance and Delivery

`Governance.tla` models one environment, its policy, its change requests and its
scheduled changes. Whoever applies a recorded patch does so in a transaction of
several statements, each a step: a handler that approves (`LockPending`,
`LockEnvironment`, `LockFlag`, `Approve`, or `Rollback` at any point), and the
scheduler of each instance (`Tick`, `Claim`, `LockEnvironment`, `LockFlag`,
`Execute`; `Fail` rolls back to the savepoint, `RecordFailure` records the
attempt, `AbandonPass` stands for a statement outside the savepoint that fails,
that of the claim included, and for a crash). The other requests are one statement, or a transaction that no
other one looks into (shown by `FlagTx`), and are one step.

| Variable | Code |
|---|---|
| `flag`, `env`, `request`, `job` | rows of `flags`, `environments.require_approval`, `change_requests`, `scheduled_changes` |
| `now`, `backoff`, `during` | which `scheduled_at` have come; jobs with `last_attempt_at` less than 60 s ago; the passes that were running then |
| `change[c]`, `share`, `lock[f]` | row locks on a request or job, `FOR SHARE` on the environment, `FOR UPDATE` on the flag |
| `pc`, `hand`, `new`, `who`, `left` | a worker: next statement, change in hand, the flag as its transaction has it, the reviewer, what is left of the batch |

Properties: `Implements` (the module implements `ChangeLedger`: every change of a
flag is direct and in an open environment, or the one-time application of a
pending change to the flag as it is at that moment); `NothingBehindTheBack` (while
a transaction has written the flag, nothing it relied on can change);
`FourEyes`; `DueJobsRun` (a due job that can be executed is, though jobs before it
fail again and again, if these are fewer than a batch; needs the back-off). Its
exception is real: a job that fails is back after 60 s, which is the interval of the
scheduler, attempts are not limited, and a batch takes the oldest jobs first. So as
many failing jobs as a batch holds (50) may take all of every batch, and whatever is
due after them waits until one of them is cancelled or succeeds. In the code that
batch is shared by the jobs of all environments; the model has one environment, so
that the jobs before one of its own are to be read as those of any.

Fairness: a handler's transaction ends, an interval ticks, PostgreSQL grants a
contended row lock to a waiter that keeps waiting (`SF` on `LockFlag`), 60 seconds
pass. In the run, `MCFairness` asks this of the schedulers that its scenario lets
run. Statements that fail for no reason of their own are not fair and bounded by
`MaxFaults`.

`Delivery.tla` models the sinks of one environment and the tasks that `notify`
spawns: `Query` reads the list once, `Take` one sink after another, `Response`,
`NoResponse`, `Resend`, `LogDelivery`, `PruneLog`; `QueryFails` and `Crash` lose a
task. `WhoWantsIsTried`: when a task is done, every sink that wanted the event all
the time was posted to, whatever the sinks before it did; and no sink is told that
did not want it, at that address, at some moment since the event.
`Notify` fires the events of `SUPPORTED_EVENTS`, which a filter may name, and the one
that is missing there (`Scheduled`; section 8).
`DeliveryTypeOK` holds the bound of the log: what it keeps, plus a row for each
task between its two statements or lost there with its instance (`Unpruned`), and
one for each pruning that failed. The history variables `wanted`, `always` and `tried`
serve these properties only. No liveness
is claimed; a task makes at most `MaxAttempts` requests for each sink of its list,
and the client times each out after 10 s (`main.rs` 396-400).

Run `ledger` (`MCGovernance`) has five small instances, chosen by the initial
state: one request, two handlers, one scheduler with one job; two schedulers with
two jobs; one scheduler with three jobs, of which two are for the same flag and come
before the third, so that failing jobs can fill a batch (`batch`); one event while
one sink is changed (a webhook and two integrations); two events for one sink. Two flags, each on, off or absent (the first job is for the
first one, which loses nothing: they may change places), let the job of one
fail while that of the other is due; `Batch = 2` lets a batch run out, and fill with
failing jobs; one fault; two attempts instead of three and a log of one row instead
of 200, which fills.

### Proofs

`Governance_proofs.tla` proves, for any number of flags, requests, jobs, users,
handlers and schedulers:

* `GovernanceTypeCorrect`: `Spec => []TypeOK`;
* `WorkIsIsolated`: `Spec => []NothingBehindTheBack`;
* `LedgerIsImplemented`: `Spec => Implements`;
* `FourEyesHold`: `Spec => FourEyes`.

Assumptions are the named ASSUMEs of `Governance`: distinct markers, requests and
jobs apart, and `ProposalsAssumption`: a proposal is for one of the flags, and a
patch of a flag is a flag (`merge_and_validate` refuses any other).

Argument. `NothingBehindTheBack` says what holds once the flag is written; the
inductive invariant `Working` says for each worker what it has established at the
statement it is at. `Holds`: the row of the request or job in hand is locked by it,
still pending, and for a handler not its own. `Sharing`: from its second statement
on it shares the lock on the environment, so the policy cannot change, and for a
scheduler the environment is open. `Written`: what it wrote is the patch applied to
the *committed* flag, whose row it has locked. A step of another worker, or a
request of one step, respects these locks (`LeavesAlone`, `AloneOK`); one lemma per
statement shows the rest for the worker that moves. The refinement follows
(`LedgerSteps`): each step is one step of the ledger or leaves its state alone, and
`FourEyes` is read off the ledger (`ApprovedOnly`).

`Delivery_proofs.tla` proves `DeliveryTypeCorrect` and `WhoWantsIsTold`:
`DeliverySpec => []P` for `DeliveryTypeOK` and `WhoWantsIsTried`, for any number of sinks, events, attempts and rows kept, from
`DeliveryAssumption` and `MissingAssumption` (no target is the marker for none).
`Delivering` adds what the history of a task under way says (`Told`): whoever wants
the event now is among those who ever did, whoever always wanted it still does,
the list in its hands holds only the former, and each of the latter has been
posted to, is being posted to or is on the list (`Visits`). The bound on a log
moves with `Unpruned`, the tasks that owe it a pruning: `LogDelivery` adds a row
and a task, `PruneLog` takes the task away and cuts the log, a failure raises
`mishaps`.

Model-checked only: `DueJobsRun`, which is liveness.

## 6. Accounts and Workspace

Every statement of a request is a step, locks are held to the end of the
transaction; the rows are what is committed. A request names its caller first
(`Authenticate`, `Authorize`: `require_auth` and the checks of the handler), and
acts later on what may have changed: `CurrentUser` is the statement that looks the
owner of a token up by email, one before the INSERT or DELETE (`CreateToken`,
`RevokeToken`).

`Accounts`: `user[e]` (the row with email `e`: ids are drawn from a sequence, an
email may be used again), `sessions` (ids in cookies that are held: a cookie is
not revoked when its user is deleted), `tokens`, `attempts` (failures in the
window), `locked` (row locks). `Workspace` adds `project`, `home` (project of an
environment), `defaults`, `keyOf`, `member`, their locks, and `cleared` (defaults
that an uncommitted transaction has cleared). A deletion cascades as the foreign
keys of the migrations say; an insert that refers to a row requires it to be there
and not locked for its deletion, and the deletion of a project waits for whoever
holds the lock on its row.

| Property | Relies on |
|---|---|
| `AdminRemains` | `delete_user` locks every administrator before it counts |
| `FailuresBounded` | concurrent attempts exceed the limit by less than their number: `check_lockout` and `record_failure` are separate statements |
| `NobodyReturns` | `resolve_session` and `resolve_pat` look up the id, not the email |
| `ProjectRemains`, `RevokingLeavesAKey` | deletion and revocation lock all rows before they count |
| `DefaultsDoNotCollide` | `set_default_environment` locks the project row, so the unique index never fails a request |
| `NothingOutlivesItsParent` | foreign keys and cascades |
| `WithinProject` | each handler checks that what it was given belongs to the project the caller may administer |

Run `rows` (`MCAdmin`) has five scenarios of two concurrent requests each: logins
and setups; users and tokens; users and members; projects and environments;
environments and keys. Two handlers, two users, two projects, three environments
and two keys are the least for "both see another one remain". Symmetry in handlers
and ids is sound: they are compared for equality only, and no liveness is checked.
No fairness is assumed.

Finding 4 (`last_environment`): `delete_environment` counts and deletes in two
statements without a lock; two deletions of the last two environments of a project
(neither of them its default: a project may have none) leave it without any.

### Proofs

`Accounts_proofs.tla` proves, for any number of handlers, users, tokens and any
limit, `TypeCorrect`, `AdministratorRemains` (`AdminRemains`), `LockoutHolds`
(`FailuresBounded`) and `DeletedStayAway` (`NobodyReturns`). `Workspace_proofs.tla`
first proves `KeepsAccounts`, `Spec => AccountsSpec`: no handler of projects,
environments or keys changes the accounts, so what is proved of them holds here.
It then proves `WorkspaceTypeCorrect`, `AProjectRemains`, `AKeyIsLeft`,
`NothingIsLeftBehind`, `OneDefaultAtATime` and `StaysWithinProject`: the remaining
properties of the run, for any number of rows and handlers.

Assumptions are the named ASSUMEs of the two modules: `Handlers` is finite and does
not hold the marker `Nobody`, the limit of failures is at least 1, markers of rows
are no rows.

Argument. Each invariant says what a handler has established by the statement it is
at. A deletion of a user that counted has every administrator locked, so that two
of them never stand between count and deletion (`AdminRemains`), and likewise for
projects (`TwoProjects`, `OneDeletes`) and keys (`TwoKeys`, `OneRevokes`): who is
about to delete has two rows of its own locked, and is alone. `FailuresBounded` is
strengthened to failures plus attempts that have passed the check and not failed
yet: a check adds one to the latter below the limit, a failure moves one over.
`DefaultOK` says that who sets a default holds the lock on the project, and that
every other default of it is among those the transaction has cleared.
`NothingOutlivesItsParent` is inductive once the requests under way fit the rows
they hold (`Fits`); where a row may go, and when, is one lemma for all requests
(`Moves`, `Fates`).

Model-checked only: the violation.

## 7. The SDK: Evaluator, LocalStore, SdkClient

`Evaluator` is the pure algorithm of one flag: rules in order, rollout, weighted
variants. Texts are model values with the relations the operators need (`Number`,
`Fits`); a hash is an arbitrary number below `Hashes`. `LocalStore` puts it on the
stack of an evaluation that other threads interrupt: `Descend` reads the next
prerequisite from the store as it is then, `Return` hands its result to the flag
that requires it. `FailsClosed` and `OnIsAnswered` compare the answer with
reference definitions over everything each key held during the evaluation:
`MayBeOn` (a least fixed point, which has no cycle in it) and `MustBeOn`. They say
that an answer "on" is justified, and that what was on all the time, within the
depth limit, is answered to be on. `InProportion` counts the hashes that each
variant gets, for all weights of the instance and totals on either side of the
width of the hash. `RolloutReaches` counts those a rollout reaches: its part of every
hundred, none at 0, all from 100 on.

`SdkClient` is the client of the Node SDK, one action per callback. `FlagSync`
follows single flags through the system; here the flag set is one version number,
and what is followed is the client: an event source that opens, replays and fails;
the reconnection timer; the polling fallback with its generations; the offline
cache; `connect()`, `disconnect()` and restarts of the process. `LiveHoldsSent`:
behind a live stream the client evaluates what the stream has sent, whatever poll or
hydration answers late. `StreamFollowsConnect`: as long as the client is connected
there is a stream, or a timer or an answer of the storage that will open one, also
while it polls (`StreamIsTried`); and after `disconnect()` there is neither stream,
timer nor poll, whatever callbacks are late (`ClosedIsQuiet`). `NeverBackOnceReady`
says which steps may take a ready client back; `ConnectResolves`, `CatchesUp` are
liveness. Fairness: timers fire and callbacks run; an attempt to open a stream ends,
one way or the other; polls and replays succeed infinitely often if tried infinitely
often (`SF`), the stream may also never open.

`EdgeCache` is the cache of one edge isolate: what runs between two callbacks of
JavaScript is one step. `loaded` and `age` are the snapshot in the core and its age
in ticks, `refreshing` is `_refreshing`, `fetches` the requests under way, `request`
where each request is in `ensureFresh()`. `EnsureFresh` waits, serves what is
fresh, or serves what is stale and refreshes behind the request's back, with or
without `waitUntil`; `Warm` is the cron trigger of the worker example; `Load`,
`FetchFails` settle the promise that all who share the refresh wait for; `Cancel` is
the platform ending a refresh that no `waitUntil` keeps, with the request that started
it: a background one (the comment at 166-167) when that request has answered, a
blocking one when its client goes away (`HangUp`).
`NeverOlder`: the core never goes back to an older snapshot, which holds because
concurrent refreshes share one request, and only then: with two fetches under way
the older answer may arrive last. `StaleWithinWindows`: what a request is served was
the server's no longer ago than `Ttl + Swr + MaxFetch + 1` ticks (the age at which
it is too stale, the time a fetch may take, and the tick in which it is looked at;
with one tick less TLC finds a violation), unless it waited for a refresh that
failed. `EdgeCatchesUp`: while requests come, the cache ends up with the server's
flags, unless a refresh was cancelled. Fairness: time passes, callbacks run, a fetch
is answered unless it fails or is cancelled, and failures are finite in number.

Run `client` (`MCClient`): evaluations with three flags, chains and cycles,
`MaxDepth = 2` instead of 10 and one write during the evaluation; shares of variants
over 128 hashes instead of 2^32, with totals from 1 to 401; a client with two
versions of the flag set, three calls of `connect()` and the default threshold of
three failures. An edge cache with two requests and two fetches (the second one is
what a refresh that is not shared needs), windows and fetches of one tick, two
snapshots, two failures. `MaxVersion`, `MaxConnects`, `MaxWrites`, `MaxSnapshot` and
`MaxFailures` bound the counters. `CHECK_DEADLOCK FALSE`: an evaluation that has
used up its writes, or a client that is disconnected for good, rests.

### Proofs

`Client_proofs.tla` proves things of each of the four modules, separately: they
share no variable.

*The edge cache*, for any number of requests and fetches and any windows:
`EdgeTypeCorrect` (`EdgeSpec => []EdgeTypeOK`: one refresh at a time, and whoever
waits, waits for that one), `NeverGoesBack` (`NeverOlder`) and `ServedInTime`
(`StaleWithinWindows`). The invariant `EdgeInv` adds two facts to the types: what is
in the core was read no longer ago than its age and one fetch (`LoadedInTime`), and
an answer under way was read after its fetch was sent and is no older than what it
will replace (`AnsweredInTime`, which needs that there is one refresh at a time).
Assumption: `EdgeAssumption`, natural windows and bounds.

*The client*, for any number of versions, calls of `connect()` and any threshold:
`ClientTypeCorrect`, `StreamIsHeld` (`ClientSpec => []LiveHoldsSent`),
`ClientNeverBack` (`ClientSpec => NeverBackOnceReady`) and `NeverGivesUp`
(`ClientSpec => []StreamFollowsConnect`), the safety half of `ConnectResolves` and
`CatchesUp`: the client can only wait where something is under way that wakes it.
`LiveHoldsSent` is not inductive: the invariant `ClientInv` adds where a version can
come from. A poll that has been answered was answered after all the client holds,
has stored or reads from its storage (`PollOK`); a stream that is up has ended the
polling, and a replay holds what was sent or nothing yet; a closed client has
neither stream nor timer (`StreamOK`). For `NeverGivesUp` the invariant `SessionOK`
adds that who is connected is not closed, and that who is not waits for no storage
whose answer would open a stream. Assumptions: `ThresholdAssumption` and
`NothingAssumption` (the markers are distinct and no version).

*Evaluations*, for any flags and users, any number of threads, any depth limit and
any writes between two steps: `StoreTypeCorrect`, `NothingGetsAround` (`StoreSpec =>
[]FailsClosed`) and `NothingFailsForNothing` (`StoreSpec => []OnIsAnswered`).
Assumptions: `DepthAssumption` and `CatalogAssumption` (prerequisites are a sequence
of flags that may exist; weights are natural numbers, a rollout is one or none).
What one flag decides by itself (`OwnResult`) is left open. `StoreInv` says of each
call on the stack: its flag was under its key at some moment of the evaluation, and
each prerequisite behind it was met by a flag in `MayBeOn` (`FrameOK`); it waits for
the flag above it (`WaitsFor`); and if the key that was asked for is in `MustBeOn`,
it is not refused and its own key has to be on within the depth that is left
(`RunningOK`). A flag that decides joins `MayBeOn` because that set is closed
(`MayBeOnClosed`); a write of another thread only makes `MayBeOn` larger and
`MustBeOn` smaller (`MayBeOnGrows`, `OnWithinShrinks`), and the last fact about the
stack is then restored from its bottom to its top (`Widened`). `OnWithin` is a
recursive function; that it is what its recursion says, and that it shrinks, are
inductions over the depth, by the least counterexample (`LeastIndex`).

*Variants*, for any weights and any number of hashes: `EveryHashPicks` (a hash falls
into the interval of exactly one variant, and that one has a weight: the `CHOOSE` of
`Picked` always finds its variant, and the loop of `pick_weighted_variant` never runs
out) and `VariantsGetTheirShare` (`StoreSpec => []InProportion`). The sums of the
weights are what their recursion says and grow (`CumulativeDef`, `SumsGrow`). While
the total is below the number of hashes, the hashes are whole rounds of the remainder
and a part of one; each round has as many hashes in an interval as it is wide
(`Rounds`, `ShareOfRounds`). From there on, the hashes that are scaled into
an interval are themselves an interval, between two multiples of the total that
are rounded up (`QuotientBelow`, `Ceiling`, `ShareOfScaled`). Assumptions:
`HashesAssumption` and `CatalogAssumption`.

*Rollouts*, for any percentage and any number of hashes: `RolloutsReachTheirPart`
(`StoreSpec => []RolloutReaches`), by the same count of rounds (`ShareOfRounds`),
each a hundred hashes long; and `RampUpKeeps`: a hash that a rollout reaches is
reached by every larger one, with the same value, so that a ramp-up takes nothing
away from anybody (the "sticky" rollouts of the repository's `README.md`, 45).

Model-checked only: the liveness properties, and what `Evaluator` computes for rules and
operators. The type invariants of `SdkClient` and `EdgeCache` are proved and not checked
again by the run, like that of `FlagTx`.

## 8. What the text says and the code does not

Besides the findings, which have a run each, these came up while modelling. They
are differences between a comment or a page of the documentation and the code, or
behaviour that a reader may not expect.

* `session.rs` 28 and 345 say an account is locked for 15 minutes; the window that
  is counted, and forgotten, is 10 minutes.
* `evaluator.rs` 77-78: weights `[60,30,10]` do not give each user the variant that
  `[6,3,1]` gives (the shares agree, the buckets do not); and a total between 2^31
  and 2^32 gives the first variants up to twice their share (`InProportion` has
  the bound that holds).
* An approval of a request whose flag was deleted meanwhile answers 404 and leaves
  the request pending; the migration says an approval always applies cleanly.
* The last key of a workspace is protected against revocation, not against the
  deletion of its environment or project.
* The default environment of a project can be deleted if it becomes the default
  between the first statement of `delete_environment` and the last.
* `create_token` looks its owner up by email after `require_auth` has found the
  caller by id: in between, a user may be deleted and another one given the email.
* `state.rs` 53: the cache of SDK keys is written and read nowhere.
* A scheduled change that is applied fires `flag.scheduled_change_applied` (`flags.rs`
  712), which is not in `SUPPORTED_EVENTS` (`integrations.rs` 18-28, "so the filter UI
  never drifts from what the server actually emits"): an integration cannot choose it,
  and one that has every event ticked is not told.
* Chat alerts: the guide (`chat-alerts.md` 90-91) says that every attempt is
  recorded and that attempts back off by 1, 5 and 15 seconds. One row is written
  for each sink and event, with the final outcome; an answer that is not 2xx is not
  tried again; and after the third attempt there is no other, so the 15 seconds are
  never waited. A test message goes to every enabled integration of the environment
  that wants `flag.updated`, and not to the tested one if it is disabled.
* Node SDK: a stream that connects and drops before "ready" resets the count of
  failures each time, so that polling never starts; `disconnect()` leaves a pending
  `connect()` promise unresolved; the hydration of an earlier `connect()` can put
  cached flags over newer ones until the reopened stream is ready.
* Edge cache: a body that is not JSON makes `refresh()` reject even when a snapshot
  is loaded (every other failure keeps the last known good one);
  `ensureFresh()` hides this. A background refresh that the platform cancels
  never settles, `_refreshing` stays set, and every later request past both windows
  waits for it for ever: the comment (166-167) speaks of the refresh only.
* A scheduler's batch of 50 is shared by all environments, and failing jobs come back
  with every tick (section 5): 50 of them stop every later job of every environment.
* One attribute that is not a string makes the mobile bindings ignore all
  attributes of the user.

## 9. Not modelled

Clients with the legacy unscoped `SDK_KEY`, which see several environments on one
stream, are left out. The network clients of the web, React Native and Flutter
SDKs share the algorithm of the Node SDK, which stands for them. The server keeps
a flag store of its own that it writes and never reads (`architecture.md` 70 and
82-85 describe it as the source of reads). Renaming projects and environments,
their slugs, the change of a password and single sign-on are single statements on
one row. Impressions, events, experiments and the audit log are appended to and
read by reports: their arithmetic is statistics over reals. Rate limiting is one
call into a library. The worker example creates its edge cache on the first request
(`getEdge`, `edge/examples/cloudflare-worker/src/worker.js`); two first requests at once may create two,
which then share nothing: `EdgeCache` is one of them. The CLI, the SSR helper, the Terraform provider and the Go
client keep no state of their own; the dashboard is a user interface. The
Kubernetes operator has behaviour worth a model (a reconcile loop with a finalizer)
and is what the plan has left.
