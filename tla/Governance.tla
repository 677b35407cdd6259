----------------------------- MODULE Governance -----------------------------
(***************************************************************************)
(* The approval policy of one environment, its change requests and its      *)
(* scheduled changes.  Two kinds of worker apply a recorded patch in a      *)
(* transaction of several statements: a request handler that approves a     *)
(* change request, and the scheduler of each server instance, which claims  *)
(* the due changes one after another.  Both lock                            *)
(*                                                                         *)
(*   - the row of the recorded change, for update;                         *)
(*   - the environment row, for share: a change of policy is exclusive;     *)
(*   - the row of the flag, for update.                                    *)
(*                                                                         *)
(* The other requests are one statement, or a transaction that holds no lock*)
(* another one looks behind (FlagTx), and are one step.                    *)
(***************************************************************************)
EXTENDS Integers, FiniteSets

CONSTANTS
    Flags, Data, Absent, Proposals, None, Requests, Jobs, Users, Admins,
    Nobody,       \* (the constants of ChangeLedger)
    Handlers,     \* request handlers that approve
    Schedulers,   \* the scheduler task of each server instance
    Same,         \* a transaction that has not written the flag
    Unclaimed,    \* a worker that has no recorded change in hand
    Batch,        \* changes a scheduler claims per tick (50 in the code)
    MaxFaults     \* bound: statements that fail for no reason of their own

Workers == Handlers \cup Schedulers
Changes == Requests \cup Jobs

ASSUME JobsAssumption == Jobs \subseteq Nat /\ Batch \in Nat /\ MaxFaults \in Nat
ASSUME MarkersAssumption ==
    /\ Absent \notin Data /\ Same \notin Data \cup {Absent}
    /\ None \notin Proposals
    /\ Nobody \notin Users \cup Workers
    /\ Unclaimed \notin Changes
ASSUME DisjointAssumption ==
    Handlers \cap Schedulers = {} /\ Requests \cap Jobs = {}

VARIABLES
    \* committed
    flag, env, request, job,   \* (the variables of ChangeLedger)
    now,        \* the jobs scheduled_at of which has come are 0 .. now
    backoff,    \* jobs that failed less than 60 seconds ago
    \* locks
    change,     \* change[c]: worker that holds the row of the change
    share,      \* workers that hold the environment row for share
    lock,       \* lock[f]: worker that holds the row of the flag
    \* workers
    pc,         \* pc[w]: its next statement
    who,        \* who[h]: user on whose behalf handler h works
    hand,       \* hand[w]: the change it works on
    new,        \* new[w]: the flag as its transaction has it
    left,       \* left[s]: claims scheduler s may still make in this tick
    during,     \* during[j]: passes that were running when j failed last
    faults      \* statements that have failed for no reason of their own

recorded == <<request, job>>
transactions == <<change, share, lock, pc, hand, new>>
clock == <<now, backoff, during>>
vars == <<flag, env, recorded, clock, transactions, who, left, faults>>

Ledger == INSTANCE ChangeLedger

\* A proposal is for one of the flags, and what it gives is data of a flag.
ASSUME ProposalsAssumption ==
    \A x \in Proposals : x.key \in Flags /\ \A d \in Data : Ledger!Merge(d, x) \in Data

What(c) == IF c \in Requests THEN request[c].what ELSE job[c].what

Init ==
    /\ Ledger!Init
    /\ now = -1
    /\ backoff = {}
    /\ change = [c \in Changes |-> Nobody]
    /\ share = {}
    /\ lock = [f \in Flags |-> Nobody]
    /\ pc = [w \in Workers |-> "idle"]
    /\ who = [h \in Handlers |-> Nobody]
    /\ hand = [w \in Workers |-> Unclaimed]
    /\ new = [w \in Workers |-> Same]
    /\ left = [s \in Schedulers |-> 0]
    /\ during = [j \in Jobs |-> {}]
    /\ faults = 0

-----------------------------------------------------------------------------
(***************************************************************************)
(* Requests of one step                                                    *)
(***************************************************************************)

OneStep == UNCHANGED <<clock, transactions, who, left, faults>>

\* create_flag and promote_flag: the first also in a protected environment,
\* if the flag is not there.
PutFlag(f, d) ==
    /\ lock[f] = Nobody
    /\ Ledger!Put(f, d)
    /\ OneStep

DeleteFlag(f) ==
    /\ flag[f] # Absent
    /\ lock[f] = Nobody
    /\ Ledger!Remove(f)
    /\ OneStep

\* patch_flag in an environment that is not protected.
PatchFlag(x) ==
    /\ lock[x.key] = Nobody
    /\ Ledger!Patch(x)
    /\ OneStep

\* patch_flag in a protected environment: the patch becomes a request, once
\* merge_and_validate has found the flag.
CreateChangeRequest(r, u, x) ==
    /\ flag[x.key] # Absent
    /\ Ledger!OpenRequest(r, u, x)
    /\ OneStep

\* reject_change_request: one UPDATE .. WHERE status = 'pending'.
Reject(r, u) ==
    /\ change[r] = Nobody
    /\ Ledger!Reject(r, u)
    /\ OneStep

\* cancel_change_request: one DELETE .. WHERE status = 'pending'.
Cancel(r, u) ==
    /\ change[r] = Nobody
    /\ Ledger!Cancel(r, u)
    /\ OneStep

\* create_scheduled: a time that is past is refused (but for 30 seconds).
CreateScheduled(j, x) ==
    /\ flag[x.key] # Absent
    /\ j >= now
    /\ Ledger!Schedule(j, x)
    /\ OneStep

\* delete_scheduled: one DELETE .. WHERE executed_at IS NULL.
DeleteScheduled(j) ==
    /\ change[j] = Nobody
    /\ Ledger!Unschedule(j)
    /\ OneStep

\* set_require_approval: one UPDATE of the environment row.
SetRequireApproval(e) ==
    /\ share = {}
    /\ env # e
    /\ Ledger!SetPolicy(e)
    /\ OneStep

\* delete_environment, which takes the flags, requests and jobs with it.  (A
\* transaction that holds one of them and waits for the environment is in a
\* deadlock with it: PostgreSQL ends one of the two.)
DeleteEnvironment ==
    /\ share = {}
    /\ \A c \in Changes : change[c] = Nobody
    /\ \A f \in Flags : lock[f] = Nobody
    /\ env # "deleted"
    /\ Ledger!DeleteEnvironment
    /\ backoff' = {}
    /\ during' = [j \in Jobs |-> {}]
    /\ UNCHANGED <<now, transactions, who, left, faults>>

-----------------------------------------------------------------------------
(***************************************************************************)
(* Applying a recorded change                                              *)
(***************************************************************************)

At(w, s) == pc[w] = s

Goto(w, s) == pc' = [pc EXCEPT ![w] = s]

\* What worker w wrote since the savepoint is undone, and the locks it took
\* since are free; also the end of every transaction.
UndoFlag(w) ==
    /\ share' = share \ {w}
    /\ lock' = [f \in Flags |-> IF lock[f] = w THEN Nobody ELSE lock[f]]
    /\ new' = [new EXCEPT ![w] = Same]

\* The transaction of worker w is over.
EndTransaction(w, s) ==
    /\ UndoFlag(w)
    /\ change' = [change EXCEPT ![hand[w]] = Nobody]
    /\ hand' = [hand EXCEPT ![w] = Unclaimed]
    /\ Goto(w, s)

\* The patch that worker w has applied becomes visible.
CommitFlag(w) == flag' = [flag EXCEPT ![What(hand[w]).key] = new[w]]

\* Mutants of LockPending: the requester reviews; the row is read, not locked.
LockOwn(h, u, r) ==
    /\ At(h, "idle")
    /\ change[r] = Nobody
    /\ request[r].status = "pending"
    /\ change' = [change EXCEPT ![r] = h]
    /\ hand' = [hand EXCEPT ![h] = r]
    /\ who' = [who EXCEPT ![h] = u]
    /\ Goto(h, "environment")
    /\ UNCHANGED <<flag, env, recorded, clock, share, lock, new, left, faults>>

ReadPending(h, u, r) ==
    /\ At(h, "idle")
    /\ request[r].status = "pending" /\ request[r].by # u
    /\ hand' = [hand EXCEPT ![h] = r]
    /\ who' = [who EXCEPT ![h] = u]
    /\ Goto(h, "environment")
    /\ UNCHANGED <<flag, env, recorded, clock, change, share, lock, new, left, faults>>

\* approve_change_request: lock_pending, then the checks on what it returns.
LockPending(h, u, r) ==
    /\ At(h, "idle")
    /\ change[r] = Nobody
    /\ request[r].status = "pending"
    /\ request[r].by # u
    /\ change' = [change EXCEPT ![r] = h]
    /\ hand' = [hand EXCEPT ![h] = r]
    /\ who' = [who EXCEPT ![h] = u]
    /\ Goto(h, "environment")
    /\ UNCHANGED <<flag, env, recorded, clock, share, lock, new, left, faults>>

\* lock_environment: the scheduler gives up if the environment is protected.
LockEnvironment(w) ==
    /\ At(w, "environment")
    /\ w \in Handlers \/ env = "open"
    /\ share' = share \cup {w}
    /\ Goto(w, "flag")
    /\ UNCHANGED <<flag, env, recorded, clock, change, lock, hand, new, who, left, faults>>

\* Mutant of LockFlag: the flag is read without a lock on its row.
ReadFlag(w) ==
    LET x == What(hand[w]) IN
    /\ At(w, "flag")
    /\ flag[x.key] # Absent
    /\ new' = [new EXCEPT ![w] = Ledger!Merge(flag[x.key], x)]
    /\ Goto(w, "mark")
    /\ UNCHANGED <<flag, env, recorded, clock, change, share, lock, hand, who, left, faults>>

\* apply_patch_in_tx: SELECT .. FOR UPDATE, merge_and_validate and UPDATE, all
\* on the row it has locked.
LockFlag(w) ==
    LET x == What(hand[w]) IN
    /\ At(w, "flag")
    /\ flag[x.key] # Absent
    /\ lock[x.key] = Nobody
    /\ lock' = [lock EXCEPT ![x.key] = w]
    /\ new' = [new EXCEPT ![w] = Ledger!Merge(flag[x.key], x)]
    /\ Goto(w, "mark")
    /\ UNCHANGED <<flag, env, recorded, clock, change, share, hand, who, left, faults>>

\* approve_change_request: the request is marked, and the transaction commits.
Approve(h) ==
    LET r == hand[h] IN
    /\ h \in Handlers
    /\ At(h, "mark")
    /\ request' = [request EXCEPT ![r].status = "approved", ![r].reviewer = who[h]]
    /\ CommitFlag(h)
    /\ EndTransaction(h, "idle")
    /\ who' = [who EXCEPT ![h] = Nobody]
    /\ UNCHANGED <<env, job, clock, left, faults>>

\* A flag that is not there, a database error, a dropped request, a deadlock:
\* the transaction of the approval leaves nothing behind.
Rollback(h) ==
    /\ h \in Handlers
    /\ ~At(h, "idle")
    /\ EndTransaction(h, "idle")
    /\ who' = [who EXCEPT ![h] = Nobody]
    /\ UNCHANGED <<flag, env, recorded, clock, left, faults>>

-----------------------------------------------------------------------------
(***************************************************************************)
(* The scheduler                                                           *)
(***************************************************************************)

Due(j) == job[j].status = "pending" /\ j <= now

Eligible(j) == Due(j) /\ j \notin backoff

\* The jobs the claim looks at: those it would have to wait for are skipped.
Claimable == {j \in Jobs : Eligible(j) /\ change[j] = Nobody}

\* A pass of scheduler s is over: until the next tick, it claims nothing.
EndPass(s) ==
    /\ left' = [left EXCEPT ![s] = 0]
    /\ during' = [j \in Jobs |-> during[j] \ {s}]

\* The next scheduled_at has come.
Clock ==
    /\ now + 1 \in Jobs
    /\ now' = now + 1
    /\ UNCHANGED <<flag, env, recorded, backoff, during, transactions, who, left, faults>>

\* Job j failed 60 seconds ago.  A pass is shorter than that: those that were
\* running then have ended.
CoolDown(j) ==
    /\ j \in backoff
    /\ during[j] = {}
    /\ backoff' = backoff \ {j}
    /\ UNCHANGED <<flag, env, recorded, now, during, transactions, who, left, faults>>

\* run: the interval ticks, every 60 seconds, and execute_due starts.
Tick(s) ==
    /\ At(s, "idle")
    /\ left' = [left EXCEPT ![s] = Batch]
    /\ Goto(s, "claim")
    /\ UNCHANGED <<flag, env, recorded, clock, change, share, lock, hand, new, who, faults>>

\* The first due job whose row no other transaction holds.  In the code the batch
\* is one for the jobs of all environments, of which there is one here.
Claim(s) ==
    /\ At(s, "claim")
    /\ left[s] > 0
    /\ \E j \in Claimable :
          /\ \A k \in Claimable : j <= k
          /\ change' = [change EXCEPT ![j] = s]
          /\ hand' = [hand EXCEPT ![s] = j]
    /\ left' = [left EXCEPT ![s] = @ - 1]
    /\ Goto(s, "environment")
    /\ UNCHANGED <<flag, env, recorded, clock, share, lock, new, who, faults>>

\* No job is due, or the batch is done.
PassOver(s) ==
    /\ At(s, "claim")
    /\ left[s] = 0 \/ Claimable = {}
    /\ Goto(s, "idle")
    /\ EndPass(s)
    /\ UNCHANGED <<flag, env, recorded, now, backoff, change, share, lock, hand, new, who, faults>>

\* The job is marked executed in the transaction that changes the flag.
Execute(s) ==
    LET j == hand[s] IN
    /\ s \in Schedulers
    /\ At(s, "mark")
    /\ job' = [job EXCEPT ![j].status = "executed"]
    /\ CommitFlag(s)
    /\ EndTransaction(s, "claim")
    /\ UNCHANGED <<env, request, clock, who, left, faults>>

\* Why a statement of scheduler s must fail.
MustFail(s) ==
    \/ At(s, "environment") /\ env # "open"
    \/ At(s, "flag") /\ flag[What(hand[s]).key] = Absent

\* A statement after the savepoint fails: ROLLBACK TO SAVEPOINT.
Fail(s) ==
    /\ s \in Schedulers
    /\ pc[s] \in {"environment", "flag", "mark"}
    /\ IF MustFail(s)
         THEN UNCHANGED faults
         ELSE faults < MaxFaults /\ faults' = faults + 1
    /\ UndoFlag(s)
    /\ Goto(s, "record")
    /\ UNCHANGED <<flag, env, recorded, clock, change, hand, who, left>>

\* Mutant of RecordFailure: last_attempt_at is not set.
RecordWithoutBackoff(s) ==
    /\ At(s, "record")
    /\ EndTransaction(s, "claim")
    /\ UNCHANGED <<flag, env, recorded, clock, who, left, faults>>

\* The failed attempt is recorded, and the job is left for later.
RecordFailure(s) ==
    LET j == hand[s] IN
    /\ At(s, "record")
    /\ backoff' = backoff \cup {j}
    /\ during' = [during EXCEPT ![j] = {t \in Schedulers : ~At(t, "idle")}]
    /\ EndTransaction(s, "claim")
    /\ UNCHANGED <<flag, env, recorded, now, who, left, faults>>

\* Mutant of AbandonPass: it returns with the transaction still open.
AbandonOpen(s) ==
    /\ s \in Schedulers
    /\ pc[s] \in {"environment", "flag", "mark", "record"}
    /\ faults < MaxFaults
    /\ faults' = faults + 1
    /\ Goto(s, "idle")
    /\ EndPass(s)
    /\ UNCHANGED <<flag, env, recorded, now, backoff, change, share, lock, hand, new, who>>

\* Any other statement fails, or the instance crashes: the pass ends, and the
\* job is as it was.
AbandonPass(s) ==
    /\ s \in Schedulers
    /\ ~At(s, "idle")
    /\ faults < MaxFaults
    /\ faults' = faults + 1
    /\ IF At(s, "claim")
         THEN Goto(s, "idle") /\ UNCHANGED <<change, share, lock, hand, new>>
         ELSE EndTransaction(s, "idle")
    /\ EndPass(s)
    /\ UNCHANGED <<flag, env, recorded, now, backoff, who>>

-----------------------------------------------------------------------------
ApproveSteps(h) == LockEnvironment(h) \/ LockFlag(h) \/ Approve(h) \/ Rollback(h)

Next ==
    \/ \E f \in Flags : DeleteFlag(f) \/ \E d \in Data : PutFlag(f, d)
    \/ \E x \in Proposals :
          \/ PatchFlag(x)
          \/ \E r \in Requests, u \in Users : CreateChangeRequest(r, u, x)
          \/ \E j \in Jobs : CreateScheduled(j, x)
    \/ \E r \in Requests, u \in Users : Reject(r, u) \/ Cancel(r, u)
    \/ \E j \in Jobs : DeleteScheduled(j) \/ CoolDown(j)
    \/ \E e \in {"open", "protected"} : SetRequireApproval(e)
    \/ DeleteEnvironment
    \/ Clock
    \/ \E h \in Handlers :
          \/ \E u \in Users, r \in Requests : LockPending(h, u, r)
          \/ Approve(h) \/ Rollback(h)
    \/ \E w \in Workers : LockEnvironment(w) \/ LockFlag(w)
    \/ \E s \in Schedulers :
          \/ Tick(s) \/ Claim(s) \/ PassOver(s) \/ Execute(s) \/ Fail(s)
          \/ RecordFailure(s) \/ AbandonPass(s)

\* Transactions end (PostgreSQL serves those who wait for a row in turn, and
\* ends that of a connection that is gone), intervals tick, and time passes.
SchedulerRuns(s) ==
    /\ WF_vars(Tick(s))
    /\ WF_vars(Claim(s) \/ PassOver(s))
    /\ WF_vars(LockEnvironment(s) \/ (MustFail(s) /\ Fail(s)))
    /\ SF_vars(LockFlag(s))
    /\ WF_vars(Execute(s))
    /\ WF_vars(RecordFailure(s))

RequestsEnd ==
    /\ \A h \in Handlers : WF_vars(ApproveSteps(h))
    /\ \A j \in Jobs : WF_vars(CoolDown(j))

Fairness == RequestsEnd /\ \A s \in Schedulers : SchedulerRuns(s)

Spec == Init /\ [][Next]_vars

FairSpec == Spec /\ Fairness

-----------------------------------------------------------------------------
(***************************************************************************)
(* Correctness                                                             *)
(***************************************************************************)

Request == [status : {"none", "pending", "approved", "rejected", "cancelled"},
            what : Proposals \cup {None}, by : Users \cup {Nobody},
            reviewer : Users \cup {Nobody}]
Job == [status : {"none", "pending", "executed", "deleted"},
        what : Proposals \cup {None}]

\* The state is of the shape the code keeps it in, and a worker has a recorded
\* change in hand exactly while it is in a transaction.
TypeOK ==
    /\ flag \in [Flags -> Data \cup {Absent}]
    /\ env \in {"open", "protected", "deleted"}
    /\ request \in [Requests -> Request]
    /\ job \in [Jobs -> Job]
    /\ now \in Nat \cup {-1}
    /\ backoff \subseteq Jobs
    /\ change \in [Changes -> Workers \cup {Nobody}]
    /\ share \subseteq Workers
    /\ lock \in [Flags -> Workers \cup {Nobody}]
    /\ pc \in [Workers -> {"idle", "claim", "environment", "flag", "mark", "record"}]
    /\ who \in [Handlers -> Users \cup {Nobody}]
    /\ hand \in [Workers -> Changes \cup {Unclaimed}]
    /\ \A w \in Workers : pc[w] \in {"idle", "claim"} <=> hand[w] = Unclaimed
    /\ new \in [Workers -> Data \cup {Same}]
    /\ left \in [Schedulers -> 0 .. Batch]
    /\ during \in [Jobs -> SUBSET Schedulers]
    /\ faults \in 0 .. MaxFaults

\* Refinement: approvals, rejections, withdrawals, scheduled and direct changes
\* of several instances amount to the ledger's steps (approve_change_request,
\* execute_due and the statements that race with them).
Implements == Ledger!Spec

\* Four eyes: while the environment is protected, an existing flag changes
\* only by the approval of a pending request, by somebody who did not make it,
\* and becomes what it is at that time with the patch applied.
FourEyes ==
    [][\A f \in Flags :
          env = "protected" /\ flag[f] # Absent /\ flag'[f] # flag[f]
          => \/ env' = "deleted"
             \/ \E r \in Requests :
                   /\ request[r].status = "pending" /\ request'[r].status = "approved"
                   /\ request'[r].reviewer \in Users \ {request[r].by}
                   /\ request[r].what.key = f
                   /\ flag'[f] = Ledger!Merge(flag[f], request[r].what)]_vars

\* A worker that has applied a change is the only one who can decide it, and
\* what it has not yet committed is still what committing it should give: the
\* row it claimed, the policy and the flag cannot change behind its back.
NothingBehindTheBack ==
    \A w \in Workers : new[w] # Same =>
        LET c == hand[w] IN
        /\ IF w \in Handlers
             THEN request[c].status = "pending" /\ request[c].by # who[w]
             ELSE job[c].status = "pending" /\ env = "open"
        /\ flag[What(c).key] # Absent
        /\ new[w] = Ledger!Merge(flag[What(c).key], What(c))

\* A due change whose flag is there and whose environment is not protected is
\* not left pending for ever (execute_due), though jobs before it keep failing,
\* if these are fewer than a batch: as many as that, each failing once in 60
\* seconds, may take all of every batch.
DueJobsRun ==
    \A j \in Jobs :
        []<>(\/ ~(Eligible(j) /\ env = "open" /\ flag[job[j].what.key] # Absent)
             \/ Cardinality({k \in Jobs : k < j /\ Due(k)}) >= Batch)
=============================================================================
