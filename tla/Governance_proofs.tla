------------------------- MODULE Governance_proofs --------------------------
(***************************************************************************)
(* Proofs about Governance, for any number of flags, requests, jobs, users, *)
(* handlers and schedulers: its types, that nothing changes behind the back *)
(* of a worker that applies a change, that it implements the ledger, and    *)
(* that a protected flag changes by approval only.                         *)
(***************************************************************************)
EXTENDS Governance, TLAPS

-----------------------------------------------------------------------------
(* The ledger: its types, and what it lets happen in a protected environment.*)

Records ==
    /\ flag \in [Flags -> Data \cup {Absent}]
    /\ env \in {"open", "protected", "deleted"}
    /\ request \in [Requests -> Request]
    /\ job \in [Jobs -> Job]
    /\ \A r \in Requests : request[r].status = "pending" => request[r].what \in Proposals
    /\ \A j \in Jobs : job[j].status = "pending" => job[j].what \in Proposals

LEMMA LedgerInit == Ledger!Init => Records
<1> SUFFICES ASSUME Ledger!Init PROVE Records
  OBVIOUS
<1>1. Ledger!NoRequest \in Request /\ Ledger!NoJob \in Job
  BY DEF Ledger!NoRequest, Ledger!NoJob, Request, Job
<1>2. flag \in [Flags -> Data \cup {Absent}] /\ env \in {"open", "protected", "deleted"}
  BY DEF Ledger!Init
<1>3. request \in [Requests -> Request] /\ job \in [Jobs -> Job]
  BY <1>1 DEF Ledger!Init
<1>4. /\ \A r \in Requests : request[r].status # "pending"
      /\ \A j \in Jobs : job[j].status # "pending"
  BY DEF Ledger!Init, Ledger!NoRequest, Ledger!NoJob
<1> QED BY <1>2, <1>3, <1>4 DEF Records

LEMMA ApplyTyped ==
    ASSUME Records, NEW x \in Proposals, Ledger!Apply(x)
    PROVE  flag' \in [Flags -> Data \cup {Absent}]
<1>1. x.key \in Flags /\ flag[x.key] \in Data
  BY ProposalsAssumption DEF Records, Ledger!Apply
<1>2. Ledger!Merge(flag[x.key], x) \in Data
  BY <1>1, ProposalsAssumption
<1> QED BY <1>2 DEF Ledger!Apply, Records

LEMMA LedgerStep ==
    ASSUME Records, [Ledger!Next]_Ledger!vars
    PROVE  Records'
<1>1. ASSUME NEW f \in Flags, Ledger!Remove(f) PROVE Records'
  BY <1>1 DEF Ledger!Remove, Records
<1>2. ASSUME NEW f \in Flags, NEW d \in Data, Ledger!Put(f, d) PROVE Records'
  BY <1>2 DEF Ledger!Put, Records
<1>3. ASSUME NEW x \in Proposals, Ledger!Patch(x) PROVE Records'
  BY <1>3, ApplyTyped DEF Ledger!Patch, Records
<1>4. ASSUME NEW x \in Proposals, NEW r \in Requests, NEW u \in Users, Ledger!OpenRequest(r, u, x)
      PROVE Records'
  <2> DEFINE q == [status |-> "pending", what |-> x, by |-> u, reviewer |-> Nobody]
  <2>1. q \in Request /\ q.what \in Proposals /\ request' = [request EXCEPT ![r] = q]
    BY <1>4 DEF Request, Ledger!OpenRequest
  <2> HIDE DEF q
  <2> QED BY <1>4, <2>1 DEF Ledger!OpenRequest, Records
<1>5. ASSUME NEW x \in Proposals, NEW j \in Jobs, Ledger!Schedule(j, x) PROVE Records'
  <2> DEFINE q == [status |-> "pending", what |-> x]
  <2>1. q \in Job /\ q.what \in Proposals /\ job' = [job EXCEPT ![j] = q]
    BY <1>5 DEF Job, Ledger!Schedule
  <2> HIDE DEF q
  <2> QED BY <1>5, <2>1 DEF Ledger!Schedule, Records
<1>6. ASSUME NEW e \in {"open", "protected"}, Ledger!SetPolicy(e) PROVE Records'
  BY <1>6 DEF Ledger!SetPolicy, Records
<1>7. ASSUME Ledger!DeleteEnvironment PROVE Records'
  <2>1. Ledger!NoRequest \in Request /\ Ledger!NoJob \in Job
        /\ Ledger!NoRequest.status = "none" /\ Ledger!NoJob.status = "none"
    BY DEF Ledger!NoRequest, Ledger!NoJob, Request, Job
  <2> QED BY <1>7, <2>1 DEF Ledger!DeleteEnvironment, Records
\* The status of a request, or of a job, changes from pending to another one.
<1>8. ASSUME NEW r \in Requests, NEW q \in Request, q.status # "pending",
             request' = [request EXCEPT ![r] = q], UNCHANGED <<env, job>>,
             flag' \in [Flags -> Data \cup {Absent}]
      PROVE Records'
  BY <1>8 DEF Records
<1>9. ASSUME NEW r \in Requests, NEW u \in Users, Ledger!Approve(r, u) PROVE Records'
  <2>1. request[r] \in Request /\ request[r].what \in Proposals
    BY <1>9 DEF Ledger!Approve, Records
  <2>2. [request[r] EXCEPT !.status = "approved", !.reviewer = u] \in Request
    BY <2>1 DEF Request
  <2>3. request' = [request EXCEPT ![r] = [request[r] EXCEPT !.status = "approved", !.reviewer = u]]
    BY <1>9 DEF Ledger!Approve, Records
  <2>4. [request[r] EXCEPT !.status = "approved", !.reviewer = u].status # "pending"
    BY <2>1 DEF Request
  <2>5. flag' \in [Flags -> Data \cup {Absent}]
    BY <1>9, <2>1, ApplyTyped DEF Ledger!Approve
  <2> QED BY <1>8, <1>9, <2>2, <2>3, <2>4, <2>5 DEF Ledger!Approve
<1>10. ASSUME NEW r \in Requests, NEW u \in Users, Ledger!Reject(r, u) PROVE Records'
  <2>1. request[r] \in Request /\ flag' \in [Flags -> Data \cup {Absent}]
    BY <1>10 DEF Ledger!Reject, Records
  <2>2. [request[r] EXCEPT !.status = "rejected", !.reviewer = u] \in Request
    BY <2>1 DEF Request
  <2>3. request' = [request EXCEPT ![r] = [request[r] EXCEPT !.status = "rejected", !.reviewer = u]]
    BY <1>10 DEF Ledger!Reject, Records
  <2>4. [request[r] EXCEPT !.status = "rejected", !.reviewer = u].status # "pending"
    BY <2>1 DEF Request
  <2> QED BY <1>8, <1>10, <2>1, <2>2, <2>3, <2>4 DEF Ledger!Reject
<1>11. ASSUME NEW r \in Requests, NEW u \in Users, Ledger!Cancel(r, u) PROVE Records'
  <2>1. request[r] \in Request /\ flag' \in [Flags -> Data \cup {Absent}]
    BY <1>11 DEF Ledger!Cancel, Records
  <2>2. [request[r] EXCEPT !.status = "cancelled"] \in Request
    BY <2>1 DEF Request
  <2>3. request' = [request EXCEPT ![r] = [request[r] EXCEPT !.status = "cancelled"]]
    BY <1>11 DEF Ledger!Cancel, Records
  <2>4. [request[r] EXCEPT !.status = "cancelled"].status # "pending"
    BY <2>1 DEF Request
  <2> QED BY <1>8, <1>11, <2>1, <2>2, <2>3, <2>4 DEF Ledger!Cancel
<1>12. ASSUME NEW j \in Jobs, NEW q \in Job, q.status # "pending",
             job' = [job EXCEPT ![j] = q], UNCHANGED <<env, request>>,
             flag' \in [Flags -> Data \cup {Absent}]
      PROVE Records'
  BY <1>12 DEF Records
<1>13. ASSUME NEW j \in Jobs, Ledger!Unschedule(j) PROVE Records'
  <2>1. job[j] \in Job /\ flag' \in [Flags -> Data \cup {Absent}]
    BY <1>13 DEF Ledger!Unschedule, Records
  <2>2. [job[j] EXCEPT !.status = "deleted"] \in Job
        /\ [job[j] EXCEPT !.status = "deleted"].status # "pending"
    BY <2>1 DEF Job
  <2>3. job' = [job EXCEPT ![j] = [job[j] EXCEPT !.status = "deleted"]]
    BY <1>13 DEF Ledger!Unschedule, Records
  <2> QED BY <1>12, <1>13, <2>1, <2>2, <2>3 DEF Ledger!Unschedule
<1>14. ASSUME NEW j \in Jobs, Ledger!Execute(j) PROVE Records'
  <2>1. job[j] \in Job /\ job[j].what \in Proposals
    BY <1>14 DEF Ledger!Execute, Records
  <2>2. [job[j] EXCEPT !.status = "executed"] \in Job
        /\ [job[j] EXCEPT !.status = "executed"].status # "pending"
    BY <2>1 DEF Job
  <2>3. job' = [job EXCEPT ![j] = [job[j] EXCEPT !.status = "executed"]]
    BY <1>14 DEF Ledger!Execute, Records
  <2>4. flag' \in [Flags -> Data \cup {Absent}]
    BY <1>14, <2>1, ApplyTyped DEF Ledger!Execute
  <2> QED BY <1>12, <1>14, <2>2, <2>3, <2>4 DEF Ledger!Execute
<1>15. ASSUME UNCHANGED Ledger!vars PROVE Records'
  BY <1>15 DEF Ledger!vars, Records
<1> QED
  BY <1>1, <1>2, <1>3, <1>4, <1>5, <1>6, <1>7, <1>9, <1>10, <1>11, <1>13, <1>14, <1>15
     DEF Ledger!Next

\* A flag that is there changes in a protected environment by approval only.
LEMMA ApprovedOnly ==
    ASSUME Records, Ledger!Next, NEW f \in Flags,
           env = "protected", flag[f] # Absent, flag'[f] # flag[f]
    PROVE  \/ env' = "deleted"
           \/ \E r \in Requests :
                 /\ request[r].status = "pending" /\ request'[r].status = "approved"
                 /\ request'[r].reviewer \in Users \ {request[r].by}
                 /\ request[r].what.key = f
                 /\ flag'[f] = Ledger!Merge(flag[f], request[r].what)
<1> DEFINE Goal ==
       \/ env' = "deleted"
       \/ \E r \in Requests :
             /\ request[r].status = "pending" /\ request'[r].status = "approved"
             /\ request'[r].reviewer \in Users \ {request[r].by}
             /\ request[r].what.key = f
             /\ flag'[f] = Ledger!Merge(flag[f], request[r].what)
<1>1. ASSUME NEW g \in Flags, NEW d \in Data, Ledger!Put(g, d) PROVE Goal
  BY <1>1 DEF Ledger!Put, Records
<1>2. ASSUME NEW r \in Requests, NEW u \in Users, Ledger!Approve(r, u) PROVE Goal
  <2> DEFINE x == request[r].what
  <2>1. request[r].status = "pending" /\ u # request[r].by /\ u \in Users
    BY <1>2 DEF Ledger!Approve
  <2>2. request'[r].status = "approved" /\ request'[r].reviewer = u
    BY <1>2 DEF Ledger!Approve, Records, Request
  <2>3. x.key = f /\ flag'[f] = Ledger!Merge(flag[f], x)
    BY <1>2 DEF Ledger!Approve, Ledger!Apply, Records
  <2> QED BY <2>1, <2>2, <2>3
<1>3. ASSUME Ledger!DeleteEnvironment PROVE Goal
  BY <1>3 DEF Ledger!DeleteEnvironment
<1> QED
  BY <1>1, <1>2, <1>3 DEF Ledger!Next, Ledger!Remove, Ledger!Patch, Ledger!OpenRequest,
     Ledger!Schedule, Ledger!SetPolicy, Ledger!Reject, Ledger!Cancel, Ledger!Unschedule,
     Ledger!Execute

-----------------------------------------------------------------------------
(* Workers: what one has established by the statement it is at.            *)

WorkerTypes ==
    /\ now \in Nat \cup {-1}
    /\ backoff \subseteq Jobs
    /\ change \in [Changes -> Workers \cup {Nobody}]
    /\ share \subseteq Workers
    /\ lock \in [Flags -> Workers \cup {Nobody}]
    /\ pc \in [Workers -> {"idle", "claim", "environment", "flag", "mark", "record"}]
    /\ who \in [Handlers -> Users \cup {Nobody}]
    /\ hand \in [Workers -> Changes \cup {Unclaimed}]
    /\ \A w \in Workers : pc[w] \in {"idle", "claim"} <=> hand[w] = Unclaimed
    /\ new \in [Workers -> Data \cup {Same}]
    /\ left \in [Schedulers -> 0 .. Batch]
    /\ during \in [Jobs -> SUBSET Schedulers]
    /\ faults \in 0 .. MaxFaults

\* The change a worker has in hand is one it decides on: it has its row locked.
Holds(w) == hand[w] # Unclaimed =>
    /\ hand[w] \in IF w \in Handlers THEN Requests ELSE Jobs
    /\ change[hand[w]] = w
    /\ IF w \in Handlers
         THEN /\ request[hand[w]].status = "pending"
              /\ who[w] \in Users /\ request[hand[w]].by # who[w]
         ELSE job[hand[w]].status = "pending"

\* From its second statement on, the policy does not change, and for a
\* scheduler it is that the environment is open.
Sharing(w) == pc[w] \in {"flag", "mark"} =>
    w \in share /\ (w \in Handlers \/ env = "open")

\* What it has written is the patch applied to the row it has locked.
Written(w) ==
    LET x == What(hand[w]) IN
    /\ pc[w] = "mark" <=> new[w] # Same
    /\ pc[w] = "mark" => /\ flag[x.key] # Absent /\ lock[x.key] = w
                         /\ new[w] = Ledger!Merge(flag[x.key], x)

WorkerOK(w) == Holds(w) /\ Sharing(w) /\ Written(w)

Working == Records /\ WorkerTypes /\ \A w \in Workers : WorkerOK(w)

LEMMA TypesOfParts == Records /\ WorkerTypes => TypeOK
BY DEF Records, WorkerTypes, TypeOK

\* What a worker has in hand is a proposal for one of the flags.
LEMMA InHand ==
    ASSUME Working, NEW w \in Workers, hand[w] # Unclaimed
    PROVE  /\ What(hand[w]) \in Proposals /\ What(hand[w]).key \in Flags
           /\ w \in Handlers => hand[w] \in Requests /\ What(hand[w]) = request[hand[w]].what
           /\ w \notin Handlers => hand[w] \in Jobs /\ What(hand[w]) = job[hand[w]].what
<1>1. Holds(w) /\ Records
  BY DEF Working, WorkerOK
<1>2. CASE w \in Handlers
  BY <1>1, <1>2, ProposalsAssumption DEF Holds, Records, What
<1>3. CASE w \notin Handlers
  BY <1>1, <1>3, ProposalsAssumption, DisjointAssumption DEF Holds, Records, What
<1> QED BY <1>2, <1>3

\* A step leaves alone what worker w relies on.
LeavesAlone(w) ==
    /\ pc'[w] = pc[w] /\ hand'[w] = hand[w] /\ new'[w] = new[w]
    /\ w \in Handlers => who'[w] = who[w]
    /\ hand[w] # Unclaimed =>
          /\ change'[hand[w]] = change[hand[w]]
          /\ hand[w] \in Requests => request'[hand[w]] = request[hand[w]]
          /\ hand[w] \in Jobs => job'[hand[w]] = job[hand[w]]
    /\ \A f \in Flags : lock[f] = w => lock'[f] = w /\ flag'[f] = flag[f]
    /\ w \in share => w \in share' /\ env' = env

LEMMA AloneOK ==
    ASSUME Working, NEW w \in Workers, LeavesAlone(w)
    PROVE  WorkerOK(w)'
<1>1. Holds(w) /\ Sharing(w) /\ Written(w) /\ WorkerTypes
  BY DEF Working, WorkerOK
<1>2. Holds(w)'
  BY <1>1, DisjointAssumption DEF Holds, LeavesAlone
<1>3. Sharing(w)'
  BY <1>1 DEF Sharing, LeavesAlone
<1>4. ASSUME pc[w] = "mark"
      PROVE  /\ What(hand[w])' = What(hand[w])
             /\ flag'[What(hand[w]).key] = flag[What(hand[w]).key]
             /\ lock'[What(hand[w]).key] = w
  <2>1. hand[w] # Unclaimed
    BY <1>1, <1>4 DEF WorkerTypes
  <2>2. What(hand[w])' = What(hand[w])
    BY <2>1, InHand DEF What, LeavesAlone, Working, WorkerTypes, Changes
  <2> QED BY <1>1, <1>4, <2>1, <2>2, InHand DEF Written, LeavesAlone
<1>5. Written(w)'
  BY <1>1, <1>4 DEF Written, LeavesAlone
<1> QED BY <1>2, <1>3, <1>5 DEF WorkerOK

LEMMA InitWorking == Init => Working
<1> SUFFICES ASSUME Init PROVE Working
  OBVIOUS
<1>1. Records
  BY LedgerInit DEF Init
<1>2. WorkerTypes
  BY JobsAssumption DEF Init, WorkerTypes, Workers
<1>3. \A w \in Workers : WorkerOK(w)
  BY DEF Init, WorkerOK, Holds, Sharing, Written
<1> QED BY <1>1, <1>2, <1>3 DEF Working

\* The transaction of a worker ends: it has nothing in hand, and others keep
\* their locks.
LEMMA EndOK ==
    ASSUME Working, NEW w \in Workers, NEW s \in {"idle", "claim"}, EndTransaction(w, s)
    PROVE  /\ WorkerOK(w)'
           /\ \A v \in Workers \ {w} :
                 /\ pc'[v] = pc[v] /\ hand'[v] = hand[v] /\ new'[v] = new[v]
                 /\ hand[v] # Unclaimed => change'[hand[v]] = change[hand[v]]
                 /\ \A f \in Flags : lock[f] = v => lock'[f] = v
                 /\ v \in share => v \in share'
           /\ change' \in [Changes -> Workers \cup {Nobody}]
           /\ share' \subseteq Workers
           /\ lock' \in [Flags -> Workers \cup {Nobody}]
           /\ pc' \in [Workers -> {"idle", "claim", "environment", "flag", "mark", "record"}]
           /\ hand' \in [Workers -> Changes \cup {Unclaimed}]
           /\ \A v \in Workers : pc'[v] \in {"idle", "claim"} <=> hand'[v] = Unclaimed
           /\ new' \in [Workers -> Data \cup {Same}]
<1>0. WorkerTypes
  BY DEF Working
<1>1. pc'[w] = s /\ hand'[w] = Unclaimed /\ new'[w] = Same
  BY <1>0 DEF EndTransaction, UndoFlag, Goto, WorkerTypes
<1>2. WorkerOK(w)'
  BY <1>1 DEF WorkerOK, Holds, Sharing, Written
<1>3. ASSUME NEW v \in Workers \ {w}
      PROVE  /\ pc'[v] = pc[v] /\ hand'[v] = hand[v] /\ new'[v] = new[v]
             /\ \A f \in Flags : lock[f] = v => lock'[f] = v
             /\ v \in share => v \in share'
  BY <1>0 DEF EndTransaction, UndoFlag, Goto, WorkerTypes
<1>4. ASSUME NEW v \in Workers \ {w}, hand[v] # Unclaimed
      PROVE  change'[hand[v]] = change[hand[v]]
  <2>1. hand[v] \in Changes /\ change[hand[v]] = v
    BY <1>0, <1>4 DEF WorkerTypes, Working, WorkerOK, Holds
  <2>2. hand[w] # hand[v]
    BY <1>4, <2>1 DEF Working, WorkerOK, Holds
  <2> QED BY <1>0, <2>1, <2>2 DEF EndTransaction, WorkerTypes
<1>5. /\ change' \in [Changes -> Workers \cup {Nobody}]
      /\ share' \subseteq Workers
      /\ lock' \in [Flags -> Workers \cup {Nobody}]
      /\ new' \in [Workers -> Data \cup {Same}]
  BY <1>0 DEF EndTransaction, UndoFlag, WorkerTypes
<1>6. /\ pc' \in [Workers -> {"idle", "claim", "environment", "flag", "mark", "record"}]
      /\ hand' \in [Workers -> Changes \cup {Unclaimed}]
  BY <1>0 DEF EndTransaction, Goto, WorkerTypes
<1>7. \A v \in Workers : pc'[v] \in {"idle", "claim"} <=> hand'[v] = Unclaimed
  BY <1>0, <1>1, <1>3 DEF WorkerTypes
<1> QED BY <1>2, <1>3, <1>4, <1>5, <1>6, <1>7

-----------------------------------------------------------------------------
(* Refinement, one step: each is one of the ledger's, or changes no record. *)

LEMMA LedgerSteps ==
    ASSUME Working, [Next]_vars
    PROVE  [Ledger!Next]_Ledger!vars
<1>0. Records /\ WorkerTypes
  BY DEF Working
<1>1. ASSUME NEW f \in Flags, DeleteFlag(f) PROVE Ledger!Next
  BY <1>1 DEF DeleteFlag, Ledger!Next
<1>2. ASSUME NEW f \in Flags, NEW d \in Data, PutFlag(f, d) PROVE Ledger!Next
  BY <1>2 DEF PutFlag, Ledger!Next
<1>3. ASSUME NEW x \in Proposals, PatchFlag(x) PROVE Ledger!Next
  BY <1>3 DEF PatchFlag, Ledger!Next
<1>4. ASSUME NEW x \in Proposals, NEW r \in Requests, NEW u \in Users, CreateChangeRequest(r, u, x)
      PROVE Ledger!Next
  BY <1>4 DEF CreateChangeRequest, Ledger!Next
<1>5. ASSUME NEW x \in Proposals, NEW j \in Jobs, CreateScheduled(j, x) PROVE Ledger!Next
  BY <1>5 DEF CreateScheduled, Ledger!Next
<1>6. ASSUME NEW r \in Requests, NEW u \in Users, Reject(r, u) \/ Cancel(r, u) PROVE Ledger!Next
  BY <1>6 DEF Reject, Cancel, Ledger!Next
<1>7. ASSUME NEW j \in Jobs, DeleteScheduled(j) PROVE Ledger!Next
  BY <1>7 DEF DeleteScheduled, Ledger!Next
<1>8. ASSUME NEW e \in {"open", "protected"}, SetRequireApproval(e) PROVE Ledger!Next
  BY <1>8 DEF SetRequireApproval, Ledger!Next
<1>9. ASSUME DeleteEnvironment PROVE Ledger!Next
  BY <1>9 DEF DeleteEnvironment, Ledger!Next
<1>10. ASSUME NEW w \in Workers, pc[w] = "mark", CommitFlag(w)
       PROVE  Ledger!Apply(What(hand[w])) /\ hand[w] # Unclaimed
  <2>1. hand[w] # Unclaimed /\ Written(w)
    BY <1>0, <1>10 DEF WorkerTypes, Working, WorkerOK
  <2>2. What(hand[w]).key \in Flags
    BY <2>1, InHand
  <2> QED BY <1>0, <1>10, <2>1, <2>2 DEF Written, CommitFlag, Ledger!Apply, Records
<1>11. ASSUME NEW h \in Handlers, Approve(h) PROVE Ledger!Next
  <2>1. h \in Workers /\ pc[h] = "mark" /\ CommitFlag(h)
    BY <1>11 DEF Approve, At, Workers
  <2>2. Ledger!Apply(What(hand[h])) /\ hand[h] # Unclaimed
    BY <1>10, <2>1
  <2>3. hand[h] \in Requests /\ What(hand[h]) = request[hand[h]].what /\ Holds(h)
    BY <2>1, <2>2, InHand DEF Working, WorkerOK
  <2>4. Ledger!Approve(hand[h], who[h]) /\ who[h] \in Users
    BY <1>11, <2>2, <2>3 DEF Approve, Holds, Ledger!Approve
  <2> QED BY <2>3, <2>4 DEF Ledger!Next
<1>12. ASSUME NEW s \in Schedulers, Execute(s) PROVE Ledger!Next
  <2>1. s \in Workers /\ s \notin Handlers /\ pc[s] = "mark" /\ CommitFlag(s)
    BY <1>12, DisjointAssumption DEF Execute, At, Workers
  <2>2. Ledger!Apply(What(hand[s])) /\ hand[s] # Unclaimed
    BY <1>10, <2>1
  <2>3. hand[s] \in Jobs /\ What(hand[s]) = job[hand[s]].what /\ Holds(s) /\ Sharing(s)
    BY <2>1, <2>2, InHand DEF Working, WorkerOK
  <2>4. Ledger!Execute(hand[s])
    BY <1>12, <2>1, <2>2, <2>3 DEF Execute, Holds, Sharing, Ledger!Execute
  <2> QED BY <2>3, <2>4 DEF Ledger!Next
<1>13. ASSUME UNCHANGED <<flag, env, request, job>> PROVE UNCHANGED Ledger!vars
  BY <1>13 DEF Ledger!vars
<1> QED
  BY <1>1, <1>2, <1>3, <1>4, <1>5, <1>6, <1>7, <1>8, <1>9, <1>11, <1>12, <1>13
     DEF Next, vars, recorded, LockPending, LockEnvironment, LockFlag, Rollback, Tick, Claim,
         PassOver, Fail, RecordFailure, AbandonPass, Clock, CoolDown

-----------------------------------------------------------------------------
(* The workers' invariant, one action at a time.                           *)

\* A request of one step takes none of the workers' locks: it must leave
\* alone the rows that are locked.
LEMMA OneStepAlone ==
    ASSUME Working, OneStep, NEW w \in Workers,
           \A f \in Flags : lock[f] # Nobody => flag'[f] = flag[f],
           share # {} => env' = env,
           \A r \in Requests : change[r] # Nobody => request'[r] = request[r],
           \A j \in Jobs : change[j] # Nobody => job'[j] = job[j]
    PROVE  LeavesAlone(w)
<1>1. Holds(w) /\ w # Nobody
  BY MarkersAssumption DEF Working, WorkerOK
<1>2. UNCHANGED <<change, share, lock, pc, hand, new, who>>
  BY DEF OneStep, transactions
<1>3. hand[w] # Unclaimed => change[hand[w]] # Nobody
  BY <1>1 DEF Holds
<1> QED BY <1>1, <1>2, <1>3 DEF LeavesAlone

LEMMA OneStepTypes == WorkerTypes /\ OneStep => WorkerTypes'
BY DEF WorkerTypes, OneStep, transactions, clock

\* A row that is locked is that of a change that is pending.
LEMMA LockedPending ==
    ASSUME Working, NEW w \in Workers
    PROVE  /\ \A r \in Requests : hand[w] = r => request[r].status = "pending"
           /\ \A j \in Jobs : hand[w] = j => job[j].status = "pending"
<1>1. Holds(w)
  BY DEF Working, WorkerOK
<1> QED BY <1>1, MarkersAssumption, DisjointAssumption DEF Holds, Changes

\* A new request, or job, is one that no worker has in hand.
LEMMA OneStepNew ==
    ASSUME Working, OneStep, NEW w \in Workers, UNCHANGED <<flag, env>>,
           \A r \in Requests : request[r].status = "pending" => request'[r] = request[r],
           \A j \in Jobs : job[j].status = "pending" => job'[j] = job[j]
    PROVE  LeavesAlone(w)
<1>1. UNCHANGED <<change, share, lock, pc, hand, new, who>>
  BY DEF OneStep, transactions
<1> QED BY <1>1, LockedPending DEF LeavesAlone

LEMMA OneStepWorks ==
    ASSUME Working, OneStep, Records', \A w \in Workers : LeavesAlone(w)
    PROVE  Working'
BY OneStepTypes, AloneOK DEF Working

LEMMA RequestsWork ==
    ASSUME Working, Records',
           \/ \E f \in Flags : DeleteFlag(f) \/ \E d \in Data : PutFlag(f, d)
           \/ \E x \in Proposals :
                 \/ PatchFlag(x)
                 \/ \E r \in Requests, u \in Users : CreateChangeRequest(r, u, x)
                 \/ \E j \in Jobs : CreateScheduled(j, x)
           \/ \E r \in Requests, u \in Users : Reject(r, u) \/ Cancel(r, u)
           \/ \E j \in Jobs : DeleteScheduled(j)
           \/ \E e \in {"open", "protected"} : SetRequireApproval(e)
    PROVE  Working'
<1>0. Records
  BY DEF Working
<1>1. ASSUME NEW f \in Flags, DeleteFlag(f) \/ \E d \in Data : PutFlag(f, d) PROVE Working'
  <2>1. OneStep /\ UNCHANGED <<env, request, job>>
        /\ \A g \in Flags : lock[g] # Nobody => flag'[g] = flag[g]
    BY <1>0, <1>1 DEF DeleteFlag, PutFlag, Ledger!Remove, Ledger!Put, Records
  <2> QED BY <2>1, OneStepAlone, OneStepWorks
<1>2. ASSUME NEW x \in Proposals, PatchFlag(x) PROVE Working'
  <2>1. OneStep /\ UNCHANGED <<env, request, job>>
        /\ \A g \in Flags : lock[g] # Nobody => flag'[g] = flag[g]
    BY <1>0, <1>2 DEF PatchFlag, Ledger!Patch, Ledger!Apply, Records
  <2> QED BY <2>1, OneStepAlone, OneStepWorks
<1>3. ASSUME NEW x \in Proposals, NEW r \in Requests, NEW u \in Users, CreateChangeRequest(r, u, x)
      PROVE Working'
  <2>1. OneStep /\ UNCHANGED <<flag, env, job>>
        /\ \A q \in Requests : request[q].status = "pending" => request'[q] = request[q]
    BY <1>0, <1>3 DEF CreateChangeRequest, Ledger!OpenRequest, Records
  <2> QED BY <2>1, OneStepNew, OneStepWorks
<1>4. ASSUME NEW x \in Proposals, NEW j \in Jobs, CreateScheduled(j, x) PROVE Working'
  <2>1. OneStep /\ UNCHANGED <<flag, env, request>>
        /\ \A k \in Jobs : job[k].status = "pending" => job'[k] = job[k]
    BY <1>0, <1>4 DEF CreateScheduled, Ledger!Schedule, Records
  <2> QED BY <2>1, OneStepNew, OneStepWorks
<1>5. ASSUME NEW r \in Requests, NEW u \in Users, Reject(r, u) \/ Cancel(r, u) PROVE Working'
  <2>1. OneStep /\ UNCHANGED <<flag, env, job>>
        /\ \A q \in Requests : change[q] # Nobody => request'[q] = request[q]
    BY <1>0, <1>5 DEF Reject, Cancel, Ledger!Reject, Ledger!Cancel, Records
  <2> QED BY <2>1, OneStepAlone, OneStepWorks
<1>6. ASSUME NEW j \in Jobs, DeleteScheduled(j) PROVE Working'
  <2>1. OneStep /\ UNCHANGED <<flag, env, request>>
        /\ \A k \in Jobs : change[k] # Nobody => job'[k] = job[k]
    BY <1>0, <1>6 DEF DeleteScheduled, Ledger!Unschedule, Records
  <2> QED BY <2>1, OneStepAlone, OneStepWorks
<1>7. ASSUME NEW e \in {"open", "protected"}, SetRequireApproval(e) PROVE Working'
  <2>1. OneStep /\ UNCHANGED <<flag, request, job>> /\ share = {}
    BY <1>7 DEF SetRequireApproval, Ledger!SetPolicy
  <2> QED BY <2>1, OneStepAlone, OneStepWorks
<1> QED BY <1>1, <1>2, <1>3, <1>4, <1>5, <1>6, <1>7

\* The environment goes while no worker holds a lock: none has a change in
\* hand.
LEMMA DeletionWorks ==
    ASSUME Working, Records', DeleteEnvironment
    PROVE  Working'
<1>1. UNCHANGED <<now, change, share, lock, pc, hand, new, who, left, faults>>
      /\ backoff' = {} /\ during' = [j \in Jobs |-> {}]
  BY DEF DeleteEnvironment, transactions
<1>2. WorkerTypes'
  BY <1>1 DEF Working, WorkerTypes
<1>3. ASSUME NEW w \in Workers PROVE LeavesAlone(w)
  <2>1. w # Nobody /\ hand[w] \in Changes \cup {Unclaimed} /\ Holds(w)
    BY MarkersAssumption DEF Working, WorkerTypes, WorkerOK
  <2>2. hand[w] = Unclaimed
    BY <2>1 DEF Holds, DeleteEnvironment
  <2> QED BY <1>1, <2>1, <2>2 DEF LeavesAlone, DeleteEnvironment
<1> QED BY <1>2, <1>3, AloneOK DEF Working

LEMMA TimeWorks ==
    ASSUME Working, Records', Clock \/ \E j \in Jobs : CoolDown(j)
    PROVE  Working'
<1>1. UNCHANGED <<flag, env, request, job, change, share, lock, pc, hand, new, who>>
  BY DEF Clock, CoolDown, transactions, recorded
<1>2. WorkerTypes'
  BY <1>1, JobsAssumption DEF Working, WorkerTypes, Clock, CoolDown
<1>3. \A w \in Workers : LeavesAlone(w)
  BY <1>1 DEF LeavesAlone
<1> QED BY <1>2, <1>3, AloneOK DEF Working

\* A worker locks the row of a pending change that no other has in hand.
LEMMA TakesAlone ==
    ASSUME Working, NEW w \in Workers, NEW c \in Changes, change[c] = Nobody,
           hand[w] = Unclaimed,
           change' = [change EXCEPT ![c] = w],
           hand' = [hand EXCEPT ![w] = c],
           pc' = [pc EXCEPT ![w] = "environment"],
           UNCHANGED <<flag, env, request, job, share, lock, new>>,
           \A h \in Handlers : h # w => who'[h] = who[h],
           NEW v \in Workers, v # w
    PROVE  LeavesAlone(v)
<1>1. WorkerTypes /\ Holds(v) /\ v # Nobody
  BY MarkersAssumption DEF Working, WorkerOK
<1>2. hand[v] # Unclaimed => hand[v] # c /\ hand[v] \in Changes
  BY <1>1 DEF Holds, WorkerTypes
<1>3. pc'[v] = pc[v] /\ hand'[v] = hand[v] /\ new'[v] = new[v]
  BY <1>1 DEF WorkerTypes
<1>4. hand[v] # Unclaimed => change'[hand[v]] = change[hand[v]]
  BY <1>1, <1>2 DEF WorkerTypes
<1> QED BY <1>3, <1>4 DEF LeavesAlone

LEMMA LockPendingWorks ==
    ASSUME Working, Records', NEW h \in Handlers, NEW u \in Users, NEW r \in Requests,
           LockPending(h, u, r)
    PROVE  Working'
<1>1. WorkerTypes /\ WorkerOK(h) /\ h \in Workers /\ r \in Changes
  BY DEF Working, Workers, Changes
<1>2. /\ pc[h] = "idle" /\ change[r] = Nobody /\ hand[h] = Unclaimed
      /\ request[r].status = "pending" /\ request[r].by # u
      /\ change' = [change EXCEPT ![r] = h] /\ hand' = [hand EXCEPT ![h] = r]
      /\ who' = [who EXCEPT ![h] = u] /\ pc' = [pc EXCEPT ![h] = "environment"]
      /\ UNCHANGED <<flag, env, request, job, now, backoff, during, share, lock, new, left, faults>>
  BY <1>1 DEF LockPending, At, Goto, WorkerTypes, recorded, clock
<1>3. ASSUME NEW v \in Workers, v # h PROVE WorkerOK(v)'
  BY <1>1, <1>2, <1>3, TakesAlone, AloneOK DEF WorkerTypes
<1>4. WorkerOK(h)'
  <2>1. pc'[h] = "environment" /\ hand'[h] = r /\ change'[r] = h /\ who'[h] = u /\ new'[h] = Same
    BY <1>1, <1>2 DEF WorkerTypes, WorkerOK, Written
  <2> QED BY <1>2, <2>1 DEF WorkerOK, Holds, Sharing, Written
<1>5. WorkerTypes'
  <2>1. r # Unclaimed
    BY <1>1, MarkersAssumption
  <2> QED BY <1>1, <1>2, <2>1 DEF WorkerTypes
<1> QED BY <1>3, <1>4, <1>5 DEF Working

LEMMA ClaimWorks ==
    ASSUME Working, Records', NEW s \in Schedulers, Claim(s)
    PROVE  Working'
<1>1. WorkerTypes /\ WorkerOK(s) /\ s \in Workers /\ s \notin Handlers
  BY DisjointAssumption DEF Working, Workers
<1>2. PICK j \in Jobs :
         /\ pc[s] = "claim" /\ change[j] = Nobody /\ hand[s] = Unclaimed
         /\ job[j].status = "pending" /\ left[s] > 0
         /\ change' = [change EXCEPT ![j] = s] /\ hand' = [hand EXCEPT ![s] = j]
         /\ pc' = [pc EXCEPT ![s] = "environment"] /\ left' = [left EXCEPT ![s] = @ - 1]
         /\ UNCHANGED <<flag, env, request, job, now, backoff, during, share, lock, new, who, faults>>
  BY <1>1 DEF Claim, Claimable, Eligible, Due, At, Goto, WorkerTypes, recorded, clock
<1>3. ASSUME NEW v \in Workers, v # s PROVE WorkerOK(v)'
  BY <1>1, <1>2, <1>3, TakesAlone, AloneOK DEF WorkerTypes, Changes
<1>4. WorkerOK(s)'
  <2>1. pc'[s] = "environment" /\ hand'[s] = j /\ change'[j] = s /\ new'[s] = Same
    BY <1>1, <1>2 DEF WorkerTypes, WorkerOK, Written, Changes
  <2> QED BY <1>1, <1>2, <2>1 DEF WorkerOK, Holds, Sharing, Written
<1>5. WorkerTypes'
  <2>1. j # Unclaimed /\ j \in Changes
    BY MarkersAssumption DEF Changes
  <2>2. left' \in [Schedulers -> 0 .. Batch]
    BY <1>1, <1>2, JobsAssumption DEF WorkerTypes
  <2> QED BY <1>1, <1>2, <2>1, <2>2 DEF WorkerTypes
<1> QED BY <1>3, <1>4, <1>5 DEF Working

LEMMA LockEnvironmentWorks ==
    ASSUME Working, Records', NEW w \in Workers, LockEnvironment(w)
    PROVE  Working'
<1>1. WorkerTypes /\ WorkerOK(w)
  BY DEF Working
<1>2. /\ pc[w] = "environment" /\ (w \in Handlers \/ env = "open")
      /\ share' = share \cup {w} /\ pc' = [pc EXCEPT ![w] = "flag"]
      /\ UNCHANGED <<flag, env, request, job, now, backoff, during, change, lock, hand, new, who, left, faults>>
  BY DEF LockEnvironment, At, Goto, recorded, clock
<1>3. ASSUME NEW v \in Workers, v # w PROVE WorkerOK(v)'
  <2>1. LeavesAlone(v)
    BY <1>1, <1>2, <1>3 DEF LeavesAlone, WorkerTypes
  <2> QED BY <2>1, AloneOK
<1>4. WorkerOK(w)'
  <2>1. pc'[w] = "flag" /\ new'[w] = Same
    BY <1>1, <1>2 DEF WorkerTypes, WorkerOK, Written
  <2> QED BY <1>1, <1>2, <2>1 DEF WorkerOK, Holds, Sharing, Written
<1>5. WorkerTypes'
  BY <1>1, <1>2 DEF WorkerTypes
<1> QED BY <1>3, <1>4, <1>5 DEF Working

LEMMA LockFlagWorks ==
    ASSUME Working, Records', NEW w \in Workers, LockFlag(w)
    PROVE  Working'
<1> DEFINE x == What(hand[w])
<1>1. Records /\ WorkerTypes /\ WorkerOK(w)
  BY DEF Working
<1>2. /\ pc[w] = "flag" /\ flag[x.key] # Absent /\ lock[x.key] = Nobody
      /\ lock' = [lock EXCEPT ![x.key] = w]
      /\ new' = [new EXCEPT ![w] = Ledger!Merge(flag[x.key], x)]
      /\ pc' = [pc EXCEPT ![w] = "mark"]
      /\ UNCHANGED <<flag, env, request, job, now, backoff, during, change, share, hand, who, left, faults>>
  BY DEF LockFlag, At, Goto, recorded, clock
<1>3. hand[w] # Unclaimed /\ x \in Proposals /\ x.key \in Flags
  BY <1>1, <1>2, InHand DEF WorkerTypes
<1>4. Ledger!Merge(flag[x.key], x) \in Data
  BY <1>1, <1>2, <1>3, ProposalsAssumption DEF Records
<1>5. x' = x
  BY <1>2 DEF What
<1> HIDE DEF x
<1>6. ASSUME NEW v \in Workers, v # w PROVE WorkerOK(v)'
  <2>1. v # Nobody
    BY MarkersAssumption
  <2>2. LeavesAlone(v)
    BY <1>1, <1>2, <1>3, <1>6, <2>1 DEF LeavesAlone, WorkerTypes
  <2> QED BY <2>2, AloneOK
<1>7. WorkerOK(w)'
  <2>1. pc'[w] = "mark" /\ new'[w] = Ledger!Merge(flag[x.key], x) /\ lock'[x.key] = w
    BY <1>1, <1>2, <1>3 DEF WorkerTypes
  <2>2. new'[w] # Same
    BY <1>4, <2>1, MarkersAssumption
  <2>3. Written(w)'
    BY <1>2, <1>5, <2>1, <2>2 DEF Written, x
  <2> QED BY <1>1, <1>2, <2>1, <2>3 DEF WorkerOK, Holds, Sharing
<1>8. WorkerTypes'
  BY <1>1, <1>2, <1>3, <1>4 DEF WorkerTypes
<1> QED BY <1>6, <1>7, <1>8 DEF Working

\* The end of a transaction that changes no record.
LEMMA EndWorks ==
    ASSUME Working, Records', NEW w \in Workers, NEW s \in {"idle", "claim"},
           EndTransaction(w, s), UNCHANGED <<flag, env, request, job>>,
           \A h \in Handlers : h # w => who'[h] = who[h],
           who' \in [Handlers -> Users \cup {Nobody}],
           now' \in Nat \cup {-1}, backoff' \subseteq Jobs,
           left' \in [Schedulers -> 0 .. Batch], during' \in [Jobs -> SUBSET Schedulers],
           faults' \in 0 .. MaxFaults
    PROVE  Working'
<1>1. WorkerTypes'
  BY EndOK DEF WorkerTypes
<1>2. ASSUME NEW v \in Workers, v # w PROVE LeavesAlone(v)
  BY <1>2, EndOK DEF LeavesAlone
<1> QED BY <1>1, <1>2, EndOK, AloneOK DEF Working

\* A worker that has locked the flag commits: other workers have other flags,
\* and other changes, in hand.
LEMMA CommitWorks ==
    ASSUME Working, Records', NEW w \in Workers, NEW s \in {"idle", "claim"},
           pc[w] = "mark", CommitFlag(w), EndTransaction(w, s), env' = env,
           \A r \in Requests : r # hand[w] => request'[r] = request[r],
           \A j \in Jobs : j # hand[w] => job'[j] = job[j],
           \A h \in Handlers : h # w => who'[h] = who[h],
           who' \in [Handlers -> Users \cup {Nobody}],
           UNCHANGED <<now, backoff, during, left, faults>>
    PROVE  Working'
<1> DEFINE k == What(hand[w]).key
<1>1. Records /\ WorkerTypes /\ WorkerOK(w) /\ hand[w] # Unclaimed
  BY DEF Working, WorkerTypes
<1>2. k \in Flags /\ lock[k] = w /\ change[hand[w]] = w
  BY <1>1, InHand DEF WorkerOK, Written, Holds
<1>3. \A f \in Flags : f # k => flag'[f] = flag[f]
  BY <1>1, <1>2 DEF CommitFlag, Records
<1> HIDE DEF k
<1>4. WorkerTypes'
  BY <1>1, EndOK DEF WorkerTypes
<1>5. ASSUME NEW v \in Workers, v # w PROVE LeavesAlone(v)
  <2>1. hand[v] # Unclaimed => hand[v] # hand[w]
    BY <1>2, <1>5 DEF Working, WorkerOK, Holds
  <2>2. \A f \in Flags : lock[f] = v => flag'[f] = flag[f]
    BY <1>2, <1>3, <1>5
  <2> QED BY <1>5, <2>1, <2>2, EndOK DEF LeavesAlone
<1> QED BY <1>4, <1>5, EndOK, AloneOK DEF Working

LEMMA ApproveWorks ==
    ASSUME Working, Records', NEW h \in Handlers, Approve(h)
    PROVE  Working'
<1>1. h \in Workers /\ pc[h] = "mark" /\ CommitFlag(h) /\ EndTransaction(h, "idle")
      /\ UNCHANGED <<env, job, now, backoff, during, left, faults>>
  BY DEF Approve, At, Workers, clock
<1>2. \A r \in Requests : r # hand[h] => request'[r] = request[r]
  BY DEF Approve, Working, Records
<1>3. who' \in [Handlers -> Users \cup {Nobody}] /\ \A g \in Handlers : g # h => who'[g] = who[g]
  BY DEF Approve, Working, WorkerTypes
<1> QED BY <1>1, <1>2, <1>3, CommitWorks

LEMMA ExecuteWorks ==
    ASSUME Working, Records', NEW s \in Schedulers, Execute(s)
    PROVE  Working'
<1>1. s \in Workers /\ pc[s] = "mark" /\ CommitFlag(s) /\ EndTransaction(s, "claim")
      /\ UNCHANGED <<env, request, now, backoff, during, who, left, faults>>
  BY DEF Execute, At, Workers, clock
<1>2. \A j \in Jobs : j # hand[s] => job'[j] = job[j]
  BY DEF Execute, Working, Records
<1>3. who' \in [Handlers -> Users \cup {Nobody}]
  BY <1>1 DEF Working, WorkerTypes
<1> QED BY <1>1, <1>2, <1>3, CommitWorks

LEMMA RollbackWorks ==
    ASSUME Working, Records', NEW h \in Handlers, Rollback(h)
    PROVE  Working'
<1>1. h \in Workers /\ EndTransaction(h, "idle") /\ who' = [who EXCEPT ![h] = Nobody]
      /\ UNCHANGED <<flag, env, request, job, now, backoff, during, left, faults>>
  BY DEF Rollback, Workers, recorded, clock
<1>2. who' \in [Handlers -> Users \cup {Nobody}] /\ \A g \in Handlers : g # h => who'[g] = who[g]
  BY <1>1 DEF Working, WorkerTypes
<1> QED BY <1>1, <1>2, EndWorks DEF Working, WorkerTypes

LEMMA RecordFailureWorks ==
    ASSUME Working, Records', NEW s \in Schedulers, RecordFailure(s)
    PROVE  Working'
<1>1. s \in Workers /\ s \notin Handlers /\ pc[s] = "record" /\ EndTransaction(s, "claim")
      /\ backoff' = backoff \cup {hand[s]}
      /\ during' = [during EXCEPT ![hand[s]] = {t \in Schedulers : ~At(t, "idle")}]
      /\ UNCHANGED <<flag, env, request, job, now, who, left, faults>>
  BY DisjointAssumption DEF RecordFailure, At, Workers, recorded
<1>2. hand[s] \in Jobs
  <2>1. hand[s] # Unclaimed
    BY <1>1 DEF Working, WorkerTypes
  <2> QED BY <1>1, <2>1, InHand
<1>3. backoff' \subseteq Jobs /\ during' \in [Jobs -> SUBSET Schedulers]
  BY <1>1, <1>2 DEF Working, WorkerTypes
<1> QED BY <1>1, <1>3, EndWorks DEF Working, WorkerTypes

LEMMA AbandonPassWorks ==
    ASSUME Working, Records', NEW s \in Schedulers, AbandonPass(s), ~At(s, "claim")
    PROVE  Working'
<1>1. s \in Workers /\ EndTransaction(s, "idle") /\ EndPass(s)
      /\ faults < MaxFaults /\ faults' = faults + 1
      /\ UNCHANGED <<flag, env, request, job, now, backoff, who>>
  BY DEF AbandonPass, Workers, recorded
<1>2. left' \in [Schedulers -> 0 .. Batch] /\ during' \in [Jobs -> SUBSET Schedulers]
      /\ faults' \in 0 .. MaxFaults
  BY <1>1, JobsAssumption DEF EndPass, Working, WorkerTypes
<1> QED BY <1>1, <1>2, EndWorks DEF Working, WorkerTypes

LEMMA PassWorks ==
    ASSUME Working, Records', NEW s \in Schedulers,
           Tick(s) \/ PassOver(s) \/ (AbandonPass(s) /\ At(s, "claim"))
    PROVE  Working'
<1>1. WorkerTypes /\ WorkerOK(s) /\ s \in Workers
  BY DEF Working, Workers
<1>2. PICK b \in {"idle", "claim"} :
         /\ pc[s] \in {"idle", "claim"} /\ pc' = [pc EXCEPT ![s] = b]
         /\ UNCHANGED <<flag, env, request, job, now, backoff, change, share, lock, hand, new, who>>
  BY DEF Tick, PassOver, AbandonPass, At, Goto, recorded, clock
<1>3. left' \in [Schedulers -> 0 .. Batch] /\ during' \in [Jobs -> SUBSET Schedulers]
      /\ faults' \in 0 .. MaxFaults
  BY <1>1, JobsAssumption DEF Tick, PassOver, AbandonPass, EndPass, WorkerTypes, clock
<1>4. WorkerTypes'
  BY <1>1, <1>2, <1>3 DEF WorkerTypes
<1>5. ASSUME NEW v \in Workers, v # s PROVE WorkerOK(v)'
  <2>1. LeavesAlone(v)
    BY <1>1, <1>2, <1>5 DEF LeavesAlone, WorkerTypes
  <2> QED BY <2>1, AloneOK
<1>6. WorkerOK(s)'
  BY <1>1, <1>2 DEF WorkerOK, Holds, Sharing, Written, WorkerTypes
<1> QED BY <1>4, <1>5, <1>6 DEF Working

LEMMA FailWorks ==
    ASSUME Working, Records', NEW s \in Schedulers, Fail(s)
    PROVE  Working'
<1>1. WorkerTypes /\ WorkerOK(s) /\ s \in Workers
  BY DEF Working, Workers
<1>2. /\ pc[s] \in {"environment", "flag", "mark"} /\ pc' = [pc EXCEPT ![s] = "record"]
      /\ UndoFlag(s)
      /\ UNCHANGED <<flag, env, request, job, now, backoff, during, change, hand, who, left>>
  BY DEF Fail, Goto, recorded, clock
<1>3. faults' \in 0 .. MaxFaults
  BY <1>1, JobsAssumption DEF Fail, WorkerTypes
<1>4. WorkerTypes'
  BY <1>1, <1>2, <1>3 DEF WorkerTypes, UndoFlag
<1>5. ASSUME NEW v \in Workers, v # s PROVE WorkerOK(v)'
  <2>1. LeavesAlone(v)
    BY <1>1, <1>2, <1>5 DEF LeavesAlone, WorkerTypes, UndoFlag
  <2> QED BY <2>1, AloneOK
<1>6. WorkerOK(s)'
  <2>1. pc'[s] = "record" /\ new'[s] = Same
    BY <1>1, <1>2 DEF WorkerTypes, UndoFlag
  <2> QED BY <1>1, <1>2, <2>1 DEF WorkerOK, Holds, Sharing, Written
<1> QED BY <1>4, <1>5, <1>6 DEF Working

LEMMA StutterWorks ==
    ASSUME Working, Records', UNCHANGED vars
    PROVE  Working'
<1>1. UNCHANGED <<flag, env, request, job, now, backoff, change, share, lock, pc, who, hand,
                  new, left, during, faults>>
  BY DEF vars, recorded, clock, transactions
<1>2. WorkerTypes'
  BY <1>1 DEF Working, WorkerTypes
<1>3. \A w \in Workers : LeavesAlone(w)
  BY <1>1 DEF LeavesAlone
<1> QED BY <1>2, <1>3, AloneOK DEF Working

LEMMA WorkingStep == Working /\ [Next]_vars => Working'
<1> SUFFICES ASSUME Working, [Next]_vars PROVE Working'
  OBVIOUS
<1>1. Records'
  BY LedgerSteps, LedgerStep DEF Working
<1>2. ASSUME \E w \in Workers : LockEnvironment(w) \/ LockFlag(w) PROVE Working'
  BY <1>1, <1>2, LockEnvironmentWorks, LockFlagWorks
<1>3. ASSUME NEW h \in Handlers,
             (\E u \in Users, r \in Requests : LockPending(h, u, r)) \/ Approve(h) \/ Rollback(h)
      PROVE  Working'
  BY <1>1, <1>3, LockPendingWorks, ApproveWorks, RollbackWorks
<1>4. ASSUME NEW s \in Schedulers,
             \/ Tick(s) \/ Claim(s) \/ PassOver(s) \/ Execute(s) \/ Fail(s)
             \/ RecordFailure(s) \/ AbandonPass(s)
      PROVE  Working'
  BY <1>1, <1>4, PassWorks, ClaimWorks, ExecuteWorks, FailWorks, RecordFailureWorks,
     AbandonPassWorks
<1>5. ASSUME DeleteEnvironment \/ Clock \/ (\E j \in Jobs : CoolDown(j)) \/ UNCHANGED vars
      PROVE  Working'
  BY <1>1, <1>5, DeletionWorks, TimeWorks, StutterWorks
<1> QED BY <1>1, <1>2, <1>3, <1>4, <1>5, RequestsWork DEF Next

LEMMA AlwaysWorking == Spec => []Working
BY InitWorking, WorkingStep, PTL DEF Spec

-----------------------------------------------------------------------------
(* The results.                                                            *)

\* The records, the locks and the workers are of the shape the code keeps
\* them in, whatever requests, reviewers and schedulers do.
THEOREM GovernanceTypeCorrect == Spec => []TypeOK
<1>1. Working => TypeOK
  BY TypesOfParts DEF Working
<1> QED BY <1>1, AlwaysWorking, PTL

\* What a worker has applied and not yet committed is what committing it
\* should give: the row it claimed, the policy and the flag are its own until
\* the transaction ends (lock_pending, lock_environment, apply_patch_in_tx).
THEOREM WorkIsIsolated == Spec => []NothingBehindTheBack
<1>1. Working => NothingBehindTheBack
  <2> SUFFICES ASSUME Working, NEW w \in Workers, new[w] # Same
               PROVE  LET c == hand[w] IN
                      /\ IF w \in Handlers
                           THEN request[c].status = "pending" /\ request[c].by # who[w]
                           ELSE job[c].status = "pending" /\ env = "open"
                      /\ flag[What(c).key] # Absent
                      /\ new[w] = Ledger!Merge(flag[What(c).key], What(c))
    BY DEF NothingBehindTheBack
  <2>1. Holds(w) /\ Sharing(w) /\ Written(w) /\ pc[w] = "mark" /\ hand[w] # Unclaimed
    BY DEF Working, WorkerOK, Written, WorkerTypes
  <2> QED BY <2>1 DEF Holds, Sharing, Written
<1> QED BY <1>1, AlwaysWorking, PTL

\* The transactions of handlers and schedulers, statement by statement and
\* with every failure, implement the ledger, in which a recorded change is
\* applied once, in one step, as long as it is pending.
THEOREM LedgerIsImplemented == Spec => Implements
<1>1. Init => Ledger!Init
  BY DEF Init
<1>2. Working /\ [Next]_vars => [Ledger!Next]_Ledger!vars
  BY LedgerSteps
<1> QED BY <1>1, <1>2, AlwaysWorking, PTL DEF Spec, Implements, Ledger!Spec

\* While an environment is protected, no flag that is there changes but by
\* the approval by somebody else of a pending request.
THEOREM FourEyesHold == Spec => FourEyes
<1> DEFINE A == \A f \in Flags :
       env = "protected" /\ flag[f] # Absent /\ flag'[f] # flag[f]
       => \/ env' = "deleted"
          \/ \E r \in Requests :
                /\ request[r].status = "pending" /\ request'[r].status = "approved"
                /\ request'[r].reviewer \in Users \ {request[r].by}
                /\ request[r].what.key = f
                /\ flag'[f] = Ledger!Merge(flag[f], request[r].what)
<1>1. Working /\ [Next]_vars => A
  <2> SUFFICES ASSUME Working, [Next]_vars, NEW f \in Flags,
                      env = "protected", flag[f] # Absent, flag'[f] # flag[f]
               PROVE  \/ env' = "deleted"
                      \/ \E r \in Requests :
                            /\ request[r].status = "pending" /\ request'[r].status = "approved"
                            /\ request'[r].reviewer \in Users \ {request[r].by}
                            /\ request[r].what.key = f
                            /\ flag'[f] = Ledger!Merge(flag[f], request[r].what)
    OBVIOUS
  <2>1. Ledger!Next
    BY LedgerSteps DEF Ledger!vars
  <2> QED BY <2>1, ApprovedOnly DEF Working
<1>2. Working /\ [Next]_vars => [A]_vars
  BY <1>1
<1> QED BY <1>2, AlwaysWorking, PTL DEF Spec, FourEyes
=============================================================================
