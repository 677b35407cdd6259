---------------------------- MODULE ChangeLedger ----------------------------
(***************************************************************************)
(* What the approval policy and the scheduled changes of one environment   *)
(* promise: every change of a flag is either direct, and then the          *)
(* environment is not protected, or the one-time application of a change    *)
(* that was recorded before and has been neither refused nor withdrawn.     *)
(***************************************************************************)
EXTENDS Integers

CONSTANTS
    Flags,      \* flag keys of the environment
    Data,       \* data a flag can have
    Absent,     \* there is no such flag
    Proposals,  \* patches of one flag: a key, a field and its value
    None,       \* no proposal
    Requests,   \* change requests (ids of change_requests)
    Jobs,       \* scheduled changes, in the order (scheduled_at, id)
    Users,      \* emails of those who may edit the environment
    Admins,     \* the administrators among them
    Nobody      \* no user; also the holder of a lock that is free

VARIABLES
    flag,       \* flag[f]: data of the flags row, or Absent
    env,        \* "open", "protected" (require_approval) or "deleted"
    request,    \* request[r]: status, proposal, requester and reviewer
    job         \* job[j]: status and proposal

vars == <<flag, env, request, job>>

Merge(d, x) == [d EXCEPT ![x.field] = x.value]

NoRequest == [status |-> "none", what |-> None, by |-> Nobody, reviewer |-> Nobody]
NoJob == [status |-> "none", what |-> None]

Init ==
    /\ flag = [f \in Flags |-> Absent]
    /\ env \in {"open", "protected"}
    /\ request = [r \in Requests |-> NoRequest]
    /\ job = [j \in Jobs |-> NoJob]

\* The fields of the proposal replace those the flag has now.
Apply(x) ==
    /\ flag[x.key] # Absent
    /\ flag' = [flag EXCEPT ![x.key] = Merge(@, x)]

Put(f, d) ==
    /\ env = "open" \/ (env = "protected" /\ flag[f] = Absent)
    /\ flag' = [flag EXCEPT ![f] = d]
    /\ UNCHANGED <<env, request, job>>

Remove(f) ==
    /\ env = "open"
    /\ flag' = [flag EXCEPT ![f] = Absent]
    /\ UNCHANGED <<env, request, job>>

Patch(x) ==
    /\ env = "open"
    /\ Apply(x)
    /\ UNCHANGED <<env, request, job>>

SetPolicy(e) ==
    /\ env # "deleted"
    /\ env' = e
    /\ UNCHANGED <<flag, request, job>>

DeleteEnvironment ==
    /\ env' = "deleted"
    /\ flag' = [f \in Flags |-> Absent]
    /\ request' = [r \in Requests |-> NoRequest]
    /\ job' = [j \in Jobs |-> NoJob]

OpenRequest(r, u, x) ==
    /\ env = "protected"
    /\ request[r].status = "none"
    /\ request' = [request EXCEPT ![r] = [status |-> "pending", what |-> x, by |-> u,
                                          reviewer |-> Nobody]]
    /\ UNCHANGED <<flag, env, job>>

\* Somebody else approves, and the patch is applied: both or neither.
Approve(r, u) ==
    /\ request[r].status = "pending"
    /\ request[r].by # u
    /\ Apply(request[r].what)
    /\ request' = [request EXCEPT ![r].status = "approved", ![r].reviewer = u]
    /\ UNCHANGED <<env, job>>

Reject(r, u) ==
    /\ request[r].status = "pending"
    /\ request' = [request EXCEPT ![r].status = "rejected", ![r].reviewer = u]
    /\ UNCHANGED <<flag, env, job>>

Cancel(r, u) ==
    /\ request[r].status = "pending"
    /\ u \in Admins \/ request[r].by = u
    /\ request' = [request EXCEPT ![r].status = "cancelled"]
    /\ UNCHANGED <<flag, env, job>>

Schedule(j, x) ==
    /\ env = "open"
    /\ job[j].status = "none"
    /\ job' = [job EXCEPT ![j] = [status |-> "pending", what |-> x]]
    /\ UNCHANGED <<flag, env, request>>

Unschedule(j) ==
    /\ job[j].status = "pending"
    /\ job' = [job EXCEPT ![j].status = "deleted"]
    /\ UNCHANGED <<flag, env, request>>

\* Protecting the environment holds back what was scheduled before.
Execute(j) ==
    /\ env = "open"
    /\ job[j].status = "pending"
    /\ Apply(job[j].what)
    /\ job' = [job EXCEPT ![j].status = "executed"]
    /\ UNCHANGED <<env, request>>

Next ==
    \/ \E f \in Flags : Remove(f) \/ \E d \in Data : Put(f, d)
    \/ \E x \in Proposals :
          \/ Patch(x)
          \/ \E r \in Requests, u \in Users : OpenRequest(r, u, x)
          \/ \E j \in Jobs : Schedule(j, x)
    \/ \E e \in {"open", "protected"} : SetPolicy(e)
    \/ DeleteEnvironment
    \/ \E r \in Requests, u \in Users : Approve(r, u) \/ Reject(r, u) \/ Cancel(r, u)
    \/ \E j \in Jobs : Unschedule(j) \/ Execute(j)

Spec == Init /\ [][Next]_vars
=============================================================================
