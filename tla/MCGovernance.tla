---------------------------- MODULE MCGovernance ----------------------------
(***************************************************************************)
(* Small instances in one run, chosen by the initial state.  Governance:    *)
(* change requests next to one scheduler with one job, two schedulers with  *)
(* two jobs, and one scheduler with three jobs, more than a batch; there    *)
(* are two flags, each on, off or absent, so that the jobs of one can fail  *)
(* while that of the other is due.  Its notifications: one event while a    *)
(* sink is changed, and two events to the same sinks.                       *)
(***************************************************************************)
EXTENDS Governance, Delivery

CONSTANTS f1, f2, s1, c1, https, deleted, scheduled

VARIABLE scenario

Switch == [{"on"} -> BOOLEAN]

\* Patches that switch a flag on.
SwitchOn == [key : {f1, f2}, field : {"on"}, value : {TRUE}]

\* The flags may change places, so that the first job is for f1.
FirstFlagFirst == job[0].what = None \/ job[0].what.key = f1

InScenario ==
    \/ /\ scenario = "jobs" /\ FirstFlagFirst
       /\ \A r \in Requests : request[r].status = "none"
       /\ job[2].status = "none" /\ now < 2
    \/ /\ scenario = "batch"
       /\ \A r \in Requests : request[r].status = "none"
       /\ \A s \in Schedulers \ {s1} : pc[s] = "idle"
       /\ faults = 0
       /\ env = "open"
       /\ \A j \in Jobs : job[j].what = None \/ job[j].what.key = (IF j = 2 THEN f2 ELSE f1)
    \/ /\ scenario = "requests" /\ FirstFlagFirst
       /\ \A s \in Schedulers \ {s1} : pc[s] = "idle"
       /\ now < 1 /\ \A j \in Jobs \ {0} : job[j].status = "none"

On(filter) == [enabled |-> TRUE, address |-> https, filter |-> filter]

\* The first integration wants every event; one other sink, or none, is there.
Setups ==
    {[i \in Sinks |-> CASE i \in Webhooks -> x[1] [] i = c1 -> On({}) [] OTHER -> x[2]] :
        x \in {<<On({}), Missing>>, <<Missing, On({deleted})>>, <<Missing, Missing>>}}

InDelivery ==
    \/ scenario = "edited" /\ Len(fired) <= 1
    \/ scenario = "two events" /\ edits = 0 /\ \A i \in Sinks \ {c1} : sink[i] = Missing

MCInit ==
    /\ Init /\ DeliveryInit
    /\ scenario \in {"requests", "jobs", "batch", "edited", "two events"}
    /\ IF scenario \in {"requests", "jobs", "batch"}
         THEN sink = [i \in Sinks |-> Missing]
         ELSE /\ env = "open" /\ flag = [f \in Flags |-> Absent]
              /\ sink \in Setups /\ InDelivery

MCNext ==
    /\ UNCHANGED scenario
    /\ \/ Next /\ InScenario' /\ UNCHANGED delivery
       \/ DeliveryNext /\ InDelivery' /\ UNCHANGED vars

\* Only in "jobs" the second scheduler runs.
MCFairness ==
    /\ RequestsEnd /\ SchedulerRuns(s1)
    /\ scenario = "jobs" => \A s \in Schedulers : SchedulerRuns(s)

MCSpec == MCInit /\ [][MCNext]_<<vars, delivery, scenario>> /\ MCFairness
=============================================================================
