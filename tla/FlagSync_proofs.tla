-------------------------- MODULE FlagSync_proofs --------------------------
(***************************************************************************)
(* Proofs about FlagSync: its types; that no client ever goes back in the  *)
(* history of a flag, whatever fails and in whatever order events come;    *)
(* that snapshots are applied whole; that FlagSync implements FlagFeed.    *)
(***************************************************************************)
EXTENDS FlagSync, FiniteSetTheorems, SequenceTheorems, TLAPS

USE DEF Revision

-----------------------------------------------------------------------------
(* Types of the operators the actions are built from. *)

LEMMA UnknownType == Unknown \in Slot /\ NoFlags \in [Flags -> Slot]
BY BoundsAssumption DEF Unknown, NoFlags, Slot

LEMMA SeqType == TypeOK => seq \in Nat
<1>1. TypeOK => seq \in Revision
  BY DEF TypeOK
<1> QED BY <1>1, BoundsAssumption DEF Revision

LEMMA ExpandType ==
    ASSUME NEW d \in Data, NEW s \in Rules \cup {NoSegment}
    PROVE  Expand(d, s) \in Content /\ Expand(d, s) # Absent
BY DataAssumption DEF Expand, Content

LEMMA DbSlotType ==
    ASSUME TypeOK, NEW f \in Flags
    PROVE  DbSlot(f) \in Slot
<1>1. CASE row[f].data # Absent
  <2>1. row[f].data \in Data /\ row[f].rev \in Revision
    BY <1>1 DEF TypeOK
  <2>2. Expand(row[f].data, segment) \in Content
    BY <2>1, ExpandType DEF TypeOK
  <2> QED BY <1>1, <2>1, <2>2 DEF DbSlot, Slot
<1>2. CASE row[f].data = Absent
  BY <1>2 DEF DbSlot, Slot, TypeOK
<1> QED BY <1>1, <1>2

LEMMA MessageType == Change \subseteq Message /\ Resync \in Message
BY DEF Message

LEMMA ChangeType ==
    ASSUME NEW f \in Flags, NEW s \in Slot
    PROVE  ChangeOf(f, s) \in Change
BY DEF ChangeOf, Change, Slot

LEMMA FaultType ==
    ASSUME TypeOK, NEW k, Fault(k)
    PROVE  faults' \in Nat
BY DEF Fault, TypeOK

LEMMA PublishedType ==
    ASSUME TypeOK, NEW m \in Message
    PROVE  Published(m) \in [Instances -> Seq(Message)]
BY DEF TypeOK, Published

LEMMA PushType ==
    ASSUME NEW q \in Seq(Message \cup {Lagged}), Len(q) <= RxCapacity, NEW m \in Message
    PROVE  Push(q, m) \in Seq(Message \cup {Lagged}) /\ Len(Push(q, m)) <= RxCapacity
<1>1. CASE q = <<Lagged>>
  BY <1>1 DEF Push
<1>2. CASE q # <<Lagged>> /\ Len(q) < RxCapacity
  <2>1. m \in Message \cup {Lagged}
    OBVIOUS
  <2>2. Append(q, m) \in Seq(Message \cup {Lagged}) /\ Len(Append(q, m)) = Len(q) + 1
    BY <2>1, AppendProperties
  <2>3. Len(q) \in Nat
    BY LenProperties
  <2> QED BY <1>2, <2>2, <2>3, BoundsAssumption DEF Push
<1>3. CASE q # <<Lagged>> /\ ~(Len(q) < RxCapacity)
  <2>1. \A S : \A x \in S : <<x>> \in Seq(S) /\ Len(<<x>>) = 1
    OBVIOUS
  <2>2. <<Lagged>> \in Seq(Message \cup {Lagged}) /\ Len(<<Lagged>>) = 1
    BY <2>1
  <2>3. Push(q, m) = <<Lagged>>
    BY <1>3 DEF Push
  <2> QED BY <2>2, <2>3, BoundsAssumption
<1> QED BY <1>1, <1>2, <1>3

LEMMA BroadcastType ==
    ASSUME TypeOK, NEW i \in Instances, NEW m \in Message
    PROVE  /\ Broadcast(i, m) \in [Clients -> Seq(Message \cup {Lagged})]
           /\ \A c \in Clients : Len(Broadcast(i, m)[c]) <= RxCapacity
BY PushType DEF TypeOK, Broadcast

\* What Closed leaves has the types of what it found.
LEMMA ClosedType ==
    ASSUME TypeOK, NEW C, Closed(C)
    PROVE  /\ phase' \in [Clients -> {"closed", "subscribed", "boot", "live"}]
           /\ at' \in [Clients -> Instances \cup {Nowhere}]
           /\ rx' \in [Clients -> Seq(Message \cup {Lagged})]
           /\ \A c \in Clients : Len(rx'[c]) <= RxCapacity
           /\ boot' \in [Clients -> [Flags -> Slot]]
           /\ todo' \in [Clients -> SUBSET Flags]
           /\ staged' \in [Clients -> [Flags -> Slot]]
BY UnknownType, BoundsAssumption DEF TypeOK, Closed

LEMMA WorkingType ==
    ASSUME NEW pc \in {"idle", "insert", "expand", "publish"}, NEW S \in SUBSET Change
    PROVE  Working(pc, S) \in Job
BY BoundsAssumption DEF Working, Job

LEMMA NoJobType == NoJob \in Job
BY WorkingType DEF NoJob

\* What Committed makes of the history of each flag.
LEMMA CommittedFacts ==
    ASSUME TypeOK, NEW S \in SUBSET Flags, NEW stamp \in [S -> Nat], Committed(stamp)
    PROVE  /\ last' \in [Flags -> Nat]
           /\ overtaken' \in [Flags -> Nat]
           /\ unheard' \subseteq Flags
           /\ unheard' = unheard \ S
           /\ \A f \in Flags \ S : last'[f] = last[f] /\ overtaken'[f] = overtaken[f]
           /\ \A f \in S : IF stamp[f] > last[f]
                            THEN last'[f] = stamp[f] /\ overtaken'[f] = overtaken[f]
                            ELSE last'[f] = last[f] /\ overtaken'[f] = last[f]
<1>1. DOMAIN stamp = S
  OBVIOUS
<1>2. /\ last' = [f \in Flags |-> IF f \in S THEN Larger(last[f], stamp[f]) ELSE last[f]]
      /\ overtaken' = [f \in Flags |-> IF f \in S /\ stamp[f] <= last[f] THEN last[f]
                                                                       ELSE overtaken[f]]
      /\ unheard' = unheard \ S
  BY <1>1 DEF Committed
<1>3. /\ last \in [Flags -> Nat] /\ overtaken \in [Flags -> Nat] /\ unheard \subseteq Flags
      /\ \A f \in S : stamp[f] \in Nat
  BY DEF TypeOK
<1> QED BY <1>2, <1>3 DEF Larger

LEMMA StoreFlagType ==
    ASSUME TypeOK, NEW w \in Writers, NEW f \in Flags, NEW d \in Data, NEW r \in Revision,
           StoreFlag(w, f, d, r), seq' \in Revision
    PROVE  TypeOK'
<1> DEFINE e == ChangeOf(f, [val |-> Expand(d, NoSegment), rev |-> r])
<1>1. [val |-> Expand(d, NoSegment), rev |-> r] \in Slot
  BY ExpandType DEF Slot
<1>2. Working("expand", {e}) \in Job /\ e.val # Absent
  BY <1>1, ChangeType, WorkingType, ExpandType DEF ChangeOf
<1>3. \A m \in Working("expand", {e}).todo : m.val # Absent
  BY <1>2 DEF Working
<1>4. 2 * r \in Nat
  BY BoundsAssumption
<1>5. [g \in {f} |-> 2 * r] \in [{f} -> Nat] /\ {f} \in SUBSET Flags
  BY <1>4
<1>6. Committed([g \in {f} |-> 2 * r]) /\ job' = [job EXCEPT ![w] = Working("expand", {e})]
  BY DEF StoreFlag
<1>7. last' \in [Flags -> Nat] /\ overtaken' \in [Flags -> Nat] /\ unheard' \subseteq Flags
  BY <1>5, <1>6, CommittedFacts
<1>8. /\ job' \in [Writers -> Job]
      /\ \A v \in Writers : job'[v].pc = "expand" => \A m \in job'[v].todo : m.val # Absent
  <2> HIDE DEF e
  <2> QED BY <1>2, <1>3, <1>6 DEF TypeOK
<1>9. row' \in [Flags -> [data : Data \cup {Absent}, rev : Revision]]
  BY DEF StoreFlag, TypeOK
<1> QED BY <1>7, <1>8, <1>9 DEF StoreFlag, TypeOK, connVars, sdkVars

-----------------------------------------------------------------------------
(* Types. *)

LEMMA InitTypeOK == Init => TypeOK
<1> SUFFICES ASSUME Init PROVE TypeOK
  OBVIOUS
<1>1. 0 \in Revision /\ Stamp(Unknown) \in Nat
  BY BoundsAssumption DEF Stamp, Unknown
<1>2. \A c \in Clients : Len(rx[c]) <= RxCapacity
  BY BoundsAssumption DEF Init, NothingUnderWay
<1>3. NoJob \in Job
  BY NoJobType
<1>4. \A w \in Writers : job[w].pc # "expand"
  BY DEF Init, NothingUnderWay, NoJob, Working
<1> QED BY <1>1, <1>2, <1>3, <1>4, UnknownType, BoundsAssumption DEF Init, NothingUnderWay, TypeOK

LEMMA NextTypeOK ==
    ASSUME TypeOK, [Next]_vars
    PROVE  TypeOK'
<1> USE DEF dbVars, serverVars, connVars, sdkVars
<1>1. ASSUME NEW w \in Writers, NEW f \in Flags, NEW d \in Data,
             InsertFlag(w, f, d) \/ UpdateFlag(w, f, d)
      PROVE  TypeOK'
  <2>1. CASE InsertFlag(w, f, d)
    <3>1. job[w].draw \in Revision /\ seq' \in Revision
      BY <2>1 DEF InsertFlag, TypeOK, Job
    <3> QED BY <2>1, <3>1, StoreFlagType DEF InsertFlag
  <2>2. CASE UpdateFlag(w, f, d)
    <3>1. seq + 1 \in Revision /\ seq' = seq + 1
      BY <2>2, BoundsAssumption DEF UpdateFlag, TypeOK
    <3> QED BY <2>2, <3>1, StoreFlagType DEF UpdateFlag
  <2> QED BY <1>1, <2>1, <2>2
<1>20. ASSUME NEW w \in Writers, DrawDefault(w) \/ Rollback(w)
       PROVE  TypeOK'
  <2>1. CASE DrawDefault(w)
    <3> DEFINE J == [Working("insert", {}) EXCEPT !.draw = seq + 1]
    <3>1. seq + 1 \in Revision /\ seq' = seq + 1
      BY <2>1, BoundsAssumption DEF DrawDefault, TypeOK
    <3>2. J \in Job /\ J.pc = "insert"
      BY <3>1, WorkingType DEF Job, Working
    <3>3. job' = [job EXCEPT ![w] = J]
      BY <2>1 DEF DrawDefault
    <3> HIDE DEF J
    <3>4. /\ job' \in [Writers -> Job]
          /\ \A v \in Writers : job'[v].pc = "expand" => \A m \in job'[v].todo : m.val # Absent
      BY <3>2, <3>3 DEF TypeOK
    <3> QED BY <2>1, <3>1, <3>4 DEF DrawDefault, TypeOK
  <2>2. CASE Rollback(w)
    <3>1. NoJob.pc # "expand"
      BY DEF NoJob, Working
    <3>2. /\ job' \in [Writers -> Job]
          /\ \A v \in Writers : job'[v].pc = "expand" => \A m \in job'[v].todo : m.val # Absent
      BY <2>2, <3>1, NoJobType DEF Rollback, TypeOK
    <3> QED BY <2>2, <3>2 DEF Rollback, TypeOK
  <2> QED BY <1>20, <2>1, <2>2
<1>2. ASSUME NEW w \in Writers, NEW f \in Flags, NEW old \in SUBSET Flags,
             DeleteFlag(w, f, old)
      PROVE  TypeOK'
  <2>1. row[f].rev \in Revision /\ 0 \in Revision /\ 2 * row[f].rev + 1 \in Nat
    BY BoundsAssumption DEF TypeOK
  <2>2. Larger(tomb[f], row[f].rev) \in Revision
    BY <2>1 DEF Larger, TypeOK
  <2> DEFINE J == Working("publish", {ChangeOf(f, [val |-> Absent, rev |-> row[f].rev])})
  <2>3. J \in Job /\ J.pc = "publish"
    <3>1. ChangeOf(f, [val |-> Absent, rev |-> row[f].rev]) \in Change
      BY <2>1, ChangeType DEF Slot
    <3> QED BY <3>1, WorkingType DEF Working
  <2>4. last' \in [Flags -> Nat] /\ overtaken' \in [Flags -> Nat] /\ unheard' \subseteq Flags
    <3>1. [g \in {f} |-> 2 * row[f].rev + 1] \in [{f} -> Nat] /\ {f} \in SUBSET Flags
      BY <2>1
    <3> QED BY <1>2, <3>1, CommittedFacts DEF DeleteFlag
  <2>5. /\ job' \in [Writers -> Job]
        /\ \A v \in Writers : job'[v].pc = "expand" => \A m \in job'[v].todo : m.val # Absent
    <3>1. job' = [job EXCEPT ![w] = J]
      BY <1>2 DEF DeleteFlag
    <3> HIDE DEF J
    <3> QED BY <2>3, <3>1 DEF TypeOK
  <2>6. /\ row' \in [Flags -> [data : Data \cup {Absent}, rev : Revision]]
        /\ tomb' \in [Flags -> Revision]
    BY <1>2, <2>1, <2>2 DEF DeleteFlag, TypeOK
  <2> QED BY <1>2, <2>4, <2>5, <2>6 DEF DeleteFlag, TypeOK
<1>3. ASSUME NEW f \in Flags, ArchiveFlag(f)
      PROVE  TypeOK'
  <2>1. seq + 1 \in Revision /\ 2 * (seq + 1) \in Nat
    BY <1>3, BoundsAssumption DEF ArchiveFlag, TypeOK
  <2>2. [row[f] EXCEPT !.rev = seq + 1] \in [data : Data \cup {Absent}, rev : Revision]
    <3>1. row[f] \in [data : Data \cup {Absent}, rev : Revision]
      BY DEF TypeOK
    <3> QED BY <2>1, <3>1
  <2>3. row' = [row EXCEPT ![f] = [row[f] EXCEPT !.rev = seq + 1]]
    BY <1>3 DEF ArchiveFlag
  <2>4. row' \in [Flags -> [data : Data \cup {Absent}, rev : Revision]]
    BY <2>2, <2>3 DEF TypeOK
  <2>5. last' \in [Flags -> Nat] /\ overtaken' \in [Flags -> Nat]
    BY <1>3, <2>1 DEF ArchiveFlag, TypeOK
  <2> QED BY <1>3, <2>1, <2>4, <2>5 DEF ArchiveFlag, TypeOK
<1>4. ASSUME NEW w \in Writers, NEW s \in Rules \cup {NoSegment}, CommitSegment(w, s)
      PROVE  TypeOK'
  <2> DEFINE users == {f \in Flags : row[f].data \in Targeted}
             n == Cardinality(users)
  <2>1. n \in Nat
    <3>1. IsFiniteSet(users)
      BY FlagsAssumption, FS_Subset
    <3> QED BY <3>1, FS_CardinalityType
  <2>2. PICK rank \in Rankings(users) :
          /\ row' = [f \in Flags |->
                       IF f \in users
                         THEN [data |-> row[f].data, rev |-> seq + rank[f]]
                         ELSE row[f]]
          /\ Committed([f \in users |-> 2 * (seq + rank[f])])
          /\ job' = [job EXCEPT ![w] =
                       Working(IF users = {} THEN "idle" ELSE "publish",
                               {ChangeOf(f, [val |-> Expand(row[f].data, s),
                                             rev |-> seq + rank[f]]) : f \in users})]
    BY <1>4 DEF CommitSegment
  <2>3. seq + n \in Revision
    BY <1>4, <2>1, BoundsAssumption DEF CommitSegment, TypeOK
  <2>4. ASSUME NEW f \in users
        PROVE  /\ seq + rank[f] \in Revision
               /\ 2 * (seq + rank[f]) \in Nat
               /\ row[f].data \in Data
    <3>1. rank[f] \in 1 .. n
      BY DEF Rankings
    <3>2. seq \in Nat /\ seq + n <= MaxRevision
      BY <2>3, BoundsAssumption DEF TypeOK
    <3>3. row[f].data \in Data
      BY DataAssumption DEF TypeOK
    <3> QED
      <4> HIDE DEF n, users
      <4> QED BY <2>1, <3>1, <3>2, <3>3, BoundsAssumption
  <2>5. \A f \in users : ChangeOf(f, [val |-> Expand(row[f].data, s),
                                       rev |-> seq + rank[f]]) \in Change
    BY <2>4, ExpandType, ChangeType DEF Slot
  <2> DEFINE J == Working(IF users = {} THEN "idle" ELSE "publish",
                          {ChangeOf(f, [val |-> Expand(row[f].data, s),
                                        rev |-> seq + rank[f]]) : f \in users})
  <2>6. J \in Job /\ J.pc # "expand"
    <3> DEFINE S == {ChangeOf(f, [val |-> Expand(row[f].data, s),
                                  rev |-> seq + rank[f]]) : f \in users}
    <3>1. S \subseteq Change
      BY <2>5
    <3> HIDE DEF S, users
    <3>2. Working(IF users = {} THEN "idle" ELSE "publish", S) \in Job
      BY <3>1, WorkingType
    <3> QED BY <3>2 DEF Working, S
  <2>7. row' \in [Flags -> [data : Data \cup {Absent}, rev : Revision]]
    BY <2>2, <2>4 DEF TypeOK
  <2>8. last' \in [Flags -> Nat] /\ overtaken' \in [Flags -> Nat] /\ unheard' \subseteq Flags
    <3>1. [f \in users |-> 2 * (seq + rank[f])] \in [users -> Nat] /\ users \in SUBSET Flags
      BY <2>4
    <3> HIDE DEF users
    <3> QED BY <2>2, <3>1, CommittedFacts
  <2>9. /\ job' \in [Writers -> Job]
        /\ \A v \in Writers : job'[v].pc = "expand" => \A m \in job'[v].todo : m.val # Absent
    <3>1. job' = [job EXCEPT ![w] = J]
      BY <2>2
    <3> HIDE DEF J
    <3> QED BY <2>6, <3>1 DEF TypeOK
  <2> QED BY <1>4, <2>3, <2>7, <2>8, <2>9 DEF CommitSegment, TypeOK
<1>5. ASSUME NEW w \in Writers, NEW m \in job[w].todo,
             Publish(w, m) \/ PublishFails(w, m) \/ PublishGivesUp(w, m)
      PROVE  TypeOK'
  <2>1. job[w] \in Job /\ m \in Change /\ m \in Message
    BY MessageType DEF TypeOK, Job
  <2>2. Published(m) \in [Instances -> Seq(Message)]
    BY <2>1, PublishedType
  <2>3. /\ Finished(w, m) \in [Writers -> Job]
        /\ \A v \in Writers : Finished(w, m)[v].pc = "expand" => Finished(w, m)[v] = job[v]
    <3>1. job[w].todo \ {m} \in SUBSET Change
      BY <2>1 DEF Job
    <3> DEFINE J == Working(IF job[w].todo = {m} THEN "idle" ELSE "publish", job[w].todo \ {m})
    <3>2. J \in Job /\ J.pc # "expand"
      BY <3>1, WorkingType DEF Working
    <3>3. Finished(w, m) = [job EXCEPT ![w] = J]
      BY DEF Finished, TypeOK
    <3> HIDE DEF J
    <3> QED BY <3>2, <3>3 DEF TypeOK
  <2>4. CASE Publish(w, m)
    <3>1. \A v \in Writers : job'[v].pc = "expand" => \A e \in job'[v].todo : e.val # Absent
      BY <2>3, <2>4 DEF Publish, TypeOK
    <3> QED BY <2>2, <2>3, <2>4, <3>1 DEF Publish, TypeOK
  <2>5. CASE PublishFails(w, m)
    <3>1. [job[w] EXCEPT !.retry = {m}] \in Job
      BY <2>1 DEF Job
    <3>2. job' = [job EXCEPT ![w] = [job[w] EXCEPT !.retry = {m}]]
      BY <2>5 DEF PublishFails
    <3>3. job' \in [Writers -> Job]
      BY <3>1, <3>2 DEF TypeOK
    <3> QED BY <2>2, <2>5, <3>3, FaultType DEF PublishFails, TypeOK
  <2>6. CASE PublishGivesUp(w, m)
    <3>1. Home[w] \in Instances
      BY HomeAssumption
    <3>2. \A v \in Writers : job'[v].pc = "expand" => \A e \in job'[v].todo : e.val # Absent
      BY <2>3, <2>6 DEF PublishGivesUp, TypeOK
    <3>3. /\ rx' \in [Clients -> Seq(Message \cup {Lagged})]
          /\ \A c \in Clients : Len(rx'[c]) <= RxCapacity
      BY <2>1, <2>6, <3>1, BroadcastType DEF PublishGivesUp
    <3>4. resync' \in [Instances -> {"idle", "pending", "sent"}]
      BY <2>6, <3>1 DEF PublishGivesUp, TypeOK
    <3> QED BY <2>2, <2>3, <2>6, <3>2, <3>3, <3>4, FaultType DEF PublishGivesUp, TypeOK
  <2> QED BY <1>5, <2>4, <2>5, <2>6
<1>6. ASSUME NEW w \in Writers, LoadSegments(w) \/ LoadSegmentsFails(w)
      PROVE  TypeOK'
  <2>1. job[w] \in Job
    BY DEF TypeOK
  <2>2. [job[w] EXCEPT !.pc = "publish"] \in Job
    BY <2>1 DEF Job
  <2>3. CASE LoadSegmentsFails(w)
    <3>1. job' = [job EXCEPT ![w] = [job[w] EXCEPT !.pc = "publish"]]
      BY <2>3 DEF LoadSegmentsFails
    <3>2. job' \in [Writers -> Job]
      BY <2>2, <3>1 DEF TypeOK
    <3>3. unheard' \subseteq Flags
      BY <1>6, <2>1, <2>3 DEF LoadSegmentsFails, Missed, Unpublished, TypeOK, Job, Change
    <3> QED BY <2>3, <3>2, <3>3, FaultType DEF LoadSegmentsFails, Missed, TypeOK
  <2>4. CASE LoadSegments(w)
    <3> DEFINE expanded == {[m EXCEPT !.val = Expand(m.val.data, segment)] : m \in job[w].todo}
    <3>1. \A m \in job[w].todo : m \in Change /\ m.val \in Content
      BY <2>1, <2>4 DEF LoadSegments, Job, Change, TypeOK
    <3>2. \A m \in job[w].todo : Expand(m.val.data, segment) \in Content
      BY <3>1, ExpandType DEF Content, TypeOK
    <3>3. expanded \subseteq Change
      BY <3>1, <3>2 DEF Change
    <3>4. job' = [job EXCEPT ![w] = [job[w] EXCEPT !.pc = "publish", !.todo = expanded]]
      BY <2>4 DEF LoadSegments
    <3>5. [job[w] EXCEPT !.pc = "publish", !.todo = expanded] \in Job
      BY <2>1, <3>3 DEF Job
    <3>6. job' \in [Writers -> Job]
      BY <3>4, <3>5 DEF TypeOK
    <3> QED BY <2>4, <3>6 DEF LoadSegments, TypeOK
  <2> QED BY <1>6, <2>3, <2>4
<1>7. ASSUME NEW w \in Writers, AbandonRequest(w)
      PROVE  TypeOK'
  <2>1. job[w] \in Job
    BY DEF TypeOK
  <2>2. unheard' \subseteq Flags
    BY <1>7, <2>1 DEF AbandonRequest, Missed, Unpublished, TypeOK, Job, Change
  <2>3. NoJob.pc # "expand"
    BY DEF NoJob, Working
  <2>4. /\ job' \in [Writers -> Job]
        /\ \A v \in Writers : job'[v].pc = "expand" => \A m \in job'[v].todo : m.val # Absent
    BY <1>7, <2>3, NoJobType DEF AbandonRequest, TypeOK
  <2> QED BY <1>7, <2>2, <2>4, FaultType DEF AbandonRequest, Missed, TypeOK
<1>8. ASSUME NEW i \in Instances, ResyncPublish(i) \/ ResyncClear(i) \/ ResyncFails(i)
      PROVE  TypeOK'
  <2>1. Published(Resync) \in [Instances -> Seq(Message)]
    BY PublishedType, MessageType
  <2>2. CASE ResyncPublish(i)
    BY <2>1, <2>2 DEF ResyncPublish, TypeOK
  <2>3. CASE ResyncClear(i)
    BY <2>3 DEF ResyncClear, TypeOK
  <2>4. CASE ResyncFails(i)
    BY <2>1, <2>4, FaultType DEF ResyncFails, TypeOK
  <2> QED BY <1>8, <2>2, <2>3, <2>4
<1>9. ASSUME NEW i \in Instances, Subscribe(i)
      PROVE  TypeOK'
  <2>1. /\ Broadcast(i, Resync) \in [Clients -> Seq(Message \cup {Lagged})]
        /\ \A c \in Clients : Len(Broadcast(i, Resync)[c]) <= RxCapacity
    BY BroadcastType, MessageType
  <2> QED BY <1>9, <2>1 DEF Subscribe, TypeOK
<1>10. ASSUME NEW i \in Instances, SubscriptionDrops(i)
       PROVE  TypeOK'
  BY <1>10 DEF SubscriptionDrops, Fault, TypeOK
<1>11. ASSUME NEW i \in Instances, Forward(i)
       PROVE  TypeOK'
  <2>1. Head(inbox[i]) \in Message /\ Tail(inbox[i]) \in Seq(Message)
    BY <1>11, HeadTailProperties DEF Forward, TypeOK
  <2> QED BY <1>11, <2>1, BroadcastType DEF Forward, TypeOK
<1>12. ASSUME NEW i \in Instances, Crash(i)
       PROVE  TypeOK'
  <2>1. \A w \in Writers : Unpublished(w) \subseteq Flags
    BY DEF TypeOK, Job, Unpublished, Change
  <2>2. unheard' \subseteq Flags
    BY <1>12, <2>1 DEF Crash, Missed, TypeOK
  <2>3. NoJob.pc # "expand"
    BY DEF NoJob, Working
  <2>4. /\ job' \in [Writers -> Job]
        /\ \A v \in Writers : job'[v].pc = "expand" => \A m \in job'[v].todo : m.val # Absent
    BY <1>12, <2>3, NoJobType DEF Crash, TypeOK
  <2>5. /\ UNCHANGED <<row, tomb, segment, seq, last, overtaken, view, seen>>
        /\ \E C : Closed(C)
    BY <1>12 DEF Crash, Missed
  <2>6. /\ resync' \in [Instances -> {"idle", "pending", "sent"}]
        /\ sub' \in [Instances -> {"never", "up", "down"}]
        /\ inbox' \in [Instances -> Seq(Message)]
    BY <1>12 DEF Crash, TypeOK
  <2> QED BY <1>12, <2>2, <2>4, <2>5, <2>6, ClosedType, FaultType DEF Crash, TypeOK
<1>13. ASSUME NEW c \in Clients, NEW i \in Instances, Connect(c, i)
       PROVE  TypeOK'
  BY <1>13 DEF Connect, TypeOK
<1>14. ASSUME NEW c \in Clients, ReadSnapshot(c)
       PROVE  TypeOK'
  <2>1. [f \in Flags |-> DbSlot(f)] \in [Flags -> Slot]
    BY DbSlotType
  <2> QED BY <1>14, <2>1, UnknownType DEF ReadSnapshot, TypeOK
<1>15. ASSUME NEW c \in Clients, NEW f \in Flags, Replay(c, f)
       PROVE  TypeOK'
  BY <1>15 DEF Replay, TypeOK
<1>16. ASSUME NEW c \in Clients, Ready(c)
       PROVE  TypeOK'
  <2>1. \A f \in Flags : Larger(seen[c][f], Stamp(staged[c][f])) \in Nat
    BY BoundsAssumption DEF Larger, Stamp, Slot, TypeOK
  <2> QED BY <1>16, <2>1, UnknownType DEF Ready, TypeOK
<1>17. ASSUME NEW c \in Clients, Receive(c)
       PROVE  TypeOK'
  <2> DEFINE m == Head(rx[c])
  <2>1. m \in Change
    <3>1. rx[c] # <<>> /\ rx[c] \in Seq(Message \cup {Lagged}) /\ m.type = "change"
      BY <1>17 DEF Receive, TypeOK
    <3>2. m \in Message \cup {Lagged}
      BY <3>1, HeadTailProperties
    <3>3. Resync.type # "change" /\ Lagged.type # "change"
      BY DEF Resync, Lagged
    <3> QED BY <3>1, <3>2, <3>3 DEF Message
  <2>2. /\ Tail(rx[c]) \in Seq(Message \cup {Lagged})
        /\ Len(Tail(rx[c])) <= RxCapacity
    BY <1>17, HeadTailProperties, LenProperties, BoundsAssumption DEF Receive, TypeOK
  <2>3. m.key \in Flags /\ SlotOf(m) \in Slot /\ Stamp(SlotOf(m)) \in Nat
    BY <2>1, BoundsAssumption DEF Change, SlotOf, Slot, Stamp
  <2>4. Larger(seen[c][m.key], Stamp(SlotOf(m))) \in Nat
    BY <2>3 DEF Larger, TypeOK
  <2>5. view' \in [Clients -> [Flags -> Slot]] /\ seen' \in [Clients -> [Flags -> Nat]]
    <3>1. CASE UNCHANGED sdkVars
      BY <3>1 DEF TypeOK
    <3>2. CASE /\ view' = [view EXCEPT ![c][m.key] = SlotOf(m)]
               /\ seen' = [seen EXCEPT ![c][m.key] = Larger(@, Stamp(SlotOf(m)))]
      BY <2>3, <2>4, <3>2 DEF TypeOK
    <3> QED BY <1>17, <3>1, <3>2 DEF Receive, Apply
  <2> QED BY <1>17, <2>2, <2>5 DEF Receive, TypeOK
<1>18. ASSUME NEW c \in Clients, EndStream(c) \/ ConnectionDrops(c)
       PROVE  TypeOK'
  <2>1. CASE EndStream(c)
    BY <2>1, ClosedType DEF EndStream, TypeOK
  <2>2. CASE ConnectionDrops(c)
    BY <2>2, ClosedType, FaultType DEF ConnectionDrops, TypeOK
  <2> QED BY <1>18, <2>1, <2>2
<1>19. ASSUME UNCHANGED vars
       PROVE  TypeOK'
  BY <1>19 DEF vars, TypeOK
<1> QED
  BY <1>1, <1>2, <1>3, <1>4, <1>5, <1>6, <1>7, <1>8, <1>9, <1>10, <1>11, <1>12, <1>13,
     <1>14, <1>15, <1>16, <1>17, <1>18, <1>19, <1>20
  DEF Next, Write, Emit, Server, Client, CreateFlag, PatchFlag, PromoteFlag, UpsertFlag,
      CreateSegment, PatchSegment, DeleteSegment

\* The variables keep their types, in particular no queue of a connection is
\* longer than the broadcast channel.
THEOREM TypeCorrect == Spec => []TypeOK
<1>1. Init => TypeOK
  BY InitTypeOK
<1>2. TypeOK /\ [Next]_vars => TypeOK'
  BY NextTypeOK
<1> QED BY <1>1, <1>2, PTL DEF Spec

-----------------------------------------------------------------------------
(***************************************************************************)
(* IInv is an inductive invariant; NoTimeTravel, WholeSnapshots and the    *)
(* refinement of FlagFeed follow from it.                                  *)
(*                                                                         *)
(* The steps fall into three groups: those that only move events (QuietStep *)
(* below), the transactions (CommitStep), and the three steps that give a   *)
(* client a new snapshot or a new state.                                   *)
(***************************************************************************)

(* Events in queues. *)

LEMMA QueueSets ==
    ASSUME NEW S, NEW q \in Seq(S), NEW m \in S
    PROVE  /\ ToSet(Append(q, m)) = ToSet(q) \cup {m}
           /\ q # <<>> => Head(q) \in ToSet(q) /\ ToSet(Tail(q)) \subseteq ToSet(q)
<1>1. ToSet(Append(q, m)) = ToSet(q) \cup {m}
  <2>1. /\ Append(q, m) \in Seq(S)
        /\ Len(Append(q, m)) = Len(q) + 1
        /\ \A k \in 1 .. Len(q) : Append(q, m)[k] = q[k]
        /\ Append(q, m)[Len(q) + 1] = m
    BY AppendProperties
  <2>2. Len(q) \in Nat /\ DOMAIN q = 1 .. Len(q) /\ DOMAIN Append(q, m) = 1 .. Len(q) + 1
    BY <2>1, LenProperties
  <2> QED BY <2>1, <2>2 DEF ToSet
<1>2. ASSUME q # <<>> PROVE Head(q) \in ToSet(q) /\ ToSet(Tail(q)) \subseteq ToSet(q)
  <2>1. Len(q) \in Nat \ {0} /\ DOMAIN q = 1 .. Len(q) /\ Head(q) = q[1]
    BY <1>2, EmptySeq, LenProperties
  <2>2. /\ Len(Tail(q)) = Len(q) - 1
        /\ DOMAIN Tail(q) = 1 .. Len(Tail(q))
        /\ \A k \in 1 .. Len(Tail(q)) : Tail(q)[k] = q[k + 1]
    BY <1>2, HeadTailProperties, LenProperties
  <2> QED BY <2>1, <2>2 DEF ToSet
<1> QED BY <1>1, <1>2

LEMMA PushSet ==
    ASSUME NEW q \in Seq(Message \cup {Lagged}), NEW m \in Message
    PROVE  ToSet(Push(q, m)) \subseteq ToSet(q) \cup {m, Lagged}
<1>1. ToSet(<<Lagged>>) = {Lagged}
  <2>1. \A x : <<x>> \in Seq({x}) /\ Len(<<x>>) = 1 /\ <<x>>[1] = x
    OBVIOUS
  <2>2. DOMAIN <<Lagged>> = 1 .. 1
    BY <2>1, LenProperties
  <2> QED BY <2>1, <2>2 DEF ToSet
<1>2. ToSet(Append(q, m)) = ToSet(q) \cup {m}
  <2>1. m \in Message \cup {Lagged}
    OBVIOUS
  <2> QED BY <2>1, QueueSets
<1>3. Push(q, m) \in {q, Append(q, m), <<Lagged>>}
  BY DEF Push
<1>4. CASE Push(q, m) = q
  BY <1>4
<1>5. CASE Push(q, m) = Append(q, m)
  BY <1>2, <1>5
<1>6. CASE Push(q, m) = <<Lagged>>
  <2>1. ToSet(Push(q, m)) = ToSet(<<Lagged>>)
    BY <1>6
  <2> QED BY <1>1, <2>1
<1> QED BY <1>3, <1>4, <1>5, <1>6

LEMMA BroadcastSet ==
    ASSUME TypeOK, NEW i \in Instances, NEW m \in Message, NEW c \in Clients
    PROVE  ToSet(Broadcast(i, m)[c]) \subseteq ToSet(rx[c]) \cup {m, Lagged}
BY PushSet DEF TypeOK, Broadcast

LEMMA PublishedSet ==
    ASSUME TypeOK, NEW m \in Message, NEW i \in Instances
    PROVE  ToSet(Published(m)[i]) \subseteq ToSet(inbox[i]) \cup {m}
<1>1. ToSet(Append(inbox[i], m)) = ToSet(inbox[i]) \cup {m}
  BY QueueSets DEF TypeOK
<1> QED BY <1>1 DEF TypeOK, Published

LEMMA InFlightMember ==
    /\ \A w \in Writers : job[w].todo \subseteq InFlight
    /\ \A i \in Instances : ToSet(inbox[i]) \subseteq InFlight
    /\ \A c \in Clients : ToSet(rx[c]) \subseteq InFlight
BY DEF InFlight

\* What is under way after a step, from what each place holds.
LEMMA InFlightAfter ==
    ASSUME NEW N,
           \A w \in Writers : job'[w].todo \subseteq InFlight \cup N,
           \A i \in Instances : ToSet(inbox'[i]) \subseteq InFlight \cup N,
           \A c \in Clients : ToSet(rx'[c]) \subseteq InFlight \cup N
    PROVE  InFlight' \subseteq InFlight \cup N
<1>1. InFlight' = (UNION {job'[w].todo : w \in Writers})
                     \cup (UNION {ToSet(inbox'[i]) : i \in Instances})
                     \cup (UNION {ToSet(rx'[c]) : c \in Clients})
  BY DEF InFlight, ToSet
<1> HIDE DEF InFlight
<1> QED BY <1>1

\* Signals that are not events of a flag.
Signals == {Resync, Lagged}

LEMMA EventsAfter ==
    ASSUME InFlight' \subseteq InFlight \cup Signals, NEW f \in Flags
    PROVE  EventsOf(f)' \subseteq EventsOf(f)
<1>1. EventsOf(f)' = {m \in InFlight' : m.type = "change" /\ m.key = f}
  BY DEF EventsOf
<1>2. \A m \in Signals : m.type # "change"
  BY DEF Signals, Resync, Lagged
<1> QED BY <1>1, <1>2 DEF EventsOf

LEMMA EventType ==
    ASSUME TypeOK, NEW f \in Flags, NEW m \in EventsOf(f)
    PROVE  m \in Change /\ m.key = f
<1>1. \A w \in Writers : job[w].todo \subseteq Change
  BY DEF TypeOK, Job
<1>2. \A i \in Instances : ToSet(inbox[i]) \subseteq Message
  <2> SUFFICES ASSUME NEW i \in Instances PROVE ToSet(inbox[i]) \subseteq Message
    OBVIOUS
  <2>1. inbox[i] \in Seq(Message)
    BY DEF TypeOK
  <2>2. DOMAIN inbox[i] = 1 .. Len(inbox[i])
    BY <2>1, LenProperties
  <2> QED BY <2>1, <2>2, ElementOfSeq DEF ToSet
<1>3. \A c \in Clients : ToSet(rx[c]) \subseteq Message \cup {Lagged}
  <2> SUFFICES ASSUME NEW c \in Clients PROVE ToSet(rx[c]) \subseteq Message \cup {Lagged}
    OBVIOUS
  <2>1. rx[c] \in Seq(Message \cup {Lagged})
    BY DEF TypeOK
  <2>2. DOMAIN rx[c] = 1 .. Len(rx[c])
    BY <2>1, LenProperties
  <2> QED BY <2>1, <2>2, ElementOfSeq DEF ToSet
<1>4. Resync.type # "change" /\ Lagged.type # "change"
  BY DEF Resync, Lagged
<1>5. m \in InFlight /\ m.type = "change" /\ m.key = f
  BY DEF EventsOf
<1> QED BY <1>1, <1>2, <1>3, <1>4, <1>5 DEF InFlight, Message

-----------------------------------------------------------------------------
(* Steps that only move events, and change no committed or live state. *)

\* No handler draws a revision for a row to come.
DrawsKept ==
    \A w \in Writers :
        job'[w].pc = "insert" => job[w].pc = "insert" /\ job'[w].draw = job[w].draw

LEMMA DrawsAfter ==
    ASSUME DrawsOK, DrawsKept, TypeOK, TypeOK', seq' >= seq
    PROVE  DrawsOK'
<1>1. \A w \in Writers : job[w].draw \in Nat /\ seq \in Nat /\ seq' \in Nat
  BY BoundsAssumption DEF TypeOK, Job
<1> QED BY <1>1 DEF DrawsOK, DrawsKept

\* The only job that changes is not about to insert.
LEMMA JobDraws ==
    ASSUME TypeOK, NEW w \in Writers, NEW J, J.pc # "insert",
           job' = [job EXCEPT ![w] = J]
    PROVE  DrawsKept
BY DEF TypeOK, DrawsKept

LEMMA SameDraws == ASSUME UNCHANGED job PROVE DrawsKept
BY DEF DrawsKept

LEMMA QuietStep ==
    ASSUME IInv, TypeOK',
           UNCHANGED <<row, tomb, last, overtaken, view, seen>>,
           seq' >= seq,
           \A f \in Flags : \A m \in EventsOf(f)' : \E n \in EventsOf(f) :
              m.rev = n.rev /\ Stamp(SlotOf(m)) = Stamp(SlotOf(n)),
           \A c \in Clients : phase'[c] = "boot" => phase[c] = "boot" /\ boot'[c] = boot[c]
    PROVE  HistoryOK' /\ EventsOK' /\ ClientsOK'
<1>1. HistoryOK'
  <2> SUFFICES ASSUME NEW f \in Flags PROVE HistoryOf(f)'
    BY DEF HistoryOK
  <2>1. HistoryOf(f) /\ last[f] \in Nat /\ seq \in Nat /\ seq' \in Nat
    BY BoundsAssumption DEF IInv, HistoryOK, TypeOK
  <2>2. last'[f] <= 2 * seq' + 1
    BY <2>1 DEF HistoryOf
  <2>3. InOrder(f)' = InOrder(f)
    BY DEF InOrder
  <2>4. EventsOf(f) = {} => EventsOf(f)' = {}
    OBVIOUS
  <2> QED BY <2>1, <2>2, <2>3, <2>4 DEF HistoryOf
<1>2. EventsOK'
  BY DEF IInv, EventsOK
<1>3. ClientsOK'
  <2> SUFFICES ASSUME NEW c \in Clients, NEW f \in Flags
               PROVE  HoldsOK(c, f)' /\ (seen'[c][f] > overtaken'[f] => GuardedOK(c, f)')
    BY DEF ClientsOK, HoldsOK, GuardedOK, Guards, Stamp
  <2>1. ASSUME NEW s, Guards(c, f, s) PROVE Guards(c, f, s)'
    BY <2>1 DEF Guards
  <2>2. HoldsOK(c, f) /\ (seen[c][f] > overtaken[f] => GuardedOK(c, f))
    BY DEF IInv, ClientsOK
  <2>3. HoldsOK(c, f)'
    BY <2>2 DEF HoldsOK, Stamp
  <2>4. ASSUME seen[c][f] > overtaken[f] PROVE GuardedOK(c, f)'
    <3>1. phase'[c] = "boot" => Guards(c, f, boot[c][f])'
      BY <2>1, <2>2, <2>4 DEF GuardedOK
    <3>2. Guards(c, f, view[c][f])'
      BY <2>1, <2>2, <2>4 DEF GuardedOK
    <3> QED BY <2>2, <2>4, <3>1, <3>2 DEF GuardedOK, Stamp
  <2> QED BY <2>3, <2>4
<1> QED BY <1>1, <1>2, <1>3

\* QuietStep for a step that brings no event, and draws nothing.
LEMMA MovingStep ==
    ASSUME IInv, TypeOK', ReplayOK', DrawsKept,
           UNCHANGED <<row, tomb, seq, last, overtaken, view, seen>>,
           InFlight' \subseteq InFlight \cup Signals,
           \A c \in Clients : phase'[c] = "boot" => phase[c] = "boot" /\ boot'[c] = boot[c]
    PROVE  IInv'
<1>1. \A f \in Flags : \A m \in EventsOf(f)' : \E n \in EventsOf(f) :
         m.rev = n.rev /\ Stamp(SlotOf(m)) = Stamp(SlotOf(n))
  BY EventsAfter
<1>2. seq' >= seq
  BY SeqType DEF IInv
<1>3. HistoryOK' /\ EventsOK' /\ ClientsOK'
  BY <1>1, <1>2, QuietStep
<1>4. DrawsOK'
  BY <1>2, DrawsAfter DEF IInv
<1> QED BY <1>3, <1>4 DEF IInv

LEMMA ReplayUnchanged ==
    ASSUME ReplayOK, UNCHANGED <<phase, boot, todo, staged>>
    PROVE  ReplayOK'
BY DEF ReplayOK

LEMMA ReplayClosed ==
    ASSUME ReplayOK, NEW C, Closed(C)
    PROVE  /\ ReplayOK'
           /\ \A c \in Clients : phase'[c] = "boot" => phase[c] = "boot" /\ boot'[c] = boot[c]
           /\ \A c \in Clients : ToSet(rx'[c]) \subseteq ToSet(rx[c])
<1>1. ToSet(<<>>) = {}
  BY DEF ToSet
<1> QED BY <1>1 DEF ReplayOK, Closed, NoFlags

\* Handlers publish, the retry loop and the subscriptions work or fail.
LEMMA ServerMoves ==
    ASSUME IInv, TypeOK', NEW i \in Instances,
           \/ ResyncPublish(i) \/ ResyncClear(i) \/ ResyncFails(i)
           \/ Subscribe(i) \/ SubscriptionDrops(i) \/ Forward(i) \/ Crash(i)
    PROVE  IInv' /\ InFlight' \subseteq InFlight \cup Signals
<1> USE DEF dbVars, serverVars, connVars, sdkVars
<1>t. TypeOK /\ ReplayOK
  BY DEF IInv
<1>1. CASE ResyncPublish(i) \/ ResyncClear(i) \/ ResyncFails(i) \/ SubscriptionDrops(i)
  <2>1. /\ UNCHANGED <<row, tomb, seq, last, overtaken, view, seen>>
        /\ UNCHANGED <<phase, boot, todo, staged>>
        /\ UNCHANGED <<job, rx>>
        /\ \A j \in Instances : \/ inbox'[j] = inbox[j]
                                \/ inbox'[j] = Published(Resync)[j]
                                \/ inbox'[j] = <<>>
    BY <1>1, <1>t DEF ResyncPublish, ResyncClear, ResyncFails, SubscriptionDrops, TypeOK
  <2>2. ASSUME NEW j \in Instances PROVE ToSet(inbox'[j]) \subseteq InFlight \cup Signals
    <3>1. ToSet(<<>>) = {}
      BY DEF ToSet
    <3>2. ToSet(Published(Resync)[j]) \subseteq ToSet(inbox[j]) \cup {Resync}
      BY <1>t, PublishedSet, MessageType
    <3> QED BY <2>1, <3>1, <3>2, InFlightMember DEF Signals
  <2>3. InFlight' \subseteq InFlight \cup Signals
    BY <2>1, <2>2, InFlightMember, InFlightAfter
  <2> QED BY <1>t, <2>1, <2>3, MovingStep, ReplayUnchanged, SameDraws
<1>2. CASE Subscribe(i)
  <2>1. ASSUME NEW c \in Clients PROVE ToSet(rx'[c]) \subseteq InFlight \cup Signals
    <3>1. rx' = rx \/ rx' = Broadcast(i, Resync)
      BY <1>2 DEF Subscribe
    <3>2. ToSet(Broadcast(i, Resync)[c]) \subseteq ToSet(rx[c]) \cup {Resync, Lagged}
      BY <1>t, BroadcastSet, MessageType
    <3> QED BY <3>1, <3>2, InFlightMember DEF Signals
  <2>2. InFlight' \subseteq InFlight \cup Signals
    BY <1>2, <2>1, InFlightMember, InFlightAfter DEF Subscribe
  <2> QED BY <1>2, <1>t, <2>2, MovingStep, ReplayUnchanged, SameDraws DEF Subscribe
<1>3. CASE Forward(i)
  <2> DEFINE m == Head(inbox[i])
  <2>1. m \in Message /\ m \in InFlight /\ ToSet(Tail(inbox[i])) \subseteq InFlight
    <3>1. inbox[i] \in Seq(Message) /\ inbox[i] # <<>>
      BY <1>3, <1>t DEF Forward, TypeOK
    <3>2. m \in Message
      BY <3>1, HeadTailProperties
    <3>3. m \in ToSet(inbox[i]) /\ ToSet(Tail(inbox[i])) \subseteq ToSet(inbox[i])
      BY <3>1, <3>2, QueueSets
    <3> QED BY <3>2, <3>3, InFlightMember
  <2>2. ASSUME NEW c \in Clients PROVE ToSet(rx'[c]) \subseteq InFlight \cup Signals
    <3>1. ToSet(Broadcast(i, m)[c]) \subseteq ToSet(rx[c]) \cup {m, Lagged}
      BY <1>t, <2>1, BroadcastSet
    <3> QED BY <1>3, <2>1, <3>1, InFlightMember DEF Forward, Signals
  <2>3. \A j \in Instances : ToSet(inbox'[j]) \subseteq InFlight \cup Signals
    <3>1. \A j \in Instances : inbox'[j] = IF j = i THEN Tail(inbox[i]) ELSE inbox[j]
      BY <1>3, <1>t DEF Forward, TypeOK
    <3> QED BY <2>1, <3>1, InFlightMember
  <2>4. InFlight' \subseteq InFlight \cup Signals
    BY <1>3, <2>2, <2>3, InFlightMember, InFlightAfter DEF Forward
  <2> QED BY <1>3, <1>t, <2>4, MovingStep, ReplayUnchanged, SameDraws DEF Forward
<1>4. CASE Crash(i)
  <2>1. PICK C : Closed(C)
    BY <1>4 DEF Crash
  <2>2. \A w \in Writers : job'[w].todo \subseteq InFlight \cup Signals
    BY <1>4, InFlightMember DEF Crash, NoJob, Working
  <2>3. \A j \in Instances : ToSet(inbox'[j]) \subseteq InFlight \cup Signals
    <3>1. \A j \in Instances : inbox'[j] = <<>> \/ inbox'[j] = inbox[j]
      BY <1>4, <1>t DEF Crash, TypeOK
    <3>2. ToSet(<<>>) = {}
      BY DEF ToSet
    <3> QED BY <3>1, <3>2, InFlightMember
  <2>4. InFlight' \subseteq InFlight \cup Signals
    BY <1>t, <2>1, <2>2, <2>3, ReplayClosed, InFlightMember, InFlightAfter
  <2>5. DrawsKept
    BY <1>4, <1>t DEF Crash, NoJob, Working, TypeOK, DrawsKept
  <2>6. UNCHANGED <<row, tomb, seq, last, overtaken, view, seen>>
    BY <1>4 DEF Crash, Missed
  <2> QED BY <1>t, <2>1, <2>4, <2>5, <2>6, MovingStep, ReplayClosed
<1> QED BY <1>1, <1>2, <1>3, <1>4

\* Handlers after their commit.
LEMMA HandlerMoves ==
    ASSUME IInv, TypeOK', NEW w \in Writers,
           \/ \E m \in job[w].todo : Publish(w, m) \/ PublishFails(w, m) \/ PublishGivesUp(w, m)
           \/ LoadSegments(w) \/ LoadSegmentsFails(w) \/ AbandonRequest(w)
           \/ DrawDefault(w) \/ Rollback(w)
    PROVE  IInv' /\ (InFlight' \subseteq InFlight \cup Signals \/ LoadSegments(w))
<1> USE DEF dbVars, serverVars, connVars, sdkVars
<1>t. TypeOK /\ ReplayOK /\ Home[w] \in Instances
  BY HomeAssumption DEF IInv
<1>1. ASSUME NEW m \in job[w].todo,
             Publish(w, m) \/ PublishFails(w, m) \/ PublishGivesUp(w, m)
      PROVE  IInv' /\ InFlight' \subseteq InFlight \cup Signals
  <2>1. m \in Message /\ m \in InFlight
    BY <1>t, MessageType, InFlightMember DEF TypeOK, Job
  <2>2. ASSUME NEW v \in Writers PROVE job'[v].todo \subseteq job[v].todo
    <3>1. job' = Finished(w, m) \/ job' = [job EXCEPT ![w].retry = {m}]
      BY <1>1 DEF Publish, PublishFails, PublishGivesUp
    <3>2. Finished(w, m)[v].todo \subseteq job[v].todo
      BY <1>t DEF Finished, Working, TypeOK, Job
    <3>3. [job EXCEPT ![w].retry = {m}][v].todo = job[v].todo
      <4>1. job[w] \in Job
        BY <1>t DEF TypeOK
      <4>2. [job[w] EXCEPT !.retry = {m}].todo = job[w].todo
        BY <4>1 DEF Job
      <4>3. [job EXCEPT ![w].retry = {m}][v] =
               IF v = w THEN [job[w] EXCEPT !.retry = {m}] ELSE job[v]
        BY <1>t DEF TypeOK
      <4> QED BY <4>2, <4>3
    <3> QED BY <3>1, <3>2, <3>3
  <2>3. ASSUME NEW j \in Instances PROVE ToSet(inbox'[j]) \subseteq InFlight \cup Signals
    <3>1. inbox' = inbox \/ inbox' = Published(m)
      BY <1>1 DEF Publish, PublishFails, PublishGivesUp
    <3>2. ToSet(Published(m)[j]) \subseteq ToSet(inbox[j]) \cup {m}
      BY <1>t, <2>1, PublishedSet
    <3> QED BY <2>1, <3>1, <3>2, InFlightMember
  <2>4. ASSUME NEW c \in Clients PROVE ToSet(rx'[c]) \subseteq InFlight \cup Signals
    <3>1. rx' = rx \/ rx' = Broadcast(Home[w], m)
      BY <1>1 DEF Publish, PublishFails, PublishGivesUp
    <3>2. ToSet(Broadcast(Home[w], m)[c]) \subseteq ToSet(rx[c]) \cup {m, Lagged}
      BY <1>t, <2>1, BroadcastSet
    <3> QED BY <2>1, <3>1, <3>2, InFlightMember DEF Signals
  <2>5. InFlight' \subseteq InFlight \cup Signals
    BY <2>2, <2>3, <2>4, InFlightMember, InFlightAfter
  <2>6. /\ UNCHANGED <<row, tomb, seq, last, overtaken, view, seen>>
        /\ UNCHANGED <<phase, boot, todo, staged>>
    BY <1>1 DEF Publish, PublishFails, PublishGivesUp
  <2>7. DrawsKept
    <3>1. CASE PublishFails(w, m)
      BY <1>t, <3>1 DEF PublishFails, TypeOK, DrawsKept, Job
    <3>2. CASE Publish(w, m) \/ PublishGivesUp(w, m)
      <4>1. job' = Finished(w, m)
        BY <3>2 DEF Publish, PublishGivesUp
      <4> QED BY <1>t, <4>1 DEF Finished, Working, TypeOK, DrawsKept
    <3> QED BY <1>1, <3>1, <3>2
  <2> QED BY <1>t, <2>5, <2>6, <2>7, MovingStep, ReplayUnchanged
<1>2. CASE LoadSegmentsFails(w) \/ AbandonRequest(w) \/ Rollback(w)
  <2>1. ASSUME NEW v \in Writers PROVE job'[v].todo \subseteq job[v].todo
    <3>1. job[w] \in Job
      BY <1>t DEF TypeOK
    <3>2. [job[w] EXCEPT !.pc = "publish"].todo = job[w].todo
      BY <3>1 DEF Job
    <3>3. CASE LoadSegmentsFails(w)
      <4>1. job' = [job EXCEPT ![w] = [job[w] EXCEPT !.pc = "publish"]]
        BY <3>3 DEF LoadSegmentsFails
      <4> QED BY <1>t, <3>2, <4>1 DEF TypeOK
    <3>4. CASE AbandonRequest(w) \/ Rollback(w)
      <4>1. job' = [job EXCEPT ![w] = NoJob] /\ NoJob.todo = {}
        BY <3>4 DEF AbandonRequest, Rollback, NoJob, Working
      <4> QED BY <1>t, <4>1 DEF TypeOK
    <3> QED BY <1>2, <3>3, <3>4
  <2>2. /\ UNCHANGED <<row, tomb, seq, last, overtaken, view, seen>>
        /\ UNCHANGED <<phase, boot, todo, staged>>
        /\ UNCHANGED <<inbox, rx>>
    BY <1>2 DEF LoadSegmentsFails, AbandonRequest, Rollback, Missed
  <2>4. DrawsKept
    <3>1. CASE LoadSegmentsFails(w)
      BY <1>t, <3>1 DEF LoadSegmentsFails, TypeOK, DrawsKept, Job
    <3>2. CASE AbandonRequest(w) \/ Rollback(w)
      <4>1. NoJob.pc # "insert" /\ job' = [job EXCEPT ![w] = NoJob]
        BY <3>2 DEF AbandonRequest, Rollback, NoJob, Working
      <4> QED BY <1>t, <4>1, JobDraws
    <3> QED BY <1>2, <3>1, <3>2
  <2>3. InFlight' \subseteq InFlight \cup Signals
    BY <2>1, <2>2, InFlightMember, InFlightAfter
  <2> QED BY <1>t, <2>2, <2>3, <2>4, MovingStep, ReplayUnchanged
<1>4. CASE DrawDefault(w)
  <2> DEFINE J == [Working("insert", {}) EXCEPT !.draw = seq + 1]
  <2>1. /\ UNCHANGED <<row, tomb, last, overtaken, view, seen>>
        /\ UNCHANGED <<phase, boot, todo, staged>>
        /\ UNCHANGED <<inbox, rx>>
        /\ seq' = seq + 1
        /\ job' = [job EXCEPT ![w] = J]
    BY <1>4 DEF DrawDefault
  <2>2. J.pc = "insert" /\ J.todo = {} /\ J.draw = seq + 1 /\ seq \in Nat
    BY <1>t, BoundsAssumption DEF Working, TypeOK
  <2> HIDE DEF J
  <2>3. InFlight' \subseteq InFlight
    <3>1. \A v \in Writers : job'[v].todo \subseteq job[v].todo
      BY <1>t, <2>1, <2>2 DEF TypeOK
    <3>2. InFlight' \subseteq InFlight \cup {}
      BY <2>1, <3>1, InFlightMember, InFlightAfter
    <3> QED BY <3>2
  <2>4. HistoryOK' /\ EventsOK' /\ ClientsOK'
    <3>1. \A f \in Flags : EventsOf(f)' \subseteq EventsOf(f)
      BY <2>3, EventsAfter
    <3>2. seq' >= seq
      BY <2>1, <2>2
    <3> QED BY <2>1, <3>1, <3>2, QuietStep
  <2>5. DrawsOK'
    <3>1. DrawsOK /\ \A v \in Writers : job[v].draw \in Nat
      BY <1>t, BoundsAssumption DEF IInv, TypeOK, Job
    <3>2. \A v \in Writers : job'[v] = IF v = w THEN J ELSE job[v]
      BY <1>t, <2>1 DEF TypeOK
    <3> QED BY <2>1, <2>2, <3>1, <3>2 DEF DrawsOK
  <2> QED BY <1>t, <2>1, <2>3, <2>4, <2>5, ReplayUnchanged DEF IInv
<1>3. CASE LoadSegments(w)
  <2> DEFINE Loaded(m) == [m EXCEPT !.val = Expand(m.val.data, segment)]
             N == {Loaded(m) : m \in job[w].todo}
  <2>1. ASSUME NEW m \in job[w].todo
        PROVE  /\ m \in Change /\ Loaded(m).type = m.type /\ Loaded(m).key = m.key
               /\ SlotOf(Loaded(m)).rev = m.rev
               /\ Stamp(SlotOf(Loaded(m))) = Stamp(SlotOf(m))
               /\ Loaded(m).rev = m.rev
    <3>1. m \in Change /\ m.val \in Content /\ m.val # Absent
      <4>1. job[w] \in Job /\ job[w].pc = "expand"
        BY <1>3, <1>t DEF LoadSegments, TypeOK
      <4>2. m \in Change /\ m.val # Absent
        BY <1>t, <4>1 DEF TypeOK, Job
      <4> QED BY <4>2 DEF Change
    <3>2. Expand(m.val.data, segment) # Absent
      BY <1>t, <3>1, ExpandType DEF TypeOK, Content
    <3> QED BY <3>1, <3>2 DEF Change, SlotOf, Stamp
  <2>2. UNCHANGED <<row, tomb, seq, last, overtaken, view, seen, inbox, rx>>
        /\ UNCHANGED <<phase, boot, todo, staged>>
    BY <1>3 DEF LoadSegments
  <2>3. \A v \in Writers : job'[v].todo = IF v = w THEN N ELSE job[v].todo
    <3>1. job[w] \in Job
      BY <1>t DEF TypeOK
    <3>2. [job[w] EXCEPT !.pc = "publish", !.todo = N].todo = N
      BY <3>1 DEF Job
    <3>3. job' = [job EXCEPT ![w] = [job[w] EXCEPT !.pc = "publish", !.todo = N]]
      BY <1>3 DEF LoadSegments
    <3> HIDE DEF N
    <3> QED BY <1>t, <3>2, <3>3 DEF TypeOK
  <2>4. InFlight' \subseteq InFlight \cup N
    <3> HIDE DEF N
    <3> QED BY <2>2, <2>3, InFlightMember, InFlightAfter
  <2>5. ASSUME NEW f \in Flags, NEW m \in EventsOf(f)'
        PROVE  \E n \in EventsOf(f) : m.rev = n.rev /\ Stamp(SlotOf(m)) = Stamp(SlotOf(n))
    <3>1. m \in InFlight \cup N /\ m.type = "change" /\ m.key = f
      BY <2>4 DEF EventsOf
    <3>2. CASE m \in InFlight
      BY <3>1, <3>2 DEF EventsOf
    <3>3. CASE m \in N
      <4>1. PICK n \in job[w].todo : m = Loaded(n)
        BY <3>3
      <4>2. n \in EventsOf(f)
        <5> HIDE DEF Loaded
        <5> QED BY <2>1, <3>1, <4>1, InFlightMember DEF EventsOf
      <4> HIDE DEF Loaded
      <4> QED BY <2>1, <4>1, <4>2
    <3> QED BY <3>1, <3>2, <3>3
  <2>7. seq' >= seq
    BY <1>t, <2>2, BoundsAssumption DEF TypeOK
  <2>6. HistoryOK' /\ EventsOK' /\ ClientsOK'
    BY <2>2, <2>5, <2>7, QuietStep
  <2>8. DrawsOK'
    <3>1. DrawsKept
      BY <1>3, <1>t DEF LoadSegments, TypeOK, DrawsKept, Job
    <3> QED BY <1>t, <2>7, <3>1, DrawsAfter DEF IInv
  <2> QED BY <1>3, <1>t, <2>2, <2>6, <2>8, ReplayUnchanged DEF IInv
<1> QED BY <1>1, <1>2, <1>3, <1>4

\* Connections open, replay and close.
LEMMA ConnectionMoves ==
    ASSUME IInv, TypeOK', NEW c \in Clients,
           \/ \E i \in Instances : Connect(c, i)
           \/ \E f \in Flags : Replay(c, f)
           \/ EndStream(c) \/ ConnectionDrops(c)
    PROVE  IInv' /\ InFlight' \subseteq InFlight \cup Signals
<1> USE DEF dbVars, serverVars, connVars, sdkVars
<1>t. TypeOK /\ ReplayOK
  BY DEF IInv
<1>1. ASSUME NEW i \in Instances, Connect(c, i) PROVE IInv' /\ InFlight' \subseteq InFlight \cup Signals
  <2>1. InFlight' \subseteq InFlight \cup Signals
    BY <1>1, InFlightMember, InFlightAfter DEF Connect
  <2>2. ReplayOK' /\ \A b \in Clients : phase'[b] = "boot" => phase[b] = "boot" /\ boot'[b] = boot[b]
    BY <1>1, <1>t DEF Connect, ReplayOK, TypeOK
  <2> QED BY <1>1, <2>1, <2>2, MovingStep, SameDraws DEF Connect
<1>2. ASSUME NEW f \in Flags, Replay(c, f) PROVE IInv' /\ InFlight' \subseteq InFlight \cup Signals
  <2>1. InFlight' \subseteq InFlight \cup Signals
    BY <1>2, InFlightMember, InFlightAfter DEF Replay
  <2>2. ReplayOK'
    BY <1>2, <1>t DEF Replay, ReplayOK, TypeOK
  <2> QED BY <1>2, <2>1, <2>2, MovingStep, SameDraws DEF Replay
<1>3. CASE EndStream(c) \/ ConnectionDrops(c)
  <2>1. Closed({c})
    BY <1>3 DEF EndStream, ConnectionDrops
  <2>2. /\ UNCHANGED <<row, tomb, seq, last, overtaken, view, seen>>
        /\ UNCHANGED <<job, inbox>>
    BY <1>3 DEF EndStream, ConnectionDrops
  <2>3. InFlight' \subseteq InFlight \cup Signals
    BY <1>t, <2>1, <2>2, ReplayClosed, InFlightMember, InFlightAfter
  <2> QED BY <1>t, <2>1, <2>2, <2>3, ReplayClosed, MovingStep, SameDraws
<1> QED BY <1>1, <1>2, <1>3

-----------------------------------------------------------------------------
(* Transactions. *)

\* The events of a flag after a handler got a new job.
LEMMA JobEvents ==
    ASSUME TypeOK, NEW w \in Writers, NEW J, job' = [job EXCEPT ![w] = J],
           UNCHANGED <<inbox, rx>>, NEW f \in Flags
    PROVE  EventsOf(f)' \subseteq EventsOf(f) \cup {m \in J.todo : m.key = f}
<1>1. \A v \in Writers : job'[v].todo = IF v = w THEN J.todo ELSE job[v].todo
  BY DEF TypeOK
<1>2. InFlight' \subseteq InFlight \cup J.todo
  BY <1>1, InFlightMember, InFlightAfter
<1> QED BY <1>2 DEF EventsOf

\* A flag is left alone, or moves to a new last state, whose events are new, or
\* to one among its earlier states.
Untouched(f) ==
    /\ row'[f] = row[f] /\ last'[f] = last[f] /\ overtaken'[f] = overtaken[f]
    /\ EventsOf(f)' \subseteq EventsOf(f)
Advanced(f) ==
    /\ last'[f] > last[f] /\ overtaken'[f] = overtaken[f]
    /\ \A m \in EventsOf(f)' :
          \/ m \in EventsOf(f)
          \/ m.rev # 0 /\ Stamp(SlotOf(m)) = last'[f]
Overtook(f) ==
    /\ last'[f] >= last[f] /\ overtaken'[f] = last'[f]
    /\ \A m \in EventsOf(f)' :
          \/ m \in EventsOf(f)
          \/ m.rev # 0 /\ Stamp(SlotOf(m)) <= last'[f]

\* What a transaction does to the history of f.
Lengthened(f) == last'[f] >= last[f] /\ overtaken'[f] \in {overtaken[f], last'[f]}

LEMMA CommitStep ==
    ASSUME IInv, TypeOK', HistoryOK', DrawsKept, seq' >= seq,
           UNCHANGED <<view, seen, phase, boot, todo, staged>>,
           \A f \in Flags : Untouched(f) \/ Advanced(f) \/ Overtook(f)
    PROVE  IInv' /\ \A f \in Flags : Lengthened(f)
<1>t. TypeOK /\ HistoryOK /\ EventsOK /\ ClientsOK /\ ReplayOK
  BY DEF IInv
<1>3. ASSUME NEW f \in Flags
      PROVE  Lengthened(f) /\ last[f] \in Nat /\ last'[f] \in Nat
  <2>1. last[f] \in Nat /\ last'[f] \in Nat
    BY <1>t DEF TypeOK
  <2>2. Untouched(f) \/ Advanced(f) \/ Overtook(f)
    OBVIOUS
  <2> QED BY <2>1, <2>2 DEF Untouched, Advanced, Overtook, Lengthened
<1>1. EventsOK'
  <2> SUFFICES ASSUME NEW f \in Flags, NEW m \in EventsOf(f)'
               PROVE  m.rev # 0 /\ Stamp(SlotOf(m)) <= last'[f]
    BY DEF EventsOK, Stamp, SlotOf
  <2>1. last[f] \in Nat /\ last'[f] \in Nat /\ last'[f] >= last[f]
    BY <1>3 DEF Lengthened
  <2>2. m \in EventsOf(f) => m.rev # 0 /\ Stamp(SlotOf(m)) <= last[f] /\ Stamp(SlotOf(m)) \in Int
    <3>1. ASSUME m \in EventsOf(f) PROVE Stamp(SlotOf(m)) \in Int
      <4>1. m \in Change
        BY <1>t, <3>1, EventType
      <4>2. m.rev \in Nat
        BY <4>1, BoundsAssumption DEF Change
      <4> QED BY <4>2 DEF Stamp, SlotOf
    <3> QED BY <1>t, <3>1 DEF EventsOK
  <2>3. CASE m \in EventsOf(f)
    BY <2>1, <2>2, <2>3
  <2>4. CASE m \notin EventsOf(f)
    BY <2>1, <2>4 DEF Untouched, Advanced, Overtook
  <2> QED BY <2>3, <2>4
<1>2. ClientsOK'
  <2> SUFFICES ASSUME NEW c \in Clients, NEW f \in Flags
               PROVE  HoldsOK(c, f)' /\ (seen'[c][f] > overtaken'[f] => GuardedOK(c, f)')
    BY DEF ClientsOK, HoldsOK, GuardedOK, Guards, Stamp
  <2>0. HoldsOK(c, f) /\ (seen[c][f] > overtaken[f] => GuardedOK(c, f)) /\ seen[c][f] \in Nat
    BY <1>t DEF ClientsOK, TypeOK
  <2>1. /\ last[f] \in Nat /\ last'[f] \in Nat /\ seen[c][f] \in Nat
        /\ 1 <= seen[c][f] /\ seen[c][f] <= last[f] /\ last'[f] >= last[f]
    BY <1>3, <2>0 DEF HoldsOK, Lengthened
  <2>2. HoldsOK(c, f)'
    <3>1. Stamp(boot[c][f]) \in Int
      <4>1. boot[c][f].rev \in Nat
        BY <1>t, BoundsAssumption DEF TypeOK, Slot
      <4> QED BY <4>1 DEF Stamp
    <3>2. phase[c] = "boot" => Stamp(boot[c][f]) <= last'[f]
      BY <2>0, <2>1, <3>1 DEF HoldsOK
    <3>3. 1 <= seen[c][f] /\ seen[c][f] <= last'[f]
      BY <2>1
    <3> QED BY <2>0, <3>2, <3>3 DEF HoldsOK, Stamp
  <2>3. CASE Overtook(f)
    <3>1. ~(seen'[c][f] > overtaken'[f])
      BY <2>1, <2>3 DEF Overtook
    <3> QED BY <2>2, <3>1
  <2>4. CASE Untouched(f) \/ Advanced(f)
    <3> SUFFICES ASSUME seen[c][f] > overtaken[f] PROVE GuardedOK(c, f)'
      BY <2>2, <2>4 DEF Untouched, Advanced
    <3>1. ASSUME NEW s, Guards(c, f, s) PROVE Guards(c, f, s)'
      <4>1. CASE s.rev # 0
        BY <3>1, <4>1 DEF Guards
      <4>2. CASE s.rev = 0
        <5>1. row'[f].data # Absent => 2 * row'[f].rev > seen[c][f]
          <6>1. CASE Untouched(f)
            BY <3>1, <4>2, <6>1 DEF Guards, Untouched
          <6>2. CASE Advanced(f)
            <7>1. overtaken[f] <= last[f] /\ overtaken[f] \in Nat
              BY <1>t DEF HistoryOK, HistoryOf, TypeOK
            <7>2. last'[f] > overtaken'[f]
              BY <2>1, <6>2, <7>1 DEF Advanced
            <7>3. row'[f].data # Absent => last'[f] = 2 * row'[f].rev
              BY <7>2 DEF HistoryOK, HistoryOf, InOrder
            <7> QED BY <2>1, <6>2, <7>3 DEF Advanced
          <6> QED BY <2>4, <6>1, <6>2
        <5>2. ASSUME NEW m \in EventsOf(f)' PROVE Stamp(SlotOf(m)) > seen[c][f]
          BY <2>1, <2>4, <3>1, <4>2 DEF Guards, Untouched, Advanced
        <5> QED BY <3>1, <4>2, <5>1, <5>2 DEF Guards, Stamp, SlotOf
      <4> QED BY <4>1, <4>2
    <3>2. Guards(c, f, view[c][f])' /\ (phase'[c] = "boot" => Guards(c, f, boot[c][f])')
      BY <2>0, <3>1 DEF GuardedOK
    <3> QED BY <2>0, <3>2 DEF GuardedOK, Stamp
  <2> QED BY <2>3, <2>4
<1>4. DrawsOK'
  BY <1>t, DrawsAfter DEF IInv
<1> QED BY <1>t, <1>1, <1>2, <1>3, <1>4, ReplayUnchanged DEF IInv

LEMMA ChangeFacts ==
    ASSUME NEW f, NEW v, NEW r \in Nat
    PROVE  LET e == ChangeOf(f, [val |-> v, rev |-> r]) IN
           /\ e.type = "change" /\ e.key = f /\ e.rev = r /\ e.val = v
           /\ Stamp(SlotOf(e)) = 2 * r + (IF v = Absent THEN 1 ELSE 0)
BY DEF ChangeOf, SlotOf, Stamp

\* What is known of the history of each flag.
LEMMA HistoryFacts ==
    ASSUME IInv, NEW f \in Flags
    PROVE  /\ 1 <= last[f] /\ last[f] <= 2 * seq + 1
           /\ last[f] \in Nat /\ overtaken[f] \in Nat /\ overtaken[f] <= last[f]
           /\ seq \in Nat /\ row[f].rev \in Nat /\ tomb[f] \in Nat
           /\ row[f].data # Absent => row[f].rev # 0 /\ 2 * row[f].rev <= last[f]
           /\ row[f].data = Absent => row[f].rev = 0
           /\ tomb[f] # 0 => 2 * tomb[f] + 1 <= last[f]
           /\ row[f].data = Absent /\ tomb[f] = 0 => EventsOf(f) = {}
           /\ last[f] > overtaken[f] =>
                 /\ row[f].data # Absent => last[f] = 2 * row[f].rev
                 /\ row[f].data = Absent /\ tomb[f] # 0 => last[f] = 2 * tomb[f] + 1
BY BoundsAssumption DEF IInv, HistoryOK, HistoryOf, TypeOK, InOrder

\* A flag that a transaction does not touch keeps its history.
LEMMA HistoryKept ==
    ASSUME IInv, NEW f \in Flags, Untouched(f), seq' >= seq, seq' \in Nat,
           tomb'[f] = tomb[f] \/ (tomb'[f] = 0 /\ EventsOf(f) = {})
    PROVE  HistoryOf(f)'
<1>1. last'[f] <= 2 * seq' + 1
  BY HistoryFacts DEF Untouched
<1>2. EventsOf(f) = {} => EventsOf(f)' = {}
  BY DEF Untouched
<1> QED BY <1>1, <1>2, HistoryFacts DEF Untouched, HistoryOf, InOrder

LEMMA StoreStep ==
    ASSUME IInv, TypeOK', NEW w \in Writers, NEW f \in Flags, NEW d \in Data,
           NEW r \in Nat \ {0}, r <= seq', seq' >= seq, StoreFlag(w, f, d, r)
    PROVE  IInv' /\ \A g \in Flags : Lengthened(g)
<1> USE DEF dbVars, serverVars, connVars, sdkVars
<1> DEFINE e == ChangeOf(f, [val |-> Expand(d, NoSegment), rev |-> r])
           J == Working("expand", {e})
<1>t. TypeOK /\ seq' \in Nat
  <2>1. TypeOK
    BY DEF IInv
  <2>2. seq' \in Revision
    BY DEF TypeOK
  <2> QED BY <2>1, <2>2, BoundsAssumption DEF Revision
<1>1. /\ job' = [job EXCEPT ![w] = J]
      /\ \A g \in Flags \ {f} :
            row'[g] = row[g] /\ last'[g] = last[g] /\ overtaken'[g] = overtaken[g]
      /\ row'[f].data = d /\ row'[f].rev = r
      /\ IF 2 * r > last[f] THEN last'[f] = 2 * r /\ overtaken'[f] = overtaken[f]
                           ELSE last'[f] = last[f] /\ overtaken'[f] = last[f]
      /\ tomb' = tomb
      /\ UNCHANGED <<inbox, rx>>
      /\ UNCHANGED <<view, seen, phase, boot, todo, staged>>
  <2>1. /\ row' = [row EXCEPT ![f] = [data |-> d, rev |-> r]]
        /\ Committed([g \in {f} |-> 2 * r])
        /\ job' = [job EXCEPT ![w] = J]
        /\ tomb' = tomb
        /\ UNCHANGED <<inbox, rx>>
        /\ UNCHANGED <<view, seen, phase, boot, todo, staged>>
    BY DEF StoreFlag
  <2>2. DOMAIN row = Flags
    BY <1>t DEF TypeOK
  <2>3. [g \in {f} |-> 2 * r] \in [{f} -> Nat] /\ {f} \in SUBSET Flags
        /\ [g \in {f} |-> 2 * r][f] = 2 * r
    OBVIOUS
  <2> DEFINE stamp == [g \in {f} |-> 2 * r]
  <2> HIDE DEF J, stamp
  <2>4. /\ \A g \in Flags \ {f} : last'[g] = last[g] /\ overtaken'[g] = overtaken[g]
        /\ IF 2 * r > last[f] THEN last'[f] = 2 * r /\ overtaken'[f] = overtaken[f]
                             ELSE last'[f] = last[f] /\ overtaken'[f] = last[f]
    <3>1. stamp \in [{f} -> Nat] /\ stamp[f] = 2 * r /\ Committed(stamp)
      BY <2>1, <2>3 DEF stamp
    <3>2. /\ \A g \in Flags \ {f} : last'[g] = last[g] /\ overtaken'[g] = overtaken[g]
          /\ \A g \in {f} : IF stamp[g] > last[g]
                             THEN last'[g] = stamp[g] /\ overtaken'[g] = overtaken[g]
                             ELSE last'[g] = last[g] /\ overtaken'[g] = last[g]
      BY <1>t, <2>3, <3>1, CommittedFacts
    <3> QED BY <3>1, <3>2
  <2> QED BY <2>1, <2>2, <2>4
<1>2. e.key = f /\ e.rev = r /\ Stamp(SlotOf(e)) = 2 * r /\ d # Absent
  <2>1. Expand(d, NoSegment) # Absent /\ d # Absent
    BY ExpandType, DataAssumption
  <2> QED BY <2>1, ChangeFacts
<1>3. ASSUME NEW g \in Flags
      PROVE  EventsOf(g)' \subseteq EventsOf(g) \cup (IF g = f THEN {e} ELSE {})
  <2>1. EventsOf(g)' \subseteq EventsOf(g) \cup {m \in J.todo : m.key = g}
    <3> HIDE DEF J
    <3> QED BY <1>t, <1>1, JobEvents
  <2>2. J.todo = {e}
    BY DEF Working
  <2> HIDE DEF e, J
  <2> QED BY <1>2, <2>1, <2>2
<1>4. DrawsKept
  <2>1. J.pc # "insert"
    BY DEF Working
  <2> HIDE DEF J
  <2> QED BY <1>t, <1>1, <2>1, JobDraws
<1> HIDE DEF e, J
<1>5. ASSUME NEW g \in Flags \ {f} PROVE Untouched(g)
  BY <1>1, <1>3 DEF Untouched
<1>6. Advanced(f) \/ Overtook(f)
  <2>1. last[f] \in Nat
    BY HistoryFacts
  <2>2. CASE 2 * r > last[f]
    BY <1>1, <1>2, <1>3, <2>2 DEF Advanced
  <2>3. CASE ~(2 * r > last[f])
    BY <1>1, <1>2, <1>3, <2>1, <2>3 DEF Overtook
  <2> QED BY <2>2, <2>3
<1>7. HistoryOK'
  <2> SUFFICES ASSUME NEW g \in Flags PROVE HistoryOf(g)'
    BY DEF HistoryOK
  <2>1. CASE g = f
    <3>1. /\ last[f] \in Nat /\ 1 <= last[f] /\ last[f] <= 2 * seq + 1 /\ seq \in Nat
          /\ overtaken[f] \in Nat /\ overtaken[f] <= last[f]
          /\ tomb[f] \in Nat /\ (tomb[f] # 0 => 2 * tomb[f] + 1 <= last[f])
      BY HistoryFacts
    <3> QED BY <1>t, <1>1, <1>2, <2>1, <3>1 DEF HistoryOf, InOrder
  <2>2. CASE g # f
    BY <1>t, <1>1, <1>5, <2>2, HistoryKept
  <2> QED BY <2>1, <2>2
<1> QED BY <1>1, <1>4, <1>5, <1>6, <1>7, CommitStep

LEMMA Transactions ==
    ASSUME IInv, TypeOK',
           \/ \E w \in Writers, f \in Flags, d \in Data : InsertFlag(w, f, d) \/ UpdateFlag(w, f, d)
           \/ \E w \in Writers, f \in Flags, old \in SUBSET Flags : DeleteFlag(w, f, old)
           \/ \E f \in Flags : ArchiveFlag(f)
           \/ \E w \in Writers, s \in Rules \cup {NoSegment} : CommitSegment(w, s)
    PROVE  IInv' /\ \A g \in Flags : Lengthened(g)
<1> USE DEF dbVars, serverVars, connVars, sdkVars
<1>t. TypeOK /\ HistoryOK /\ EventsOK /\ seq \in Nat
  BY SeqType DEF IInv
<1>1. ASSUME NEW w \in Writers, NEW f \in Flags, NEW d \in Data,
             InsertFlag(w, f, d) \/ UpdateFlag(w, f, d)
      PROVE  IInv' /\ \A g \in Flags : Lengthened(g)
  <2>1. CASE InsertFlag(w, f, d)
    <3>1. job[w].draw \in Nat \ {0} /\ job[w].draw <= seq
      BY <2>1, <1>t, BoundsAssumption DEF InsertFlag, IInv, DrawsOK, TypeOK, Job
    <3>2. seq' = seq /\ StoreFlag(w, f, d, job[w].draw)
      BY <2>1 DEF InsertFlag
    <3> QED BY <1>t, <3>1, <3>2, StoreStep
  <2>2. CASE UpdateFlag(w, f, d)
    <3>1. seq' = seq + 1 /\ StoreFlag(w, f, d, seq + 1)
      BY <2>2 DEF UpdateFlag
    <3> QED BY <1>t, <3>1, StoreStep
  <2> QED BY <1>1, <2>1, <2>2
<1>2. ASSUME NEW w \in Writers, NEW f \in Flags, NEW old \in SUBSET Flags, DeleteFlag(w, f, old)
      PROVE  IInv' /\ \A g \in Flags : Lengthened(g)
  <2> DEFINE e == ChangeOf(f, [val |-> Absent, rev |-> row[f].rev])
             J == Working("publish", {e})
             stamp == [g \in {f} |-> 2 * row[f].rev + 1]
  <2>0. /\ row[f].rev \in Nat /\ row[f].rev # 0 /\ row[f].data # Absent
        /\ 2 * row[f].rev <= last[f]
    BY <1>2, HistoryFacts DEF DeleteFlag
  <2>s. stamp \in [{f} -> Nat] /\ {f} \in SUBSET Flags /\ stamp[f] = 2 * row[f].rev + 1
    BY <2>0
  <2>c. /\ \A g \in Flags \ {f} : last'[g] = last[g] /\ overtaken'[g] = overtaken[g]
        /\ IF 2 * row[f].rev + 1 > last[f]
             THEN last'[f] = 2 * row[f].rev + 1 /\ overtaken'[f] = overtaken[f]
             ELSE last'[f] = last[f] /\ overtaken'[f] = last[f]
    <3>1. Committed(stamp)
      BY <1>2 DEF DeleteFlag
    <3> HIDE DEF stamp
    <3>2. /\ \A g \in Flags \ {f} : last'[g] = last[g] /\ overtaken'[g] = overtaken[g]
          /\ \A g \in {f} : IF stamp[g] > last[g]
                             THEN last'[g] = stamp[g] /\ overtaken'[g] = overtaken[g]
                             ELSE last'[g] = last[g] /\ overtaken'[g] = last[g]
      BY <1>t, <2>s, <3>1, CommittedFacts
    <3> QED BY <2>s, <3>2
  <2>1. /\ job' = [job EXCEPT ![w] = J]
        /\ \A g \in Flags :
              /\ row'[g] = IF g = f THEN [data |-> Absent, rev |-> 0] ELSE row[g]
              /\ tomb'[g] = IF g = f THEN Larger(tomb[f], row[f].rev)
                            ELSE IF g \in old THEN 0 ELSE tomb[g]
              /\ g \in old => EventsOf(g) = {}
        /\ seq' = seq
        /\ UNCHANGED <<inbox, rx>>
        /\ UNCHANGED <<view, seen, phase, boot, todo, staged>>
    BY <1>2, <1>t DEF DeleteFlag, Prunable, TypeOK
  <2>2. e.key = f /\ e.rev = row[f].rev /\ Stamp(SlotOf(e)) = 2 * row[f].rev + 1
    BY <2>0, ChangeFacts
  <2>3. ASSUME NEW g \in Flags
        PROVE  EventsOf(g)' \subseteq EventsOf(g) \cup (IF g = f THEN {e} ELSE {})
    <3>1. EventsOf(g)' \subseteq EventsOf(g) \cup {m \in J.todo : m.key = g}
      <4> HIDE DEF J
      <4> QED BY <1>t, <2>1, JobEvents
    <3>2. J.todo = {e}
      BY DEF Working
    <3> HIDE DEF e, J
    <3> QED BY <2>2, <3>1, <3>2
  <2>4. DrawsKept
    <3>1. J.pc # "insert"
      BY DEF Working
    <3> HIDE DEF J
    <3> QED BY <1>t, <2>1, <3>1, JobDraws
  <2> HIDE DEF e, J, stamp
  <2>5. ASSUME NEW g \in Flags \ {f} PROVE Untouched(g)
    BY <2>1, <2>3, <2>c DEF Untouched
  <2>6. Advanced(f) \/ Overtook(f)
    <3>1. last[f] \in Nat
      BY HistoryFacts
    <3>2. CASE 2 * row[f].rev + 1 > last[f]
      BY <2>0, <2>2, <2>3, <2>c, <3>2 DEF Advanced
    <3>3. CASE ~(2 * row[f].rev + 1 > last[f])
      BY <2>0, <2>2, <2>3, <2>c, <3>1, <3>3 DEF Overtook
    <3> QED BY <3>2, <3>3
  <2>7. HistoryOK'
    <3> SUFFICES ASSUME NEW g \in Flags PROVE HistoryOf(g)'
      BY DEF HistoryOK
    <3>1. CASE g = f
      <4>1. /\ last[f] \in Nat /\ 1 <= last[f] /\ last[f] <= 2 * seq + 1 /\ seq \in Nat
            /\ overtaken[f] \in Nat /\ overtaken[f] <= last[f]
            /\ tomb[f] \in Nat /\ (tomb[f] # 0 => 2 * tomb[f] + 1 <= last[f])
        BY HistoryFacts
      <4>2. row'[f].data = Absent /\ row'[f].rev = 0 /\ seq' = seq
            /\ tomb'[f] = IF tomb[f] >= row[f].rev THEN tomb[f] ELSE row[f].rev
        BY <2>1 DEF Larger
      <4>3. 2 * row[f].rev + 1 <= 2 * seq + 1
        BY <2>0, <4>1
      <4>4. /\ 1 <= last'[f] /\ last'[f] <= 2 * seq' + 1 /\ overtaken'[f] <= last'[f]
            /\ tomb'[f] # 0 /\ 2 * tomb'[f] + 1 <= last'[f]
            /\ last'[f] > overtaken'[f] => last'[f] = 2 * tomb'[f] + 1
        BY <2>0, <2>c, <4>1, <4>2, <4>3
      <4> QED BY <3>1, <4>2, <4>4 DEF HistoryOf, InOrder
    <3>2. CASE g # f
      BY <1>t, <2>1, <2>5, <3>2, HistoryKept
    <3> QED BY <3>1, <3>2
  <2>8. seq' >= seq
    BY <1>t, <2>1
  <2> QED BY <2>1, <2>4, <2>5, <2>6, <2>7, <2>8, CommitStep
<1>3. ASSUME NEW f \in Flags, ArchiveFlag(f)
      PROVE  IInv' /\ \A g \in Flags : Lengthened(g)
  <2>1. /\ row' = [row EXCEPT ![f] = [row[f] EXCEPT !.rev = seq + 1]]
        /\ row[f].data # Absent
        /\ last' = [last EXCEPT ![f] = 2 * (seq + 1)]
        /\ overtaken' = [overtaken EXCEPT ![f] = IF InOrder(f) THEN overtaken[f] ELSE 2 * (seq + 1)]
        /\ seq' = seq + 1 /\ tomb' = tomb
        /\ UNCHANGED <<job, inbox, rx>>
        /\ UNCHANGED <<view, seen, phase, boot, todo, staged>>
    BY <1>3 DEF ArchiveFlag
  <2>2. /\ \A g \in Flags \ {f} :
              row'[g] = row[g] /\ last'[g] = last[g] /\ overtaken'[g] = overtaken[g]
        /\ row'[f].data = row[f].data /\ row'[f].rev = seq + 1
        /\ last'[f] = 2 * (seq + 1)
        /\ overtaken'[f] = IF InOrder(f) THEN overtaken[f] ELSE 2 * (seq + 1)
    <3>1. row[f] \in [data : Data \cup {Absent}, rev : Revision]
      BY <1>t DEF TypeOK
    <3>2. /\ [row[f] EXCEPT !.rev = seq + 1].rev = seq + 1
          /\ [row[f] EXCEPT !.rev = seq + 1].data = row[f].data
      BY <3>1
    <3>3. DOMAIN row = Flags /\ DOMAIN last = Flags /\ DOMAIN overtaken = Flags
      BY <1>t DEF TypeOK
    <3> DEFINE r == [row[f] EXCEPT !.rev = seq + 1]
    <3> HIDE DEF r
    <3>4. row' = [row EXCEPT ![f] = r] /\ r.rev = seq + 1 /\ r.data = row[f].data
      BY <2>1, <3>2 DEF r
    <3> QED BY <2>1, <3>3, <3>4
  <2>3. ASSUME NEW g \in Flags PROVE EventsOf(g)' \subseteq EventsOf(g)
    <3>1. InFlight' \subseteq InFlight \cup Signals
      BY <2>1, InFlightMember, InFlightAfter
    <3> QED BY <3>1, EventsAfter
  <2>4. ASSUME NEW g \in Flags \ {f} PROVE Untouched(g)
    BY <2>2, <2>3 DEF Untouched
  <2>5. Advanced(f) \/ Overtook(f)
    <3>1. last'[f] > last[f] /\ last'[f] \in Nat /\ last[f] \in Nat
      BY <2>2, HistoryFacts
    <3> QED BY <2>2, <2>3, <3>1 DEF Advanced, Overtook
  <2>6. HistoryOK'
    <3> SUFFICES ASSUME NEW g \in Flags PROVE HistoryOf(g)'
      BY DEF HistoryOK
    <3>1. CASE g = f
      <4>1. /\ last[f] \in Nat /\ last[f] <= 2 * seq + 1 /\ seq \in Nat
            /\ overtaken[f] \in Nat /\ overtaken[f] <= last[f]
            /\ tomb[f] \in Nat /\ (tomb[f] # 0 => 2 * tomb[f] + 1 <= last[f])
        BY HistoryFacts
      <4> QED BY <2>1, <2>2, <3>1, <4>1 DEF HistoryOf, InOrder
    <3>2. CASE g # f
      BY <1>t, <2>1, <2>4, <3>2, HistoryKept
    <3> QED BY <3>1, <3>2
  <2>7. seq' >= seq
    BY <1>t, <2>1
  <2> QED BY <2>1, <2>4, <2>5, <2>6, <2>7, CommitStep, SameDraws
<1>4. ASSUME NEW w \in Writers, NEW s \in Rules \cup {NoSegment}, CommitSegment(w, s)
      PROVE  IInv' /\ \A g \in Flags : Lengthened(g)
  <2> DEFINE users == {f \in Flags : row[f].data \in Targeted}
             n == Cardinality(users)
  <2>1. n \in Nat
    <3>1. IsFiniteSet(users)
      BY FlagsAssumption, FS_Subset
    <3> QED BY <3>1, FS_CardinalityType
  <2>2. PICK rank \in Rankings(users) :
          /\ row' = [f \in Flags |->
                       IF f \in users
                         THEN [data |-> row[f].data, rev |-> seq + rank[f]]
                         ELSE row[f]]
          /\ Committed([f \in users |-> 2 * (seq + rank[f])])
          /\ job' = [job EXCEPT ![w] =
                       Working(IF users = {} THEN "idle" ELSE "publish",
                               {ChangeOf(f, [val |-> Expand(row[f].data, s),
                                             rev |-> seq + rank[f]]) : f \in users})]
    BY <1>4 DEF CommitSegment
  <2>3. /\ seq' = seq + n
        /\ UNCHANGED <<tomb, inbox, rx>>
        /\ UNCHANGED <<view, seen, phase, boot, todo, staged>>
    BY <1>4 DEF CommitSegment
  <2> DEFINE e(g) == ChangeOf(g, [val |-> Expand(row[g].data, s), rev |-> seq + rank[g]])
             J == Working(IF users = {} THEN "idle" ELSE "publish", {e(f) : f \in users})
  <2>4. ASSUME NEW g \in users
        PROVE  /\ g \in Flags /\ rank[g] \in Nat /\ 1 <= rank[g] /\ rank[g] <= n
               /\ row[g].data # Absent
               /\ e(g).key = g /\ e(g).rev = seq + rank[g]
               /\ Stamp(SlotOf(e(g))) = 2 * (seq + rank[g])
    <3>1. rank[g] \in 1 .. n
      BY DEF Rankings
    <3>2. row[g].data \in Data /\ row[g].data # Absent
      BY DataAssumption
    <3>3. Expand(row[g].data, s) # Absent
      BY <3>2, ExpandType
    <3>4. rank[g] \in Nat /\ 1 <= rank[g] /\ rank[g] <= n
      <4> HIDE DEF n, users
      <4> QED BY <2>1, <3>1
    <3>5. seq + rank[g] \in Nat
      BY <1>t, <3>4
    <3>6. Expand(row[g].data, s) # Absent => Stamp(SlotOf(e(g))) = 2 * (seq + rank[g])
      BY <3>5, ChangeFacts
    <3> QED BY <3>2, <3>3, <3>4, <3>5, <3>6, ChangeFacts
  <2>5. ASSUME NEW g \in Flags
        PROVE  EventsOf(g)' \subseteq EventsOf(g) \cup (IF g \in users THEN {e(g)} ELSE {})
    <3>1. EventsOf(g)' \subseteq EventsOf(g) \cup {m \in J.todo : m.key = g}
      <4>1. job' = [job EXCEPT ![w] = J]
        BY <2>2
      <4> HIDE DEF J
      <4> QED BY <1>t, <2>3, <4>1, JobEvents
    <3>2. J.todo = {e(f) : f \in users}
      BY DEF Working
    <3>3. \A f \in users : e(f).key = f
      BY <2>4
    <3> HIDE DEF e, J, users
    <3> QED BY <3>1, <3>2, <3>3
  <2>c. /\ \A g \in Flags \ users : last'[g] = last[g] /\ overtaken'[g] = overtaken[g]
        /\ \A g \in users : last'[g] = 2 * (seq + rank[g]) /\ overtaken'[g] = overtaken[g]
    <3> DEFINE stamp == [f \in users |-> 2 * (seq + rank[f])]
    <3>0. ASSUME NEW g \in users
          PROVE  2 * (seq + rank[g]) \in Nat /\ 2 * (seq + rank[g]) > last[g]
      <4>1. g \in Flags /\ rank[g] \in Nat /\ 1 <= rank[g]
        BY <2>4
      <4>2. last[g] \in Nat /\ last[g] <= 2 * seq + 1
        BY <4>1, HistoryFacts
      <4> HIDE DEF users
      <4> QED BY <1>t, <4>1, <4>2
    <3>1. stamp \in [users -> Nat] /\ users \in SUBSET Flags /\ Committed(stamp)
      BY <2>2, <3>0
    <3>2. \A g \in users : stamp[g] = 2 * (seq + rank[g]) /\ stamp[g] > last[g]
      BY <3>0
    <3> HIDE DEF stamp, users
    <3>3. /\ \A g \in Flags \ users : last'[g] = last[g] /\ overtaken'[g] = overtaken[g]
          /\ \A g \in users : IF stamp[g] > last[g]
                              THEN last'[g] = stamp[g] /\ overtaken'[g] = overtaken[g]
                              ELSE last'[g] = last[g] /\ overtaken'[g] = last[g]
      BY <1>t, <3>1, CommittedFacts
    <3> QED BY <3>2, <3>3
  <2>6. ASSUME NEW g \in users
        PROVE  /\ row'[g].data = row[g].data /\ row'[g].rev = seq + rank[g]
               /\ last'[g] = 2 * (seq + rank[g]) /\ overtaken'[g] = overtaken[g]
    BY <2>2, <2>c
  <2>7. ASSUME NEW g \in Flags \ users
        PROVE  row'[g] = row[g] /\ last'[g] = last[g] /\ overtaken'[g] = overtaken[g]
    BY <2>2, <2>c
  <2>d. DrawsKept
    <3>1. J.pc # "insert" /\ job' = [job EXCEPT ![w] = J]
      BY <2>2 DEF Working
    <3> HIDE DEF J
    <3> QED BY <1>t, <3>1, JobDraws
  <2>q. seq' >= seq /\ seq' \in Nat
    BY <1>t, <2>1, <2>3
  <2> HIDE DEF e, J, users, n
  <2>9. ASSUME NEW g \in Flags PROVE IF g \in users THEN Advanced(g) ELSE Untouched(g)
    <3>1. CASE g \in users
      <4>1. last'[g] > last[g] /\ e(g).rev # 0 /\ Stamp(SlotOf(e(g))) = last'[g]
        BY <2>4, <2>6, <3>1, HistoryFacts
      <4> QED BY <2>5, <2>6, <3>1, <4>1 DEF Advanced
    <3>2. CASE g \notin users
      BY <2>5, <2>7, <3>2 DEF Untouched
    <3> QED BY <3>1, <3>2
  <2>8. HistoryOK'
    <3> SUFFICES ASSUME NEW g \in Flags PROVE HistoryOf(g)'
      BY DEF HistoryOK
    <3>1. CASE g \in users
      <4>1. /\ row'[g].data # Absent /\ row'[g].rev = seq + rank[g]
            /\ last'[g] = 2 * (seq + rank[g]) /\ overtaken'[g] = overtaken[g]
            /\ rank[g] \in Nat /\ 1 <= rank[g] /\ rank[g] <= n
        BY <2>4, <2>6, <3>1
      <4>2. /\ last[g] \in Nat /\ last[g] <= 2 * seq + 1 /\ seq \in Nat
            /\ overtaken[g] \in Nat /\ overtaken[g] <= last[g]
            /\ tomb[g] \in Nat /\ (tomb[g] # 0 => 2 * tomb[g] + 1 <= last[g])
        BY HistoryFacts
      <4> QED BY <2>1, <2>3, <4>1, <4>2 DEF HistoryOf, InOrder
    <3>2. CASE g \notin users
      BY <2>3, <2>9, <2>q, <3>2, HistoryKept
    <3> QED BY <3>1, <3>2
  <2>0. \A g \in Flags : Untouched(g) \/ Advanced(g) \/ Overtook(g)
    BY <2>9
  <2> QED BY <2>0, <2>3, <2>8, <2>d, <2>q, CommitStep
<1> QED BY <1>1, <1>2, <1>3, <1>4

-----------------------------------------------------------------------------
(* Steps that give a client a snapshot or a state. *)

LEMMA StampValue ==
    ASSUME NEW s \in Slot
    PROVE  /\ s.rev \in Nat
           /\ Stamp(s) \in Nat
           /\ Stamp(s) = IF s.val = Absent THEN 2 * s.rev + 1 ELSE 2 * s.rev
BY BoundsAssumption DEF Slot, Stamp

\* What the database holds is a committed state, and guards every client that
\* holds one the stamps of the flag tell from it.
LEMMA SnapshotGuards ==
    ASSUME IInv, NEW c \in Clients, NEW f \in Flags
    PROVE  /\ seen[c][f] > overtaken[f] => Guards(c, f, DbSlot(f))
           /\ Stamp(DbSlot(f)) <= last[f]
           /\ DbSlot(f).rev = 0 => DbSlot(f) = Unknown
<1>t. TypeOK /\ HoldsOK(c, f) /\ seen[c][f] \in Nat
  BY DEF IInv, ClientsOK, TypeOK
<1>h. /\ 1 <= last[f] /\ last[f] \in Nat /\ overtaken[f] \in Nat
      /\ seen[c][f] <= last[f]
      /\ seen[c][f] > overtaken[f] => last[f] > overtaken[f]
  BY <1>t, HistoryFacts DEF HoldsOK
<1>s. DbSlot(f) \in Slot
  BY <1>t, DbSlotType
<1>1. CASE row[f].data # Absent
  <2>1. Expand(row[f].data, segment) # Absent
    BY <1>1, <1>t, ExpandType DEF TypeOK
  <2>2. DbSlot(f).val # Absent /\ DbSlot(f).rev = row[f].rev
    BY <1>1, <2>1 DEF DbSlot
  <2>3. /\ DbSlot(f).rev # 0 /\ Stamp(DbSlot(f)) <= last[f]
        /\ last[f] > overtaken[f] => Stamp(DbSlot(f)) = last[f]
    BY <1>1, <1>s, <2>2, HistoryFacts, StampValue
  <2> QED BY <1>h, <2>3 DEF Guards
<1>2. CASE row[f].data = Absent /\ tomb[f] # 0
  <2>1. DbSlot(f).val = Absent /\ DbSlot(f).rev = tomb[f]
    BY <1>2 DEF DbSlot
  <2>2. /\ DbSlot(f).rev # 0 /\ Stamp(DbSlot(f)) <= last[f]
        /\ last[f] > overtaken[f] => Stamp(DbSlot(f)) = last[f]
    BY <1>2, <1>s, <2>1, HistoryFacts, StampValue
  <2> QED BY <1>h, <2>2 DEF Guards
<1>3. CASE row[f].data = Absent /\ tomb[f] = 0
  <2>1. DbSlot(f) = Unknown /\ Unknown.rev = 0 /\ Stamp(Unknown) = 1
    BY <1>3 DEF DbSlot, Unknown, Stamp
  <2>2. EventsOf(f) = {}
    BY <1>3, HistoryFacts
  <2> QED BY <1>3, <1>h, <2>1, <2>2 DEF Guards
<1> QED BY <1>1, <1>2, <1>3

\* A step that touches the state of client c alone, and brings no event.
LEMMA ClientStep ==
    ASSUME IInv, TypeOK', ReplayOK', NEW c \in Clients,
           UNCHANGED <<row, tomb, seq, last, overtaken, job>>,
           InFlight' \subseteq InFlight,
           \A b \in Clients \ {c} : /\ view'[b] = view[b] /\ seen'[b] = seen[b]
                                     /\ phase'[b] = phase[b] /\ boot'[b] = boot[b],
           \A f \in Flags : HoldsOK(c, f)' /\ (seen'[c][f] > overtaken[f] => GuardedOK(c, f)')
    PROVE  IInv'
<1>1. \A f \in Flags : EventsOf(f)' \subseteq EventsOf(f)
  BY EventsAfter
<1>2. HistoryOK' /\ EventsOK'
  BY <1>1 DEF IInv, HistoryOK, HistoryOf, InOrder, EventsOK
<1>3. ClientsOK'
  <2> SUFFICES ASSUME NEW b \in Clients, NEW f \in Flags
               PROVE  HoldsOK(b, f)' /\ (seen'[b][f] > overtaken'[f] => GuardedOK(b, f)')
    BY DEF ClientsOK, HoldsOK, GuardedOK, Guards, Stamp
  <2>1. CASE b = c
    BY <2>1
  <2>2. CASE b # c
    <3>1. ASSUME NEW s, Guards(b, f, s) PROVE Guards(b, f, s)'
      BY <1>1, <2>2, <3>1 DEF Guards
    <3>2. HoldsOK(b, f) /\ (seen[b][f] > overtaken[f] => GuardedOK(b, f))
      BY DEF IInv, ClientsOK
    <3>3. HoldsOK(b, f)'
      BY <2>2, <3>2 DEF HoldsOK, Stamp
    <3>4. ASSUME seen[b][f] > overtaken[f] PROVE GuardedOK(b, f)'
      <4>1. /\ Guards(b, f, view[b][f])'
            /\ phase'[b] = "boot" => Guards(b, f, boot[b][f])'
        BY <2>2, <3>1, <3>2, <3>4 DEF GuardedOK
      <4> QED BY <2>2, <3>2, <3>4, <4>1 DEF GuardedOK, Stamp
    <3> QED BY <2>2, <3>3, <3>4
  <2> QED BY <2>1, <2>2
<1>4. DrawsOK'
  BY DEF IInv, DrawsOK
<1> QED BY <1>2, <1>3, <1>4 DEF IInv

LEMMA SnapshotRead ==
    ASSUME IInv, TypeOK', NEW c \in Clients, ReadSnapshot(c)
    PROVE  IInv'
<1> USE DEF dbVars, serverVars, connVars, sdkVars
<1>t. TypeOK /\ ClientsOK /\ ReplayOK
  BY DEF IInv
<1>1. /\ UNCHANGED <<row, tomb, segment, seq, last, overtaken, job, inbox, rx, view, seen>>
      /\ \A b \in Clients \ {c} : /\ phase'[b] = phase[b] /\ boot'[b] = boot[b]
                                   /\ todo'[b] = todo[b] /\ staged'[b] = staged[b]
      /\ phase'[c] = "boot"
      /\ staged'[c] = NoFlags
      /\ todo'[c] = {f \in Flags : DbSlot(f).rev # 0}
      /\ boot'[c] = [f \in Flags |-> DbSlot(f)]
  BY <1>t DEF ReadSnapshot, TypeOK
<1>2. InFlight' = InFlight
  BY <1>1 DEF InFlight
<1>3. ReplayOK'
  <2> SUFFICES ASSUME NEW b \in Clients, NEW f \in Flags
               PROVE  /\ phase'[b] = "boot" =>
                            staged'[b][f] = IF f \in todo'[b] THEN Unknown ELSE boot'[b][f]
                      /\ phase'[b] # "boot" => staged'[b][f] = Unknown /\ f \notin todo'[b]
    BY DEF ReplayOK
  <2>1. CASE b = c
    BY <1>1, <2>1, SnapshotGuards DEF NoFlags
  <2>2. CASE b # c
    BY <1>1, <1>t, <2>2 DEF ReplayOK
  <2> QED BY <2>1, <2>2
<1>4. ASSUME NEW f \in Flags
      PROVE  HoldsOK(c, f)' /\ (seen'[c][f] > overtaken[f] => GuardedOK(c, f)')
  <2>1. EventsOf(f)' = EventsOf(f)
    BY <1>2 DEF EventsOf
  <2>2. ASSUME NEW s, Guards(c, f, s) PROVE Guards(c, f, s)'
    BY <1>1, <2>1, <2>2 DEF Guards
  <2>3. boot'[c][f] = DbSlot(f)
    BY <1>1
  <2>4. HoldsOK(c, f) /\ (seen[c][f] > overtaken[f] => GuardedOK(c, f))
    BY <1>t DEF ClientsOK
  <2>5. HoldsOK(c, f)'
    BY <1>1, <2>3, <2>4, SnapshotGuards DEF HoldsOK, Stamp
  <2>6. ASSUME seen[c][f] > overtaken[f] PROVE GuardedOK(c, f)'
    <3>1. Guards(c, f, view[c][f])' /\ Guards(c, f, boot[c][f])'
      <4> DEFINE s == DbSlot(f)
      <4>1. Guards(c, f, s)
        BY <2>6, SnapshotGuards
      <4>2. boot'[c][f] = s
        BY <2>3
      <4> HIDE DEF s
      <4>3. Guards(c, f, boot[c][f])'
        BY <1>1, <2>1, <4>1, <4>2 DEF Guards, Stamp
      <4>4. Guards(c, f, view[c][f])'
        BY <1>1, <2>2, <2>4, <2>6 DEF GuardedOK
      <4> QED BY <4>3, <4>4
    <3> QED BY <1>1, <2>4, <2>6, <3>1 DEF GuardedOK, Stamp
  <2> QED BY <1>1, <2>5, <2>6
<1> QED BY <1>1, <1>2, <1>3, <1>4, ClientStep

LEMMA SnapshotApplied ==
    ASSUME IInv, TypeOK', NEW c \in Clients, Ready(c)
    PROVE  IInv'
<1> USE DEF dbVars, serverVars, connVars, sdkVars
<1>t. TypeOK /\ ClientsOK /\ ReplayOK
  BY DEF IInv
<1>1. /\ UNCHANGED <<row, tomb, seq, last, overtaken, job, inbox, rx, todo>>
      /\ \A b \in Clients \ {c} : /\ phase'[b] = phase[b] /\ boot'[b] = boot[b]
                                   /\ staged'[b] = staged[b]
                                   /\ view'[b] = view[b] /\ seen'[b] = seen[b]
      /\ phase[c] = "boot" /\ phase'[c] = "live" /\ todo[c] = {}
      /\ staged'[c] = NoFlags
      /\ view'[c] = staged[c]
      /\ \A f \in Flags : seen'[c][f] = Larger(seen[c][f], Stamp(staged[c][f]))
  BY <1>t DEF Ready, TypeOK
<1>2. InFlight' = InFlight
  BY <1>1 DEF InFlight
<1>3. ReplayOK'
  <2> SUFFICES ASSUME NEW b \in Clients, NEW f \in Flags
               PROVE  /\ phase'[b] = "boot" =>
                            staged'[b][f] = IF f \in todo'[b] THEN Unknown ELSE boot'[b][f]
                      /\ phase'[b] # "boot" => staged'[b][f] = Unknown /\ f \notin todo'[b]
    BY DEF ReplayOK
  <2>1. CASE b = c
    BY <1>1, <2>1 DEF NoFlags
  <2>2. CASE b # c
    BY <1>1, <1>t, <2>2 DEF ReplayOK
  <2> QED BY <2>1, <2>2
<1>4. ASSUME NEW f \in Flags
      PROVE  HoldsOK(c, f)' /\ (seen'[c][f] > overtaken[f] => GuardedOK(c, f)')
  <2> DEFINE s == boot[c][f]
  <2>1. view'[c][f] = s /\ seen'[c][f] = Larger(seen[c][f], Stamp(s))
    BY <1>1, <1>t DEF ReplayOK
  <2>2. /\ s \in Slot /\ Stamp(s) <= last[f] /\ (s.rev = 0 => s = Unknown)
        /\ 1 <= seen[c][f] /\ seen[c][f] <= last[f]
        /\ seen[c][f] \in Nat /\ last[f] \in Nat /\ overtaken[f] \in Nat
        /\ seen[c][f] > overtaken[f] => Guards(c, f, s)
    BY <1>1, <1>t DEF ClientsOK, HoldsOK, GuardedOK, TypeOK
  <2>3. Stamp(s) \in Nat
    BY <2>2, StampValue
  <2>4. EventsOf(f)' = EventsOf(f)
    BY <1>2 DEF EventsOf
  <2> HIDE DEF s
  <2>5. HoldsOK(c, f)'
    <3>1. /\ 1 <= seen'[c][f] /\ seen'[c][f] <= last'[f]
          /\ Stamp(s) <= seen'[c][f]
      BY <1>1, <2>1, <2>2, <2>3 DEF Larger
    <3> QED BY <1>1, <2>1, <2>2, <3>1 DEF HoldsOK, Stamp
  <2>6. ASSUME seen'[c][f] > overtaken[f] PROVE GuardedOK(c, f)'
    <3>1. CASE s.rev # 0
      <4>1. seen'[c][f] = Stamp(s)
        <5>1. CASE seen[c][f] > overtaken[f]
          BY <2>1, <2>2, <2>3, <3>1, <5>1 DEF Guards, Larger
        <5>2. CASE ~(seen[c][f] > overtaken[f])
          BY <2>1, <2>2, <2>3, <2>6, <5>2 DEF Larger
        <5> QED BY <5>1, <5>2
      <4> QED BY <1>1, <2>1, <2>2, <2>3, <3>1, <4>1 DEF GuardedOK, Guards, Stamp
    <3>2. CASE s.rev = 0
      <4>1. s = Unknown /\ Stamp(s) = 1
        BY <2>2, <3>2 DEF Unknown, Stamp
      <4>2. seen'[c][f] = seen[c][f]
        BY <2>1, <2>2, <4>1 DEF Larger
      <4>3. Guards(c, f, s)
        BY <2>2, <2>6, <4>2
      <4> QED BY <1>1, <2>1, <2>4, <3>2, <4>2, <4>3 DEF GuardedOK, Guards
    <3> QED BY <3>1, <3>2
  <2> QED BY <2>5, <2>6
<1> QED BY <1>1, <1>2, <1>3, <1>4, ClientStep

LEMMA EventApplied ==
    ASSUME IInv, TypeOK', NEW c \in Clients, Receive(c)
    PROVE  IInv'
<1> USE DEF dbVars, serverVars, connVars, sdkVars
<1> DEFINE m == Head(rx[c])
           k == m.key
<1>t. TypeOK /\ EventsOK /\ ClientsOK /\ ReplayOK
  BY DEF IInv
<1>1. /\ UNCHANGED <<row, tomb, seq, last, overtaken, job, inbox, phase, boot, todo, staged>>
      /\ phase[c] = "live" /\ rx[c] # <<>> /\ m.type = "change"
      /\ rx' = [rx EXCEPT ![c] = Tail(rx[c])]
      /\ Apply(c, m)
  BY DEF Receive
<1>2. /\ m \in InFlight /\ InFlight' \subseteq InFlight
  <2>1. rx[c] \in Seq(Message \cup {Lagged})
    BY <1>t DEF TypeOK
  <2>2. m \in Message \cup {Lagged}
    BY <1>1, <2>1, HeadTailProperties
  <2>3. m \in ToSet(rx[c]) /\ ToSet(Tail(rx[c])) \subseteq ToSet(rx[c])
    BY <1>1, <2>1, <2>2, QueueSets
  <2>4. \A b \in Clients : ToSet(rx'[b]) \subseteq InFlight
    <3>1. \A b \in Clients : rx'[b] = IF b = c THEN Tail(rx[c]) ELSE rx[b]
      BY <1>1, <1>t DEF TypeOK
    <3> QED BY <2>3, <3>1, InFlightMember
  <2>5. InFlight' \subseteq InFlight \cup {}
    BY <1>1, <2>4, InFlightMember, InFlightAfter
  <2> QED BY <2>3, <2>5, InFlightMember
<1> HIDE DEF m
<1>3. m \in Change /\ k \in Flags /\ m \in EventsOf(k)
  <2>1. m \in Message \cup {Lagged}
    <3>1. rx[c] \in Seq(Message \cup {Lagged})
      BY <1>t DEF TypeOK
    <3> QED BY <1>1, <3>1, HeadTailProperties DEF m
  <2>2. m \in Change
    BY <1>1, <2>1 DEF Message, Resync, Lagged
  <2> QED BY <1>1, <1>2, <2>2 DEF Change, EventsOf
<1>r. ReplayOK'
  BY <1>1, <1>t, ReplayUnchanged
<1>4. CASE IsStale(view[c][k], m)
  <2>1. UNCHANGED <<view, seen>>
    BY <1>1, <1>4 DEF Apply
  <2> QED BY <1>1, <1>2, <1>r, <2>1, MovingStep, SameDraws
<1>5. CASE ~IsStale(view[c][k], m)
  <2> DEFINE s == SlotOf(m)
             held == view[c][k]
  <2>1. /\ view' = [view EXCEPT ![c] = [view[c] EXCEPT ![k] = s]]
        /\ seen' = [seen EXCEPT ![c] = [seen[c] EXCEPT ![k] = Larger(seen[c][k], Stamp(s))]]
    BY <1>1, <1>5 DEF Apply
  <2>2. /\ \A b \in Clients \ {c} : view'[b] = view[b] /\ seen'[b] = seen[b]
        /\ \A f \in Flags \ {k} : view'[c][f] = view[c][f] /\ seen'[c][f] = seen[c][f]
        /\ view'[c][k] = s /\ seen'[c][k] = Larger(seen[c][k], Stamp(s))
    <3>1. /\ view[c] \in [Flags -> Slot] /\ seen[c] \in [Flags -> Nat]
          /\ view \in [Clients -> [Flags -> Slot]] /\ seen \in [Clients -> [Flags -> Nat]]
      BY <1>t DEF TypeOK
    <3> HIDE DEF s
    <3> QED BY <1>3, <2>1, <3>1
  <2>3. /\ held \in Slot /\ s \in Slot /\ s.rev = m.rev /\ s.val = m.val
        /\ seen[c][k] \in Nat /\ last[k] \in Nat /\ overtaken[k] \in Nat
        /\ 1 <= seen[c][k] /\ seen[c][k] <= last[k]
        /\ seen[c][k] > overtaken[k] => GuardedOK(c, k)
    BY <1>3, <1>t DEF TypeOK, Change, Slot, SlotOf, ClientsOK, HoldsOK
  <2>4. s.rev # 0 /\ Stamp(s) <= last[k]
    BY <1>3, <1>t, <2>3 DEF EventsOK
  <2>5. ASSUME seen[c][k] > overtaken[k] PROVE Stamp(s) >= seen[c][k]
    <3>1. CASE held.rev # 0
      <4>1. Stamp(held) = seen[c][k]
        BY <2>3, <2>5, <3>1 DEF GuardedOK
      <4>2. IF s.val # Absent /\ held.val = Absent THEN s.rev > held.rev ELSE s.rev >= held.rev
        <5>1. s.rev \in Nat /\ held.rev \in Nat
          BY <2>3, StampValue
        <5> HIDE DEF s, held
        <5>2. held.rev # 0 /\ ~IsStale(held, m)
          BY <1>5, <3>1 DEF held
        <5> QED BY <2>3, <5>1, <5>2 DEF IsStale
      <4>3. /\ s.rev \in Nat /\ held.rev \in Nat
            /\ Stamp(s) = IF s.val = Absent THEN 2 * s.rev + 1 ELSE 2 * s.rev
            /\ Stamp(held) = IF held.val = Absent THEN 2 * held.rev + 1 ELSE 2 * held.rev
        BY <2>3, StampValue
      <4> HIDE DEF s, held
      <4> QED BY <4>1, <4>2, <4>3
    <3>2. CASE held.rev = 0
      <4>1. Stamp(s) > seen[c][k]
        BY <1>3, <2>3, <2>5, <3>2 DEF GuardedOK, Guards
      <4> QED BY <2>3, <4>1, StampValue
    <3> QED BY <3>1, <3>2
  <2>6. Stamp(s) \in Nat
    BY <2>3, StampValue
  <2> HIDE DEF s, held
  <2>g. PICK g \in Flags : g = k
    BY <1>3
  <2>l. /\ view'[c][g] = s /\ phase'[c] = "live" /\ last'[g] = last[g]
        /\ overtaken'[g] = overtaken[g]
    BY <1>1, <2>2, <2>g
  <2>7. HoldsOK(c, g)'
    <3>1. /\ 1 <= seen'[c][g] /\ seen'[c][g] <= last'[g]
          /\ Stamp(s) <= seen'[c][g]
      BY <2>2, <2>3, <2>4, <2>6, <2>g, <2>l DEF Larger
    <3> QED BY <2>4, <2>l, <3>1 DEF HoldsOK, Stamp
  <2>8. ASSUME seen'[c][g] > overtaken[g] PROVE GuardedOK(c, g)'
    <3>1. seen'[c][g] = Stamp(s)
      <4>1. CASE seen[c][g] > overtaken[g]
        BY <2>2, <2>3, <2>5, <2>6, <2>g, <4>1 DEF Larger
      <4>2. CASE ~(seen[c][g] > overtaken[g])
        BY <2>2, <2>3, <2>6, <2>8, <2>g, <4>2 DEF Larger
      <4> QED BY <4>1, <4>2
    <3>2. Stamp(s) >= seen'[c][g]
      BY <2>6, <3>1
    <3> QED BY <2>4, <2>l, <3>1, <3>2 DEF GuardedOK, Guards, Stamp
  <2>9. ASSUME NEW f \in Flags
        PROVE  HoldsOK(c, f)' /\ (seen'[c][f] > overtaken[f] => GuardedOK(c, f)')
    <3>1. CASE f = g
      BY <2>7, <2>8, <3>1
    <3>2. CASE f # g
      <4>1. EventsOf(f)' \subseteq EventsOf(f)
        BY <1>2, EventsAfter
      <4>2. HoldsOK(c, f) /\ (seen[c][f] > overtaken[f] => GuardedOK(c, f))
        BY <1>t DEF ClientsOK
      <4>3. view'[c][f] = view[c][f] /\ seen'[c][f] = seen[c][f]
        BY <2>2, <2>g, <3>2
      <4>4. HoldsOK(c, f)'
        BY <1>1, <4>2, <4>3 DEF HoldsOK, Stamp
      <4> QED BY <1>1, <4>1, <4>2, <4>3, <4>4 DEF GuardedOK, Guards, Stamp
    <3> QED BY <3>1, <3>2
  <2> QED BY <1>1, <1>2, <1>r, <2>2, <2>9, ClientStep
<1> QED BY <1>4, <1>5

-----------------------------------------------------------------------------
(* The invariant. *)

LEMMA InitIInv == Init => IInv
<1> SUFFICES ASSUME Init PROVE IInv
  OBVIOUS
<1>1. TypeOK
  BY InitTypeOK
<1>2. Stamp(Unknown) = 1 /\ Unknown.rev = 0
  BY DEF Stamp, Unknown
<1>3. InFlight = {}
  <2>1. ToSet(<<>>) = {}
    BY DEF ToSet
  <2>2. /\ \A w \in Writers : job[w].todo = {}
        /\ \A i \in Instances : inbox[i] = <<>>
        /\ \A c \in Clients : rx[c] = <<>>
    BY DEF Init, NothingUnderWay, NoJob, Working
  <2> QED BY <2>1, <2>2 DEF InFlight
<1>4. \A f \in Flags : EventsOf(f) = {}
  BY <1>3 DEF EventsOf
<1>5. HistoryOK /\ EventsOK
  BY <1>2, <1>4 DEF Init, NothingUnderWay, HistoryOK, HistoryOf, EventsOK
<1>6. ClientsOK
  <2> SUFFICES ASSUME NEW c \in Clients, NEW f \in Flags PROVE HoldsOK(c, f) /\ GuardedOK(c, f)
    BY DEF ClientsOK
  <2>1. /\ seen[c][f] = 1 /\ last[f] = 1 /\ view[c][f] = Unknown
        /\ phase[c] = "closed" /\ row[f].data = Absent
    BY <1>2 DEF Init, NothingUnderWay, NoFlags
  <2> QED BY <1>2, <1>4, <2>1 DEF HoldsOK, GuardedOK, Guards
<1>8. DrawsOK
  BY DEF Init, NothingUnderWay, DrawsOK, NoJob, Working
<1>7. ReplayOK
  BY DEF Init, NothingUnderWay, ReplayOK, NoFlags
<1> QED BY <1>1, <1>5, <1>6, <1>7, <1>8 DEF IInv

\* Transactions lengthen histories, clients move forward, never both at once.
Progress ==
    \/ UNCHANGED <<view, seen>> /\ \A f \in Flags : Lengthened(f)
    \/ /\ UNCHANGED <<last, overtaken>>
       /\ \E c \in Clients :
             /\ \A b \in Clients \ {c} : seen'[b] = seen[b] /\ view'[b] = view[b]
             /\ \A f \in Flags : seen'[c][f] >= seen[c][f]

LEMMA NextIInv ==
    ASSUME IInv, [Next]_vars
    PROVE  IInv' /\ Progress
<1> USE DEF dbVars, serverVars, connVars, sdkVars
<1>t. TypeOK /\ TypeOK'
  BY NextTypeOK DEF IInv
<1>0. ASSUME UNCHANGED <<last, overtaken, seen, view>> PROVE Progress
  BY <1>0, <1>t DEF TypeOK, Progress, Lengthened
<1>1. CASE \/ \E w \in Writers, f \in Flags, d \in Data : InsertFlag(w, f, d) \/ UpdateFlag(w, f, d)
           \/ \E w \in Writers, f \in Flags, old \in SUBSET Flags : DeleteFlag(w, f, old)
           \/ \E f \in Flags : ArchiveFlag(f)
           \/ \E w \in Writers, s \in Rules \cup {NoSegment} : CommitSegment(w, s)
  <2>1. IInv' /\ \A f \in Flags : Lengthened(f)
    BY <1>1, <1>t, Transactions
  <2>2. UNCHANGED <<view, seen>>
    BY <1>1 DEF InsertFlag, UpdateFlag, StoreFlag, DeleteFlag, ArchiveFlag, CommitSegment
  <2> QED BY <2>1, <2>2 DEF Progress
<1>2. ASSUME NEW w \in Writers,
             \/ \E m \in job[w].todo : Publish(w, m) \/ PublishFails(w, m) \/ PublishGivesUp(w, m)
             \/ LoadSegments(w) \/ LoadSegmentsFails(w) \/ AbandonRequest(w)
             \/ DrawDefault(w) \/ Rollback(w)
      PROVE  IInv' /\ Progress
  <2>1. UNCHANGED <<last, overtaken, seen, view>>
    BY <1>2 DEF Publish, PublishFails, PublishGivesUp, LoadSegments, LoadSegmentsFails,
                AbandonRequest, DrawDefault, Rollback, Missed
  <2> QED BY <1>0, <1>2, <1>t, <2>1, HandlerMoves
<1>3. ASSUME NEW i \in Instances, Server(i)
      PROVE  IInv' /\ Progress
  <2>1. UNCHANGED <<last, overtaken, seen, view>>
    BY <1>3 DEF Server, ResyncPublish, ResyncClear, ResyncFails, Subscribe,
                SubscriptionDrops, Forward, Crash, Missed
  <2> QED BY <1>0, <1>3, <1>t, <2>1, ServerMoves DEF Server
<1>4. ASSUME NEW c \in Clients, Client(c)
      PROVE  IInv' /\ Progress
  <2>1. CASE \/ \E i \in Instances : Connect(c, i)
             \/ \E f \in Flags : Replay(c, f)
             \/ EndStream(c) \/ ConnectionDrops(c)
    <3>1. UNCHANGED <<last, overtaken, seen, view>>
      BY <2>1 DEF Connect, Replay, EndStream, ConnectionDrops
    <3> QED BY <1>0, <1>t, <2>1, <3>1, ConnectionMoves
  <2>2. CASE ReadSnapshot(c)
    <3>1. UNCHANGED <<last, overtaken, seen, view>>
      BY <2>2 DEF ReadSnapshot
    <3> QED BY <1>0, <1>t, <2>2, <3>1, SnapshotRead
  <2>3. CASE Ready(c)
    <3> DEFINE S == [f \in Flags |-> Larger(seen[c][f], Stamp(staged[c][f]))]
    <3>0. /\ UNCHANGED <<last, overtaken>>
          /\ seen' = [seen EXCEPT ![c] = S] /\ DOMAIN seen = Clients
          /\ view' = [view EXCEPT ![c] = staged[c]] /\ DOMAIN view = Clients
      BY <1>t, <2>3 DEF Ready, TypeOK
    <3>1. /\ UNCHANGED <<last, overtaken>>
          /\ \A b \in Clients \ {c} : seen'[b] = seen[b] /\ view'[b] = view[b]
          /\ \A f \in Flags : seen'[c][f] = Larger(seen[c][f], Stamp(staged[c][f]))
      BY <3>0
    <3>2. \A f \in Flags : seen[c][f] \in Nat /\ staged[c][f] \in Slot
      BY <1>t DEF TypeOK
    <3>3. \A f \in Flags : Stamp(staged[c][f]) \in Nat
      BY <3>2, StampValue
    <3> QED BY <1>t, <2>3, <3>1, <3>2, <3>3, SnapshotApplied DEF Progress, Larger
  <2>4. CASE Receive(c)
    <3>1. UNCHANGED <<last, overtaken>> /\ Apply(c, Head(rx[c]))
      BY <2>4 DEF Receive
    <3>2. CASE UNCHANGED sdkVars
      BY <1>0, <1>t, <2>4, <3>1, <3>2, EventApplied
    <3>3. CASE ~(UNCHANGED sdkVars)
      <4> DEFINE m == Head(rx[c])
                 k == m.key
                 s == SlotOf(m)
                 r == Stamp(s)
      <4>1. /\ seen' = [seen EXCEPT ![c] = [seen[c] EXCEPT ![k] = Larger(seen[c][k], r)]]
            /\ view' = [view EXCEPT ![c] = [view[c] EXCEPT ![k] = s]]
        BY <3>1, <3>3 DEF Apply
      <4>2. m \in Change
        <5>1. rx[c] \in Seq(Message \cup {Lagged}) /\ rx[c] # <<>> /\ m.type = "change"
          BY <1>t, <2>4 DEF TypeOK, Receive
        <5>2. m \in Message \cup {Lagged}
          BY <5>1, HeadTailProperties
        <5> QED BY <5>1, <5>2 DEF Message, Resync, Lagged
      <4>3. r \in Nat
        BY <4>2, StampValue DEF Change, SlotOf, Slot
      <4> HIDE DEF m, k, s, r
      <4>4. seen \in [Clients -> [Flags -> Nat]] /\ view \in [Clients -> [Flags -> Slot]]
        BY <1>t DEF TypeOK
      <4>5. \A f \in Flags : seen'[c][f] >= seen[c][f]
        BY <4>1, <4>3, <4>4 DEF Larger
      <4>6. \A b \in Clients \ {c} : seen'[b] = seen[b] /\ view'[b] = view[b]
        BY <4>1, <4>4
      <4> QED BY <1>t, <2>4, <3>1, <4>5, <4>6, EventApplied DEF Progress
    <3> QED BY <3>2, <3>3
  <2> QED BY <1>4, <2>1, <2>2, <2>3, <2>4 DEF Client
<1>5. CASE UNCHANGED vars
  <2>1. IInv'
    <3>1. HistoryOK' /\ EventsOK' /\ ClientsOK'
      BY <1>5 DEF vars, IInv, HistoryOK, HistoryOf, InOrder, EventsOK, EventsOf, InFlight,
                  ClientsOK, HoldsOK, GuardedOK, Guards, ToSet
    <3>2. DrawsOK' /\ ReplayOK'
      BY <1>5 DEF vars, IInv, DrawsOK, ReplayOK
    <3> QED BY <1>t, <3>1, <3>2 DEF IInv
  <2> QED BY <1>0, <1>5, <2>1 DEF vars
<1> QED
  BY <1>1, <1>2, <1>3, <1>4, <1>5
  DEF Next, Write, Emit, CreateFlag, PatchFlag, PromoteFlag, UpsertFlag, CreateSegment,
      PatchSegment, DeleteSegment

\* The inductive invariant: every slot that a client shows, or will show once
\* its bootstrap is applied, rejects whatever older is under way, unless the
\* client is among states whose stamps do not tell their order.
THEOREM Invariant == Spec => []IInv
<1>1. IInv /\ [Next]_vars => IInv'
  BY NextIInv
<1> QED BY <1>1, InitIInv, PTL DEF Spec

\* A slot that shows a flag shows it where the client has got to.
LEMMA ShownIsSeen ==
    ASSUME IInv, NEW c \in Clients, NEW f \in Flags, view[c][f].val # Absent,
           seen[c][f] > overtaken[f]
    PROVE  Stamp(view[c][f]) = seen[c][f]
BY DEF IInv, ClientsOK, HoldsOK, GuardedOK, Unknown

\* No client ever shows a flag in a state older than one it held before,
\* whatever fails, and in whatever order events and snapshots reach it, once it
\* holds a state above those a re-creation at an old revision has overtaken.
THEOREM NeverBack == Spec => []NoTimeTravel
<1>1. IInv => NoTimeTravel
  BY ShownIsSeen DEF NoTimeTravel
<1> QED BY <1>1, Invariant, PTL

\* Evaluations never see a part of a bootstrap.
THEOREM Whole == Spec => WholeSnapshots
<1> USE DEF dbVars, serverVars, connVars, sdkVars
<1> DEFINE WholeOf(c) ==
             view'[c] # view[c] =>
               \/ phase[c] = "boot" /\ view'[c] = boot[c]
               \/ phase[c] = "live" /\ \E f \in Flags : \A g \in Flags \ {f} :
                                           view'[c][g] = view[c][g]
<1>1. ASSUME IInv, [Next]_vars, NEW c \in Clients PROVE WholeOf(c)
  <2>1. CASE view' = view
    BY <2>1
  <2>2. ASSUME NEW b \in Clients, Ready(b) PROVE WholeOf(c)
    <3>1. \A f \in Flags : staged[b][f] = boot[b][f]
      BY <1>1, <2>2 DEF Ready, IInv, ReplayOK
    <3>2. staged[b] = boot[b]
      BY <1>1, <3>1 DEF IInv, TypeOK
    <3> QED BY <1>1, <2>2, <3>2 DEF Ready, IInv, TypeOK
  <2>3. ASSUME NEW b \in Clients, Receive(b), view' # view PROVE WholeOf(c)
    <3> DEFINE m == Head(rx[b])
    <3>1. /\ view' = [view EXCEPT ![b] = [view[b] EXCEPT ![m.key] = SlotOf(m)]]
          /\ phase[b] = "live"
      BY <2>3 DEF Receive, Apply
    <3>2. m.key \in Flags
      <4>1. rx[b] \in Seq(Message \cup {Lagged}) /\ rx[b] # <<>> /\ m.type = "change"
        BY <1>1, <2>3 DEF IInv, TypeOK, Receive
      <4>2. m \in Message \cup {Lagged}
        BY <4>1, HeadTailProperties
      <4> QED BY <4>1, <4>2 DEF Message, Resync, Lagged, Change
    <3> DEFINE k == m.key
               s == SlotOf(m)
    <3>3. view' = [view EXCEPT ![b] = [view[b] EXCEPT ![k] = s]] /\ k \in Flags
      BY <3>1, <3>2
    <3> HIDE DEF m, k, s
    <3>4. view \in [Clients -> [Flags -> Slot]]
      BY <1>1 DEF IInv, TypeOK
    <3> QED BY <3>1, <3>3, <3>4
  <2> HIDE DEF WholeOf
  <2>4. ASSUME NEW w \in Writers, Write(w) \/ Emit(w) \/ AbandonRequest(w) PROVE view' = view
    <3>1. CASE Write(w)
      BY <3>1 DEF Write, CreateFlag, PatchFlag, PromoteFlag, CreateSegment, PatchSegment,
                  DeleteSegment, DrawDefault, Rollback, UpsertFlag, InsertFlag, UpdateFlag,
                  StoreFlag, DeleteFlag, CommitSegment
    <3>2. CASE Emit(w) \/ AbandonRequest(w)
      BY <3>2 DEF Emit, LoadSegments, LoadSegmentsFails, Publish, PublishFails,
                  PublishGivesUp, AbandonRequest, Missed
    <3> QED BY <2>4, <3>1, <3>2
  <2>5. ASSUME NEW f \in Flags, ArchiveFlag(f) PROVE view' = view
    BY <2>5 DEF ArchiveFlag
  <2>6. ASSUME NEW i \in Instances, Server(i) PROVE view' = view
    BY <2>6 DEF Server, ResyncPublish, ResyncClear, ResyncFails, Subscribe,
                SubscriptionDrops, Forward, Crash, Missed
  <2>7. ASSUME NEW b \in Clients, Client(b) PROVE view' = view \/ Ready(b) \/ Receive(b)
    BY <2>7 DEF Client, Connect, ReadSnapshot, Replay, EndStream, ConnectionDrops
  <2>8. UNCHANGED vars => view' = view
    BY DEF vars
  <2> QED BY <1>1, <2>1, <2>2, <2>3, <2>4, <2>5, <2>6, <2>7, <2>8 DEF Next
<1>2. IInv /\ [Next]_vars => [\A c \in Clients : WholeOf(c)]_vars
  BY <1>1
<1> QED BY <1>2, Invariant, PTL DEF Spec, WholeSnapshots

-----------------------------------------------------------------------------
(* The refinement. *)

\* Where a client is, is the furthest it ever got, as far as the stamps tell.
PositionOf(c, f) ==
    /\ Position[c][f] \in Nat /\ 1 <= Position[c][f]
    /\ Position[c][f] <= seen[c][f] /\ seen[c][f] <= last[f]
    /\ seen[c][f] > overtaken[f] => Position[c][f] = seen[c][f]
PositionOK == \A c \in Clients, f \in Flags : PositionOf(c, f)

LEMMA PositionFacts == ASSUME IInv PROVE PositionOK
<1> SUFFICES ASSUME NEW c \in Clients, NEW f \in Flags PROVE PositionOf(c, f)
  BY DEF PositionOK
<1>1. /\ HoldsOK(c, f) /\ view[c][f] \in Slot
      /\ seen[c][f] \in Nat /\ overtaken[f] \in Nat /\ last[f] \in Nat
  BY DEF IInv, ClientsOK, TypeOK
<1>2. Position[c][f] = IF view[c][f].val # Absent THEN Stamp(view[c][f]) ELSE seen[c][f]
  BY DEF Position
<1>3. CASE view[c][f].val # Absent
  <2>1. view[c][f].rev \in Nat /\ view[c][f].rev # 0
    BY <1>1, <1>3, StampValue DEF HoldsOK, Unknown
  <2>2. Stamp(view[c][f]) = 2 * view[c][f].rev /\ Stamp(view[c][f]) <= seen[c][f]
    BY <1>1, <1>3, StampValue DEF HoldsOK
  <2>3. seen[c][f] > overtaken[f] => Stamp(view[c][f]) = seen[c][f]
    BY <1>3, ShownIsSeen
  <2> QED BY <1>1, <1>2, <1>3, <2>1, <2>2, <2>3 DEF HoldsOK, PositionOf
<1>4. CASE view[c][f].val = Absent
  BY <1>1, <1>2, <1>4 DEF HoldsOK, PositionOf
<1> QED BY <1>3, <1>4

LEMMA PositionNext == IInv' => PositionOK'
<1>1. IInv => PositionOK
  BY PositionFacts
<1> QED BY <1>1, PTL

\* Every behaviour of the propagation is one of the abstract feed: where the
\* history is in order clients go forward only, and never past what is committed.
THEOREM Refinement == Spec => ImplementsFeed
<1>o. Stamp(Unknown) = 1
  BY DEF Stamp, Unknown
<1>1. Init => Feed!Init
  <2> SUFFICES ASSUME Init PROVE Feed!Init
    OBVIOUS
  <2>1. Position = [c \in Clients |-> [f \in Flags |-> Stamp(Unknown)]]
    BY DEF Init, NothingUnderWay, NoFlags, Position, Unknown
  <2> QED BY <2>1 DEF Init, NothingUnderWay, Feed!Init
<1>2. ASSUME IInv, [Next]_vars PROVE [Feed!Next]_(Feed!vars)
  <2>1. IInv' /\ Progress
    BY <1>2, NextIInv
  <2>2. /\ last \in [Flags -> Nat] /\ last' \in [Flags -> Nat]
        /\ overtaken \in [Flags -> Nat] /\ overtaken' \in [Flags -> Nat]
        /\ seen \in [Clients -> [Flags -> Nat]] /\ seen' \in [Clients -> [Flags -> Nat]]
    BY <1>2, <2>1 DEF IInv, TypeOK
  <2>3. CASE UNCHANGED <<view, seen>> /\ \A f \in Flags : Lengthened(f)
    <3>1. Position' = Position
      BY <2>3 DEF Position, Stamp
    <3>2. last' = [f \in Flags |-> last'[f]] /\ overtaken' = [f \in Flags |-> overtaken'[f]]
      BY <2>2
    <3> QED BY <2>2, <2>3, <3>1, <3>2 DEF Lengthened, Feed!Next, Feed!Commit
  <2>4. ASSUME UNCHANGED <<last, overtaken>>, NEW c \in Clients,
               \A b \in Clients \ {c} : seen'[b] = seen[b] /\ view'[b] = view[b],
               \A f \in Flags : seen'[c][f] >= seen[c][f]
        PROVE  Feed!Advance(c)
    <3>1. ASSUME NEW f \in Flags PROVE Position'[c][f] \in Feed!Ahead(c, f)
      <4>1. /\ Position[c][f] \in Nat /\ Position[c][f] <= seen[c][f]
            /\ seen[c][f] > overtaken[f] => Position[c][f] = seen[c][f]
        BY <1>2, PositionFacts DEF PositionOK, PositionOf
      <4>2. /\ Position'[c][f] \in Nat /\ 1 <= Position'[c][f]
            /\ Position'[c][f] <= seen'[c][f] /\ seen'[c][f] <= last[f]
            /\ seen'[c][f] > overtaken[f] => Position'[c][f] = seen'[c][f]
        BY <2>1, <2>4, PositionNext DEF PositionOK, PositionOf
      <4>3. /\ seen[c][f] \in Nat /\ seen'[c][f] \in Nat /\ overtaken[f] \in Nat
            /\ last[f] \in Nat /\ seen'[c][f] >= seen[c][f]
        BY <2>2, <2>4
      <4>4. Position[c][f] > overtaken[f] => Position'[c][f] >= Position[c][f]
        BY <4>1, <4>2, <4>3
      <4>5. Position'[c][f] <= last[f]
        BY <4>2, <4>3
      <4> QED BY <1>o, <4>1, <4>2, <4>3, <4>4, <4>5 DEF Feed!Ahead
    <3>2. Position' = [Position EXCEPT ![c] = [f \in Flags |-> Position'[c][f]]]
      <4>1. \A b \in Clients \ {c}, f \in Flags : Position'[b][f] = Position[b][f]
        BY <2>4 DEF Position, Stamp
      <4>2. /\ Position = [b \in Clients |-> [f \in Flags |-> Position[b][f]]]
            /\ Position' = [b \in Clients |-> [f \in Flags |-> Position'[b][f]]]
        BY DEF Position, Stamp
      <4> DEFINE P == Position
                 Q == Position'
      <4> HIDE DEF P, Q
      <4>3. /\ P = [b \in Clients |-> [f \in Flags |-> P[b][f]]]
            /\ Q = [b \in Clients |-> [f \in Flags |-> Q[b][f]]]
            /\ \A b \in Clients \ {c}, f \in Flags : Q[b][f] = P[b][f]
        BY <4>1, <4>2 DEF P, Q
      <4>4. Q = [P EXCEPT ![c] = [f \in Flags |-> Q[c][f]]]
        BY <4>3
      <4> QED BY <4>4 DEF P, Q
    <3> QED BY <2>4, <3>1, <3>2 DEF Feed!Advance
  <2>5. Progress => \/ UNCHANGED <<view, seen>> /\ \A f \in Flags : Lengthened(f)
                    \/ \E c \in Clients : Feed!Advance(c)
    <3>1. ASSUME UNCHANGED <<last, overtaken>>, NEW c \in Clients,
                 \A b \in Clients \ {c} : seen'[b] = seen[b] /\ view'[b] = view[b],
                 \A f \in Flags : seen'[c][f] >= seen[c][f]
          PROVE  \E a \in Clients : Feed!Advance(a)
      BY <2>4, <3>1, Zenon
    <3> QED BY <3>1, Zenon DEF Progress
  <2> QED BY <2>1, <2>3, <2>5 DEF Feed!Next
<1>3. IInv /\ [Next]_vars => [Feed!Next]_(Feed!vars)
  BY <1>2
<1> QED BY <1>1, <1>3, Invariant, PTL DEF Spec, ImplementsFeed, Feed!Spec

=============================================================================
