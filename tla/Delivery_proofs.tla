-------------------------- MODULE Delivery_proofs ---------------------------
(***************************************************************************)
(* Proofs about Delivery, for any number of sinks, events and tasks: its    *)
(* types and the bound on the logs, that nobody is told who did not want to *)
(* be, and that whoever wants an event all along is told.                   *)
(***************************************************************************)
EXTENDS Delivery, FiniteSetTheorems, SequenceTheorems, TLAPS

-----------------------------------------------------------------------------
(* The invariant.                                                          *)

Holding == {"post", "wait", "log", "prune"}

TaskRecord ==
    [step : {"none", "query", "next", "post", "wait", "log", "prune", "done", "lost"},
     todo : SUBSET Target, hand : Target \cup {Missing}, tries : 0 .. MaxAttempts - 1]

AnySetting ==
    [enabled : BOOLEAN, address : Addresses, filter : SUBSET Kinds] \cup {Missing, Deleted}

Shape ==
    /\ sink \in [Sinks -> AnySetting]
    /\ \A i \in Sinks : There(i) => sink[i] \in Settings(i)
    /\ fired \in Seq(Emitted) /\ Len(fired) <= MaxEvents
    /\ task \in [Tasks -> TaskRecord]
    /\ \A t \in Tasks : task[t].step \in Holding <=> task[t].hand # Missing
    /\ \A t \in Tasks : ~Doing(t, "none") => t[1] <= Len(fired)
    /\ outcomes \in [Sinks -> Seq(1 .. MaxEvents)]
    /\ wanted \in [Tasks -> SUBSET Target]
    /\ always \in [Tasks -> SUBSET Sinks]
    /\ tried \in [Tasks -> SUBSET Sinks]
    /\ mishaps \in Nat

Ids(X) == {x.id : x \in X}

\* The sinks that a task that has a list has been to, is at, or will go to.
Reaches(been, todo, step, hand) ==
    been \cup Ids(todo) \cup (IF step \in {"post", "wait"} THEN {hand.id} ELSE {})

Visits(t) == Reaches(tried[t], task[t].todo, task[t].step, task[t].hand)

\* What the history of a task under way says of those who want its event now,
\* of those on its list, and of those who have always wanted it.
Told(t) ==
    /\ UnderWay(t) =>
          /\ Wanting(t[2], KindOf(t), sink) \subseteq wanted[t]
          /\ always[t] \subseteq Ids(Wanting(t[2], KindOf(t), sink))
          /\ \A x \in wanted[t] : (x.id \in Webhooks) = (t[2] = "webhook")
          /\ task[t].todo \subseteq wanted[t]
          /\ task[t].step \in {"post", "wait"} => task[t].hand \in wanted[t]
          /\ task[t].step # "query" => always[t] \subseteq Visits(t)
    /\ Doing(t, "done") => always[t] \subseteq tried[t]

LogsBounded ==
    \A i \in Sinks : Len(outcomes[i]) <= Keep + mishaps + Cardinality(Unpruned(i))

Delivering == Shape /\ (\A t \in Tasks : Told(t)) /\ LogsBounded

LEMMA DeliveringHolds == Delivering => DeliveryTypeOK /\ WhoWantsIsTried
<1> SUFFICES ASSUME Delivering PROVE DeliveryTypeOK /\ WhoWantsIsTried
  OBVIOUS
<1>1. DeliveryTypeOK
  BY DEF Delivering, Shape, LogsBounded, DeliveryTypeOK, TaskRecord, Holding
<1>2. WhoWantsIsTried
  BY DEF Delivering, Told, UnderWay, WhoWantsIsTried
<1> QED BY <1>1, <1>2

-----------------------------------------------------------------------------
(* Those who want an event, and the logs.                                  *)

\* Who wants an event is a sink of the sort that is asked for.
LEMMA WantingOK ==
    ASSUME NEW s \in [Sinks -> AnySetting],
           \A i \in Sinks : s[i] \notin {Missing, Deleted} => s[i] \in Settings(i),
           NEW sort, NEW kind
    PROVE  /\ Wanting(sort, kind, s) \subseteq Target
           /\ \A x \in Wanting(sort, kind, s) : (x.id \in Webhooks) = (sort = "webhook")
<1>1. \A i \in Sinks : s[i] \notin {Missing, Deleted} => s[i].address \in Addresses
  BY DEF Settings
<1>2. WantingHooks(s) \subseteq Target /\ \A x \in WantingHooks(s) : x.id \in Webhooks
  BY <1>1 DEF WantingHooks, Target, Sinks
<1>3. WantingChats(s, kind) \subseteq Target /\ \A x \in WantingChats(s, kind) : x.id \notin Webhooks
  BY <1>1, DeliveryAssumption DEF WantingChats, Target, Sinks
<1> QED BY <1>2, <1>3 DEF Wanting

LEMMA TasksFinite ==
    \A S \in SUBSET Tasks : IsFiniteSet(S) /\ Cardinality(S) \in Nat
<1>1. IsFiniteSet(1 .. MaxEvents)
  BY FS_Interval, DeliveryAssumption
<1>2. IsFiniteSet(Sorts)
  <2>1. IsFiniteSet({}) /\ IsFiniteSet({} \cup {"webhook"})
    BY FS_EmptySet, FS_AddElement
  <2>2. IsFiniteSet(({} \cup {"webhook"}) \cup {"chat"})
    BY <2>1, FS_AddElement
  <2>3. ({} \cup {"webhook"}) \cup {"chat"} = Sorts
    BY DEF Sorts
  <2> QED BY <2>2, <2>3
<1>3. IsFiniteSet(Tasks)
  BY <1>1, <1>2, FS_Product DEF Tasks
<1> QED BY <1>3, FS_Subset, FS_CardinalityType

\* The logs are no longer than before, and no fewer tasks have yet to prune.
LEMMA LogsStay ==
    ASSUME Delivering, outcomes' \in [Sinks -> Seq(1 .. MaxEvents)], mishaps' \in Nat,
           mishaps <= mishaps',
           \A i \in Sinks : Len(outcomes'[i]) <= Len(outcomes[i]),
           \A i \in Sinks : Unpruned(i) \subseteq Unpruned(i)'
    PROVE  LogsBounded'
<1> SUFFICES ASSUME NEW i \in Sinks
             PROVE  Len(outcomes'[i]) <= Keep + mishaps' + Cardinality(Unpruned(i)')
  BY DEF LogsBounded
<1>1. IsFiniteSet(Unpruned(i)) /\ Cardinality(Unpruned(i)) \in Nat
  BY TasksFinite DEF Unpruned
<1>2. IsFiniteSet(Unpruned(i)') /\ Cardinality(Unpruned(i)') \in Nat
  BY TasksFinite DEF Unpruned
<1>3. Cardinality(Unpruned(i)) <= Cardinality(Unpruned(i)')
  BY <1>2, FS_Subset
<1>4. Len(outcomes[i]) <= Keep + mishaps + Cardinality(Unpruned(i))
  BY DEF Delivering, LogsBounded
<1>5. Len(outcomes[i]) \in Nat /\ Len(outcomes'[i]) \in Nat /\ mishaps \in Nat /\ Keep \in Nat
  BY LenProperties, DeliveryAssumption DEF Delivering, Shape
<1> HIDE DEF Unpruned
<1> QED BY <1>1, <1>2, <1>3, <1>4, <1>5

\* A log has one more row, for a task that has not pruned it yet.
LEMMA LogsGrow ==
    ASSUME Delivering, outcomes' \in [Sinks -> Seq(1 .. MaxEvents)], mishaps' = mishaps,
           NEW k \in Sinks, NEW t \in Tasks, t \notin Unpruned(k),
           Unpruned(k)' = Unpruned(k) \cup {t}, Len(outcomes'[k]) = Len(outcomes[k]) + 1,
           \A i \in Sinks : i # k => outcomes'[i] = outcomes[i] /\ Unpruned(i) \subseteq Unpruned(i)'
    PROVE  LogsBounded'
<1> SUFFICES ASSUME NEW i \in Sinks
             PROVE  Len(outcomes'[i]) <= Keep + mishaps' + Cardinality(Unpruned(i)')
  BY DEF LogsBounded
<1>1. IsFiniteSet(Unpruned(i)) /\ Cardinality(Unpruned(i)) \in Nat
  BY TasksFinite DEF Unpruned
<1>2. IsFiniteSet(Unpruned(i)') /\ Cardinality(Unpruned(i)') \in Nat
  BY TasksFinite DEF Unpruned
<1>3. Len(outcomes[i]) <= Keep + mishaps + Cardinality(Unpruned(i))
  BY DEF Delivering, LogsBounded
<1>4. Len(outcomes[i]) \in Nat /\ mishaps \in Nat /\ Keep \in Nat
  BY LenProperties, DeliveryAssumption DEF Delivering, Shape
<1> HIDE DEF Unpruned
<1>5. CASE i = k
  <2>1. Cardinality(Unpruned(i)') = Cardinality(Unpruned(i)) + 1
    BY <1>1, <1>5, FS_AddElement
  <2> QED BY <1>1, <1>3, <1>4, <1>5, <2>1
<1>6. CASE i # k
  <2>1. Cardinality(Unpruned(i)) <= Cardinality(Unpruned(i)')
    BY <1>2, <1>6, FS_Subset
  <2> QED BY <1>1, <1>2, <1>3, <1>4, <1>6, <2>1
<1> QED BY <1>5, <1>6

\* A log has been pruned, or has not: then there is one mishap more.
LEMMA LogsPruned ==
    ASSUME Delivering, outcomes' \in [Sinks -> Seq(1 .. MaxEvents)],
           NEW k \in Sinks, NEW t \in Tasks, Unpruned(k)' = Unpruned(k) \ {t},
           \/ Len(outcomes'[k]) <= Keep /\ mishaps' = mishaps
           \/ outcomes'[k] = outcomes[k] /\ mishaps' = mishaps + 1,
           \A i \in Sinks : i # k => outcomes'[i] = outcomes[i] /\ Unpruned(i) \subseteq Unpruned(i)'
    PROVE  LogsBounded'
<1> SUFFICES ASSUME NEW i \in Sinks
             PROVE  Len(outcomes'[i]) <= Keep + mishaps' + Cardinality(Unpruned(i)')
  BY DEF LogsBounded
<1>1. IsFiniteSet(Unpruned(i)) /\ Cardinality(Unpruned(i)) \in Nat
  BY TasksFinite DEF Unpruned
<1>2. IsFiniteSet(Unpruned(i)') /\ Cardinality(Unpruned(i)') \in Nat
  BY TasksFinite DEF Unpruned
<1>3. Len(outcomes[i]) <= Keep + mishaps + Cardinality(Unpruned(i))
  BY DEF Delivering, LogsBounded
<1>4. Len(outcomes[i]) \in Nat /\ Len(outcomes'[i]) \in Nat /\ mishaps \in Nat /\ Keep \in Nat
  BY LenProperties, DeliveryAssumption DEF Delivering, Shape
<1> HIDE DEF Unpruned
<1>5. CASE i = k
  <2>1. Cardinality(Unpruned(i) \ {t})
          = IF t \in Unpruned(i) THEN Cardinality(Unpruned(i)) - 1 ELSE Cardinality(Unpruned(i))
    BY <1>1, FS_RemoveElement
  <2>2. Unpruned(i)' = Unpruned(i) \ {t}
    BY <1>5
  <2>3. Cardinality(Unpruned(i)) - 1 <= Cardinality(Unpruned(i)')
    BY <1>1, <2>1, <2>2
  <2> QED BY <1>1, <1>2, <1>3, <1>4, <1>5, <2>3
<1>6. CASE i # k
  <2>1. Cardinality(Unpruned(i)) <= Cardinality(Unpruned(i)')
    BY <1>2, <1>6, FS_Subset
  <2> QED BY <1>1, <1>2, <1>3, <1>4, <1>6, <2>1
<1> QED BY <1>5, <1>6

\* What is left of a log that is pruned.
LEMMA LatestOK ==
    ASSUME NEW S, NEW log \in Seq(S), NEW n \in Nat \ {0}
    PROVE  Latest(log, n) \in Seq(S) /\ Len(Latest(log, n)) <= n
<1>1. Len(log) \in Nat /\ \A i \in 1 .. Len(log) : log[i] \in S
  BY LenProperties, ElementOfSeq
<1>2. CASE Len(log) <= n
  BY <1>2 DEF Latest
<1>3. CASE ~(Len(log) <= n)
  <2> DEFINE m == Len(log) - n + 1
  <2>1. m \in Int /\ m >= 1 /\ Len(log) - m + 1 = n /\ m <= Len(log)
    BY <1>1, <1>3
  <2> HIDE DEF m
  <2>2. \A i \in m .. Len(log) : log[i] \in S
    BY <1>1, <2>1
  <2>3. SubSeq(log, m, Len(log)) \in Seq(S) /\ Len(SubSeq(log, m, Len(log))) = n
    BY <1>1, <2>1, <2>2, SubSeqProperties
  <2> QED BY <1>3, <2>3 DEF Latest, m
<1> QED BY <1>2, <1>3

-----------------------------------------------------------------------------
(* Steps of a task.                                                        *)

Rec(step, todo, hand, tries) ==
    [step |-> step, todo |-> todo, hand |-> hand, tries |-> tries]

\* The record of a task with one field replaced.
LEMMA NewStep ==
    ASSUME NEW x, NEW step, NEW todo, NEW hand, NEW n, x = Rec(step, todo, hand, n), NEW s
    PROVE  [x EXCEPT !.step = s] = Rec(s, todo, hand, n)
BY DEF Rec

LEMMA NewTodo ==
    ASSUME NEW x, NEW step, NEW todo, NEW hand, NEW n, x = Rec(step, todo, hand, n), NEW w
    PROVE  [x EXCEPT !.todo = w] = Rec(step, w, hand, n)
BY DEF Rec

LEMMA NewTries ==
    ASSUME NEW x, NEW step, NEW todo, NEW hand, NEW n, x = Rec(step, todo, hand, n), NEW m
    PROVE  [x EXCEPT !.tries = m] = Rec(step, todo, hand, m)
BY DEF Rec

\* What a step of a task starts from.
LEMMA TaskFacts ==
    ASSUME Delivering, NEW t \in Tasks
    PROVE  /\ Shape /\ Told(t) /\ mishaps \in Nat
           /\ task \in [Tasks -> TaskRecord] /\ task[t] \in TaskRecord
           /\ task[t].todo \subseteq Target /\ task[t].hand \in Target \cup {Missing}
           /\ task[t].tries \in 0 .. MaxAttempts - 1
           /\ task[t] = Rec(task[t].step, task[t].todo, task[t].hand, task[t].tries)
           /\ task[t].step \in Holding <=> task[t].hand # Missing
           /\ task[t].step \in Holding => task[t].hand \in Target /\ task[t].hand.id \in Sinks
           /\ tried \in [Tasks -> SUBSET Sinks]
           /\ 0 \in 0 .. MaxAttempts - 1
<1>1. Shape /\ Told(t) /\ mishaps \in Nat /\ task \in [Tasks -> TaskRecord]
      /\ task[t] \in TaskRecord /\ tried \in [Tasks -> SUBSET Sinks]
      /\ (task[t].step \in Holding <=> task[t].hand # Missing)
  BY DEF Delivering, Shape
<1>2. /\ task[t] = Rec(task[t].step, task[t].todo, task[t].hand, task[t].tries)
      /\ task[t].todo \subseteq Target /\ task[t].hand \in Target \cup {Missing}
      /\ task[t].tries \in 0 .. MaxAttempts - 1
  BY <1>1 DEF TaskRecord, Rec
<1>3. task[t].step \in Holding => task[t].hand \in Target /\ task[t].hand.id \in Sinks
  BY <1>1, <1>2 DEF Target
<1> QED BY <1>1, <1>2, <1>3, DeliveryAssumption

\* Task t moves on to a step after its query: what it relies on is what its
\* history says.
LEMMA TaskMoves ==
    ASSUME Delivering, NEW t \in Tasks, UnderWay(t), OfTask,
           NEW s \in {"next", "post", "wait", "log", "prune", "done", "lost"},
           NEW todo, todo \subseteq wanted[t],
           NEW hand \in Target \cup {Missing}, s \in Holding <=> hand # Missing,
           NEW tries \in 0 .. MaxAttempts - 1,
           task' = [task EXCEPT ![t] = Rec(s, todo, hand, tries)],
           tried' \in [Tasks -> SUBSET Sinks], \A v \in Tasks : v # t => tried'[v] = tried[v],
           outcomes' \in [Sinks -> Seq(1 .. MaxEvents)], mishaps' \in Nat,
           s \in {"post", "wait"} => hand \in wanted[t],
           s # "lost" => always[t] \subseteq Reaches(tried'[t], todo, s, hand),
           s = "done" => todo = {}
    PROVE  Shape' /\ \A v \in Tasks : Told(v)'
<1> DEFINE r == Rec(s, todo, hand, tries)
<1>1. Shape /\ wanted[t] \subseteq Target
  BY DEF Delivering, Shape
<1>2. r \in TaskRecord /\ r.step = s /\ r.todo = todo /\ r.hand = hand
  BY <1>1 DEF Rec, TaskRecord
<1> HIDE DEF r
<1>3. UNCHANGED <<sink, fired, wanted, always>> /\ task'[t] = r
      /\ \A v \in Tasks : v # t => task'[v] = task[v]
  BY <1>1 DEF OfTask, Shape, r
<1>4. \A v \in Tasks : ~Doing(v, "none")' => v[1] <= Len(fired)
  BY <1>1, <1>3 DEF Shape, UnderWay, Doing
<1>5. task' \in [Tasks -> TaskRecord]
  BY <1>1, <1>2 DEF Shape, r
<1>6. \A v \in Tasks : task'[v].step \in Holding <=> task'[v].hand # Missing
  BY <1>1, <1>2, <1>3 DEF Shape
<1>7. Shape'
  BY <1>1, <1>3, <1>4, <1>5, <1>6 DEF Shape, There
<1>8. ASSUME NEW v \in Tasks, v # t PROVE Told(v)'
  <2>1. Told(v) /\ task'[v] = task[v] /\ tried'[v] = tried[v] /\ KindOf(v)' = KindOf(v)
    BY <1>3, <1>8 DEF Delivering, KindOf
  <2> QED BY <1>3, <2>1 DEF Told, UnderWay, Doing, Visits
<1>9. Told(t)'
  <2>1. Told(t) /\ KindOf(t)' = KindOf(t)
    BY <1>3 DEF Delivering, KindOf
  <2>2. s = "done" => always[t] \subseteq tried'[t]
    BY DEF Ids, Reaches
  <2>3. Doing(t, "done")' => (always[t] \subseteq tried[t])'
    BY <1>2, <1>3, <2>2 DEF Doing
  <2>4. s # "lost" => (always[t] \subseteq Visits(t))'
    BY <1>2, <1>3 DEF Visits
  <2> QED BY <1>2, <1>3, <2>1, <2>3, <2>4 DEF Told, UnderWay
<1> QED BY <1>7, <1>8, <1>9

\* A task that has no log to prune moves on.
LEMMA MoveKeepsUnpruned ==
    ASSUME Delivering, NEW t \in Tasks, NEW r, task' = [task EXCEPT ![t] = r],
           task[t].step \notin {"prune", "lost"}
    PROVE  \A i \in Sinks : Unpruned(i) \subseteq Unpruned(i)'
<1>1. \A v \in Tasks : v # t => task'[v] = task[v]
  BY DEF Delivering, Shape
<1> QED BY <1>1 DEF Unpruned, Doing

\* The step of a task that changes no log.
Quiet(t, s, todo, hand, tries) ==
    /\ OfTask /\ outcomes' = outcomes /\ mishaps' \in Nat /\ mishaps <= mishaps'
    /\ task[t].step \in {"query", "next", "post", "wait", "log"}
    /\ s \in {"next", "post", "wait", "log", "prune", "done", "lost"}
    /\ todo \subseteq wanted[t]
    /\ hand \in Target \cup {Missing}
    /\ s \in Holding <=> hand # Missing
    /\ tries \in 0 .. MaxAttempts - 1
    /\ task' = [task EXCEPT ![t] = Rec(s, todo, hand, tries)]
    /\ tried' \in [Tasks -> SUBSET Sinks]
    /\ \A v \in Tasks : v # t => tried'[v] = tried[v]
    /\ s \in {"post", "wait"} => hand \in wanted[t]
    /\ s # "lost" => always[t] \subseteq Reaches(tried'[t], todo, s, hand)
    /\ s = "done" => todo = {}

LEMMA QuietMove ==
    ASSUME Delivering, NEW t \in Tasks, NEW s, NEW todo, NEW hand, NEW tries,
           Quiet(t, s, todo, hand, tries)
    PROVE  Delivering'
<1>1. UnderWay(t) /\ task[t].step \notin {"prune", "lost"}
  BY DEF UnderWay, Quiet
<1>2. outcomes' \in [Sinks -> Seq(1 .. MaxEvents)]
  BY DEF Delivering, Shape, Quiet
<1>3. Shape' /\ \A v \in Tasks : Told(v)'
  BY <1>1, <1>2, TaskMoves DEF Quiet
<1>4. \A i \in Sinks : Unpruned(i) \subseteq Unpruned(i)'
  BY <1>1, MoveKeepsUnpruned DEF Quiet
<1>5. \A i \in Sinks : Len(outcomes'[i]) <= Len(outcomes[i])
  BY LenProperties DEF Delivering, Shape, Quiet
<1>6. LogsBounded'
  BY <1>2, <1>4, <1>5, LogsStay DEF Quiet
<1> QED BY <1>3, <1>6 DEF Delivering

LEMMA QueryOK == ASSUME Delivering, NEW t \in Tasks, Query(t) PROVE Delivering'
<1> DEFINE w == Wanting(t[2], KindOf(t), sink)
<1>1. task[t].step = "query" /\ OfTask /\ UNCHANGED <<outcomes, tried, mishaps>>
  BY DEF Query, Doing
<1>2. task' = [task EXCEPT ![t] = Rec("next", w, task[t].hand, task[t].tries)]
  <2> DEFINE y == [task[t] EXCEPT !.step = "next"]
  <2>1. task' = [task EXCEPT ![t] = [y EXCEPT !.todo = w]]
    BY TaskFacts DEF Query
  <2>2. task[t] = Rec(task[t].step, task[t].todo, task[t].hand, task[t].tries)
    BY TaskFacts
  <2>3. y = Rec("next", task[t].todo, task[t].hand, task[t].tries)
    BY <2>2, NewStep
  <2> HIDE DEF y
  <2>4. [y EXCEPT !.todo = w] = Rec("next", w, task[t].hand, task[t].tries)
    BY <2>3, NewTodo
  <2> QED BY <2>1, <2>4
<1>3. w \subseteq wanted[t] /\ always[t] \subseteq Ids(w)
  BY <1>1, TaskFacts DEF Told, UnderWay
<1> HIDE DEF w
<1>4. task[t].hand = Missing
  BY <1>1, TaskFacts DEF Holding
<1>5. always[t] \subseteq Reaches(tried'[t], w, "next", task[t].hand)
  BY <1>3 DEF Reaches
<1>6. Quiet(t, "next", w, task[t].hand, task[t].tries)
  BY <1>1, <1>2, <1>3, <1>4, <1>5, TaskFacts DEF Quiet, Holding
<1> QED BY <1>6, QuietMove

LEMMA QueryFailsOK == ASSUME Delivering, NEW t \in Tasks, QueryFails(t) PROVE Delivering'
<1>1. task[t].step = "query" /\ OfTask /\ UNCHANGED <<outcomes, tried>> /\ mishaps' = mishaps + 1
  BY DEF QueryFails, Mishap, Doing
<1>2. task' = [task EXCEPT ![t] = Rec("lost", task[t].todo, task[t].hand, task[t].tries)]
  <2>1. task' = [task EXCEPT ![t] = [task[t] EXCEPT !.step = "lost"]]
    BY TaskFacts DEF QueryFails
  <2>2. task[t] = Rec(task[t].step, task[t].todo, task[t].hand, task[t].tries)
    BY TaskFacts
  <2>3. [task[t] EXCEPT !.step = "lost"] = Rec("lost", task[t].todo, task[t].hand, task[t].tries)
    BY <2>2, NewStep
  <2> QED BY <2>1, <2>3
<1>3. task[t].hand = Missing /\ task[t].todo \subseteq wanted[t]
  BY <1>1, TaskFacts DEF Holding, Told, UnderWay
<1>4. Quiet(t, "lost", task[t].todo, task[t].hand, task[t].tries)
  BY <1>1, <1>2, <1>3, TaskFacts DEF Quiet, Holding
<1> QED BY <1>4, QuietMove

LEMMA TakeOK == ASSUME Delivering, NEW t \in Tasks, Take(t) PROVE Delivering'
<1>1. PICK x \in task[t].todo :
         task' = [task EXCEPT ![t] = Rec("post", task[t].todo \ {x}, x, 0)]
  BY TaskFacts DEF Take, Rec
<1>2. task[t].step = "next" /\ OfTask /\ UNCHANGED <<outcomes, tried, mishaps>>
  BY DEF Take, Doing
<1>3. x \in Target /\ x # Missing
  BY TaskFacts, MissingAssumption
<1>4. task[t].todo \subseteq wanted[t] /\ always[t] \subseteq tried[t] \cup Ids(task[t].todo)
  BY <1>2, TaskFacts DEF Told, UnderWay, Visits, Reaches
<1>5. always[t] \subseteq Reaches(tried'[t], task[t].todo \ {x}, "post", x)
  BY <1>2, <1>4 DEF Reaches, Ids
<1>6. x \in wanted[t] /\ task[t].todo \ {x} \subseteq wanted[t] /\ x \in Target \cup {Missing}
  BY <1>3, <1>4
<1>7. "post" \in Holding
  BY DEF Holding
<1>8. tried \in [Tasks -> SUBSET Sinks] /\ mishaps \in Nat /\ 0 \in 0 .. MaxAttempts - 1
  BY TaskFacts
<1> DEFINE rest == task[t].todo \ {x}
<1>9. Quiet(t, "post", rest, x, 0)
  <2>1. /\ task' = [task EXCEPT ![t] = Rec("post", rest, x, 0)] /\ rest \subseteq wanted[t]
        /\ always[t] \subseteq Reaches(tried'[t], rest, "post", x)
    BY <1>1, <1>5, <1>6
  <2> HIDE DEF rest
  <2> QED BY <1>2, <1>3, <1>6, <1>7, <1>8, <2>1 DEF Quiet
<1> QED BY <1>9, QuietMove

LEMMA FinishOK == ASSUME Delivering, NEW t \in Tasks, Finish(t) PROVE Delivering'
<1>1. task[t].step = "next" /\ task[t].todo = {} /\ OfTask /\ UNCHANGED <<outcomes, tried, mishaps>>
  BY DEF Finish, Doing
<1>2. task' = [task EXCEPT ![t] = Rec("done", {}, Missing, 0)]
  <2>1. NoTask = Rec("none", {}, Missing, 0)
    BY DEF NoTask, Rec
  <2>2. [NoTask EXCEPT !.step = "done"] = Rec("done", {}, Missing, 0)
    BY <2>1, NewStep
  <2> QED BY <2>2 DEF Finish
<1>3. always[t] \subseteq Reaches(tried'[t], {}, "done", Missing)
  BY <1>1, TaskFacts DEF Told, UnderWay, Visits, Reaches
<1>4. Quiet(t, "done", {}, Missing, 0)
  BY <1>1, <1>2, <1>3, TaskFacts DEF Quiet, Holding
<1> QED BY <1>4, QuietMove

\* A post, answered or not: the sink in hand has been told.
LEMMA PostOK ==
    ASSUME Delivering, NEW t \in Tasks, Response(t) \/ NoResponse(t) PROVE Delivering'
<1>1. PICK n \in 0 .. MaxAttempts - 1, s \in {"log", "wait"} :
         task' = [task EXCEPT ![t].step = s, ![t].tries = n]
  <2>1. CASE Response(t)
    BY <2>1, TaskFacts DEF Response
  <2>2. CASE NoResponse(t)
    <3>1. task[t].tries \in 0 .. MaxAttempts - 1
      BY TaskFacts
    <3>2. (task[t].tries + 1) % MaxAttempts \in 0 .. MaxAttempts - 1
      BY <3>1, DeliveryAssumption
    <3> QED BY <2>2, <3>2 DEF NoResponse
  <2> QED BY <2>1, <2>2
<1>2. task[t].step = "post" /\ OfTask /\ PostedTo(t) /\ UNCHANGED <<outcomes, mishaps>>
  BY DEF Response, NoResponse, Doing
<1>3. task' = [task EXCEPT ![t] = Rec(s, task[t].todo, task[t].hand, n)]
  <2> DEFINE y == [task[t] EXCEPT !.step = s]
  <2>1. task' = [task EXCEPT ![t] = [y EXCEPT !.tries = n]]
    BY <1>1, TaskFacts
  <2>2. task[t] = Rec(task[t].step, task[t].todo, task[t].hand, task[t].tries)
    BY TaskFacts
  <2>3. y = Rec(s, task[t].todo, task[t].hand, task[t].tries)
    BY <2>2, NewStep
  <2> HIDE DEF y
  <2>4. [y EXCEPT !.tries = n] = Rec(s, task[t].todo, task[t].hand, n)
    BY <2>3, NewTries
  <2> QED BY <2>1, <2>4
<1>4. task[t].hand \in wanted[t] /\ task[t].todo \subseteq wanted[t] /\ task[t].hand # Missing
      /\ always[t] \subseteq tried[t] \cup Ids(task[t].todo) \cup {task[t].hand.id}
  BY <1>2, TaskFacts DEF Told, UnderWay, Visits, Reaches, Holding
<1>5. task[t].hand.id \in Sinks
  BY <1>2, TaskFacts DEF Holding
<1>6. tried' \in [Tasks -> SUBSET Sinks] /\ tried'[t] = tried[t] \cup {task[t].hand.id}
      /\ \A v \in Tasks : v # t => tried'[v] = tried[v]
  BY <1>2, <1>5, TaskFacts DEF PostedTo
<1>7. always[t] \subseteq Reaches(tried'[t], task[t].todo, s, task[t].hand)
  BY <1>4, <1>6 DEF Reaches
<1>8. s \in Holding /\ s # "lost" /\ s # "done"
  BY DEF Holding
<1>9. task[t].hand \in Target \cup {Missing} /\ mishaps \in Nat
  BY TaskFacts
<1>10. Quiet(t, s, task[t].todo, task[t].hand, n)
  BY <1>2, <1>3, <1>4, <1>6, <1>7, <1>8, <1>9 DEF Quiet
<1> QED BY <1>10, QuietMove

LEMMA ResendOK == ASSUME Delivering, NEW t \in Tasks, Resend(t) PROVE Delivering'
<1>1. task[t].step = "wait" /\ OfTask /\ UNCHANGED <<outcomes, tried, mishaps>>
  BY DEF Resend, Doing
<1>2. task' = [task EXCEPT ![t] = Rec("post", task[t].todo, task[t].hand, task[t].tries)]
  <2>1. task' = [task EXCEPT ![t] = [task[t] EXCEPT !.step = "post"]]
    BY TaskFacts DEF Resend
  <2>2. task[t] = Rec(task[t].step, task[t].todo, task[t].hand, task[t].tries)
    BY TaskFacts
  <2>3. [task[t] EXCEPT !.step = "post"] = Rec("post", task[t].todo, task[t].hand, task[t].tries)
    BY <2>2, NewStep
  <2> QED BY <2>1, <2>3
<1>3. task[t].hand \in wanted[t] /\ task[t].todo \subseteq wanted[t] /\ task[t].hand # Missing
      /\ always[t] \subseteq tried[t] \cup Ids(task[t].todo) \cup {task[t].hand.id}
  BY <1>1, TaskFacts DEF Told, UnderWay, Visits, Reaches, Holding
<1>4. always[t] \subseteq Reaches(tried'[t], task[t].todo, "post", task[t].hand)
  BY <1>1, <1>3 DEF Reaches
<1>5. Quiet(t, "post", task[t].todo, task[t].hand, task[t].tries)
  BY <1>1, <1>2, <1>3, <1>4, TaskFacts DEF Quiet, Holding
<1> QED BY <1>5, QuietMove

\* A row is added to the log, or is not: from now on it is to be pruned.
LEMMA LogDeliveryOK == ASSUME Delivering, NEW t \in Tasks, LogDelivery(t) PROVE Delivering'
<1>1. task[t].step = "log" /\ OfTask /\ tried' = tried
  BY DEF LogDelivery, Doing
<1>0. PICK i \in Sinks : i = task[t].hand.id
  BY <1>1, TaskFacts DEF Holding
<1>2. task[t].hand # Missing /\ task[t].hand \in Target \cup {Missing}
      /\ task[t].tries \in 0 .. MaxAttempts - 1 /\ tried \in [Tasks -> SUBSET Sinks]
  BY <1>1, TaskFacts DEF Holding
<1>3. task' = [task EXCEPT ![t] = Rec("prune", task[t].todo, task[t].hand, task[t].tries)]
  <2>1. task' = [task EXCEPT ![t] = [task[t] EXCEPT !.step = "prune"]]
    BY TaskFacts DEF LogDelivery
  <2>2. task[t] = Rec(task[t].step, task[t].todo, task[t].hand, task[t].tries)
    BY TaskFacts
  <2>3. [task[t] EXCEPT !.step = "prune"] = Rec("prune", task[t].todo, task[t].hand, task[t].tries)
    BY <2>2, NewStep
  <2> QED BY <2>1, <2>3
<1>4. task[t].todo \subseteq wanted[t]
      /\ always[t] \subseteq Reaches(tried'[t], task[t].todo, "prune", task[t].hand)
  BY <1>1, TaskFacts DEF Told, UnderWay, Visits, Reaches
<1>5. CASE outcomes' = outcomes /\ mishaps' \in Nat /\ mishaps <= mishaps'
  <2>1. Quiet(t, "prune", task[t].todo, task[t].hand, task[t].tries)
    BY <1>1, <1>2, <1>3, <1>4, <1>5 DEF Quiet, Holding
  <2> QED BY <2>1, QuietMove
<1>6. CASE outcomes' = [outcomes EXCEPT ![i] = Append(@, t[1])] /\ mishaps' = mishaps
  <2>1. outcomes \in [Sinks -> Seq(1 .. MaxEvents)] /\ t[1] \in 1 .. MaxEvents /\ mishaps \in Nat
    BY DEF Delivering, Shape, Tasks
  <2>2. Append(outcomes[i], t[1]) \in Seq(1 .. MaxEvents)
        /\ Len(Append(outcomes[i], t[1])) = Len(outcomes[i]) + 1
    BY <1>2, <2>1, AppendProperties
  <2>3. /\ outcomes' \in [Sinks -> Seq(1 .. MaxEvents)] /\ Len(outcomes'[i]) = Len(outcomes[i]) + 1
        /\ \A k \in Sinks : k # i => outcomes'[k] = outcomes[k]
    BY <1>2, <1>6, <2>1, <2>2
  <2>4. UnderWay(t) /\ "prune" \in Holding
    BY <1>1 DEF UnderWay, Holding
  <2>5. Shape' /\ \A v \in Tasks : Told(v)'
    BY <1>1, <1>2, <1>3, <1>4, <1>6, <2>1, <2>3, <2>4, TaskMoves
  <2>6. \A k \in Sinks : Unpruned(k) \subseteq Unpruned(k)'
    BY <1>1, <1>3, MoveKeepsUnpruned
  <2>7. t \notin Unpruned(i) /\ Unpruned(i)' = Unpruned(i) \cup {t}
    <3>1. \A v \in Tasks : v # t => task'[v] = task[v]
      BY <1>3
    <3>2. task'[t].step = "prune" /\ task'[t].hand.id = i
      BY <1>0, <1>3, TaskFacts DEF Rec
    <3> QED BY <1>1, <3>1, <3>2 DEF Unpruned, Doing
  <2>8. LogsBounded'
    BY <1>6, <2>3, <2>6, <2>7, LogsGrow
  <2> QED BY <2>5, <2>8 DEF Delivering
<1> QED
  <2>1. mishaps \in Nat
    BY TaskFacts
  <2> QED BY <1>0, <1>5, <1>6, <2>1 DEF LogDelivery, Mishap

LEMMA PruneLogOK == ASSUME Delivering, NEW t \in Tasks, PruneLog(t) PROVE Delivering'
<1>1. task[t].step = "prune" /\ OfTask /\ tried' = tried
  BY DEF PruneLog, Doing
<1>0. PICK i \in Sinks : i = task[t].hand.id
  BY <1>1, TaskFacts DEF Holding
<1>2. task[t].tries \in 0 .. MaxAttempts - 1 /\ tried \in [Tasks -> SUBSET Sinks]
      /\ mishaps \in Nat
  BY <1>1, TaskFacts DEF Holding
<1>3. task' = [task EXCEPT ![t] = Rec("next", task[t].todo, Missing, task[t].tries)]
  <2> DEFINE y == [task[t] EXCEPT !.step = "next"]
  <2>1. task' = [task EXCEPT ![t] = [y EXCEPT !.hand = Missing]]
    BY TaskFacts DEF PruneLog
  <2>2. task[t] = Rec(task[t].step, task[t].todo, task[t].hand, task[t].tries)
    BY TaskFacts
  <2>3. y = Rec("next", task[t].todo, task[t].hand, task[t].tries)
    BY <2>2, NewStep
  <2> HIDE DEF y
  <2>4. [y EXCEPT !.hand = Missing] = Rec("next", task[t].todo, Missing, task[t].tries)
    BY <2>3 DEF Rec
  <2> QED BY <2>1, <2>4
<1>4. task[t].todo \subseteq wanted[t]
      /\ always[t] \subseteq Reaches(tried'[t], task[t].todo, "next", Missing)
  BY <1>1, TaskFacts DEF Told, UnderWay, Visits, Reaches
<1>5. /\ outcomes' \in [Sinks -> Seq(1 .. MaxEvents)]
      /\ \/ Len(outcomes'[i]) <= Keep /\ mishaps' = mishaps
         \/ outcomes'[i] = outcomes[i] /\ mishaps' = mishaps + 1
      /\ \A k \in Sinks : k # i => outcomes'[k] = outcomes[k]
  <2>1. outcomes \in [Sinks -> Seq(1 .. MaxEvents)]
    BY DEF Delivering, Shape
  <2>2. Latest(outcomes[i], Keep) \in Seq(1 .. MaxEvents) /\ Len(Latest(outcomes[i], Keep)) <= Keep
    BY <1>2, <2>1, LatestOK, DeliveryAssumption
  <2>3. CASE outcomes' = [outcomes EXCEPT ![i] = Latest(@, Keep)] /\ mishaps' = mishaps
    BY <1>2, <2>1, <2>2, <2>3
  <2>4. CASE outcomes' = outcomes /\ mishaps' = mishaps + 1
    BY <1>2, <2>1, <2>4
  <2> QED BY <1>0, <2>3, <2>4 DEF PruneLog, Mishap
<1>6. UnderWay(t) /\ "next" \notin Holding /\ mishaps' \in Nat
  BY <1>1, <1>2, <1>5 DEF UnderWay, Holding
<1>7. Shape' /\ \A v \in Tasks : Told(v)'
  BY <1>1, <1>2, <1>3, <1>4, <1>5, <1>6, TaskMoves
<1>8. Unpruned(i)' = Unpruned(i) \ {t} /\ \A k \in Sinks : k # i => Unpruned(k) \subseteq Unpruned(k)'
  <2>1. \A v \in Tasks : v # t => task'[v] = task[v]
    BY <1>3, TaskFacts
  <2>2. task'[t].step = "next"
    BY <1>3, TaskFacts DEF Rec
  <2>3. \A k \in Sinks, v \in Tasks : v # t => (v \in Unpruned(k)' <=> v \in Unpruned(k))
    BY <2>1 DEF Unpruned, Doing
  <2>4. \A k \in Sinks : t \notin Unpruned(k)' /\ (k # i => t \notin Unpruned(k))
    BY <1>0, <1>1, <2>2 DEF Unpruned, Doing
  <2>5. \A k \in Sinks : Unpruned(k) \subseteq Tasks /\ Unpruned(k)' \subseteq Tasks
    BY DEF Unpruned
  <2> HIDE DEF Unpruned
  <2> QED BY <2>3, <2>4, <2>5
<1>9. LogsBounded'
  BY <1>5, <1>8, LogsPruned
<1> QED BY <1>7, <1>9 DEF Delivering

-----------------------------------------------------------------------------
(* Other steps.                                                            *)

\* A sink changes: the history of each task under way takes note of it.
LEMMA EditOK ==
    ASSUME Delivering, NEW i \in Sinks, NEW new, new = Deleted \/ new \in Settings(i),
           Edit(i, new), outcomes' = outcomes \/ outcomes' = [outcomes EXCEPT ![i] = <<>>]
    PROVE  Delivering'
<1> DEFINE s == [sink EXCEPT ![i] = new]
           Now(t) == Wanting(t[2], KindOf(t), s)
<1>1. Shape
  BY DEF Delivering
<1>2. sink' = s /\ UNCHANGED <<fired, task, tried, mishaps>>
  BY DEF Edit
<1>3. /\ wanted' = [t \in Tasks |-> IF UnderWay(t) THEN wanted[t] \cup Now(t) ELSE wanted[t]]
      /\ always' = [t \in Tasks |->
                      IF UnderWay(t) THEN always[t] \cap {x.id : x \in Now(t)} ELSE always[t]]
  BY DEF Edit
<1>4. s \in [Sinks -> AnySetting] /\ \A k \in Sinks : s[k] \notin {Missing, Deleted} => s[k] \in Settings(k)
  <2>1. sink \in [Sinks -> AnySetting] /\ \A k \in Sinks : There(k) => sink[k] \in Settings(k)
    BY <1>1 DEF Shape
  <2>2. new \in AnySetting
    BY DEF AnySetting, Settings
  <2>3. s \in [Sinks -> AnySetting] /\ s[i] = new /\ \A k \in Sinks : k # i => s[k] = sink[k]
    BY <2>1, <2>2
  <2> HIDE DEF s
  <2> QED BY <2>1, <2>3 DEF There
<1>5. \A t \in Tasks : Now(t) \subseteq Target /\ \A x \in Now(t) : (x.id \in Webhooks) = (t[2] = "webhook")
  BY <1>4, WantingOK
<1> HIDE DEF s
<1>6. outcomes' \in [Sinks -> Seq(1 .. MaxEvents)] /\ \A k \in Sinks : Len(outcomes'[k]) <= Len(outcomes[k])
  <2>1. outcomes \in [Sinks -> Seq(1 .. MaxEvents)]
    BY <1>1 DEF Shape
  <2>2. \A k \in Sinks : Len(outcomes[k]) \in Nat
    BY <2>1, LenProperties
  <2>3. <<>> \in Seq(1 .. MaxEvents) /\ Len(<<>>) = 0
    BY EmptySeq
  <2>4. CASE outcomes' = outcomes
    BY <2>1, <2>2, <2>4
  <2>5. CASE outcomes' = [outcomes EXCEPT ![i] = <<>>]
    BY <2>1, <2>2, <2>3, <2>5
  <2> QED BY <2>4, <2>5
<1>7. Shape'
  <2>1. wanted' \in [Tasks -> SUBSET Target] /\ always' \in [Tasks -> SUBSET Sinks]
    BY <1>1, <1>3, <1>5 DEF Shape
  <2>2. \A t \in Tasks : ~Doing(t, "none")' => t[1] <= Len(fired)
    BY <1>1, <1>2 DEF Shape, Doing
  <2> QED BY <1>1, <1>2, <1>4, <1>6, <2>1, <2>2 DEF Shape, There
<1>8. ASSUME NEW t \in Tasks PROVE Told(t)'
  <2>1. Told(t) /\ KindOf(t)' = KindOf(t) /\ task' = task /\ tried' = tried
    BY <1>2 DEF Delivering, KindOf
  <2>2. UnderWay(t)' = UnderWay(t) /\ Doing(t, "done")' = Doing(t, "done")
    BY <2>1 DEF UnderWay, Doing
  <2>3. CASE UnderWay(t)
    <3>1. wanted'[t] = wanted[t] \cup Now(t) /\ always'[t] = always[t] \cap Ids(Now(t))
      BY <1>3, <2>3 DEF Ids
    <3>2. Wanting(t[2], KindOf(t), sink)' = Now(t)
      BY <1>2, <2>1
    <3>3. ~Doing(t, "done")
      BY <2>3 DEF UnderWay, Doing
    <3> HIDE DEF Now
    <3> QED BY <1>5, <2>1, <2>2, <2>3, <3>1, <3>2, <3>3 DEF Told, Visits
  <2>4. CASE ~UnderWay(t)
    <3>1. always'[t] = always[t]
      BY <1>3, <2>4
    <3> QED BY <2>1, <2>2, <2>4, <3>1 DEF Told
  <2> QED BY <2>3, <2>4
<1>9. LogsBounded'
  <2>1. \A k \in Sinks : Unpruned(k) \subseteq Unpruned(k)'
    BY <1>2 DEF Unpruned, Doing
  <2>2. mishaps' \in Nat /\ mishaps <= mishaps'
    BY <1>1, <1>2 DEF Shape
  <2> QED BY <1>6, <2>1, <2>2, LogsStay
<1> QED BY <1>7, <1>8, <1>9 DEF Delivering

\* The tasks of a new event start, and those of others go on.
LEMMA SpawnOK ==
    ASSUME Delivering, NEW kind \in Emitted, NEW sorts, Spawn(kind, sorts)
    PROVE  Delivering'
<1> DEFINE n == Len(fired) + 1
           new == {<<n, sort>> : sort \in sorts}
           Now(t) == Wanting(t[2], kind, sink)
           r == Rec("query", {}, Missing, 0)
<1>1. Shape /\ n \in Nat \ {0} /\ n <= MaxEvents /\ n > Len(fired)
  BY LenProperties DEF Spawn, Delivering, Shape
<1>2. /\ fired' = Append(fired, kind)
      /\ task' = [t \in Tasks |-> IF t \in new THEN r ELSE task[t]]
      /\ wanted' = [t \in Tasks |-> IF t \in new THEN Now(t) ELSE wanted[t]]
      /\ always' = [t \in Tasks |-> IF t \in new THEN Ids(Now(t)) ELSE always[t]]
      /\ UNCHANGED <<sink, outcomes, tried, mishaps>>
  <2>1. NoTask = Rec("none", {}, Missing, 0)
    BY DEF NoTask, Rec
  <2>2. [NoTask EXCEPT !.step = "query"] = r
    BY <2>1, NewStep
  <2> QED BY <2>2 DEF Spawn, Ids
<1>3. fired' \in Seq(Emitted) /\ Len(fired') = n /\ (\A k \in 1 .. Len(fired) : fired'[k] = fired[k])
      /\ fired'[n] = kind
  BY <1>1, <1>2, AppendProperties DEF Shape
<1>4. r \in TaskRecord /\ r.step = "query" /\ r.todo = {} /\ r.hand = Missing
  BY DeliveryAssumption DEF TaskRecord, Rec
<1>5. \A t \in Tasks : Now(t) \subseteq Target /\ Ids(Now(t)) \subseteq Sinks
                       /\ \A x \in Now(t) : (x.id \in Webhooks) = (t[2] = "webhook")
  <2>1. \A k \in Sinks : sink[k] \notin {Missing, Deleted} => sink[k] \in Settings(k)
    BY <1>1 DEF Shape, There
  <2>2. \A t \in Tasks : Now(t) \subseteq Target
                         /\ \A x \in Now(t) : (x.id \in Webhooks) = (t[2] = "webhook")
    BY <1>1, <2>1, WantingOK DEF Shape
  <2> QED BY <2>2 DEF Ids, Target
<1>6. \A t \in Tasks : t \in new => t[1] = n
  OBVIOUS
<1> HIDE DEF n, new, Now, r
<1>7. \A t \in Tasks : t \in new => Doing(t, "none")
  BY <1>1, <1>6 DEF Shape
<1>8. Shape'
  <2>1. task' \in [Tasks -> TaskRecord]
    BY <1>1, <1>2, <1>4 DEF Shape
  <2>2. wanted' \in [Tasks -> SUBSET Target] /\ always' \in [Tasks -> SUBSET Sinks]
    BY <1>1, <1>2, <1>5 DEF Shape
  <2>3. \A t \in Tasks : task'[t].step \in Holding <=> task'[t].hand # Missing
    BY <1>1, <1>2, <1>4 DEF Shape, Holding
  <2>4. \A t \in Tasks : ~Doing(t, "none")' => t[1] <= Len(fired')
    <3>1. SUFFICES ASSUME NEW t \in Tasks, ~Doing(t, "none")' PROVE t[1] <= Len(fired')
      OBVIOUS
    <3>2. CASE t \in new
      BY <1>1, <1>3, <1>6, <3>2
    <3>3. CASE t \notin new
      <4>1. ~Doing(t, "none") /\ t[1] \in Nat /\ Len(fired) \in Nat
        BY <1>1, <1>2, <3>1, <3>3, LenProperties DEF Doing, Tasks, Shape
      <4> QED BY <1>1, <1>3, <4>1 DEF Shape
    <3> QED BY <3>2, <3>3
  <2> QED BY <1>1, <1>2, <1>3, <2>1, <2>2, <2>3, <2>4 DEF Shape, There
<1>9. ASSUME NEW t \in Tasks PROVE Told(t)'
  <2>1. CASE t \in new
    <3>1. task'[t] = r /\ wanted'[t] = Now(t) /\ always'[t] = Ids(Now(t)) /\ sink' = sink
      BY <1>2, <2>1
    <3>2. KindOf(t)' = kind
      BY <1>3, <1>6, <2>1 DEF KindOf
    <3>3. Wanting(t[2], KindOf(t), sink)' = Now(t)
      BY <3>1, <3>2 DEF Now
    <3> QED BY <1>4, <1>5, <3>1, <3>3 DEF Told, Doing
  <2>2. CASE t \notin new
    <3>1. task'[t] = task[t] /\ wanted'[t] = wanted[t] /\ always'[t] = always[t] /\ sink' = sink
          /\ tried' = tried
      BY <1>2, <2>2
    <3>2. UnderWay(t) => KindOf(t)' = KindOf(t)
      BY <1>1, <1>3 DEF Shape, Tasks, KindOf, UnderWay, Doing
    <3>3. Told(t) /\ UnderWay(t)' = UnderWay(t)
      BY <3>1 DEF Delivering, UnderWay
    <3> QED BY <3>1, <3>2, <3>3 DEF Told, Visits, Doing
  <2> QED BY <2>1, <2>2
<1>10. LogsBounded'
  <2>1. \A t \in Tasks : task[t].step \in {"prune", "lost"} => task'[t] = task[t]
    BY <1>2, <1>7 DEF Doing
  <2>2. \A k \in Sinks : Unpruned(k) \subseteq Unpruned(k)'
    BY <2>1 DEF Unpruned, Doing
  <2>3. mishaps' \in Nat /\ mishaps <= mishaps' /\ outcomes' \in [Sinks -> Seq(1 .. MaxEvents)]
        /\ \A k \in Sinks : Len(outcomes'[k]) <= Len(outcomes[k])
    BY <1>1, <1>2, LenProperties DEF Shape
  <2> QED BY <2>2, <2>3, LogsStay
<1> QED BY <1>8, <1>9, <1>10 DEF Delivering

\* An instance stops: its tasks are lost, with the logs they had to prune.
LEMMA CrashOK == ASSUME Delivering, Crash PROVE Delivering'
<1>1. PICK spawned \in SUBSET (1 .. Len(fired)) :
         task' = [t \in Tasks |-> IF t[1] \in spawned /\ UnderWay(t)
                                    THEN [NoTask EXCEPT !.step = "lost"] ELSE task[t]]
  BY DEF Crash
<1> DEFINE r == Rec("lost", {}, Missing, 0)
<1>2. Shape /\ UNCHANGED <<sink, fired, wanted, always, outcomes, tried>> /\ mishaps' = mishaps + 1
  BY DEF Delivering, Crash, OfTask, Mishap
<1>3. [NoTask EXCEPT !.step = "lost"] = r
  <2>1. NoTask = Rec("none", {}, Missing, 0)
    BY DEF NoTask, Rec
  <2> QED BY <2>1, NewStep
<1>4. r \in TaskRecord /\ r.step = "lost" /\ r.hand = Missing
  BY DeliveryAssumption DEF TaskRecord, Rec
<1>5. \A t \in Tasks : task'[t] = task[t] \/ (UnderWay(t) /\ task'[t] = r)
  BY <1>1, <1>3
<1>6. task' \in [Tasks -> TaskRecord]
  BY <1>1, <1>2, <1>3, <1>4 DEF Shape
<1> HIDE DEF r
<1>7. Shape'
  <2>1. \A t \in Tasks : task'[t].step \in Holding <=> task'[t].hand # Missing
    BY <1>2, <1>4, <1>5 DEF Shape, Holding
  <2>2. \A t \in Tasks : ~Doing(t, "none")' => t[1] <= Len(fired)
    BY <1>2, <1>5 DEF Shape, Doing, UnderWay
  <2> QED BY <1>2, <1>6, <2>1, <2>2 DEF Shape, There
<1>8. ASSUME NEW t \in Tasks PROVE Told(t)'
  <2>1. Told(t) /\ KindOf(t)' = KindOf(t)
    BY <1>2 DEF Delivering, KindOf
  <2>2. CASE task'[t] = task[t]
    BY <1>2, <2>1, <2>2 DEF Told, UnderWay, Doing, Visits
  <2>3. CASE task'[t] = r
    BY <1>4, <2>3 DEF Told, UnderWay, Doing
  <2> QED BY <1>5, <2>2, <2>3
<1>9. LogsBounded'
  <2>1. \A k \in Sinks : Unpruned(k) \subseteq Unpruned(k)'
    BY <1>4, <1>5 DEF Unpruned, Doing
  <2>2. mishaps' \in Nat /\ mishaps <= mishaps' /\ outcomes' \in [Sinks -> Seq(1 .. MaxEvents)]
        /\ \A k \in Sinks : Len(outcomes'[k]) <= Len(outcomes[k])
    BY <1>2, LenProperties DEF Shape
  <2> QED BY <2>1, <2>2, LogsStay
<1> QED BY <1>7, <1>8, <1>9 DEF Delivering

LEMMA InitDelivering == DeliveryInit => Delivering
<1> SUFFICES ASSUME DeliveryInit PROVE Delivering
  OBVIOUS
<1>1. NoTask \in TaskRecord /\ NoTask.step = "none" /\ NoTask.hand = Missing
  BY DeliveryAssumption DEF TaskRecord, NoTask
<1>2. sink \in [Sinks -> AnySetting] /\ \A i \in Sinks : There(i) => sink[i] \in Settings(i)
  <2>1. \A i \in Sinks : There(i) => sink[i] \in Settings(i)
    BY DEF DeliveryInit
  <2>2. \A i \in Sinks : sink[i] \in AnySetting
    BY <2>1 DEF There, AnySetting, Settings
  <2>3. sink = [i \in Sinks |-> sink[i]]
    BY DEF DeliveryInit
  <2> QED BY <2>1, <2>2, <2>3
<1>3. fired = <<>> /\ fired \in Seq(Emitted) /\ Len(fired) = 0 /\ Len(fired) <= MaxEvents
  BY EmptySeq, DeliveryAssumption DEF DeliveryInit
<1>4. <<>> \in Seq(1 .. MaxEvents) /\ Len(<<>>) = 0
  BY EmptySeq
<1>5. /\ task = [t \in Tasks |-> NoTask] /\ outcomes = [i \in Sinks |-> <<>>]
      /\ wanted = [t \in Tasks |-> {}] /\ always = [t \in Tasks |-> {}]
      /\ tried = [t \in Tasks |-> {}] /\ mishaps = 0
  BY DEF DeliveryInit
<1>6. Shape
  BY <1>1, <1>2, <1>3, <1>4, <1>5 DEF Shape, Doing, Holding
<1>7. \A t \in Tasks : Told(t)
  BY <1>1, <1>5 DEF Told, UnderWay, Doing
<1>8. LogsBounded
  <2> SUFFICES ASSUME NEW i \in Sinks
               PROVE  Len(outcomes[i]) <= Keep + mishaps + Cardinality(Unpruned(i))
    BY DEF LogsBounded
  <2>1. Cardinality(Unpruned(i)) \in Nat
    BY TasksFinite DEF Unpruned
  <2>2. Len(outcomes[i]) = 0 /\ mishaps = 0 /\ Keep \in Nat
    BY <1>4, <1>5, DeliveryAssumption
  <2> HIDE DEF Unpruned
  <2> QED BY <2>1, <2>2
<1> QED BY <1>6, <1>7, <1>8 DEF Delivering

LEMMA StayDelivering == ASSUME Delivering, UNCHANGED delivery PROVE Delivering'
<1>1. UNCHANGED <<sink, fired, task, outcomes, wanted, always, tried, mishaps>>
  BY DEF delivery, history
<1> QED
  BY <1>1 DEF Delivering, Shape, There, Doing, Told, UnderWay, KindOf, Visits, LogsBounded, Unpruned

LEMMA DeliveringStep == Delivering /\ [DeliveryNext]_delivery => Delivering'
<1> SUFFICES ASSUME Delivering, [DeliveryNext]_delivery PROVE Delivering'
  OBVIOUS
<1>1. ASSUME NEW i \in Sinks, NEW new \in Settings(i),
             CreateWebhook(i, new) \/ CreateIntegration(i, new)
             \/ PatchWebhook(i, new) \/ PatchIntegration(i, new)
      PROVE  Delivering'
  BY <1>1, EditOK DEF CreateWebhook, CreateIntegration, PatchWebhook, PatchIntegration
<1>2. ASSUME NEW i \in Sinks, DeleteWebhook(i) \/ DeleteIntegration(i) PROVE Delivering'
  BY <1>2, EditOK DEF DeleteWebhook, DeleteIntegration
<1>3. ASSUME NEW i \in Sinks, TestIntegration(i) PROVE Delivering'
  BY <1>3, SpawnOK, DeliveryAssumption DEF TestIntegration, Emitted
<1>4. ASSUME NEW kind \in Emitted, Notify(kind) PROVE Delivering'
  BY <1>4, SpawnOK DEF Notify
<1>5. ASSUME NEW t \in Tasks, TaskSteps(t) \/ QueryFails(t) PROVE Delivering'
  BY <1>5, QueryOK, QueryFailsOK, TakeOK, FinishOK, PostOK, ResendOK, LogDeliveryOK, PruneLogOK
     DEF TaskSteps
<1> QED BY <1>1, <1>2, <1>3, <1>4, <1>5, CrashOK, StayDelivering DEF DeliveryNext

LEMMA AlwaysDelivering == DeliverySpec => []Delivering
BY InitDelivering, DeliveringStep, PTL DEF DeliverySpec

-----------------------------------------------------------------------------
(* The results.                                                            *)

\* The types, and the bound on the log of a sink, whatever number of tasks
\* append to it and prune it at a time (log_delivery).
THEOREM DeliveryTypeCorrect == DeliverySpec => []DeliveryTypeOK
BY AlwaysDelivering, DeliveringHolds, PTL

\* A task that ends by itself has been to every sink that wanted its event all
\* along, whatever the posts to others did; and it posts only to sinks that have
\* wanted its event since it happened, at an address they had then or later
\* (deliver_to_env, deliver_with_retry).
THEOREM WhoWantsIsTold == DeliverySpec => []WhoWantsIsTried
BY AlwaysDelivering, DeliveringHolds, PTL
=============================================================================
