------------------------------ MODULE Delivery -------------------------------
(***************************************************************************)
(* Notifications of what happens in one environment: raw webhooks and chat  *)
(* integrations.  Each event spawns a task for either sort, which reads the *)
(* sinks that want the event and posts to one after another, with retries   *)
(* and a log, while administrators change the sinks.  A task lives in the   *)
(* memory of one instance.                                                 *)
(***************************************************************************)
EXTENDS Integers, Sequences, FiniteSets

CONSTANTS
    Webhooks, Chats,   \* ids (UUIDs) of the rows of webhooks and of integrations
    Kinds,             \* SUPPORTED_EVENTS, which a filter may name
    Scheduled,         \* flag.scheduled_change_applied, which none may
    Updated,           \* flag.updated, the kind of a test message
    Addresses,         \* URLs, with their secrets
    Plaintext,         \* those an integration may not have (is_allowed_url)
    Missing, Deleted,  \* a sink that has not been created; that was deleted
    MaxAttempts,       \* attempts per delivery (3 in the code)
    Keep,              \* rows a log retains per sink (200 in the code)
    MaxEvents,         \* bound: events
    MaxEdits,          \* bound: changes of sinks
    MaxMishaps         \* bound: statements that fail, and crashes

ASSUME DeliveryAssumption ==
    /\ Webhooks \cap Chats = {} /\ Updated \in Kinds /\ Scheduled \notin Kinds
    /\ MaxAttempts \in Nat \ {0} /\ Keep \in Nat \ {0}
    /\ MaxEvents \in Nat /\ MaxEdits \in Nat /\ MaxMishaps \in Nat

Sinks == Webhooks \cup Chats
Target == [id : Sinks, address : Addresses]

ASSUME MissingAssumption == Missing \notin Target

Emitted == Kinds \cup {Scheduled}

Sorts == {"webhook", "chat"}
Tasks == (1 .. MaxEvents) \X Sorts

VARIABLES
    sink,      \* sink[i]: enabled, address and event filter; Missing or Deleted
    fired,     \* kinds of the events so far
    task,      \* task[<<n, sort>>]: the task that delivers event n
    outcomes,  \* outcomes[i]: events in the log of sink i, the latest last
    wanted,    \* wanted[t]: sinks, with their address, that wanted the event of
               \* task t at some moment since; for the properties only, like
    always,    \* always[t]: sinks that have wanted it ever since, and
    tried,     \* tried[t]: sinks it has been posted to
    edits, mishaps

history == <<wanted, always, tried>>
delivery == <<sink, fired, task, outcomes, history, edits, mishaps>>

NoTask == [step |-> "none", todo |-> {}, hand |-> Missing, tries |-> 0]

\* The settings that create and patch let a sink of either sort have.
Settings(i) ==
    IF i \in Webhooks THEN [enabled : BOOLEAN, address : Addresses, filter : {{}}]
    ELSE [enabled : BOOLEAN, address : Addresses \ Plaintext, filter : SUBSET Kinds]

There(i) == sink[i] \notin {Missing, Deleted}

DeliveryInit ==
    /\ sink \in [Sinks -> {Missing} \cup UNION {Settings(i) : i \in Sinks}]
    /\ \A i \in Sinks : There(i) => sink[i] \in Settings(i)
    /\ fired = <<>>
    /\ task = [t \in Tasks |-> NoTask]
    /\ outcomes = [i \in Sinks |-> <<>>]
    /\ wanted = [t \in Tasks |-> {}]
    /\ always = [t \in Tasks |-> {}]
    /\ tried = [t \in Tasks |-> {}]
    /\ edits = 0 /\ mishaps = 0

\* An integration without a filter wants every event, as a webhook does.
WantsEvent(filter, kind) == filter = {} \/ kind \in filter

\* The webhooks that settings s tell of an event, with their address.
WantingHooks(s) ==
    {[id |-> i, address |-> s[i].address] :
        i \in {j \in Webhooks : s[j] \notin {Missing, Deleted} /\ s[j].enabled}}

\* The integrations, which have a filter besides.
WantingChats(s, kind) ==
    {[id |-> i, address |-> s[i].address] :
        i \in {j \in Chats : /\ s[j] \notin {Missing, Deleted}
                             /\ s[j].enabled /\ WantsEvent(s[j].filter, kind)}}

\* What a query for the sinks of one sort finds under settings s.
Wanting(sort, kind, s) ==
    IF sort = "webhook" THEN WantingHooks(s) ELSE WantingChats(s, kind)

KindOf(t) == fired[t[1]]

-----------------------------------------------------------------------------
(***************************************************************************)
(* Sinks: each change is one statement on one row.                         *)
(***************************************************************************)

UnderWay(t) == task[t].step \notin {"none", "done", "lost"}

\* Sink i becomes new; the history of the tasks under way takes note.
Edit(i, new) ==
    LET s == [sink EXCEPT ![i] = new]
        Now(t) == Wanting(t[2], KindOf(t), s)
    IN
    /\ edits < MaxEdits
    /\ edits' = edits + 1
    /\ sink' = s
    /\ wanted' = [t \in Tasks |-> IF UnderWay(t) THEN wanted[t] \cup Now(t) ELSE wanted[t]]
    /\ always' = [t \in Tasks |->
                    IF UnderWay(t) THEN always[t] \cap {x.id : x \in Now(t)} ELSE always[t]]
    /\ UNCHANGED <<fired, task, tried, mishaps>>

CreateWebhook(i, new) ==
    /\ i \in Webhooks /\ sink[i] = Missing /\ new \in Settings(i)
    /\ Edit(i, new) /\ UNCHANGED outcomes

CreateIntegration(i, new) ==
    /\ i \in Chats /\ sink[i] = Missing /\ new \in Settings(i)
    /\ Edit(i, new) /\ UNCHANGED outcomes

\* Each setting is replaced or left as it is.
PatchWebhook(i, new) ==
    /\ i \in Webhooks /\ There(i) /\ new \in Settings(i) \ {sink[i]}
    /\ Edit(i, new) /\ UNCHANGED outcomes

PatchIntegration(i, new) ==
    /\ i \in Chats /\ There(i) /\ new \in Settings(i) \ {sink[i]}
    /\ Edit(i, new) /\ UNCHANGED outcomes

\* The row is deleted, and its log with it.
DeleteWebhook(i) ==
    /\ i \in Webhooks /\ There(i)
    /\ Edit(i, Deleted) /\ outcomes' = [outcomes EXCEPT ![i] = <<>>]

DeleteIntegration(i) ==
    /\ i \in Chats /\ There(i)
    /\ Edit(i, Deleted) /\ outcomes' = [outcomes EXCEPT ![i] = <<>>]

-----------------------------------------------------------------------------
(***************************************************************************)
(* Events                                                                  *)
(***************************************************************************)

\* Tasks are spawned that tell the sinks of these sorts of a new event.
Spawn(kind, sorts) ==
    LET n == Len(fired) + 1
        new == {<<n, sort>> : sort \in sorts}
        Now(t) == Wanting(t[2], kind, sink)
    IN
    /\ n <= MaxEvents
    /\ fired' = Append(fired, kind)
    /\ task' = [t \in Tasks |-> IF t \in new THEN [NoTask EXCEPT !.step = "query"] ELSE task[t]]
    /\ wanted' = [t \in Tasks |-> IF t \in new THEN Now(t) ELSE wanted[t]]
    /\ always' = [t \in Tasks |-> IF t \in new THEN {x.id : x \in Now(t)} ELSE always[t]]
    /\ UNCHANGED <<sink, outcomes, tried, edits, mishaps>>

\* notify: both sorts are told of every event.
Notify(kind) == Spawn(kind, Sorts)

\* test_integration: the test of one integration is an event like any other,
\* for all integrations that want one.
TestIntegration(i) == i \in Chats /\ There(i) /\ Spawn(Updated, {"chat"})

-----------------------------------------------------------------------------
(***************************************************************************)
(* Tasks                                                                   *)
(***************************************************************************)

Doing(t, s) == task[t].step = s

OfTask == UNCHANGED <<sink, fired, wanted, always, edits>>

Mishap == mishaps < MaxMishaps /\ mishaps' = mishaps + 1

\* deliver_to_env: the rows of the sinks that want the event are read once.
Query(t) ==
    /\ Doing(t, "query")
    /\ task' = [task EXCEPT ![t].step = "next", ![t].todo = Wanting(t[2], KindOf(t), sink)]
    /\ OfTask /\ UNCHANGED <<outcomes, tried, mishaps>>

\* The query fails, and with it the task; no other statement is decisive.
QueryFails(t) ==
    /\ Doing(t, "query")
    /\ Mishap
    /\ task' = [task EXCEPT ![t].step = "lost"]
    /\ OfTask /\ UNCHANGED <<outcomes, tried>>

\* The next sink, in no order: deliver_with_retry.
Take(t) ==
    /\ Doing(t, "next")
    /\ \E x \in task[t].todo :
          task' = [task EXCEPT ![t] = [step |-> "post", todo |-> @.todo \ {x},
                                       hand |-> x, tries |-> 0]]
    /\ OfTask /\ UNCHANGED <<outcomes, tried, mishaps>>

Finish(t) ==
    /\ Doing(t, "next") /\ task[t].todo = {}
    /\ task' = [task EXCEPT ![t] = [NoTask EXCEPT !.step = "done"]]
    /\ OfTask /\ UNCHANGED <<outcomes, tried, mishaps>>

PostedTo(t) == tried' = [tried EXCEPT ![t] = @ \cup {task[t].hand.id}]

\* There is an answer: whatever its status, the sink has been told.
Response(t) ==
    /\ Doing(t, "post")
    /\ task' = [task EXCEPT ![t].step = "log", ![t].tries = 0]
    /\ PostedTo(t)
    /\ OfTask /\ UNCHANGED <<outcomes, mishaps>>

\* Mutant of NoResponse: the last failure ends the task.
NoResponseEnds(t) ==
    LET n == task[t].tries + 1 IN
    /\ Doing(t, "post")
    /\ task' = [task EXCEPT ![t].step = IF n = MaxAttempts THEN "done" ELSE "wait",
                            ![t].tries = n % MaxAttempts]
    /\ PostedTo(t)
    /\ OfTask /\ UNCHANGED <<outcomes, mishaps>>

\* No connection, or no answer in time.
NoResponse(t) ==
    LET n == task[t].tries + 1 IN
    /\ Doing(t, "post")
    /\ task' = [task EXCEPT ![t].step = IF n = MaxAttempts THEN "log" ELSE "wait",
                            ![t].tries = n % MaxAttempts]
    /\ PostedTo(t)
    /\ OfTask /\ UNCHANGED <<outcomes, mishaps>>

\* The backoff is over.
Resend(t) ==
    /\ Doing(t, "wait")
    /\ task' = [task EXCEPT ![t].step = "post"]
    /\ OfTask /\ UNCHANGED <<outcomes, tried, mishaps>>

\* log_delivery, first statement: it refers to the row of the sink, and fails
\* if that is gone.  A failure is ignored.
LogDelivery(t) ==
    LET i == task[t].hand.id IN
    /\ Doing(t, "log")
    /\ task' = [task EXCEPT ![t].step = "prune"]
    /\ \/ There(i) /\ outcomes' = [outcomes EXCEPT ![i] = Append(@, t[1])]
          /\ UNCHANGED mishaps
       \/ ~There(i) /\ UNCHANGED <<outcomes, mishaps>>
       \/ Mishap /\ UNCHANGED outcomes
    /\ OfTask /\ UNCHANGED tried

\* The latest n of a log.
Latest(log, n) == IF Len(log) <= n THEN log ELSE SubSeq(log, Len(log) - n + 1, Len(log))

\* Mutant of PruneLog: it keeps one more.
PruneOneMore(t) ==
    LET i == task[t].hand.id IN
    /\ Doing(t, "prune")
    /\ task' = [task EXCEPT ![t].step = "next", ![t].hand = Missing]
    /\ outcomes' = [outcomes EXCEPT ![i] = Latest(@, Keep + 1)]
    /\ OfTask /\ UNCHANGED <<tried, mishaps>>

\* Second statement: the log keeps the most recent rows.  A failure is ignored.
PruneLog(t) ==
    LET i == task[t].hand.id IN
    /\ Doing(t, "prune")
    /\ task' = [task EXCEPT ![t].step = "next", ![t].hand = Missing]
    /\ \/ outcomes' = [outcomes EXCEPT ![i] = Latest(@, Keep)] /\ UNCHANGED mishaps
       \/ Mishap /\ UNCHANGED outcomes
    /\ OfTask /\ UNCHANGED tried

\* An instance stops: the tasks of the events it spawned are not resumed.
Crash ==
    /\ Mishap
    /\ \E spawned \in SUBSET (1 .. Len(fired)) :
          task' = [t \in Tasks |-> IF t[1] \in spawned /\ UnderWay(t)
                                     THEN [NoTask EXCEPT !.step = "lost"] ELSE task[t]]
    /\ OfTask /\ UNCHANGED <<outcomes, tried>>

-----------------------------------------------------------------------------
TaskSteps(t) ==
    Query(t) \/ Take(t) \/ Finish(t) \/ Response(t) \/ NoResponse(t) \/ Resend(t)
    \/ LogDelivery(t) \/ PruneLog(t)

DeliveryNext ==
    \/ \E i \in Sinks :
          \/ \E new \in Settings(i) : \/ CreateWebhook(i, new) \/ CreateIntegration(i, new)
                                      \/ PatchWebhook(i, new) \/ PatchIntegration(i, new)
          \/ DeleteWebhook(i) \/ DeleteIntegration(i)
          \/ TestIntegration(i)
    \/ \E kind \in Emitted : Notify(kind)
    \/ \E t \in Tasks : TaskSteps(t) \/ QueryFails(t)
    \/ Crash

DeliverySpec == DeliveryInit /\ [][DeliveryNext]_delivery

-----------------------------------------------------------------------------
(***************************************************************************)
(* Correctness                                                             *)
(***************************************************************************)

\* Tasks that may have appended to the log of sink i and not pruned it yet, or
\* that an instance took with it, perhaps at that moment.
Unpruned(i) ==
    {t \in Tasks : (Doing(t, "prune") /\ task[t].hand.id = i) \/ Doing(t, "lost")}

\* The state is of the shape the code keeps it in, and the log of a sink is
\* never longer than what it keeps, a row for each task that has yet to prune
\* it or never will, and one for each pruning that failed (log_delivery of
\* several tasks).
DeliveryTypeOK ==
    /\ \A i \in Sinks : There(i) => sink[i] \in Settings(i)
    /\ fired \in Seq(Emitted) /\ Len(fired) <= MaxEvents
    /\ task \in [Tasks -> [step : {"none", "query", "next", "post", "wait", "log", "prune",
                                   "done", "lost"},
                           todo : SUBSET Target, hand : Target \cup {Missing},
                           tries : 0 .. MaxAttempts - 1]]
    /\ \A t \in Tasks :
          task[t].step \in {"post", "wait", "log", "prune"} <=> task[t].hand # Missing
    /\ \A i \in Sinks :
          Len(outcomes[i]) <= Keep + mishaps + Cardinality(Unpruned(i))

\* Told of an event are those who want it.  When a task is done, every sink that
\* wanted its event all along has been told, whatever the sinks before it in the
\* list did and whoever changed them; only a crash or a failed query (the task is
\* lost) tells it nothing.  And whoever is told has been enabled, at that address
\* and with a filter that lets the event pass, at some moment since the event:
\* the list a task read before its retries is not older.
WhoWantsIsTried ==
    \A t \in Tasks :
        /\ Doing(t, "done") => always[t] \subseteq tried[t]
        /\ task[t].step \in {"post", "wait"} => task[t].hand \in wanted[t]
=============================================================================
