----------------------------- MODULE SdkClient ------------------------------
(***************************************************************************)
(* The client of the Node SDK (index.js): the stream, its reconnection, the *)
(* polling fallback, the offline cache, connect() and disconnect().  What   *)
(* FlagSync tells flag by flag is here one number, the version of the       *)
(* server's flag set.  Each action is one callback of the event loop.       *)
(***************************************************************************)
EXTENDS Integers, FiniteSets

CONSTANTS
    Nothing,       \* null; a connect() that has not been called
    Asked, Done,   \* a read that is under way; a connect() whose read is done
    Threshold,     \* pollFallbackThreshold (3 by default)
    MaxVersion,    \* bound: versions of the flag set
    MaxConnects    \* bound: calls of connect()

ASSUME ThresholdAssumption ==
    Threshold \in Nat \ {0} /\ MaxVersion \in Nat \ {0} /\ MaxConnects \in Nat
ASSUME NothingAssumption ==
    /\ {Nothing, Asked, Done} \cap 0 .. MaxVersion = {}
    /\ Asked # Nothing /\ Done \notin {Asked, Nothing}

VARIABLES
    version,     \* version of the server's flag set
    stored,      \* version in the storage that outlives the process
    held,        \* version that the client evaluates; 0: no flags
    ready,       \* _ready
    hydrated,    \* _hydrated
    closed,      \* _userClosed
    promise,     \* _connectPromise: "none", "pending" or "resolved"
    hydrations,  \* hydrations[i]: what the storage has answered the i-th connect()
    sse,         \* the event source: "none", "opening", "answered", "replaying", "live"
    sent,        \* version that the server has sent on it, or is about to replay
    staged,      \* _staged
    timer,       \* _reconnectTimer is set
    attempts,    \* _reconnectAttempts, up to Threshold
    polling,     \* _polling
    poll,        \* _pollPromise: Nothing, Asked, or the version that was read
    strays       \* answers of polls that were aborted

flags == <<held, stored, hydrated>>
session == <<ready, promise>>
stream == <<sse, sent, staged, timer, attempts>>
polls == <<polling, poll, strays>>
client == <<version, flags, session, closed, hydrations, stream, polls>>

Versions == 0 .. MaxVersion
Connects == 1 .. MaxConnects
Up == sse \in {"replaying", "live"}

\* A process that has just constructed a client.
ClientInit ==
    /\ version = 1
    /\ stored \in {0, 1}
    /\ held = 0 /\ hydrated = FALSE
    /\ ready = FALSE /\ promise = "none" /\ closed = FALSE
    /\ hydrations = [i \in Connects |-> Nothing]
    /\ sse = "none" /\ sent = 0 /\ staged = Nothing /\ timer = FALSE /\ attempts = 0
    /\ polling = FALSE /\ poll = Nothing /\ strays = {}

\* A flag changes on the server.
Change ==
    /\ version < MaxVersion
    /\ version' = version + 1
    /\ UNCHANGED <<flags, session, closed, hydrations, stream, polls>>

-----------------------------------------------------------------------------
(***************************************************************************)
(* connect() and the offline cache                                         *)
(***************************************************************************)

\* A connect() that finds a promise returns it.
Connect(i) ==
    /\ ~ready /\ promise = "none"
    /\ hydrations[i] = Nothing
    /\ \A j \in Connects : j < i => hydrations[j] # Nothing
    /\ closed' = FALSE
    /\ promise' = "pending"
    /\ hydrations' = [hydrations EXCEPT ![i] = Asked]
    /\ UNCHANGED <<version, flags, ready, stream, polls>>

ReadStorage(i) ==
    /\ hydrations[i] = Asked
    /\ hydrations' = [hydrations EXCEPT ![i] = stored]
    /\ UNCHANGED <<version, flags, session, closed, stream, polls>>

\* Mutant of Hydrate: a stream that there is goes on.
HydrateQuietly(i) ==
    /\ hydrations[i] \in Versions
    /\ hydrations' = [hydrations EXCEPT ![i] = Done]
    /\ held' = IF hydrations[i] = 0 THEN held ELSE hydrations[i]
    /\ hydrated' = (hydrated \/ (hydrations[i] # 0 /\ ~ready))
    /\ sse' = IF closed \/ sse # "none" THEN sse ELSE "opening"
    /\ UNCHANGED <<version, stored, session, closed, sent, staged, timer, attempts, polls>>

\* Mutant of Hydrate: disconnect() is not noticed.
HydrateAnyway(i) ==
    /\ hydrations[i] \in Versions
    /\ hydrations' = [hydrations EXCEPT ![i] = Done]
    /\ held' = IF hydrations[i] = 0 THEN held ELSE hydrations[i]
    /\ hydrated' = (hydrated \/ (hydrations[i] # 0 /\ ~ready))
    /\ sse' = "opening"
    /\ UNCHANGED <<version, stored, session, closed, sent, staged, timer, attempts, polls>>

\* The cached flags are loaded; then the stream is opened, in the place of one
\* that there is.
Hydrate(i) ==
    /\ hydrations[i] \in Versions
    /\ hydrations' = [hydrations EXCEPT ![i] = Done]
    /\ held' = IF hydrations[i] = 0 THEN held ELSE hydrations[i]
    /\ hydrated' = (hydrated \/ (hydrations[i] # 0 /\ ~ready))
    /\ sse' = IF closed THEN sse ELSE "opening"
    /\ UNCHANGED <<version, stored, session, closed, sent, staged, timer, attempts, polls>>

\* A flag set is put in place and cached.  The first one resolves connect().
Apply(v) ==
    /\ held' = v /\ stored' = v /\ hydrated' = TRUE
    /\ ready' = TRUE /\ promise' = "resolved"

\* _stopPollFallback: the poll under way is aborted; its answer may be there
\* already, but its generation is over.
StopPolling ==
    /\ polling' = FALSE
    /\ poll' = Nothing
    /\ strays' = IF poll \in Versions THEN strays \cup {poll} ELSE strays

Disconnect ==
    /\ promise # "none"
    /\ closed' = TRUE /\ ready' = FALSE /\ promise' = "none"
    /\ sse' = "none" /\ staged' = Nothing /\ timer' = FALSE /\ attempts' = 0
    /\ StopPolling
    /\ UNCHANGED <<version, flags, hydrations, sent>>

\* The process ends, and another one constructs a client.
Restart ==
    /\ \E i \in Connects : hydrations[i] = Nothing
    /\ hydrations' = [i \in Connects |-> IF hydrations[i] = Nothing THEN Nothing ELSE Done]
    /\ held' = 0 /\ hydrated' = FALSE
    /\ ready' = FALSE /\ promise' = "none" /\ closed' = FALSE
    /\ sse' = "none" /\ sent' = 0 /\ staged' = Nothing /\ timer' = FALSE /\ attempts' = 0
    /\ polling' = FALSE /\ poll' = Nothing /\ strays' = {}
    /\ UNCHANGED <<version, stored>>

-----------------------------------------------------------------------------
(***************************************************************************)
(* The stream                                                              *)
(***************************************************************************)

\* The server reads the flag set that it is going to replay (sse_handler).
StreamRead ==
    /\ sse = "opening"
    /\ sse' = "answered" /\ sent' = version
    /\ UNCHANGED <<version, flags, session, closed, hydrations, staged, timer, attempts, polls>>

\* "connected", and the replay of the flag set, which is staged.
StreamOpens ==
    /\ sse = "answered"
    /\ sse' = "replaying" /\ staged' = sent
    /\ attempts' = 0
    /\ StopPolling
    /\ UNCHANGED <<version, flags, session, closed, hydrations, sent, timer>>

\* "ready": what is staged is put in place.
StreamReady ==
    /\ sse = "replaying" /\ staged # Nothing
    /\ sse' = "live" /\ staged' = Nothing
    /\ Apply(staged)
    /\ UNCHANGED <<version, closed, hydrations, sent, timer, attempts, polls>>

\* "update": applied and cached.  The server sends "ready" before the first one.
Update ==
    /\ sse = "live" /\ sent < version
    /\ sent' = sent + 1
    /\ held' = sent' /\ stored' = sent'
    /\ UNCHANGED <<version, hydrated, session, closed, hydrations, sse, staged, timer,
                   attempts, polls>>

\* onerror, _scheduleReconnect: after Threshold failures in a row polling
\* begins.  With a reconnect pending nothing is done, and the event source
\* tries again by itself.
StreamFails ==
    /\ sse # "none"
    /\ IF timer
       THEN sse' = "opening" /\ UNCHANGED <<staged, timer, attempts, polling, poll>>
       ELSE /\ sse' = "none" /\ staged' = Nothing /\ timer' = TRUE
            /\ attempts' = IF attempts < Threshold THEN attempts + 1 ELSE attempts
            /\ IF attempts' = Threshold /\ ~polling
               THEN polling' = TRUE /\ poll' = IF poll = Nothing THEN Asked ELSE poll
               ELSE UNCHANGED <<polling, poll>>
    /\ UNCHANGED <<version, flags, session, closed, hydrations, sent, strays>>

TimerFires ==
    /\ timer
    /\ timer' = FALSE
    /\ sse' = "opening"
    /\ UNCHANGED <<version, flags, session, closed, hydrations, sent, staged, attempts, polls>>

-----------------------------------------------------------------------------
(***************************************************************************)
(* The polling fallback                                                    *)
(***************************************************************************)

\* The interval elapses: one poll at a time.
PollTick ==
    /\ polling /\ ~closed /\ poll = Nothing
    /\ poll' = Asked
    /\ UNCHANGED <<version, flags, session, closed, hydrations, stream, polling, strays>>

\* The server reads its segments, then its flags (flags_snapshot_handler).  Of
\* what changes in between the answer has a part: its version is that of the
\* first statement.
PollRead ==
    /\ poll = Asked
    /\ poll' = version
    /\ UNCHANGED <<version, flags, session, closed, hydrations, stream, polling, strays>>

\* Mutant of PollAnswer: connect() is left to the stream.
PollAnswerQuietly ==
    /\ poll \in Versions
    /\ poll' = Nothing
    /\ held' = poll /\ stored' = poll /\ hydrated' = TRUE
    /\ UNCHANGED <<version, session, closed, hydrations, stream, polling, strays>>

PollAnswer ==
    /\ poll \in Versions
    /\ poll' = Nothing
    /\ Apply(poll)
    /\ UNCHANGED <<version, closed, hydrations, stream, polling, strays>>

\* Mutant of PollFails: the promise of the failed poll is kept.
PollFailsForGood ==
    /\ poll # Nothing
    /\ poll' = Done
    /\ UNCHANGED <<version, flags, session, closed, hydrations, stream, polling, strays>>

PollFails ==
    /\ poll # Nothing
    /\ poll' = Nothing
    /\ UNCHANGED <<version, flags, session, closed, hydrations, stream, polling, strays>>

\* Mutant of StrayAnswer: an answer of another generation is applied.
StrayApplies(v) ==
    /\ v \in strays
    /\ strays' = strays \ {v}
    /\ Apply(v)
    /\ UNCHANGED <<version, closed, hydrations, stream, polling, poll>>

\* The answer of an aborted poll is dropped.
StrayAnswer(v) ==
    /\ v \in strays
    /\ strays' = strays \ {v}
    /\ UNCHANGED <<version, flags, session, closed, hydrations, stream, polling, poll>>

-----------------------------------------------------------------------------
ClientNext ==
    \/ Change
    \/ \E i \in Connects : Connect(i) \/ ReadStorage(i) \/ Hydrate(i)
    \/ Disconnect \/ Restart
    \/ StreamRead \/ StreamOpens \/ StreamReady \/ Update \/ StreamFails \/ TimerFires
    \/ PollTick \/ PollRead \/ PollAnswer \/ PollFails
    \/ \E v \in Versions : StrayAnswer(v)

ClientSpec == ClientInit /\ [][ClientNext]_client

\* Timers fire, callbacks run, and an attempt to open the stream comes to an
\* end.  Of infinitely many polls some succeed, and of infinitely many replays
\* some get to their end; the stream may also never open.
Fairness ==
    /\ \A i \in Connects : WF_client(ReadStorage(i)) /\ WF_client(Hydrate(i))
    /\ WF_client(TimerFires) /\ WF_client(PollTick)
    /\ WF_client(sse \in {"opening", "answered"} /\ (StreamRead \/ StreamOpens \/ StreamFails))
    /\ WF_client(Update)
    /\ SF_client(StreamReady) /\ SF_client(PollRead) /\ SF_client(PollAnswer)

-----------------------------------------------------------------------------
(***************************************************************************)
(* Correctness                                                             *)
(***************************************************************************)

\* The fields of the client; it is ready exactly while connect() is resolved.
ClientTypeOK ==
    /\ version \in Versions /\ stored \in Versions /\ held \in Versions /\ sent \in Versions
    /\ ready \in BOOLEAN /\ hydrated \in BOOLEAN /\ closed \in BOOLEAN
    /\ timer \in BOOLEAN /\ polling \in BOOLEAN
    /\ promise \in {"none", "pending", "resolved"}
    /\ hydrations \in [Connects -> {Nothing, Asked, Done} \cup Versions]
    /\ sse \in {"none", "opening", "answered", "replaying", "live"}
    /\ staged \in Versions \cup {Nothing}
    /\ attempts \in 0 .. Threshold
    /\ poll \in {Nothing, Asked} \cup Versions
    /\ strays \subseteq Versions
    /\ ready <=> promise = "resolved"

\* Once connect() is resolved only the end of a replay takes the client back to
\* older flags (a poll may have been answered after the replay was read), or the
\* hydration of an earlier connect(): an update does not, nor does the answer of a
\* poll that the stream has overtaken.
NeverBackOnceReady ==
    [][/\ ready /\ ready'
       /\ \A i \in Connects : hydrations[i] \in {Nothing, Done}
       /\ ~(sse = "replaying" /\ sse' = "live")
       => held' >= held]_client

\* Behind a live stream the client evaluates exactly what the stream has sent: no
\* poll and no late hydration leaves other flags there, which no event would repair.
LiveHoldsSent == sse = "live" => held = sent

\* disconnect() ends everything: no storage that answers late, and no timer, stream
\* or poll that was under way, connects the client again.
ClosedIsQuiet == promise = "none" => sse = "none" /\ ~timer /\ ~polling /\ poll = Nothing

\* The safety half of ConnectResolves and CatchesUp: from connect() on there is
\* a stream, a timer that will open one, or a storage whose answer will, also while
\* the client polls ("SSE retries continue in the background").
StreamIsTried ==
    promise # "none" =>
        sse # "none" \/ timer \/ \E i \in Connects : hydrations[i] \in {Asked} \cup Versions

\* Between connect() and disconnect() the client always tries to hold a stream, and
\* outside of them never, whatever callbacks are late.
StreamFollowsConnect == ClosedIsQuiet /\ StreamIsTried

\* connect() is resolved by the stream or by a poll, whichever gets there, after
\* any number of failures, unless disconnect() or a restart ends it.
ConnectResolves == promise = "pending" ~> promise # "pending"

\* However often the stream breaks, a connected client gets to the flags of the
\* server again and again.
CatchesUp == []<>(promise = "none" \/ held = version)
=============================================================================
