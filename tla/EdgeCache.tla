----------------------------- MODULE EdgeCache -----------------------------
(***************************************************************************)
(* The snapshot of the flags that an isolate of an edge platform keeps, and *)
(* the requests that evaluate against it.  A request waits for a refresh,   *)
(* starts one behind its back, or does neither, by the age of the snapshot; *)
(* concurrent requests share one refresh.  What runs between two callbacks  *)
(* of JavaScript is one step.  A snapshot is a version of the flag set.     *)
(***************************************************************************)
EXTENDS Naturals

CONSTANTS
    Requests,     \* requests of the isolate
    Fetches,      \* names of fetches
    NoFetch,      \* no refresh in flight
    Ttl,          \* ttlMs, in ticks of the clock
    Swr,          \* swrMs, in ticks of the clock
    MaxFetch,     \* ticks after which the platform ends a fetch
    MaxSnapshot,  \* bound: versions of the flag set
    MaxFailures   \* bound: fetches that fail

ASSUME EdgeAssumption ==
    /\ NoFetch \notin Fetches
    /\ {Ttl, Swr, MaxFetch, MaxFailures} \subseteq Nat
    /\ MaxSnapshot \in Nat \ {0}

VARIABLES
    origin,       \* version at the server
    past,         \* past[i]: version before the i-th last tick (for the properties)
    loaded,       \* version in the core; 0 while _loaded is false
    age,          \* ageMs(), as far as it matters
    refreshing,   \* _refreshing: the fetch it waits for
    fetches,      \* fetches[f]: its stage, the version answered, its duration
    request,      \* request[r]: where it is in ensureFresh
    failures      \* bound: number of fetches that failed

edge == <<origin, past, loaded, age, refreshing, fetches, request, failures>>

Infinity == Ttl + Swr + 1       \* any age beyond both windows
Window == Ttl + Swr + MaxFetch + 1

Unused == [stage |-> "unused"]
Cancelled == [stage |-> "cancelled"]
Sent(kept) == [stage |-> "sent", ticks |-> 0, kept |-> kept]
Away == [at |-> "away"]
Waiting(f) == [at |-> "waiting", on |-> f]
Rejected == [at |-> "rejected"]

\* Let through, perhaps with what was there before a refresh that failed.
Served(fallback) == [at |-> "served", fallback |-> fallback]

InFlight(f) == fetches[f].stage \in {"sent", "answered"}

EdgeInit ==
    /\ origin = 1
    /\ past = [i \in 1 .. Window |-> 1]
    /\ loaded = 0
    /\ age = Infinity
    /\ refreshing = NoFetch
    /\ fetches = [f \in Fetches |-> Unused]
    /\ request = [r \in Requests |-> Away]
    /\ failures = 0

-----------------------------------------------------------------------------
(***************************************************************************)
(* Requests                                                                *)
(***************************************************************************)

\* A fetch starts; whether it outlives the response of its request is up to
\* the request that started it.
StartFetch(kept) ==
    \E f \in Fetches :
        /\ fetches[f] = Unused
        /\ fetches' = [fetches EXCEPT ![f] = Sent(kept)]
        /\ refreshing' = f

\* Mutant of Refresh: concurrent refreshes are not shared.
RefreshAlone(kept) == StartFetch(kept)

\* The refresh in flight is shared.
Refresh(kept) ==
    \/ refreshing = NoFetch /\ StartFetch(kept)
    \/ refreshing # NoFetch /\ UNCHANGED <<refreshing, fetches>>

TooStale == age > Ttl /\ (Swr = 0 \/ age > Ttl + Swr)

\* There was no snapshot yet, or it is too old to serve.  No waitUntil keeps the
\* refresh if the client goes away.
Wait(r) ==
    /\ loaded = 0 \/ TooStale
    /\ Refresh(FALSE)
    /\ request' = [request EXCEPT ![r] = Waiting(refreshing')]

ServeFresh(r) ==
    /\ loaded # 0 /\ age <= Ttl
    /\ request' = [request EXCEPT ![r] = Served(FALSE)]
    /\ UNCHANGED <<refreshing, fetches>>

\* With waitUntil the platform lets the refresh end after the response.
ServeStale(r, waitUntil) ==
    /\ loaded # 0 /\ age > Ttl /\ ~TooStale
    /\ Refresh(waitUntil)
    /\ request' = [request EXCEPT ![r] = Served(FALSE)]

EnsureFresh(r) ==
    /\ request[r] = Away
    /\ \/ Wait(r)
       \/ ServeFresh(r)
       \/ \E waitUntil \in BOOLEAN : ServeStale(r, waitUntil)
    /\ UNCHANGED <<origin, past, loaded, age, failures>>

\* The request evaluates its flags and answers, or answers with an error.
Respond(r) ==
    /\ request[r].at \in {"served", "rejected"}
    /\ request' = [request EXCEPT ![r] = Away]
    /\ UNCHANGED <<origin, past, loaded, age, refreshing, fetches, failures>>

\* The client of a request that waits goes away.
HangUp(r) ==
    /\ request[r].at = "waiting"
    /\ request' = [request EXCEPT ![r] = Away]
    /\ UNCHANGED <<origin, past, loaded, age, refreshing, fetches, failures>>

\* Somebody calls refresh() whatever the age, as a cron trigger does.
Warm ==
    /\ Refresh(TRUE)
    /\ UNCHANGED <<origin, past, loaded, age, request, failures>>

-----------------------------------------------------------------------------
(***************************************************************************)
(* The refresh                                                             *)
(***************************************************************************)

\* The server reads the snapshot; the answer is under way.
OriginAnswers(f) ==
    /\ fetches[f].stage = "sent"
    /\ fetches' = [fetches EXCEPT ![f] = [stage |-> "answered", version |-> origin,
                                          ticks |-> @.ticks, kept |-> @.kept]]
    /\ UNCHANGED <<origin, past, loaded, age, refreshing, request, failures>>

\* The promise settles, and those who wait for it continue.
Continue(f, outcome) ==
    /\ fetches' = [fetches EXCEPT ![f] = Unused]
    /\ request' = [r \in Requests |->
                     IF request[r] = Waiting(f) THEN outcome ELSE request[r]]

\* Mutant of Settle: then() in place of finally().
SettleLoaded(f, outcome) ==
    /\ Continue(f, outcome)
    /\ refreshing' = IF outcome = Served(FALSE) THEN NoFetch ELSE refreshing

Settle(f, outcome) ==
    /\ Continue(f, outcome)
    /\ refreshing' = NoFetch

\* The core is cleared and filled without a pause.
Load(f) ==
    /\ fetches[f].stage = "answered"
    /\ loaded' = fetches[f].version
    /\ age' = 0
    /\ Settle(f, Served(FALSE))
    /\ UNCHANGED <<origin, past, failures>>

\* Mutant of FetchFails: the time of the last attempt is what counts.
FetchFailsQuietly(f) ==
    /\ InFlight(f) /\ failures < MaxFailures
    /\ failures' = failures + 1
    /\ Settle(f, IF loaded = 0 THEN Rejected ELSE Served(TRUE))
    /\ age' = 0
    /\ UNCHANGED <<origin, past, loaded>>

\* No answer, a status that is no success, or a body that is no array of flags.
\* The first load has nothing to fall back to.
FetchFails(f) ==
    /\ InFlight(f) /\ failures < MaxFailures
    /\ failures' = failures + 1
    /\ Settle(f, IF loaded = 0 THEN Rejected ELSE Served(TRUE))
    /\ UNCHANGED <<origin, past, loaded, age>>

\* A refresh that no waitUntil keeps may be cancelled when the request that
\* started it ends, with its response or with its client: the promise never
\* settles, for others that share it neither.
Cancel(f) ==
    /\ InFlight(f) /\ ~fetches[f].kept
    /\ fetches' = [fetches EXCEPT ![f] = Cancelled]
    /\ UNCHANGED <<origin, past, loaded, age, refreshing, request, failures>>

-----------------------------------------------------------------------------
(***************************************************************************)
(* Around the cache                                                        *)
(***************************************************************************)

\* A flag is changed.
Publish ==
    /\ origin < MaxSnapshot
    /\ origin' = origin + 1
    /\ UNCHANGED <<past, loaded, age, refreshing, fetches, request, failures>>

\* Time passes; no fetch lasts longer than MaxFetch.
Tick ==
    /\ \A f \in Fetches : InFlight(f) => fetches[f].ticks < MaxFetch
    /\ past' = [i \in 1 .. Window |-> IF i = 1 THEN origin ELSE past[i - 1]]
    /\ age' = IF age < Infinity THEN age + 1 ELSE age
    /\ fetches' = [f \in Fetches |->
                     IF InFlight(f) THEN [fetches[f] EXCEPT !.ticks = @ + 1] ELSE fetches[f]]
    /\ UNCHANGED <<origin, loaded, refreshing, request, failures>>

EdgeNext ==
    \/ \E r \in Requests : EnsureFresh(r) \/ Respond(r) \/ HangUp(r)
    \/ \E f \in Fetches : OriginAnswers(f) \/ Load(f) \/ FetchFails(f) \/ Cancel(f)
    \/ Warm \/ Publish \/ Tick

EdgeSpec == EdgeInit /\ [][EdgeNext]_edge

\* Callbacks run, time passes, and a fetch is answered unless it fails or is
\* cancelled; failures are finite in number.
EdgeFairness ==
    /\ \A r \in Requests : WF_edge(Respond(r))
    /\ \A f \in Fetches : WF_edge(OriginAnswers(f)) /\ WF_edge(Load(f))
    /\ WF_edge(Tick)

-----------------------------------------------------------------------------
(***************************************************************************)
(* Correctness                                                             *)
(***************************************************************************)

FetchStates ==
    {Unused, Cancelled}
    \cup [stage : {"sent"}, ticks : 0 .. MaxFetch, kept : BOOLEAN]
    \cup [stage : {"answered"}, version : 1 .. MaxSnapshot, ticks : 0 .. MaxFetch, kept : BOOLEAN]

RequestStates == {Away, Rejected, Served(TRUE), Served(FALSE)} \cup {Waiting(f) : f \in Fetches}

\* There is one refresh at a time, and whoever waits, waits for that one.
EdgeTypeOK ==
    /\ origin \in 1 .. MaxSnapshot /\ loaded \in 0 .. origin
    /\ past \in [1 .. Window -> 1 .. origin]
    /\ age \in 0 .. Infinity /\ failures \in 0 .. MaxFailures
    /\ refreshing \in Fetches \cup {NoFetch}
    /\ fetches \in [Fetches -> FetchStates] /\ request \in [Requests -> RequestStates]
    /\ \A f \in Fetches : fetches[f] # Unused <=> refreshing = f
    /\ \A r \in Requests, f \in Fetches : request[r] = Waiting(f) => refreshing = f

\* refresh() shares a request so that answers cannot overtake each other: the
\* flags of an isolate never go back to an older version.
NeverOlder == [][loaded' >= loaded]_edge

\* ensureFresh() lets a request through with flags that the server had no longer
\* ago than both windows and one fetch last, unless a refresh just failed: then
\* the last known good ones serve, of any age.
StaleWithinWindows ==
    [][\A r \in Requests :
         request'[r] # request[r] /\ request'[r] = Served(FALSE) =>
             loaded' >= past'[Window]]_edge

\* While requests keep coming, the cache gets what the server has, whatever fails
\* in between, unless a refresh was cancelled: nothing starts another one then.
EdgeCatchesUp ==
    []<>(\E r \in Requests : request[r] # Away) =>
        <>[](loaded = origin) \/ <>(\E f \in Fetches : fetches[f] = Cancelled)
=============================================================================
