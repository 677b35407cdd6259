---------------------------- MODULE Client_proofs ----------------------------
(***************************************************************************)
(* Proofs about the parts of an SDK: the snapshot of the edge cache, for    *)
(* any number of requests, windows and durations; the client that is        *)
(* connected and disconnected at will; evaluations in any number of         *)
(* threads, of flags with any prerequisites, against a store that changes;  *)
(* and the shares that variants of any weights have of all hashes.          *)
(***************************************************************************)
EXTENDS SdkClient, LocalStore, EdgeCache, SequenceTheorems, FiniteSetTheorems,
        WellFoundedInduction, TLAPS

-----------------------------------------------------------------------------
(***************************************************************************)
(* The edge cache: what it serves never goes back, and is not too old.     *)
(***************************************************************************)

\* What is in the core was read no longer ago than it is old and one fetch lasts.
LoadedInTime ==
    loaded # 0 => \A i \in 1 .. Window : i > age + MaxFetch => past[i] <= loaded

\* An answer under way was read after the fetch was sent, and is no older than
\* what it will replace.
AnsweredInTime ==
    \A f \in Fetches : fetches[f].stage = "answered" =>
        /\ loaded <= fetches[f].version /\ fetches[f].version <= origin
        /\ \A i \in 1 .. Window : i > fetches[f].ticks => past[i] <= fetches[f].version

EdgeInv == EdgeTypeOK /\ LoadedInTime /\ AnsweredInTime

-----------------------------------------------------------------------------
\* The windows are natural numbers.
LEMMA Windows == /\ Ttl \in Nat /\ Swr \in Nat /\ MaxFetch \in Nat /\ MaxFailures \in Nat
                 /\ Infinity \in Nat /\ Window \in Nat /\ Window > Ttl + Swr + MaxFetch
                 /\ Window = Infinity + MaxFetch /\ NoFetch \notin Fetches
BY EdgeAssumption DEF Infinity, Window

\* A fetch tells its stage, and a request what it waits for.
LEMMA Stages ==
    /\ Unused # Cancelled /\ Unused.stage = "unused" /\ Cancelled.stage = "cancelled"
    /\ \A kept : Sent(kept) # Unused /\ Sent(kept).stage = "sent" /\ Sent(kept).ticks = 0
    /\ \A f, g : Waiting(f) = Waiting(g) => f = g
    /\ \A f : Waiting(f) # Away /\ Waiting(f) # Rejected
    /\ \A f, fallback : Waiting(f) # Served(fallback)
BY DEF Unused, Cancelled, Sent, Waiting, Away, Rejected, Served

\* A fetch that is under way has a duration, and perhaps an answer; what is sent,
\* answered or older is the state of a fetch.
LEMMA States ==
    /\ \A x \in FetchStates : x.stage \in {"sent", "answered"} =>
         /\ x.ticks \in 0 .. MaxFetch /\ x.kept \in BOOLEAN
         /\ x.stage = "answered" => x.version \in 1 .. MaxSnapshot
         /\ \A n \in 0 .. MaxFetch : /\ [x EXCEPT !.ticks = n] \in FetchStates \ {Unused}
                                    /\ [x EXCEPT !.ticks = n].stage = x.stage
                                    /\ [x EXCEPT !.ticks = n].ticks = n
                                    /\ [x EXCEPT !.ticks = n].version = x.version
    /\ \A x \in FetchStates : x.stage \notin {"sent", "answered"} => x \in {Unused, Cancelled}
    /\ {Unused, Cancelled} \subseteq FetchStates
    /\ \A kept \in BOOLEAN : Sent(kept) \in FetchStates
    /\ \A v \in 1 .. MaxSnapshot, n \in 0 .. MaxFetch, kept \in BOOLEAN :
         [stage |-> "answered", version |-> v, ticks |-> n, kept |-> kept] \in FetchStates
<1> USE Windows DEF FetchStates
<1>1. ASSUME NEW x \in FetchStates, x.stage = "sent", NEW n \in 0 .. MaxFetch
      PROVE  /\ x.ticks \in 0 .. MaxFetch /\ x.kept \in BOOLEAN
             /\ [x EXCEPT !.ticks = n] = [stage |-> "sent", ticks |-> n, kept |-> x.kept]
    BY <1>1, Stages
<1>2. ASSUME NEW x \in FetchStates, x.stage = "answered", NEW n \in 0 .. MaxFetch
      PROVE  /\ x.ticks \in 0 .. MaxFetch /\ x.kept \in BOOLEAN /\ x.version \in 1 .. MaxSnapshot
             /\ [x EXCEPT !.ticks = n] =
                   [stage |-> "answered", version |-> x.version, ticks |-> n, kept |-> x.kept]
    BY <1>2, Stages
<1>3. ASSUME NEW x \in FetchStates, x.stage \notin {"sent", "answered"}
      PROVE  x \in {Unused, Cancelled}
    BY <1>3
<1>4. \A kept \in BOOLEAN : Sent(kept) \in FetchStates
    BY DEF Sent
<1> QED BY <1>1, <1>2, <1>3, <1>4, Stages

\* A fetch after another tick.
LEMMA Ticked ==
    ASSUME NEW x \in FetchStates, x.stage \in {"sent", "answered"}, NEW n \in 0 .. MaxFetch,
           NEW y, y = [x EXCEPT !.ticks = n]
    PROVE  y \in FetchStates \ {Unused} /\ y.stage = x.stage /\ y.version = x.version /\ y.ticks = n
BY States

\* Where a request may be.
LEMMA Calls ==
    /\ {Away, Rejected, Served(TRUE), Served(FALSE)} \subseteq RequestStates
    /\ \A f \in Fetches : Waiting(f) \in RequestStates
    /\ \A x \in RequestStates : x \notin {Away, Rejected, Served(TRUE), Served(FALSE)} =>
          \E f \in Fetches : x = Waiting(f)
BY DEF RequestStates

\* The cache begins empty.
LEMMA InitInv == EdgeInit => EdgeInv
<1> SUFFICES ASSUME EdgeInit PROVE EdgeInv OBVIOUS
<1> USE EdgeAssumption, Windows, Stages, States, Calls
<1>1. EdgeTypeOK
    BY DEF EdgeInit, EdgeTypeOK
<1>2. LoadedInTime
    BY DEF EdgeInit, LoadedInTime
<1>3. AnsweredInTime
    BY DEF EdgeInit, AnsweredInTime
<1> QED BY <1>1, <1>2, <1>3 DEF EdgeInv

-----------------------------------------------------------------------------
\* A refresh is shared or starts a fetch, which is the only one.
LEMMA RefreshInv ==
    ASSUME EdgeInv, NEW kept \in BOOLEAN, Refresh(kept),
           UNCHANGED <<origin, past, loaded, age, failures>>,
           request' = request \/
             \E r \in Requests, outcome \in {Served(FALSE), Waiting(refreshing')} :
               request' = [request EXCEPT ![r] = outcome]
    PROVE  EdgeInv'
<1> USE Windows, Stages DEF EdgeInv
<1>1. refreshing' \in Fetches
    BY DEF Refresh, StartFetch, EdgeTypeOK
<1>2. /\ request' \in [Requests -> RequestStates]
      /\ \A r \in Requests, f \in Fetches : request'[r] = Waiting(f) => refreshing' = f
    <2>1. \A r \in Requests, f \in Fetches : request[r] = Waiting(f) => refreshing' = f
        BY DEF Refresh, EdgeTypeOK
    <2>2. CASE request' = request
        BY <2>1, <2>2 DEF EdgeTypeOK
    <2>3. ASSUME NEW r \in Requests, NEW outcome \in {Served(FALSE), Waiting(refreshing')},
                 request' = [request EXCEPT ![r] = outcome]
          PROVE  <1>2!1 /\ <1>2!2
        <3>1. outcome \in RequestStates
            BY <1>1, <2>3 DEF RequestStates
        <3>2. \A f \in Fetches : outcome = Waiting(f) => refreshing' = f
            BY <2>3
        <3> QED BY <2>1, <2>3, <3>1, <3>2 DEF EdgeTypeOK
    <2> QED BY <2>2, <2>3
<1>4. CASE refreshing # NoFetch /\ UNCHANGED <<refreshing, fetches>>
    BY <1>2, <1>4 DEF EdgeTypeOK, LoadedInTime, AnsweredInTime
<1>5. CASE refreshing = NoFetch /\ StartFetch(kept)
    <2>1. PICK f \in Fetches : /\ fetches[f] = Unused
                               /\ fetches' = [fetches EXCEPT ![f] = Sent(kept)]
                               /\ refreshing' = f
        BY <1>5 DEF StartFetch
    <2>2. Sent(kept) \in FetchStates
        BY States
    <2>3. EdgeTypeOK'
        BY <1>2, <1>5, <2>1, <2>2 DEF EdgeTypeOK
    <2>4. \A g \in Fetches : fetches'[g].stage # "answered"
        BY <1>5, <2>1 DEF EdgeTypeOK
    <2> QED BY <2>3, <2>4 DEF LoadedInTime, AnsweredInTime
<1> QED BY <1>4, <1>5 DEF Refresh

\* What a fetch that is under way knows of itself.
LEMMA Flight ==
    ASSUME EdgeTypeOK, NEW f \in Fetches, InFlight(f)
    PROVE  /\ refreshing = f
           /\ \A g \in Fetches \ {f} : fetches[g] = Unused
           /\ fetches[f].ticks \in 0 .. MaxFetch /\ fetches[f].kept \in BOOLEAN
           /\ fetches[f].stage = "answered" => fetches[f].version \in 1 .. MaxSnapshot
BY Stages, States, Windows DEF EdgeTypeOK, InFlight

\* After a fetch has settled none is under way, and nobody waits.
LEMMA Settled ==
    ASSUME EdgeTypeOK, NEW f \in Fetches, InFlight(f),
           NEW outcome \in {Rejected, Served(TRUE), Served(FALSE)}, Settle(f, outcome)
    PROVE  /\ refreshing' = NoFetch /\ fetches' = [g \in Fetches |-> Unused]
           /\ request' \in [Requests -> {Away, Rejected, Served(TRUE), Served(FALSE)}]
<1>1. /\ refreshing = f /\ \A g \in Fetches \ {f} : fetches[g] = Unused
    BY Flight
<1>2. fetches' = [g \in Fetches |-> Unused]
    BY <1>1 DEF Settle, Continue, EdgeTypeOK
<1>3. \A r \in Requests :
        request[r] \in {Away, Rejected, Served(TRUE), Served(FALSE)} \/ request[r] = Waiting(f)
    <2> SUFFICES ASSUME NEW r \in Requests, NEW g \in Fetches, request[r] = Waiting(g)
                 PROVE  g = f
        BY DEF EdgeTypeOK, RequestStates
    <2> QED BY <1>1 DEF EdgeTypeOK
<1> QED BY <1>2, <1>3 DEF Settle, Continue

\* Then the variables of the refresh have their types.
LEMMA SettledType ==
    ASSUME EdgeTypeOK, origin' = origin, loaded' \in 0 .. origin, past' = past,
           age' \in 0 .. Infinity, failures' \in 0 .. MaxFailures,
           refreshing' = NoFetch, fetches' = [g \in Fetches |-> Unused],
           request' \in [Requests -> {Away, Rejected, Served(TRUE), Served(FALSE)}]
    PROVE  EdgeTypeOK'
<1>1. \A r \in Requests, f \in Fetches : request'[r] # Waiting(f)
    BY Stages
<1>2. request' \in [Requests -> RequestStates]
    BY DEF RequestStates
<1> QED BY <1>1, <1>2, States, Windows DEF EdgeTypeOK

\* Every step keeps the invariant.
LEMMA StepInv == ASSUME EdgeInv, [EdgeNext]_edge PROVE EdgeInv'
<1> USE Windows, Stages DEF EdgeInv
<1>1. ASSUME NEW r \in Requests, EnsureFresh(r) PROVE EdgeInv'
    <2>1. CASE Wait(r)
        BY <1>1, <2>1, RefreshInv DEF Wait, EnsureFresh, EdgeTypeOK
    <2>2. CASE ServeFresh(r)
        BY <1>1, <2>2, Calls DEF ServeFresh, EnsureFresh, EdgeTypeOK, LoadedInTime, AnsweredInTime
    <2>3. ASSUME NEW waitUntil \in BOOLEAN, ServeStale(r, waitUntil) PROVE EdgeInv'
        BY <1>1, <2>3, RefreshInv DEF ServeStale, EnsureFresh, EdgeTypeOK
    <2> QED BY <1>1, <2>1, <2>2, <2>3 DEF EnsureFresh
<1>2. ASSUME NEW r \in Requests, Respond(r) \/ HangUp(r) PROVE EdgeInv'
    BY <1>2, Calls DEF Respond, HangUp, EdgeTypeOK, LoadedInTime, AnsweredInTime
<1>3. ASSUME NEW f \in Fetches, OriginAnswers(f) PROVE EdgeInv'
    <2> DEFINE answer == [stage |-> "answered", version |-> origin,
                          ticks |-> fetches[f].ticks, kept |-> fetches[f].kept]
    <2>1. fetches' = [fetches EXCEPT ![f] = answer]
        BY <1>3 DEF OriginAnswers
    <2>2. /\ refreshing = f /\ \A g \in Fetches \ {f} : fetches[g] = Unused
          /\ fetches[f].ticks \in 0 .. MaxFetch /\ fetches[f].kept \in BOOLEAN
        BY <1>3, Flight DEF OriginAnswers, InFlight
    <2>3. answer \in FetchStates /\ answer # Unused
        <3>1. origin \in 1 .. MaxSnapshot
            BY DEF EdgeTypeOK
        <3>2. answer.stage # "unused"
            OBVIOUS
        <3> QED BY <2>2, <3>1, <3>2, States
    <2>4. EdgeTypeOK'
        BY <1>3, <2>1, <2>2, <2>3 DEF EdgeTypeOK, OriginAnswers
    <2>5. AnsweredInTime'
        BY <1>3, <2>1, <2>2 DEF EdgeTypeOK, OriginAnswers, AnsweredInTime
    <2> QED BY <1>3, <2>4, <2>5 DEF OriginAnswers, LoadedInTime
<1>4. ASSUME NEW f \in Fetches, Load(f) PROVE EdgeInv'
    <2>1. /\ InFlight(f) /\ fetches[f].version \in 1 .. origin
          /\ fetches[f].ticks \in 0 .. MaxFetch
        BY <1>4, Flight DEF Load, InFlight, AnsweredInTime
    <2>2. /\ refreshing' = NoFetch /\ fetches' = [g \in Fetches |-> Unused]
          /\ request' \in [Requests -> {Away, Rejected, Served(TRUE), Served(FALSE)}]
        BY <1>4, <2>1, Settled DEF Load
    <2>3. EdgeTypeOK'
        <3>1. /\ origin' = origin /\ loaded' \in 0 .. origin /\ past' = past
              /\ age' \in 0 .. Infinity /\ failures' \in 0 .. MaxFailures
            BY <1>4, <2>1 DEF Load, EdgeTypeOK
        <3> QED BY <2>2, <3>1, SettledType
    <2>4. LoadedInTime'
        BY <1>4, <2>1 DEF Load, LoadedInTime, AnsweredInTime, EdgeTypeOK
    <2> QED BY <2>2, <2>3, <2>4 DEF AnsweredInTime
<1>5. ASSUME NEW f \in Fetches, FetchFails(f) PROVE EdgeInv'
    <2>1. /\ refreshing' = NoFetch /\ fetches' = [g \in Fetches |-> Unused]
          /\ request' \in [Requests -> {Away, Rejected, Served(TRUE), Served(FALSE)}]
        BY <1>5, Settled DEF FetchFails
    <2>2. /\ origin' = origin /\ loaded' \in 0 .. origin /\ past' = past
          /\ age' \in 0 .. Infinity /\ failures' \in 0 .. MaxFailures
        BY <1>5 DEF FetchFails, EdgeTypeOK
    <2>3. EdgeTypeOK'
        BY <2>1, <2>2, SettledType
    <2> QED BY <1>5, <2>1, <2>3 DEF FetchFails, LoadedInTime, AnsweredInTime
<1>6. ASSUME NEW f \in Fetches, Cancel(f) PROVE EdgeInv'
    <2>1. refreshing = f
        BY <1>6, Flight DEF Cancel
    <2>2. EdgeTypeOK'
        BY <1>6, <2>1, States DEF Cancel, EdgeTypeOK, InFlight
    <2> QED BY <1>6, <2>2 DEF Cancel, EdgeTypeOK, LoadedInTime, AnsweredInTime
<1>7. CASE Warm
    BY <1>7, RefreshInv DEF Warm, EdgeTypeOK
<1>8. CASE Publish
    <2>1. EdgeTypeOK'
        BY <1>8, EdgeAssumption DEF Publish, EdgeTypeOK
    <2>2. AnsweredInTime'
        <3> SUFFICES ASSUME NEW f \in Fetches, fetches[f].stage = "answered"
                     PROVE  fetches[f].version <= origin'
            BY <1>8 DEF Publish, AnsweredInTime
        <3>1. fetches[f].version \in Nat /\ fetches[f].version <= origin /\ origin \in Nat
            BY Flight DEF InFlight, AnsweredInTime, EdgeTypeOK
        <3> QED BY <1>8, <3>1 DEF Publish
    <2> QED BY <1>8, <2>1, <2>2 DEF Publish, LoadedInTime
<1>9. CASE Tick
    <2>1. past' = [i \in 1 .. Window |-> IF i = 1 THEN origin ELSE past[i - 1]]
        BY <1>9 DEF Tick
    <2>2. /\ \A f \in Fetches : InFlight(f) =>
               /\ fetches[f].ticks < MaxFetch
               /\ fetches'[f] = [fetches[f] EXCEPT !.ticks = fetches[f].ticks + 1]
          /\ \A f \in Fetches : ~InFlight(f) => fetches'[f] = fetches[f]
          /\ fetches' = [f \in Fetches |-> fetches'[f]]
        BY <1>9 DEF Tick
    <2>3. ASSUME NEW f \in Fetches, InFlight(f)
          PROVE  /\ fetches'[f] \in FetchStates \ {Unused}
                 /\ fetches'[f].stage = fetches[f].stage
                 /\ fetches'[f].version = fetches[f].version
                 /\ fetches[f].ticks \in 0 .. MaxFetch
                 /\ fetches'[f].ticks = fetches[f].ticks + 1
        <3>1. fetches[f] \in FetchStates /\ fetches[f].ticks \in 0 .. MaxFetch
            BY <2>3, Flight DEF EdgeTypeOK
        <3>2. fetches[f].ticks + 1 \in 0 .. MaxFetch
            BY <2>2, <2>3, <3>1
        <3>3. fetches'[f] = [fetches[f] EXCEPT !.ticks = fetches[f].ticks + 1]
            BY <2>2, <2>3
        <3>4. fetches[f].stage \in {"sent", "answered"}
            BY <2>3 DEF InFlight
        <3> QED BY ONLY <3>1, <3>2, <3>3, <3>4, Ticked
    <2>4. EdgeTypeOK'
        <3>1. past' \in [1 .. Window -> 1 .. origin] /\ age' \in 0 .. Infinity
            <4>1. \A i \in 1 .. Window :
                    (IF i = 1 THEN origin ELSE past[i - 1]) \in 1 .. origin
                BY DEF EdgeTypeOK
            <4>2. age' \in 0 .. Infinity
                BY <1>9 DEF Tick, EdgeTypeOK
            <4> QED BY <2>1, <4>1, <4>2
        <3>2. \A f \in Fetches : InFlight(f) => fetches'[f] \in FetchStates \ {Unused}
            BY <2>3
        <3>3. \A f \in Fetches : ~InFlight(f) => fetches'[f] \in FetchStates
            BY <2>2 DEF EdgeTypeOK
        <3>4. \A f \in Fetches : fetches[f] # Unused <=> fetches'[f] # Unused
            <4> SUFFICES ASSUME NEW f \in Fetches, InFlight(f)
                         PROVE  fetches[f] # Unused /\ fetches'[f] # Unused
                BY <2>2
            <4> QED BY <3>2 DEF InFlight
        <3> QED BY <1>9, <2>2, <3>1, <3>2, <3>3, <3>4 DEF Tick, EdgeTypeOK
    <2>5. LoadedInTime'
        <3> SUFFICES ASSUME loaded # 0, NEW i \in 1 .. Window, i > age' + MaxFetch
                     PROVE  past'[i] <= loaded
            BY <1>9 DEF Tick, LoadedInTime
        <3>1. age \in Nat /\ age' = age + 1
            BY <1>9 DEF Tick, EdgeTypeOK
        <3>2. i # 1 /\ i - 1 \in 1 .. Window /\ i - 1 > age + MaxFetch
            BY <3>1
        <3> QED BY <2>1, <3>2 DEF LoadedInTime
    <2>6. AnsweredInTime'
        <3> SUFFICES ASSUME NEW f \in Fetches, fetches'[f].stage = "answered"
                     PROVE  /\ loaded <= fetches'[f].version /\ fetches'[f].version <= origin
                            /\ \A i \in 1 .. Window :
                                 i > fetches'[f].ticks => past'[i] <= fetches'[f].version
            BY <1>9 DEF Tick, AnsweredInTime
        <3>1. InFlight(f)
            BY <2>2 DEF InFlight
        <3>2. /\ loaded <= fetches'[f].version /\ fetches'[f].version <= origin
            BY <2>3, <3>1 DEF AnsweredInTime
        <3>3. ASSUME NEW i \in 1 .. Window, i > fetches'[f].ticks
              PROVE  past'[i] <= fetches'[f].version
            <4>1. i # 1 /\ i - 1 \in 1 .. Window /\ i - 1 > fetches[f].ticks
                BY <2>3, <3>1, <3>3
            <4> QED BY <2>1, <2>3, <3>1, <4>1 DEF AnsweredInTime
        <3> QED BY <3>2, <3>3
    <2> QED BY <2>4, <2>5, <2>6
<1>10. CASE UNCHANGED edge
    BY <1>10 DEF edge, EdgeTypeOK, LoadedInTime, AnsweredInTime
<1> QED BY <1>1, <1>2, <1>3, <1>4, <1>5, <1>6, <1>7, <1>8, <1>9, <1>10 DEF EdgeNext

-----------------------------------------------------------------------------
\* The variables keep their types; one refresh at a time is in flight, and who
\* waits, waits for that one.
THEOREM EdgeTypeCorrect == EdgeSpec => []EdgeTypeOK
<1>1. EdgeInv => EdgeTypeOK
    BY DEF EdgeInv
<1> QED BY InitInv, StepInv, <1>1, PTL DEF EdgeSpec

\* The flags of an isolate never go back to an older version: refreshes that are
\* shared cannot overtake each other.
THEOREM NeverGoesBack == EdgeSpec => NeverOlder
<1>1. ASSUME EdgeInv, [EdgeNext]_edge PROVE [loaded' >= loaded]_edge
    <2>1. ASSUME NEW f \in Fetches, Load(f) PROVE loaded' >= loaded
        BY <1>1, <2>1, Flight DEF Load, EdgeInv, EdgeTypeOK, AnsweredInTime, InFlight
    <2>2. (\A f \in Fetches : ~Load(f)) => loaded' = loaded
        BY <1>1 DEF EdgeNext, edge, EnsureFresh, Respond, HangUp, OriginAnswers, FetchFails, Cancel,
                    Warm, Publish, Tick
    <2> QED BY <1>1, <2>1, <2>2 DEF EdgeInv, EdgeTypeOK
<1> QED BY InitInv, StepInv, <1>1, PTL DEF EdgeSpec, NeverOlder

\* Who is let through without a refresh that failed sees what the server had no
\* longer ago than both windows and one fetch last.
THEOREM ServedInTime == EdgeSpec => StaleWithinWindows
<1>1. EdgeInv /\ [EdgeNext]_edge =>
        [\A r \in Requests :
           request'[r] # request[r] /\ request'[r] = Served(FALSE) =>
               loaded' >= past'[Window]]_edge
    <2> SUFFICES ASSUME EdgeInv, [EdgeNext]_edge,
                        NEW r \in Requests, request'[r] # request[r], request'[r] = Served(FALSE)
                 PROVE  loaded' >= past'[Window]
        OBVIOUS
    <2>1. EdgeInv'
        BY StepInv
    <2>2. loaded' # 0 /\ age' <= Ttl + Swr
        <3> USE Windows DEF EdgeInv
        <3>1. Away # Served(FALSE) /\ Rejected # Served(FALSE) /\ Served(TRUE) # Served(FALSE)
            BY DEF Away, Rejected, Served
        <3>2. ASSUME NEW q \in Requests, EnsureFresh(q) PROVE loaded' # 0 /\ age' <= Ttl + Swr
            <4>1. loaded' = loaded /\ age' = age
                BY <3>2 DEF EnsureFresh
            <4>2. CASE Wait(q)
                BY <4>2, Stages DEF Wait, EdgeTypeOK
            <4>3. CASE ServeFresh(q)
                BY <4>1, <4>3 DEF ServeFresh, EdgeTypeOK
            <4>4. ASSUME NEW waitUntil \in BOOLEAN, ServeStale(q, waitUntil)
                  PROVE  loaded # 0 /\ age <= Ttl + Swr
                BY <4>4 DEF ServeStale, TooStale, EdgeTypeOK
            <4> QED BY <3>2, <4>1, <4>2, <4>3, <4>4 DEF EnsureFresh
        <3>3. ASSUME NEW f \in Fetches, Load(f) PROVE loaded' # 0 /\ age' <= Ttl + Swr
            <4>1. fetches[f].version \in 1 .. MaxSnapshot
                BY <3>3, Flight DEF Load, InFlight
            <4> QED BY <3>3, <4>1 DEF Load
        <3>4. ASSUME NEW f \in Fetches, FetchFails(f) PROVE FALSE
            BY <3>1, <3>4 DEF FetchFails, Settle, Continue
        <3>5. ASSUME NEW q \in Requests, Respond(q) \/ HangUp(q) PROVE FALSE
            BY <3>1, <3>5 DEF Respond, HangUp, EdgeTypeOK
        <3>6. (\E f \in Fetches : OriginAnswers(f) \/ Cancel(f)) \/ Warm \/ Publish \/ Tick
                  => UNCHANGED request
            BY DEF OriginAnswers, Cancel, Warm, Publish, Tick
        <3> QED BY <3>2, <3>3, <3>4, <3>5, <3>6 DEF EdgeNext, edge
    <2>3. loaded' # 0 /\ age' <= Ttl + Swr => loaded' >= past'[Window]
        <3>1. age' \in Nat
            BY <2>1, Windows DEF EdgeInv, EdgeTypeOK
        <3>2. \A a \in Nat : a <= Ttl + Swr => Window > a + MaxFetch
            BY EdgeAssumption DEF Window
        <3>3. Window \in 1 .. Window
            BY Windows
        <3>4. past' \in [1 .. Window -> Nat] /\ loaded' \in Nat
            BY <2>1 DEF EdgeInv, EdgeTypeOK
        <3> QED BY <2>1, <3>1, <3>2, <3>3, <3>4 DEF EdgeInv, LoadedInTime
    <2> QED BY <2>2, <2>3
<1> QED BY InitInv, StepInv, <1>1, PTL DEF EdgeSpec, StaleWithinWindows

-----------------------------------------------------------------------------
(***************************************************************************)
(* The client: what it evaluates is what the stream or the last poll sent. *)
(***************************************************************************)

\* Nothing is known of the server that it has not been at.
KnownOK ==
    /\ stored <= version /\ held <= version /\ sent <= version
    /\ \A i \in Connects : hydrations[i] \in Versions => hydrations[i] <= version

\* A poll that has been answered was answered after all that is known was read.
PollOK ==
    poll \in Versions =>
        /\ held <= poll /\ stored <= poll /\ poll <= version
        /\ \A i \in Connects : hydrations[i] \in Versions => hydrations[i] <= poll

\* A client that is closed has neither a stream nor a timer; one whose stream
\* is up does not poll, and holds what was sent, or is about to.
StreamOK ==
    /\ closed => sse = "none" /\ ~timer
    /\ Up => ~polling /\ poll = Nothing
    /\ sse = "replaying" => staged \in {Nothing, sent}
    /\ LiveHoldsSent

ClientInv == ClientTypeOK /\ KnownOK /\ PollOK /\ StreamOK

\* What a step does to the flags that a client that stays connected evaluates.
ClientKeepsUp ==
    /\ ready /\ ready'
    /\ \A i \in Connects : hydrations[i] \in {Nothing, Done}
    /\ ~(sse = "replaying" /\ sse' = "live")
    => held' >= held

LEMMA VersionFacts ==
    /\ 0 \in Versions /\ 1 \in Versions /\ Versions \subseteq Nat
    /\ Nothing \notin Versions /\ Asked \notin Versions /\ Done \notin Versions
    /\ Asked # Nothing
    /\ \A v, w \in Versions : v < w => v + 1 \in Versions /\ v + 1 <= w
    /\ \A v \in Versions : v < MaxVersion => v + 1 \in Versions
    /\ 0 \in 0 .. Threshold
    /\ \A a \in 0 .. Threshold : a < Threshold => a + 1 \in 0 .. Threshold
BY ThresholdAssumption, NothingAssumption DEF Versions

LEMMA ClientStep ==
    ASSUME ClientInv, [ClientNext]_client
    PROVE  ClientInv' /\ ClientKeepsUp
<1> USE VersionFacts
<1> USE DEF flags, session, stream, polls
<1>t. ClientTypeOK /\ KnownOK /\ PollOK /\ StreamOK
  BY DEF ClientInv
<1>h. held \in Nat /\ held >= held
  BY <1>t DEF ClientTypeOK
<1> USE DEF ClientInv, ClientTypeOK, KnownOK, PollOK, StreamOK, LiveHoldsSent, Up, ClientKeepsUp
<1>1. CASE Change
  <2>1. ClientTypeOK'
    BY <1>1 DEF Change
  <2>2. KnownOK'
    <3>1. version' = version + 1 /\ \A v \in Versions : v <= version => v <= version'
      BY <1>1 DEF Change
    <3> QED BY <1>1, <3>1 DEF Change
  <2>3. PollOK'
    BY <1>1 DEF Change
  <2>4. StreamOK'
    BY <1>1 DEF Change
  <2>5. ClientKeepsUp
    BY <1>1 DEF Change
  <2> QED BY <2>1, <2>2, <2>3, <2>4, <2>5
<1>2. ASSUME NEW i \in Connects, Connect(i) PROVE ClientInv' /\ ClientKeepsUp
  BY <1>2 DEF Connect
<1>3. ASSUME NEW i \in Connects, ReadStorage(i) PROVE ClientInv' /\ ClientKeepsUp
  <2>1. ClientTypeOK'
    BY <1>3 DEF ReadStorage
  <2>2. KnownOK'
    BY <1>3 DEF ReadStorage
  <2>3. PollOK'
    BY <1>3 DEF ReadStorage
  <2>4. StreamOK'
    BY <1>3 DEF ReadStorage
  <2>5. ClientKeepsUp
    BY <1>3 DEF ReadStorage
  <2> QED BY <2>1, <2>2, <2>3, <2>4, <2>5
<1>4. ASSUME NEW i \in Connects, Hydrate(i) PROVE ClientInv' /\ ClientKeepsUp
  BY <1>4 DEF Hydrate
<1>5. CASE Disconnect
  <2>1. ClientTypeOK'
    <3>1. strays' \subseteq Versions /\ poll' \in {Nothing, Asked} \cup Versions
      BY <1>5 DEF Disconnect, StopPolling
    <3> QED BY <1>5, <3>1 DEF Disconnect, StopPolling
  <2>2. KnownOK'
    BY <1>5 DEF Disconnect, StopPolling
  <2>3. PollOK'
    BY <1>5 DEF Disconnect, StopPolling
  <2>4. StreamOK'
    BY <1>5 DEF Disconnect, StopPolling
  <2>5. ClientKeepsUp
    BY <1>5 DEF Disconnect, StopPolling
  <2> QED BY <2>1, <2>2, <2>3, <2>4, <2>5
<1>6. CASE Restart
  <2>1. ClientTypeOK'
    BY <1>6 DEF Restart
  <2>2. KnownOK'
    BY <1>6 DEF Restart
  <2>3. PollOK'
    BY <1>6 DEF Restart
  <2>4. StreamOK'
    BY <1>6 DEF Restart
  <2>5. ClientKeepsUp
    BY <1>6 DEF Restart
  <2> QED BY <2>1, <2>2, <2>3, <2>4, <2>5
<1>7. CASE StreamRead
  BY <1>7 DEF StreamRead
<1>8. CASE StreamOpens
  <2>1. ClientTypeOK'
    <3>1. strays' \subseteq Versions /\ poll' \in {Nothing, Asked} \cup Versions
      BY <1>8 DEF StreamOpens, StopPolling
    <3> QED BY <1>8, <3>1 DEF StreamOpens, StopPolling
  <2>2. KnownOK'
    BY <1>8 DEF StreamOpens, StopPolling
  <2>3. PollOK'
    BY <1>8 DEF StreamOpens, StopPolling
  <2>4. StreamOK'
    BY <1>8 DEF StreamOpens, StopPolling
  <2>5. ClientKeepsUp
    BY <1>8 DEF StreamOpens, StopPolling
  <2> QED BY <2>1, <2>2, <2>3, <2>4, <2>5
<1>9. CASE StreamReady
  BY <1>9 DEF StreamReady, Apply
<1>10. CASE Update
  BY <1>10 DEF Update
<1>11. CASE StreamFails
  <2>1. ClientTypeOK'
    <3>1. attempts' \in 0 .. Threshold /\ polling' \in BOOLEAN /\ poll' \in {Nothing, Asked} \cup Versions
      BY <1>11 DEF StreamFails
    <3>2. sse' \in {"none", "opening"} /\ timer' \in BOOLEAN /\ staged' \in Versions \cup {Nothing}
      BY <1>11 DEF StreamFails
    <3> QED BY <1>11, <3>1, <3>2 DEF StreamFails
  <2>2. KnownOK'
    BY <1>11 DEF StreamFails
  <2>3. PollOK'
    BY <1>11 DEF StreamFails
  <2>4. StreamOK'
    BY <1>11 DEF StreamFails
  <2>5. ClientKeepsUp
    BY <1>11 DEF StreamFails
  <2> QED BY <2>1, <2>2, <2>3, <2>4, <2>5
<1>12. CASE TimerFires
  <2>1. ClientTypeOK'
    BY <1>12 DEF TimerFires
  <2>2. KnownOK'
    BY <1>12 DEF TimerFires
  <2>3. PollOK'
    BY <1>12 DEF TimerFires
  <2>4. StreamOK'
    BY <1>12 DEF TimerFires
  <2>5. ClientKeepsUp
    BY <1>12 DEF TimerFires
  <2> QED BY <2>1, <2>2, <2>3, <2>4, <2>5
<1>13. CASE PollTick
  BY <1>13 DEF PollTick
<1>14. CASE PollRead
  <2>1. ClientTypeOK'
    BY <1>14 DEF PollRead
  <2>2. KnownOK'
    BY <1>14 DEF PollRead
  <2>3. PollOK'
    BY <1>14 DEF PollRead
  <2>4. StreamOK'
    <3>1. ~Up
      BY <1>14 DEF PollRead
    <3> QED BY <1>14, <3>1 DEF PollRead
  <2>5. ClientKeepsUp
    BY <1>14 DEF PollRead
  <2> QED BY <2>1, <2>2, <2>3, <2>4, <2>5
<1>15. CASE PollAnswer
  BY <1>15 DEF PollAnswer, Apply
<1>16. CASE PollFails
  <2>1. ClientTypeOK'
    BY <1>16 DEF PollFails
  <2>2. KnownOK'
    BY <1>16 DEF PollFails
  <2>3. PollOK'
    BY <1>16 DEF PollFails
  <2>4. StreamOK'
    BY <1>16 DEF PollFails
  <2>5. ClientKeepsUp
    BY <1>16 DEF PollFails
  <2> QED BY <2>1, <2>2, <2>3, <2>4, <2>5
<1>17. ASSUME NEW v \in Versions, StrayAnswer(v) PROVE ClientInv' /\ ClientKeepsUp
  BY <1>17 DEF StrayAnswer
<1>18. CASE UNCHANGED client
  BY <1>18 DEF client
<1> QED
  BY <1>1, <1>2, <1>3, <1>4, <1>5, <1>6, <1>7, <1>8, <1>9, <1>10, <1>11, <1>12, <1>13, <1>14,
     <1>15, <1>16, <1>17, <1>18
  DEF ClientNext

LEMMA ClientStart == ClientInit => ClientInv
<1> SUFFICES ASSUME ClientInit PROVE ClientInv
  OBVIOUS
<1>1. ClientTypeOK
  BY VersionFacts DEF ClientInit, ClientTypeOK
<1>2. KnownOK
  BY VersionFacts DEF ClientInit, KnownOK
<1>3. PollOK /\ StreamOK
  BY VersionFacts DEF ClientInit, PollOK, StreamOK, LiveHoldsSent, Up
<1> QED BY <1>1, <1>2, <1>3 DEF ClientInv

LEMMA ClientInvariant == ClientSpec => []ClientInv
BY ClientStart, ClientStep, PTL DEF ClientSpec

\* The fields of the client keep their types; it is ready exactly while its
\* connect() is resolved.
THEOREM ClientTypeCorrect == ClientSpec => []ClientTypeOK
<1>1. ClientInv => ClientTypeOK
  BY DEF ClientInv
<1> QED BY <1>1, ClientInvariant, PTL

\* Behind a live stream the client evaluates exactly what the stream has sent.
THEOREM StreamIsHeld == ClientSpec => []LiveHoldsSent
<1>1. ClientInv => LiveHoldsSent
  BY DEF ClientInv, StreamOK
<1> QED BY <1>1, ClientInvariant, PTL

\* Neither an update nor the answer of a poll takes a connected client back to
\* older flags.
THEOREM ClientNeverBack == ClientSpec => NeverBackOnceReady
<1>1. ClientInv /\ [ClientNext]_client => [ClientKeepsUp]_client
  BY ClientStep
<1> QED BY <1>1, ClientInvariant, PTL DEF ClientSpec, NeverBackOnceReady, ClientKeepsUp

\* Whoever is connected is not closed, and whoever is not has no storage to wait
\* for that would open a stream.
SessionOK ==
    /\ closed => promise = "none"
    /\ promise = "none" /\ ~closed => \A i \in Connects : hydrations[i] \in {Nothing, Done}
    /\ ClosedIsQuiet /\ StreamIsTried

LEMMA SessionStep ==
    ASSUME ClientTypeOK, SessionOK, [ClientNext]_client
    PROVE  SessionOK'
<1> USE VersionFacts
<1> USE DEF flags, session, stream, polls, ClientTypeOK, SessionOK, ClosedIsQuiet, StreamIsTried
<1>1. CASE Change
  BY <1>1 DEF Change
<1>2. ASSUME NEW i \in Connects, Connect(i) PROVE SessionOK'
  BY <1>2 DEF Connect
<1>3. ASSUME NEW i \in Connects, ReadStorage(i) PROVE SessionOK'
  \* The storage that was asked answers with a version: the stream is still tried.
  <2>1. hydrations'[i] \in Versions
    <3>1. /\ hydrations \in [Connects -> {Nothing, Asked, Done} \cup Versions]
          /\ stored \in Versions
      OBVIOUS
    <3>2. hydrations' = [hydrations EXCEPT ![i] = stored]
      BY <1>3 DEF ReadStorage
    <3> QED BY <3>1, <3>2, Zenon
  <2>2. closed \/ promise # "none"
    BY <1>3, NothingAssumption DEF ReadStorage
  <2>3. UNCHANGED <<closed, promise, sse, timer, polling, poll>>
    BY <1>3 DEF ReadStorage
  <2> QED BY <2>1, <2>2, <2>3
<1>4. ASSUME NEW i \in Connects, Hydrate(i) PROVE SessionOK'
  \* The answer of the storage is used up: it has opened the stream, or the client
  \* is closed.
  <2>1. closed \/ promise # "none"
    BY <1>4 DEF Hydrate
  <2>2. UNCHANGED <<closed, promise, timer, polling, poll>>
    BY <1>4 DEF Hydrate
  <2>3. CASE closed
    <3>1. sse' = sse /\ promise' = "none"
      BY <1>4, <2>2, <2>3 DEF Hydrate
    <3> QED BY <2>2, <2>3, <3>1
  <2>4. CASE ~closed
    <3>1. sse' = "opening" /\ promise' # "none"
      BY <1>4, <2>1, <2>2, <2>4 DEF Hydrate
    <3> QED BY <2>2, <2>4, <3>1
  <2> QED BY <2>3, <2>4
<1>5. CASE Disconnect
  BY <1>5 DEF Disconnect, StopPolling
<1>6. CASE Restart
  <2>1. \A j \in Connects : hydrations'[j] \in {Nothing, Done}
    BY <1>6 DEF Restart
  <2> QED BY <1>6, <2>1 DEF Restart
<1>7. CASE StreamRead
  BY <1>7 DEF StreamRead
<1>8. CASE StreamOpens
  BY <1>8 DEF StreamOpens, StopPolling
<1>9. CASE StreamReady
  BY <1>9 DEF StreamReady, Apply
<1>10. CASE Update
  BY <1>10 DEF Update
<1>11. CASE StreamFails
  BY <1>11 DEF StreamFails
<1>12. CASE TimerFires
  BY <1>12 DEF TimerFires
<1>13. CASE PollTick
  BY <1>13 DEF PollTick
<1>14. CASE PollRead
  BY <1>14 DEF PollRead
<1>15. CASE PollAnswer
  BY <1>15 DEF PollAnswer, Apply
<1>16. CASE PollFails
  BY <1>16 DEF PollFails
<1>17. ASSUME NEW v \in Versions, StrayAnswer(v) PROVE SessionOK'
  BY <1>17 DEF StrayAnswer
<1>18. CASE UNCHANGED client
  BY <1>18 DEF client
<1> QED
  BY <1>1, <1>2, <1>3, <1>4, <1>5, <1>6, <1>7, <1>8, <1>9, <1>10, <1>11, <1>12, <1>13, <1>14,
     <1>15, <1>16, <1>17, <1>18
  DEF ClientNext

LEMMA SessionInvariant == ClientSpec => []SessionOK
<1>1. ClientInit => SessionOK
  BY DEF ClientInit, SessionOK, ClosedIsQuiet, StreamIsTried
<1> QED BY <1>1, SessionStep, ClientTypeCorrect, PTL DEF ClientSpec

\* disconnect() is final: whatever was under way, the client is silent until the
\* next connect().  And a connected client always has a stream, or a timer or an
\* answer of the storage that will open one, however often the stream failed and
\* whether it polls or not.
THEOREM NeverGivesUp == ClientSpec => []StreamFollowsConnect
<1>1. SessionOK => StreamFollowsConnect
  BY DEF SessionOK, StreamFollowsConnect
<1> QED BY <1>1, SessionInvariant, PTL

-----------------------------------------------------------------------------
(***************************************************************************)
(* Evaluations: no prerequisite is got around, and none fails for nothing. *)
(***************************************************************************)

\* The users, flags, stores and calls there may be.
Contexts == {ContextOf(u, d) : u \in UserHashes, d \in Documents \cup {Malformed}}
Storable ==
    Catalog \cup
    {Positional(flag.key, flag.enabled, IF flag.rollout = None THEN -1 ELSE flag.rollout,
                flag.rules) : flag \in Catalog}
Stores == [Keys -> Storable \cup {Absent}]
Seens == [Keys -> SUBSET (Storable \cup {Absent})]
Frames == [flag : Storable, next : Nat \ {0}, refused : BOOLEAN]
Results ==
    {OwnResult(f, u) : f \in Storable, u \in Contexts} \cup {Refused(f) : f \in Storable}

MissingCall == [state : {"missing"}, key : Keys, user : Contexts, seen : Seens]
RunningCall ==
    [state : {"running"}, key : Keys, user : Contexts, seen : Seens, stack : Seq(Frames)]
AnsweredCall ==
    [state : {"answered"}, key : Keys, user : Contexts, seen : Seens, result : Results]
Call == MissingCall \cup RunningCall \cup AnsweredCall

-----------------------------------------------------------------------------
\* The prerequisites of a flag are a sequence, and their keys are keys.
LEMMA StorableType ==
    ASSUME NEW f \in Storable
    PROVE  /\ f.prerequisites \in Seq(Required(f))
           /\ DOMAIN f.prerequisites = 1 .. Len(f.prerequisites) /\ Len(f.prerequisites) \in Nat
           /\ \A i \in 1 .. Len(f.prerequisites) : f.prerequisites[i] \in Required(f)
           /\ \A p \in Required(f) : p.key \in Keys
<1>1. f.prerequisites \in Seq(Required(f)) /\ \A p \in Required(f) : p.key \in Keys
  <2>1. CASE f \in Catalog
    BY <2>1, CatalogAssumption
  <2>2. CASE f \notin Catalog
    <3>1. f.prerequisites = <<>>
      BY <2>2 DEF Storable, Positional
    <3>2. Required(f) = {}
      BY <3>1 DEF Required
    <3>3. <<>> \in Seq({})
      BY EmptySeq
    <3> QED BY <3>1, <3>2, <3>3
  <2> QED BY <2>1, <2>2
<1>2. DOMAIN f.prerequisites = 1 .. Len(f.prerequisites) /\ Len(f.prerequisites) \in Nat
  BY <1>1, LenProperties
<1>3. \A i \in 1 .. Len(f.prerequisites) : f.prerequisites[i] \in Required(f)
  BY <1>2 DEF Required
<1> QED BY <1>1, <1>2, <1>3

\* What may be on grows with what was seen: a set that is closed for more flags is
\* closed for fewer.
LEMMA MayBeOnGrows ==
    ASSUME NEW s \in Seens, NEW t \in Seens, \A k \in Keys : s[k] \subseteq t[k], NEW user
    PROVE  MayBeOn(s, user) \subseteq MayBeOn(t, user)
<1> SUFFICES ASSUME NEW f \in MayBeOn(s, user) PROVE f \in MayBeOn(t, user)
  OBVIOUS
<1>2. Present(s) \subseteq Present(t)
  BY DEF Present
<1>1. SUFFICES ASSUME NEW C \in SUBSET Present(t), Closed(C, t, user) PROVE f \in C
  BY <1>2 DEF MayBeOn
<1>3. Closed(C \cap Present(s), s, user)
  <2> SUFFICES ASSUME NEW h \in Present(s), Decides(h, user),
                      \A p \in Required(h) :
                         \E g \in s[p.key] \cap (C \cap Present(s)) : Meets(g, user, p)
               PROVE  h \in C
    BY DEF Closed
  <2>1. h \in Storable
    BY DEF Seens, Present
  <2>2. \A p \in Required(h) : p.key \in Keys
    BY <2>1, StorableType
  <2>3. \A p \in Required(h) : \E g \in t[p.key] \cap C : Meets(g, user, p)
    BY <2>2
  <2> QED BY <1>1, <1>2, <2>3 DEF Closed
<1> QED BY <1>1, <1>2, <1>3 DEF MayBeOn

\* A flag that decides to be on is, once flags that may be on meet its
\* prerequisites.
LEMMA MayBeOnClosed ==
    ASSUME NEW s \in Seens, NEW user, NEW f \in Storable \ {Absent}, NEW k \in Keys,
           f \in s[k], Decides(f, user),
           \A p \in Required(f) : \E g \in s[p.key] \cap MayBeOn(s, user) : Meets(g, user, p)
    PROVE  f \in MayBeOn(s, user)
<1>1. f \in Present(s)
  BY DEF Present
<1> SUFFICES ASSUME NEW C \in SUBSET Present(s), Closed(C, s, user) PROVE f \in C
  BY <1>1 DEF MayBeOn
<1>2. MayBeOn(s, user) \subseteq C
  BY DEF MayBeOn
<1>3. \A p \in Required(f) : \E g \in s[p.key] \cap C : Meets(g, user, p)
  BY <1>2
<1> QED BY <1>1, <1>3 DEF Closed

-----------------------------------------------------------------------------
\* What has to be on above a set shrinks with the set and with what was seen.
LEMMA OnAboveShrinks ==
    ASSUME NEW s \in Seens, NEW t \in Seens, \A k \in Keys : s[k] \subseteq t[k], NEW user,
           NEW S, NEW T, T \subseteq S
    PROVE  OnAbove(T, t, user) \subseteq OnAbove(S, s, user)
<1> SUFFICES ASSUME NEW k \in Keys, k \in OnAbove(T, t, user), NEW f \in s[k]
             PROVE  /\ f # Absent /\ Decides(f, user)
                    /\ \A p \in Required(f) :
                          p.key \in S /\ \A g \in s[p.key] : Meets(g, user, p)
  BY DEF OnAbove
<1>1. f \in t[k]
  OBVIOUS
<1>2. /\ f # Absent /\ Decides(f, user)
      /\ \A p \in Required(f) : p.key \in T /\ \A g \in t[p.key] : Meets(g, user, p)
  BY <1>1 DEF OnAbove
<1>3. f \in Storable
  BY <1>2 DEF Seens
<1>4. \A p \in Required(f) : p.key \in Keys
  BY <1>3, StorableType
<1> QED BY <1>2, <1>4

\* Induction, as far as the provers can use it.
LEMMA LeastIndex ==
    ASSUME NEW S, S \subseteq Nat, S # {}
    PROVE  \E m \in S : \A n \in S : m <= n
<1>1. PICK m \in S : \A n \in S : ~(<<n, m>> \in OpToRel(<, Nat))
  BY WFMin, NatLessThanWellFounded, Zenon
<1>2. \A n \in S : ~(n < m)
  BY <1>1 DEF OpToRel
<1> QED BY <1>2

-----------------------------------------------------------------------------
\* g goes by the recursion of OnWithin as far as m.
OnTo(g, m, s, user) ==
    /\ g[0] = {}
    /\ \A n \in 1 .. m : g[n] = OnAbove(g[n - 1], s, user)

LEMMA OnWithinExists ==
    ASSUME NEW s, NEW user, NEW m \in Nat
    PROVE  \E g \in [0 .. m -> SUBSET Keys] : OnTo(g, m, s, user)
<1> DEFINE Good(i) == \E g \in [0 .. i -> SUBSET Keys] : OnTo(g, i, s, user)
           Bad == {i \in Nat : ~Good(i)}
<1> SUFFICES ASSUME Bad # {} PROVE FALSE
  OBVIOUS
<1>1. PICK i \in Bad : \A n \in Bad : i <= n
  <2> HIDE DEF Good
  <2> QED BY LeastIndex
<1>2. Good(0)
  <2>1. [n \in 0 .. 0 |-> {}] \in [0 .. 0 -> SUBSET Keys]
    OBVIOUS
  <2>2. OnTo([n \in 0 .. 0 |-> {}], 0, s, user)
    BY DEF OnTo
  <2> QED BY <2>1, <2>2
<1>3. i \in Nat \ {0} /\ i - 1 \in Nat /\ Good(i - 1)
  <2> HIDE DEF Good
  <2> QED BY <1>1, <1>2
<1>4. PICK g \in [0 .. i - 1 -> SUBSET Keys] : OnTo(g, i - 1, s, user)
  BY <1>3
<1> DEFINE h == [n \in 0 .. i |-> IF n = i THEN OnAbove(g[i - 1], s, user) ELSE g[n]]
<1>5. h \in [0 .. i -> SUBSET Keys]
  BY <1>3 DEF OnAbove
<1>6. OnTo(h, i, s, user)
  <2>1. h[0] = {}
    BY <1>3, <1>4 DEF OnTo
  <2>2. \A n \in 1 .. i : h[n] = OnAbove(h[n - 1], s, user)
    BY <1>3, <1>4 DEF OnTo
  <2> QED BY <2>1, <2>2 DEF OnTo
<1> QED BY <1>1, <1>5, <1>6

\* OnWithin is the function that its recursion describes.
LEMMA OnWithinDef ==
    ASSUME NEW s, NEW user
    PROVE  /\ OnWithin(s, user)[0] = {}
           /\ \A n \in 1 .. MaxDepth + 1 :
                 OnWithin(s, user)[n] = OnAbove(OnWithin(s, user)[n - 1], s, user)
<1> DEFINE on == OnWithin(s, user)
           M == MaxDepth + 1
<1>1. M \in Nat
  BY DepthAssumption
<1>2. PICK g \in [0 .. M -> SUBSET Keys] : OnTo(g, M, s, user)
  BY <1>1, OnWithinExists
<1>3. g = [n \in 0 .. M |-> IF n = 0 THEN {} ELSE OnAbove(g[n - 1], s, user)]
  BY <1>1, <1>2 DEF OnTo
<1>4. on = [n \in 0 .. M |-> IF n = 0 THEN {} ELSE OnAbove(on[n - 1], s, user)]
  BY <1>3, Zenon DEF OnWithin
<1>5. on[0] = {}
  BY <1>1, <1>4
<1>6. \A n \in 1 .. M : on[n] = OnAbove(on[n - 1], s, user)
  BY <1>1, <1>4
<1> QED BY <1>5, <1>6

\* What has to be on shrinks with what was seen.
LEMMA OnWithinShrinks ==
    ASSUME NEW s \in Seens, NEW t \in Seens, \A k \in Keys : s[k] \subseteq t[k], NEW user,
           NEW m \in 0 .. MaxDepth + 1
    PROVE  OnWithin(t, user)[m] \subseteq OnWithin(s, user)[m]
<1> DEFINE Good(n) == OnWithin(t, user)[n] \subseteq OnWithin(s, user)[n]
           Bad == {n \in 0 .. MaxDepth + 1 : ~Good(n)}
<1> SUFFICES ASSUME Bad # {} PROVE FALSE
  OBVIOUS
<1>1. Bad \subseteq Nat
  OBVIOUS
<1>2. PICK n \in Bad : \A i \in Bad : n <= i
  <2> HIDE DEF Bad
  <2> QED BY <1>1, LeastIndex
<1>3. Good(0)
  BY OnWithinDef
<1>4. n \in 1 .. MaxDepth + 1 /\ Good(n - 1)
  <2> HIDE DEF Good
  <2> QED BY <1>2, <1>3, DepthAssumption
<1>5. Good(n)
  BY <1>4, OnWithinDef, OnAboveShrinks
<1> QED BY <1>2, <1>5

-----------------------------------------------------------------------------
\* A frame: its flag was under its key, and flags that may be on met each
\* prerequisite that is behind.
FrameOK(f, seen, user) ==
    /\ f.flag # Absent /\ f.flag.key \in Keys /\ f.flag \in seen[f.flag.key]
    /\ f.next <= Len(f.flag.prerequisites) + 1
    /\ \A j \in 1 .. f.next - 1 :
          LET p == f.flag.prerequisites[j] IN
          \E g \in seen[p.key] \cap MayBeOn(seen, user) : Meets(g, user, p)

\* It waits for key k.
WaitsFor(f, k) ==
    /\ f.flag.enabled /\ ~f.refused
    /\ f.next <= Len(f.flag.prerequisites)
    /\ f.flag.prerequisites[f.next].key = k

\* A stack from the key that was asked for to the flag on top, each waiting for the
\* one above; what has to be on has no frame that is refused, and each of its
\* frames has to be on within what is left of the depth.
RunningOK(c) ==
    /\ Len(c.stack) \in 1 .. MaxDepth + 1
    /\ \A i \in 1 .. Len(c.stack) : FrameOK(c.stack[i], c.seen, c.user)
    /\ c.stack[Len(c.stack)].flag.key = c.key
    /\ \A i \in 1 .. Len(c.stack) - 1 : WaitsFor(c.stack[i + 1], c.stack[i].flag.key)
    /\ c.key \in MustBeOn(c.seen, c.user) =>
          \A i \in 1 .. Len(c.stack) :
             /\ ~c.stack[i].refused
             /\ c.stack[i].flag.key \in OnWithin(c.seen, c.user)[MaxDepth + 1 + i - Len(c.stack)]

\* An answer of no has a reason, and an answer of yes a flag that may be on.
MissingOK(c) == c.key \notin MustBeOn(c.seen, c.user)

AnsweredOK(c) ==
    IF c.result.enabled
    THEN \E f \in MayBeOn(c.seen, c.user) : f.key = c.key /\ c.result = OwnResult(f, c.user)
    ELSE c.key \notin MustBeOn(c.seen, c.user)

CallOK(c, s) ==
    \/ c = Idle
    \/ /\ \A k \in Keys : s[k] \in c.seen[k]
       /\ \/ c \in MissingCall /\ MissingOK(c)
          \/ c \in RunningCall /\ RunningOK(c)
          \/ c \in AnsweredCall /\ AnsweredOK(c)

-----------------------------------------------------------------------------
\* What a running call holds.
LEMMA StackType ==
    ASSUME NEW c \in RunningCall
    PROVE  /\ c.stack \in Seq(Frames) /\ Len(c.stack) \in Nat
           /\ DOMAIN c.stack = 1 .. Len(c.stack)
           /\ \A i \in 1 .. Len(c.stack) : c.stack[i] \in Frames
           /\ c.seen \in Seens /\ c.user \in Contexts /\ c.key \in Keys
<1>1. c.stack \in Seq(Frames) /\ c.seen \in Seens /\ c.user \in Contexts /\ c.key \in Keys
  BY DEF RunningCall
<1> QED BY <1>1, LenProperties, ElementOfSeq

\* A stack with another frame on top, of the same flag.
LEMMA RetopKeeps ==
    ASSUME NEW c \in RunningCall, RunningOK(c), NEW f \in Frames,
           f.flag = c.stack[1].flag, FrameOK(f, c.seen, c.user),
           c.key \in MustBeOn(c.seen, c.user) => ~f.refused
    PROVE  /\ [c EXCEPT !.stack = [c.stack EXCEPT ![1] = f]] \in RunningCall
           /\ RunningOK([c EXCEPT !.stack = [c.stack EXCEPT ![1] = f]])
<1> DEFINE s == [c.stack EXCEPT ![1] = f]
           d == [c EXCEPT !.stack = s]
<1>1. Len(c.stack) \in 1 .. MaxDepth + 1
  BY DEF RunningOK
<1>2. /\ s \in Seq(Frames) /\ Len(s) = Len(c.stack) /\ s[1] = f
      /\ \A i \in 2 .. Len(c.stack) : s[i] = c.stack[i]
  BY <1>1, StackType, ExceptSeq
<1>3. /\ d \in RunningCall /\ d.stack = s /\ d.key = c.key /\ d.user = c.user
      /\ d.seen = c.seen
  <2> HIDE DEF s
  <2> QED BY <1>2 DEF RunningCall
<1> HIDE DEF d, s
<1>4. Len(d.stack) = Len(c.stack) /\ Len(c.stack) \in Nat \ {0}
  BY <1>1, <1>2, <1>3, StackType
<1>5. \A i \in 1 .. Len(d.stack) : FrameOK(d.stack[i], d.seen, d.user)
  BY <1>2, <1>3, <1>4 DEF RunningOK
<1>6. \A i \in 1 .. Len(d.stack) : d.stack[i].flag = c.stack[i].flag
  BY <1>2, <1>3, <1>4
<1>7. d.stack[Len(d.stack)].flag.key = d.key
  BY <1>3, <1>4, <1>6 DEF RunningOK
<1>8. \A i \in 1 .. Len(d.stack) - 1 : WaitsFor(d.stack[i + 1], d.stack[i].flag.key)
  <2> TAKE i \in 1 .. Len(d.stack) - 1
  <2>1. d.stack[i + 1] = c.stack[i + 1] /\ d.stack[i].flag = c.stack[i].flag
    BY <1>2, <1>3, <1>4, <1>6
  <2>2. WaitsFor(c.stack[i + 1], c.stack[i].flag.key)
    BY <1>4 DEF RunningOK
  <2> QED BY <2>1, <2>2
<1>9. ASSUME d.key \in MustBeOn(d.seen, d.user), NEW i \in 1 .. Len(d.stack)
      PROVE  /\ ~d.stack[i].refused
             /\ d.stack[i].flag.key
                   \in OnWithin(d.seen, d.user)[MaxDepth + 1 + i - Len(d.stack)]
  <2>1. /\ ~c.stack[i].refused
        /\ c.stack[i].flag.key
              \in OnWithin(c.seen, c.user)[MaxDepth + 1 + i - Len(c.stack)]
    BY <1>3, <1>4, <1>9 DEF RunningOK
  <2>2. ~d.stack[i].refused
    BY <1>2, <1>3, <1>4, <1>9, <2>1
  <2> QED BY <1>3, <1>4, <1>6, <2>1, <2>2
<1> QED BY <1>1, <1>3, <1>4, <1>5, <1>7, <1>8, <1>9 DEF RunningOK, d, s

\* A stack without its top frame.
LEMMA PopKeeps ==
    ASSUME NEW c \in RunningCall, RunningOK(c), Len(c.stack) # 1
    PROVE  /\ [c EXCEPT !.stack = Tail(c.stack)] \in RunningCall
           /\ RunningOK([c EXCEPT !.stack = Tail(c.stack)])
<1> DEFINE s == Tail(c.stack)
           d == [c EXCEPT !.stack = s]
           L == Len(c.stack)
<1>1. L \in 2 .. MaxDepth + 1
  <2>1. L \in 1 .. MaxDepth + 1
    BY DEF RunningOK
  <2> HIDE DEF L
  <2>2. L # 1
    BY DEF L
  <2> QED BY <2>1, <2>2, DepthAssumption
<1>2. s \in Seq(Frames) /\ Len(s) = L - 1 /\ \A i \in 1 .. L - 1 : s[i] = c.stack[i + 1]
  <2>1. c.stack \in Seq(Frames) /\ c.stack # <<>>
    BY <1>1, StackType, EmptySeq
  <2> QED BY <1>1, <2>1, HeadTailProperties
<1>3. /\ d \in RunningCall /\ d.stack = s /\ d.key = c.key /\ d.user = c.user
      /\ d.seen = c.seen
  <2> HIDE DEF s
  <2> QED BY <1>2 DEF RunningCall
<1> HIDE DEF d, s
<1>4. Len(d.stack) = L - 1 /\ L \in Nat
  BY <1>1, <1>2, <1>3
<1>5. \A i \in 1 .. L - 1 : d.stack[i] = c.stack[i + 1]
  BY <1>2, <1>3
<1>6. \A i \in 1 .. L - 1 : FrameOK(d.stack[i], d.seen, d.user)
  BY <1>3, <1>4, <1>5 DEF RunningOK
<1>7. d.stack[L - 1].flag.key = d.key
  BY <1>1, <1>3, <1>5 DEF RunningOK
<1>8. \A i \in 1 .. L - 2 : WaitsFor(d.stack[i + 1], d.stack[i].flag.key)
  <2> TAKE i \in 1 .. L - 2
  <2>1. d.stack[i + 1] = c.stack[i + 1 + 1] /\ d.stack[i] = c.stack[i + 1]
    BY <1>4, <1>5
  <2>2. WaitsFor(c.stack[i + 1 + 1], c.stack[i + 1].flag.key)
    BY <1>4 DEF RunningOK
  <2> QED BY <2>1, <2>2
<1>9. ASSUME d.key \in MustBeOn(d.seen, d.user), NEW i \in 1 .. L - 1
      PROVE  /\ ~d.stack[i].refused
             /\ d.stack[i].flag.key
                   \in OnWithin(d.seen, d.user)[MaxDepth + 1 + i - (L - 1)]
  <2>1. /\ ~c.stack[i + 1].refused
        /\ c.stack[i + 1].flag.key
              \in OnWithin(c.seen, c.user)[MaxDepth + 1 + (i + 1) - L]
    <3>1. i + 1 \in 1 .. L
      BY <1>4
    <3> QED BY <1>3, <1>9, <3>1 DEF RunningOK
  <2>2. MaxDepth + 1 + (i + 1) - L = MaxDepth + 1 + i - (L - 1)
    BY <1>4, DepthAssumption
  <2> QED BY <1>3, <1>5, <2>1, <2>2
<1>10. Len(d.stack) \in 1 .. MaxDepth + 1 /\ Len(d.stack) - 1 = L - 2
  BY <1>1, <1>4, DepthAssumption
<1>11. RunningOK(d)
  BY <1>4, <1>6, <1>7, <1>8, <1>9, <1>10 DEF RunningOK
<1> QED BY <1>3, <1>11 DEF d, s

\* A stack with one more frame on top, of the flag that its top waits for.
LEMMA PushKeeps ==
    ASSUME NEW c \in RunningCall, RunningOK(c), Len(c.stack) <= MaxDepth,
           NEW flag \in Storable \ {Absent},
           flag.key \in Keys, flag \in c.seen[flag.key], WaitsFor(c.stack[1], flag.key),
           c.key \in MustBeOn(c.seen, c.user) =>
              flag.key \in OnWithin(c.seen, c.user)[MaxDepth + 1 - Len(c.stack)]
    PROVE  /\ [c EXCEPT !.stack = <<Frame(flag)>> \o c.stack] \in RunningCall
           /\ RunningOK([c EXCEPT !.stack = <<Frame(flag)>> \o c.stack])
<1> DEFINE s == <<Frame(flag)>> \o c.stack
           d == [c EXCEPT !.stack = s]
           L == Len(c.stack)
<1>1. L \in 1 .. MaxDepth
  BY DepthAssumption DEF RunningOK
<1>a. Frame(flag) \in Frames
  BY DEF Frame, Frames
<1>2. /\ s \in Seq(Frames) /\ Len(s) = L + 1 /\ s[1] = Frame(flag)
      /\ \A i \in 2 .. L + 1 : s[i] = c.stack[i - 1]
  <2>1. <<Frame(flag)>> \in Seq(Frames) /\ c.stack \in Seq(Frames)
    BY <1>a, StackType
  <2>2. Len(<<Frame(flag)>>) = 1 /\ <<Frame(flag)>>[1] = Frame(flag)
    OBVIOUS
  <2> QED BY <1>1, <2>1, <2>2, ConcatProperties
<1>3. /\ d \in RunningCall /\ d.stack = s /\ d.key = c.key /\ d.user = c.user
      /\ d.seen = c.seen
  <2> HIDE DEF s
  <2> QED BY <1>2 DEF RunningCall
<1> HIDE DEF d, s
<1>4. Len(d.stack) = L + 1 /\ L \in Nat
  BY <1>1, <1>2, <1>3
<1>5. d.stack[1] = Frame(flag) /\ \A i \in 2 .. L + 1 : d.stack[i] = c.stack[i - 1]
  BY <1>2, <1>3
<1>6. \A i \in 1 .. L + 1 : FrameOK(d.stack[i], d.seen, d.user)
  <2> TAKE i \in 1 .. L + 1
  <2>1. CASE i = 1
    <3>1. /\ Frame(flag).flag = flag /\ Frame(flag).next = 1
      BY DEF Frame
    <3>2. Len(flag.prerequisites) \in Nat
      BY StorableType
    <3> QED BY <1>3, <1>5, <2>1, <3>1, <3>2 DEF FrameOK
  <2>2. CASE i # 1
    <3>1. i \in 2 .. L + 1 /\ i - 1 \in 1 .. L
      BY <1>4, <2>2
    <3> QED BY <1>3, <1>5, <3>1 DEF RunningOK
  <2> QED BY <2>1, <2>2
<1>7. d.stack[L + 1].flag.key = d.key
  BY <1>1, <1>3, <1>5 DEF RunningOK
<1>8. \A i \in 1 .. L : WaitsFor(d.stack[i + 1], d.stack[i].flag.key)
  <2> TAKE i \in 1 .. L
  <2>1. CASE i = 1
    <3>1. d.stack[2] = c.stack[1] /\ d.stack[1].flag = flag
      BY <1>1, <1>5 DEF Frame
    <3> QED BY <2>1, <3>1
  <2>2. CASE i # 1
    <3>4. i \in 2 .. L + 1 /\ i + 1 \in 2 .. L + 1 /\ (i + 1) - 1 = i
      BY <1>4, <2>2
    <3>1. d.stack[i + 1] = c.stack[i] /\ d.stack[i] = c.stack[i - 1]
      BY <1>5, <3>4
    <3>2. i - 1 \in 1 .. L - 1 /\ (i - 1) + 1 = i
      BY <1>4, <2>2
    <3>3. WaitsFor(c.stack[(i - 1) + 1], c.stack[i - 1].flag.key)
      BY <3>2 DEF RunningOK
    <3> QED BY <3>1, <3>2, <3>3
  <2> QED BY <2>1, <2>2
<1>9. ASSUME d.key \in MustBeOn(d.seen, d.user), NEW i \in 1 .. L + 1
      PROVE  /\ ~d.stack[i].refused
             /\ d.stack[i].flag.key
                   \in OnWithin(d.seen, d.user)[MaxDepth + 1 + i - (L + 1)]
  <2>1. CASE i = 1
    <3>1. MaxDepth + 1 + i - (L + 1) = MaxDepth + 1 - L
      <4> HIDE DEF L
      <4> QED BY <1>4, <2>1, DepthAssumption
    <3>2. d.stack[1].flag = flag /\ ~d.stack[1].refused
      BY <1>5 DEF Frame
    <3> QED BY <1>3, <1>9, <2>1, <3>1, <3>2
  <2>2. CASE i # 1
    <3>1. i - 1 \in 1 .. L /\ d.stack[i] = c.stack[i - 1]
      BY <1>4, <1>5, <2>2
    <3>2. MaxDepth + 1 + (i - 1) - L = MaxDepth + 1 + i - (L + 1)
      BY <1>4, DepthAssumption
    <3>3. /\ ~c.stack[i - 1].refused
          /\ c.stack[i - 1].flag.key
                \in OnWithin(c.seen, c.user)[MaxDepth + 1 + (i - 1) - L]
      BY <1>3, <1>9, <3>1 DEF RunningOK
    <3> QED BY <1>3, <3>1, <3>2, <3>3
  <2> QED BY <2>1, <2>2
<1>10. Len(d.stack) \in 1 .. MaxDepth + 1 /\ Len(d.stack) - 1 = L
  BY <1>1, <1>4, DepthAssumption
<1>11. RunningOK(d)
  BY <1>4, <1>6, <1>7, <1>8, <1>9, <1>10 DEF RunningOK
<1> QED BY <1>3, <1>11 DEF d, s

-----------------------------------------------------------------------------
\* What has to be on is not refused, and what it requires has to be on, in a
\* value that it accepts.
LEMMA MustGoesOn ==
    ASSUME NEW c \in RunningCall, RunningOK(c), c.key \in MustBeOn(c.seen, c.user)
    PROVE  LET f == c.stack[1].flag IN
           /\ Decides(f, c.user) /\ ~c.stack[1].refused
           /\ f.prerequisites # <<>> => Len(c.stack) <= MaxDepth
           /\ \A i \in 1 .. Len(f.prerequisites) :
                 LET p == f.prerequisites[i] IN
                 /\ p.key \in OnWithin(c.seen, c.user)[MaxDepth + 1 - Len(c.stack)]
                 /\ \A g \in c.seen[p.key] : Meets(g, c.user, p)
<1> DEFINE L == Len(c.stack)
           f == c.stack[1].flag
           on == OnWithin(c.seen, c.user)
           n == MaxDepth + 2 - L
<1>1. L \in 1 .. MaxDepth + 1
  BY DEF RunningOK
<1>2. 1 \in 1 .. L /\ n \in 1 .. MaxDepth + 1
  <2> HIDE DEF L
  <2> QED BY <1>1, DepthAssumption
<1>3. FrameOK(c.stack[1], c.seen, c.user)
  BY <1>2 DEF RunningOK
<1>4. f \in Storable \ {Absent} /\ f.key \in Keys /\ f \in c.seen[f.key]
  <2>1. c.stack[1] \in Frames
    BY <1>2, StackType
  <2> QED BY <1>3, <2>1 DEF FrameOK, Frames
<1>5. ~c.stack[1].refused /\ f.key \in on[MaxDepth + 1 + 1 - L]
  BY <1>2 DEF RunningOK
<1>6. MaxDepth + 1 + 1 - L = n /\ n - 1 = MaxDepth + 1 - L
  <2> HIDE DEF L
  <2> QED BY <1>1, DepthAssumption
<1>7. f.key \in OnAbove(on[n - 1], c.seen, c.user)
  <2> HIDE DEF n, f
  <2> QED BY <1>2, <1>5, <1>6, OnWithinDef
<1>8. /\ Decides(f, c.user)
      /\ \A p \in Required(f) :
            p.key \in on[n - 1] /\ \A g \in c.seen[p.key] : Meets(g, c.user, p)
  BY <1>4, <1>7 DEF OnAbove
<1>9. /\ Len(f.prerequisites) \in Nat
      /\ \A i \in 1 .. Len(f.prerequisites) : f.prerequisites[i] \in Required(f)
      /\ f.prerequisites # <<>> => Len(f.prerequisites) # 0
  BY <1>4, StorableType, EmptySeq
<1>10. ASSUME f.prerequisites # <<>> PROVE L <= MaxDepth
  <2>1. f.prerequisites[1] \in Required(f)
    BY <1>9, <1>10
  <2>2. on[n - 1] # {}
    BY <1>8, <2>1
  <2>3. n - 1 # 0
    BY <2>2, OnWithinDef
  <2> HIDE DEF L
  <2> QED BY <1>1, <1>6, <2>3, DepthAssumption
<1> QED BY <1>5, <1>6, <1>8, <1>9, <1>10

\* The call c once the flag on top of its stack has a result.
Returned(c, result) ==
    LET below == Tail(c.stack) IN
    IF below = <<>>
    THEN [state |-> "answered", key |-> c.key, user |-> c.user, seen |-> c.seen,
          result |-> result]
    ELSE IF Satisfies(result, Head(below).flag.prerequisites[Head(below).next])
    THEN [c EXCEPT !.stack = [below EXCEPT ![1].next = @ + 1]]
    ELSE [c EXCEPT !.stack = [below EXCEPT ![1].refused = TRUE]]

LEMMA ReturnedOK ==
    ASSUME NEW c \in RunningCall, RunningOK(c), NEW s, \A k \in Keys : s[k] \in c.seen[k],
           NEW result \in Results,
           result.enabled => /\ c.stack[1].flag \in MayBeOn(c.seen, c.user)
                             /\ result = OwnResult(c.stack[1].flag, c.user),
           c.key \in MustBeOn(c.seen, c.user) => result.enabled
    PROVE  CallOK(Returned(c, result), s)
<1> DEFINE L == Len(c.stack)
           f == c.stack[1].flag
           below == Tail(c.stack)
           b == c.stack[2]
<1>1. L \in Nat \ {0} /\ c.stack \in Seq(Frames) /\ c.stack # <<>>
  BY StackType, EmptySeq DEF RunningOK
<1>2. /\ below \in Seq(Frames) /\ Len(below) = L - 1
      /\ \A i \in 1 .. L - 1 : below[i] = c.stack[i + 1]
      /\ below = <<>> <=> L = 1
  <2>1. /\ below \in Seq(Frames) /\ Len(below) = L - 1
        /\ \A i \in 1 .. L - 1 : below[i] = c.stack[i + 1]
    BY <1>1, HeadTailProperties
  <2>2. below = <<>> <=> L = 1
    <3>1. L - 1 = 0 <=> L = 1
      <4> HIDE DEF L
      <4> QED BY <1>1
    <3> HIDE DEF below, L
    <3> QED BY <2>1, <3>1, EmptySeq
  <2> QED BY <2>1, <2>2
<1>3. FrameOK(c.stack[1], c.seen, c.user)
  BY <1>1 DEF RunningOK
<1>4. CASE L = 1
  <2> DEFINE d == [state |-> "answered", key |-> c.key, user |-> c.user, seen |-> c.seen,
                   result |-> result]
  <2>1. Returned(c, result) = d
    BY <1>2, <1>4 DEF Returned
  <2>2. d \in AnsweredCall
    BY StackType DEF AnsweredCall
  <2>3. f.key = c.key
    BY <1>4 DEF RunningOK
  <2>4. AnsweredOK(d)
    BY <2>3 DEF AnsweredOK
  <2> QED BY <2>1, <2>2, <2>4 DEF CallOK
<1>5. CASE L # 1
  <2> DEFINE e == [c EXCEPT !.stack = below]
             p == b.flag.prerequisites[b.next]
             next == [b EXCEPT !.next = @ + 1]
             refused == [b EXCEPT !.refused = TRUE]
  <2>1. e \in RunningCall /\ RunningOK(e)
    BY <1>5, PopKeeps
  <2>2. e.stack = below /\ e.key = c.key /\ e.user = c.user /\ e.seen = c.seen
    BY DEF RunningCall
  <2>3. below[1] = b /\ b = e.stack[1] /\ Head(below) = b
    <3>1. below # <<>> /\ below[1] = c.stack[2]
      BY <1>1, <1>2, <1>5
    <3>2. Head(below) = below[1]
      <4> HIDE DEF below
      <4> QED BY <1>2, <3>1, HeadTailProperties
    <3> QED BY <2>2, <3>1, <3>2
  <2>4. b \in Frames /\ FrameOK(b, c.seen, c.user) /\ WaitsFor(b, f.key)
    <3>1. 2 \in 1 .. L /\ 1 \in 1 .. L - 1
      <4> HIDE DEF L
      <4> QED BY <1>1, <1>5
    <3> QED BY <3>1, StackType DEF RunningOK
  <2>5. /\ b.next \in Nat \ {0} /\ b.next <= Len(b.flag.prerequisites) /\ p.key = f.key
        /\ b.flag \in Storable
    BY <2>4 DEF Frames, WaitsFor
  <2>6. Len(b.flag.prerequisites) \in Nat
    BY <2>5, StorableType
  <2>7. CASE Satisfies(result, p)
    <3>1. Returned(c, result) = [e EXCEPT !.stack = [e.stack EXCEPT ![1] = next]]
      <4>1. Returned(c, result) = [c EXCEPT !.stack = [below EXCEPT ![1].next = @ + 1]]
        BY <1>2, <1>5, <2>3, <2>7 DEF Returned
      <4>2. [below EXCEPT ![1].next = @ + 1] = [below EXCEPT ![1] = next]
        BY <2>3
      <4> QED BY <2>2, <4>1, <4>2 DEF RunningCall
    <3>2. next \in Frames /\ next.flag = b.flag /\ next.next = b.next + 1
          /\ next.refused = b.refused
      BY <2>4, <2>5 DEF Frames
    <3>3. f \in c.seen[p.key] \cap MayBeOn(c.seen, c.user) /\ Meets(f, c.user, p)
      BY <1>3, <2>5, <2>7, Zenon DEF FrameOK, Meets, Satisfies
    <3>4. FrameOK(next, c.seen, c.user)
      <4>1. \A j \in 1 .. b.next - 1 :
              \E g \in c.seen[b.flag.prerequisites[j].key] \cap MayBeOn(c.seen, c.user) :
                 Meets(g, c.user, b.flag.prerequisites[j])
        BY <2>4 DEF FrameOK
      <4>2. \A j \in 1 .. b.next :
              \E g \in c.seen[b.flag.prerequisites[j].key] \cap MayBeOn(c.seen, c.user) :
                 Meets(g, c.user, b.flag.prerequisites[j])
        <5> TAKE j \in 1 .. b.next
        <5>1. CASE j = b.next
          BY <3>3, <5>1, Zenon
        <5>2. CASE j # b.next
          <6>1. j \in 1 .. b.next - 1
            BY <2>5, <5>2
          <6> QED BY <4>1, <6>1
        <5> QED BY <5>1, <5>2
      <4>3. /\ b.flag # Absent /\ b.flag.key \in Keys /\ b.flag \in c.seen[b.flag.key]
        BY <2>4 DEF FrameOK
      <4>4. (b.next + 1) - 1 = b.next /\ b.next + 1 <= Len(b.flag.prerequisites) + 1
        <5> HIDE DEF b
        <5> QED BY <2>5, <2>6
      <4> HIDE DEF b, next
      <4> QED BY <3>2, <4>2, <4>3, <4>4 DEF FrameOK
    <3>5. ~b.refused
      BY <2>4 DEF WaitsFor
    <3> DEFINE d == [e EXCEPT !.stack = [e.stack EXCEPT ![1] = next]]
    <3>6. d \in RunningCall /\ RunningOK(d)
      <4> HIDE DEF e, next, b
      <4> QED BY <2>1, <2>2, <2>3, <3>2, <3>4, <3>5, RetopKeeps
    <3>7. d.seen = c.seen
      BY <2>1, <2>2 DEF RunningCall
    <3> QED BY <3>1, <3>6, <3>7 DEF CallOK
  <2>8. CASE ~Satisfies(result, p)
    <3>1. Returned(c, result) = [e EXCEPT !.stack = [e.stack EXCEPT ![1] = refused]]
      <4>1. Returned(c, result) = [c EXCEPT !.stack = [below EXCEPT ![1].refused = TRUE]]
        BY <1>2, <1>5, <2>3, <2>8 DEF Returned
      <4>2. [below EXCEPT ![1].refused = TRUE] = [below EXCEPT ![1] = refused]
        BY <2>3
      <4> QED BY <2>2, <4>1, <4>2 DEF RunningCall
    <3>2. refused \in Frames /\ refused.flag = b.flag /\ refused.next = b.next
      BY <2>4 DEF Frames
    <3>3. FrameOK(refused, c.seen, c.user)
      <4> HIDE DEF b, refused
      <4> QED BY <2>4, <3>2 DEF FrameOK
    <3>4. c.key \notin MustBeOn(c.seen, c.user)
      <4> SUFFICES ASSUME c.key \in MustBeOn(c.seen, c.user) PROVE FALSE
        OBVIOUS
      <4>1. e.key \in MustBeOn(e.seen, e.user)
        BY <2>2
      <4>2. b.next \in 1 .. Len(b.flag.prerequisites)
        BY <2>5, <2>6
      <4>3. \A g \in c.seen[p.key] : Meets(g, c.user, p)
        <5> HIDE DEF e, b
        <5> QED BY <2>1, <2>2, <2>3, <4>1, <4>2, MustGoesOn
      <4>4. Meets(f, c.user, p)
        BY <1>3, <2>5, <4>3 DEF FrameOK
      <4> QED BY <2>8, <4>4 DEF Meets, Satisfies
    <3> DEFINE d == [e EXCEPT !.stack = [e.stack EXCEPT ![1] = refused]]
    <3>6. d \in RunningCall /\ RunningOK(d)
      <4> HIDE DEF e, refused, b
      <4> QED BY <2>1, <2>2, <2>3, <3>2, <3>3, <3>4, RetopKeeps
    <3>7. d.seen = c.seen
      BY <2>1, <2>2 DEF RunningCall
    <3> QED BY <3>1, <3>6, <3>7 DEF CallOK
  <2> QED BY <2>7, <2>8
<1> QED BY <1>4, <1>5

-----------------------------------------------------------------------------
\* Every flag is under its key, and every call is as it should be.
StoreInv ==
    /\ store \in Stores
    /\ \A k \in Keys : store[k] # Absent => store[k].key = k
    /\ contexts \in [Threads -> Contexts \cup {NoContext}]
    /\ calls \in [Threads -> Call \cup {Idle}]
    /\ writes \in 0 .. MaxWrites
    /\ \A t \in Threads : CallOK(calls[t], store)

\* A call tells its state.
LEMMA IdleState ==
    /\ Idle.state = "idle"
    /\ \A c \in Call : c.state # "idle"
    /\ \A c \in Call : c.state = "missing" => c \in MissingCall
    /\ \A c \in Call : c.state = "running" => c \in RunningCall
    /\ \A c \in Call : c.state = "answered" => c \in AnsweredCall
BY DEF Idle, Call, MissingCall, RunningCall, AnsweredCall

LEMMA CallKinds ==
    ASSUME NEW c, NEW s, CallOK(c, s)
    PROVE  c \in Call \cup {Idle}
BY DEF CallOK, Call

\* The evaluation sees one more flag under some keys.
LEMMA Widened ==
    ASSUME NEW c \in Call, NEW s0, CallOK(c, s0), NEW s \in Stores
    PROVE  CallOK([c EXCEPT !.seen = [k \in Keys |-> c.seen[k] \cup {s[k]}]], s)
<1> DEFINE seen == [k \in Keys |-> c.seen[k] \cup {s[k]}]
           d == [c EXCEPT !.seen = seen]
<1>1. c.seen \in Seens /\ c.user \in Contexts /\ c.key \in Keys
  BY DEF Call, MissingCall, RunningCall, AnsweredCall
<1>2. /\ seen \in Seens
      /\ \A k \in Keys : s[k] \in seen[k]
      /\ \A k \in Keys : c.seen[k] \subseteq seen[k]
  BY <1>1 DEF Seens, Stores
<1> HIDE DEF seen
<1>3. d.seen = seen /\ d.user = c.user /\ d.key = c.key
  BY DEF Call, MissingCall, RunningCall, AnsweredCall
<1>4. MayBeOn(c.seen, c.user) \subseteq MayBeOn(seen, c.user)
  BY <1>1, <1>2, MayBeOnGrows
<1>5. \A m \in 0 .. MaxDepth + 1 :
         OnWithin(seen, c.user)[m] \subseteq OnWithin(c.seen, c.user)[m]
  BY <1>1, <1>2, OnWithinShrinks
<1>6. MustBeOn(seen, c.user) \subseteq MustBeOn(c.seen, c.user)
  BY <1>5, DepthAssumption DEF MustBeOn
<1>7. CASE c \in MissingCall
  <2>1. MissingOK(c)
    BY <1>7, IdleState DEF CallOK, MissingCall, RunningCall, AnsweredCall
  <2>2. d \in MissingCall
    BY <1>2, <1>7 DEF MissingCall
  <2>3. MissingOK(d)
    BY <1>3, <1>6, <2>1 DEF MissingOK
  <2> HIDE DEF d
  <2>4. CallOK(d, s)
    BY <1>2, <1>3, <2>2, <2>3 DEF CallOK
  <2> QED BY <2>4 DEF d, seen
<1>8. CASE c \in AnsweredCall
  <2>1. AnsweredOK(c)
    BY <1>8, IdleState DEF CallOK, MissingCall, RunningCall, AnsweredCall
  <2>2. d \in AnsweredCall /\ d.result = c.result
    BY <1>2, <1>8 DEF AnsweredCall
  <2> HIDE DEF d
  <2>3. AnsweredOK(d)
    BY <1>3, <1>4, <1>6, <2>1, <2>2 DEF AnsweredOK
  <2>4. CallOK(d, s)
    BY <1>2, <1>3, <2>2, <2>3 DEF CallOK
  <2> QED BY <2>4 DEF d, seen
<1>9. CASE c \in RunningCall
  <2>1. RunningOK(c)
    BY <1>9, IdleState DEF CallOK, MissingCall, RunningCall, AnsweredCall
  <2>2. d \in RunningCall /\ d.stack = c.stack
    BY <1>2, <1>9 DEF RunningCall
  <2> HIDE DEF d
  <2> DEFINE L == Len(c.stack)
  <2>3. L \in 1 .. MaxDepth + 1
    BY <2>1 DEF RunningOK
  <2>4. ASSUME NEW i \in 1 .. Len(c.stack)
        PROVE  FrameOK(c.stack[i], seen, c.user)
    <3> DEFINE f == c.stack[i]
    <3>1. FrameOK(f, c.seen, c.user)
      BY <2>1 DEF RunningOK
    <3>2. f.flag \in Storable /\ f.next \in Nat
      BY <1>9, StackType DEF Frames
    <3> HIDE DEF f
    <3>3. \A j \in 1 .. f.next - 1 : f.flag.prerequisites[j].key \in Keys
      <4> TAKE j \in 1 .. f.next - 1
      <4>1. Len(f.flag.prerequisites) \in Nat /\ f.next <= Len(f.flag.prerequisites) + 1
        BY <3>1, <3>2, StorableType DEF FrameOK
      <4>2. j \in 1 .. Len(f.flag.prerequisites)
        BY <3>2, <4>1
      <4> QED BY <3>2, <4>2, StorableType
    <3>4. FrameOK(f, seen, c.user)
      BY <1>2, <1>4, <3>1, <3>3 DEF FrameOK
    <3> QED BY <3>4 DEF f
  <2> DEFINE on == OnWithin(seen, c.user)
             Good(i) == c.stack[i].flag.key \in on[MaxDepth + 1 + i - L]
  <2>5. ASSUME c.key \in MustBeOn(seen, c.user), NEW i \in 1 .. L
        PROVE  Good(i)
    <3> DEFINE Bad == {j \in 0 .. L - 1 : ~Good(L - j)}
    <3>1. Good(L)
      <4>1. MaxDepth + 1 + L - L = MaxDepth + 1
        <5> HIDE DEF L
        <5> QED BY <2>3, DepthAssumption
      <4> QED BY <2>1, <2>5, <4>1 DEF RunningOK, MustBeOn
    <3>2. ASSUME NEW j \in 1 .. L - 1, Good(j + 1)
          PROVE  Good(j)
      <4> DEFINE f == c.stack[j + 1].flag
                 n == MaxDepth + 1 + (j + 1) - L
      <4>1. j + 1 \in 1 .. L /\ n \in 1 .. MaxDepth + 1 /\ n - 1 = MaxDepth + 1 + j - L
        <5> HIDE DEF L
        <5> QED BY <2>3, DepthAssumption
      <4>2. f # Absent /\ f.key \in Keys /\ f \in seen[f.key]
        BY <2>4, <4>1 DEF FrameOK
      <4>3. f \in Storable
        BY <1>9, <4>1, StackType DEF Frames
      <4>4. f.key \in OnAbove(on[n - 1], seen, c.user)
        <5> HIDE DEF n, f, on
        <5> QED BY <3>2, <4>1, OnWithinDef DEF n, f, on
      <4>5. \A p \in Required(f) : p.key \in on[n - 1]
        BY <4>2, <4>4 DEF OnAbove
      <4>6. WaitsFor(c.stack[j + 1], c.stack[j].flag.key)
        BY <2>1 DEF RunningOK
      <4>7. /\ c.stack[j + 1].next \in 1 .. Len(f.prerequisites)
            /\ f.prerequisites[c.stack[j + 1].next].key = c.stack[j].flag.key
        <5>1. c.stack[j + 1].next \in Nat \ {0}
          BY <1>9, <4>1, StackType DEF Frames
        <5>2. Len(f.prerequisites) \in Nat
          BY <4>3, StorableType
        <5> QED BY <4>6, <5>1, <5>2 DEF WaitsFor
      <4>8. c.stack[j].flag.key \in on[n - 1]
        BY <4>3, <4>5, <4>7, StorableType
      <4> QED BY <4>1, <4>8
    <3>3. SUFFICES ASSUME Bad # {} PROVE FALSE
      <4>1. L - i \in 0 .. L - 1 /\ L - (L - i) = i
        <5> HIDE DEF L, Good
        <5> QED BY <2>3
      <4> HIDE DEF Good, L
      <4> QED BY <4>1
    <3>4. PICK j \in Bad : \A k \in Bad : j <= k
      <4>1. Bad \subseteq Nat
        OBVIOUS
      <4> HIDE DEF Bad
      <4> QED BY <3>3, <4>1, LeastIndex
    <3>5. j # 0
      <4> HIDE DEF Good, L
      <4> QED BY <2>3, <3>1, <3>4 DEF L
    <3>6. L - j \in 1 .. L - 1 /\ (L - j) + 1 = L - (j - 1) /\ j - 1 \in 0 .. L - 1 /\ ~(j <= j - 1)
      <4> HIDE DEF Good, L
      <4> QED BY <2>3, <3>4, <3>5 DEF L
    <3>7. Good((L - j) + 1)
      <4> HIDE DEF Good, L
      <4> QED BY <3>4, <3>6
    <3>8. Good(L - j)
      <4> HIDE DEF Good, L
      <4> QED BY <3>2, <3>6, <3>7
    <3> QED BY <3>4, <3>8
  <2>6. ASSUME c.key \in MustBeOn(seen, c.user), NEW i \in 1 .. L
        PROVE  ~c.stack[i].refused
    BY <1>6, <2>1, <2>6 DEF RunningOK
  <2>7. RunningOK(d)
    <3>1. /\ \A i \in 1 .. Len(d.stack) : FrameOK(d.stack[i], d.seen, d.user)
          /\ Len(d.stack) \in 1 .. MaxDepth + 1
      BY <1>3, <2>2, <2>3, <2>4
    <3>2. /\ d.stack[Len(d.stack)].flag.key = d.key
          /\ \A i \in 1 .. Len(d.stack) - 1 : WaitsFor(d.stack[i + 1], d.stack[i].flag.key)
      BY <1>3, <2>1, <2>2 DEF RunningOK
    <3>3. ASSUME d.key \in MustBeOn(d.seen, d.user), NEW i \in 1 .. Len(d.stack)
          PROVE  /\ ~d.stack[i].refused
                 /\ d.stack[i].flag.key
                       \in OnWithin(d.seen, d.user)[MaxDepth + 1 + i - Len(d.stack)]
      BY <1>3, <2>2, <2>5, <2>6, <3>3
    <3> QED BY <3>1, <3>2, <3>3 DEF RunningOK
  <2>8. CallOK(d, s)
    BY <1>2, <1>3, <2>2, <2>7 DEF CallOK
  <2> QED BY <2>8 DEF d, seen
<1> QED BY <1>7, <1>8, <1>9 DEF Call

-----------------------------------------------------------------------------
\* The invariant holds at first, and every step keeps it.
LEMMA StoreInvInit == StoreInit => StoreInv
<1> SUFFICES ASSUME StoreInit PROVE StoreInv
  OBVIOUS
<1>1. store \in Stores /\ \A k \in Keys : store[k] # Absent => store[k].key = k
  BY DEF StoreInit, Stores, Storable
<1>2. contexts \in [Threads -> Contexts \cup {NoContext}]
  BY DEF StoreInit
<1>3. calls \in [Threads -> Call \cup {Idle}] /\ \A t \in Threads : CallOK(calls[t], store)
  BY DEF StoreInit, CallOK
<1>4. writes \in 0 .. MaxWrites
  BY DepthAssumption DEF StoreInit
<1> QED BY <1>1, <1>2, <1>3, <1>4 DEF StoreInv

\* A write of store s.
LEMMA WriteKeeps ==
    ASSUME StoreInv, NEW s \in Stores, \A k \in Keys : s[k] # Absent => s[k].key = k,
           Write(s)
    PROVE  StoreInv'
<1>1. writes' \in 0 .. MaxWrites
  BY DepthAssumption DEF StoreInv, Write
<1>2. store' = s /\ contexts' = contexts
  BY DEF Write
<1>3. ASSUME NEW t \in Threads
      PROVE  CallOK(calls'[t], s)
  <2> DEFINE c == calls[t]
  <2>1. CallOK(c, store) /\ c \in Call \cup {Idle}
    BY DEF StoreInv
  <2>2. CASE c = Idle
    <3>1. calls'[t] = c
      BY <2>2, IdleState DEF Write
    <3> QED BY <2>2, <3>1 DEF CallOK
  <2>3. CASE c # Idle
    <3>1. c \in Call /\ c.state # "idle"
      BY <2>1, <2>3, IdleState
    <3>2. calls'[t] = [c EXCEPT !.seen = [k \in Keys |-> c.seen[k] \cup {s[k]}]]
      BY <3>1 DEF Write
    <3> HIDE DEF c
    <3> QED BY <2>1, <3>1, <3>2, Widened
  <2> QED BY <2>2, <2>3
<1>4. calls' \in [Threads -> Call \cup {Idle}]
  <2>1. \A t \in Threads : calls'[t] \in Call \cup {Idle}
    BY <1>3, CallKinds
  <2>2. calls' = [t \in Threads |-> calls'[t]]
    BY DEF Write
  <2> QED BY <2>1, <2>2
<1> QED BY <1>1, <1>2, <1>3, <1>4 DEF StoreInv

\* A step of the evaluation in thread t, whose call becomes d.
LEMMA CallKeeps ==
    ASSUME StoreInv, NEW t \in Threads, NEW d, CallOK(d, store),
           calls' = [calls EXCEPT ![t] = d], UNCHANGED <<store, contexts, writes>>
    PROVE  StoreInv'
<1>1. d \in Call \cup {Idle}
  BY CallKinds
<1>2. calls' \in [Threads -> Call \cup {Idle}]
  BY <1>1 DEF StoreInv
<1>3. \A u \in Threads : CallOK(calls'[u], store)
  BY DEF StoreInv
<1> QED BY <1>2, <1>3 DEF StoreInv

\* An evaluation begins.
LEMMA BeginKeeps ==
    ASSUME StoreInv, NEW t \in Threads, NEW key \in Keys, NEW user \in Contexts,
           Begin(t, key, user)
    PROVE  StoreInv'
<1>1. Now \in Seens /\ \A k \in Keys : store[k] \in Now[k]
  BY DEF StoreInv, Stores, Seens, Now
<1> HIDE DEF Now
<1>2. CASE store[key] = Absent
  <2> DEFINE d == [state |-> "missing", key |-> key, user |-> user, seen |-> Now]
  <2>1. d \in MissingCall /\ d.seen = Now
    BY <1>1 DEF MissingCall
  <2>2. MissingOK(d)
    <3> DEFINE on == OnWithin(Now, user)
               n == MaxDepth + 1
    <3>1. n \in 1 .. MaxDepth + 1
      BY DepthAssumption
    <3>2. on[n] = OnAbove(on[n - 1], Now, user)
      <4> HIDE DEF n
      <4> QED BY <3>1, OnWithinDef
    <3>3. key \notin on[n]
      <4> HIDE DEF n, on
      <4> QED BY <1>1, <1>2, <3>2 DEF OnAbove
    <3> QED BY <3>3 DEF MissingOK, MustBeOn
  <2> HIDE DEF d
  <2>3. CallOK(d, store)
    BY <1>1, <2>1, <2>2 DEF CallOK
  <2> QED BY <1>2, <2>3, CallKeeps DEF Begin, d
<1>3. CASE store[key] # Absent
  <2> DEFINE f == Frame(store[key])
             d == [state |-> "running", key |-> key, user |-> user, seen |-> Now,
                   stack |-> <<f>>]
  <2>1. store[key] \in Storable /\ store[key].key = key
    BY <1>3 DEF StoreInv, Stores
  <2>2. /\ f \in Frames /\ f.flag = store[key] /\ f.next = 1 /\ ~f.refused
    BY <2>1 DEF Frame, Frames
  <2> HIDE DEF f
  <2>3. /\ d \in RunningCall /\ d.seen = Now /\ d.user = user /\ d.key = key
        /\ d.stack = <<f>>
    BY <1>1, <2>2 DEF RunningCall
  <2> HIDE DEF d
  <2>4. Len(d.stack) = 1 /\ d.stack[1] = f
    BY <2>3
  <2>5. FrameOK(f, Now, user)
    <3>1. Len(store[key].prerequisites) \in Nat
      BY <2>1, StorableType
    <3> QED BY <1>1, <1>3, <2>1, <2>2, <3>1 DEF FrameOK
  <2>6. MaxDepth + 1 + 1 - 1 = MaxDepth + 1 /\ 1 \in 1 .. MaxDepth + 1
    BY DepthAssumption
  <2>7. RunningOK(d)
    BY <2>1, <2>2, <2>3, <2>4, <2>5, <2>6 DEF RunningOK, MustBeOn
  <2>8. CallOK(d, store)
    BY <1>1, <2>3, <2>7 DEF CallOK
  <2> QED BY <1>3, <2>8, CallKeeps DEF Begin, d, f
<1> QED BY <1>2, <1>3

\* A sequence whose first element is another one.
LEMMA RetopSeq ==
    ASSUME NEW S, NEW s \in Seq(S), Len(s) # 0, NEW x \in S
    PROVE  <<x>> \o Tail(s) = [s EXCEPT ![1] = x]
<1>1. Len(s) \in Nat \ {0} /\ s # <<>> /\ DOMAIN s = 1 .. Len(s)
  BY LenProperties, EmptySeq
<1>2. /\ Tail(s) \in Seq(S) /\ Len(Tail(s)) = Len(s) - 1
      /\ \A i \in 1 .. Len(s) - 1 : Tail(s)[i] = s[i + 1]
  BY <1>1, HeadTailProperties
<1>3. <<x>> \in Seq(S) /\ Len(<<x>>) = 1 /\ <<x>>[1] = x
  OBVIOUS
<1>4. /\ <<x>> \o Tail(s) \in Seq(S) /\ Len(<<x>> \o Tail(s)) = Len(s)
      /\ \A i \in 1 .. Len(s) : (<<x>> \o Tail(s))[i] = IF i = 1 THEN x ELSE s[i]
  BY <1>1, <1>2, <1>3, ConcatProperties
<1>5. [s EXCEPT ![1] = x] \in Seq(S) /\ Len([s EXCEPT ![1] = x]) = Len(s)
      /\ \A i \in 1 .. Len(s) : [s EXCEPT ![1] = x][i] = IF i = 1 THEN x ELSE s[i]
  BY <1>1, ExceptSeq
<1> QED BY <1>1, <1>4, <1>5, SeqEqual

\* The evaluation in t is running.
LEMMA RunningFacts ==
    ASSUME StoreInv, NEW t \in Threads, Running(t)
    PROVE  /\ calls[t] \in RunningCall /\ RunningOK(calls[t])
           /\ \A k \in Keys : store[k] \in calls[t].seen[k]
           /\ Top(t) \in Frames /\ FrameOK(Top(t), calls[t].seen, calls[t].user)
           /\ Top(t).flag \in Storable \ {Absent}
           /\ Len(calls[t].stack) \in 1 .. MaxDepth + 1
<1> DEFINE c == calls[t]
<1>1. c \in RunningCall
  BY IdleState DEF StoreInv, Running
<1>2. RunningOK(c) /\ \A k \in Keys : store[k] \in c.seen[k]
  <2>1. CallOK(c, store)
    BY DEF StoreInv
  <2> HIDE DEF c
  <2> QED BY <1>1, <2>1, IdleState DEF CallOK, MissingCall, RunningCall, AnsweredCall
<1>3. Len(c.stack) \in 1 .. MaxDepth + 1
  BY <1>2 DEF RunningOK
<1>4. 1 \in 1 .. Len(c.stack)
  BY <1>3, DepthAssumption
<1>5. c.stack[1] \in Frames /\ FrameOK(c.stack[1], c.seen, c.user)
  BY <1>1, <1>2, <1>4, StackType DEF RunningOK
<1> QED BY <1>1, <1>2, <1>3, <1>5, Zenon DEF Top, Frames, FrameOK

LEMMA ReturnKeeps ==
    ASSUME StoreInv, NEW t \in Threads, Running(t), NEW result \in Results,
           Return(t, result),
           result.enabled => /\ Top(t).flag \in MayBeOn(calls[t].seen, calls[t].user)
                             /\ result = OwnResult(Top(t).flag, calls[t].user),
           calls[t].key \in MustBeOn(calls[t].seen, calls[t].user) => result.enabled
    PROVE  StoreInv'
<1>1. CallOK(Returned(calls[t], result), store)
  BY RunningFacts, ReturnedOK DEF Top
<1>2. calls' = [calls EXCEPT ![t] = Returned(calls[t], result)]
  BY DEF Return, Returned
<1>3. UNCHANGED <<store, contexts, writes>>
  BY DEF Return
<1> QED BY <1>1, <1>2, <1>3, CallKeeps

LEMMA RefuseKeeps ==
    ASSUME StoreInv, NEW t \in Threads, Refuse(t)
    PROVE  StoreInv'
<1>1. Running(t) /\ Return(t, Refused(Top(t).flag))
  BY DEF Refuse
<1>2. ~Refused(Top(t).flag).enabled
  BY DEF Refused
<1>3. Refused(Top(t).flag) \in Results
  BY <1>1, RunningFacts DEF Results
<1>4. calls[t].key \notin MustBeOn(calls[t].seen, calls[t].user)
  <2> SUFFICES ASSUME calls[t].key \in MustBeOn(calls[t].seen, calls[t].user) PROVE FALSE
    OBVIOUS
  <2>1. /\ Decides(Top(t).flag, calls[t].user) /\ ~Top(t).refused
        /\ Top(t).flag.prerequisites # <<>> => Len(calls[t].stack) <= MaxDepth
    BY <1>1, RunningFacts, MustGoesOn DEF Top
  <2>2. Len(calls[t].stack) \in Nat /\ MaxDepth \in Nat
    BY <1>1, RunningFacts, StackType, DepthAssumption
  <2> QED BY <2>1, <2>2 DEF Refuse, TooDeep, Decides
<1> QED BY <1>1, <1>2, <1>3, <1>4, ReturnKeeps

LEMMA DecideKeeps ==
    ASSUME StoreInv, NEW t \in Threads, Decide(t)
    PROVE  StoreInv'
<1> DEFINE c == calls[t]
           f == Top(t).flag
           result == OwnResult(f, c.user)
<1>1. Running(t) /\ Return(t, result) /\ f.enabled /\ Top(t).next > Len(f.prerequisites)
  BY DEF Decide
<1>2. c \in RunningCall /\ f \in Storable \ {Absent}
  BY <1>1, RunningFacts
<1>3. result \in Results
  BY <1>2, StackType DEF Results
<1>4. ASSUME result.enabled PROVE f \in MayBeOn(c.seen, c.user)
  <2>1. FrameOK(Top(t), c.seen, c.user) /\ Top(t).next \in Nat
    BY <1>1, RunningFacts DEF Frames
  <2>2. /\ Len(f.prerequisites) \in Nat /\ DOMAIN f.prerequisites = 1 .. Len(f.prerequisites)
    BY <1>2, StorableType
  <2>3. \A j \in 1 .. Len(f.prerequisites) :
           \E g \in c.seen[f.prerequisites[j].key] \cap MayBeOn(c.seen, c.user) :
              Meets(g, c.user, f.prerequisites[j])
    <3>1. \A j \in 1 .. Top(t).next - 1 :
             \E g \in c.seen[f.prerequisites[j].key] \cap MayBeOn(c.seen, c.user) :
                Meets(g, c.user, f.prerequisites[j])
      BY <2>1 DEF FrameOK
    <3>2. \A j \in 1 .. Len(f.prerequisites) : j \in 1 .. Top(t).next - 1
      <4> HIDE DEF f
      <4> QED BY <1>1, <2>1, <2>2
    <3> QED BY <3>1, <3>2
  <2>4. \A p \in Required(f) :
           \E g \in c.seen[p.key] \cap MayBeOn(c.seen, c.user) : Meets(g, c.user, p)
    BY <2>2, <2>3 DEF Required
  <2>5. f.key \in Keys /\ f \in c.seen[f.key]
    BY <2>1 DEF FrameOK
  <2>6. Decides(f, c.user)
    BY <1>1, <1>4 DEF Decides
  <2>7. c.seen \in Seens
    BY <1>2, StackType
  <2> HIDE DEF f, c
  <2> QED BY <1>2, <2>4, <2>5, <2>6, <2>7, MayBeOnClosed
<1>5. ASSUME c.key \in MustBeOn(c.seen, c.user) PROVE result.enabled
  BY <1>1, <1>5, RunningFacts, MustGoesOn DEF Top, Decides
<1> QED BY <1>1, <1>3, <1>4, <1>5, ReturnKeeps

LEMMA DescendKeeps ==
    ASSUME StoreInv, NEW t \in Threads, Descend(t)
    PROVE  StoreInv'
<1> DEFINE c == calls[t]
           f == Top(t)
           k == f.flag.prerequisites[f.next].key
           refused == [f EXCEPT !.refused = TRUE]
<1>1. /\ Running(t) /\ f.flag.enabled /\ ~f.refused /\ ~TooDeep(t)
      /\ f.next <= Len(f.flag.prerequisites) /\ UNCHANGED <<store, contexts, writes>>
      /\ calls' = [calls EXCEPT ![t].stack =
                     IF store[k] = Absent THEN <<refused>> \o Tail(@)
                     ELSE <<Frame(store[k])>> \o @]
  BY DEF Descend
<1>2. /\ c \in RunningCall /\ RunningOK(c) /\ \A j \in Keys : store[j] \in c.seen[j]
      /\ f \in Frames /\ FrameOK(f, c.seen, c.user) /\ f.flag \in Storable \ {Absent}
      /\ Len(c.stack) \in 1 .. MaxDepth + 1 /\ f = c.stack[1]
  BY <1>1, RunningFacts, Zenon DEF Top
<1>3. /\ Len(f.flag.prerequisites) \in Nat /\ f.next \in 1 .. Len(f.flag.prerequisites)
      /\ k \in Keys
  <2>1. Len(f.flag.prerequisites) \in Nat /\ f.next \in Nat \ {0}
    BY <1>2, StorableType DEF Frames
  <2>2. f.next \in 1 .. Len(f.flag.prerequisites)
    BY <1>1, <2>1
  <2> QED BY <1>2, <2>1, <2>2, StorableType
<1>4. c.key \in MustBeOn(c.seen, c.user) =>
         k \in OnWithin(c.seen, c.user)[MaxDepth + 1 - Len(c.stack)]
  BY <1>2, <1>3, MustGoesOn
<1>5. Len(c.stack) <= MaxDepth
  <2>1. f.flag.prerequisites # <<>>
    BY <1>3
  <2>2. Len(c.stack) \in Nat
    BY <1>2, StackType
  <2> QED BY <1>1, <2>1, <2>2, DepthAssumption DEF TooDeep
<1>6. CASE store[k] = Absent
  <2> DEFINE d == [c EXCEPT !.stack = [c.stack EXCEPT ![1] = refused]]
  <2>1. c.key \notin MustBeOn(c.seen, c.user)
    <3> DEFINE L == Len(c.stack)
               n == MaxDepth + 1 - L
               on == OnWithin(c.seen, c.user)
    <3>4. L \in 1 .. MaxDepth + 1 /\ L <= MaxDepth
      BY <1>2, <1>5
    <3>1. n \in 1 .. MaxDepth + 1
      <4> HIDE DEF L
      <4> QED BY <3>4, DepthAssumption
    <3>2. on[n] = OnAbove(on[n - 1], c.seen, c.user)
      <4> HIDE DEF n
      <4> QED BY <3>1, OnWithinDef
    <3>3. k \notin on[n]
      <4> HIDE DEF n, on, k
      <4> QED BY <1>2, <1>3, <1>6, <3>2 DEF OnAbove
    <3> QED BY <1>4, <3>3
  <2>2. refused \in Frames /\ refused.flag = f.flag /\ refused.next = f.next
    BY <1>2 DEF Frames
  <2>3. FrameOK(refused, c.seen, c.user)
    <3> HIDE DEF refused, f
    <3> QED BY <1>2, <2>2, Zenon DEF FrameOK
  <2>4. d \in RunningCall /\ RunningOK(d) /\ d.seen = c.seen
    <3>1. d \in RunningCall /\ RunningOK(d)
      <4> HIDE DEF refused, f, c
      <4> QED BY <1>2, <2>1, <2>2, <2>3, RetopKeeps
    <3> QED BY <1>2, <3>1 DEF RunningCall
  <2>5. CallOK(d, store)
    <3> HIDE DEF d
    <3> QED BY <1>2, <2>4 DEF CallOK
  <2>6. <<refused>> \o Tail(c.stack) = [c.stack EXCEPT ![1] = refused]
    <3> HIDE DEF refused, f, c
    <3> QED BY <1>2, <2>2, StackType, RetopSeq
  <2>7. calls' = [calls EXCEPT ![t] = d]
    BY <1>1, <1>6, <2>6
  <2> HIDE DEF d
  <2> QED BY <1>1, <2>5, <2>7, CallKeeps
<1>7. CASE store[k] # Absent
  <2> DEFINE d == [c EXCEPT !.stack = <<Frame(store[k])>> \o c.stack]
  <2>1. store[k] \in Storable \ {Absent} /\ store[k].key = k /\ store[k] \in c.seen[k]
    BY <1>2, <1>3, <1>7, Zenon DEF StoreInv, Stores
  <2>2. WaitsFor(f, k)
    BY <1>1, <1>3 DEF WaitsFor
  <2>3. d \in RunningCall /\ RunningOK(d) /\ d.seen = c.seen
    <3>1. d \in RunningCall /\ RunningOK(d)
      <4> HIDE DEF f, c, k
      <4> QED BY <1>2, <1>3, <1>4, <1>5, <2>1, <2>2, PushKeeps
    <3> QED BY <1>2, <3>1, Zenon DEF RunningCall
  <2>4. CallOK(d, store)
    <3> HIDE DEF d
    <3> QED BY <1>2, <2>3 DEF CallOK
  <2>5. calls' = [calls EXCEPT ![t] = d]
    BY <1>1, <1>7
  <2> HIDE DEF d
  <2> QED BY <1>1, <2>4, <2>5, CallKeeps
<1> QED BY <1>6, <1>7

LEMMA StoreInvNext == StoreInv /\ [StoreNext]_local => StoreInv'
<1> SUFFICES ASSUME StoreInv, [StoreNext]_local PROVE StoreInv'
  OBVIOUS
<1>1. ASSUME NEW flag \in Catalog, UpsertV2(flag)
      PROVE  StoreInv'
  <2> DEFINE s == [store EXCEPT ![flag.key] = flag]
  <2>1. s \in Stores /\ \A k \in Keys : s[k] # Absent => s[k].key = k
    BY DEF StoreInv, Stores, Storable
  <2> HIDE DEF s
  <2> QED BY <1>1, <2>1, WriteKeeps DEF UpsertV2, s
<1>2. ASSUME NEW flag \in Catalog,
             Upsert(flag.key, flag.enabled, IF flag.rollout = None THEN -1 ELSE flag.rollout,
                    flag.rules)
      PROVE  StoreInv'
  <2> DEFINE g == Positional(flag.key, flag.enabled,
                             IF flag.rollout = None THEN -1 ELSE flag.rollout, flag.rules)
             s == [store EXCEPT ![flag.key] = g]
  <2>1. g \in Storable
    BY DEF Storable
  <2>2. g.key = flag.key
    BY DEF Positional
  <2> HIDE DEF g
  <2>3. s \in Stores /\ \A k \in Keys : s[k] # Absent => s[k].key = k
    BY <2>1, <2>2 DEF StoreInv, Stores
  <2>4. Write(s)
    BY <1>2 DEF Upsert, g
  <2> HIDE DEF s
  <2> QED BY <2>3, <2>4, WriteKeeps
<1>3. ASSUME NEW k \in Keys, Delete(k)
      PROVE  StoreInv'
  <2> DEFINE s == [store EXCEPT ![k] = Absent]
  <2>1. s \in Stores /\ \A j \in Keys : s[j] # Absent => s[j].key = j
    BY DEF StoreInv, Stores
  <2> HIDE DEF s
  <2> QED BY <1>3, <2>1, WriteKeeps DEF Delete, s
<1>4. CASE ClearStore
  <2> DEFINE s == [k \in Keys |-> Absent]
  <2>1. s \in Stores /\ \A k \in Keys : s[k] # Absent => s[k].key = k
    BY DEF Stores
  <2> HIDE DEF s
  <2> QED BY <1>4, <2>1, WriteKeeps DEF ClearStore, s
<1>5. ASSUME NEW t \in Threads, NEW u \in UserHashes, NEW d \in Documents \cup {Malformed},
             MakeContext(t, u, d)
      PROVE  StoreInv'
  <2>1. ContextOf(u, d) \in Contexts
    BY DEF Contexts
  <2>2. contexts' \in [Threads -> Contexts \cup {NoContext}]
    BY <1>5, <2>1 DEF StoreInv, MakeContext
  <2> QED BY <1>5, <2>2 DEF StoreInv, MakeContext
<1>6. ASSUME NEW t \in Threads, NEW u \in UserHashes, NEW d \in Documents \cup {Malformed},
             NEW k \in Keys,
             IsEnabled(t, k, u, d) \/ GetVariant(t, k, u, d) \/ GetValue(t, k, u, d)
      PROVE  StoreInv'
  <2>1. ContextOf(u, d) \in Contexts
    BY DEF Contexts
  <2> QED BY <1>6, <2>1, BeginKeeps DEF IsEnabled, GetVariant, GetValue
<1>7. ASSUME NEW t \in Threads, FreeContext(t)
      PROVE  StoreInv'
  <2>1. contexts' \in [Threads -> Contexts \cup {NoContext}]
    BY <1>7 DEF StoreInv, FreeContext
  <2> QED BY <1>7, <2>1 DEF StoreInv, FreeContext
<1>8. ASSUME NEW t \in Threads, NEW k \in Keys, IsEnabledCtx(t, k)
      PROVE  StoreInv'
  <2>1. contexts[t] \in Contexts
    BY <1>8 DEF StoreInv, IsEnabledCtx
  <2> QED BY <1>8, <2>1, BeginKeeps DEF IsEnabledCtx
<1>9. ASSUME NEW t \in Threads, Answer(t)
      PROVE  StoreInv'
  <2>1. CallOK(Idle, store)
    BY DEF CallOK
  <2> QED BY <1>9, <2>1, CallKeeps DEF Answer
<1>10. CASE UNCHANGED local
  BY <1>10 DEF StoreInv, local
<1> QED BY <1>1, <1>2, <1>3, <1>4, <1>5, <1>6, <1>7, <1>8, <1>9, <1>10,
           RefuseKeeps, DescendKeeps, DecideKeeps DEF StoreNext

LEMMA StoreInvImplies == StoreInv => StoreTypeOK /\ FailsClosed /\ OnIsAnswered
<1> SUFFICES ASSUME StoreInv PROVE StoreTypeOK /\ FailsClosed /\ OnIsAnswered
  OBVIOUS
<1>1. StoreTypeOK
  <2>1. ASSUME NEW t \in Threads
        PROVE  calls[t].state \in {"idle", "missing", "running", "answered"}
    BY DEF StoreInv, Call, Idle, MissingCall, RunningCall, AnsweredCall
  <2>2. ASSUME NEW t \in Threads, Running(t)
        PROVE  Len(calls[t].stack) \in 1 .. MaxDepth + 1
    BY <2>2, RunningFacts
  <2> QED BY <2>1, <2>2 DEF StoreTypeOK, StoreInv
<1>2. ASSUME NEW t \in Threads
      PROVE  /\ calls[t].state = "answered" => AnsweredOK(calls[t])
             /\ calls[t].state = "missing" => MissingOK(calls[t])
  <2> DEFINE c == calls[t]
  <2>1. CallOK(c, store)
    BY DEF StoreInv
  <2> HIDE DEF c
  <2> QED BY <2>1 DEF CallOK, Idle, MissingCall, RunningCall, AnsweredCall, c
<1>3. FailsClosed
  BY <1>2 DEF FailsClosed, AnsweredOK
<1>4. OnIsAnswered
  BY <1>2 DEF OnIsAnswered, AnsweredOK, MissingOK
<1> QED BY <1>1, <1>3, <1>4

\* Every evaluation is in one of its states, and never deeper than the limit.
THEOREM StoreTypeCorrect == StoreSpec => []StoreTypeOK
<1>1. StoreSpec => []StoreInv
  BY StoreInvInit, StoreInvNext, PTL DEF StoreSpec
<1> QED BY <1>1, StoreInvImplies, PTL

\* Whatever changes meanwhile, a flag that is answered to be on was, with all it
\* requires, on at moments of the evaluation (evaluate_inner).
THEOREM NothingGetsAround == StoreSpec => []FailsClosed
<1>1. StoreSpec => []StoreInv
  BY StoreInvInit, StoreInvNext, PTL DEF StoreSpec
<1> QED BY <1>1, StoreInvImplies, PTL

\* And what was on all the time, within the limit of the depth, is answered on.
THEOREM NothingFailsForNothing == StoreSpec => []OnIsAnswered
<1>1. StoreSpec => []StoreInv
  BY StoreInvInit, StoreInvNext, PTL DEF StoreSpec
<1> QED BY <1>1, StoreInvImplies, PTL

-----------------------------------------------------------------------------
(***************************************************************************)
(* Weighted variants: every hash picks one, and none that has no weight.   *)
(***************************************************************************)

\* g goes by the recursion of Cumulative as far as m.
Sums(g, m, variants) ==
    /\ g[0] = 0
    /\ \A n \in 1 .. m : g[n] = g[n - 1] + variants[n].weight

\* A list of variants with weights.
Weighted(variants) ==
    /\ Len(variants) \in Nat
    /\ \A i \in 1 .. Len(variants) : variants[i].weight \in Nat

LEMMA SumsExist ==
    ASSUME NEW variants, Weighted(variants), NEW m \in 0 .. Len(variants)
    PROVE  \E g \in [0 .. m -> Nat] : Sums(g, m, variants)
<1> DEFINE L == Len(variants)
           Good(i) == \E g \in [0 .. i -> Nat] : Sums(g, i, variants)
           Bad == {i \in 0 .. L : ~Good(i)}
<1>l. L \in Nat /\ Bad \subseteq Nat
  BY DEF Weighted
<1> SUFFICES ASSUME Bad # {} PROVE FALSE
  OBVIOUS
<1>1. PICK i \in Bad : \A n \in Bad : i <= n
  <2> HIDE DEF Bad
  <2> QED BY <1>l, LeastIndex
<1>2. Good(0)
  <2>1. [n \in 0 .. 0 |-> 0] \in [0 .. 0 -> Nat]
    OBVIOUS
  <2>2. Sums([n \in 0 .. 0 |-> 0], 0, variants)
    BY DEF Sums
  <2> QED BY <2>1, <2>2
<1>3. i \in 1 .. L /\ i - 1 \in 0 .. L /\ Good(i - 1)
  <2> HIDE DEF Good, L
  <2> QED BY <1>l, <1>1, <1>2
<1>4. PICK g \in [0 .. i - 1 -> Nat] : Sums(g, i - 1, variants)
  BY <1>3
<1> DEFINE h == [n \in 0 .. i |-> IF n = i THEN g[i - 1] + variants[i].weight ELSE g[n]]
<1>5. h \in [0 .. i -> Nat]
  <2>1. variants[i].weight \in Nat /\ g[i - 1] \in Nat
    BY <1>3, <1>4 DEF Weighted
  <2> QED BY <1>3, <2>1
<1>6. Sums(h, i, variants)
  <2>1. h[0] = 0
    BY <1>3, <1>4 DEF Sums
  <2>2. \A n \in 1 .. i : h[n] = h[n - 1] + variants[n].weight
    BY <1>3, <1>4 DEF Sums
  <2> HIDE DEF h
  <2> QED BY <2>1, <2>2 DEF Sums
<1> QED BY <1>1, <1>5, <1>6

\* Cumulative is the function that its recursion describes.
LEMMA CumulativeDef ==
    ASSUME NEW variants, Weighted(variants)
    PROVE  /\ Cumulative(variants) \in [0 .. Len(variants) -> Nat]
           /\ Sums(Cumulative(variants), Len(variants), variants)
<1> DEFINE L == Len(variants)
           sum == Cumulative(variants)
<1>1. L \in Nat
  BY DEF Weighted
<1>2. PICK g \in [0 .. L -> Nat] : Sums(g, L, variants)
  BY <1>1, SumsExist
<1>3. g = [n \in 0 .. L |-> IF n = 0 THEN 0 ELSE g[n - 1] + variants[n].weight]
  BY <1>1, <1>2 DEF Sums
<1>4. sum = [n \in 0 .. L |-> IF n = 0 THEN 0 ELSE sum[n - 1] + variants[n].weight]
  BY <1>3, Zenon DEF Cumulative
<1>5. Sums(sum, L, variants)
  <2>1. sum[0] = 0
    BY <1>1, <1>4
  <2>2. \A n \in 1 .. L : sum[n] = sum[n - 1] + variants[n].weight
    <3> TAKE n \in 1 .. L
    <3>1. n \in 0 .. L /\ n # 0
      <4> HIDE DEF L
      <4> QED BY <1>1
    <3> HIDE DEF sum, L
    <3> QED BY <1>4, <3>1
  <2> QED BY <2>1, <2>2 DEF Sums
<1>6. \A n \in 0 .. L : sum[n] \in Nat
  <2> DEFINE Bad == {n \in 0 .. L : sum[n] \notin Nat}
  <2> SUFFICES ASSUME Bad # {} PROVE FALSE
    OBVIOUS
  <2>1. PICK i \in Bad : \A n \in Bad : i <= n
    <3>1. Bad \subseteq Nat
      OBVIOUS
    <3> HIDE DEF Bad
    <3> QED BY <3>1, LeastIndex
  <2>2. i # 0
    BY <1>5, <2>1 DEF Sums
  <2>3. i \in 1 .. L /\ i - 1 \in 0 .. L /\ ~(i <= i - 1)
    <3> HIDE DEF L, sum
    <3> QED BY <1>1, <2>1, <2>2
  <2>4. sum[i - 1] \in Nat
    <3> HIDE DEF L, sum
    <3> QED BY <2>1, <2>3
  <2>5. sum[i] = sum[i - 1] + variants[i].weight /\ variants[i].weight \in Nat
    BY <1>5, <2>3 DEF Sums, Weighted
  <2> HIDE DEF sum, L
  <2> QED BY <2>1, <2>4, <2>5
<1>7. sum \in [0 .. L -> Nat]
  <2> HIDE DEF sum, L
  <2> QED BY <1>4, <1>6
<1> QED BY <1>5, <1>7

LEMMA SumsGrow ==
    ASSUME NEW variants, Weighted(variants), NEW i \in 0 .. Len(variants),
           NEW j \in 0 .. Len(variants), i <= j
    PROVE  Cumulative(variants)[i] <= Cumulative(variants)[j]
<1> DEFINE L == Len(variants)
           sum == Cumulative(variants)
           Bad == {n \in i .. L : ~(sum[i] <= sum[n])}
<1>1. L \in Nat /\ sum \in [0 .. L -> Nat] /\ Sums(sum, L, variants)
  BY CumulativeDef DEF Weighted
<1> HIDE DEF sum
<1> SUFFICES ASSUME Bad # {} PROVE FALSE
  BY <1>1 DEF sum
<1>2. PICK n \in Bad : \A k \in Bad : n <= k
  <2>1. Bad \subseteq Nat
    BY <1>1
  <2> HIDE DEF Bad
  <2> QED BY <2>1, LeastIndex
<1>3. n # i
  BY <1>1, <1>2
<1>4. n \in 1 .. L /\ n - 1 \in i .. L /\ ~(n <= n - 1)
  <2> HIDE DEF L
  <2> QED BY <1>1, <1>2, <1>3 DEF L
<1>5. sum[i] <= sum[n - 1]
  BY <1>2, <1>4
<1>6. sum[n] = sum[n - 1] + variants[n].weight /\ variants[n].weight \in Nat
  BY <1>1, <1>4 DEF Sums, Weighted
<1>7. sum[i] \in Nat /\ sum[n] \in Nat /\ sum[n - 1] \in Nat
  BY <1>1, <1>4
<1> QED BY <1>2, <1>5, <1>6, <1>7

\* A hash falls below the total, and the remainder and the scaling alike.
LEMMA BucketType ==
    ASSUME NEW total \in Nat \ {0}, NEW h \in 0 .. Hashes - 1
    PROVE  Bucket(total, h) \in 0 .. total - 1
<1>1. Hashes \in Nat \ {0} /\ h \in Nat /\ h <= Hashes - 1
  BY HashesAssumption
<1>2. h % total \in 0 .. total - 1
  BY <1>1
<1>3. (h * total) \div Hashes \in 0 .. total - 1
  <2> DEFINE q == (h * total) \div Hashes
  <2>1. h * total \in Nat
    BY <1>1
  <2>2. q \in Nat /\ q * Hashes <= h * total
    BY <1>1, <2>1
  <2>3. h * total <= (Hashes - 1) * total
    BY <1>1
  <2>4. (Hashes - 1) * total < Hashes * total
    BY <1>1
  <2>5. q * Hashes < total * Hashes
    BY <1>1, <2>1, <2>2, <2>3, <2>4
  <2>6. q < total
    BY <1>1, <2>2, <2>5
  <2> QED BY <2>2, <2>6
<1> QED BY <1>2, <1>3 DEF Bucket

\* pick_weighted_variant: every hash falls into the interval of exactly one
\* variant, which has a weight, whatever the weights add up to.
THEOREM EveryHashPicks ==
    ASSUME NEW variants, Weighted(variants), Cumulative(variants)[Len(variants)] > 0,
           NEW h \in 0 .. Hashes - 1
    PROVE  LET sum == Cumulative(variants)
               bucket == Bucket(sum[Len(variants)], h)
               i == Picked(variants, h)
           IN  /\ i \in 1 .. Len(variants) /\ variants[i].weight > 0
               /\ \A j \in 1 .. Len(variants) :
                     sum[j - 1] <= bucket /\ bucket < sum[j] <=> j = i
<1> DEFINE L == Len(variants)
           sum == Cumulative(variants)
           total == sum[L]
           bucket == Bucket(total, h)
           In(j) == sum[j - 1] <= bucket /\ bucket < sum[j]
<1>1. L \in Nat /\ sum \in [0 .. L -> Nat] /\ Sums(sum, L, variants)
  BY CumulativeDef DEF Weighted
<1>2. total \in Nat \ {0} /\ total # 0
  BY <1>1
<1>3. bucket \in 0 .. total - 1
  <2> HIDE DEF total
  <2> QED BY <1>2, BucketType
<1>4. \E j \in 1 .. L : In(j)
  <2> DEFINE Above == {j \in 0 .. L : bucket < sum[j]}
  <2>1. L \in Above
    <3> HIDE DEF L, sum, bucket
    <3> QED BY <1>1, <1>2, <1>3
  <2>2. PICK j \in Above : \A k \in Above : j <= k
    <3>1. Above \subseteq Nat
      BY <1>1
    <3> HIDE DEF Above
    <3> QED BY <2>1, <3>1, LeastIndex
  <2>3. j # 0
    <3>1. sum[0] = 0
      BY <1>1 DEF Sums
    <3> HIDE DEF sum, bucket, total
    <3> QED BY <1>2, <1>3, <2>2, <3>1
  <2>4. j \in 1 .. L /\ j - 1 \in 0 .. L /\ ~(j <= j - 1)
    <3> HIDE DEF L, sum, bucket
    <3> QED BY <1>1, <2>2, <2>3
  <2>5. ~(bucket < sum[j - 1])
    BY <2>2, <2>4
  <2>6. sum[j - 1] \in Nat /\ bucket \in Nat /\ bucket < sum[j]
    <3> HIDE DEF sum, bucket, total
    <3> QED BY <1>1, <1>2, <1>3, <2>2, <2>4
  <2>7. In(j)
    <3> HIDE DEF sum, bucket
    <3> QED BY <2>5, <2>6
  <2> QED BY <2>4, <2>7
<1>5. ASSUME NEW j \in 1 .. L, NEW k \in 1 .. L, In(j), In(k), j < k
      PROVE  FALSE
  <2>1. k - 1 \in 0 .. L /\ j \in 0 .. L /\ j <= k - 1
    <3> HIDE DEF L, In
    <3> QED BY <1>1, <1>5
  <2>2. sum[j] <= sum[k - 1]
    BY <2>1, SumsGrow
  <2>3. bucket \in Nat /\ sum[j] \in Nat /\ sum[k - 1] \in Nat
    <3> HIDE DEF sum, bucket, total, L
    <3> QED BY <1>1, <1>2, <1>3, <2>1
  <2> HIDE DEF sum, bucket
  <2> QED BY <1>5, <2>2, <2>3
<1>6. ASSUME NEW j \in 1 .. L, NEW k \in 1 .. L, In(j), In(k)
      PROVE  j = k
  <2>1. j \in Int /\ k \in Int
    OBVIOUS
  <2>2. ~(j < k) /\ ~(k < j)
    <3> HIDE DEF In, L
    <3> QED BY <1>5, <1>6
  <2> QED BY <2>1, <2>2
<1> DEFINE i == Picked(variants, h)
<1>7. i = CHOOSE j \in 1 .. L : In(j)
  BY <1>2, Zenon DEF Picked
<1>8. i \in 1 .. L /\ In(i)
  <2> HIDE DEF i, In, L
  <2> QED BY <1>4, <1>7, Zenon
<1>9. variants[i].weight > 0
  <2>1. sum[i] = sum[i - 1] + variants[i].weight /\ variants[i].weight \in Nat
    BY <1>1, <1>8 DEF Sums, Weighted
  <2>2. sum[i - 1] \in Nat /\ bucket \in Nat
    <3>1. i - 1 \in 0 .. L
      <4> HIDE DEF i, L, In
      <4> QED BY <1>1, <1>8
    <3> HIDE DEF sum, bucket, total, L, i
    <3> QED BY <1>1, <1>2, <1>3, <3>1
  <2> HIDE DEF sum, bucket, i
  <2> QED BY <1>8, <2>1, <2>2
<1>10. \A j \in 1 .. L : In(j) <=> j = i
  <2> HIDE DEF In, i, L
  <2> QED BY <1>6, <1>8
<1> QED BY <1>8, <1>9, <1>10

-----------------------------------------------------------------------------
\* Products and quotients, as far as the solver needs help.
LEMMA Scale ==
    ASSUME NEW a \in Int, NEW b \in Int, NEW n \in Nat \ {0}
    PROVE  /\ a <= b <=> a * n <= b * n
           /\ a < b <=> a * n < b * n
           /\ (a + 1) * n = a * n + n /\ (a - 1) * n = a * n - n /\ (a - b) * n = a * n - b * n
           /\ a * n \in Int
<1>1. /\ (a + 1) * n = a * n + n /\ (a - 1) * n = a * n - n /\ (a - b) * n = a * n - b * n
      /\ a * n \in Int
  OBVIOUS
<1>2. a <= b => a * n <= b * n
  OBVIOUS
<1>3. a < b => a * n < b * n
  OBVIOUS
<1>4. b <= a => b * n <= a * n
  OBVIOUS
<1>5. b < a => b * n < a * n
  OBVIOUS
<1>6. b * n \in Int
  OBVIOUS
<1> QED BY <1>1, <1>2, <1>3, <1>4, <1>5, <1>6

LEMMA Quotient ==
    ASSUME NEW a \in Nat, NEW n \in Nat \ {0}
    PROVE  /\ a \div n \in Nat /\ a % n \in 0 .. n - 1
           /\ a = (a \div n) * n + (a % n)
           /\ (a \div n) * n <= a /\ a < (a \div n) * n + n
<1>1. a \div n \in Nat /\ a % n \in 0 .. n - 1
  OBVIOUS
<1>2. a = n * (a \div n) + (a % n)
  OBVIOUS
<1>3. n * (a \div n) = (a \div n) * n /\ (a \div n) * n \in Nat
  BY <1>1
<1> DEFINE q == a \div n
           r == a % n
           p == q * n
<1>4. a = p + r /\ p \in Nat /\ r \in 0 .. n - 1
  BY <1>1, <1>2, <1>3
<1>5. p <= a /\ a < p + n
  <2> HIDE DEF p, r, q
  <2> QED BY <1>4
<1> QED BY <1>1, <1>4, <1>5

LEMMA Remainder ==
    ASSUME NEW n \in Nat \ {0}, NEW k \in Nat, NEW r \in 0 .. n - 1
    PROVE  (k * n + r) % n = r
<1> DEFINE a == k * n + r
           q == a \div n
           s == a % n
<1>1. a \in Nat
  OBVIOUS
<1>2. q \in Nat /\ s \in 0 .. n - 1 /\ a = q * n + s
  BY <1>1, Quotient
<1>3. k * n \in Int /\ q * n \in Int /\ k * n + r = q * n + s
  BY <1>2, Scale
<1>4. ~(k < q)
  <2> SUFFICES ASSUME k < q PROVE FALSE
    OBVIOUS
  <2>1. k + 1 <= q /\ k + 1 \in Int /\ q \in Int /\ k \in Int
    BY <1>2
  <2>2. (k + 1) * n <= q * n /\ (k + 1) * n = k * n + n
    <3> HIDE DEF q
    <3> QED BY <2>1, Scale
  <2> DEFINE x == k * n
             y == q * n
  <2>3. x \in Int /\ y \in Int /\ x + r = y + s /\ x + n <= y
    BY <1>3, <2>2
  <2> HIDE DEF x, y, s
  <2> QED BY <1>2, <2>3
<1>5. ~(q < k)
  <2> SUFFICES ASSUME q < k PROVE FALSE
    OBVIOUS
  <2>1. q + 1 <= k /\ q + 1 \in Int /\ q \in Int /\ k \in Int
    BY <1>2
  <2>2. (q + 1) * n <= k * n /\ (q + 1) * n = q * n + n
    <3> HIDE DEF q
    <3> QED BY <2>1, Scale
  <2> DEFINE x == k * n
             y == q * n
  <2>3. x \in Int /\ y \in Int /\ x + r = y + s /\ y + n <= x
    BY <1>3, <2>2
  <2> HIDE DEF x, y, s
  <2> QED BY <1>2, <2>3
<1>6. q = k
  <2> HIDE DEF q
  <2> QED BY <1>2, <1>4, <1>5
<1> DEFINE x == k * n
<1>7. x \in Int /\ x + r = x + s
  BY <1>3, <1>6
<1> HIDE DEF x, s
<1> QED BY <1>2, <1>7 DEF s

-----------------------------------------------------------------------------
\* Numbers below n whose remainder falls between lo and hi.
Hits(lo, hi, total, n) == {h \in 0 .. n - 1 : lo <= h % total /\ h % total < hi}

LEMMA HitsFinite ==
    ASSUME NEW lo, NEW hi, NEW total, NEW n \in Nat, NEW m \in Nat, m <= n
    PROVE  /\ IsFiniteSet(Hits(lo, hi, total, n))
           /\ Hits(lo, hi, total, m) \subseteq Hits(lo, hi, total, n)
           /\ Cardinality(Hits(lo, hi, total, n)) \in Nat
           /\ Cardinality(Hits(lo, hi, total, m)) <= Cardinality(Hits(lo, hi, total, n))
<1>1. IsFiniteSet(0 .. n - 1)
  BY FS_Interval
<1>2. Hits(lo, hi, total, n) \subseteq 0 .. n - 1
  BY DEF Hits
<1>3. Hits(lo, hi, total, m) \subseteq Hits(lo, hi, total, n)
  BY DEF Hits
<1>4. IsFiniteSet(Hits(lo, hi, total, n))
  BY <1>1, <1>2, FS_Subset
<1> QED BY <1>3, <1>4, FS_Subset, FS_CardinalityType

\* Each round of the remainder has as many as the interval is wide.
LEMMA Rounds ==
    ASSUME NEW total \in Nat \ {0}, NEW lo \in 0 .. total, NEW hi \in lo .. total, NEW k \in Nat
    PROVE  Cardinality(Hits(lo, hi, total, k * total)) = k * (hi - lo)
<1> DEFINE H(j) == Hits(lo, hi, total, j * total)
           w == hi - lo
           Good(j) == Cardinality(H(j)) = j * w
           Bad == {j \in Nat : ~Good(j)}
<1>w. w \in Nat /\ lo \in Nat /\ hi \in Nat /\ total \in Nat /\ hi <= total /\ lo + w = hi
  OBVIOUS
<1> SUFFICES ASSUME Bad # {} PROVE FALSE
  OBVIOUS
<1>1. PICK j \in Bad : \A i \in Bad : j <= i
  <2>1. Bad \subseteq Nat
    OBVIOUS
  <2> HIDE DEF Bad
  <2> QED BY <2>1, LeastIndex
<1>2. Good(0)
  <2>1. H(0) = {}
    <3>1. 0 * total = 0
      OBVIOUS
    <3> QED BY <3>1 DEF Hits
  <2>2. 0 * w = 0
    BY <1>w
  <2> QED BY <2>1, <2>2, FS_EmptySet
<1>3. ASSUME NEW i \in Nat, Good(i)
      PROVE  Good(i + 1)
  <2> DEFINE x == i * total
             New == (x + lo) .. (x + hi - 1)
  <2>1. x \in Nat /\ (i + 1) * total = x + total
    OBVIOUS
  <2>2. \A h \in x .. x + total - 1 : h % total = h - x
    <3> TAKE h \in x .. x + total - 1
    <3> DEFINE r == h - x
    <3>1. r \in 0 .. total - 1 /\ x + r = h
      <4> HIDE DEF x
      <4> QED BY <1>w, <2>1
    <3>2. (i * total + r) % total = r
      <4> HIDE DEF r
      <4> QED BY <3>1, Remainder
    <3> QED BY <3>1, <3>2
  <2> HIDE DEF x
  <2>3. New \subseteq x .. x + total - 1 /\ New \cap 0 .. x - 1 = {}
    BY <1>w, <2>1
  <2>4. \A h \in x .. x + total - 1 : h \in New <=> lo <= h % total /\ h % total < hi
    <3> TAKE h \in x .. x + total - 1
    <3>1. h % total = h - x
      BY <2>2
    <3>2. h \in New <=> lo <= h - x /\ h - x < hi
      BY <1>w, <2>1
    <3> QED BY <3>1, <3>2
  <2>5. Hits(lo, hi, total, x + total) = Hits(lo, hi, total, x) \cup New
    <3>1. 0 .. (x + total) - 1 = (0 .. x - 1) \cup (x .. x + total - 1)
      BY <1>w, <2>1
    <3> HIDE DEF New
    <3> QED BY <2>3, <2>4, <3>1 DEF Hits
  <2>6. Hits(lo, hi, total, x) \cap New = {}
    <3> HIDE DEF New
    <3> QED BY <2>3 DEF Hits
  <2>7. IsFiniteSet(New) /\ Cardinality(New) = w
    <3> DEFINE a == x + lo
               b == x + hi - 1
    <3>1. a \in Int /\ b \in Int /\ (IF a > b THEN 0 ELSE b - a + 1) = w
      BY <1>w, <2>1
    <3> HIDE DEF a, b, w
    <3> QED BY <3>1, FS_Interval DEF a, b
  <2>8. IsFiniteSet(Hits(lo, hi, total, x)) /\ Cardinality(Hits(lo, hi, total, x)) \in Nat
    BY <2>1, HitsFinite
  <2>9. Cardinality(Hits(lo, hi, total, x + total))
          = Cardinality(Hits(lo, hi, total, x)) + w
    <3> DEFINE A == Hits(lo, hi, total, x)
    <3>1. Cardinality(A \cup New) = Cardinality(A) + Cardinality(New) - Cardinality(A \cap New)
      <4> HIDE DEF A, New
      <4> QED BY <2>7, <2>8, FS_Union DEF A
    <3>2. Cardinality(A \cap New) = 0
      BY <2>6, FS_EmptySet
    <3> DEFINE c == Cardinality(A)
    <3> HIDE DEF New, w
    <3>3. Cardinality(A \cup New) = c + w - 0
      BY <3>1, <3>2, <2>7
    <3>4. c \in Nat
      BY <2>8
    <3> HIDE DEF c
    <3>5. c + w - 0 = c + w
      BY <1>w, <3>4
    <3> QED BY <2>5, <3>3, <3>5 DEF c
  <2>10. (i + 1) * w = i * w + w
    <3> HIDE DEF w
    <3> QED BY <1>w
  <2>11. Cardinality(Hits(lo, hi, total, x)) = i * w
    BY <1>3 DEF x
  <2> QED BY <2>1, <2>9, <2>10, <2>11
<1>4. j - 1 \in Nat /\ Good(j - 1) /\ (j - 1) + 1 = j
  <2> HIDE DEF Good
  <2> QED BY <1>1, <1>2
<1>5. Good((j - 1) + 1)
  <2> HIDE DEF Good
  <2> QED BY <1>3, <1>4
<1> QED BY <1>1, <1>4, <1>5

\* Among n numbers there are whole rounds, and a part of one.
LEMMA ShareOfRounds ==
    ASSUME NEW total \in Nat \ {0}, NEW lo \in 0 .. total, NEW hi \in lo .. total, NEW n \in Nat
    PROVE  LET count == Cardinality(Hits(lo, hi, total, n)) IN
           /\ count >= (hi - lo) * (n \div total)
           /\ count <= (hi - lo) * (n \div total + 1)
<1> DEFINE q == n \div total
           w == hi - lo
           C(m) == Cardinality(Hits(lo, hi, total, m))
<1>1. q \in Nat /\ q * total <= n /\ n < q * total + total
  BY Quotient
<1>2. (q + 1) * total = q * total + total /\ q * total \in Nat /\ (q + 1) * total \in Nat
  <2> HIDE DEF q
  <2> QED BY <1>1
<1>3. C(q * total) <= C(n) /\ C(n) <= C((q + 1) * total)
  <2>1. n <= (q + 1) * total
    <3> DEFINE x == q * total
    <3>1. n < x + total /\ x \in Nat /\ (q + 1) * total = x + total
      BY <1>1, <1>2
    <3> HIDE DEF x
    <3> QED BY <3>1
  <2> HIDE DEF q
  <2> QED BY <1>1, <1>2, <2>1, HitsFinite
<1>4. C(q * total) = q * w /\ C((q + 1) * total) = (q + 1) * w
  <2>1. q + 1 \in Nat
    BY <1>1
  <2> HIDE DEF q
  <2> QED BY <1>1, <2>1, Rounds
<1>5. q * w = w * q /\ (q + 1) * w = w * (q + 1) /\ w \in Nat
  <2>1. w \in Nat
    OBVIOUS
  <2> HIDE DEF q, w
  <2> QED BY <1>1, <2>1
<1> HIDE DEF q, w, C
<1>6. C(n) >= w * q /\ C(n) <= w * (q + 1)
  <2>1. C(n) \in Nat
    BY HitsFinite DEF C
  <2> QED BY <1>3, <1>4, <1>5, <1>1, <2>1
<1> QED BY <1>6 DEF q, w, C

-----------------------------------------------------------------------------
\* The first multiple of n that is not below x.
LEMMA Ceiling ==
    ASSUME NEW x \in Nat, NEW n \in Nat \ {0}
    PROVE  \E a \in Nat : x <= a * n /\ a * n < x + n
<1> DEFINE q == x \div n
           p == q * n
<1>1. q \in Nat /\ p <= x /\ x < p + n
  BY Quotient
<1>2. p \in Nat /\ (q + 1) * n = p + n
  <2> HIDE DEF q
  <2> QED BY <1>1, Scale
<1>3. CASE p = x
  <2> HIDE DEF q
  <2>1. x <= q * n /\ q * n < x + n
    BY <1>3
  <2> QED BY <1>1, <2>1
<1>4. CASE p # x
  <2>1. x <= p + n /\ p + n < x + n
    <3> HIDE DEF p
    <3> QED BY <1>1, <1>2, <1>4
  <2>2. q + 1 \in Nat
    BY <1>1
  <2> HIDE DEF q, p
  <2> QED BY <1>2, <2>1, <2>2
<1> QED BY <1>3, <1>4

\* A quotient against a bound.
LEMMA QuotientBelow ==
    ASSUME NEW x \in Nat, NEW n \in Nat \ {0}, NEW b \in Nat
    PROVE  x \div n < b <=> x < b * n
<1> DEFINE q == x \div n
           p == q * n
           r == b * n
<1>1. q \in Nat /\ p <= x /\ x < p + n
  BY Quotient
<1>2. p \in Int /\ r \in Int /\ (q + 1) * n = p + n
  <2> HIDE DEF q
  <2> QED BY <1>1, Scale
<1>3. q < b => x < r
  <2> SUFFICES ASSUME q < b PROVE x < r
    OBVIOUS
  <2>1. q + 1 <= b /\ q + 1 \in Int /\ b \in Int
    <3> HIDE DEF q
    <3> QED BY <1>1
  <2>2. (q + 1) * n <= r
    <3> HIDE DEF q
    <3> QED BY <2>1, Scale
  <2> HIDE DEF p, q, r
  <2> QED BY <1>1, <1>2, <2>2
<1>4. ~(q < b) => ~(x < r)
  <2> SUFFICES ASSUME ~(q < b) PROVE ~(x < r)
    OBVIOUS
  <2>1. b <= q /\ q \in Int /\ b \in Int
    <3> HIDE DEF q
    <3> QED BY <1>1
  <2>2. r <= p
    <3> HIDE DEF q
    <3> QED BY <2>1, Scale
  <2> HIDE DEF p, q, r
  <2> QED BY <1>1, <1>2, <2>2
<1> QED BY <1>3, <1>4

\* Hashes whose scaling to the total falls between lo and hi: their share of the
\* hashes, up to one more or less.
LEMMA ShareOfScaled ==
    ASSUME NEW total \in Nat \ {0}, NEW n \in Nat \ {0}, n <= total,
           NEW lo \in 0 .. total, NEW hi \in lo .. total
    PROVE  LET count == Cardinality({h \in 0 .. n - 1 :
                                        lo <= (h * total) \div n /\ (h * total) \div n < hi})
           IN  /\ count * total < (hi - lo) * n + total
               /\ count * total > (hi - lo) * n - total
<1> DEFINE x == lo * n
           y == hi * n
           S == {h \in 0 .. n - 1 : lo <= (h * total) \div n /\ (h * total) \div n < hi}
<1>0. lo \in Nat /\ hi \in Nat /\ lo <= hi /\ hi <= total /\ total \in Nat /\ n \in Nat
  OBVIOUS
<1>1. x \in Nat /\ y \in Nat /\ x <= y /\ (hi - lo) * n = y - x
  <2>1. x \in Nat /\ y \in Nat
    BY <1>0
  <2>2. x <= y /\ (hi - lo) * n = y - x
    BY <1>0, Scale
  <2> QED BY <2>1, <2>2
<1>2. PICK a \in Nat : x <= a * total /\ a * total < x + total
  <2> HIDE DEF x
  <2> QED BY <1>1, Ceiling
<1>3. PICK b \in Nat : y <= b * total /\ b * total < y + total
  <2> HIDE DEF y
  <2> QED BY <1>1, Ceiling
<1> DEFINE at == a * total
           bt == b * total
<1>4. at \in Nat /\ bt \in Nat /\ x <= at /\ at < x + total /\ y <= bt /\ bt < y + total
  <2>1. at \in Nat /\ bt \in Nat
    OBVIOUS
  <2> QED BY <1>2, <1>3, <2>1
<1>5. \A h \in Nat : /\ h < a <=> h * total < x
                     /\ h < b <=> h * total < y
  <2> TAKE h \in Nat
  <2> DEFINE ht == h * total
  <2>1. ht \in Nat /\ (h + 1) * total = ht + total
    OBVIOUS
  <2>2. ASSUME NEW c \in Nat
        PROVE  /\ h < c => ht + total <= c * total
               /\ ~(h < c) => c * total <= ht
    <3>1. h < c => (h + 1) <= c
      OBVIOUS
    <3>2. h + 1 \in Int /\ c \in Int /\ h \in Int /\ (~(h < c) => c <= h)
      OBVIOUS
    <3>3. (h + 1) <= c => (h + 1) * total <= c * total
      BY <3>2, Scale
    <3>4. c <= h => c * total <= h * total
      BY <3>2, Scale
    <3> QED BY <2>1, <3>1, <3>2, <3>3, <3>4
  <2>3. /\ h < a => ht + total <= at
        /\ ~(h < a) => at <= ht
        /\ h < b => ht + total <= bt
        /\ ~(h < b) => bt <= ht
    BY <2>2
  <2> HIDE DEF at, bt, ht, x, y
  <2>4. (h < a <=> ht < x) /\ (h < b <=> ht < y)
    BY <1>0, <1>1, <1>4, <2>1, <2>3
  <2> QED BY <2>4 DEF ht
<1>6. \A h \in 0 .. n - 1 : h \in S <=> a <= h /\ h < b
  <2> TAKE h \in 0 .. n - 1
  <2> DEFINE ht == h * total
  <2>1. h \in Nat /\ ht \in Nat
    BY <1>0
  <2>2. /\ ht \div n < lo <=> ht < x
        /\ ht \div n < hi <=> ht < y
    <3> HIDE DEF ht
    <3> QED BY <1>0, <2>1, QuotientBelow
  <2>3. ht \div n \in Nat
    <3> HIDE DEF ht
    <3> QED BY <2>1, Quotient
  <2>4. lo <= ht \div n <=> ~(ht \div n < lo)
    <3> DEFINE q == ht \div n
    <3> HIDE DEF q
    <3> QED BY <1>0, <2>3 DEF q
  <2>5. h \in S <=> lo <= ht \div n /\ ht \div n < hi
    OBVIOUS
  <2>6. a <= h <=> ~(h < a)
    BY <2>1
  <2> HIDE DEF S
  <2> QED BY <1>5, <2>1, <2>2, <2>4, <2>5, <2>6
<1>7. b <= n
  <2>1. y <= n * total
    <3>1. hi * n <= total * n
      BY <1>0, Scale
    <3> QED BY <3>1
  <2>2. ~(n * total < y)
    <3>1. n * total \in Int
      OBVIOUS
    <3> HIDE DEF y
    <3> QED BY <1>1, <2>1, <3>1
  <2>3. ~(n < b)
    <3> HIDE DEF y, x
    <3> QED BY <1>0, <1>5, <2>2
  <2> QED BY <1>0, <2>3
<1>8. a <= b
  <2> SUFFICES ASSUME b < a PROVE FALSE
    OBVIOUS
  <2>1. bt < x
    <3> HIDE DEF x, y
    <3> QED BY <1>5, <2>1
  <2> HIDE DEF x, y, bt
  <2> QED BY <1>1, <1>4, <2>1
<1>9. S = a .. b - 1
  <2>1. S \subseteq 0 .. n - 1
    OBVIOUS
  <2>2. \A h \in a .. b - 1 : h \in 0 .. n - 1 /\ a <= h /\ h < b
    BY <1>0, <1>7
  <2>3. \A h \in 0 .. n - 1 : a <= h /\ h < b => h \in a .. b - 1
    BY <1>0, <1>7
  <2> HIDE DEF S
  <2> QED BY <1>6, <2>1, <2>2, <2>3
<1>10. Cardinality(S) = b - a
  <2>1. a \in Int /\ b - 1 \in Int /\ (IF a > b - 1 THEN 0 ELSE (b - 1) - a + 1) = b - a
    BY <1>8
  <2>2. Cardinality(a .. b - 1) = IF a > b - 1 THEN 0 ELSE (b - 1) - a + 1
    BY <2>1, FS_Interval
  <2> HIDE DEF S
  <2> QED BY <1>9, <2>1, <2>2
<1>11. (b - a) * total = bt - at
  BY Scale
<1>12. (b - a) * total < (hi - lo) * n + total /\ (b - a) * total > (hi - lo) * n - total
  <2> HIDE DEF x, y, at, bt
  <2>1. bt - at < (y - x) + total /\ bt - at > (y - x) - total
    BY <1>0, <1>1, <1>4
  <2> QED BY <1>1, <1>11, <2>1
<1> QED BY <1>10, <1>12

\* A variant has its share of all hashes, whichever way the total is reached.
LEMMA SharesAreFair ==
    ASSUME NEW variants, Weighted(variants), Cumulative(variants)[Len(variants)] > 0,
           NEW i \in 1 .. Len(variants)
    PROVE  LET total == Cumulative(variants)[Len(variants)]
               count == Cardinality({h \in 0 .. Hashes - 1 : Picked(variants, h) = i})
           IN  IF total < Hashes
               THEN /\ count >= variants[i].weight * (Hashes \div total)
                    /\ count <= variants[i].weight * (Hashes \div total + 1)
               ELSE /\ count * total < variants[i].weight * Hashes + total
                    /\ count * total > variants[i].weight * Hashes - total
<1> DEFINE L == Len(variants)
           sum == Cumulative(variants)
           total == sum[L]
           lo == sum[i - 1]
           hi == sum[i]
           w == variants[i].weight
           Mine == {h \in 0 .. Hashes - 1 : Picked(variants, h) = i}
<1>1. L \in Nat /\ sum \in [0 .. L -> Nat] /\ Sums(sum, L, variants)
  BY CumulativeDef DEF Weighted
<1>2. total \in Nat \ {0}
  BY <1>1
<1>3. i - 1 \in 0 .. L /\ i \in 0 .. L /\ L \in 0 .. L /\ i - 1 <= i /\ i <= L
  <2> HIDE DEF L
  <2> QED BY <1>1 DEF L
<1>4. lo <= hi /\ hi <= total
  BY <1>3, SumsGrow
<1>5. lo \in Nat /\ hi \in Nat /\ w \in Nat /\ hi = lo + w
  BY <1>1, <1>3 DEF Sums, Weighted
<1>6. lo \in 0 .. total /\ hi \in lo .. total /\ hi - lo = w
  <2> HIDE DEF lo, hi, total, w
  <2> QED BY <1>2, <1>4, <1>5
<1>7. Mine = {h \in 0 .. Hashes - 1 : lo <= Bucket(total, h) /\ Bucket(total, h) < hi}
  <2> SUFFICES ASSUME NEW h \in 0 .. Hashes - 1
               PROVE  Picked(variants, h) = i <=> lo <= Bucket(total, h) /\ Bucket(total, h) < hi
    OBVIOUS
  <2> QED BY EveryHashPicks
<1>8. Hashes \in Nat \ {0}
  BY HashesAssumption
<1>9. CASE total < Hashes
  <2>1. Mine = Hits(lo, hi, total, Hashes)
    <3> HIDE DEF Mine, lo, hi, total
    <3> QED BY <1>7, <1>9 DEF Bucket, Hits
  <2>2. /\ Cardinality(Hits(lo, hi, total, Hashes)) >= (hi - lo) * (Hashes \div total)
        /\ Cardinality(Hits(lo, hi, total, Hashes)) <= (hi - lo) * (Hashes \div total + 1)
    <3> HIDE DEF lo, hi, total
    <3> QED BY <1>2, <1>6, <1>8, ShareOfRounds
  <2> HIDE DEF Mine, lo, hi, w
  <2> QED BY <1>6, <1>9, <2>1, <2>2 DEF Mine, w
<1>10. CASE ~(total < Hashes)
  <2>1. Mine = {h \in 0 .. Hashes - 1 : /\ lo <= (h * total) \div Hashes
                                       /\ (h * total) \div Hashes < hi}
    <3> HIDE DEF Mine, lo, hi, total
    <3> QED BY <1>7, <1>10 DEF Bucket
  <2>2. /\ Cardinality(Mine) * total < (hi - lo) * Hashes + total
        /\ Cardinality(Mine) * total > (hi - lo) * Hashes - total
    <3>1. Hashes <= total
      <4> HIDE DEF total
      <4> QED BY <1>2, <1>8, <1>10
    <3> HIDE DEF Mine, lo, hi, total
    <3> QED BY <1>2, <1>6, <1>8, <2>1, <3>1, ShareOfScaled
  <2> HIDE DEF Mine, lo, hi, w
  <2> QED BY <1>6, <1>10, <2>2 DEF Mine, w
<1> QED BY <1>9, <1>10

LEMMA ProportionHolds == StoreInv => InProportion
<1> SUFFICES ASSUME StoreInv, NEW k \in Keys, store[k] # Absent, store[k].variants # <<>>,
                    Cumulative(store[k].variants)[Len(store[k].variants)] > 0,
                    NEW i \in 1 .. Len(store[k].variants)
             PROVE  LET variants == store[k].variants
                        total == Cumulative(variants)[Len(variants)]
                        count == Cardinality({h \in 0 .. Hashes - 1 : Picked(variants, h) = i})
                    IN  IF total < Hashes
                        THEN /\ count >= variants[i].weight * (Hashes \div total)
                             /\ count <= variants[i].weight * (Hashes \div total + 1)
                        ELSE /\ count * total < variants[i].weight * Hashes + total
                             /\ count * total > variants[i].weight * Hashes - total
  BY Zenon DEF InProportion
<1>1. store[k] \in Catalog
  BY DEF StoreInv, Stores, Storable, Positional
<1>2. Weighted(store[k].variants)
  BY <1>1, CatalogAssumption DEF Weighted
<1> DEFINE variants == store[k].variants
<1> HIDE DEF variants
<1> QED BY <1>2, SharesAreFair DEF variants

\* A variant that the store holds is given out in proportion to its weight, for
\* any number of hashes and any weights (pick_weighted_variant).
THEOREM VariantsGetTheirShare == StoreSpec => []InProportion
<1>1. StoreSpec => []StoreInv
  BY StoreInvInit, StoreInvNext, PTL DEF StoreSpec
<1> QED BY <1>1, ProportionHolds, PTL

-----------------------------------------------------------------------------
(***************************************************************************)
(* Rollouts: how many they reach, and who stays when they are raised.      *)
(***************************************************************************)

\* The rollout of a flag that the store holds, if it has one, is a number.
LEMMA RolloutType ==
    ASSUME NEW f \in Storable, f.rollout # None
    PROVE  f.rollout \in Nat
<1>1. CASE f \in Catalog
  BY <1>1, CatalogAssumption
<1>2. CASE f \notin Catalog
  <2>1. PICK g \in Catalog :
           f = Positional(g.key, g.enabled, IF g.rollout = None THEN -1 ELSE g.rollout, g.rules)
    BY <1>2 DEF Storable
  <2>2. g.rollout \in Nat \cup {None}
    BY CatalogAssumption
  <2> QED BY <2>1, <2>2 DEF Positional
<1> QED BY <1>1, <1>2

\* Of all hashes there are the whole hundreds, each reached in equal parts, and a
\* part of one; from 100 on every hash is reached.
LEMMA ReachOfRollout ==
    ASSUME NEW r \in Nat
    PROVE  LET count == Cardinality({h \in 0 .. Hashes - 1 : h % 100 < r}) IN
           IF r > 100 THEN count = Hashes
           ELSE /\ count >= r * (Hashes \div 100)
                /\ count <= r * (Hashes \div 100 + 1)
                /\ r = 100 => count = Hashes
<1> DEFINE Reached == {h \in 0 .. Hashes - 1 : h % 100 < r}
<1>1. Hashes \in Nat \ {0}
  BY HashesAssumption
<1>2. \A h \in 0 .. Hashes - 1 : h % 100 \in 0 .. 99
  BY <1>1
<1>3. ASSUME r >= 100 PROVE Cardinality(Reached) = Hashes
  <2>1. Reached = 0 .. Hashes - 1
    BY <1>2, <1>3
  <2>2. Cardinality(0 .. Hashes - 1) = Hashes
    BY <1>1, FS_Interval
  <2> HIDE DEF Reached
  <2> QED BY <2>1, <2>2
<1>4. ASSUME r <= 100
      PROVE  /\ Cardinality(Reached) >= r * (Hashes \div 100)
             /\ Cardinality(Reached) <= r * (Hashes \div 100 + 1)
  <2>1. Reached = Hits(0, r, 100, Hashes)
    <3>1. \A h \in 0 .. Hashes - 1 : 0 <= h % 100
      BY <1>2
    <3>2. \A h \in 0 .. Hashes - 1 : h \in Hits(0, r, 100, Hashes) <=> h % 100 < r
      BY <3>1, Zenon DEF Hits
    <3>3. Hits(0, r, 100, Hashes) \subseteq 0 .. Hashes - 1
      BY Zenon DEF Hits
    <3> QED BY <3>2, <3>3, Zenon
  <2>2. 100 \in Nat \ {0} /\ 0 \in 0 .. 100 /\ r \in 0 .. 100 /\ r - 0 = r
    BY <1>4
  <2>3. /\ Cardinality(Hits(0, r, 100, Hashes)) >= (r - 0) * (Hashes \div 100)
        /\ Cardinality(Hits(0, r, 100, Hashes)) <= (r - 0) * (Hashes \div 100 + 1)
    BY <1>1, <2>2, ShareOfRounds
  <2> HIDE DEF Reached
  <2> QED BY <2>1, <2>2, <2>3
<1> HIDE DEF Reached
<1>5. CASE r > 100
  BY <1>3, <1>5 DEF Reached
<1>6. CASE r <= 100
  <2>1. r = 100 => Cardinality(Reached) = Hashes
    BY <1>3
  <2> QED BY <1>4, <1>6, <2>1 DEF Reached
<1> QED BY <1>5, <1>6

LEMMA RolloutHolds == StoreInv => RolloutReaches
<1> SUFFICES ASSUME StoreInv, NEW k \in Keys, store[k] # Absent, store[k].rollout # None
             PROVE  LET r == store[k].rollout
                        one(h) == [x \in Keys |-> h]
                        count == Cardinality({h \in 0 .. Hashes - 1 :
                           InRollout(store[k],
                                     Context([x \in Attributes |-> None], one(h), one(h)))})
                    IN  IF r > 100 THEN count = Hashes
                        ELSE /\ count >= r * (Hashes \div 100)
                             /\ count <= r * (Hashes \div 100 + 1)
                             /\ r = 100 => count = Hashes
  BY Zenon DEF RolloutReaches
<1> DEFINE r == store[k].rollout
           one(h) == [x \in Keys |-> h]
           user(h) == Context([x \in Attributes |-> None], one(h), one(h))
<1>1. store[k] \in Storable /\ store[k].key = k
  BY DEF StoreInv, Stores
<1>2. r \in Nat
  BY <1>1, RolloutType
<1>3. \A h : InRollout(store[k], user(h)) <=> h % 100 < r
  BY <1>1 DEF InRollout, Context
<1>4. {h \in 0 .. Hashes - 1 : InRollout(store[k], user(h))} = {h \in 0 .. Hashes - 1 : h % 100 < r}
  <2> HIDE DEF user, r
  <2> QED BY <1>3
<1> HIDE DEF r
<1> QED BY <1>2, <1>4, ReachOfRollout DEF r

\* A rollout in the store reaches its part of each hundred hashes: none at 0, all
\* from 100 on, whatever the number of hashes (evaluate_variant_at_depth).
THEOREM RolloutsReachTheirPart == StoreSpec => []RolloutReaches
<1>1. StoreSpec => []StoreInv
  BY StoreInvInit, StoreInvNext, PTL DEF StoreSpec
<1> QED BY <1>1, RolloutHolds, PTL

\* Raising a rollout, or lifting it, takes nobody off: who has the flag on keeps
\* it, with the same value ("sticky", README.md).
THEOREM RampUpKeeps ==
    ASSUME NEW f, NEW g, NEW user,
           f.key = g.key, f.rules = g.rules, f.variants = g.variants,
           f.boolean = g.boolean, f.fallback = g.fallback,
           f.rollout \in Nat, f.rollout # None, user.hash[f.key] \in Nat,
           g.rollout = None \/ (g.rollout \in Nat /\ f.rollout <= g.rollout),
           OwnResult(f, user).enabled
    PROVE  OwnResult(g, user) = OwnResult(f, user)
<1> DEFINE hits == {i \in DOMAIN f.rules : RuleMatches(f.rules[i], user)}
           first == CHOOSE i \in hits : \A j \in hits : i <= j
           own(h) == IF hits # {}
                     THEN Granted(IF f.rules[first].variant # None THEN f.rules[first].variant
                                  ELSE EnabledValue(f))
                     ELSE IF ~InRollout(h, user) THEN Refused(h)
                     ELSE IF f.variants # <<>>
                     THEN Granted(f.variants[Picked(f.variants, user.pick[f.key])].value)
                     ELSE Granted(EnabledValue(f))
<1>1. EnabledValue(f) = EnabledValue(g)
  BY DEF EnabledValue
<1>2. InRollout(f, user) => InRollout(g, user)
  <2>1. user.hash[f.key] % 100 \in 0 .. 99
    OBVIOUS
  <2> QED BY <2>1 DEF InRollout
<1>3. OwnResult(f, user) = own(f)
  BY DEF OwnResult
<1>4. OwnResult(g, user) = own(g)
  BY <1>1 DEF OwnResult
<1>5. ~Refused(f).enabled
  BY DEF Refused
<1> QED BY <1>2, <1>3, <1>4, <1>5
=============================================================================
