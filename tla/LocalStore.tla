----------------------------- MODULE LocalStore -----------------------------
(***************************************************************************)
(* The flag store of an SDK and the evaluation of flags against it.  React  *)
(* Native and Flutter keep one store per process behind a C interface that  *)
(* any thread may call: an evaluation reads the flag and each flag it       *)
(* requires on its own, while other threads change the store.              *)
(***************************************************************************)
EXTENDS Evaluator, FiniteSets

CONSTANTS
    Keys,         \* keys of flags
    Absent,       \* no flag under a key
    Catalog,      \* flags that the server may send
    Attributes,   \* attributes of users
    Documents,    \* attributes that may be passed: functions on Attributes
    Malformed,    \* a document that is no JSON object of strings
    UserHashes,   \* UserHashes: hash and pick of each user there may be
    Threads,      \* threads that evaluate
    NoContext,    \* a null context handle
    MaxDepth,     \* MAX_PREREQUISITE_DEPTH (10 in the code)
    MaxWrites     \* bound: writes to the store

ASSUME DepthAssumption == MaxDepth \in Nat /\ MaxWrites \in Nat

\* The prerequisites of a flag: other flags, each perhaps with one value.
Required(flag) == {flag.prerequisites[i] : i \in DOMAIN flag.prerequisites}

ASSUME CatalogAssumption ==
    \A flag \in Catalog :
        /\ flag.prerequisites \in Seq(Required(flag))
        /\ \A p \in Required(flag) : p.key \in Keys
        /\ flag.rollout \in Nat \cup {None}
        /\ Len(flag.variants) \in Nat
        /\ \A i \in 1 .. Len(flag.variants) : flag.variants[i].weight \in Nat

VARIABLES
    store,        \* store[k]: flag under key k, or Absent
    contexts,     \* contexts[t]: context that t has made and not freed
    calls,        \* calls[t]: evaluation that t is in, or Idle
    writes        \* bound: number of writes

local == <<store, contexts, calls, writes>>

Idle == [state |-> "idle"]

\* Flags under each key, and none, since the evaluation began: for the
\* properties only.
Now == [k \in Keys |-> {store[k]}]

StoreInit ==
    /\ store \in [Keys -> Catalog \cup {Absent}]
    /\ \A k \in Keys : store[k] # Absent => store[k].key = k
    /\ contexts = [t \in Threads |-> NoContext]
    /\ calls = [t \in Threads |-> Idle]
    /\ writes = 0

-----------------------------------------------------------------------------
(***************************************************************************)
(* Writes                                                                  *)
(***************************************************************************)

\* The store becomes s, also in the sight of the evaluations under way.
Write(s) ==
    /\ writes < MaxWrites
    /\ writes' = writes + 1
    /\ store' = s
    /\ calls' = [t \in Threads |->
                   IF calls[t].state = "idle" THEN calls[t]
                   ELSE [calls[t] EXCEPT !.seen = [k \in Keys |-> @[k] \cup {s[k]}]]]
    /\ UNCHANGED contexts

UpsertV2(flag) == Write([store EXCEPT ![flag.key] = flag])

\* The positional interface knows no more than these fields; a negative
\* rollout is none.  Rules that do not parse as JSON are no rules; with JSON that
\* is no list of rules the call changes nothing, and is no step here.
Positional(key, enabled, rollout, rules) ==
    [key |-> key, enabled |-> enabled, boolean |-> TRUE, rules |-> rules,
     rollout |-> IF rollout < 0 THEN None ELSE IF rollout > 100 THEN 100 ELSE rollout,
     variants |-> <<>>, fallback |-> None, disabled |-> None, prerequisites |-> <<>>]

Upsert(key, enabled, rollout, rules) ==
    Write([store EXCEPT ![key] = Positional(key, enabled, rollout, rules)])

Delete(key) == Write([store EXCEPT ![key] = Absent])

\* The code clears shard by shard, as deletions in some order would.
ClearStore == Write([k \in Keys |-> Absent])

-----------------------------------------------------------------------------
(***************************************************************************)
(* Evaluations                                                             *)
(***************************************************************************)

\* A document that does not parse gives no attributes at all.
ParseAttributes(document) ==
    IF document = Malformed THEN [a \in Attributes |-> None] ELSE document

ContextOf(u, document) == Context(ParseAttributes(document), u.hash, u.pick)

MakeContext(t, u, document) ==
    /\ calls[t] = Idle /\ contexts[t] = NoContext
    /\ contexts' = [contexts EXCEPT ![t] = ContextOf(u, document)]
    /\ UNCHANGED <<store, calls, writes>>

FreeContext(t) ==
    /\ calls[t] = Idle
    /\ contexts' = [contexts EXCEPT ![t] = NoContext]
    /\ UNCHANGED <<store, calls, writes>>

\* A flag that is being evaluated, and the prerequisite that is next.
Frame(flag) == [flag |-> flag, next |-> 1, refused |-> FALSE]

\* The flag is looked up; without one the answer is no, or null.
Begin(t, key, user) ==
    /\ calls[t] = Idle
    /\ calls' = [calls EXCEPT ![t] =
                   IF store[key] = Absent
                   THEN [state |-> "missing", key |-> key, user |-> user, seen |-> Now]
                   ELSE [state |-> "running", key |-> key, user |-> user, seen |-> Now,
                         stack |-> <<Frame(store[key])>>]]
    /\ UNCHANGED <<store, contexts, writes>>

\* With the handle of a context; a null handle has no flag on.
IsEnabledCtx(t, key) ==
    /\ contexts[t] # NoContext
    /\ Begin(t, key, contexts[t])

\* These differ in the part of the result that they return.
IsEnabled(t, key, u, document) == Begin(t, key, ContextOf(u, document))
GetVariant(t, key, u, document) == Begin(t, key, ContextOf(u, document))
GetValue(t, key, u, document) == Begin(t, key, ContextOf(u, document))

Running(t) == calls[t].state = "running"
Top(t) == calls[t].stack[1]

\* evaluate_variant has the result of the flag on top; the flag that requires
\* it goes on with its next prerequisite, or is refused.
Return(t, result) ==
    LET c == calls[t]
        below == Tail(c.stack)
    IN
    /\ calls' = [calls EXCEPT ![t] =
          IF below = <<>>
          THEN [state |-> "answered", key |-> c.key, user |-> c.user, seen |-> c.seen,
                result |-> result]
          ELSE IF Satisfies(result, Head(below).flag.prerequisites[Head(below).next])
          THEN [c EXCEPT !.stack = [below EXCEPT ![1].next = @ + 1]]
          ELSE [c EXCEPT !.stack = [below EXCEPT ![1].refused = TRUE]]]
    /\ UNCHANGED <<store, contexts, writes>>

\* Mutant of TooDeep: one prerequisite fewer.
TooDeepEarly(t) ==
    Top(t).flag.prerequisites # <<>> /\ Len(calls[t].stack) > MaxDepth - 1

\* Mutant of TooDeep: one prerequisite more.
TooDeepLate(t) ==
    Top(t).flag.prerequisites # <<>> /\ Len(calls[t].stack) > MaxDepth + 1

\* Prerequisites at the largest depth are not looked at.
TooDeep(t) ==
    Top(t).flag.prerequisites # <<>> /\ Len(calls[t].stack) > MaxDepth

Refuse(t) ==
    /\ Running(t)
    /\ ~Top(t).flag.enabled \/ Top(t).refused \/ TooDeep(t)
    /\ Return(t, Refused(Top(t).flag))

\* get_flag of the next prerequisite, which fails if there is no such flag.
Descend(t) ==
    LET f == Top(t)
        k == f.flag.prerequisites[f.next].key
    IN
    /\ Running(t)
    /\ f.flag.enabled /\ ~f.refused /\ ~TooDeep(t)
    /\ f.next <= Len(f.flag.prerequisites)
    /\ calls' = [calls EXCEPT ![t].stack =
                   IF store[k] = Absent
                   THEN <<[f EXCEPT !.refused = TRUE]>> \o Tail(@)
                   ELSE <<Frame(store[k])>> \o @]
    /\ UNCHANGED <<store, contexts, writes>>

\* All prerequisites are satisfied: the flag decides.
Decide(t) ==
    /\ Running(t)
    /\ Top(t).flag.enabled /\ ~Top(t).refused /\ ~TooDeep(t)
    /\ Top(t).next > Len(Top(t).flag.prerequisites)
    /\ Return(t, OwnResult(Top(t).flag, calls[t].user))

\* The caller has the answer.
Answer(t) ==
    /\ calls[t].state \in {"missing", "answered"}
    /\ calls' = [calls EXCEPT ![t] = Idle]
    /\ UNCHANGED <<store, contexts, writes>>

-----------------------------------------------------------------------------
StoreNext ==
    \/ \E flag \in Catalog : UpsertV2(flag)
    \/ \E flag \in Catalog :
          Upsert(flag.key, flag.enabled, IF flag.rollout = None THEN -1 ELSE flag.rollout,
                 flag.rules)
    \/ \E k \in Keys : Delete(k)
    \/ ClearStore
    \/ \E t \in Threads :
          \/ \E u \in UserHashes, d \in Documents \cup {Malformed} :
                \/ MakeContext(t, u, d)
                \/ \E k \in Keys :
                      IsEnabled(t, k, u, d) \/ GetVariant(t, k, u, d) \/ GetValue(t, k, u, d)
          \/ FreeContext(t)
          \/ \E k \in Keys : IsEnabledCtx(t, k)
          \/ Refuse(t) \/ Descend(t) \/ Decide(t) \/ Answer(t)

StoreSpec == StoreInit /\ [][StoreNext]_local

-----------------------------------------------------------------------------
(***************************************************************************)
(* Correctness                                                             *)
(***************************************************************************)

\* The flags under their own keys, and calls in one of their states; the
\* recursion is never deeper than the limit.
StoreTypeOK ==
    /\ \A k \in Keys : store[k] # Absent => store[k].key = k
    /\ writes \in 0 .. MaxWrites
    /\ \A t \in Threads :
          /\ calls[t].state \in {"idle", "missing", "running", "answered"}
          /\ Running(t) => Len(calls[t].stack) \in 1 .. MaxDepth + 1

\* Flags that some key holds; and a flag that decides to be on, if all that it
\* requires is on.
Present(seen) == (UNION {seen[k] : k \in Keys}) \ {Absent}
Decides(f, user) == f.enabled /\ OwnResult(f, user).enabled

\* The flag g, if it is on, satisfies prerequisite p.
Meets(g, user, p) == p.required \in {None, OwnResult(g, user).value}

\* C has each flag that is on if the flags of C are.
Closed(C, seen, user) ==
    \A f \in Present(seen) :
        /\ Decides(f, user)
        /\ \A p \in Required(f) : \E g \in seen[p.key] \cap C : Meets(g, user, p)
        => f \in C

\* Flags that may be on if every key holds one of its flags in seen: the least
\* closed set.  A cycle is in none.
MayBeOn(seen, user) ==
    {f \in Present(seen) : \A C \in SUBSET Present(seen) : Closed(C, seen, user) => f \in C}

\* Keys that are on whichever of its flags in seen each of them holds, by
\* prerequisites in S; and by prerequisites that are no deeper than n.
OnAbove(S, seen, user) ==
    {k \in Keys : \A f \in seen[k] :
        /\ f # Absent /\ Decides(f, user)
        /\ \A p \in Required(f) : p.key \in S /\ \A g \in seen[p.key] : Meets(g, user, p)}
OnWithin(seen, user) ==
    LET on[n \in 0 .. MaxDepth + 1] ==
            IF n = 0 THEN {} ELSE OnAbove(on[n - 1], seen, user)
    IN  on

\* And by prerequisites that are no deeper than the limit.
MustBeOn(seen, user) == OnWithin(seen, user)[MaxDepth + 1]

\* Evaluation fails closed (prerequisites_satisfied): a flag that is answered
\* to be on was, with all that it requires and what they require, on at moments
\* of the evaluation; neither a cycle nor a flag that is missing or off, nor a
\* store that changes meanwhile, gets around a prerequisite.
FailsClosed ==
    \A t \in Threads :
        calls[t].state = "answered" /\ calls[t].result.enabled =>
            \E f \in MayBeOn(calls[t].seen, calls[t].user) :
                /\ f.key = calls[t].key
                /\ calls[t].result = OwnResult(f, calls[t].user)

\* And it does not fail without a reason: what is on all the time, by
\* prerequisites within the limit, is answered to be on.
OnIsAnswered ==
    \A t \in Threads :
        (\/ calls[t].state = "missing"
         \/ calls[t].state = "answered" /\ ~calls[t].result.enabled) =>
            calls[t].key \notin MustBeOn(calls[t].seen, calls[t].user)

\* Over all hashes a variant is given out in proportion to its weight: as often
\* as its weight times the hashes that each unit of the total has, rounded down
\* or up; and a total beyond the largest hash leaves no variant out that has a
\* share of a hash (pick_weighted_variant).
InProportion ==
    \A k \in Keys : store[k] # Absent /\ store[k].variants # <<>> =>
        LET variants == store[k].variants
            total == Cumulative(variants)[Len(variants)]
            count(i) == Cardinality({h \in 0 .. Hashes - 1 : Picked(variants, h) = i})
        IN  total > 0 => \A i \in 1 .. Len(variants) :
                IF total < Hashes
                THEN /\ count(i) >= variants[i].weight * (Hashes \div total)
                     /\ count(i) <= variants[i].weight * (Hashes \div total + 1)
                ELSE /\ count(i) * total < variants[i].weight * Hashes + total
                     /\ count(i) * total > variants[i].weight * Hashes - total

\* A rollout reaches that many of each hundred hashes: none at 0, all from 100 on.
RolloutReaches ==
    \A k \in Keys : store[k] # Absent /\ store[k].rollout # None =>
        LET r == store[k].rollout
            one(h) == [x \in Keys |-> h]
            count == Cardinality({h \in 0 .. Hashes - 1 :
                        InRollout(store[k], Context([x \in Attributes |-> None], one(h), one(h)))})
        IN  IF r > 100 THEN count = Hashes
            ELSE /\ count >= r * (Hashes \div 100)
                 /\ count <= r * (Hashes \div 100 + 1)
                 /\ r = 100 => count = Hashes
=============================================================================
