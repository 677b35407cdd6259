------------------------------ MODULE MCClient ------------------------------
(***************************************************************************)
(* The parts of an SDK on small instances in one run, chosen by the initial *)
(* state: evaluations against a store that changes, the shares of variants, *)
(* the client that keeps the store up to date, and the cache that does at   *)
(* the edge.  An evaluation begins with any store, and the store changes    *)
(* while it lasts; handles of contexts are made while there is no flag fa.  *)
(***************************************************************************)
EXTENDS LocalStore, SdkClient, EdgeCache, TLC

CONSTANTS fa, fb, fc, red, blue, pro, ten, plan    \* keys, values, texts, an attribute

VARIABLE scenario

plain(k) ==
    [key |-> k, enabled |-> TRUE, boolean |-> TRUE, rules |-> <<>>, rollout |-> None,
     variants |-> <<>>, fallback |-> None, disabled |-> None, prerequisites |-> <<>>]
needs(k, v) == [key |-> k, required |-> v]
rule(op, v, variant) ==
    [attribute |-> plan, operator |-> op, values |-> {v}, variant |-> variant]

\* fa requires fb, perhaps in red; fb requires fc, and fc may require fa: a chain as
\* long as the limit, and a cycle.  What is off shows red.
Flags == {
    [plain(fa) EXCEPT !.prerequisites = <<needs(fb, None), needs(fc, None)>>],
    [plain(fa) EXCEPT !.prerequisites = <<needs(fb, red)>>],
    [plain(fb) EXCEPT !.prerequisites = <<needs(fc, None)>>, !.fallback = red],
    [plain(fb) EXCEPT !.rollout = 50, !.disabled = red, !.boolean = FALSE],
    [plain(fb) EXCEPT !.rules = <<rule("not_equals", pro, red), rule("less_than", ten, None)>>,
                     !.variants = <<[weight |-> 1, value |-> blue]>>],
    [plain(fc) EXCEPT !.enabled = FALSE],
    [plain(fc) EXCEPT !.rules = <<rule("contains", pro, None), rule("equals", ten, blue)>>,
                     !.rollout = 0],
    [plain(fc) EXCEPT !.prerequisites = <<needs(fa, None)>>]}

\* Weights from none to more than there are hashes; some serve as rollouts too.
Weights == {0, 1, 3, 40, 64, 100, 127, 128, 200}
Shared ==
    {[plain(fa) EXCEPT !.rollout = v,
                       !.variants = <<[weight |-> v, value |-> red], [weight |-> w, value |-> blue],
                                      [weight |-> 1, value |-> On]>>] : v, w \in Weights}

Users == {[hash |-> [k \in Keys |-> h], pick |-> [k \in Keys |-> 0]] : h \in {49, 50}}
Attrs == {[x \in {plan} |-> v] : v \in {pro, ten}}
Numbers == [v \in {pro, ten} |-> IF v = ten THEN 10 ELSE None]
Patterns == [op \in {"contains"} |-> {<<pro, pro>>}]
Three == {fa, fb, fc}
Plan == {plan}

MCInit ==
    /\ scenario \in {"evaluate", "share", "sync", "edge"}
    /\ ClientInit /\ EdgeInit
    /\ IF scenario = "evaluate" THEN StoreInit
       ELSE /\ \E f \in IF scenario = "share" THEN Shared ELSE {Absent} :
                  store = [k \in Keys |-> IF k = fa THEN f ELSE Absent]
            /\ contexts = [t \in Threads |-> NoContext]
            /\ calls = [t \in Threads |-> Idle]
            /\ writes = 0

MCNext ==
    /\ UNCHANGED scenario
    /\ \/ /\ scenario = "evaluate" /\ StoreNext /\ UNCHANGED <<client, edge>>
          /\ \E t \in Threads : writes' > writes => calls[t] # Idle
          /\ \A t \in Threads : calls[t] = Idle => writes = 0
          /\ contexts' # contexts => store[fa] = Absent
       \/ scenario = "sync" /\ ClientNext /\ UNCHANGED <<local, edge>>
       \/ scenario = "edge" /\ EdgeNext /\ UNCHANGED <<local, client>>

MCSpec ==
    MCInit /\ [][MCNext]_<<local, client, edge, scenario>> /\ Fairness /\ EdgeFairness
=============================================================================
