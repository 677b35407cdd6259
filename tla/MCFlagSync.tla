----------------------------- MODULE MCFlagSync -----------------------------
(* Values for model checking FlagSync: handlers and the instances they run in. *)
EXTENDS FlagSync, TLC

CONSTANTS f1, f2, plain, targeted, r1, r2, i1, i2, w1, w2, c1, c2

\* One handler on each instance; two handlers on one instance.
HomeApart == w1 :> i1 @@ w2 :> i2
HomeTogether == w1 :> i1 @@ w2 :> i1

\* Handlers of one instance may change places, and so may two instances
\* together with their handlers.
SameInstance == Permutations({w1, w2})
SwapInstances ==
    {p \in Permutations({w1, w2, i1, i2}) :
        \A w \in {w1, w2} : p[w] \in {w1, w2} /\ p[HomeApart[w]] = HomeApart[p[w]]}

\* Two initial states: nothing was ever written in the environment, and one
\* revision is left (the sequence serves all environments); a flag is there, which
\* was created before anybody connected, and there will be no fault.
ConvergesInit ==
    /\ NothingUnderWay
    /\ \/ /\ row = [f \in Flags |-> [data |-> Absent, rev |-> 0]]
          /\ last = [f \in Flags |-> Stamp(Unknown)]
          /\ seq = MaxRevision - 1
          /\ faults = MaxFaults
       \/ /\ row = [f \in Flags |-> [data |-> plain, rev |-> 1]]
          /\ last = [f \in Flags |-> 2]
          /\ seq = 1
          /\ faults = 0

ConvergesSpec == ConvergesInit /\ [][Next]_vars /\ Fairness
=============================================================================
