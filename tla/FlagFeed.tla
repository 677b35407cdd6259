------------------------------ MODULE FlagFeed ------------------------------
(***************************************************************************)
(* What SDK clients may rely on, without any of the machinery that provides *)
(* it: every flag has a history, numbered from Origin on, that grows; every *)
(* client has a position in the history of each flag, which moves forward   *)
(* only and never past the highest committed state.  A state may be numbered *)
(* below another that was committed earlier; the numbers up to that one then *)
(* tell nothing, and a client among them may move to any committed state.   *)
(***************************************************************************)
EXTENDS Naturals

CONSTANTS Flags, Clients, Origin

VARIABLES
    latest,    \* latest[f]: highest number of a committed state of f
    overtaken, \* overtaken[f]: up to here, numbers of f tell no order
    position   \* position[c][f]: number of the state client c is at

vars == <<latest, overtaken, position>>

Init ==
    /\ latest = [f \in Flags |-> Origin]
    /\ overtaken = [f \in Flags |-> 0]
    /\ position = [c \in Clients |-> [f \in Flags |-> Origin]]

\* A transaction commits new states of some flags.
Commit ==
    /\ \A f \in Flags :
         /\ latest'[f] \in Nat /\ latest'[f] >= latest[f]
         /\ overtaken'[f] \in {overtaken[f], latest'[f]}
    /\ latest' = [f \in Flags |-> latest'[f]]
    /\ overtaken' = [f \in Flags |-> overtaken'[f]]
    /\ UNCHANGED position

\* The numbers client c may move to on flag f.
Ahead(c, f) ==
    (IF position[c][f] > overtaken[f] THEN position[c][f] ELSE Origin) .. latest[f]

\* Client c moves on some flags, on one event or on a snapshot.
Advance(c) ==
    /\ \A f \in Flags : position'[c][f] \in Ahead(c, f)
    /\ position' = [position EXCEPT ![c] = [f \in Flags |-> position'[c][f]]]
    /\ UNCHANGED <<latest, overtaken>>

Next == Commit \/ \E c \in Clients : Advance(c)

Spec == Init /\ [][Next]_vars
=============================================================================
