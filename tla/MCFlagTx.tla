------------------------------ MODULE MCFlagTx ------------------------------
(* Values for model checking FlagTx: data of two fields, one of which makes a *)
(* flag use the segment.                                                     *)
EXTENDS FlagTx, TLC

CONSTANTS w1, w2, f1, f2, r1, r2

\* Flags that are targeted: those whose field "rules" is 1.
UsesSegment == {d \in [Fields -> Values] : "rules" \in Fields /\ d["rules"] = 1}

SwapWriters == Permutations(Writers)
=============================================================================
