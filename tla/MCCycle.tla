------------------------------ MODULE MCCycle ------------------------------
(* Small instances of proof cycles.                                         *)
EXTENDS ProofCycle, TLC

CONSTANTS w1, w2, viewA, viewB

\* Two processes, each with a view of its own; or two threads sharing one.
OwnViews   == w1 :> viewA @@ w2 :> viewB
SharedView == [w \in Workers |-> viewA]
=============================================================================
