----------------------------- MODULE MCJournal -----------------------------
(* Small instances of the journal store and of its refinement.              *)
EXTENDS JournalRefinement, TLC

\* The moves are interchangeable: nothing orders or names them.
Symmetry == Permutations(Moves)
=============================================================================
