------------------------------ MODULE MCSearch ------------------------------
(* Small instances of the search graph: a journal that has built an AND/OR     *)
(* tree, one that has built a chain of claims a state rests on, one with a     *)
(* dependency recorded before its claim, one where a subgoal rests on a chain  *)
(* of claims, one of two claims, and one of a deep tree.                       *)
EXTENDS MorkRules

CONSTANTS s1, s2, s3, s4, m1, m2, m3, c1, c2, c3, w1, w2

\* s1 <- m1 <- s2 <- m2 <- s3 <- m3 <- s4; no status is named for m2, and the proof and
\* m1 come with details.
TreeJournal ==
  << ProjectInit(TRUE), StateAdded(s1), MoveAdded(m1, s1, "open", TRUE), SubgoalAdded(m1, s2),
     MoveAdded(m2, s2, None, FALSE), SubgoalAdded(m2, s3), MoveAdded(m3, s3, "open", FALSE),
     SubgoalAdded(m3, s4) >>

\* s1 rests on c3, c3 on c2 and c2 on c1.
ClaimJournal ==
  << ProjectInit(FALSE), StateAdded(s1), ClaimAdded(c1, "conjectural", FALSE), ClaimAdded(c2, "conjectural", FALSE),
     ClaimAdded(c3, "conjectural", FALSE), DependencyAdded(c2, c1), DependencyAdded(c3, c2),
     StateClaimLinked(s1, c3) >>

\* c1 -> c2 is recorded before c2, so it has no edge, and c2 -> c1 passes its check.
EarlyJournal ==
  << ProjectInit(FALSE), ClaimAdded(c1, "conjectural", FALSE), DependencyAdded(c1, c2),
     ClaimAdded(c2, "conjectural", FALSE), DependencyAdded(c2, c1), StateAdded(s1),
     StateAdded(s2), StateClaimLinked(s1, c2) >>

StartingJournals == {TreeJournal, ClaimJournal, EarlyJournal}

\* s1 <- m1 <- {s2, s3}, s2 rests on c2 and c2 on c1.
TaintedTree ==
  { << ProjectInit(FALSE), StateAdded(s1), MoveAdded(m1, s1, "open", FALSE), SubgoalAdded(m1, s2),
       SubgoalAdded(m1, s3), ClaimAdded(c1, "conjectural", FALSE), ClaimAdded(c2, "conjectural", FALSE),
       DependencyAdded(c2, c1), StateClaimLinked(s2, c2) >> }

Refutation == {StateClosed(s2), StateClosed(s3), TaintPropagated(c1)}

TreeCalls ==
  { StateAdded(s1), MoveAdded(m1, s3, "queued", FALSE), MoveAdded(m3, s1, None, TRUE), SubgoalAdded(m1, s4),
    MoveUpdated(m2, "refuted"), StateClosed(s4), StateClosed(s2), StateReopened(s3) }

ClaimCalls ==
  { StateClosed(s1), StateAdded(s2), ClaimAdded(c2, "conjectural", FALSE), ClaimUpdated(c2, "lean-verified"),
    TaintPropagated(c1), TaintPropagated(c2), StateClaimLinked(s2, c1), StateClaimLinked(s1, c2) }

MCCalls == TreeCalls \cup ClaimCalls

MCLinks == {<<c1, c1>>, <<c1, c2>>, <<c2, c1>>, <<c1, c3>>}

BareLinks == {<<c2, c1>>}

\* Two claims and nothing between them.
PairJournal ==
  { << ProjectInit(FALSE), ClaimAdded(c1, "conjectural", FALSE), ClaimAdded(c2, "conjectural", FALSE) >> }

PairLinks == {<<c1, c2>>, <<c2, c1>>}

TreeOnly == {TreeJournal}

\* A chain of states, each proposing the move that requires the next.
Depth == 0..65
Steps == 1..65

DeepJournal ==
  { << ProjectInit(FALSE), StateAdded(0) >> \o
      [i \in 1..130 |->
         LET n == (i + 1) \div 2
         IN  IF i % 2 = 1 THEN MoveAdded(n, n - 1, "open", FALSE) ELSE SubgoalAdded(n, n)] }

DeepClosing == {StateClosed(65)}

Symmetry == Permutations(Writers)

=============================================================================
