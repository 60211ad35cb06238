------------------------------- MODULE MorkRules -------------------------------
(***************************************************************************)
(* The MORK queries on dependency and taint (dependency-taint.metta), asked  *)
(* of a search graph.  They say which claims a refutation taints and which   *)
(* states must reopen; PropagateTaint is what the graph does about it.  The  *)
(* queries read committed atoms, which is every atom the projector emits.    *)
(***************************************************************************)
EXTENDS SearchGraph

\* reaches?: through zero or more dependencies.
Rests(g, x, b) == x = b \/ Reaches(Depends(g), x, b)

IsDependent(g, c, claim) == c # claim /\ Rests(g, c, claim)

TaintCone(g, root) ==
  {c \in Claims : g.claim[root] = "refuted" /\ g.claim[c] # None /\ IsDependent(g, c, root)}

UsesTaintedClaim(g, s, root) ==
  g.claim[root] = "refuted" /\ \E c \in Used(g, s) : IsDependent(g, c, root)

AffectedStates(g, root) ==
  {s \in States : g.state[s] = "formally-closed" /\ UsesTaintedClaim(g, s, root)}

-----------------------------------------------------------------------------

\* A refutation does what the queries, asked of the graph with the claim refuted, call
\* for: the cone is tainted, exactly the affected states reopen, whatever else the graph
\* holds stays, and asked again they call for nothing more.  A claim that rests on itself,
\* which add_claim_dependency lets in once, is left tainted and no longer refuted, so that
\* its refutation cannot be queried any more.
TaintFollowsQueries ==
  [][\A c \in Claims : Recorded(TaintPropagated(c)) /\ ~Reaches(Depends(graph), c, c) =>
       LET refuted == UpdateClaimStatus(graph, c, "refuted")
       IN /\ graph'.claim = [d \in Claims |-> IF d \in TaintCone(refuted, c) THEN "tainted"
                                              ELSE refuted.claim[d]]
          /\ {s \in States : graph'.state[s] # graph.state[s]} = AffectedStates(refuted, c)
          /\ \A s \in AffectedStates(refuted, c) : graph'.state[s] = "reopened"
          /\ AffectedStates(graph', c) = {}
          /\ graph'.move = graph.move /\ graph'.edges = graph.edges]_vars

=============================================================================
