--------------------------- MODULE SearchGraphProofs ---------------------------
(***************************************************************************)
(* The search graph and its rules, for every set of nodes, every journal    *)
(* they are built from and every number of writers and rebuilds.            *)
(*                                                                         *)
(* A journal determines two chains of graphs, one after each event: that    *)
(* the callers built and that a rebuild goes through.  Step for step the    *)
(* second restores the first, but for moves added without a status and the  *)
(* details.  The live graph is the last of the first chain; a rebuild that  *)
(* no call has disturbed stands on the second.                              *)
(***************************************************************************)
EXTENDS MorkRules, FiniteSetTheorems, WellFoundedInduction, TLAPS

-----------------------------------------------------------------------------
(* Counting.                                                                *)

\* A set of numbers that holds 0 and the successor of each of its members holds all.
LEMMA Counting ==
  ASSUME NEW S \in SUBSET Nat, 0 \in S, \A n \in S : n + 1 \in S
  PROVE  \A n \in Nat : n \in S
<1> SUFFICES ASSUME Nat \ S # {}
             PROVE  FALSE
  OBVIOUS
<1>1. IsWellFoundedOn(OpToRel(<, Nat), Nat)
  BY NatLessThanWellFounded
<1>2. PICK x \in Nat \ S : \A y \in Nat \ S : ~ (<<y, x>> \in OpToRel(<, Nat))
  <2> DEFINE T == Nat \ S
  <2>1. T \subseteq Nat /\ T # {}
    OBVIOUS
  <2> HIDE DEF T
  <2>2. \E x \in T : \A y \in T : ~ (<<y, x>> \in OpToRel(<, Nat))
    BY <1>1, <2>1, WFMin
  <2>3. QED
    BY <2>2 DEF T
<1>3. x \in Nat /\ x # 0 /\ x - 1 \in Nat /\ x - 1 < x
  OBVIOUS
<1>4. x - 1 \in S
  BY <1>2, <1>3 DEF OpToRel
<1>5. (x - 1) + 1 = x
  BY <1>3
<1>6. QED
  BY <1>2, <1>4, <1>5

\* The passes of the closure exist: each follows from the one before.
LEMMA PassesStep ==
  ASSUME NEW g
  PROVE  /\ Passes(g)[0] = g
         /\ \A n \in 1..MaxIter : Passes(g)[n] = CloseStates(CloseMoves(Passes(g)[n - 1]))
<1> DEFINE Are(p, n) == p = [k \in 0..n |-> IF k = 0 THEN g ELSE CloseStates(CloseMoves(p[k - 1]))]
           S == {n \in Nat : \E p : Are(p, n)}
<1>1. 0 \in S
  <2>1. Are([k \in 0..0 |-> g], 0)
    OBVIOUS
  <2>2. QED
    BY <2>1
<1>2. \A n \in S : n + 1 \in S
  <2> SUFFICES ASSUME NEW n \in Nat, NEW p, Are(p, n)
               PROVE  \E q : Are(q, n + 1)
    OBVIOUS
  <2> DEFINE q == [k \in 0..n + 1 |-> IF k <= n THEN p[k] ELSE CloseStates(CloseMoves(p[n]))]
  <2>1. \A k \in 0..n : p[k] = IF k = 0 THEN g ELSE CloseStates(CloseMoves(p[k - 1]))
    OBVIOUS
  <2>2. \A k \in 0..n + 1 : q[k] = IF k = 0 THEN g ELSE CloseStates(CloseMoves(q[k - 1]))
    BY <2>1
  <2>3. q = [k \in 0..n + 1 |-> q[k]]
    OBVIOUS
  <2> HIDE DEF q
  <2>4. Are(q, n + 1)
    BY <2>2, <2>3
  <2>5. QED
    BY <2>4
<1> HIDE DEF S
<1>3. MaxIter \in S
  <2>1. S \in SUBSET Nat
    BY DEF S
  <2>2. QED
    BY <1>1, <1>2, <2>1, Counting, GraphAssumption
<1>4. PICK p : Are(p, MaxIter)
  BY <1>3 DEF S
<1>5. Are(Passes(g), MaxIter)
  BY <1>4 DEF Passes
<1>6. QED
  BY <1>5, GraphAssumption

-----------------------------------------------------------------------------
(* What one event does to a graph.                                          *)

\* The cases of Project, by the event that is projected.
LEMMA ProjectCases ==
  ASSUME NEW g, NEW e \in Arguments, NEW id
  PROVE  \/ \E d \in BOOLEAN : e = ProjectInit(d) /\ Project(g, e, id) = InitProof(g, d)
         \/ \E s \in States : e = StateAdded(s) /\ Project(g, e, id) = AddState(g, s, id)
         \/ \E c \in Claims, st \in ClaimStatuses, d \in BOOLEAN :
              e = ClaimAdded(c, st, d) /\ Project(g, e, id) = AddClaim(g, c, st, d)
         \/ \E a \in Claims, b \in Claims :
              e = DependencyAdded(a, b) /\ Project(g, e, id) = MergeDependsOn(g, a, b, id)
         \/ \E m \in Moves, s \in States, st \in MoveStatuses, d \in BOOLEAN :
              e = MoveAdded(m, s, st, d) /\ Project(g, e, id) = AddMove(g, m, s, st, d, id)
         \/ \E m \in Moves, s \in States :
              e = SubgoalAdded(m, s) /\ Project(g, e, id) = AddRequiredSubgoal(g, m, s, id)
         \/ \E m \in Moves, st \in MoveStatuses :
              e = MoveUpdated(m, st) /\ Project(g, e, id) = UpdateMoveStatus(g, m, st)
         \/ \E s \in States : e = StateClosed(s) /\ Project(g, e, id) = CloseState(g, s)
         \/ \E s \in States :
              e = StateReopened(s) /\ Project(g, e, id) = UpdateStateStatus(g, s, "reopened")
         \/ \E c \in Claims, st \in ClaimStatuses :
              e = ClaimUpdated(c, st) /\ Project(g, e, id) = UpdateClaimStatus(g, c, st)
         \/ \E c \in Claims : e = TaintPropagated(c) /\ Project(g, e, id) = PropagateTaint(g, c)
         \/ \E s \in States, c \in Claims :
              e = StateClaimLinked(s, c) /\ Project(g, e, id) = LinkStateClaim(g, s, c, id)
<1>1. ASSUME NEW d \in BOOLEAN, e = ProjectInit(d)
      PROVE  Project(g, e, id) = InitProof(g, d)
  BY <1>1 DEF Project, ProjectInit
<1>2. ASSUME NEW s \in States, e = StateAdded(s)
      PROVE  Project(g, e, id) = AddState(g, s, id)
  BY <1>2 DEF Project, StateAdded
<1>3. ASSUME NEW c \in Claims, NEW st \in ClaimStatuses, NEW d \in BOOLEAN,
             e = ClaimAdded(c, st, d)
      PROVE  Project(g, e, id) = AddClaim(g, c, st, d)
  BY <1>3 DEF Project, ClaimAdded
<1>4. ASSUME NEW a \in Claims, NEW b \in Claims, e = DependencyAdded(a, b)
      PROVE  Project(g, e, id) = MergeDependsOn(g, a, b, id)
  BY <1>4 DEF Project, DependencyAdded
<1>5. ASSUME NEW m \in Moves, NEW s \in States, NEW st \in MoveStatuses, NEW d \in BOOLEAN,
             e = MoveAdded(m, s, st, d)
      PROVE  Project(g, e, id) = AddMove(g, m, s, st, d, id)
  BY <1>5 DEF Project, MoveAdded
<1>6. ASSUME NEW m \in Moves, NEW s \in States, e = SubgoalAdded(m, s)
      PROVE  Project(g, e, id) = AddRequiredSubgoal(g, m, s, id)
  BY <1>6 DEF Project, SubgoalAdded
<1>7. ASSUME NEW m \in Moves, NEW st \in MoveStatuses, e = MoveUpdated(m, st)
      PROVE  Project(g, e, id) = UpdateMoveStatus(g, m, st)
  BY <1>7 DEF Project, MoveUpdated
<1>8. ASSUME NEW s \in States, e = StateClosed(s)
      PROVE  Project(g, e, id) = CloseState(g, s)
  BY <1>8 DEF Project, StateClosed
<1>9. ASSUME NEW s \in States, e = StateReopened(s)
      PROVE  Project(g, e, id) = UpdateStateStatus(g, s, "reopened")
  BY <1>9 DEF Project, StateReopened
<1>10. ASSUME NEW c \in Claims, NEW st \in ClaimStatuses, e = ClaimUpdated(c, st)
       PROVE  Project(g, e, id) = UpdateClaimStatus(g, c, st)
  BY <1>10 DEF Project, ClaimUpdated
<1>11. ASSUME NEW c \in Claims, e = TaintPropagated(c)
       PROVE  Project(g, e, id) = PropagateTaint(g, c)
  BY <1>11 DEF Project, TaintPropagated
<1>12. ASSUME NEW s \in States, NEW c \in Claims, e = StateClaimLinked(s, c)
       PROVE  Project(g, e, id) = LinkStateClaim(g, s, c, id)
  BY <1>12 DEF Project, StateClaimLinked
<1>13. QED
  BY <1>1, <1>2, <1>3, <1>4, <1>5, <1>6, <1>7, <1>8, <1>9, <1>10, <1>11, <1>12
  DEF Arguments, Dependencies, OtherEvents, Added

\* A pass of the closure rewrites statuses and nothing else.
LEMMA PassTyped ==
  ASSUME NEW g \in GraphType
  PROVE  /\ CloseStates(CloseMoves(g)) \in GraphType
         /\ CloseStates(CloseMoves(g)).claim = g.claim
         /\ CloseStates(CloseMoves(g)).edges = g.edges
<1>1. CloseMoves(g) \in GraphType /\ CloseMoves(g).claim = g.claim /\ CloseMoves(g).edges = g.edges
  BY DEF CloseMoves, GraphType, MoveStatuses
<1>2. ASSUME NEW h \in GraphType
      PROVE  CloseStates(h) \in GraphType /\ CloseStates(h).claim = h.claim /\ CloseStates(h).edges = h.edges
  BY DEF CloseStates, GraphType, StateStatuses
<1>3. QED
  BY <1>1, <1>2

\* So does the fixpoint.
LEMMA ClosuresTyped ==
  ASSUME NEW g \in GraphType
  PROVE  \A n \in 0..MaxIter : /\ Passes(g)[n] \in GraphType
                              /\ Passes(g)[n].claim = g.claim
                              /\ Passes(g)[n].edges = g.edges
<1> DEFINE Fine(h) == h \in GraphType /\ h.claim = g.claim /\ h.edges = g.edges
           S == {n \in Nat : n \in 0..MaxIter => Fine(Passes(g)[n])}
<1>1. 0 \in S
  BY PassesStep
<1>2. \A n \in S : n + 1 \in S
  <2> SUFFICES ASSUME NEW n \in Nat, n + 1 \in 0..MaxIter, Fine(Passes(g)[n])
               PROVE  Fine(Passes(g)[n + 1])
    BY GraphAssumption
  <2>1. Passes(g)[n + 1] = CloseStates(CloseMoves(Passes(g)[n]))
    BY PassesStep, GraphAssumption
  <2>2. QED
    BY <2>1, PassTyped
<1>3. \A n \in Nat : n \in S
  BY <1>1, <1>2, Counting
<1>4. QED
  BY <1>3, GraphAssumption

\* The edges a projection may hold.
EdgeType == Rels \X (Moves \cup States \cup Claims \cup {None})
                 \X (Moves \cup States \cup Claims) \X (1..MaxEvents)

\* h has g's claims and dependencies.
SameClaims(g, h) == h \in GraphType /\ h.claim = g.claim /\ Depends(h) = Depends(g)

\* An edge of another kind is no dependency.
LEMMA OtherEdge ==
  ASSUME NEW g, NEW h, NEW edge, edge[1] # "DEPENDS_ON", h.edges = g.edges \cup {edge}
  PROVE  Depends(h) = Depends(g)
  BY DEF Depends, Related

\* A node that is merged, and opened by its edge.
LEMMA OpenTyped ==
  ASSUME NEW g \in GraphType, NEW s \in States, NEW found, NEW edge \in EdgeType,
         edge[1] # "DEPENDS_ON"
  PROVE  SameClaims(g, OpenState(g, s)) /\ SameClaims(g, OpenByEdge(g, s, found, edge))
<1>1. OpenState(g, s) \in GraphType
  BY DEF OpenState, GraphType, StateStatuses
<1>2. OpenState(g, s).claim = g.claim /\ OpenState(g, s).edges = g.edges
  BY DEF OpenState, GraphType
<1>3. CASE found /\ edge \notin g.edges
  <2> DEFINE h == OpenByEdge(g, s, found, edge)
  <2>1. h = [g EXCEPT !.state[s] = "open", !.edges = @ \cup {edge}]
    BY <1>3 DEF OpenByEdge
  <2>2. h.claim = g.claim /\ h.edges = g.edges \cup {edge}
    BY <2>1 DEF GraphType
  <2>3. h \in GraphType
    <3> DEFINE k == [g EXCEPT !.state[s] = "open"]
    <3>1. k \in GraphType /\ k.edges = g.edges
      BY DEF GraphType, StateStatuses
    <3>2. h = [k EXCEPT !.edges = @ \cup {edge}]
      BY <2>1 DEF GraphType
    <3> HIDE DEF k
    <3>3. QED
      BY <3>1, <3>2 DEF GraphType, EdgeType
  <2> HIDE DEF h
  <2>4. Depends(h) = Depends(g)
    BY <2>2, OtherEdge
  <2>5. QED
    BY <1>1, <1>2, <2>2, <2>3, <2>4 DEF h, SameClaims, Depends, Related
<1>4. CASE ~ (found /\ edge \notin g.edges)
  BY <1>1, <1>2, <1>4 DEF OpenByEdge, SameClaims, Depends, Related
<1>5. QED
  BY <1>3, <1>4

\* A link between nodes that are there.
LEMMA LinkTyped ==
  ASSUME NEW g \in GraphType, NEW rel, NEW from, NEW to, NEW found, NEW id,
         <<rel, from, to, id>> \in EdgeType
  PROVE  /\ Link(g, rel, from, to, found, id) \in GraphType
         /\ Link(g, rel, from, to, found, id).claim = g.claim
         /\ rel # "DEPENDS_ON" => Depends(Link(g, rel, from, to, found, id)) = Depends(g)
         /\ rel = "DEPENDS_ON" /\ found =>
              Depends(Link(g, rel, from, to, found, id)) = Depends(g) \cup {<<from, to>>}
         /\ ~ found => Link(g, rel, from, to, found, id) = g
<1> DEFINE edge == <<rel, from, to, id>>
           h == Link(g, rel, from, to, found, id)
<1>1. CASE found
  <2>1. h = [g EXCEPT !.edges = @ \cup {edge}]
    BY <1>1 DEF Link
  <2>2. h \in GraphType /\ h.claim = g.claim /\ h.edges = g.edges \cup {edge}
    BY <2>1 DEF GraphType, EdgeType
  <2>3. edge[1] = rel /\ edge[2] = from /\ edge[3] = to
    OBVIOUS
  <2> HIDE DEF h, edge
  <2>4. rel # "DEPENDS_ON" => Depends(h) = Depends(g)
    BY <2>2, <2>3, OtherEdge
  <2>5. ASSUME rel = "DEPENDS_ON"
        PROVE  Depends(h) = Depends(g) \cup {<<from, to>>}
    BY <2>2, <2>3, <2>5 DEF Depends, Related
  <2>6. QED
    BY <1>1, <2>2, <2>4, <2>5 DEF h
<1>2. CASE ~ found
  BY <1>2 DEF Link
<1>3. QED
  BY <1>1, <1>2

\* What an event does to the claims and to the dependencies: a dependency of claims that
\* are there adds an edge, and nothing takes a claim or an edge away.
LEMMA ProjectTyped ==
  ASSUME NEW g \in GraphType, NEW e \in Arguments, NEW id \in 1..MaxEvents
  PROVE  /\ Project(g, e, id) \in GraphType
         /\ \A c \in Claims : g.claim[c] # None => Project(g, e, id).claim[c] # None
         /\ IF \E a \in Claims, b \in Claims :
                 e = DependencyAdded(a, b) /\ g.claim[a] # None /\ g.claim[b] # None
            THEN Depends(Project(g, e, id)) = Depends(g) \cup {<<e.claim, e.on>>}
            ELSE Depends(Project(g, e, id)) = Depends(g)
<1> DEFINE h == Project(g, e, id)
           Kept == \A c \in Claims : g.claim[c] # None => h.claim[c] # None
           IsDependency == \E a \in Claims, b \in Claims : e = DependencyAdded(a, b)
<1>0. \A k \in GraphType : k.claim \in [Claims -> ClaimStatuses \cup {None}]
  BY DEF GraphType
<1> HIDE DEF h
<1>1. ASSUME SameClaims(g, h)
      PROVE  h \in GraphType /\ Kept /\ Depends(h) = Depends(g)
  BY <1>1 DEF SameClaims
<1>2. ASSUME NEW d \in BOOLEAN, e = ProjectInit(d), h = InitProof(g, d)
      PROVE  SameClaims(g, h) /\ ~ IsDependency
  <2> DEFINE k   == [g EXCEPT !.proof = TRUE]
             now == IF d THEN g.details \cup {<<"Proof", None>>} ELSE g.details \ {<<"Proof", None>>}
  <2>0. k \in GraphType /\ k.claim = g.claim /\ k.edges = g.edges
    BY DEF GraphType
  <2>3. now \in SUBSET (({"Proof"} \X {None}) \cup ({"Claim"} \X Claims) \cup ({"Move"} \X Moves))
    BY DEF GraphType
  <2>4. h = [k EXCEPT !.details = now]
    BY <1>2 DEF InitProof, GraphType
  <2> HIDE DEF k, now
  <2>1. h \in GraphType /\ h.claim = g.claim /\ h.edges = g.edges
    BY <2>0, <2>3, <2>4 DEF GraphType
  <2>2. QED
    BY <1>2, <2>1 DEF SameClaims, Depends, Related, ProjectInit, DependencyAdded
<1>3. ASSUME NEW s \in States, e = StateAdded(s), h = AddState(g, s, id)
      PROVE  SameClaims(g, h) /\ ~ IsDependency
  <2> DEFINE edge == <<"HAS_STATE", None, s, id>>
  <2>1. edge \in EdgeType /\ edge[1] # "DEPENDS_ON"
    BY DEF EdgeType, Rels
  <2> HIDE DEF edge
  <2>2. SameClaims(g, OpenState(g, s))
    BY <2>1, OpenTyped
  <2>3. SameClaims(OpenState(g, s), OpenByEdge(OpenState(g, s), s, g.proof, edge))
    BY <2>1, <2>2, OpenTyped DEF SameClaims
  <2>4. QED
    BY <1>3, <2>2, <2>3 DEF AddState, SameClaims, edge, StateAdded, DependencyAdded
<1>4. ASSUME NEW c \in Claims, NEW st \in ClaimStatuses, NEW d \in BOOLEAN,
             e = ClaimAdded(c, st, d), h = AddClaim(g, c, st, d)
      PROVE  h \in GraphType /\ Kept /\ Depends(h) = Depends(g) /\ ~ IsDependency
  <2> DEFINE k   == [g EXCEPT !.claim[c] = st]
             now == IF d /\ g.claim[c] = None THEN g.details \cup {<<"Claim", c>>} ELSE g.details
  <2>0. k \in GraphType /\ k.claim = [g.claim EXCEPT ![c] = st] /\ k.edges = g.edges
    BY DEF GraphType
  <2>3. now \in SUBSET (({"Proof"} \X {None}) \cup ({"Claim"} \X Claims) \cup ({"Move"} \X Moves))
    BY DEF GraphType
  <2>4. h = [k EXCEPT !.details = now]
    BY <1>4 DEF AddClaim, GraphType
  <2> HIDE DEF k, now
  <2>1. h \in GraphType /\ h.claim = [g.claim EXCEPT ![c] = st] /\ h.edges = g.edges
    BY <2>0, <2>3, <2>4 DEF GraphType
  <2>2. QED
    BY <1>0, <1>4, <2>1, EventAssumption DEF Depends, Related, ClaimAdded, DependencyAdded
<1>5. ASSUME NEW a \in Claims, NEW b \in Claims,
             e = DependencyAdded(a, b), h = MergeDependsOn(g, a, b, id)
      PROVE  /\ h \in GraphType /\ Kept
             /\ IF g.claim[a] # None /\ g.claim[b] # None
                THEN Depends(h) = Depends(g) \cup {<<a, b>>}
                ELSE Depends(h) = Depends(g)
  <2>1. <<"DEPENDS_ON", a, b, id>> \in EdgeType
    BY DEF EdgeType, Rels
  <2> DEFINE found == g.claim[a] # None /\ g.claim[b] # None
  <2>2. h = Link(g, "DEPENDS_ON", a, b, found, id)
    BY <1>5 DEF MergeDependsOn
  <2> HIDE DEF found
  <2>3. /\ h \in GraphType /\ h.claim = g.claim
        /\ found => Depends(h) = Depends(g) \cup {<<a, b>>}
        /\ ~ found => h = g
    BY <2>1, <2>2, LinkTyped
  <2>4. QED
    BY <2>3 DEF found
<1>6. ASSUME NEW m \in Moves, NEW s \in States, NEW st \in MoveStatuses, NEW d \in BOOLEAN,
             e = MoveAdded(m, s, st, d), h = AddMove(g, m, s, st, d, id)
      PROVE  SameClaims(g, h) /\ ~ IsDependency
  <2> DEFINE edge == <<"PROPOSES", s, m, id>>
             new  == g.state[s] # None /\ edge \notin g.edges
             now  == IF d /\ g.move[m] = None THEN g.details \cup {<<"Move", m>>} ELSE g.details
  <2>1. edge \in EdgeType /\ edge[1] # "DEPENDS_ON"
    BY DEF EdgeType, Rels
  <2>2. h = [g EXCEPT !.move[m] = IF @ = None \/ new THEN st ELSE @,
                      !.edges = IF new THEN @ \cup {edge} ELSE @,
                      !.details = now]
    BY <1>6 DEF AddMove, GraphType
  <2>0. now \in SUBSET (({"Proof"} \X {None}) \cup ({"Claim"} \X Claims) \cup ({"Move"} \X Moves))
    BY DEF GraphType
  <2> HIDE DEF edge, new, now
  <2>3. h \in GraphType
    BY <2>0, <2>1, <2>2 DEF GraphType, EdgeType
  <2>4. h.claim = g.claim /\ (h.edges = g.edges \/ h.edges = g.edges \cup {edge})
    BY <2>2 DEF GraphType
  <2>5. Depends(h) = Depends(g)
    <3>1. CASE h.edges = g.edges
      BY <3>1 DEF Depends, Related
    <3>2. CASE h.edges = g.edges \cup {edge}
      BY <2>1, <3>2, OtherEdge
    <3>3. QED
      BY <2>4, <3>1, <3>2
  <2>6. QED
    BY <1>6, <2>3, <2>4, <2>5 DEF SameClaims, MoveAdded, DependencyAdded
<1>7. ASSUME NEW m \in Moves, NEW s \in States,
             e = SubgoalAdded(m, s), h = AddRequiredSubgoal(g, m, s, id)
      PROVE  SameClaims(g, h) /\ ~ IsDependency
  <2> DEFINE first == <<"HAS_STATE", None, s, id>>
             edge  == <<"REQUIRES", m, s, id>>
             k     == AddState(g, s, id)
  <2>1. /\ first \in EdgeType /\ first[1] # "DEPENDS_ON"
        /\ edge \in EdgeType /\ edge[1] # "DEPENDS_ON"
    BY DEF EdgeType, Rels
  <2>2. k = OpenByEdge(OpenState(g, s), s, g.proof, first)
    BY DEF AddState
  <2>3. h = OpenByEdge(k, s, g.move[m] # None, edge)
    BY <1>7 DEF AddRequiredSubgoal
  <2> HIDE DEF first, edge, k
  <2>4. SameClaims(g, OpenState(g, s))
    BY <2>1, OpenTyped
  <2>5. SameClaims(OpenState(g, s), k)
    BY <2>1, <2>2, <2>4, OpenTyped DEF SameClaims
  <2>6. SameClaims(k, h)
    BY <2>1, <2>3, <2>5, OpenTyped DEF SameClaims
  <2>7. QED
    BY <1>7, <2>4, <2>5, <2>6 DEF SameClaims, SubgoalAdded, DependencyAdded
<1>8. ASSUME NEW m \in Moves, NEW st \in MoveStatuses,
             e = MoveUpdated(m, st), h = UpdateMoveStatus(g, m, st)
      PROVE  SameClaims(g, h) /\ ~ IsDependency
  <2>1. h \in GraphType /\ h.claim = g.claim /\ h.edges = g.edges
    BY <1>8 DEF UpdateMoveStatus, GraphType
  <2>2. QED
    BY <1>8, <2>1 DEF SameClaims, Depends, Related, MoveUpdated, DependencyAdded
<1>9. ASSUME NEW s \in States, e = StateClosed(s), h = CloseState(g, s)
      PROVE  SameClaims(g, h) /\ ~ IsDependency
  <2> DEFINE k == [UpdateStateStatus(g, s, "formally-closed") EXCEPT
                    !.move = [m \in Moves |-> IF m \in Proposed(g, s) THEN "closed" ELSE g.move[m]]]
  <2>1. k \in GraphType /\ k.claim = g.claim /\ k.edges = g.edges
    BY DEF UpdateStateStatus, GraphType, StateStatuses, MoveStatuses
  <2>2. h = Passes(k)[MaxIter]
    BY <1>9 DEF CloseState, PropagateClosures
  <2> HIDE DEF k
  <2>3. h \in GraphType /\ h.claim = g.claim /\ h.edges = g.edges
    BY <2>1, <2>2, ClosuresTyped, GraphAssumption
  <2>4. QED
    BY <1>9, <2>3 DEF SameClaims, Depends, Related, StateClosed, DependencyAdded
<1>10. ASSUME NEW s \in States, e = StateReopened(s), h = UpdateStateStatus(g, s, "reopened")
       PROVE  SameClaims(g, h) /\ ~ IsDependency
  <2>1. h \in GraphType /\ h.claim = g.claim /\ h.edges = g.edges
    BY <1>10 DEF UpdateStateStatus, GraphType, StateStatuses
  <2>2. QED
    BY <1>10, <2>1 DEF SameClaims, Depends, Related, StateReopened, DependencyAdded
<1>11. ASSUME NEW c \in Claims, NEW st \in ClaimStatuses,
              e = ClaimUpdated(c, st), h = UpdateClaimStatus(g, c, st)
       PROVE  h \in GraphType /\ Kept /\ Depends(h) = Depends(g) /\ ~ IsDependency
  <2>1. /\ h \in GraphType /\ h.edges = g.edges
        /\ h.claim = [g.claim EXCEPT ![c] = IF @ = None THEN None ELSE st]
    BY <1>11 DEF UpdateClaimStatus, GraphType
  <2>2. QED
    BY <1>0, <1>11, <2>1, EventAssumption DEF Depends, Related, ClaimUpdated, DependencyAdded
<1>12. ASSUME NEW c \in Claims, e = TaintPropagated(c), h = PropagateTaint(g, c)
       PROVE  h \in GraphType /\ Depends(h) = Depends(g) /\ ~ IsDependency
  <2>1. h \in GraphType /\ h.edges = g.edges
    BY <1>12 DEF PropagateTaint, UpdateClaimStatus, GraphType, ClaimStatuses, StateStatuses
  <2>2. QED
    BY <1>12, <2>1 DEF Depends, Related, TaintPropagated, DependencyAdded
<1>13. ASSUME NEW c \in Claims, e = TaintPropagated(c), h = PropagateTaint(g, c)
       PROVE  Kept
  <2>1. None # "tainted" /\ None # "refuted"
    BY EventAssumption DEF ClaimStatuses
  <2>2. QED
    BY <1>0, <1>13, <2>1 DEF PropagateTaint, UpdateClaimStatus, GraphType
<1>14. ASSUME NEW s \in States, NEW c \in Claims,
              e = StateClaimLinked(s, c), h = LinkStateClaim(g, s, c, id)
       PROVE  SameClaims(g, h) /\ ~ IsDependency
  <2>1. <<"USES_CLAIM", s, c, id>> \in EdgeType /\ "USES_CLAIM" # "DEPENDS_ON"
    BY DEF EdgeType, Rels
  <2>2. SameClaims(g, h)
    BY <1>14, <2>1, LinkTyped DEF LinkStateClaim, SameClaims
  <2>3. QED
    BY <1>14, <2>2 DEF StateClaimLinked, DependencyAdded
<1>15. CASE IsDependency
  <2>0. PICK a \in Claims, b \in Claims : e = DependencyAdded(a, b)
    BY <1>15
  <2>1. h = MergeDependsOn(g, a, b, id)
    BY <2>0 DEF h, Project, DependencyAdded
  <2>2. e.claim = a /\ e.on = b
    BY <2>0 DEF DependencyAdded
  <2>3. \A x \in Claims, y \in Claims : e = DependencyAdded(x, y) => x = a /\ y = b
    BY <2>2 DEF DependencyAdded
  <2>4. QED
    BY <1>5, <2>0, <2>1, <2>2, <2>3 DEF h
<1>16. CASE ~ IsDependency
  <2>1. h \in GraphType /\ Kept /\ Depends(h) = Depends(g)
    BY <1>1, <1>2, <1>3, <1>4, <1>6, <1>7, <1>8, <1>9, <1>10, <1>11, <1>12, <1>13, <1>14, <1>16,
       ProjectCases DEF h
  <2>2. QED
    BY <1>16, <2>1 DEF h
<1>17. QED
  BY <1>15, <1>16

-----------------------------------------------------------------------------
(* A journal's chain of graphs.                                             *)

\* A chain exists: each graph is the one before with one event projected.
LEMMA ChainStep ==
  ASSUME NEW events, Len(events) \in Nat
  PROVE  /\ Chain(events)[0] = NoGraph
         /\ \A n \in 1..Len(events) :
              Chain(events)[n] = Project(Chain(events)[n - 1], events[n], n)
<1> DEFINE Are(p, n) == p = [k \in 0..n |-> IF k = 0 THEN NoGraph ELSE Project(p[k - 1], events[k], k)]
           S == {n \in Nat : \E p : Are(p, n)}
<1>1. 0 \in S
  <2>1. Are([k \in 0..0 |-> NoGraph], 0)
    OBVIOUS
  <2>2. QED
    BY <2>1
<1>2. \A n \in S : n + 1 \in S
  <2> SUFFICES ASSUME NEW n \in Nat, NEW p, Are(p, n)
               PROVE  \E q : Are(q, n + 1)
    OBVIOUS
  <2> DEFINE q == [k \in 0..n + 1 |-> IF k <= n THEN p[k] ELSE Project(p[n], events[k], k)]
  <2>1. \A k \in 0..n : p[k] = IF k = 0 THEN NoGraph ELSE Project(p[k - 1], events[k], k)
    OBVIOUS
  <2>2. \A k \in 0..n + 1 : q[k] = IF k = 0 THEN NoGraph ELSE Project(q[k - 1], events[k], k)
    BY <2>1
  <2>3. q = [k \in 0..n + 1 |-> q[k]]
    OBVIOUS
  <2> HIDE DEF q
  <2>4. Are(q, n + 1)
    BY <2>2, <2>3
  <2>5. QED
    BY <2>4
<1> HIDE DEF S
<1>3. Len(events) \in S
  <2>1. S \in SUBSET Nat
    BY DEF S
  <2>2. QED
    BY <1>1, <1>2, <2>1, Counting
<1>4. PICK p : Are(p, Len(events))
  BY <1>3 DEF S
<1>5. Are(Chain(events), Len(events))
  BY <1>4 DEF Chain
<1>6. QED
  BY <1>5

\* The two chains of a journal.
LEMMA ReplayedStep ==
  ASSUME NEW events, Len(events) \in Nat
  PROVE  /\ Replayed(events)[0] = NoGraph
         /\ \A n \in 1..Len(events) :
              Replayed(events)[n] = Project(Replayed(events)[n - 1], AsReplayed(events[n]), n)
<1> DEFINE args == [i \in 1..Len(events) |-> AsReplayed(events[i])]
<1>1. Len(args) = Len(events) /\ \A i \in 1..Len(events) : args[i] = AsReplayed(events[i])
  OBVIOUS
<1>2. Replayed(events) = Chain(args)
  BY DEF Replayed
<1> HIDE DEF args
<1>3. QED
  BY <1>1, <1>2, ChainStep

LEMMA CalledStep ==
  ASSUME NEW events, Len(events) \in Nat
  PROVE  /\ Called(events)[0] = NoGraph
         /\ \A n \in 1..Len(events) :
              Called(events)[n] = Project(Called(events)[n - 1], AsCalled(events[n]), n)
<1> DEFINE args == [i \in 1..Len(events) |-> AsCalled(events[i])]
<1>1. Len(args) = Len(events) /\ \A i \in 1..Len(events) : args[i] = AsCalled(events[i])
  OBVIOUS
<1>2. Called(events) = Chain(args)
  BY DEF Called
<1> HIDE DEF args
<1>3. QED
  BY <1>1, <1>2, ChainStep

\* What is passed for an event is an argument; of a move, only what is left out changes.
LEMMA Passed ==
  ASSUME NEW e \in Events
  PROVE  /\ AsCalled(e) \in Arguments /\ AsReplayed(e) \in Arguments
         /\ e \in Dependencies \/ AsCalled(e) \in Dependencies \/ AsReplayed(e) \in Dependencies =>
              AsCalled(e) = e /\ AsReplayed(e) = e
<1>1. CASE e \in Added(MoveStatuses \cup {None})
  <2>1. PICK m \in Moves, s \in States, st \in MoveStatuses \cup {None}, d \in BOOLEAN :
               e = MoveAdded(m, s, st, d)
    BY <1>1 DEF Added
  <2>2. /\ AsCalled(e) = MoveAdded(m, s, IF st = None THEN "queued" ELSE st, d)
        /\ AsReplayed(e) = MoveAdded(m, s, IF st = None THEN "open" ELSE st, FALSE)
    BY <2>1 DEF AsCalled, AsReplayed, MoveAdded
  <2>3. "queued" \in MoveStatuses /\ "open" \in MoveStatuses
    BY DEF MoveStatuses
  <2>4. AsCalled(e) \in Added(MoveStatuses) /\ AsReplayed(e) \in Added(MoveStatuses)
    <3>1. \A statuses : \A x \in statuses, b \in BOOLEAN : MoveAdded(m, s, x, b) \in Added(statuses)
      <4>1. ASSUME NEW statuses, NEW x \in statuses, NEW b, b \in BOOLEAN
            PROVE  MoveAdded(m, s, x, b) \in Added(statuses)
        BY <4>1 DEF Added
      <4>2. QED
        BY <4>1, Zenon
    <3>2. (IF st = None THEN "queued" ELSE st) \in MoveStatuses /\ (IF st = None THEN "open" ELSE st) \in MoveStatuses
      BY <2>3
    <3>3. FALSE \in BOOLEAN
      OBVIOUS
    <3>4. QED
      BY <2>2, <3>1, <3>2, <3>3, Zenon
  <2>5. \A statuses : \A x \in Added(statuses) : x \notin Dependencies
    BY DEF Added, MoveAdded, Dependencies, DependencyAdded
  <2>6. QED
    BY <1>1, <2>4, <2>5 DEF Arguments
<1>2. CASE e \in OtherEvents
  <2>1. AsCalled(e) = e
    BY <1>2 DEF OtherEvents, AsCalled, ProjectInit, StateAdded, StateClosed, StateReopened, ClaimAdded,
       ClaimUpdated, TaintPropagated, MoveUpdated, SubgoalAdded, StateClaimLinked
  <2>2. ASSUME NEW d \in BOOLEAN, e = ProjectInit(d)
        PROVE  AsReplayed(e) = ProjectInit(FALSE)
    BY <2>2 DEF ProjectInit, AsReplayed
  <2>3. ASSUME NEW c \in Claims, NEW st \in ClaimStatuses, NEW d \in BOOLEAN, e = ClaimAdded(c, st, d)
        PROVE  AsReplayed(e) = ClaimAdded(c, st, FALSE)
    BY <2>3 DEF ClaimAdded, AsReplayed
  <2>4. CASE e.type \notin {"move_added", "project_init", "claim_added"}
    BY <2>1, <2>4, <1>2 DEF AsReplayed, Arguments
  <2>5. e.type # "move_added"
    BY <1>2 DEF OtherEvents, ProjectInit, StateAdded, StateClosed, StateReopened, ClaimAdded,
       ClaimUpdated, TaintPropagated, MoveUpdated, SubgoalAdded, StateClaimLinked
  <2>6. CASE e.type = "project_init"
    <3>1. PICK d \in BOOLEAN : e = ProjectInit(d)
      BY <1>2, <2>6 DEF OtherEvents, StateAdded, StateClosed, StateReopened, ClaimAdded,
         ClaimUpdated, TaintPropagated, MoveUpdated, SubgoalAdded, StateClaimLinked
    <3>2. AsReplayed(e) = ProjectInit(FALSE)
      BY <2>2, <3>1
    <3>3. ProjectInit(FALSE) \in OtherEvents
      <4>1. ASSUME NEW b, b \in BOOLEAN
            PROVE  ProjectInit(b) \in OtherEvents
        BY <4>1 DEF OtherEvents
      <4>2. FALSE \in BOOLEAN
        OBVIOUS
      <4>3. QED
        BY <4>1, <4>2, Zenon
    <3>4. ASSUME NEW b
          PROVE  ProjectInit(b) \notin Dependencies
      <4>1. ProjectInit(b).type = "project_init"
        BY DEF ProjectInit
      <4>2. QED
        BY <4>1 DEF Dependencies, DependencyAdded
    <3>5. QED
      BY <1>2, <2>1, <3>1, <3>2, <3>3, <3>4 DEF Arguments
  <2>7. CASE e.type = "claim_added"
    <3>1. PICK c \in Claims, st \in ClaimStatuses, d \in BOOLEAN : e = ClaimAdded(c, st, d)
      BY <1>2, <2>7 DEF OtherEvents, StateAdded, StateClosed, StateReopened, ProjectInit,
         ClaimUpdated, TaintPropagated, MoveUpdated, SubgoalAdded, StateClaimLinked
    <3>2. AsReplayed(e) = ClaimAdded(c, st, FALSE)
      BY <2>3, <3>1
    <3>3. ClaimAdded(c, st, FALSE) \in OtherEvents
      <4>1. ASSUME NEW b, b \in BOOLEAN
            PROVE  ClaimAdded(c, st, b) \in OtherEvents
        BY <4>1 DEF OtherEvents
      <4>2. FALSE \in BOOLEAN
        OBVIOUS
      <4>3. QED
        BY <4>1, <4>2, Zenon
    <3>4. ASSUME NEW b
          PROVE  ClaimAdded(c, st, b) \notin Dependencies
      <4>1. ClaimAdded(c, st, b).type = "claim_added"
        BY DEF ClaimAdded
      <4>2. QED
        BY <4>1 DEF Dependencies, DependencyAdded
    <3>5. QED
      BY <1>2, <2>1, <3>1, <3>2, <3>3, <3>4 DEF Arguments
  <2>8. QED
    BY <2>4, <2>5, <2>6, <2>7
<1>3. CASE e \in Dependencies
  BY <1>3 DEF Dependencies, DependencyAdded, AsCalled, AsReplayed, Arguments
<1>4. QED
  BY <1>1, <1>2, <1>3 DEF Events, Recordable

\* Dependencies join claims that are there.
Found(g) == \A d \in Depends(g) :
              d \in Claims \X Claims /\ g.claim[d[1]] # None /\ g.claim[d[2]] # None

\* The projection keeps them so.
LEMMA FoundStays ==
  ASSUME NEW g \in GraphType, Found(g), NEW e \in Arguments, NEW id \in 1..MaxEvents
  PROVE  Found(Project(g, e, id))
<1> DEFINE h == Project(g, e, id)
<1>1. \A c \in Claims : g.claim[c] # None => h.claim[c] # None
  BY ProjectTyped
<1>2. CASE \E a \in Claims, b \in Claims :
             e = DependencyAdded(a, b) /\ g.claim[a] # None /\ g.claim[b] # None
  <2>1. PICK a \in Claims, b \in Claims :
               e = DependencyAdded(a, b) /\ g.claim[a] # None /\ g.claim[b] # None
    BY <1>2
  <2>2. Depends(h) = Depends(g) \cup {<<e.claim, e.on>>}
    BY <1>2, ProjectTyped
  <2>3. e.claim = a /\ e.on = b
    BY <2>1 DEF DependencyAdded
  <2> HIDE DEF h
  <2>4. QED
    BY <1>1, <2>1, <2>2, <2>3 DEF Found, h
<1>3. CASE ~ \E a \in Claims, b \in Claims :
             e = DependencyAdded(a, b) /\ g.claim[a] # None /\ g.claim[b] # None
  <2>1. Depends(h) = Depends(g)
    BY <1>3, ProjectTyped
  <2> HIDE DEF h
  <2>2. QED
    BY <1>1, <2>1 DEF Found, h
<1>4. QED
  BY <1>2, <1>3

\* The wiped graph.
LEMMA NoGraphTyped == NoGraph \in GraphType /\ Found(NoGraph)
<1>1. NoGraph \in GraphType
  BY DEF NoGraph, GraphType
<1>2. Depends(NoGraph) = {}
  BY DEF NoGraph, Depends, Related
<1>3. QED
  BY <1>1, <1>2 DEF Found

\* Every graph of a chain is one.
LEMMA ChainTyped ==
  ASSUME NEW events \in Seq(Arguments), Len(events) <= MaxEvents
  PROVE  \A n \in 0..Len(events) : Chain(events)[n] \in GraphType /\ Found(Chain(events)[n])
<1> DEFINE Fine(h) == h \in GraphType /\ Found(h)
           S == {n \in Nat : n \in 0..Len(events) => Fine(Chain(events)[n])}
<1>0. Len(events) \in Nat
  OBVIOUS
<1>1. 0 \in S
  BY <1>0, ChainStep, NoGraphTyped
<1>2. \A n \in S : n + 1 \in S
  <2> SUFFICES ASSUME NEW n \in Nat, n + 1 \in 0..Len(events), Fine(Chain(events)[n])
               PROVE  Fine(Chain(events)[n + 1])
    OBVIOUS
  <2>1. Chain(events)[n + 1] = Project(Chain(events)[n], events[n + 1], n + 1)
    BY <1>0, ChainStep
  <2>2. events[n + 1] \in Arguments /\ n + 1 \in 1..MaxEvents
    BY GraphAssumption
  <2>3. QED
    BY <2>1, <2>2, ProjectTyped, FoundStays
<1>3. \A n \in Nat : n \in S
  BY <1>1, <1>2, Counting
<1>4. QED
  BY <1>3

\* So is every graph of a journal's chains.
LEMMA ReplayedTyped ==
  ASSUME NEW events \in Seq(Events), Len(events) <= MaxEvents
  PROVE  \A n \in 0..Len(events) :
           /\ Replayed(events)[n] \in GraphType /\ Found(Replayed(events)[n])
           /\ Called(events)[n] \in GraphType /\ Found(Called(events)[n])
<1> DEFINE replayed == [i \in 1..Len(events) |-> AsReplayed(events[i])]
           called   == [i \in 1..Len(events) |-> AsCalled(events[i])]
<1>1. \A i \in 1..Len(events) : AsReplayed(events[i]) \in Arguments /\ AsCalled(events[i]) \in Arguments
  BY Passed
<1>2. /\ replayed \in Seq(Arguments) /\ Len(replayed) = Len(events)
      /\ called \in Seq(Arguments) /\ Len(called) = Len(events)
  BY <1>1
<1>3. Replayed(events) = Chain(replayed) /\ Called(events) = Chain(called)
  BY DEF Replayed, Called
<1> HIDE DEF replayed, called
<1>4. QED
  BY <1>2, <1>3, ChainTyped

\* The last graph of the chain a rebuild goes through.
Replay(events) == Replayed(events)[Len(events)]

\* An event appended to a journal extends its chain by one graph.
LEMMA ReplayedAppend ==
  ASSUME NEW events \in Seq(Events), NEW e \in Events
  PROVE  /\ \A n \in 0..Len(events) : Replayed(Append(events, e))[n] = Replayed(events)[n]
         /\ Replay(Append(events, e)) = Project(Replay(events), AsReplayed(e), Len(events) + 1)
<1> DEFINE more == Append(events, e)
           S == {n \in Nat : n \in 0..Len(events) => Replayed(more)[n] = Replayed(events)[n]}
<1>0. /\ Len(events) \in Nat /\ Len(more) = Len(events) + 1
      /\ more[Len(more)] = e /\ \A n \in 1..Len(events) : more[n] = events[n]
  OBVIOUS
<1> HIDE DEF more
<1>1. 0 \in S
  BY <1>0, ReplayedStep
<1>2. \A n \in S : n + 1 \in S
  <2> SUFFICES ASSUME NEW n \in Nat, n + 1 \in 0..Len(events),
                      Replayed(more)[n] = Replayed(events)[n]
               PROVE  Replayed(more)[n + 1] = Replayed(events)[n + 1]
    OBVIOUS
  <2>1. Replayed(more)[n + 1] = Project(Replayed(more)[n], AsReplayed(more[n + 1]), n + 1)
    BY <1>0, ReplayedStep
  <2>2. Replayed(events)[n + 1] = Project(Replayed(events)[n], AsReplayed(events[n + 1]), n + 1)
    BY <1>0, ReplayedStep
  <2>3. QED
    BY <1>0, <2>1, <2>2
<1>3. \A n \in Nat : n \in S
  <2> HIDE DEF S
  <2>1. S \in SUBSET Nat
    BY DEF S
  <2>2. QED
    BY <1>1, <1>2, <2>1, Counting
<1>4. Replayed(more)[Len(more)] = Project(Replayed(more)[Len(events)], AsReplayed(e), Len(events) + 1)
  BY <1>0, ReplayedStep
<1>5. QED
  BY <1>0, <1>3, <1>4 DEF Replay, more

-----------------------------------------------------------------------------
(* Paths of dependencies.                                                   *)

\* An edge is a path, and paths join.
LEMMA PathsJoin ==
  ASSUME NEW deps
  PROVE  /\ \A a, b : <<a, b>> \in deps => Reaches(deps, a, b)
         /\ \A a, b, c : Reaches(deps, a, b) /\ Reaches(deps, b, c) => Reaches(deps, a, c)
<1>1. ASSUME NEW a, NEW b, <<a, b>> \in deps
      PROVE  Reaches(deps, a, b)
  BY <1>1 DEF Reaches, Follows
<1>2. ASSUME NEW a, NEW b, NEW c, Reaches(deps, a, b), Reaches(deps, b, c)
      PROVE  Reaches(deps, a, c)
  <2> SUFFICES ASSUME NEW S \in SUBSET Claims, Follows(deps, a, S)
               PROVE  c \in S
    BY DEF Reaches
  <2>1. b \in S
    BY <1>2 DEF Reaches
  <2>2. Follows(deps, b, S)
    BY <2>1 DEF Follows
  <2>3. QED
    BY <1>2, <2>2 DEF Reaches
<1>3. QED
  BY <1>1, <1>2

\* A path starts and ends with an edge.
LEMMA PathEnds ==
  ASSUME NEW deps \in SUBSET (Claims \X Claims), NEW a, NEW b, Reaches(deps, a, b)
  PROVE  (\E d \in deps : d[1] = a) /\ (\E d \in deps : d[2] = b)
<1>1. ASSUME ~ \E d \in deps : d[1] = a
      PROVE  FALSE
  <2>1. Follows(deps, a, {})
    BY <1>1 DEF Follows
  <2>2. QED
    BY <2>1 DEF Reaches
<1>2. ASSUME ~ \E d \in deps : d[2] = b
      PROVE  FALSE
  <2>1. Follows(deps, a, Claims \ {b})
    BY <1>2 DEF Follows
  <2>2. QED
    BY <2>1 DEF Reaches
<1>3. QED
  BY <1>1, <1>2

\* What a path over one more edge needs of the edges there were.
LEMMA PathsOverEdge ==
  ASSUME NEW deps \in SUBSET (Claims \X Claims), NEW a \in Claims, NEW b \in Claims,
         NEW x, NEW y, Reaches(deps \cup {<<a, b>>}, x, y)
  PROVE  \/ Reaches(deps, x, y)
         \/ (x = a \/ Reaches(deps, x, a)) /\ (y = b \/ Reaches(deps, b, y))
<1> DEFINE more == deps \cup {<<a, b>>}
           From(z) == {c \in Claims : Reaches(deps, z, c)}
<1>1. ASSUME NEW z, NEW d \in deps, d[1] \in From(z) \cup {z}
      PROVE  d[2] \in From(z)
  <2>1. Reaches(deps, d[1], d[2])
    BY PathsJoin
  <2>2. QED
    BY <1>1, <2>1, PathsJoin
<1>2. CASE x = a \/ Reaches(deps, x, a)
  <2> DEFINE S == From(x) \cup {b} \cup From(b)
  <2>1. Follows(more, x, S)
    BY <1>1 DEF Follows
  <2>2. y \in S
    BY <2>1 DEF Reaches
  <2>3. QED
    BY <1>2, <2>2
<1>3. CASE ~ (x = a \/ Reaches(deps, x, a))
  <2>1. Follows(more, x, From(x))
    BY <1>1, <1>3 DEF Follows
  <2>2. y \in From(x)
    BY <2>1 DEF Reaches
  <2>3. QED
    BY <2>2
<1>4. QED
  BY <1>2, <1>3

\* The check of add_claim_dependency is enough: an edge that closes no path leaves the
\* dependencies of distinct claims without a cycle.
LEMMA CheckedEdge ==
  ASSUME NEW deps \in SUBSET (Claims \X Claims), NEW a \in Claims, NEW b \in Claims,
         ~ Circular(deps), ~ Reaches(deps, b, a)
  PROVE  ~ Circular(deps \cup {<<a, b>>})
<1> SUFFICES ASSUME NEW x \in Claims, NEW y \in Claims, x # y,
                    Reaches(deps \cup {<<a, b>>}, x, y), Reaches(deps \cup {<<a, b>>}, y, x)
             PROVE  FALSE
  BY DEF Circular
<1> DEFINE Over(u, v) == (u = a \/ Reaches(deps, u, a)) /\ (v = b \/ Reaches(deps, b, v))
<1>1. Reaches(deps, x, y) \/ Over(x, y)
  BY PathsOverEdge
<1>2. Reaches(deps, y, x) \/ Over(y, x)
  BY PathsOverEdge
<1>3. \A u, v, w : Reaches(deps, u, v) /\ Reaches(deps, v, w) => Reaches(deps, u, w)
  BY PathsJoin
<1>4. ~ (Reaches(deps, x, y) /\ Reaches(deps, y, x))
  BY DEF Circular
<1>5. QED
  BY <1>1, <1>2, <1>3, <1>4

\* A journal whose every dependency passed its check has no cycle anywhere in its chain.
Unrefused(events) == \A i \in 1..Len(events) : ~ Refused(Replayed(events)[i - 1], events[i])

\* The edge a merge adds closes no path, so no cycle of distinct claims either.
LEMMA UnrefusedIsAcyclic ==
  ASSUME NEW events \in Seq(Events), Len(events) <= MaxEvents, Unrefused(events)
  PROVE  \A n \in 0..Len(events) : ~ Circular(Depends(Replayed(events)[n]))
<1> DEFINE Fine(h) == ~ Circular(Depends(h))
           S == {n \in Nat : n \in 0..Len(events) => Fine(Replayed(events)[n])}
<1>0. Len(events) \in Nat
  OBVIOUS
<1>1. 0 \in S
  <2>1. Depends(NoGraph) = {}
    BY DEF NoGraph, Depends, Related
  <2>2. ASSUME NEW a, NEW b
        PROVE  ~ Reaches(Depends(NoGraph), a, b)
    BY <2>1, PathEnds
  <2>3. QED
    BY <1>0, <2>2, ReplayedStep DEF Circular
<1>2. \A n \in S : n + 1 \in S
  <2> SUFFICES ASSUME NEW n \in Nat, n + 1 \in 0..Len(events), Fine(Replayed(events)[n])
               PROVE  Fine(Replayed(events)[n + 1])
    OBVIOUS
  <2> DEFINE g == Replayed(events)[n]
             e == events[n + 1]
             x == AsReplayed(e)
  <2>1. Replayed(events)[n + 1] = Project(g, x, n + 1)
    BY <1>0, ReplayedStep
  <2>2. x \in Arguments /\ n + 1 \in 1..MaxEvents /\ (x \in Dependencies => x = e)
    BY Passed, GraphAssumption
  <2>3. g \in GraphType /\ Found(g)
    BY ReplayedTyped
  <2>4. x \in Dependencies => ~ Refused(g, x)
    BY <2>2 DEF Unrefused
  <2>5. Depends(g) \in SUBSET (Claims \X Claims)
    BY <2>3 DEF Found
  <2> HIDE DEF g, e, x
  <2>6. CASE Depends(Project(g, x, n + 1)) = Depends(g)
    BY <2>1, <2>6 DEF g
  <2>7. ASSUME NEW a \in Claims, NEW b \in Claims, x = DependencyAdded(a, b),
               Depends(Project(g, x, n + 1)) = Depends(g) \cup {<<a, b>>}
        PROVE  Fine(Replayed(events)[n + 1])
    <3>1. ~ Reaches(Depends(g), b, a)
      BY <2>4, <2>7 DEF Refused, CycleExists, Dependencies, DependencyAdded
    <3>2. ~ Circular(Depends(g))
      BY DEF g
    <3>3. QED
      BY <2>1, <2>5, <2>7, <3>1, <3>2, CheckedEdge
  <2>8. QED
    <3>1. \A a, b : x = DependencyAdded(a, b) => x.claim = a /\ x.on = b
      BY DEF DependencyAdded
    <3>2. CASE \E a \in Claims, b \in Claims :
                 x = DependencyAdded(a, b) /\ g.claim[a] # None /\ g.claim[b] # None
      <4>1. PICK a \in Claims, b \in Claims : x = DependencyAdded(a, b)
        BY <3>2
      <4>2. Depends(Project(g, x, n + 1)) = Depends(g) \cup {<<x.claim, x.on>>}
        BY <2>2, <2>3, <3>2, ProjectTyped
      <4>3. QED
        BY <2>7, <3>1, <4>1, <4>2
    <3>3. CASE ~ \E a \in Claims, b \in Claims :
                 x = DependencyAdded(a, b) /\ g.claim[a] # None /\ g.claim[b] # None
      BY <2>2, <2>3, <2>6, <3>3, ProjectTyped
    <3>4. QED
      BY <3>2, <3>3
<1>3. \A n \in Nat : n \in S
  BY <1>1, <1>2, Counting
<1>4. QED
  BY <1>3

\* Journalling an event that is not refused keeps it so.
LEMMA UnrefusedAppend ==
  ASSUME NEW events \in Seq(Events), NEW e \in Events, Unrefused(events), ~ Refused(Replay(events), e)
  PROVE  Unrefused(Append(events, e))
<1> DEFINE more == Append(events, e)
<1>1. /\ Len(events) \in Nat /\ Len(more) = Len(events) + 1
      /\ more[Len(more)] = e /\ \A n \in 1..Len(events) : more[n] = events[n]
  OBVIOUS
<1>2. \A n \in 0..Len(events) : Replayed(more)[n] = Replayed(events)[n]
  BY ReplayedAppend
<1> HIDE DEF more
<1>3. \A i \in 1..Len(events) : i - 1 \in 0..Len(events)
  BY <1>1
<1>4. ASSUME NEW i \in 1..Len(more)
      PROVE  ~ Refused(Replayed(more)[i - 1], more[i])
  <2>1. CASE i \in 1..Len(events)
    BY <1>1, <1>2, <1>3, <2>1 DEF Unrefused
  <2>2. CASE i = Len(more)
    <3>1. i - 1 = Len(events) /\ Len(events) \in 0..Len(events)
      BY <1>1, <2>2
    <3>2. Replayed(more)[i - 1] = Replay(events)
      BY <1>2, <3>1 DEF Replay
    <3>3. QED
      BY <1>1, <2>2, <3>2
  <2>3. QED
    BY <1>1, <2>1, <2>2
<1>5. QED
  BY <1>4 DEF Unrefused, more

-----------------------------------------------------------------------------
(* What a rebuild restores.                                                 *)

\* The graphs of the two chains hold the same nodes, edges, claims and states, and agree on
\* which moves are closed.
LEMMA RestoresReads ==
  ASSUME NEW r, NEW l, NEW U, Restores(r, l, U)
  PROVE  /\ Depends(r) = Depends(l)
         /\ \A m \in Moves : /\ Subgoals(r, m) = Subgoals(l, m)
                             /\ r.move[m] = "closed" <=> l.move[m] = "closed"
                             /\ r.move[m] = None <=> l.move[m] = None
         /\ \A s \in States : Proposed(r, s) = Proposed(l, s) /\ Used(r, s) = Used(l, s)
<1>1. "open" # None /\ "queued" # None
  BY EventAssumption DEF MoveStatuses
<1>2. QED
  BY <1>1 DEF Restores, Depends, Subgoals, Proposed, Used, Related

\* Opening a state.
LEMMA RestoresOpen ==
  ASSUME NEW r \in GraphType, NEW l \in GraphType, NEW U, Restores(r, l, U),
         NEW s \in States, NEW found, NEW edge
  PROVE  /\ Restores(OpenState(r, s), OpenState(l, s), U)
         /\ Restores(OpenByEdge(r, s, found, edge), OpenByEdge(l, s, found, edge), U)
<1>1. Restores(OpenState(r, s), OpenState(l, s), U)
  BY DEF Restores, OpenState, GraphType
<1>2. CASE found /\ edge \notin r.edges
  <2>1. /\ OpenByEdge(r, s, found, edge) = [r EXCEPT !.state[s] = "open", !.edges = @ \cup {edge}]
        /\ OpenByEdge(l, s, found, edge) = [l EXCEPT !.state[s] = "open", !.edges = @ \cup {edge}]
    BY <1>2 DEF OpenByEdge, Restores
  <2>2. QED
    BY <1>1, <2>1 DEF Restores, GraphType
<1>3. CASE ~ (found /\ edge \notin r.edges)
  BY <1>1, <1>3 DEF OpenByEdge, Restores
<1>4. QED
  BY <1>2, <1>3

\* Adding a link.
LEMMA RestoresLink ==
  ASSUME NEW r \in GraphType, NEW l \in GraphType, NEW U, Restores(r, l, U),
         NEW rel, NEW from, NEW to, NEW found, NEW id
  PROVE  Restores(Link(r, rel, from, to, found, id), Link(l, rel, from, to, found, id), U)
<1>1. CASE found
  BY <1>1 DEF Restores, Link, GraphType
<1>2. CASE ~ found
  BY <1>2 DEF Link
<1>3. QED
  BY <1>1, <1>2

\* Adding a move, with the status each side gives it and with or without details.
LEMMA RestoresMove ==
  ASSUME NEW r \in GraphType, NEW l \in GraphType, NEW U, Restores(r, l, U),
         NEW m \in Moves, NEW s \in States, NEW id, NEW rst, NEW lst, NEW rd, NEW ld,
         rst # lst => m \in U /\ rst = "open" /\ lst = "queued"
  PROVE  Restores(AddMove(r, m, s, rst, rd, id), AddMove(l, m, s, lst, ld, id), U)
<1> DEFINE edge == <<"PROPOSES", s, m, id>>
           new  == r.state[s] # None /\ edge \notin r.edges
           rnow == IF rd /\ r.move[m] = None THEN r.details \cup {<<"Move", m>>} ELSE r.details
           lnow == IF ld /\ l.move[m] = None THEN l.details \cup {<<"Move", m>>} ELSE l.details
           R == AddMove(r, m, s, rst, rd, id)
           L == AddMove(l, m, s, lst, ld, id)
<1>1. /\ R = [r EXCEPT !.move[m] = IF @ = None \/ new THEN rst ELSE @,
                       !.edges = IF new THEN @ \cup {edge} ELSE @, !.details = rnow]
      /\ L = [l EXCEPT !.move[m] = IF @ = None \/ new THEN lst ELSE @,
                       !.edges = IF new THEN @ \cup {edge} ELSE @, !.details = lnow]
  BY DEF AddMove, Restores, GraphType
<1> HIDE DEF edge, new, rnow, lnow, R, L
<1>2. /\ R.proof = r.proof /\ R.state = r.state /\ R.claim = r.claim
      /\ L.proof = l.proof /\ L.state = l.state /\ L.claim = l.claim
      /\ R.edges = (IF new THEN r.edges \cup {edge} ELSE r.edges)
      /\ L.edges = (IF new THEN l.edges \cup {edge} ELSE l.edges)
  BY <1>1 DEF GraphType
<1>3. /\ R.move = [r.move EXCEPT ![m] = IF @ = None \/ new THEN rst ELSE @]
      /\ L.move = [l.move EXCEPT ![m] = IF @ = None \/ new THEN lst ELSE @]
  BY <1>1 DEF GraphType
<1>4. /\ r.move \in [Moves -> MoveStatuses \cup {None}] /\ l.move \in [Moves -> MoveStatuses \cup {None}]
      /\ r.move[m] = None <=> l.move[m] = None
  BY RestoresReads DEF GraphType
<1>5. \A n \in Moves : R.move[n] # L.move[n] => n \in U /\ R.move[n] = "open" /\ L.move[n] = "queued"
  BY <1>3, <1>4 DEF Restores
<1>6. QED
  BY <1>2, <1>5 DEF Restores, R, L

\* A pass of the closure: an open move and a queued one close alike.
LEMMA RestoresPass ==
  ASSUME NEW r \in GraphType, NEW l \in GraphType, NEW U, Restores(r, l, U)
  PROVE  Restores(CloseStates(CloseMoves(r)), CloseStates(CloseMoves(l)), U)
<1>1. /\ CloseMoves(r) \in GraphType /\ CloseMoves(l) \in GraphType
      /\ Restores(CloseMoves(r), CloseMoves(l), U)
  <2> DEFINE Closes(g, m) == g.move[m] # None /\ \A s \in Subgoals(g, m) : g.state[s] \in Settled
  <2>1. \A g \in GraphType :
          /\ CloseMoves(g) \in GraphType
          /\ CloseMoves(g).proof = g.proof /\ CloseMoves(g).state = g.state
          /\ CloseMoves(g).claim = g.claim /\ CloseMoves(g).edges = g.edges
          /\ \A m \in Moves : CloseMoves(g).move[m] = IF Closes(g, m) THEN "closed" ELSE g.move[m]
    BY DEF CloseMoves, GraphType, MoveStatuses
  <2>2. \A m \in Moves : Closes(r, m) <=> Closes(l, m)
    BY RestoresReads DEF Restores
  <2> HIDE DEF Closes
  <2>3. QED
    BY <2>1, <2>2 DEF Restores
<1>2. ASSUME NEW g \in GraphType, NEW h \in GraphType, Restores(g, h, U)
      PROVE  Restores(CloseStates(g), CloseStates(h), U)
  <2> DEFINE Closes(k, s) == /\ k.state[s] \notin Settled \cup {None}
                             /\ \E m \in Proposed(k, s) : k.move[m] = "closed"
  <2>1. \A k \in GraphType :
          /\ CloseStates(k).proof = k.proof /\ CloseStates(k).move = k.move
          /\ CloseStates(k).claim = k.claim /\ CloseStates(k).edges = k.edges
          /\ CloseStates(k).state = [s \in States |-> CloseStates(k).state[s]]
          /\ \A s \in States :
               CloseStates(k).state[s] = IF Closes(k, s) THEN "formally-closed" ELSE k.state[s]
    BY DEF CloseStates, GraphType
  <2>2. \A s \in States : Proposed(g, s) \subseteq Moves
    BY DEF Proposed
  <2>3. g.state = h.state /\ \A s \in States : Closes(g, s) <=> Closes(h, s)
    BY <1>2, <2>2, RestoresReads DEF Restores
  <2> HIDE DEF Closes
  <2> DEFINE G == CloseStates(g)
             H == CloseStates(h)
  <2>4. /\ G.proof = g.proof /\ G.move = g.move /\ G.claim = g.claim /\ G.edges = g.edges
        /\ H.proof = h.proof /\ H.move = h.move /\ H.claim = h.claim /\ H.edges = h.edges
        /\ G.state = [s \in States |-> G.state[s]] /\ H.state = [s \in States |-> H.state[s]]
        /\ \A s \in States : G.state[s] = IF Closes(g, s) THEN "formally-closed" ELSE g.state[s]
        /\ \A s \in States : H.state[s] = IF Closes(h, s) THEN "formally-closed" ELSE h.state[s]
    BY <2>1
  <2> HIDE DEF G, H
  <2>5. \A s \in States : G.state[s] = H.state[s]
    BY <2>3, <2>4
  <2>6. G.state = H.state
    BY <2>4, <2>5
  <2>7. Restores(G, H, U)
    BY <1>2, <2>4, <2>6 DEF Restores
  <2>8. QED
    BY <2>7 DEF G, H
<1>3. QED
  BY <1>1, <1>2

\* A closing.
LEMMA RestoresClose ==
  ASSUME NEW r \in GraphType, NEW l \in GraphType, NEW U, Restores(r, l, U), NEW s \in States
  PROVE  Restores(CloseState(r, s), CloseState(l, s), U)
<1> DEFINE Start(g) == [UpdateStateStatus(g, s, "formally-closed") EXCEPT
                   !.move = [m \in Moves |-> IF m \in Proposed(g, s) THEN "closed" ELSE g.move[m]]]
<1>1. ASSUME NEW g \in GraphType
      PROVE  /\ Start(g) \in GraphType
             /\ Start(g).proof = g.proof /\ Start(g).claim = g.claim /\ Start(g).edges = g.edges
             /\ Start(g).state = [g.state EXCEPT ![s] = IF @ = None THEN None ELSE "formally-closed"]
             /\ \A m \in Moves : Start(g).move[m] = IF m \in Proposed(g, s) THEN "closed" ELSE g.move[m]
  <2> DEFINE moved == [m \in Moves |-> IF m \in Proposed(g, s) THEN "closed" ELSE g.move[m]]
             u     == UpdateStateStatus(g, s, "formally-closed")
  <2>1. /\ u \in GraphType
        /\ u.proof = g.proof /\ u.claim = g.claim /\ u.edges = g.edges
        /\ u.state = [g.state EXCEPT ![s] = IF @ = None THEN None ELSE "formally-closed"]
    BY DEF UpdateStateStatus, GraphType, StateStatuses
  <2>2. moved \in [Moves -> MoveStatuses \cup {None}]
    BY DEF GraphType, MoveStatuses
  <2>3. \A m \in Moves : moved[m] = IF m \in Proposed(g, s) THEN "closed" ELSE g.move[m]
    OBVIOUS
  <2>4. Start(g) = [u EXCEPT !.move = moved]
    OBVIOUS
  <2> HIDE DEF moved, u, Start
  <2>5. QED
    BY <2>1, <2>2, <2>3, <2>4 DEF GraphType
<1>2. \A g : CloseState(g, s) = Passes(Start(g))[MaxIter]
  BY DEF CloseState, PropagateClosures
<1> HIDE DEF Start
<1>3. Start(r) \in GraphType /\ Start(l) \in GraphType /\ Restores(Start(r), Start(l), U)
  <2> DEFINE R == Start(r)
             L == Start(l)
  <2>1. /\ R \in GraphType /\ L \in GraphType
        /\ R.proof = r.proof /\ R.claim = r.claim /\ R.edges = r.edges
        /\ L.proof = l.proof /\ L.claim = l.claim /\ L.edges = l.edges
        /\ R.state = [r.state EXCEPT ![s] = IF @ = None THEN None ELSE "formally-closed"]
        /\ L.state = [l.state EXCEPT ![s] = IF @ = None THEN None ELSE "formally-closed"]
        /\ \A m \in Moves : R.move[m] = IF m \in Proposed(r, s) THEN "closed" ELSE r.move[m]
        /\ \A m \in Moves : L.move[m] = IF m \in Proposed(l, s) THEN "closed" ELSE l.move[m]
    BY <1>1
  <2> HIDE DEF R, L
  <2>2. Proposed(r, s) = Proposed(l, s)
    BY RestoresReads
  <2>3. Restores(R, L, U)
    BY <2>1, <2>2 DEF Restores
  <2>4. QED
    BY <2>1, <2>3 DEF R, L
<1> DEFINE Alike(n) == Restores(Passes(Start(r))[n], Passes(Start(l))[n], U)
           S == {n \in Nat : n \in 0..MaxIter => Alike(n)}
<1>4. 0 \in S
  BY <1>3, PassesStep
<1>5. \A n \in S : n + 1 \in S
  <2> SUFFICES ASSUME NEW n \in Nat, n + 1 \in 0..MaxIter, Alike(n)
               PROVE  Alike(n + 1)
    BY GraphAssumption
  <2>1. \A g : Passes(g)[n + 1] = CloseStates(CloseMoves(Passes(g)[n]))
    BY PassesStep, GraphAssumption
  <2>2. Passes(Start(r))[n] \in GraphType /\ Passes(Start(l))[n] \in GraphType
    BY <1>3, ClosuresTyped, GraphAssumption
  <2>3. QED
    BY <2>1, <2>2, RestoresPass
<1>6. \A n \in Nat : n \in S
  <2> HIDE DEF S
  <2>1. S \in SUBSET Nat
    BY DEF S
  <2>2. QED
    BY <1>4, <1>5, <2>1, Counting
<1>7. QED
  BY <1>2, <1>6, GraphAssumption

\* The methods of the other events set the same fields on both sides.
LEMMA RestoresUpdate ==
  ASSUME NEW r \in GraphType, NEW l \in GraphType, NEW U, Restores(r, l, U)
  PROVE  /\ \A d, x \in BOOLEAN : Restores(InitProof(r, d), InitProof(l, x), U)
         /\ \A c \in Claims : \A st, d, x : Restores(AddClaim(r, c, st, d), AddClaim(l, c, st, x), U)
         /\ \A m \in Moves : \A st : Restores(UpdateMoveStatus(r, m, st), UpdateMoveStatus(l, m, st), U)
         /\ \A s \in States : \A st : Restores(UpdateStateStatus(r, s, st), UpdateStateStatus(l, s, st), U)
         /\ \A c \in Claims : \A st : Restores(UpdateClaimStatus(r, c, st), UpdateClaimStatus(l, c, st), U)
         /\ \A c \in Claims : Restores(PropagateTaint(r, c), PropagateTaint(l, c), U)
<1>1. ASSUME NEW d \in BOOLEAN, NEW x \in BOOLEAN
      PROVE  Restores(InitProof(r, d), InitProof(l, x), U)
  BY DEF Restores, InitProof, GraphType
<1>2. ASSUME NEW c \in Claims, NEW st, NEW d, NEW x
      PROVE  Restores(AddClaim(r, c, st, d), AddClaim(l, c, st, x), U)
  BY DEF Restores, AddClaim, GraphType
<1>3. ASSUME NEW m \in Moves, NEW st
      PROVE  Restores(UpdateMoveStatus(r, m, st), UpdateMoveStatus(l, m, st), U)
  BY RestoresReads DEF Restores, UpdateMoveStatus, GraphType
<1>4. ASSUME NEW s \in States, NEW st
      PROVE  Restores(UpdateStateStatus(r, s, st), UpdateStateStatus(l, s, st), U)
  BY DEF Restores, UpdateStateStatus, GraphType
<1>5. ASSUME NEW c \in Claims, NEW st
      PROVE  Restores(UpdateClaimStatus(r, c, st), UpdateClaimStatus(l, c, st), U)
  BY DEF Restores, UpdateClaimStatus, GraphType
<1>6. ASSUME NEW c \in Claims
      PROVE  Restores(PropagateTaint(r, c), PropagateTaint(l, c), U)
  <2>1. /\ Depends(r) = Depends(l) /\ \A s \in States : Used(r, s) = Used(l, s)
        /\ r.state = l.state /\ r.claim = l.claim /\ r.edges = l.edges /\ r.proof = l.proof
    BY RestoresReads DEF Restores
  <2> DEFINE Tainted(g) == {d \in Claims : Reaches(Depends(g), d, c)}
             Refuted(g) == [g.claim EXCEPT ![c] = IF @ = None THEN None ELSE "refuted"]
             Claimed(g) == [d \in Claims |-> IF d \in Tainted(g) THEN "tainted" ELSE Refuted(g)[d]]
             Opened(g)  == [s \in States |-> IF g.state[s] = "formally-closed" /\ Used(g, s) \cap Tainted(g) # {}
                                             THEN "reopened" ELSE g.state[s]]
  <2>2. \A g \in GraphType :
          /\ PropagateTaint(g, c).proof = g.proof /\ PropagateTaint(g, c).edges = g.edges
          /\ PropagateTaint(g, c).move = g.move
          /\ PropagateTaint(g, c).claim = Claimed(g) /\ PropagateTaint(g, c).state = Opened(g)
    BY DEF PropagateTaint, UpdateClaimStatus, GraphType
  <2>3. Tainted(r) = Tainted(l) /\ Refuted(r) = Refuted(l)
    BY <2>1
  <2> HIDE DEF Tainted, Refuted
  <2>4. Claimed(r) = Claimed(l) /\ Opened(r) = Opened(l)
    BY <2>1, <2>3
  <2> HIDE DEF Claimed, Opened
  <2>5. QED
    BY <2>2, <2>4 DEF Restores
<1>7. QED
  BY <1>1, <1>2, <1>3, <1>4, <1>5, <1>6

\* So whatever event comes next, its replay restores what its call built.
LEMMA RestoresStep ==
  ASSUME NEW r \in GraphType, NEW l \in GraphType, NEW U, Restores(r, l, U),
         NEW e \in Events, NEW id \in 1..MaxEvents,
         e.type = "move_added" /\ e.status = None => e.move \in U
  PROVE  Restores(Project(r, AsReplayed(e), id), Project(l, AsCalled(e), id), U)
<1> DEFINE R == Project(r, AsReplayed(e), id)
           L == Project(l, AsCalled(e), id)
<1>1. CASE e \in Added(MoveStatuses \cup {None})
  <2>1. PICK m \in Moves, s \in States, st \in MoveStatuses \cup {None}, d \in BOOLEAN :
               e = MoveAdded(m, s, st, d)
    BY <1>1 DEF Added
  <2> DEFINE rst == IF st = None THEN "open" ELSE st
             lst == IF st = None THEN "queued" ELSE st
  <2>2. AsCalled(e) = MoveAdded(m, s, lst, d) /\ AsReplayed(e) = MoveAdded(m, s, rst, FALSE)
    BY <2>1 DEF AsCalled, AsReplayed, MoveAdded
  <2>3. rst # lst => m \in U /\ rst = "open" /\ lst = "queued"
    BY <2>1 DEF MoveAdded
  <2> HIDE DEF rst, lst
  <2>4. R = AddMove(r, m, s, rst, FALSE, id) /\ L = AddMove(l, m, s, lst, d, id)
    BY <2>2 DEF Project, MoveAdded
  <2> HIDE DEF R, L
  <2>5. Restores(R, L, U)
    BY <2>3, <2>4, RestoresMove
  <2>6. QED
    BY <2>5 DEF R, L
<1>2. ASSUME NEW d \in BOOLEAN, e = ProjectInit(d)
      PROVE  Restores(R, L, U)
  <2>1. R = InitProof(r, FALSE) /\ L = InitProof(l, d)
    BY <1>2 DEF ProjectInit, AsReplayed, AsCalled, Project
  <2> HIDE DEF R, L
  <2>2. QED
    BY <2>1, RestoresUpdate
<1>3. ASSUME NEW c \in Claims, NEW st \in ClaimStatuses, NEW d \in BOOLEAN, e = ClaimAdded(c, st, d)
      PROVE  Restores(R, L, U)
  <2>1. R = AddClaim(r, c, st, FALSE) /\ L = AddClaim(l, c, st, d)
    BY <1>3 DEF ClaimAdded, AsReplayed, AsCalled, Project
  <2> HIDE DEF R, L
  <2>2. QED
    BY <2>1, RestoresUpdate
<1>4. ASSUME NEW s \in States, e = StateAdded(s)
      PROVE  Restores(R, L, U)
  <2> DEFINE edge == <<"HAS_STATE", None, s, id>>
  <2>1. /\ R = OpenByEdge(OpenState(r, s), s, r.proof, edge)
        /\ L = OpenByEdge(OpenState(l, s), s, r.proof, edge)
    BY <1>4 DEF StateAdded, AsReplayed, AsCalled, Project, AddState, Restores
  <2>2. OpenState(r, s) \in GraphType /\ OpenState(l, s) \in GraphType
    BY DEF OpenState, GraphType, StateStatuses
  <2> HIDE DEF R, L, edge
  <2>3. QED
    BY <2>1, <2>2, RestoresOpen
<1>5. ASSUME NEW a \in Claims, NEW b \in Claims, e = DependencyAdded(a, b)
      PROVE  Restores(R, L, U)
  <2> DEFINE found == r.claim[a] # None /\ r.claim[b] # None
  <2>1. R = Link(r, "DEPENDS_ON", a, b, found, id) /\ L = Link(l, "DEPENDS_ON", a, b, found, id)
    BY <1>5 DEF DependencyAdded, AsReplayed, AsCalled, Project, MergeDependsOn, Restores
  <2> HIDE DEF R, L, found
  <2>2. QED
    BY <2>1, RestoresLink
<1>6. ASSUME NEW m \in Moves, NEW s \in States, e = SubgoalAdded(m, s)
      PROVE  Restores(R, L, U)
  <2> DEFINE first == <<"HAS_STATE", None, s, id>>
             edge  == <<"REQUIRES", m, s, id>>
             there == r.move[m] # None
             A(g)  == OpenByEdge(OpenState(g, s), s, r.proof, first)
  <2>1. R = OpenByEdge(A(r), s, there, edge) /\ L = OpenByEdge(A(l), s, there, edge)
    <3>1. l.proof = r.proof /\ (r.move[m] = None <=> l.move[m] = None)
      <4> HIDE DEF R, L, first, edge, there, A
      <4>1. l.proof = r.proof
        BY DEF Restores
      <4>2. \A n \in Moves : r.move[n] = None <=> l.move[n] = None
        BY RestoresReads
      <4>3. QED
        BY <4>1, <4>2
    <3>2. R = AddRequiredSubgoal(r, m, s, id) /\ L = AddRequiredSubgoal(l, m, s, id)
      BY <1>6 DEF SubgoalAdded, AsReplayed, AsCalled, Project
    <3> HIDE DEF R, L
    <3>3. (l.move[m] # None) <=> there
      BY <3>1
    <3>5. OpenByEdge(A(l), s, l.move[m] # None, edge) = OpenByEdge(A(l), s, there, edge)
      BY <3>3 DEF OpenByEdge
    <3>6. QED
      BY <3>1, <3>2, <3>5 DEF AddRequiredSubgoal, AddState
  <2>2. OpenState(r, s) \in GraphType /\ OpenState(l, s) \in GraphType
    BY DEF OpenState, GraphType, StateStatuses
  <2>3. first \in EdgeType /\ first[1] # "DEPENDS_ON"
    BY DEF EdgeType, Rels
  <2> HIDE DEF R, L, first, edge, there
  <2>4. Restores(A(r), A(l), U)
    BY <2>2, RestoresOpen
  <2>5. A(r) \in GraphType /\ A(l) \in GraphType
    BY <2>2, <2>3, OpenTyped DEF SameClaims
  <2> HIDE DEF A
  <2>6. QED
    BY <2>1, <2>4, <2>5, RestoresOpen
<1>7. ASSUME NEW m \in Moves, NEW st \in MoveStatuses, e = MoveUpdated(m, st)
      PROVE  Restores(R, L, U)
  <2>1. R = UpdateMoveStatus(r, m, st) /\ L = UpdateMoveStatus(l, m, st)
    BY <1>7 DEF MoveUpdated, AsReplayed, AsCalled, Project
  <2> HIDE DEF R, L
  <2>2. QED
    BY <2>1, RestoresUpdate
<1>8. ASSUME NEW s \in States, e = StateClosed(s)
      PROVE  Restores(R, L, U)
  <2>1. R = CloseState(r, s) /\ L = CloseState(l, s)
    BY <1>8 DEF StateClosed, AsReplayed, AsCalled, Project
  <2> HIDE DEF R, L
  <2>2. QED
    BY <2>1, RestoresClose
<1>9. ASSUME NEW s \in States, e = StateReopened(s)
      PROVE  Restores(R, L, U)
  <2>1. R = UpdateStateStatus(r, s, "reopened") /\ L = UpdateStateStatus(l, s, "reopened")
    BY <1>9 DEF StateReopened, AsReplayed, AsCalled, Project
  <2> HIDE DEF R, L
  <2>2. QED
    BY <2>1, RestoresUpdate
<1>10. ASSUME NEW c \in Claims, NEW st \in ClaimStatuses, e = ClaimUpdated(c, st)
       PROVE  Restores(R, L, U)
  <2>1. R = UpdateClaimStatus(r, c, st) /\ L = UpdateClaimStatus(l, c, st)
    BY <1>10 DEF ClaimUpdated, AsReplayed, AsCalled, Project
  <2> HIDE DEF R, L
  <2>2. QED
    BY <2>1, RestoresUpdate
<1>11. ASSUME NEW c \in Claims, e = TaintPropagated(c)
       PROVE  Restores(R, L, U)
  <2>1. R = PropagateTaint(r, c) /\ L = PropagateTaint(l, c)
    BY <1>11 DEF TaintPropagated, AsReplayed, AsCalled, Project
  <2> HIDE DEF R, L
  <2>2. QED
    BY <2>1, RestoresUpdate
<1>12. ASSUME NEW s \in States, NEW c \in Claims, e = StateClaimLinked(s, c)
       PROVE  Restores(R, L, U)
  <2> DEFINE found == r.state[s] # None /\ r.claim[c] # None
  <2>1. R = Link(r, "USES_CLAIM", s, c, found, id) /\ L = Link(l, "USES_CLAIM", s, c, found, id)
    BY <1>12 DEF StateClaimLinked, AsReplayed, AsCalled, Project, LinkStateClaim, Restores
  <2> HIDE DEF R, L, found
  <2>2. QED
    BY <2>1, RestoresLink
<1>13. QED
  BY <1>1, <1>2, <1>3, <1>4, <1>5, <1>6, <1>7, <1>8, <1>9, <1>10, <1>11, <1>12
  DEF Events, Dependencies, Recordable, OtherEvents

\* Step for step, the chain a rebuild goes through restores the callers' chain.
LEMMA ChainsRestore ==
  ASSUME NEW events \in Seq(Events), Len(events) <= MaxEvents
  PROVE  \A n \in 0..Len(events) : Restores(Replayed(events)[n], Called(events)[n], Unnamed(events))
<1> DEFINE Fine(n) == Restores(Replayed(events)[n], Called(events)[n], Unnamed(events))
           S == {n \in Nat : n \in 0..Len(events) => Fine(n)}
<1>0. Len(events) \in Nat
  OBVIOUS
<1>1. 0 \in S
  BY <1>0, ReplayedStep, CalledStep DEF Restores
<1>2. \A n \in S : n + 1 \in S
  <2> SUFFICES ASSUME NEW n \in Nat, n + 1 \in 0..Len(events), Fine(n)
               PROVE  Fine(n + 1)
    OBVIOUS
  <2> DEFINE r == Replayed(events)[n]
             l == Called(events)[n]
             e == events[n + 1]
             U == Unnamed(events)
  <2>1. /\ Replayed(events)[n + 1] = Project(r, AsReplayed(e), n + 1)
        /\ Called(events)[n + 1] = Project(l, AsCalled(e), n + 1)
    BY <1>0, ReplayedStep, CalledStep
  <2>2. r \in GraphType /\ l \in GraphType /\ Restores(r, l, U)
    BY ReplayedTyped
  <2>3. e \in Events /\ n + 1 \in 1..MaxEvents /\ n + 1 \in 1..Len(events)
    BY GraphAssumption
  <2>4. ASSUME e.type = "move_added"
        PROVE  e.move \in Moves
    BY <2>3, <2>4 DEF Events, Recordable, OtherEvents, Added, Dependencies, ProjectInit, StateAdded,
       StateClosed, StateReopened, ClaimAdded, ClaimUpdated, TaintPropagated, MoveAdded, MoveUpdated,
       SubgoalAdded, StateClaimLinked, DependencyAdded
  <2>5. e.type = "move_added" /\ e.status = None => e.move \in U
    BY <2>3, <2>4 DEF Unnamed
  <2> HIDE DEF r, l, e, U
  <2>6. Restores(Project(r, AsReplayed(e), n + 1), Project(l, AsCalled(e), n + 1), U)
    BY <2>2, <2>3, <2>5, RestoresStep
  <2>7. QED
    BY <2>1, <2>6 DEF U
<1>3. \A n \in Nat : n \in S
  <2> HIDE DEF S
  <2>1. S \in SUBSET Nat
    BY DEF S
  <2>2. QED
    BY <1>1, <1>2, <2>1, Counting
<1>4. QED
  BY <1>3

-----------------------------------------------------------------------------
(* The inductive invariant.                                                 *)

\* Events in the journal.
Journalled == log \in Seq(Events) /\ Len(log) <= MaxEvents

\* What replaying the journal gives restores the live graph.
LiveFits == Restores(Replay(log), live, Unnamed(log))

\* A rebuild replays a journal; one that has the whole journal stands on its chain.
RebuildFits ==
  rebuild \notin {None, Raised} =>
    /\ rebuild \in Progress
    /\ rebuild.events = log => graph = Replayed(log)[rebuild.at]

\* A dependency that is to be merged passed its check on what was seen.
ChecksFit ==
  /\ checks = [w \in Writers |-> checks[w]]
  /\ \A w \in Writers : checks[w] # None =>
       ~ Reaches(checks[w].seen, checks[w].on, checks[w].claim)

\* Without a race or a call that skips the check no dependency of the journal is refused by
\* its replay.
RacesFit ==
  /\ rebuild = Raised => raced \/ unguarded
  /\ ~ raced /\ ~ unguarded => Unrefused(log)

SearchInv ==
  Journalled /\ TypeOK /\ Found(graph) /\ LiveFits /\ RebuildFits /\ ChecksFit /\ RacesFit

-----------------------------------------------------------------------------
(* Its proof.                                                               *)

\* What a prefix is, position by position.
LEMMA PrefixIs ==
  ASSUME NEW s \in Seq(Events), NEW t \in Seq(Events)
  PROVE  IsPrefix(s, t) <=> Len(s) <= Len(t) /\ \A i \in 1..Len(s) : s[i] = t[i]
<1>1. CASE Len(s) <= Len(t)
  <2>1. \A u \in Seq(Events) : Len(s) <= Len(u) =>
          SubSeq(u, 1, Len(s)) = [i \in 1..Len(s) |-> u[i]]
    OBVIOUS
  <2>2. /\ SubSeq(s, 1, Len(s)) = [i \in 1..Len(s) |-> s[i]]
        /\ SubSeq(t, 1, Len(s)) = [i \in 1..Len(s) |-> t[i]]
    BY <1>1, <2>1
  <2>3. QED
    BY <1>1, <2>2 DEF IsPrefix
<1>2. CASE ~ (Len(s) <= Len(t))
  BY <1>2 DEF IsPrefix
<1>3. QED
  BY <1>1, <1>2

\* Dependencies between claims that are there are pairs of claims.
LEMMA DependsTyped ==
  ASSUME NEW g, Found(g)
  PROVE  Depends(g) \subseteq Claims \X Claims
  BY DEF Found

\* A proof starts with the chain of its journal.
LEMMA InitSearchInv == Init => SearchInv
<1> SUFFICES ASSUME Init
             PROVE  SearchInv
  OBVIOUS
<1>1. Journalled /\ Len(log) \in Nat
  BY HistoryAssumption DEF Init, Journalled
<1>0. Len(log) \in 0..Len(log) /\ graph = Called(log)[Len(log)] /\ live = graph
  BY <1>1 DEF Init
<1>2. graph \in GraphType /\ Found(graph) /\ LiveFits
  BY <1>0, <1>1, ReplayedTyped, ChainsRestore DEF Replay, Journalled, LiveFits
<1>3. Unrefused(log)
  <2> SUFFICES ASSUME NEW i \in 1..Len(log)
               PROVE  ~ Refused(Replayed(log)[i - 1], log[i])
    BY DEF Unrefused
  <2>1. ~ Refused(Called(log)[i - 1], log[i])
    BY <1>1, HistoryAssumption DEF Init, Journalled
  <2>2. i - 1 \in 0..Len(log)
    BY <1>1
  <2>3. Restores(Replayed(log)[i - 1], Called(log)[i - 1], Unnamed(log))
    BY <1>1, <2>2, ChainsRestore DEF Journalled
  <2>4. Depends(Replayed(log)[i - 1]) = Depends(Called(log)[i - 1])
    BY <2>3, RestoresReads
  <2>5. QED
    BY <2>1, <2>4 DEF Refused, CycleExists
<1>4. TypeOK
  BY <1>2 DEF Init, TypeOK
<1>5. LiveFits /\ RebuildFits /\ ChecksFit /\ RacesFit
  BY <1>2, <1>3, EventAssumption DEF Init, RebuildFits, ChecksFit, RacesFit
<1>6. QED
  BY <1>1, <1>2, <1>4, <1>5 DEF SearchInv

\* What journalling an event does, whoever records it.
LEMMA JournalStep ==
  ASSUME SearchInv, NEW e \in Events, Journal(e), UNCHANGED rebuild
  PROVE  /\ Journalled'
         /\ graph' \in GraphType /\ live' \in GraphType /\ Found(graph')
         /\ LiveFits' /\ RebuildFits'
         /\ rebuild \notin {None, Raised} => IsPrefix(rebuild.events, log')
         /\ Unrefused(log) /\ ~ Refused(live, e) => Unrefused(log')
<1> USE DEF SearchInv
<1>1. /\ log \in Seq(Events) /\ log' = Append(log, e) /\ Len(log) \in Nat
      /\ Len(log') = Len(log) + 1 /\ Len(log') \in 1..MaxEvents
      /\ \A i \in 1..Len(log) : log'[i] = log[i]
  BY GraphAssumption DEF Journalled, Journal
<1>2. log' \in Seq(Events)
  BY <1>1
<1>0. AsCalled(e) \in Arguments
  BY Passed
<1>3. graph' \in GraphType /\ live' \in GraphType /\ Found(graph')
  BY <1>0, <1>1, ProjectTyped, FoundStays DEF Journal, TypeOK
<1>4. LiveFits'
  <2> DEFINE r == Replay(log)
             U == Unnamed(log)
             V == Unnamed(log')
             n == Len(log) + 1
  <2>1. Replay(log') = Project(r, AsReplayed(e), n) /\ live' = Project(live, AsCalled(e), n)
    BY <1>1, ReplayedAppend DEF Journal
  <2>2. r \in GraphType /\ live \in GraphType /\ n \in 1..MaxEvents
    BY <1>1, ReplayedTyped DEF Replay, Journalled, TypeOK
  <2>3. U \subseteq V
    BY <1>1 DEF Unnamed
  <2>4. ASSUME e.type = "move_added"
        PROVE  e.move \in Moves
    BY <2>4 DEF Events, Recordable, OtherEvents, Added, Dependencies, ProjectInit, StateAdded,
       StateClosed, StateReopened, ClaimAdded, ClaimUpdated, TaintPropagated, MoveAdded, MoveUpdated,
       SubgoalAdded, StateClaimLinked, DependencyAdded
  <2>5. e.type = "move_added" /\ e.status = None => e.move \in V
    <3>1. n \in 1..Len(log') /\ log'[n] = e
      BY <1>1
    <3>2. QED
      BY <2>4, <3>1 DEF Unnamed
  <2>6. Restores(r, live, V)
    BY <2>3 DEF LiveFits, Restores
  <2> HIDE DEF r, U, V, n
  <2>7. Restores(Project(r, AsReplayed(e), n), Project(live, AsCalled(e), n), V)
    BY <2>2, <2>5, <2>6, RestoresStep
  <2>8. QED
    BY <2>1, <2>7 DEF LiveFits, V
<1>5. ASSUME rebuild \notin {None, Raised}
      PROVE  rebuild \in Progress /\ rebuild.events # log' /\ IsPrefix(rebuild.events, log')
  <2>1. rebuild \in Progress /\ rebuild.events \in Seq(Events)
    BY <1>5 DEF RebuildFits, Progress
  <2>2. Len(rebuild.events) <= Len(log) /\ \A i \in 1..Len(rebuild.events) : rebuild.events[i] = log[i]
    BY <1>1, <1>5, <2>1, PrefixIs DEF TypeOK
  <2>3. Len(rebuild.events) \in Nat
    BY <2>1
  <2>4. rebuild.events # log'
    BY <1>1, <2>2, <2>3
  <2>5. IsPrefix(rebuild.events, log')
    <3>1. /\ Len(rebuild.events) <= Len(log')
          /\ \A i \in 1..Len(rebuild.events) : rebuild.events[i] = log'[i]
      BY <1>1, <2>2, <2>3
    <3> DEFINE s == rebuild.events
               t == log'
    <3>2. s \in Seq(Events) /\ t \in Seq(Events)
      BY <1>2, <2>1
    <3>3. Len(s) <= Len(t) /\ \A i \in 1..Len(s) : s[i] = t[i]
      BY <3>1
    <3> HIDE DEF s, t
    <3>4. IsPrefix(s, t)
      BY <3>2, <3>3, PrefixIs
    <3>5. QED
      BY <3>4 DEF s, t
  <2>6. QED
    BY <2>1, <2>4, <2>5
<1>6. Unrefused(log) /\ ~ Refused(live, e) => Unrefused(log')
  <2>1. Depends(Replay(log)) = Depends(live)
    BY RestoresReads DEF LiveFits
  <2>2. Refused(live, e) <=> Refused(Replay(log), e)
    BY <2>1 DEF Refused, CycleExists
  <2>3. QED
    BY <1>1, <2>2, UnrefusedAppend
<1>7. QED
  BY <1>1, <1>2, <1>3, <1>4, <1>5, <1>6 DEF Journalled, RebuildFits

\* Every call, and every step of a rebuild, keeps the invariant.
LEMMA NextSearchInv == SearchInv /\ [Next]_vars => SearchInv'
<1> SUFFICES ASSUME SearchInv, [Next]_vars
             PROVE  SearchInv'
  OBVIOUS
<1> USE DEF SearchInv
<1>1. ASSUME NEW e \in Calls, Record(e)
      PROVE  SearchInv'
  <2>1. e \in Events /\ e.type # "claim_dependency_added"
    BY EventAssumption DEF Events, Recordable, Added, OtherEvents, ProjectInit, StateAdded, StateClosed,
       StateReopened, ClaimAdded, ClaimUpdated, TaintPropagated, MoveAdded, MoveUpdated, SubgoalAdded,
       StateClaimLinked
  <2>2. ~ Refused(live, e)
    BY <2>1 DEF Refused
  <2>3. Journal(e) /\ UNCHANGED <<checks, raced, unguarded, rebuild>>
    BY <1>1 DEF Record
  <2>4. /\ Journalled' /\ graph' \in GraphType /\ live' \in GraphType /\ Found(graph')
        /\ LiveFits' /\ RebuildFits'
        /\ rebuild \notin {None, Raised} => IsPrefix(rebuild.events, log')
        /\ Unrefused(log) => Unrefused(log')
    BY <2>1, <2>2, <2>3, JournalStep
  <2>5. TypeOK'
    BY <2>3, <2>4 DEF TypeOK
  <2>6. ChecksFit' /\ RacesFit'
    BY <2>3, <2>4 DEF ChecksFit, RacesFit
  <2>7. QED
    BY <2>4, <2>5, <2>6
<1>2. ASSUME NEW w \in Writers, NEW l \in Links, CheckDependency(w, l[1], l[2])
      PROVE  SearchInv'
  <2> DEFINE check == [claim |-> l[1], on |-> l[2], seen |-> Depends(graph)]
  <2>1. /\ checks' = [checks EXCEPT ![w] = check] /\ UNCHANGED <<log, graph, live, raced, unguarded, rebuild>>
        /\ ~ Reaches(Depends(graph), l[2], l[1])
    BY <1>2 DEF CheckDependency, CycleExists
  <2>2. l[1] \in Claims /\ l[2] \in Claims /\ Depends(graph) \subseteq Claims \X Claims
    BY DependsTyped, GraphAssumption
  <2>3. \A v \in Writers : checks'[v] = IF v = w THEN check ELSE checks[v]
    BY <2>1 DEF ChecksFit
  <2>4. checks' = [v \in Writers |-> checks'[v]]
    BY <2>1 DEF ChecksFit
  <2>5. check.claim = l[1] /\ check.on = l[2] /\ check.seen = Depends(graph)
    OBVIOUS
  <2> HIDE DEF check
  <2>6. TypeOK'
    BY <2>1, <2>2, <2>3, <2>5 DEF TypeOK
  <2>7. ChecksFit'
    BY <2>1, <2>3, <2>4, <2>5 DEF ChecksFit
  <2>8. Journalled' /\ Found(graph)' /\ LiveFits' /\ RebuildFits' /\ RacesFit'
    BY <2>1 DEF Journalled, Found, LiveFits, RebuildFits, RacesFit
  <2>9. QED
    BY <2>6, <2>7, <2>8
<1>3. ASSUME NEW w \in Writers, MergeDependency(w)
      PROVE  SearchInv'
  <2> DEFINE a == checks[w].claim
             b == checks[w].on
             e == DependencyAdded(a, b)
  <2>1. a \in Claims /\ b \in Claims /\ checks[w] # None
    BY <1>3 DEF MergeDependency, TypeOK
  <2>2. e \in Events /\ e.claim = a /\ e.on = b
    BY <2>1 DEF Events, Dependencies, DependencyAdded
  <2>3. /\ Journal(e) /\ UNCHANGED <<unguarded, rebuild>> /\ checks' = [checks EXCEPT ![w] = None]
        /\ raced' = (raced \/ checks[w].seen # Depends(live))
    BY <1>3 DEF MergeDependency
  <2>4. ~ raced' => ~ Refused(live, e)
    BY <2>1, <2>2, <2>3 DEF ChecksFit, Refused, CycleExists
  <2> HIDE DEF a, b, e
  <2>5. /\ Journalled' /\ graph' \in GraphType /\ live' \in GraphType /\ Found(graph')
        /\ LiveFits' /\ RebuildFits'
        /\ rebuild \notin {None, Raised} => IsPrefix(rebuild.events, log')
        /\ Unrefused(log) /\ ~ Refused(live, e) => Unrefused(log')
    BY <2>2, <2>3, JournalStep
  <2>6. \A v \in Writers : checks'[v] = IF v = w THEN None ELSE checks[v]
    BY <2>3 DEF ChecksFit
  <2>7. checks' = [v \in Writers |-> checks'[v]]
    BY <2>3 DEF ChecksFit
  <2>8. TypeOK'
    BY <2>3, <2>5, <2>6 DEF TypeOK
  <2>9. ChecksFit' /\ RacesFit'
    BY <2>3, <2>4, <2>5, <2>6, <2>7 DEF ChecksFit, RacesFit
  <2>10. QED
    BY <2>5, <2>8, <2>9
<1>9. ASSUME NEW l \in Unscoped, AddUnscoped(l[1], l[2])
      PROVE  SearchInv'
  <2> DEFINE e == DependencyAdded(l[1], l[2])
  <2>1. e \in Events
    BY GraphAssumption DEF Events, Dependencies
  <2>2. Journal(e) /\ unguarded' = TRUE /\ UNCHANGED <<checks, raced, rebuild>>
    BY <1>9 DEF AddUnscoped
  <2> HIDE DEF e
  <2>3. /\ Journalled' /\ graph' \in GraphType /\ live' \in GraphType /\ Found(graph')
        /\ LiveFits' /\ RebuildFits'
        /\ rebuild \notin {None, Raised} => IsPrefix(rebuild.events, log')
    BY <2>1, <2>2, JournalStep
  <2>4. TypeOK'
    BY <2>2, <2>3 DEF TypeOK
  <2>5. ChecksFit' /\ RacesFit'
    BY <2>2 DEF ChecksFit, RacesFit
  <2>6. QED
    BY <2>3, <2>4, <2>5
<1>4. CASE Wipe
  <2>1. /\ graph' = NoGraph /\ rebuild' = [events |-> log, at |-> 0]
        /\ UNCHANGED <<log, live, checks, raced, unguarded>>
    BY <1>4 DEF Wipe
  <2>2. log \in Seq(Events) /\ Len(log) \in Nat
    BY DEF Journalled
  <2>3. rebuild' \in Progress /\ rebuild'.events = log /\ rebuild'.at = 0
    BY <2>1, <2>2 DEF Progress
  <2>4. TypeOK'
    BY <2>1, <2>2, <2>3, NoGraphTyped, PrefixIs DEF TypeOK
  <2>5. RebuildFits'
    BY <2>1, <2>2, <2>3, ReplayedStep DEF RebuildFits
  <2>6. Journalled' /\ LiveFits' /\ ChecksFit' /\ Found(graph')
    BY <2>1, NoGraphTyped DEF Journalled, LiveFits, ChecksFit
  <2>7. RacesFit'
    BY <2>1, <2>3, EventAssumption DEF RacesFit
  <2>8. QED
    BY <2>4, <2>5, <2>6, <2>7
<1>5. CASE ReplayEvent
  <2> DEFINE id == rebuild.at + 1
             e  == rebuild.events[id]
             x  == AsReplayed(e)
  <2>1. /\ rebuild \in Progress /\ rebuild.events \in Seq(Events) /\ rebuild.at \in Nat
        /\ Len(rebuild.events) \in Nat /\ rebuild \notin {None, Raised}
        /\ rebuild.at < Len(rebuild.events) /\ UNCHANGED <<log, live, checks, unguarded>>
    BY <1>5 DEF ReplayEvent, Rebuilding, RebuildFits, Progress
  <2>2. IsPrefix(rebuild.events, log)
    BY <2>1 DEF TypeOK
  <2>3. id \in 1..Len(rebuild.events) /\ id \in 1..MaxEvents /\ e \in Events
    <3>1. Len(rebuild.events) <= Len(log) /\ Len(log) \in Nat
      BY <2>1, <2>2, PrefixIs DEF Journalled
    <3>2. QED
      BY <2>1, <3>1, GraphAssumption DEF Journalled
  <2>4. rebuild.events = log => Replayed(log)[id] = Project(graph, x, id)
    BY <2>1, <2>3, ReplayedStep DEF RebuildFits
  <2>0. x \in Arguments
    BY <2>3, Passed
  <2>5. CASE ~ Refused(graph, e) /\ graph' = Project(graph, x, id)
             /\ rebuild' = [rebuild EXCEPT !.at = id] /\ UNCHANGED raced
    <3>1. rebuild' \in Progress /\ rebuild'.events = rebuild.events /\ rebuild'.at = id
      BY <2>1, <2>3, <2>5 DEF Progress
    <3>2. graph' \in GraphType /\ Found(graph')
      BY <2>0, <2>3, <2>5, ProjectTyped, FoundStays DEF TypeOK
    <3> HIDE DEF id, e, x
    <3>3. TypeOK'
      BY <2>1, <2>2, <2>3, <2>5, <3>1, <3>2 DEF TypeOK
    <3>4. RebuildFits'
      BY <2>1, <2>4, <2>5, <3>1 DEF RebuildFits
    <3>5. RacesFit'
      BY <2>1, <2>5, <3>1, EventAssumption DEF RacesFit
    <3>6. Journalled' /\ LiveFits' /\ ChecksFit'
      BY <2>1 DEF Journalled, LiveFits, ChecksFit
    <3>7. QED
      BY <3>2, <3>3, <3>4, <3>5, <3>6
  <2>6. CASE Refused(graph, e) /\ rebuild' = Raised
             /\ raced' = (raced \/ rebuild.events # log) /\ UNCHANGED graph
    <3>1. raced' \/ unguarded'
      <4>1. SUFFICES ASSUME rebuild.events = log, ~ raced, ~ unguarded
                     PROVE  FALSE
        BY <2>1, <2>6 DEF TypeOK
      <4>2. ~ Refused(Replayed(log)[id - 1], log[id])
        BY <2>3, <4>1 DEF RacesFit, Unrefused
      <4>3. graph = Replayed(log)[id - 1]
        BY <2>1, <4>1 DEF RebuildFits
      <4>4. QED
        BY <2>6, <4>1, <4>2, <4>3
    <3>2. TypeOK'
      BY <2>1, <2>6 DEF TypeOK
    <3>3. Journalled' /\ LiveFits' /\ RebuildFits' /\ ChecksFit' /\ Found(graph)' /\ RacesFit'
      BY <2>1, <2>6, <3>1 DEF Journalled, LiveFits, RebuildFits, ChecksFit, Found, RacesFit
    <3>4. QED
      BY <3>2, <3>3
  <2>7. QED
    BY <1>5, <2>5, <2>6 DEF ReplayEvent
<1>6. CASE Interrupt
  <2>1. rebuild' = None /\ UNCHANGED <<log, graph, live, checks, raced, unguarded>>
    BY <1>6 DEF Interrupt
  <2>2. QED
    BY <2>1, EventAssumption
    DEF Journalled, TypeOK, Found, LiveFits, RebuildFits, ChecksFit, RacesFit
<1>7. CASE UNCHANGED vars
  BY <1>7 DEF vars, Journalled, TypeOK, Found, LiveFits, RebuildFits, ChecksFit, RacesFit
<1>8. QED
  BY <1>1, <1>2, <1>3, <1>4, <1>5, <1>6, <1>7, <1>9 DEF Next

-----------------------------------------------------------------------------
(* What follows.                                                            *)

\* The search graph's behaviours keep the invariant: the live graph is what replaying the
\* journal restores, and a rebuild given the whole journal is on its way there.
THEOREM SearchInvHolds == Spec => []SearchInv
<1>1. QED
  BY InitSearchInv, NextSearchInv, PTL DEF Spec

\* The graph holds the vocabulary's literals, its edges join nodes of the kinds their
\* relations join, and a rebuild replays a prefix of the journal.
THEOREM GraphTypesHold == Spec => []TypeOK
<1>1. SearchInv => TypeOK
  BY DEF SearchInv
<1>2. QED
  BY SearchInvHolds, <1>1, PTL

\* wipe_and_rebuild over the whole journal restores the nodes, edges and statuses that the
\* calls had built, whatever rebuilds were cut short before it, whatever was called
\* meanwhile and whatever the events leave out, save that queued moves of no named status
\* are open: _replay_event's default is not add_move's.
THEOREM RebuildsConverge == Spec => []RebuildConverges
<1>1. SearchInv => RebuildConverges
  BY DEF SearchInv, RebuildConverges, Rebuilt, RebuildFits, LiveFits, Replay
<1>2. QED
  BY SearchInvHolds, <1>1, PTL

\* add_claim_dependency's check keeps the dependencies free of cycles, and a rebuild able
\* to replay them, until a call that skips it or a race it does not exclude.
THEOREM CyclesPassNoCheck == Spec => []CyclesEvadeTheCheck
<1>1. SearchInv => CyclesEvadeTheCheck
  <2> SUFFICES ASSUME SearchInv, ~ raced, ~ unguarded
               PROVE  ~ Circular(Depends(live)) /\ rebuild # Raised
    BY DEF CyclesEvadeTheCheck
  <2>1. Unrefused(log) /\ rebuild # Raised
    BY DEF SearchInv, RacesFit
  <2>2. log \in Seq(Events) /\ Len(log) <= MaxEvents /\ Depends(live) = Depends(Replay(log))
    BY RestoresReads DEF SearchInv, Journalled, LiveFits
  <2>3. \A n \in 0..Len(log) : ~ Circular(Depends(Replayed(log)[n]))
    BY <2>1, <2>2, UnrefusedIsAcyclic
  <2>4. Len(log) \in 0..Len(log)
    BY <2>2
  <2>5. QED
    BY <2>1, <2>2, <2>3, <2>4 DEF Replay
<1>2. QED
  BY SearchInvHolds, <1>1, PTL

\* What a step has journalled, it has projected.
LEMMA RecordedStep ==
  ASSUME SearchInv, [Next]_vars, NEW e \in Recordable, Recorded(e)
  PROVE  graph' = Project(graph, AsCalled(e), Len(log) + 1)
<1>1. log \in Seq(Events) /\ Len(log) \in Nat
  BY DEF SearchInv, Journalled
<1>2. log' # log
  BY <1>1 DEF Recorded
<1>3. ASSUME NEW d \in Events, Journal(d)
      PROVE  graph' = Project(graph, AsCalled(e), Len(log) + 1)
  <2>1. log' = Append(log, d) /\ log' = Append(log, e) /\ e \in Events
    BY <1>3 DEF Journal, Recorded, Events
  <2>2. \A x \in Events : Len(Append(log, x)) = Len(log) + 1 /\ Append(log, x)[Len(log) + 1] = x
    BY <1>1
  <2>3. Len(log') = Len(log) + 1 /\ d = e
    BY <2>1, <2>2
  <2>4. QED
    BY <1>3, <2>3 DEF Journal
<1>4. ASSUME NEW w \in Writers, checks[w] # None
      PROVE  DependencyAdded(checks[w].claim, checks[w].on) \in Events
  BY <1>4 DEF SearchInv, TypeOK, Events, Dependencies
<1>5. /\ Calls \subseteq Events
      /\ \A l \in Unscoped : DependencyAdded(l[1], l[2]) \in Events
  BY EventAssumption, GraphAssumption DEF Events, Dependencies
<1>6. QED
  BY <1>2, <1>3, <1>4, <1>5
  DEF Next, vars, Record, CheckDependency, MergeDependency, AddUnscoped, Wipe, ReplayEvent, Interrupt

\* What a closing has done to a graph so far: each change has its reason.
Earned(g, s, h) ==
  /\ h \in GraphType /\ h.claim = g.claim /\ h.edges = g.edges
  /\ \A m \in Moves : h.move[m] # g.move[m] =>
       /\ h.move[m] = "closed"
       /\ m \in Proposed(g, s) \/ \A t \in Subgoals(g, m) : h.state[t] \in Settled
  /\ \A t \in States \ {s} : h.state[t] # g.state[t] =>
       /\ g.state[t] # "reopened" /\ h.state[t] = "formally-closed"
       /\ \E m \in Proposed(g, t) : h.move[m] = "closed"

\* The AND rule closes moves whose subgoals are settled.
LEMMA MovesEarned ==
  ASSUME NEW g \in GraphType, NEW s \in States, NEW h, Earned(g, s, h)
  PROVE  Earned(g, s, CloseMoves(h))
<1> DEFINE k == CloseMoves(h)
<1>1. /\ k \in GraphType /\ k.claim = h.claim /\ k.edges = h.edges /\ k.state = h.state
      /\ \A m \in Moves : k.move[m] = IF h.move[m] # None /\ \A t \in Subgoals(h, m) : h.state[t] \in Settled
                                      THEN "closed" ELSE h.move[m]
  BY DEF Earned, CloseMoves, GraphType, MoveStatuses
<1>2. \A m \in Moves : Subgoals(h, m) = Subgoals(g, m)
  BY DEF Earned, Subgoals, Related
<1> HIDE DEF k
<1>3. \A m \in Moves : k.move[m] # g.move[m] =>
        /\ k.move[m] = "closed"
        /\ m \in Proposed(g, s) \/ \A t \in Subgoals(g, m) : k.state[t] \in Settled
  BY <1>1, <1>2 DEF Earned
<1>4. \A m \in Moves : h.move[m] = "closed" => k.move[m] = "closed"
  BY <1>1
<1>5. \A t \in States \ {s} : k.state[t] # g.state[t] =>
        /\ g.state[t] # "reopened" /\ k.state[t] = "formally-closed"
        /\ \E m \in Proposed(g, t) : k.move[m] = "closed"
  BY <1>1, <1>4 DEF Earned, Proposed
<1>6. QED
  BY <1>1, <1>3, <1>5 DEF Earned, k

\* The OR rule closes states that propose a closed move.
LEMMA StatesEarned ==
  ASSUME NEW g \in GraphType, NEW s \in States, NEW h, Earned(g, s, h)
  PROVE  Earned(g, s, CloseStates(h))
<1> DEFINE k == CloseStates(h)
<1>1. /\ k \in GraphType /\ k.claim = h.claim /\ k.edges = h.edges /\ k.move = h.move
      /\ \A t \in States : k.state[t] = IF /\ h.state[t] \notin Settled \cup {None}
                                            /\ \E m \in Proposed(h, t) : h.move[m] = "closed"
                                       THEN "formally-closed" ELSE h.state[t]
  BY DEF Earned, CloseStates, GraphType, StateStatuses
<1>2. \A t \in States : Proposed(h, t) = Proposed(g, t)
  BY DEF Earned, Proposed, Related
<1> HIDE DEF k
<1>3. \A t \in States : h.state[t] \in Settled => k.state[t] \in Settled
  BY <1>1
<1>4. \A m \in Moves : k.move[m] # g.move[m] =>
        /\ k.move[m] = "closed"
        /\ m \in Proposed(g, s) \/ \A t \in Subgoals(g, m) : k.state[t] \in Settled
  BY <1>1, <1>3 DEF Earned, Subgoals
<1>5. \A t \in States \ {s} : k.state[t] # g.state[t] =>
        /\ g.state[t] # "reopened" /\ k.state[t] = "formally-closed"
        /\ \E m \in Proposed(g, t) : k.move[m] = "closed"
  <2> SUFFICES ASSUME NEW t \in States \ {s}, k.state[t] # g.state[t]
               PROVE  /\ g.state[t] # "reopened" /\ k.state[t] = "formally-closed"
                      /\ \E m \in Proposed(g, t) : k.move[m] = "closed"
    OBVIOUS
  <2>1. CASE h.state[t] # g.state[t]
    BY <1>1, <2>1 DEF Earned
  <2>2. CASE h.state[t] = g.state[t]
    BY <1>1, <1>2, <2>2 DEF Settled
  <2>3. QED
    BY <2>1, <2>2
<1>6. QED
  BY <1>1, <1>4, <1>5 DEF Earned, k

\* So the whole closing is earned, however many passes it takes.
LEMMA ClosingEarned ==
  ASSUME NEW g \in GraphType, NEW s \in States
  PROVE  Earned(g, s, CloseState(g, s))
<1> DEFINE k == [UpdateStateStatus(g, s, "formally-closed") EXCEPT
                   !.move = [m \in Moves |-> IF m \in Proposed(g, s) THEN "closed" ELSE g.move[m]]]
           S == {n \in Nat : n \in 0..MaxIter => Earned(g, s, Passes(k)[n])}
<1>1. Earned(g, s, k)
  <2>1. /\ k \in GraphType /\ k.claim = g.claim /\ k.edges = g.edges
        /\ \A t \in States \ {s} : k.state[t] = g.state[t]
        /\ \A m \in Moves : k.move[m] = IF m \in Proposed(g, s) THEN "closed" ELSE g.move[m]
    BY DEF UpdateStateStatus, GraphType, StateStatuses, MoveStatuses
  <2> HIDE DEF k
  <2>2. QED
    BY <2>1 DEF Earned
<1>2. CloseState(g, s) = Passes(k)[MaxIter]
  BY DEF CloseState, PropagateClosures
<1> HIDE DEF k
<1>3. 0 \in S
  BY <1>1, PassesStep
<1>4. \A n \in S : n + 1 \in S
  <2> SUFFICES ASSUME NEW n \in Nat, n + 1 \in 0..MaxIter, Earned(g, s, Passes(k)[n])
               PROVE  Earned(g, s, Passes(k)[n + 1])
    BY GraphAssumption
  <2>1. Passes(k)[n + 1] = CloseStates(CloseMoves(Passes(k)[n]))
    BY PassesStep, GraphAssumption
  <2>2. QED
    BY <2>1, MovesEarned, StatesEarned
<1>5. \A n \in Nat : n \in S
  <2> HIDE DEF S
  <2>1. S \in SUBSET Nat
    BY DEF S
  <2>2. QED
    BY <1>3, <1>4, <2>1, Counting
<1>6. QED
  BY <1>2, <1>5, GraphAssumption

\* close_state's fixpoint, however deep the tree and whatever else is going on, closes a
\* move or a state only for a reason.
THEOREM EveryClosingIsEarned == Spec => ClosingsAreEarned
<1>1. SearchInv /\ [Next]_vars => \A s \in States : Recorded(StateClosed(s)) => EarnedBy(s)
  <2> SUFFICES ASSUME SearchInv, [Next]_vars, NEW s \in States, Recorded(StateClosed(s))
               PROVE  EarnedBy(s)
    OBVIOUS
  <2>1. StateClosed(s) \in Recordable
    BY DEF Recordable, OtherEvents
  <2>2. graph' = CloseState(graph, s)
    BY <2>1, RecordedStep DEF Project, AsCalled, StateClosed
  <2>3. graph \in GraphType
    BY DEF SearchInv, TypeOK
  <2>4. Earned(graph, s, graph')
    BY <2>2, <2>3, ClosingEarned
  <2>5. QED
    BY <2>4 DEF Earned, EarnedBy
<1>2. QED
  BY SearchInvHolds, <1>1, PTL DEF Spec, ClosingsAreEarned

\* The states a graph holds that are neither closed nor reopened.
Unsettled(g) == {t \in States : g.state[t] \notin Settled \cup {None}}

\* A pass over a settled tree changes nothing; one that closes no state leaves the tree
\* settled; any other takes a state from the unsettled ones.
LEMMA PassSettles ==
  ASSUME NEW g \in GraphType
  PROVE  LET k == CloseStates(CloseMoves(g))
         IN  \/ Stable(k)
             \/ ~ Stable(g) /\ \E t \in Unsettled(g) : Unsettled(k) \subseteq Unsettled(g) \ {t}
<1> DEFINE h == CloseMoves(g)
           k == CloseStates(h)
<1>1. /\ h \in GraphType /\ h.edges = g.edges /\ h.state = g.state
      /\ \A m \in Moves : h.move[m] = IF g.move[m] # None /\ \A t \in Subgoals(g, m) : g.state[t] \in Settled
                                      THEN "closed" ELSE g.move[m]
  BY DEF CloseMoves, GraphType, MoveStatuses
<1> HIDE DEF h
<1>2. /\ k.edges = h.edges /\ k.move = h.move
      /\ \A t \in States : k.state[t] = IF /\ h.state[t] \notin Settled \cup {None}
                                            /\ \E m \in Proposed(h, t) : h.move[m] = "closed"
                                       THEN "formally-closed" ELSE h.state[t]
  BY <1>1 DEF CloseStates, GraphType, StateStatuses
<1> HIDE DEF k
<1>3. /\ \A m \in Moves : Subgoals(k, m) = Subgoals(g, m)
      /\ \A t \in States : Proposed(k, t) = Proposed(g, t) /\ Proposed(h, t) = Proposed(g, t)
  BY <1>1, <1>2 DEF Subgoals, Proposed, Related
<1>4. "formally-closed" \in Settled
  BY DEF Settled
<1>5. CASE \A t \in States : k.state[t] = g.state[t]
  <2>1. ASSUME NEW m \in Moves, k.move[m] \notin {None, "closed"}
        PROVE  \E t \in Subgoals(k, m) : k.state[t] \notin Settled
    <3>1. g.move[m] # None /\ h.move[m] # "closed"
      BY <1>1, <1>2, <2>1
    <3>2. PICK t \in Subgoals(g, m) : g.state[t] \notin Settled
      BY <1>1, <3>1
    <3>3. QED
      BY <1>3, <1>5, <3>2 DEF Subgoals
  <2>2. ASSUME NEW t \in States, k.state[t] \notin Settled \cup {None}, NEW m \in Proposed(k, t)
        PROVE  k.move[m] # "closed"
    BY <1>1, <1>2, <1>3, <1>4, <1>5, <2>2
  <2>3. QED
    BY <2>1, <2>2 DEF Stable, k, h
<1>6. ASSUME NEW t \in States, k.state[t] # g.state[t]
      PROVE  ~ Stable(g) /\ \E u \in Unsettled(g) : Unsettled(k) \subseteq Unsettled(g) \ {u}
  <2>1. /\ g.state[t] \notin Settled \cup {None} /\ k.state[t] \in Settled
        /\ \E m \in Proposed(g, t) : h.move[m] = "closed"
    BY <1>1, <1>2, <1>3, <1>4, <1>6
  <2>2. t \in Unsettled(g) /\ Unsettled(k) \subseteq Unsettled(g) \ {t}
    BY <1>1, <1>2, <1>4, <2>1 DEF Unsettled
  <2>3. ~ Stable(g)
    <3>1. PICK m \in Proposed(g, t) : h.move[m] = "closed"
      BY <2>1
    <3>2. m \in Moves
      BY DEF Proposed
    <3>3. CASE g.move[m] = "closed"
      BY <2>1, <3>1, <3>3 DEF Stable
    <3>4. CASE g.move[m] # "closed"
      BY <1>1, <3>1, <3>2, <3>4 DEF Stable
    <3>5. QED
      BY <3>3, <3>4
  <2>4. QED
    BY <2>2, <2>3
<1>7. QED
  BY <1>5, <1>6 DEF k, h

\* No pass unsettles a state.
LEMMA UnsettledShrinks ==
  ASSUME NEW g \in GraphType, NEW n \in 0..MaxIter
  PROVE  Unsettled(Passes(g)[n]) \subseteq Unsettled(g)
<1> DEFINE S == {i \in Nat : i \in 0..MaxIter => Unsettled(Passes(g)[i]) \subseteq Unsettled(g)}
<1>1. 0 \in S
  BY PassesStep
<1>2. ASSUME NEW h \in GraphType
      PROVE  Unsettled(CloseStates(CloseMoves(h))) \subseteq Unsettled(h)
  <2>1. CloseMoves(h) \in GraphType /\ CloseMoves(h).state = h.state
    BY DEF CloseMoves, GraphType, MoveStatuses
  <2>2. ASSUME NEW k \in GraphType
        PROVE  Unsettled(CloseStates(k)) \subseteq Unsettled(k)
    BY DEF Unsettled, CloseStates, Settled, GraphType
  <2>3. QED
    BY <2>1, <2>2 DEF Unsettled
<1>3. \A i \in S : i + 1 \in S
  <2> SUFFICES ASSUME NEW i \in Nat, i + 1 \in 0..MaxIter, Unsettled(Passes(g)[i]) \subseteq Unsettled(g)
               PROVE  Unsettled(Passes(g)[i + 1]) \subseteq Unsettled(g)
    BY GraphAssumption
  <2>1. Passes(g)[i + 1] = CloseStates(CloseMoves(Passes(g)[i]))
    BY PassesStep, GraphAssumption
  <2>2. Passes(g)[i] \in GraphType
    BY ClosuresTyped, GraphAssumption
  <2>3. QED
    BY <1>2, <2>1, <2>2
<1>4. \A i \in Nat : i \in S
  <2> HIDE DEF S
  <2>1. S \in SUBSET Nat
    BY DEF S
  <2>2. QED
    BY <1>1, <1>3, <2>1, Counting
<1>5. QED
  BY <1>4, GraphAssumption

\* Each pass that leaves the tree unsettled has closed one more state.
LEMMA PassesClose ==
  ASSUME IsFiniteSet(States), NEW g \in GraphType
  PROVE  LET h == Passes(g)[MaxIter]
             T == Unsettled(g) \ Unsettled(h)
         IN  h \in GraphType /\ (Stable(h) \/ Cardinality(T) >= MaxIter)
<1> DEFINE T(n) == Unsettled(g) \ Unsettled(Passes(g)[n])
           Near(n) == /\ Passes(g)[n] \in GraphType
                      /\ Stable(Passes(g)[n]) \/ Cardinality(T(n)) >= n
           S == {n \in Nat : n \in 0..MaxIter => Near(n)}
<1>1. \A n : IsFiniteSet(T(n)) /\ Cardinality(T(n)) \in Nat
  <2>1. \A n : T(n) \subseteq States
    BY DEF Unsettled
  <2>2. QED
    BY <2>1, FS_Subset, FS_CardinalityType
<1> HIDE DEF T
<1>2. 0 \in S
  <2>1. Passes(g)[0] \in GraphType
    BY PassesStep
  <2>2. Cardinality(T(0)) >= 0
    BY <1>1
  <2>3. Near(0)
    BY <2>1, <2>2
  <2> HIDE DEF Near
  <2>4. QED
    BY <2>3
<1>3. \A n \in S : n + 1 \in S
  <2> HIDE DEF Near
  <2> SUFFICES ASSUME NEW n \in Nat, n + 1 \in 0..MaxIter, Near(n)
               PROVE  Near(n + 1)
    BY GraphAssumption
  <2> USE DEF Near
  <2> DEFINE h == Passes(g)[n]
             k == CloseStates(CloseMoves(h))
  <2>1. Passes(g)[n + 1] = k
    BY PassesStep, GraphAssumption
  <2>2. h \in GraphType /\ k \in GraphType
    BY PassTyped
  <2>3. T(n) = Unsettled(g) \ Unsettled(h) /\ T(n + 1) = Unsettled(g) \ Unsettled(k)
    BY <2>1 DEF T
  <2>4. Stable(h) \/ Cardinality(T(n)) >= n
    OBVIOUS
  <2>5. Unsettled(h) \subseteq Unsettled(g)
    <3>1. n \in 0..MaxIter
      BY GraphAssumption
    <3>2. Unsettled(Passes(g)[n]) \subseteq Unsettled(g)
      BY <3>1, UnsettledShrinks
    <3>3. QED
      BY <3>2
  <2> HIDE DEF h, k
  <2>7. ASSUME NEW t \in Unsettled(h), ~ Stable(h), Unsettled(k) \subseteq Unsettled(h) \ {t}
        PROVE  Cardinality(T(n + 1)) >= n + 1
    <3>1. T(n) \cup {t} \subseteq T(n + 1) /\ t \notin T(n)
      BY <2>3, <2>5, <2>7
    <3>2. Cardinality(T(n) \cup {t}) = Cardinality(T(n)) + 1 /\ IsFiniteSet(T(n) \cup {t})
      BY <1>1, <3>1, FS_AddElement
    <3>3. Cardinality(T(n) \cup {t}) <= Cardinality(T(n + 1))
      BY <1>1, <3>1, FS_Subset
    <3>4. QED
      BY <1>1, <2>4, <2>7, <3>2, <3>3
  <2>8. \/ Stable(k)
        \/ ~ Stable(h) /\ \E t \in Unsettled(h) : Unsettled(k) \subseteq Unsettled(h) \ {t}
    BY <2>2, PassSettles DEF k
  <2>9. Stable(k) \/ Cardinality(T(n + 1)) >= n + 1
    BY <2>7, <2>8
  <2>10. QED
    BY <2>1, <2>2, <2>9
<1>4. \A n \in Nat : n \in S
  <2> HIDE DEF S
  <2>1. S \in SUBSET Nat
    BY DEF S
  <2>2. QED
    BY <1>2, <1>3, <2>1, Counting
<1>5. Near(MaxIter)
  <2> HIDE DEF Near
  <2>1. QED
    BY <1>4, GraphAssumption
<1>6. QED
  BY <1>5 DEF T

\* What a recorded closing has done: the passes started with the closed state and its moves.
LEMMA RecordedClosing ==
  ASSUME SearchInv, [Next]_vars, NEW s \in States, Recorded(StateClosed(s))
  PROVE  \E k \in GraphType :
           /\ graph' = Passes(k)[MaxIter]
           /\ Unsettled(k) \subseteq Unsettled(graph) \ {s}
<1> DEFINE u     == UpdateStateStatus(graph, s, "formally-closed")
           moved == [m \in Moves |-> IF m \in Proposed(graph, s) THEN "closed" ELSE graph.move[m]]
           k     == [u EXCEPT !.move = moved]
<1>1. StateClosed(s) \in Recordable
  BY DEF Recordable, OtherEvents
<1>2. graph' = Passes(k)[MaxIter]
  BY <1>1, RecordedStep DEF Project, AsCalled, StateClosed, CloseState, PropagateClosures
<1>3. graph \in GraphType
  BY DEF SearchInv, TypeOK
<1>4. /\ u \in GraphType
      /\ u.state = [graph.state EXCEPT ![s] = IF @ = None THEN None ELSE "formally-closed"]
  BY <1>3 DEF UpdateStateStatus, GraphType, StateStatuses
<1>5. moved \in [Moves -> MoveStatuses \cup {None}]
  BY <1>3 DEF GraphType, MoveStatuses
<1> HIDE DEF u, moved
<1>6. k \in GraphType /\ k.state = u.state
  BY <1>4, <1>5 DEF GraphType
<1>7. Unsettled(k) \subseteq Unsettled(graph) \ {s}
  BY <1>3, <1>4, <1>6 DEF Unsettled, Settled, GraphType
<1> HIDE DEF k
<1>8. QED
  BY <1>2, <1>6, <1>7

\* A closing is left half propagated only by the cap on its passes, and only when as many
\* states as there are passes have closed with the one named.
THEOREM ClosingsStopAtTheCap ==
  ASSUME IsFiniteSet(States)
  PROVE  Spec => ClosingsSettle
<1>1. SearchInv /\ [Next]_vars => \A s \in States : Recorded(StateClosed(s)) =>
        Stable(graph') \/
          Cardinality({t \in States \ {s} : graph'.state[t] # graph.state[t]}) >= MaxIter
  <2> SUFFICES ASSUME SearchInv, [Next]_vars, NEW s \in States, Recorded(StateClosed(s)), ~ Stable(graph')
               PROVE  Cardinality({t \in States \ {s} : graph'.state[t] # graph.state[t]}) >= MaxIter
    OBVIOUS
  <2> DEFINE changed == {t \in States \ {s} : graph'.state[t] # graph.state[t]}
  <2>1. PICK k \in GraphType :
               graph' = Passes(k)[MaxIter] /\ Unsettled(k) \subseteq Unsettled(graph) \ {s}
    BY RecordedClosing
  <2> DEFINE T == Unsettled(k) \ Unsettled(graph')
  <2>2. Cardinality(T) >= MaxIter
    BY <2>1, PassesClose
  <2>3. T \subseteq changed
    BY <2>1 DEF Unsettled
  <2>4. IsFiniteSet(changed)
    BY FS_Subset
  <2> HIDE DEF T, changed
  <2>5. Cardinality(T) <= Cardinality(changed) /\ Cardinality(T) \in Nat /\ Cardinality(changed) \in Nat
    BY <2>3, <2>4, FS_Subset, FS_CardinalityType
  <2>6. QED
    BY <2>2, <2>5, GraphAssumption DEF changed
<1>2. QED
  BY SearchInvHolds, <1>1, PTL DEF Spec, ClosingsSettle

\* A closing of a graph with no more states than the fixpoint has passes is never half
\* propagated.  The code makes 64: a deeper tree is closed part of the way.
THEOREM ClosingsSettleWithin ==
  ASSUME IsFiniteSet(States), Cardinality(States) <= MaxIter
  PROVE  Spec => ClosingsPropagate
<1>1. SearchInv /\ [Next]_vars => \A s \in States : Recorded(StateClosed(s)) => Stable(graph')
  <2> SUFFICES ASSUME SearchInv, [Next]_vars, NEW s \in States, Recorded(StateClosed(s)), ~ Stable(graph')
               PROVE  FALSE
    OBVIOUS
  <2>1. PICK k \in GraphType :
               graph' = Passes(k)[MaxIter] /\ Unsettled(k) \subseteq Unsettled(graph) \ {s}
    BY RecordedClosing
  <2> DEFINE T == Unsettled(k) \ Unsettled(graph')
  <2>2. Cardinality(T) >= MaxIter
    BY <2>1, PassesClose
  <2>3. T \subseteq States \ {s}
    BY <2>1 DEF Unsettled
  <2>4. IsFiniteSet(States \ {s}) /\ Cardinality(States \ {s}) = Cardinality(States) - 1
    BY FS_RemoveElement
  <2> HIDE DEF T
  <2>5. Cardinality(T) <= Cardinality(States \ {s}) /\ Cardinality(T) \in Nat /\ Cardinality(States) \in Nat
    BY <2>3, <2>4, FS_Subset, FS_CardinalityType
  <2>6. QED
    BY <2>2, <2>4, <2>5, GraphAssumption
<1>2. QED
  BY SearchInvHolds, <1>1, PTL DEF Spec, ClosingsPropagate

\* What propagate_taint does is what the MORK queries call for.
LEMMA TaintIsQueried ==
  ASSUME NEW g \in GraphType, Found(g), NEW c \in Claims, ~ Reaches(Depends(g), c, c),
         NEW h, h = PropagateTaint(g, c), NEW refuted, refuted = UpdateClaimStatus(g, c, "refuted")
  PROVE  /\ h.claim = [d \in Claims |-> IF d \in TaintCone(refuted, c) THEN "tainted"
                                        ELSE refuted.claim[d]]
         /\ {s \in States : h.state[s] # g.state[s]} = AffectedStates(refuted, c)
         /\ \A s \in AffectedStates(refuted, c) : h.state[s] = "reopened"
         /\ AffectedStates(h, c) = {}
         /\ h.move = g.move /\ h.edges = g.edges
<1> DEFINE cone == {d \in Claims : Reaches(Depends(g), d, c)}
<1>1. /\ refuted.claim = [g.claim EXCEPT ![c] = IF @ = None THEN None ELSE "refuted"]
      /\ refuted.state = g.state /\ refuted.edges = g.edges /\ refuted.move = g.move
  BY DEF UpdateClaimStatus, GraphType
<1>2. /\ h.claim = [d \in Claims |-> IF d \in cone THEN "tainted" ELSE refuted.claim[d]]
      /\ h.state = [s \in States |-> IF g.state[s] = "formally-closed" /\ Used(g, s) \cap cone # {}
                                     THEN "reopened" ELSE g.state[s]]
      /\ h.move = g.move /\ h.edges = g.edges
  BY <1>1 DEF PropagateTaint, GraphType, UpdateClaimStatus
<1>3. \A k : k.edges = g.edges =>
        Depends(k) = Depends(g) /\ \A s \in States : Used(k, s) = Used(g, s)
  BY DEF Depends, Used, Related
<1>4. \A d \in cone : g.claim[d] # None /\ g.claim[c] # None /\ d # c
  <2> SUFFICES ASSUME NEW d \in Claims, Reaches(Depends(g), d, c)
               PROVE  g.claim[d] # None /\ g.claim[c] # None
    OBVIOUS
  <2>1. Depends(g) \in SUBSET (Claims \X Claims)
    BY DependsTyped
  <2>2. (\E e \in Depends(g) : e[1] = d) /\ (\E e \in Depends(g) : e[2] = c)
    BY <2>1, PathEnds
  <2>3. QED
    BY <2>2 DEF Found
<1>5. \A d \in Claims : (d # c /\ Rests(refuted, d, c)) <=> d \in cone
  BY <1>1, <1>3, <1>4 DEF Rests
<1> HIDE DEF cone
<1>6. \A d \in Claims : IsDependent(refuted, d, c) <=> d \in cone
  BY <1>5 DEF IsDependent
<1>7. cone # {} => refuted.claim[c] = "refuted"
  BY <1>1, <1>4 DEF GraphType
<1>8. TaintCone(refuted, c) = cone
  <2>1. cone \subseteq Claims /\ "refuted" # None
    BY EventAssumption DEF cone, ClaimStatuses
  <2>2. \A d \in cone : refuted.claim[d] # None
    BY <1>1, <1>4, <2>1 DEF GraphType
  <2>3. QED
    BY <1>6, <1>7, <2>1, <2>2 DEF TaintCone
<1>9. \A s \in States : Used(g, s) \subseteq Claims
  BY DEF Used
<1>10. \A s \in States : UsesTaintedClaim(refuted, s, c) <=> Used(g, s) \cap cone # {}
  BY <1>1, <1>3, <1>6, <1>7, <1>9 DEF UsesTaintedClaim
<1>11. AffectedStates(refuted, c) =
         {s \in States : g.state[s] = "formally-closed" /\ Used(g, s) \cap cone # {}}
  BY <1>1, <1>10 DEF AffectedStates
<1>12. \A d \in Claims : IsDependent(h, d, c) <=> d \in cone
  BY <1>1, <1>2, <1>3, <1>6 DEF IsDependent, Rests
<1>13. AffectedStates(h, c) = {}
  <2> SUFFICES ASSUME NEW s \in States, h.state[s] = "formally-closed", UsesTaintedClaim(h, s, c)
               PROVE  FALSE
    BY DEF AffectedStates
  <2>1. Used(g, s) \cap cone # {}
    BY <1>2, <1>3, <1>9, <1>12 DEF UsesTaintedClaim
  <2>2. QED
    BY <1>2, <2>1
<1>14. QED
  BY <1>2, <1>8, <1>11, <1>13

\* A refutation's cascade agrees with the MORK queries, whatever claims and dependencies
\* the graph holds.
THEOREM TaintAgreesWithQueries == Spec => TaintFollowsQueries
<1> DEFINE Agrees(c) ==
      LET refuted == UpdateClaimStatus(graph, c, "refuted")
      IN /\ graph'.claim = [d \in Claims |-> IF d \in TaintCone(refuted, c) THEN "tainted"
                                             ELSE refuted.claim[d]]
         /\ {s \in States : graph'.state[s] # graph.state[s]} = AffectedStates(refuted, c)
         /\ \A s \in AffectedStates(refuted, c) : graph'.state[s] = "reopened"
         /\ AffectedStates(graph', c) = {}
         /\ graph'.move = graph.move /\ graph'.edges = graph.edges
<1>1. SearchInv /\ [Next]_vars =>
        \A c \in Claims : Recorded(TaintPropagated(c)) /\ ~ Reaches(Depends(graph), c, c) => Agrees(c)
  <2> SUFFICES ASSUME SearchInv, [Next]_vars, NEW c \in Claims, Recorded(TaintPropagated(c)),
                      ~ Reaches(Depends(graph), c, c)
               PROVE  Agrees(c)
    OBVIOUS
  <2>1. TaintPropagated(c) \in Recordable
    BY DEF Recordable, OtherEvents
  <2>2. graph' = PropagateTaint(graph, c)
    BY <2>1, RecordedStep DEF Project, AsCalled, TaintPropagated
  <2>3. graph \in GraphType /\ Found(graph)
    BY DEF SearchInv, TypeOK
  <2>4. QED
    BY <2>2, <2>3, TaintIsQueried
<1>2. QED
  BY SearchInvHolds, <1>1, PTL DEF Spec, TaintFollowsQueries
=============================================================================
