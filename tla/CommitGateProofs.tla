-------------------------- MODULE CommitGateProofs --------------------------
(***************************************************************************)
(* For every set of proofs and of proposals: what the rules make of the     *)
(* committed graph.  Each theorem names the habits of workers it needs       *)
(* (Discipline): the gate asks for none.                                    *)
(***************************************************************************)
EXTENDS CommitGate, GateRulesProofs

(***************************************************************************)
(* Claims and their evidence.                                               *)
(***************************************************************************)

LEMMA EvidenceIsImmutable ==
  /\ "actor" \in IMMUTABLE_FIELDS("Certificate")
  /\ {"actor", "status", "sorry_detected"} \subseteq IMMUTABLE_FIELDS("LeanReplay")
  /\ {"subgoal_count", "executor_result"} \subseteq IMMUTABLE_FIELDS("TacticApplication")
BY DEF IMMUTABLE_FIELDS

\* No edge of the relationships is redone.
Keeps(v, ops, rels) == \A rel \in rels : ~RedoesEdge(v, ops, rel)
LinksKept(v, ops) == Keeps(v, ops, {"PROVED_BY", "REPLAYED_BY"})

\* A committed edge of a relationship the ops do not redo stays as it is.
LEMMA LinkKept ==
  ASSUME NEW v, NEW ops, NEW rel, ~RedoesEdge(v, ops, rel), NEW e \in DOMAIN v.edges,
         v.edges[e].rel = rel
  PROVE  /\ e \in DOMAIN ApplyOps(v, ops).edges
         /\ ApplyOps(v, ops).edges[e] = v.edges[e]
<1>1. Removes(ops, e) = {}
  BY DEF RedoesEdge
<1> QED
  BY <1>1 DEF ApplyOps, EdgeAfter

\* One that they add is there afterwards, as the op has it.
LEMMA LinkMade ==
  ASSUME NEW v, NEW ops, Listed(ops), NEW rel, ~RedoesEdge(v, ops, rel), NEW i \in DOMAIN ops,
         ops[i].op = "add_edge", ops[i].rel = rel
  PROVE  /\ ops[i].edge_id \in DOMAIN ApplyOps(v, ops).edges
         /\ ApplyOps(v, ops).edges[ops[i].edge_id] = EdgeRecord(ops[i])
<1> DEFINE e == ops[i].edge_id
<1>1. i \in EdgeOps(ops, rel)
  BY DEF EdgeOps
<1>2. /\ e \notin DOMAIN v.edges /\ Removes(ops, e) = {}
      /\ \A j \in Adds(ops, e) : j = i
  BY <1>1 DEF RedoesEdge
<1>3. i \in StandingAdds(ops, e) /\ \A j \in StandingAdds(ops, e) : j = i
  BY <1>2 DEF StandingAdds, Adds
<1>4. StandingAdds(ops, e) \in SUBSET Nat
  BY Indexed DEF StandingAdds, Adds
<1>5. Least(StandingAdds(ops, e)) = i
  BY <1>3, <1>4, OnlyOne
<1>6. ops[i] \in {o \in OpsOf(ops, "add_edge") : StandingAdds(ops, o.edge_id) # {}}
  BY <1>3 DEF OpsOf
<1>7. e \in DOMAIN ApplyOps(v, ops).edges
  BY <1>6 DEF ApplyOps
<1>8. ApplyOps(v, ops).edges[e] = EdgeAfter(v, ops, e)
  BY <1>7 DEF ApplyOps
<1> QED
  BY <1>2, <1>5, <1>7, <1>8 DEF EdgeAfter

\* What the rules find at the end of an edge is there afterwards ...
LEMMA TargetAfter ==
  ASSUME NEW v, NEW ops, Listed(ops), NEW rel, ~RedoesEdge(v, ops, rel),
         NEW src, NEW t \in EdgeTargets(v, ops, src, rel)
  PROVE  \E e \in EdgesFrom(ApplyOps(v, ops), src, rel) : ApplyOps(v, ops).edges[e].dst = t
<1> DEFINE w == ApplyOps(v, ops)
<1>1. CASE t \in {v.edges[e].dst : e \in EdgesFrom(v, src, rel)}
  <2>1. PICK e \in EdgesFrom(v, src, rel) : v.edges[e].dst = t
    BY <1>1
  <2>2. e \in DOMAIN v.edges /\ v.edges[e].src = src /\ v.edges[e].rel = rel
    BY <2>1 DEF EdgesFrom
  <2>3. e \in DOMAIN w.edges /\ w.edges[e] = v.edges[e]
    BY <2>2, LinkKept
  <2> QED
    BY <2>1, <2>2, <2>3 DEF EdgesFrom
<1>2. CASE t \in {ops[i].dst : i \in {j \in EdgeOps(ops, rel) : ops[j].src = src}}
  <2>1. PICK i \in EdgeOps(ops, rel) : ops[i].src = src /\ ops[i].dst = t
    BY <1>2
  <2>2. i \in DOMAIN ops /\ ops[i].op = "add_edge" /\ ops[i].rel = rel
    BY DEF EdgeOps
  <2>3. ops[i].edge_id \in DOMAIN w.edges /\ w.edges[ops[i].edge_id] = EdgeRecord(ops[i])
    BY <2>2, LinkMade
  <2> QED
    BY <2>1, <2>2, <2>3 DEF EdgesFrom, EdgeRecord
<1> QED
  BY <1>1, <1>2 DEF EdgeTargets

\* ... and at its start.
LEMMA SourceAfter ==
  ASSUME NEW v, NEW ops, Listed(ops), NEW rel, Keeps(v, ops, {rel}),
         NEW dst, NEW t \in EdgeSources(v, ops, dst, rel)
  PROVE  \E e \in EdgesTo(ApplyOps(v, ops), dst, rel) : ApplyOps(v, ops).edges[e].src = t
<1> DEFINE w == ApplyOps(v, ops)
<1>1. CASE t \in {v.edges[e].src : e \in EdgesTo(v, dst, rel)}
  <2>1. PICK e \in EdgesTo(v, dst, rel) : v.edges[e].src = t
    BY <1>1
  <2>2. e \in DOMAIN v.edges /\ v.edges[e].dst = dst /\ v.edges[e].rel = rel
    BY <2>1 DEF EdgesTo
  <2>3. e \in DOMAIN w.edges /\ w.edges[e] = v.edges[e]
    BY <2>2, LinkKept DEF Keeps
  <2> QED
    BY <2>1, <2>2, <2>3 DEF EdgesTo
<1>2. CASE t \in {ops[i].src : i \in {j \in EdgeOps(ops, rel) : ops[j].dst = dst}}
  <2>1. PICK i \in EdgeOps(ops, rel) : ops[i].dst = dst /\ ops[i].src = t
    BY <1>2
  <2>2. i \in DOMAIN ops /\ ops[i].op = "add_edge" /\ ops[i].rel = rel
    BY DEF EdgeOps
  <2>3. ops[i].edge_id \in DOMAIN w.edges /\ w.edges[ops[i].edge_id] = EdgeRecord(ops[i])
    BY <2>2, LinkMade DEF Keeps
  <2> QED
    BY <2>1, <2>2, <2>3 DEF EdgesTo, EdgeRecord
<1> QED
  BY <1>1, <1>2 DEF EdgeSources

\* A claim that has evidence keeps it, if no link of evidence is redone.
LEMMA EvidenceKept ==
  ASSUME NEW v, NEW ops, Listed(ops), NewNodes(v, ops), CheckReferences(v, ops),
         CheckImmutability(ops), Joined(v), LinksKept(v, ops), NEW c, Evidenced(v, c)
  PROVE  Evidenced(ApplyOps(v, ops), c)
<1> DEFINE w == ApplyOps(v, ops)
<1>1. PICK e \in EdgesFrom(v, c, "PROVED_BY") :
        \E r \in EdgesFrom(v, v.edges[e].dst, "REPLAYED_BY") :
          IndependentReplay(v.nodes[v.edges[e].dst].fields, v.nodes[v.edges[r].dst].fields)
  BY DEF Evidenced
<1>2. PICK r \in EdgesFrom(v, v.edges[e].dst, "REPLAYED_BY") :
        IndependentReplay(v.nodes[v.edges[e].dst].fields, v.nodes[v.edges[r].dst].fields)
  BY <1>1
<1> DEFINE certificate == v.edges[e].dst
<1> DEFINE replay == v.edges[r].dst
<1>3. /\ e \in DOMAIN v.edges /\ v.edges[e].rel = "PROVED_BY" /\ v.edges[e].src = c
      /\ r \in DOMAIN v.edges /\ v.edges[r].rel = "REPLAYED_BY" /\ v.edges[r].src = certificate
  BY <1>1, <1>2 DEF EdgesFrom
<1>4. /\ e \in DOMAIN w.edges /\ w.edges[e] = v.edges[e]
      /\ r \in DOMAIN w.edges /\ w.edges[r] = v.edges[r]
  BY <1>3, LinkKept DEF LinksKept, Keeps
<1>5. /\ certificate \in DOMAIN v.nodes /\ v.nodes[certificate].label = "Certificate"
      /\ replay \in DOMAIN v.nodes /\ v.nodes[replay].label = "LeanReplay"
  BY <1>3, Ends
<1>6. Get(w.nodes[certificate].fields, "actor") = Get(v.nodes[certificate].fields, "actor")
  BY <1>5, ImmutableKept, EvidenceIsImmutable
<1>7. ASSUME NEW f \in {"actor", "status", "sorry_detected"}
      PROVE  Get(w.nodes[replay].fields, f) = Get(v.nodes[replay].fields, f)
  <2>1. f \in IMMUTABLE_FIELDS(v.nodes[replay].label)
    BY <1>5, EvidenceIsImmutable
  <2> HIDE DEF replay
  <2> QED
    BY <1>5, <2>1, ImmutableKept
<1>8. IndependentReplay(w.nodes[certificate].fields, w.nodes[replay].fields)
  BY <1>2, <1>6, <1>7 DEF IndependentReplay
<1>9. e \in EdgesFrom(w, c, "PROVED_BY") /\ r \in EdgesFrom(w, w.edges[e].dst, "REPLAYED_BY")
  BY <1>3, <1>4 DEF EdgesFrom
<1> QED
  BY <1>4, <1>8, <1>9 DEF Evidenced

\* A promotion the rules accept leaves evidence behind.
LEMMA PromotionLeavesEvidence ==
  ASSUME NEW v, NEW ops, Listed(ops), NewNodes(v, ops), CheckReferences(v, ops),
         CheckImmutability(ops), CheckReplayEvidence(v, ops), Joined(v), LinksKept(v, ops),
         NEW op \in Promotions(ops)
  PROVE  Evidenced(ApplyOps(v, ops), op.id)
<1> DEFINE w == ApplyOps(v, ops)
<1>1. PICK certificate \in EdgeTargets(v, ops, op.id, "PROVED_BY") :
        \E replay \in EdgeTargets(v, ops, certificate, "REPLAYED_BY") :
          IndependentReplay(NodeFields(v, ops, certificate), NodeFields(v, ops, replay))
  BY DEF CheckReplayEvidence
<1>2. PICK replay \in EdgeTargets(v, ops, certificate, "REPLAYED_BY") :
        IndependentReplay(NodeFields(v, ops, certificate), NodeFields(v, ops, replay))
  BY <1>1
<1>3. PICK e \in EdgesFrom(w, op.id, "PROVED_BY") : w.edges[e].dst = certificate
  BY <1>1, TargetAfter DEF LinksKept, Keeps
<1>4. PICK r \in EdgesFrom(w, certificate, "REPLAYED_BY") : w.edges[r].dst = replay
  BY <1>2, TargetAfter DEF LinksKept, Keeps
<1>5. /\ e \in DOMAIN w.edges /\ w.edges[e].rel = "PROVED_BY"
      /\ r \in DOMAIN w.edges /\ w.edges[r].rel = "REPLAYED_BY"
  BY <1>3, <1>4 DEF EdgesFrom
<1>6. Joined(w)
  BY JoinedKept
<1>7. /\ certificate \in DOMAIN w.nodes /\ w.nodes[certificate].label = "Certificate"
      /\ replay \in DOMAIN w.nodes /\ w.nodes[replay].label = "LeanReplay"
  <2> HIDE DEF w
  <2> QED
    BY <1>3, <1>4, <1>5, <1>6, Ends
<1>8. Get(w.nodes[certificate].fields, "actor") = Get(NodeFields(v, ops, certificate), "actor")
  BY <1>7, EvidenceRead, EvidenceIsImmutable
<1>9. \A f \in {"actor", "status", "sorry_detected"} :
        Get(w.nodes[replay].fields, f) = Get(NodeFields(v, ops, replay), f)
  BY <1>7, EvidenceRead, EvidenceIsImmutable
<1>10. IndependentReplay(w.nodes[certificate].fields, w.nodes[replay].fields)
  BY <1>2, <1>8, <1>9 DEF IndependentReplay
<1>11. Evidenced(w, op.id)
  <2> HIDE DEF w
  <2> QED
    BY <1>3, <1>4, <1>10 DEF Evidenced
<1> QED
  BY <1>11

\* A claim that is verified afterwards was verified before, or is promoted or created so by
\* the proposal.
LEMMA VerifiedByOps ==
  ASSUME NEW v, NEW ops, Listed(ops), NewNodes(v, ops), CheckReferences(v, ops),
         NEW c \in Labelled(ApplyOps(v, ops), "Claim"),
         StatusOf(ApplyOps(v, ops), c) = "lean-verified"
  PROVE  \/ c \in DOMAIN v.nodes /\ StatusOf(v, c) = "lean-verified"
         \/ \E op \in Promotions(ops) : op.id = c
         \/ CreatesVerified(ops, c)
<1> DEFINE w == ApplyOps(v, ops)
<1>1. c \in DOMAIN w.nodes /\ w.nodes[c].label = "Claim"
  BY DEF Labelled
<1>2. Get(w.nodes[c].fields, "status") = "lean-verified"
  BY DEF StatusOf
<1>3. ASSUME NEW i \in Writes(ops, c, "status"), Get(w.nodes[c].fields, "status") = ops[i].value
      PROVE  \E op \in Promotions(ops) : op.id = c
  <2>1. /\ ops[i] \in OpsOf(ops, "set_field") /\ ops[i].id = c /\ ops[i].field = "status"
        /\ ops[i].label = "Claim"
    BY <1>1, WriteLabelled
  <2> QED
    BY <1>2, <1>3, <2>1 DEF Promotions
<1>4. CASE c \in DOMAIN v.nodes
  <2>1. \/ Get(w.nodes[c].fields, "status") = Get(v.nodes[c].fields, "status")
        \/ \E i \in Writes(ops, c, "status") : Get(w.nodes[c].fields, "status") = ops[i].value
    BY <1>4, CommittedNode
  <2> HIDE DEF w
  <2> QED
    BY <1>2, <1>3, <1>4, <2>1 DEF StatusOf
<1>5. CASE c \notin DOMAIN v.nodes
  <2>1. PICK i \in Upserts(ops, c) :
          \/ Get(w.nodes[c].fields, "status") = Get(ops[i].fields, "status")
          \/ \E k \in Writes(ops, c, "status") : Get(w.nodes[c].fields, "status") = ops[k].value
    BY <1>1, <1>5, FirstMade
  <2> HIDE DEF w
  <2> QED
    BY <1>2, <1>3, <2>1 DEF CreatesVerified
<1> QED
  BY <1>4, <1>5

(***************************************************************************)
(* Tactics and their children.                                              *)
(***************************************************************************)

Children(ops, t) == {i \in EdgeOps(ops, "FORMAL_REQUIRES") : ops[i].src = t}

\* The tactics of a proposal are new, and upserted once.
LEMMA TacticIsNew ==
  ASSUME NEW v, NEW ops, Listed(ops), Produced(v, ops), NEW t \in Tactics(ops)
  PROVE  /\ t \notin DOMAIN v.nodes
         /\ t \in DOMAIN ApplyOps(v, ops).nodes
         /\ \A f : Get(ApplyOps(v, ops).nodes[t].fields, f) = Get(TacticFields(ops, t), f)
<1> DEFINE w == ApplyOps(v, ops)
<1>1. PICK k \in DOMAIN ops : /\ ops[k].op = "upsert_node" /\ ops[k].id = t
                              /\ ops[k].label = "TacticApplication"
  BY DEF Tactics, OpsOf
<1>2. ops[k] \in OpsOf(ops, "upsert_node")
  BY <1>1 DEF OpsOf
<1>3. t \notin DOMAIN v.nodes
  BY <1>1, <1>2 DEF Produced, NewNodes
<1>4. t \in DOMAIN w.nodes
  BY <1>1, <1>2 DEF ApplyOps
<1>5. PICK i \in Upserts(ops, t) :
        /\ \A j \in Upserts(ops, t) : j = i
        /\ \A f : Get(w.nodes[t].fields, f) = Get(ops[i].fields, f)
  BY <1>3, <1>4, NewNode
<1>6. k = i
  BY <1>1, <1>5 DEF Upserts
<1>7. i \in TacticUpserts(ops, t) /\ \A j \in TacticUpserts(ops, t) : j = i
  BY <1>1, <1>5, <1>6 DEF TacticUpserts
<1>8. TacticUpserts(ops, t) \in SUBSET Nat
  BY Indexed DEF TacticUpserts, Upserts
<1>9. Greatest(TacticUpserts(ops, t)) = i
  BY <1>7, <1>8, OnlyOne
<1> QED
  BY <1>3, <1>4, <1>5, <1>9 DEF TacticFields

\* A tactic that is new is one of the proposal's.
LEMMA NewTactic ==
  ASSUME NEW v, NEW ops, Listed(ops), Produced(v, ops),
         NEW t \in Labelled(ApplyOps(v, ops), "TacticApplication"), t \notin DOMAIN v.nodes
  PROVE  t \in Tactics(ops)
<1>1. PICK i \in Upserts(ops, t) : ops[i].label = "TacticApplication"
  BY NewNode DEF Labelled
<1> QED
  BY <1>1 DEF Upserts, Tactics, OpsOf

\* Nothing is required of a tactic but what it came with.
LEMMA NoLaterChildren ==
  ASSUME NEW v, NEW ops, Listed(ops), Produced(v, ops), CheckSubgoals(ops),
         NEW t \in DOMAIN v.nodes
  PROVE  EdgesFrom(ApplyOps(v, ops), t, "FORMAL_REQUIRES") = EdgesFrom(v, t, "FORMAL_REQUIRES")
<1> DEFINE w == ApplyOps(v, ops)
<1>1. ASSUME NEW e \in EdgesFrom(w, t, "FORMAL_REQUIRES")
      PROVE  e \in EdgesFrom(v, t, "FORMAL_REQUIRES")
  <2>1. e \in DOMAIN w.edges /\ w.edges[e].src = t /\ w.edges[e].rel = "FORMAL_REQUIRES"
    BY <1>1 DEF EdgesFrom
  <2>2. CASE e \in DOMAIN v.edges
    BY <2>1, <2>2, CommittedEdge DEF EdgesFrom
  <2>3. CASE e \notin DOMAIN v.edges
    <3>1. PICK i \in DOMAIN ops : ops[i].op = "add_edge" /\ w.edges[e] = EdgeRecord(ops[i])
      BY <2>1, <2>3, NewEdge
    <3>2. i \in EdgeOps(ops, "FORMAL_REQUIRES") /\ ops[i].src = t
      BY <2>1, <3>1 DEF EdgeRecord, EdgeOps
    <3>3. t \in Tactics(ops)
      BY <3>2 DEF CheckSubgoals
    <3> QED
      BY <3>3, TacticIsNew
  <2> QED
    BY <2>2, <2>3
<1>2. ASSUME NEW e \in EdgesFrom(v, t, "FORMAL_REQUIRES")
      PROVE  e \in EdgesFrom(w, t, "FORMAL_REQUIRES")
  BY <1>2, CommittedEdge DEF EdgesFrom
<1> QED
  BY <1>1, <1>2

\* The children of a new tactic are those its proposal adds.
LEMMA NewChildren ==
  ASSUME NEW v, NEW ops, Listed(ops), Produced(v, ops), Joined(v), NEW t, t \notin DOMAIN v.nodes
  PROVE  LET w == ApplyOps(v, ops)
             required == EdgesFrom(w, t, "FORMAL_REQUIRES")
         IN /\ required = {ops[i].edge_id : i \in Children(ops, t)}
            /\ \A i \in Children(ops, t) : /\ w.edges[ops[i].edge_id].dst = ops[i].dst
                                           /\ w.edges[ops[i].edge_id].index = ops[i].index
            /\ Cardinality(required) = Cardinality(Children(ops, t))
<1> DEFINE w == ApplyOps(v, ops)
<1> DEFINE required == EdgesFrom(w, t, "FORMAL_REQUIRES")
<1> DEFINE C == Children(ops, t)
<1>1. ASSUME NEW i \in C
      PROVE  /\ i \in DOMAIN ops /\ ops[i].op = "add_edge"
             /\ ops[i].rel = "FORMAL_REQUIRES" /\ ops[i].src = t
  BY <1>1 DEF Children, EdgeOps
<1>2. ASSUME NEW i \in C
      PROVE  /\ ops[i].edge_id \in required
             /\ w.edges[ops[i].edge_id].dst = ops[i].dst
             /\ w.edges[ops[i].edge_id].index = ops[i].index
  <2>1. /\ i \in DOMAIN ops /\ ops[i].op = "add_edge"
        /\ ops[i].rel = "FORMAL_REQUIRES" /\ ops[i].src = t
    BY <1>1, <1>2
  <2>2. /\ ops[i].edge_id \in DOMAIN w.edges
        /\ w.edges[ops[i].edge_id] = EdgeRecord(ops[i])
    BY <2>1, AddedEdge
  <2> HIDE DEF w
  <2> QED
    BY <2>1, <2>2 DEF EdgesFrom, EdgeRecord
<1>3. ASSUME NEW e \in required
      PROVE  \E i \in C : ops[i].edge_id = e
  <2>1. e \in DOMAIN w.edges /\ w.edges[e].src = t /\ w.edges[e].rel = "FORMAL_REQUIRES"
    BY <1>3 DEF EdgesFrom
  <2>2. e \notin DOMAIN v.edges
    BY <2>1, CommittedEdge, Ends
  <2>3. PICK i \in DOMAIN ops : /\ ops[i].op = "add_edge" /\ ops[i].edge_id = e
                                /\ w.edges[e] = EdgeRecord(ops[i])
    BY <2>1, <2>2, NewEdge
  <2>4. i \in C
    BY <2>1, <2>3 DEF EdgeRecord, Children, EdgeOps
  <2> QED
    BY <2>3, <2>4
<1>4. required = {ops[i].edge_id : i \in C}
  <2> HIDE DEF C, required
  <2> QED
    BY <1>2, <1>3
<1>5. \A i, j \in C : ops[i].edge_id = ops[j].edge_id => i = j
  BY <1>1 DEF Produced, NewEdges
<1>6. Cardinality(required) = Cardinality(C)
  <2> DEFINE f == [i \in C |-> ops[i].edge_id]
  <2>1. IsFiniteSet(C)
    BY Indexed, FS_Subset DEF Children, EdgeOps
  <2> HIDE DEF C, required
  <2>2. f \in Bijection(C, required)
    BY <1>2, <1>3, <1>5 DEF Bijection, Injection, Surjection, IsInjective
  <2>3. ExistsBijection(C, required)
    BY <2>2 DEF ExistsBijection
  <2> QED
    BY <2>1, <2>3, FS_Bijection
<1> QED
  BY <1>2, <1>4, <1>6

LEMMA ArityKept ==
  ASSUME NEW v, NEW ops, Listed(ops), Produced(v, ops), CheckReferences(v, ops),
         CheckImmutability(ops), CheckSubgoals(ops),
         NEW t \in Labelled(v, "TacticApplication"), ArityAsDeclared(v, t)
  PROVE  ArityAsDeclared(ApplyOps(v, ops), t)
<1> DEFINE w == ApplyOps(v, ops)
<1> DEFINE required == EdgesFrom(v, t, "FORMAL_REQUIRES")
<1>1. t \in DOMAIN v.nodes /\ v.nodes[t].label = "TacticApplication"
  BY DEF Labelled
<1>2. EdgesFrom(w, t, "FORMAL_REQUIRES") = required
  BY <1>1, NoLaterChildren
<1>3. \A e \in required : w.edges[e] = v.edges[e]
  BY CommittedEdge DEF EdgesFrom
<1>4. Get(w.nodes[t].fields, "subgoal_count") = Get(v.nodes[t].fields, "subgoal_count")
  BY <1>1, ImmutableKept, EvidenceIsImmutable DEF Produced
<1>5. {w.edges[e].index : e \in required} = {v.edges[e].index : e \in required}
  BY <1>3
<1>6. /\ Get(v.nodes[t].fields, "subgoal_count") = Cardinality(required)
      /\ \A d, e \in required : v.edges[d].dst = v.edges[e].dst => d = e
      /\ {v.edges[e].index : e \in required} = 0..(Cardinality(required) - 1)
  BY DEF ArityAsDeclared
<1> HIDE DEF required
<1>7. \A d, e \in required : w.edges[d].dst = w.edges[e].dst => d = e
  BY <1>3, <1>6
<1> QED
  BY <1>2, <1>4, <1>5, <1>6, <1>7 DEF ArityAsDeclared

LEMMA ArityOfNew ==
  ASSUME NEW v, NEW ops, Listed(ops), Produced(v, ops), CheckSubgoals(ops), Joined(v),
         NEW t \in Tactics(ops)
  PROVE  ArityAsDeclared(ApplyOps(v, ops), t)
<1> DEFINE w == ApplyOps(v, ops)
<1> DEFINE required == EdgesFrom(w, t, "FORMAL_REQUIRES")
<1> DEFINE C == Children(ops, t)
<1>1. /\ Get(TacticFields(ops, t), "subgoal_count") = Cardinality(C)
      /\ \A i, j \in C : ops[i].dst = ops[j].dst => i = j
      /\ {ops[i].index : i \in C} = 0..(Cardinality(C) - 1)
  BY DEF CheckSubgoals, Children
<1>2. t \notin DOMAIN v.nodes /\ Get(w.nodes[t].fields, "subgoal_count") = Cardinality(C)
  BY <1>1, TacticIsNew
<1>3. /\ required = {ops[i].edge_id : i \in C}
      /\ \A i \in C : /\ w.edges[ops[i].edge_id].dst = ops[i].dst
                      /\ w.edges[ops[i].edge_id].index = ops[i].index
      /\ Cardinality(required) = Cardinality(C)
  BY <1>2, NewChildren
<1> HIDE DEF C, w, required
<1>4. \A d, e \in required : w.edges[d].dst = w.edges[e].dst => d = e
  BY <1>1, <1>3
<1>5. {w.edges[e].index : e \in required} = {ops[i].index : i \in C}
  BY <1>3
<1>6. /\ Get(w.nodes[t].fields, "subgoal_count") = Cardinality(required)
      /\ {w.edges[e].index : e \in required} = 0..(Cardinality(required) - 1)
  BY <1>1, <1>2, <1>3, <1>5
<1> QED
  BY <1>4, <1>6 DEF ArityAsDeclared, required, w


\* A tactic that closes a state goes on to do so, and a new one may.
LEMMA ClosersKept ==
  ASSUME NEW v, NEW ops, Listed(ops), Produced(v, ops), CheckReferences(v, ops),
         CheckImmutability(ops), CheckSubgoals(ops), CheckExecutor(ops), Joined(v),
         \A e \in DOMAIN v.edges :
           v.edges[e].rel = "CLOSES_STATE" => MayClose(v, v.edges[e].src),
         NEW e \in DOMAIN ApplyOps(v, ops).edges,
         ApplyOps(v, ops).edges[e].rel = "CLOSES_STATE"
  PROVE  MayClose(ApplyOps(v, ops), ApplyOps(v, ops).edges[e].src)
<1> DEFINE w == ApplyOps(v, ops)
<1> DEFINE t == w.edges[e].src
<1>1. CASE e \in DOMAIN v.edges
  <2>1. w.edges[e] = v.edges[e]
    BY <1>1, CommittedEdge
  <2>2. t \in DOMAIN v.nodes /\ v.nodes[t].label = "TacticApplication" /\ MayClose(v, t)
    BY <1>1, <2>1, Ends
  <2>3. Get(w.nodes[t].fields, "executor_result") = Get(v.nodes[t].fields, "executor_result")
    BY <2>2, ImmutableKept, EvidenceIsImmutable DEF Produced
  <2>4. EdgesFrom(w, t, "FORMAL_REQUIRES") = EdgesFrom(v, t, "FORMAL_REQUIRES")
    BY <2>2, NoLaterChildren
  <2> QED
    BY <2>2, <2>3, <2>4 DEF MayClose
<1>2. CASE e \notin DOMAIN v.edges
  <2>1. PICK i \in DOMAIN ops : ops[i].op = "add_edge" /\ w.edges[e] = EdgeRecord(ops[i])
    BY <1>2, NewEdge
  <2>2. i \in EdgeOps(ops, "CLOSES_STATE") /\ ops[i].src = t
    BY <2>1 DEF EdgeRecord, EdgeOps
  <2>3. /\ t \in Tactics(ops)
        /\ Get(TacticFields(ops, t), "executor_result") = "lean-accepted"
        /\ Get(TacticFields(ops, t), "subgoal_count") = 0
    BY <2>2 DEF CheckExecutor
  <2>4. Cardinality(Children(ops, t)) = 0
    BY <2>3 DEF CheckSubgoals, Children
  <2>5. IsFiniteSet(Children(ops, t))
    BY Indexed, FS_Subset DEF Children, EdgeOps
  <2>6. Children(ops, t) = {}
    BY <2>4, <2>5, FS_EmptySet
  <2>7. /\ t \notin DOMAIN v.nodes
        /\ Get(w.nodes[t].fields, "executor_result") = "lean-accepted"
    BY <2>3, TacticIsNew
  <2>8. EdgesFrom(w, t, "FORMAL_REQUIRES") = {ops[j].edge_id : j \in Children(ops, t)}
    BY <2>7, NewChildren
  <2> QED
    BY <2>6, <2>7, <2>8 DEF MayClose
<1> QED
  BY <1>1, <1>2

\* A promotion the rules accept has a reviewed alignment.
LEMMA PromotionIsAligned ==
  ASSUME NEW v, NEW ops, Listed(ops), NewNodes(v, ops), CheckReferences(v, ops),
         CheckAlignmentGate(v, ops), Joined(v), Keeps(v, ops, {"ALIGNS_CLAIM"}),
         NEW op \in Promotions(ops)
  PROVE  \E e \in EdgesTo(ApplyOps(v, ops), op.id, "ALIGNS_CLAIM") :
           LET a == ApplyOps(v, ops).edges[e].src
           IN IF a \in DOMAIN v.nodes THEN ReviewedAligned(v.nodes[a].fields)
              ELSE \E i \in Upserts(ops, a) : ReviewedAligned(ops[i].fields)
<1> DEFINE w == ApplyOps(v, ops)
<1>1. PICK a \in EdgeSources(v, ops, op.id, "ALIGNS_CLAIM") :
        ReviewedAligned(NodeFields(v, ops, a))
  BY DEF CheckAlignmentGate
<1>2. PICK e \in EdgesTo(w, op.id, "ALIGNS_CLAIM") : w.edges[e].src = a
  BY <1>1, SourceAfter
<1>3. a \in DOMAIN w.nodes
  <2>1. e \in DOMAIN w.edges
    BY <1>2 DEF EdgesTo
  <2> QED
    BY <1>2, <2>1, JoinedKept, Ends
<1>4. CASE a \in DOMAIN v.nodes
  BY <1>1, <1>2, <1>4 DEF NodeFields
<1>5. CASE a \notin DOMAIN v.nodes
  <2>1. PICK i \in Upserts(ops, a) : NodeFields(v, ops, a) = ops[i].fields
    BY <1>3, <1>5, FirstMade
  <2> QED
    BY <1>1, <1>2, <1>5, <2>1
<1> QED
  BY <1>4, <1>5


(***************************************************************************)
(* What the rules keep for workers that only name nodes for good.           *)
(***************************************************************************)

\* Every worker of every proof names nodes for good.
NodesAreNamed == \A q \in Proofs : "nodes" \in Discipline[q]

\* What a commit is.
LEMMA CommitIsAccepted ==
  ASSUME TypeOK, NEW p \in Proposals, Commit(p)
  PROVE  /\ Listed(p.ops) /\ Accepts(view, p) /\ p.proof_id = proof /\ proof' = proof
         /\ replayable' \in BOOLEAN
         /\ view' = view \/ view' = ApplyOps(view, p.ops)
         /\ NodesAreNamed => NewNodes(view, p.ops)
<1>1. Listed(p.ops)
  BY GateAssumption DEF GateAssumption, Listed
<1>2. Applies(view, p.ops) \in BOOLEAN
  BY DEF Applies
<1>3. NodesAreNamed => "nodes" \in Discipline[proof]
  BY DEF TypeOK, NodesAreNamed
<1> QED
  BY <1>1, <1>2, <1>3 DEF Commit

LEMMA CommitTypes ==
  ASSUME NodesAreNamed, TypeOK, NEW p \in Proposals, Commit(p)
  PROVE  TypeOK'
<1> DEFINE ops == p.ops
<1>1. /\ Listed(ops) /\ NewNodes(view, ops) /\ (view' = view \/ view' = ApplyOps(view, ops))
      /\ replayable' \in BOOLEAN /\ proof' = proof /\ p.proof_id = proof
  BY CommitIsAccepted
<1>2. /\ CheckVocabulary(ops) /\ CheckNamespace(proof, ops) /\ CheckReferences(view, ops)
  BY <1>1, CommitIsAccepted DEF Accepts
<1>3. /\ Joined(view) /\ proof \in Proofs
      /\ \A id \in DOMAIN view.nodes : id[1] = proof
      /\ \A id \in DOMAIN view.nodes : \A f \in DOMAIN view.nodes[id].fields :
           InVocabulary(view.nodes[id].label, f, view.nodes[id].fields[f])
  BY DEF TypeOK
<1> HIDE DEF ops
<1>4. CASE view' = view
  BY <1>1, <1>3, <1>4 DEF TypeOK, Joined, InVocabulary
<1>5. CASE view' = ApplyOps(view, ops)
  <2> DEFINE w == ApplyOps(view, ops)
  <2>1. Joined(w)
    BY <1>1, <1>2, <1>3, JoinedKept
  <2>2. \A id \in DOMAIN w.nodes : id[1] = proof
    BY <1>1, <1>2, <1>3, ScopeKept
  <2>3. \A id \in DOMAIN w.nodes : \A f \in DOMAIN w.nodes[id].fields :
          InVocabulary(w.nodes[id].label, f, w.nodes[id].fields[f])
    BY <1>1, <1>2, <1>3, VocabularyKept
  <2>4. view' = w
    BY <1>5
  <2> HIDE DEF w
  <2> QED
    BY <1>1, <1>3, <2>1, <2>2, <2>3, <2>4 DEF TypeOK, InVocabulary, Joined
<1> QED
  BY <1>1, <1>4, <1>5

\* Values come from their vocabularies, and edges join what they may join, whatever ids
\* edges have, claims start as and writes go to.
THEOREM GateTypeCorrect == ASSUME NodesAreNamed PROVE Spec => []TypeOK
<1>1. Init => TypeOK
  <2> SUFFICES ASSUME Init PROVE TypeOK
    OBVIOUS
  <2>1. DOMAIN view.nodes = {} /\ DOMAIN view.edges = {}
    BY DEF Init, EmptyGraph
  <2> QED
    BY <2>1 DEF Init, TypeOK, Joined
<1>2. ASSUME TypeOK, UNCHANGED vars PROVE TypeOK'
  BY <1>2 DEF vars, TypeOK, Joined, InVocabulary
<1>3. TypeOK /\ [Next]_vars => TypeOK'
  BY <1>2, CommitTypes DEF Next
<1> QED
  BY <1>1, <1>3, PTL DEF Spec

\* A claim comes to be lean-verified without an independent, sorry-free replay, or loses that
\* replay, only by a proposal that creates it so or redoes a link of evidence
\* (check_replay_evidence): actors, outcomes and promotions never bring it about, in any
\* sequence of commits.
THEOREM OnlyRedoneLinksLoseEvidence == ASSUME NodesAreNamed PROVE Spec => OnlyLinksLoseEvidence
<1> DEFINE Lost(c) ==
      /\ StatusOf(view', c) = "lean-verified" /\ ~Evidenced(view', c)
      /\ c \in DOMAIN view.nodes /\ StatusOf(view, c) = "lean-verified" => Evidenced(view, c)
<1> DEFINE Redone ==
      \A c \in Labelled(view', "Claim") :
        Lost(c) => \A p \in Proposals :
                     Commit(p) => \/ CreatesVerified(p.ops, c)
                                  \/ \E rel \in {"PROVED_BY", "REPLAYED_BY"} : RedoesEdge(view, p.ops, rel)
<1>1. ASSUME TypeOK, NEW c \in Labelled(view', "Claim"), Lost(c), NEW p \in Proposals, Commit(p),
             LinksKept(view, p.ops), ~CreatesVerified(p.ops, c)
      PROVE  FALSE
  <2> DEFINE ops == p.ops
  <2>1. /\ Listed(ops) /\ NewNodes(view, ops) /\ (view' = view \/ view' = ApplyOps(view, ops))
        /\ CheckReferences(view, ops) /\ CheckImmutability(ops) /\ CheckReplayEvidence(view, ops)
    BY <1>1, CommitIsAccepted DEF Accepts
  <2>2. Joined(view) /\ LinksKept(view, ops) /\ ~CreatesVerified(ops, c)
    BY <1>1 DEF TypeOK
  <2>3. /\ StatusOf(view', c) = "lean-verified" /\ ~Evidenced(view', c)
        /\ c \in DOMAIN view.nodes /\ StatusOf(view, c) = "lean-verified" => Evidenced(view, c)
        /\ c \in Labelled(view', "Claim")
    BY <1>1
  <2> DEFINE w == ApplyOps(view, ops)
  <2> HIDE DEF ops
  <2>4. view' = w
    BY <2>1, <2>3 DEF Labelled
  <2>5. StatusOf(w, c) = "lean-verified" /\ ~Evidenced(w, c) /\ c \in Labelled(w, "Claim")
    BY <2>3, <2>4
  <2>6. CASE Evidenced(view, c)
    BY <2>1, <2>2, <2>5, <2>6, EvidenceKept
  <2>7. CASE \E op \in Promotions(ops) : op.id = c
    BY <2>1, <2>2, <2>5, <2>7, PromotionLeavesEvidence
  <2>8. \/ c \in DOMAIN view.nodes /\ StatusOf(view, c) = "lean-verified"
        \/ \E op \in Promotions(ops) : op.id = c
    BY <2>1, <2>2, <2>5, VerifiedByOps
  <2> QED
    BY <2>3, <2>6, <2>7, <2>8
<1>2. TypeOK => Redone
  BY <1>1 DEF LinksKept, Keeps
<1>3. TypeOK /\ [Next]_vars => [Redone]_vars
  BY <1>2
<1> QED
  BY <1>3, GateTypeCorrect, PTL DEF Spec, OnlyLinksLoseEvidence

\* A claim becomes lean-verified only with its reviewed alignment, or by a proposal that
\* creates it so or redoes a link of alignment (check_alignment_gate).
THEOREM PromotionsAreAligned == ASSUME NodesAreNamed PROVE Spec => PromotedWhenAligned
<1> DEFINE Aligned ==
      \A c \in Labelled(view', "Claim") :
        /\ StatusOf(view', c) = "lean-verified"
        /\ c \in DOMAIN view.nodes => StatusOf(view, c) # "lean-verified"
        => \A p \in Proposals :
             Commit(p) => \/ AlignedAt(p.ops, c) \/ CreatesVerified(p.ops, c)
                          \/ RedoesEdge(view, p.ops, "ALIGNS_CLAIM")
<1>1. ASSUME TypeOK, NEW c \in Labelled(view', "Claim"), StatusOf(view', c) = "lean-verified",
             c \in DOMAIN view.nodes => StatusOf(view, c) # "lean-verified",
             NEW p \in Proposals, Commit(p),
             ~CreatesVerified(p.ops, c), ~RedoesEdge(view, p.ops, "ALIGNS_CLAIM")
      PROVE  AlignedAt(p.ops, c)
  <2> DEFINE ops == p.ops
  <2>1. /\ Listed(ops) /\ NewNodes(view, ops) /\ (view' = view \/ view' = ApplyOps(view, ops))
        /\ CheckReferences(view, ops) /\ CheckAlignmentGate(view, ops)
    BY <1>1, CommitIsAccepted DEF Accepts
  <2>2. /\ Joined(view) /\ ~CreatesVerified(ops, c) /\ Keeps(view, ops, {"ALIGNS_CLAIM"})
    BY <1>1 DEF TypeOK, Keeps
  <2> HIDE DEF ops
  <2>3. view' = ApplyOps(view, ops)
    BY <1>1, <2>1 DEF Labelled
  <2>4. PICK op \in Promotions(ops) : op.id = c
    BY <1>1, <2>1, <2>2, <2>3, VerifiedByOps
  <2>5. AlignedAt(ops, c)
    BY <2>1, <2>2, <2>3, <2>4, PromotionIsAligned DEF AlignedAt
  <2> QED
    BY <2>5 DEF ops
<1>2. TypeOK => Aligned
  BY <1>1
<1>3. TypeOK /\ [Next]_vars => [Aligned]_vars
  BY <1>2
<1> QED
  BY <1>3, GateTypeCorrect, PTL DEF Spec, PromotedWhenAligned

\* Statuses move along their tables, whatever a proposal writes (check_status_transitions).
THEOREM StatusesAreLegal == ASSUME NodesAreNamed PROVE Spec => StatusesFollowTables
<1> DEFINE Legal ==
      \A id \in DOMAIN view.nodes :
        /\ id \in DOMAIN view'.nodes /\ view'.nodes[id].label = view.nodes[id].label
        /\ \A f \in {"status", "lifecycle"} :
             LET before == Get(view.nodes[id].fields, f)
                 after  == Get(view'.nodes[id].fields, f)
             IN STATUS_TRANSITIONS(view.nodes[id].label, f) # {} /\ before \notin {None, after}
                  => after \in AllowedFrom(view.nodes[id].label, f, before)
<1>1. ASSUME TypeOK, NEW p \in Proposals, Commit(p) PROVE Legal
  <2> DEFINE ops == p.ops
  <2>1. /\ Listed(ops) /\ NewNodes(view, ops) /\ (view' = view \/ view' = ApplyOps(view, ops))
        /\ CheckReferences(view, ops) /\ CheckTransitions(view, ops)
    BY <1>1, CommitIsAccepted DEF Accepts
  <2> HIDE DEF ops
  <2>2. ASSUME NEW id \in DOMAIN view.nodes, view' = ApplyOps(view, ops)
        PROVE  /\ id \in DOMAIN view'.nodes /\ view'.nodes[id].label = view.nodes[id].label
               /\ \A f \in {"status", "lifecycle"} :
                    /\ STATUS_TRANSITIONS(view.nodes[id].label, f) # {}
                    /\ Get(view.nodes[id].fields, f)
                         \notin {None, Get(view'.nodes[id].fields, f)}
                    => Get(view'.nodes[id].fields, f)
                         \in AllowedFrom(view.nodes[id].label, f, Get(view.nodes[id].fields, f))
    BY <2>1, <2>2, CommittedNode, TransitionLegal
  <2>3. CASE view' = ApplyOps(view, ops)
    BY <2>2, <2>3
  <2>4. CASE view' = view
    BY <2>4
  <2> QED
    BY <2>1, <2>3, <2>4
<1>2. TypeOK /\ [Next]_vars => [Legal]_vars
  BY <1>1 DEF Next
<1> QED
  BY <1>2, GateTypeCorrect, PTL DEF Spec, StatusesFollowTables

\* A proposal that apply_ops would raise on is refused, unless it writes to a node before
\* the upsert that creates it (check_references), whatever workers submit.
THEOREM OnlyOrderStops == Spec => []OnlyOrderStopsReplay
<1>1. ASSUME NEW p \in Proposals, ~Applies(view, p.ops), Accepts(view, p)
      PROVE  WritesEarly(view, p.ops)
  <2> DEFINE ops == p.ops
  <2>1. PICK i \in DOMAIN ops : /\ ops[i].op = "set_field" /\ ops[i].id \notin DOMAIN view.nodes
                                /\ ~\E j \in Upserts(ops, ops[i].id) : j < i
    BY <1>1 DEF Applies
  <2>2. ops[i] \in OpsOf(ops, "set_field")
    BY <2>1 DEF OpsOf
  <2>3. LabelOf(view, ops, ops[i].id) = ops[i].label /\ ops[i].label # None
    BY <1>1, <2>1, <2>2, GateAssumption DEF Accepts, CheckReferences, GateAssumption
  <2>4. Upserts(ops, ops[i].id) # {}
    BY <2>1, <2>3 DEF LabelOf
  <2>5. ASSUME NEW j \in Upserts(ops, ops[i].id) PROVE i < j
    <3>1. j # i
      BY <2>1 DEF Upserts
    <3>2. i \in Nat /\ j \in Nat
      BY GateAssumption DEF GateAssumption, Upserts
    <3> QED
      BY <2>1, <3>1, <3>2
  <2>6. i \in Writes(ops, ops[i].id, ops[i].field)
    BY <2>1 DEF Writes
  <2> HIDE DEF ops
  <2> QED
    BY <2>1, <2>2, <2>4, <2>5, <2>6 DEF WritesEarly, ops
<1>2. OnlyOrderStopsReplay
  BY <1>1 DEF OnlyOrderStopsReplay
<1> QED
  BY <1>2, PTL

(***************************************************************************)
(* What they keep for workers that have every habit.                        *)
(***************************************************************************)

Disciplined == \A q \in Proofs : Discipline[q] = Habits

IInv == TypeOK /\ ArityFixed /\ ClosuresAreAccepted

\* What a commit of a producer's proposal is.
LEMMA CommitIsApplied ==
  ASSUME Disciplined, TypeOK, NEW p \in Proposals, Commit(p)
  PROVE  /\ Listed(p.ops) /\ Produced(view, p.ops) /\ Accepts(view, p)
         /\ view' = ApplyOps(view, p.ops)
<1>1. Listed(p.ops)
  BY GateAssumption DEF GateAssumption, Listed
<1>2. Produced(view, p.ops)
  BY DEF Commit, Produced, Disciplined, Habits, TypeOK
<1>3. Applies(view, p.ops)
  BY <1>2 DEF Applies, Produced, WritesCommitted, OpsOf
<1> QED
  BY <1>1, <1>2, <1>3 DEF Commit

LEMMA InitIInv == Init => IInv
<1> SUFFICES ASSUME Init PROVE IInv
  OBVIOUS
<1>1. DOMAIN view.nodes = {} /\ DOMAIN view.edges = {}
  BY DEF Init, EmptyGraph
<1> QED
  BY <1>1 DEF Init, IInv, TypeOK, Joined, ArityFixed, ClosuresAreAccepted, Labelled

LEMMA CommitIInv ==
  ASSUME Disciplined, IInv, NEW p \in Proposals, Commit(p)
  PROVE  IInv'
<1> DEFINE ops == p.ops
<1>1. /\ Listed(ops) /\ Produced(view, ops) /\ view' = ApplyOps(view, ops)
  BY CommitIsApplied DEF IInv
<1>2. /\ CheckSubgoals(ops) /\ CheckExecutor(ops) /\ CheckReferences(view, ops)
      /\ CheckImmutability(ops)
  BY <1>1, CommitIsApplied DEF Accepts, IInv
<1>3. Joined(view)
  BY DEF IInv, TypeOK
<1>4. TypeOK'
  BY CommitTypes DEF IInv, Disciplined, Habits, NodesAreNamed
<1> HIDE DEF ops
<1>6. ArityFixed'
  <2>1. ASSUME NEW t \in Labelled(view', "TacticApplication")
        PROVE  ArityAsDeclared(view', t)
    <3>1. CASE t \in DOMAIN view.nodes
      <4>1. t \in Labelled(view, "TacticApplication")
        BY <3>1, <2>1, <1>1, CommittedNode DEF Labelled
      <4>2. ArityAsDeclared(view, t)
        BY <4>1 DEF IInv, ArityFixed
      <4> QED
        BY <4>1, <4>2, <1>1, <1>2, ArityKept
    <3>2. CASE t \notin DOMAIN view.nodes
      <4>1. t \in Tactics(ops)
        BY <3>2, <2>1, <1>1, NewTactic
      <4> QED
        BY <4>1, <1>1, <1>2, <1>3, ArityOfNew
    <3> QED
      BY <3>1, <3>2
  <2> QED
    BY <2>1 DEF ArityFixed, Labelled, ArityAsDeclared, EdgesFrom
<1>7. ClosuresAreAccepted'
  <2>1. ASSUME NEW e \in DOMAIN view'.edges, view'.edges[e].rel = "CLOSES_STATE"
        PROVE  MayClose(view', view'.edges[e].src)
    BY <2>1, <1>1, <1>2, <1>3, ClosersKept DEF IInv, ClosuresAreAccepted
  <2> QED
    BY <2>1 DEF ClosuresAreAccepted, MayClose, EdgesFrom
<1> QED
  BY <1>4, <1>6, <1>7 DEF IInv

LEMMA StutterIInv == IInv /\ UNCHANGED vars => IInv'
<1> SUFFICES ASSUME IInv, UNCHANGED vars PROVE IInv'
  OBVIOUS
<1>1. proof' = proof /\ view' = view /\ replayable' = replayable
  BY DEF vars
<1>2. TypeOK'
  BY <1>1 DEF IInv, TypeOK, Joined, InVocabulary
<1>4. ArityFixed'
  <2>1. ArityFixed
    BY DEF IInv
  <2>2. \A t \in Labelled(view', "TacticApplication") : ArityAsDeclared(view', t)
    BY <1>1, <2>1 DEF ArityFixed
  <2> QED
    BY <2>2 DEF ArityFixed, Labelled, ArityAsDeclared, EdgesFrom
<1>5. ClosuresAreAccepted'
  BY <1>1 DEF IInv, ClosuresAreAccepted, MayClose, EdgesFrom
<1> QED
  BY <1>2, <1>4, <1>5 DEF IInv

\* The inductive invariant of the gate: its parts need one another and no more.
THEOREM GateInvHolds == ASSUME Disciplined PROVE Spec => []IInv
<1>1. IInv /\ [Next]_vars => IInv'
  BY CommitIInv, StutterIInv DEF Next
<1> QED
  BY <1>1, InitIInv, PTL DEF Spec

\* The children of a tactic are those it declares (check_subgoal_conservation).
THEOREM ArityIsFixed == ASSUME Disciplined PROVE Spec => []ArityFixed
<1>1. IInv => ArityFixed
  BY DEF IInv
<1> QED
  BY <1>1, GateInvHolds, PTL

\* States are closed by tactics Lean accepted with nothing left (check_executor_result).
THEOREM ClosuresHold == ASSUME Disciplined PROVE Spec => []ClosuresAreAccepted
<1>1. IInv => ClosuresAreAccepted
  BY DEF IInv
<1> QED
  BY <1>1, GateInvHolds, PTL

=============================================================================
