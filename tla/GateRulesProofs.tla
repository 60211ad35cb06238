---------------------------- MODULE GateRulesProofs ----------------------------
(***************************************************************************)
(* What one commit makes of a graph: for every graph and every list of ops, *)
(* how apply_ops and the rules of the gate agree on nodes, labels, fields    *)
(* and edges, from as few of the habits of producers as each fact needs.     *)
(* Facts about the operators of GateRules, for CommitGate and FormalSearch.  *)
(***************************************************************************)
EXTENDS GateRules, FiniteSetTheorems, WellFoundedInduction, TLAPS

(***************************************************************************)
(* Numbers: the operators Least and Greatest name an element.               *)
(***************************************************************************)

LEMMA LeastExists ==
  ASSUME NEW S \in SUBSET Nat, S # {}
  PROVE  \E x \in S : \A y \in S : x <= y
<1>1. IsWellFoundedOn(OpToRel(<, Nat), Nat)
  BY NatLessThanWellFounded
<1>2. PICK x \in S : \A y \in S : ~ (<<y, x>> \in OpToRel(<, Nat))
  BY <1>1, WFMin
<1>3. \A y \in S : ~ (y < x)
  BY <1>2 DEF OpToRel
<1>4. ASSUME NEW y \in S PROVE x <= y
  <2>1. x \in Nat /\ y \in Nat
    OBVIOUS
  <2> QED
    BY <2>1, <1>3
<1> QED
  BY <1>4

LEMMA GreatestIn ==
  ASSUME NEW n \in Nat, NEW S \in SUBSET (1..n), S # {}
  PROVE  Greatest(S) \in S
<1> DEFINE T == {n - x : x \in S}
<1>1. T \in SUBSET Nat
  OBVIOUS
<1>2. T # {}
  OBVIOUS
<1> HIDE DEF T
<1>3. PICK t \in T : \A u \in T : t <= u
  BY <1>1, <1>2, LeastExists
<1>4. PICK x \in S : t = n - x
  BY DEF T
<1>5. ASSUME NEW y \in S PROVE y <= x
  <2>1. n - y \in T
    BY DEF T
  <2>2. n - x <= n - y
    BY <2>1, <1>3, <1>4
  <2>3. x \in Nat /\ y \in Nat
    OBVIOUS
  <2> QED
    BY <2>2, <2>3
<1> QED
  BY <1>5 DEF Greatest

LEMMA OnlyOne ==
  ASSUME NEW S \in SUBSET Nat, NEW i \in S, \A j \in S : j = i
  PROVE  Least(S) = i /\ Greatest(S) = i
<1>1. S = {i}
  BY Zenon
<1>2. i <= i
  <2>1. i \in Nat
    OBVIOUS
  <2> QED
    BY <2>1
<1> QED
  BY <1>1, <1>2 DEF Least, Greatest

(***************************************************************************)
(* One commit.                                                              *)
(***************************************************************************)

\* A list of ops as GateAssumption has them.
Listed(ops) == Len(ops) \in Nat /\ DOMAIN ops = 1..Len(ops)

LEMMA Indexed ==
  ASSUME NEW ops, Listed(ops)
  PROVE  /\ DOMAIN ops \subseteq Nat
         /\ IsFiniteSet(DOMAIN ops)
BY FS_Interval DEF Listed

\* Committed nodes keep their label; a field of theirs that differs was written.
LEMMA CommittedNode ==
  ASSUME NEW v, NEW ops, Listed(ops), NEW id \in DOMAIN v.nodes
  PROVE  /\ id \in DOMAIN ApplyOps(v, ops).nodes
         /\ ApplyOps(v, ops).nodes[id].label = v.nodes[id].label
         /\ \A f : \/ /\ Get(ApplyOps(v, ops).nodes[id].fields, f) = Get(v.nodes[id].fields, f)
                      /\ f \in DOMAIN ApplyOps(v, ops).nodes[id].fields <=> f \in DOMAIN v.nodes[id].fields
                   \/ \E i \in Writes(ops, id, f) :
                        Get(ApplyOps(v, ops).nodes[id].fields, f) = ops[i].value
<1> DEFINE w == ApplyOps(v, ops)
<1> DEFINE written == {op.field : op \in {o \in OpsOf(ops, "set_field") : o.id = id}}
<1>1. /\ id \in DOMAIN w.nodes
      /\ w.nodes[id] = NodeAfter(v, ops, id)
  BY DEF ApplyOps
<1>2. BaseNode(v, ops, id) = v.nodes[id]
  BY DEF BaseNode
<1>3. /\ w.nodes[id].label = v.nodes[id].label
      /\ w.nodes[id].fields =
           [f \in DOMAIN v.nodes[id].fields \cup written |->
              IF f \in written THEN ops[Greatest(Writes(ops, id, f))].value
              ELSE v.nodes[id].fields[f]]
  BY <1>1, <1>2 DEF NodeAfter
<1>4. ASSUME NEW f, f \in written
      PROVE  Greatest(Writes(ops, id, f)) \in Writes(ops, id, f)
  <2>1. Writes(ops, id, f) # {}
    BY <1>4 DEF Writes, OpsOf
  <2>2. Writes(ops, id, f) \in SUBSET (1..Len(ops))
    BY DEF Writes, Listed
  <2> QED
    BY <2>1, <2>2, GreatestIn DEF Listed
<1> QED
  BY <1>1, <1>3, <1>4 DEF Get

\* A node that is new has one upsert, and is as that made it but for what was written.
LEMMA FirstMade ==
  ASSUME NEW v, NEW ops, Listed(ops), NewNodes(v, ops),
         NEW id \in DOMAIN ApplyOps(v, ops).nodes, id \notin DOMAIN v.nodes
  PROVE  \E i \in Upserts(ops, id) :
           /\ \A j \in Upserts(ops, id) : j = i
           /\ ApplyOps(v, ops).nodes[id].label = ops[i].label
           /\ \A f : \/ /\ Get(ApplyOps(v, ops).nodes[id].fields, f) = Get(ops[i].fields, f)
                        /\ f \in DOMAIN ApplyOps(v, ops).nodes[id].fields
                             <=> f \in DOMAIN ops[i].fields
                     \/ \E k \in Writes(ops, id, f) :
                          Get(ApplyOps(v, ops).nodes[id].fields, f) = ops[k].value
           /\ (\A f : Writes(ops, id, f) = {}) =>
                DOMAIN ApplyOps(v, ops).nodes[id].fields = DOMAIN ops[i].fields
           /\ NodeFields(v, ops, id) = ops[i].fields
<1> DEFINE w == ApplyOps(v, ops)
<1> DEFINE written == {op.field : op \in {o \in OpsOf(ops, "set_field") : o.id = id}}
<1>1. w.nodes[id] = NodeAfter(v, ops, id)
  BY DEF ApplyOps
<1>2. PICK i \in DOMAIN ops : ops[i].op = "upsert_node" /\ ops[i].id = id
  BY DEF ApplyOps, OpsOf
<1>3. i \in Upserts(ops, id)
  BY <1>2 DEF Upserts
<1>4. \A j \in Upserts(ops, id) : j = i
  BY <1>2, <1>3 DEF NewNodes, Upserts
<1>5. Upserts(ops, id) \in SUBSET Nat
  BY Indexed DEF Upserts
<1>6. Least(Upserts(ops, id)) = i
  BY <1>3, <1>4, <1>5, OnlyOne
<1>7. BaseNode(v, ops, id) = [label |-> ops[i].label, fields |-> ops[i].fields]
  BY <1>6 DEF BaseNode
<1>8. /\ w.nodes[id].label = ops[i].label
      /\ w.nodes[id].fields =
           [f \in DOMAIN ops[i].fields \cup written |->
              IF f \in written THEN ops[Greatest(Writes(ops, id, f))].value
              ELSE ops[i].fields[f]]
  <2>1. /\ BaseNode(v, ops, id).label = ops[i].label
        /\ BaseNode(v, ops, id).fields = ops[i].fields
    BY <1>7
  <2>2. /\ NodeAfter(v, ops, id).label = BaseNode(v, ops, id).label
        /\ NodeAfter(v, ops, id).fields =
             [f \in DOMAIN BaseNode(v, ops, id).fields \cup written |->
                IF f \in written THEN ops[Greatest(Writes(ops, id, f))].value
                ELSE BaseNode(v, ops, id).fields[f]]
    BY DEF NodeAfter
  <2> HIDE DEF written
  <2> QED
    BY <1>1, <2>1, <2>2
<1>9. ASSUME NEW f, f \in written
      PROVE  Greatest(Writes(ops, id, f)) \in Writes(ops, id, f)
  <2>1. Writes(ops, id, f) # {}
    BY <1>9 DEF Writes, OpsOf
  <2>2. Writes(ops, id, f) \in SUBSET (1..Len(ops))
    BY DEF Writes, Listed
  <2> QED
    BY <2>1, <2>2, GreatestIn DEF Listed
<1>10. NodeFields(v, ops, id) = ops[i].fields
  BY <1>3, <1>6 DEF NodeFields
<1>11. ASSUME \A f : Writes(ops, id, f) = {}
       PROVE  written = {}
  BY <1>9, <1>11
<1>12. DOMAIN w.nodes[id].fields = DOMAIN ops[i].fields \cup written
  <2> HIDE DEF w, written
  <2> QED
    BY <1>8
<1>13. ASSUME NEW f
       PROVE  \/ /\ Get(w.nodes[id].fields, f) = Get(ops[i].fields, f)
                 /\ f \in DOMAIN w.nodes[id].fields <=> f \in DOMAIN ops[i].fields
              \/ \E k \in Writes(ops, id, f) : Get(w.nodes[id].fields, f) = ops[k].value
  <2> HIDE DEF w, written
  <2> QED
    BY <1>8, <1>9, <1>12 DEF Get
<1> HIDE DEF written
<1> QED
  BY <1>3, <1>4, <1>8, <1>10, <1>11, <1>12, <1>13

\* A node that is new is as its one upsert made it, if only committed nodes are written.
LEMMA NewNode ==
  ASSUME NEW v, NEW ops, Listed(ops), Produced(v, ops),
         NEW id \in DOMAIN ApplyOps(v, ops).nodes, id \notin DOMAIN v.nodes
  PROVE  \E i \in Upserts(ops, id) :
           /\ \A j \in Upserts(ops, id) : j = i
           /\ ApplyOps(v, ops).nodes[id].label = ops[i].label
           /\ \A f : Get(ApplyOps(v, ops).nodes[id].fields, f) = Get(ops[i].fields, f)
           /\ DOMAIN ApplyOps(v, ops).nodes[id].fields = DOMAIN ops[i].fields
           /\ NodeFields(v, ops, id) = ops[i].fields
<1>1. \A f : Writes(ops, id, f) = {}
  BY DEF Produced, WritesCommitted, Writes, OpsOf
<1>2. NewNodes(v, ops)
  BY DEF Produced
<1> QED
  BY <1>1, <1>2, FirstMade

\* Committed edges stay as they are.
LEMMA CommittedEdge ==
  ASSUME NEW v, NEW ops, Produced(v, ops), NEW e \in DOMAIN v.edges
  PROVE  /\ e \in DOMAIN ApplyOps(v, ops).edges
         /\ ApplyOps(v, ops).edges[e] = v.edges[e]
<1>1. Removes(ops, e) = {}
  BY DEF Produced, NewEdges, Removes
<1> QED
  BY <1>1 DEF ApplyOps, EdgeAfter

\* Every edge a proposal adds is there afterwards, as the op has it.
LEMMA AddedEdge ==
  ASSUME NEW v, NEW ops, Listed(ops), Produced(v, ops),
         NEW i \in DOMAIN ops, ops[i].op = "add_edge"
  PROVE  /\ ops[i].edge_id \in DOMAIN ApplyOps(v, ops).edges
         /\ ApplyOps(v, ops).edges[ops[i].edge_id] = EdgeRecord(ops[i])
         /\ ops[i].edge_id \notin DOMAIN v.edges
<1> DEFINE e == ops[i].edge_id
<1>1. e \notin DOMAIN v.edges
  BY DEF Produced, NewEdges
<1>2. Removes(ops, e) = {}
  BY DEF Produced, NewEdges, Removes
<1>3. i \in StandingAdds(ops, e)
  BY <1>2 DEF StandingAdds, Adds
<1>4. \A j \in StandingAdds(ops, e) : j = i
  BY DEF StandingAdds, Adds, Produced, NewEdges
<1>5. StandingAdds(ops, e) \in SUBSET Nat
  BY Indexed DEF StandingAdds, Adds
<1>6. Least(StandingAdds(ops, e)) = i
  BY <1>3, <1>4, <1>5, OnlyOne
<1>7. ops[i] \in {o \in OpsOf(ops, "add_edge") : StandingAdds(ops, o.edge_id) # {}}
  BY <1>3 DEF OpsOf
<1>8. e \in DOMAIN ApplyOps(v, ops).edges
  BY <1>7 DEF ApplyOps
<1>9. ApplyOps(v, ops).edges[e] = EdgeAfter(v, ops, e)
  BY <1>8 DEF ApplyOps
<1> QED
  BY <1>1, <1>6, <1>8, <1>9 DEF EdgeAfter

\* What is there afterwards was there before or is one of the additions.
LEMMA EdgeMade ==
  ASSUME NEW v, NEW ops, Listed(ops), NEW e \in DOMAIN ApplyOps(v, ops).edges
  PROVE  \/ e \in DOMAIN v.edges /\ ApplyOps(v, ops).edges[e] = v.edges[e]
         \/ \E i \in DOMAIN ops : /\ ops[i].op = "add_edge" /\ ops[i].edge_id = e
                                  /\ ApplyOps(v, ops).edges[e] = EdgeRecord(ops[i])
<1>1. ApplyOps(v, ops).edges[e] = EdgeAfter(v, ops, e)
  BY DEF ApplyOps
<1>2. CASE e \in DOMAIN v.edges /\ Removes(ops, e) = {}
  BY <1>1, <1>2 DEF EdgeAfter
<1>3. CASE ~(e \in DOMAIN v.edges /\ Removes(ops, e) = {})
  <2>1. StandingAdds(ops, e) # {}
    BY <1>3 DEF ApplyOps
  <2>2. StandingAdds(ops, e) \in SUBSET Nat
    BY Indexed DEF StandingAdds, Adds
  <2>3. Least(StandingAdds(ops, e)) \in StandingAdds(ops, e)
    BY <2>1, <2>2, LeastExists DEF Least
  <2> DEFINE i == Least(StandingAdds(ops, e))
  <2>4. i \in DOMAIN ops /\ ops[i].op = "add_edge" /\ ops[i].edge_id = e
    BY <2>3 DEF StandingAdds, Adds
  <2> QED
    BY <1>1, <1>3, <2>4 DEF EdgeAfter
<1> QED
  BY <1>2, <1>3

LEMMA NewEdge ==
  ASSUME NEW v, NEW ops, Listed(ops),
         NEW e \in DOMAIN ApplyOps(v, ops).edges, e \notin DOMAIN v.edges
  PROVE  \E i \in DOMAIN ops : /\ ops[i].op = "add_edge" /\ ops[i].edge_id = e
                               /\ ApplyOps(v, ops).edges[e] = EdgeRecord(ops[i])
BY EdgeMade


(***************************************************************************)
(* Labels, fields and edges after a commit that the rules accept.           *)
(***************************************************************************)

\* The label the rules see is the one that is committed.
LEMMA LabelAfter ==
  ASSUME NEW v, NEW ops, Listed(ops), NewNodes(v, ops), NEW id,
         LabelOf(v, ops, id) # None \/ id \in DOMAIN ApplyOps(v, ops).nodes
  PROVE  /\ id \in DOMAIN ApplyOps(v, ops).nodes
         /\ ApplyOps(v, ops).nodes[id].label = LabelOf(v, ops, id)
<1> DEFINE w == ApplyOps(v, ops)
<1>1. CASE Upserts(ops, id) = {}
  <2>1. id \in DOMAIN v.nodes
    <3>1. id \in DOMAIN w.nodes => id \in DOMAIN v.nodes
      BY <1>1 DEF ApplyOps, OpsOf, Upserts
    <3> QED
      BY <1>1, <3>1 DEF LabelOf
  <2>2. LabelOf(v, ops, id) = v.nodes[id].label
    BY <1>1, <2>1 DEF LabelOf
  <2> QED
    BY <2>1, <2>2, CommittedNode
<1>2. CASE Upserts(ops, id) # {}
  <2> DEFINE i == Greatest(Upserts(ops, id))
  <2>1. i \in Upserts(ops, id)
    BY <1>2, GreatestIn DEF Upserts, Listed
  <2>2. LabelOf(v, ops, id) = ops[i].label
    BY <1>2 DEF LabelOf
  <2> HIDE DEF i
  <2>3. i \in DOMAIN ops /\ ops[i].op = "upsert_node" /\ ops[i].id = id
    BY <2>1 DEF Upserts
  <2>4. ops[i] \in OpsOf(ops, "upsert_node")
    BY <2>3 DEF OpsOf
  <2>5. id \in DOMAIN w.nodes
    BY <2>3, <2>4 DEF ApplyOps
  <2>6. CASE id \in DOMAIN v.nodes
    <3>1. ops[i].label = v.nodes[id].label
      BY <2>3, <2>4, <2>6 DEF NewNodes
    <3> QED
      BY <3>1, <2>2, <2>6, CommittedNode
  <2>7. CASE id \notin DOMAIN v.nodes
    BY <2>1, <2>2, <2>5, <2>7, FirstMade
  <2> QED
    BY <2>6, <2>7
<1> QED
  BY <1>1, <1>2

LEMMA JoinedKept ==
  ASSUME NEW v, NEW ops, Listed(ops), NewNodes(v, ops), CheckReferences(v, ops), Joined(v)
  PROVE  Joined(ApplyOps(v, ops))
<1> DEFINE w == ApplyOps(v, ops)
<1> SUFFICES ASSUME NEW e \in DOMAIN w.edges
             PROVE  /\ w.edges[e].src \in DOMAIN w.nodes /\ w.edges[e].dst \in DOMAIN w.nodes
                    /\ EDGE_ENDPOINTS(w.edges[e].rel) # {} =>
                         <<w.nodes[w.edges[e].src].label, w.nodes[w.edges[e].dst].label>>
                           \in EDGE_ENDPOINTS(w.edges[e].rel)
  BY DEF Joined
<1>1. CASE e \in DOMAIN v.edges /\ w.edges[e] = v.edges[e]
  <2>2. /\ v.edges[e].src \in DOMAIN v.nodes /\ v.edges[e].dst \in DOMAIN v.nodes
        /\ EDGE_ENDPOINTS(v.edges[e].rel) # {} =>
             <<v.nodes[v.edges[e].src].label, v.nodes[v.edges[e].dst].label>>
               \in EDGE_ENDPOINTS(v.edges[e].rel)
    BY <1>1 DEF Joined
  <2>3. /\ v.edges[e].src \in DOMAIN w.nodes /\ v.edges[e].dst \in DOMAIN w.nodes
        /\ w.nodes[v.edges[e].src].label = v.nodes[v.edges[e].src].label
        /\ w.nodes[v.edges[e].dst].label = v.nodes[v.edges[e].dst].label
    BY <2>2, CommittedNode
  <2> HIDE DEF w
  <2> QED
    BY <1>1, <2>2, <2>3
<1>2. CASE \E i \in DOMAIN ops : /\ ops[i].op = "add_edge" /\ ops[i].edge_id = e
                                 /\ w.edges[e] = EdgeRecord(ops[i])
  <2>1. PICK i \in DOMAIN ops : ops[i].op = "add_edge" /\ w.edges[e] = EdgeRecord(ops[i])
    BY <1>2
  <2>2. /\ w.edges[e].src = ops[i].src /\ w.edges[e].dst = ops[i].dst
        /\ w.edges[e].rel = ops[i].rel
    BY <2>1 DEF EdgeRecord
  <2>3. /\ LabelOf(v, ops, ops[i].src) # None /\ LabelOf(v, ops, ops[i].dst) # None
        /\ EDGE_ENDPOINTS(ops[i].rel) # {} =>
             <<LabelOf(v, ops, ops[i].src), LabelOf(v, ops, ops[i].dst)>>
               \in EDGE_ENDPOINTS(ops[i].rel)
    BY <2>1 DEF CheckReferences
  <2>4. /\ ops[i].src \in DOMAIN w.nodes /\ ops[i].dst \in DOMAIN w.nodes
        /\ w.nodes[ops[i].src].label = LabelOf(v, ops, ops[i].src)
        /\ w.nodes[ops[i].dst].label = LabelOf(v, ops, ops[i].dst)
    BY <2>3, LabelAfter
  <2> HIDE DEF w
  <2> QED
    BY <2>2, <2>3, <2>4
<1> QED
  BY <1>1, <1>2, EdgeMade

\* A write is one the rules allow under the label its node ends with.
LEMMA WriteLabelled ==
  ASSUME NEW v, NEW ops, Listed(ops), NewNodes(v, ops), CheckReferences(v, ops),
         NEW id \in DOMAIN ApplyOps(v, ops).nodes, NEW f, NEW i \in Writes(ops, id, f)
  PROVE  /\ i \in DOMAIN ops /\ ops[i] \in OpsOf(ops, "set_field")
         /\ ops[i].op = "set_field" /\ ops[i].id = id /\ ops[i].field = f
         /\ ops[i].label = ApplyOps(v, ops).nodes[id].label
<1>1. i \in DOMAIN ops /\ ops[i].op = "set_field" /\ ops[i].id = id /\ ops[i].field = f
  BY DEF Writes
<1>2. LabelOf(v, ops, id) = ops[i].label
  BY <1>1 DEF CheckReferences
<1>3. LabelOf(v, ops, id) = ApplyOps(v, ops).nodes[id].label
  BY LabelAfter
<1> QED
  BY <1>1, <1>2, <1>3 DEF OpsOf

LEMMA WriteAllowed ==
  ASSUME NEW v, NEW ops, Listed(ops), NewNodes(v, ops), CheckReferences(v, ops),
         NEW id \in DOMAIN v.nodes, NEW f, NEW i \in Writes(ops, id, f)
  PROVE  /\ i \in DOMAIN ops /\ ops[i] \in OpsOf(ops, "set_field")
         /\ ops[i].op = "set_field" /\ ops[i].id = id /\ ops[i].field = f
         /\ ops[i].label = v.nodes[id].label
BY CommittedNode, WriteLabelled

\* Immutable fields of committed nodes never change.
LEMMA ImmutableKept ==
  ASSUME NEW v, NEW ops, Listed(ops), NewNodes(v, ops), CheckReferences(v, ops),
         CheckImmutability(ops), NEW id \in DOMAIN v.nodes,
         NEW f \in IMMUTABLE_FIELDS(v.nodes[id].label)
  PROVE  Get(ApplyOps(v, ops).nodes[id].fields, f) = Get(v.nodes[id].fields, f)
<1>1. Writes(ops, id, f) = {}
  <2> SUFFICES ASSUME NEW i \in Writes(ops, id, f) PROVE FALSE
    OBVIOUS
  <2> QED
    BY WriteAllowed DEF CheckImmutability
<1> QED
  BY <1>1, CommittedNode

\* What the fields the rules read from a node are, they are afterwards, if immutable.
LEMMA EvidenceRead ==
  ASSUME NEW v, NEW ops, Listed(ops), NewNodes(v, ops), CheckReferences(v, ops),
         CheckImmutability(ops), NEW id \in DOMAIN ApplyOps(v, ops).nodes,
         NEW f \in IMMUTABLE_FIELDS(ApplyOps(v, ops).nodes[id].label)
  PROVE  Get(ApplyOps(v, ops).nodes[id].fields, f) = Get(NodeFields(v, ops, id), f)
<1>1. CASE id \in DOMAIN v.nodes
  <2>1. NodeFields(v, ops, id) = v.nodes[id].fields
    BY <1>1 DEF NodeFields
  <2> QED
    BY <1>1, <2>1, CommittedNode, ImmutableKept
<1>2. CASE id \notin DOMAIN v.nodes
  <2>1. Writes(ops, id, f) = {}
    <3> SUFFICES ASSUME NEW i \in Writes(ops, id, f) PROVE FALSE
      OBVIOUS
    <3> QED
      BY WriteLabelled DEF CheckImmutability
  <2> QED
    BY <1>2, <2>1, FirstMade
<1> QED
  BY <1>1, <1>2

\* What the relationships of evidence, search and closure join.
LEMMA Ends ==
  ASSUME NEW v, Joined(v), NEW e \in DOMAIN v.edges
  PROVE  /\ v.edges[e].src \in DOMAIN v.nodes /\ v.edges[e].dst \in DOMAIN v.nodes
         /\ v.edges[e].rel = "PROVED_BY" => v.nodes[v.edges[e].dst].label = "Certificate"
         /\ v.edges[e].rel = "REPLAYED_BY" => v.nodes[v.edges[e].dst].label = "LeanReplay"
         /\ v.edges[e].rel \in {"FORMAL_REQUIRES", "CLOSES_STATE"} =>
              v.nodes[v.edges[e].src].label = "TacticApplication"
<1>1. /\ EDGE_ENDPOINTS("PROVED_BY") = {<<"Claim", "Certificate">>}
      /\ EDGE_ENDPOINTS("REPLAYED_BY") = {<<"Certificate", "LeanReplay">>}
      /\ EDGE_ENDPOINTS("FORMAL_REQUIRES") = {<<"TacticApplication", "FormalState">>}
      /\ EDGE_ENDPOINTS("CLOSES_STATE") = {<<"TacticApplication", "FormalState">>}
  BY DEF EDGE_ENDPOINTS
<1>2. /\ v.edges[e].src \in DOMAIN v.nodes /\ v.edges[e].dst \in DOMAIN v.nodes
      /\ EDGE_ENDPOINTS(v.edges[e].rel) # {} =>
           <<v.nodes[v.edges[e].src].label, v.nodes[v.edges[e].dst].label>>
             \in EDGE_ENDPOINTS(v.edges[e].rel)
  BY DEF Joined
<1>3. ASSUME NEW src, NEW dst, EDGE_ENDPOINTS(v.edges[e].rel) = {<<src, dst>>}
      PROVE  v.nodes[v.edges[e].src].label = src /\ v.nodes[v.edges[e].dst].label = dst
  BY <1>2, <1>3
<1> QED
  BY <1>1, <1>2, <1>3

\* Field values come from their vocabulary.
LEMMA VocabularyKept ==
  ASSUME NEW v, NEW ops, Listed(ops), NewNodes(v, ops), CheckReferences(v, ops),
         CheckVocabulary(ops),
         \A id \in DOMAIN v.nodes : \A f \in DOMAIN v.nodes[id].fields :
           InVocabulary(v.nodes[id].label, f, v.nodes[id].fields[f]),
         NEW id \in DOMAIN ApplyOps(v, ops).nodes,
         NEW f \in DOMAIN ApplyOps(v, ops).nodes[id].fields
  PROVE  InVocabulary(ApplyOps(v, ops).nodes[id].label, f, ApplyOps(v, ops).nodes[id].fields[f])
<1> DEFINE w == ApplyOps(v, ops)
<1>1. Get(w.nodes[id].fields, f) = w.nodes[id].fields[f]
  BY DEF Get
<1>2. CASE id \in DOMAIN v.nodes
  <2>1. w.nodes[id].label = v.nodes[id].label
    BY <1>2, CommittedNode
  <2>2. CASE \E i \in Writes(ops, id, f) : Get(w.nodes[id].fields, f) = ops[i].value
    <3>1. PICK i \in Writes(ops, id, f) : Get(w.nodes[id].fields, f) = ops[i].value
      BY <2>2
    <3>2. /\ i \in DOMAIN ops /\ ops[i].op = "set_field" /\ ops[i].field = f
          /\ ops[i].label = v.nodes[id].label
      BY <1>2, WriteAllowed
    <3>3. InVocabulary(ops[i].label, ops[i].field, ops[i].value)
      BY <3>2 DEF CheckVocabulary
    <3> QED
      BY <1>1, <2>1, <3>1, <3>2, <3>3
  <2>3. CASE /\ Get(w.nodes[id].fields, f) = Get(v.nodes[id].fields, f)
             /\ f \in DOMAIN v.nodes[id].fields
    <3>1. Get(v.nodes[id].fields, f) = v.nodes[id].fields[f]
      BY <2>3 DEF Get
    <3>2. InVocabulary(v.nodes[id].label, f, v.nodes[id].fields[f])
      BY <1>2, <2>3
    <3> QED
      BY <1>1, <2>1, <2>3, <3>1, <3>2
  <2> QED
    BY <1>2, <2>2, <2>3, CommittedNode
<1>3. CASE id \notin DOMAIN v.nodes
  <2>1. PICK i \in Upserts(ops, id) :
          /\ w.nodes[id].label = ops[i].label
          /\ \/ /\ Get(w.nodes[id].fields, f) = Get(ops[i].fields, f)
                /\ f \in DOMAIN w.nodes[id].fields <=> f \in DOMAIN ops[i].fields
             \/ \E k \in Writes(ops, id, f) : Get(w.nodes[id].fields, f) = ops[k].value
    <3> HIDE DEF w
    <3>1. \E i \in Upserts(ops, id) :
            /\ w.nodes[id].label = ops[i].label
            /\ \A g : \/ /\ Get(w.nodes[id].fields, g) = Get(ops[i].fields, g)
                         /\ g \in DOMAIN w.nodes[id].fields <=> g \in DOMAIN ops[i].fields
                      \/ \E k \in Writes(ops, id, g) : Get(w.nodes[id].fields, g) = ops[k].value
      BY <1>3, FirstMade DEF w
    <3> QED
      BY <3>1
  <2>2. i \in DOMAIN ops /\ ops[i].op = "upsert_node"
    BY DEF Upserts
  <2>3. CASE \E k \in Writes(ops, id, f) : Get(w.nodes[id].fields, f) = ops[k].value
    <3>1. PICK k \in Writes(ops, id, f) : Get(w.nodes[id].fields, f) = ops[k].value
      BY <2>3
    <3>2. /\ k \in DOMAIN ops /\ ops[k].op = "set_field" /\ ops[k].field = f
          /\ ops[k].label = w.nodes[id].label
      BY WriteLabelled
    <3>3. InVocabulary(ops[k].label, ops[k].field, ops[k].value)
      BY <3>2 DEF CheckVocabulary
    <3> QED
      BY <1>1, <3>1, <3>2, <3>3
  <2>4. CASE /\ Get(w.nodes[id].fields, f) = Get(ops[i].fields, f)
             /\ f \in DOMAIN ops[i].fields
    <3>1. InVocabulary(ops[i].label, f, ops[i].fields[f])
      BY <2>2, <2>4 DEF CheckVocabulary
    <3>2. Get(ops[i].fields, f) = ops[i].fields[f]
      BY <2>4 DEF Get
    <3> QED
      BY <1>1, <2>1, <2>4, <3>1, <3>2
  <2> QED
    BY <2>1, <2>3, <2>4
<1> QED
  BY <1>2, <1>3

\* Nodes belong to the proof.
LEMMA ScopeKept ==
  ASSUME NEW v, NEW ops, NEW scope, CheckNamespace(scope, ops),
         \A id \in DOMAIN v.nodes : id[1] = scope,
         NEW id \in DOMAIN ApplyOps(v, ops).nodes
  PROVE  id[1] = scope
<1>1. CASE id \in DOMAIN v.nodes
  BY <1>1
<1>2. CASE id \notin DOMAIN v.nodes
  <2>1. PICK i \in DOMAIN ops : ops[i].op = "upsert_node" /\ ops[i].id = id
    BY <1>2 DEF ApplyOps, OpsOf
  <2>2. id \in Identities(ops[i])
    BY <2>1 DEF Identities
  <2> QED
    BY <2>1, <2>2 DEF CheckNamespace
<1> QED
  BY <1>1, <1>2

\* A status moves along its table.
LEMMA TransitionLegal ==
  ASSUME NEW v, NEW ops, Listed(ops), NewNodes(v, ops), CheckReferences(v, ops),
         CheckTransitions(v, ops), NEW id \in DOMAIN v.nodes, NEW f,
         STATUS_TRANSITIONS(v.nodes[id].label, f) # {},
         Get(v.nodes[id].fields, f) # None,
         Get(ApplyOps(v, ops).nodes[id].fields, f) # Get(v.nodes[id].fields, f)
  PROVE  Get(ApplyOps(v, ops).nodes[id].fields, f)
           \in AllowedFrom(v.nodes[id].label, f, Get(v.nodes[id].fields, f))
<1>1. PICK i \in Writes(ops, id, f) : Get(ApplyOps(v, ops).nodes[id].fields, f) = ops[i].value
  BY CommittedNode
<1>2. /\ ops[i] \in OpsOf(ops, "set_field") /\ ops[i].id = id /\ ops[i].field = f
      /\ ops[i].label = v.nodes[id].label
  BY WriteAllowed
<1>3. CommittedValue(v, ops[i]) = Get(v.nodes[id].fields, f)
  BY <1>2 DEF CommittedValue
<1> QED
  BY <1>1, <1>2, <1>3 DEF CheckTransitions

================================================================================
