----------------------------- MODULE Projection -----------------------------
(***************************************************************************)
(* The MORK projector: what it collects of a journal, op by op, and the     *)
(* graph its atoms describe.  Operators only; FormalSearch projects the     *)
(* journal it commits.                                                     *)
(*                                                                         *)
(* The projector keeps nodes by id, every edge it was given, and the edge   *)
(* ids that were removed.  It does not know apply_ops: an upsert replaces   *)
(* the node, an edge is kept beside an older one of its id, and a removed   *)
(* id is never projected again.                                            *)
(***************************************************************************)
EXTENDS GateRules

Unprojected == [nodes |-> [id \in {} |-> None], edges |-> {}, removed |-> {}]

Collected(op) ==
  [edge_id |-> op.edge_id, rel |-> op.rel, src |-> op.src, dst |-> op.dst, index |-> op.index]

\* Mutant: a write to a node that is known is ignored like one to a node that is not.
CollectCreations(m, op) ==
  CASE op.op = "upsert_node" ->
         [m EXCEPT !.nodes = [id \in DOMAIN m.nodes \cup {op.id} |->
                                IF id = op.id THEN [label |-> op.label, fields |-> op.fields]
                                ELSE m.nodes[id]]]
    [] op.op = "add_edge"    -> [m EXCEPT !.edges = @ \cup {Collected(op)}]
    [] op.op = "remove_edge" -> [m EXCEPT !.removed = @ \cup {op.edge_id}]
    [] OTHER                 -> m

\* _collect_operation: a write to an unknown node is ignored.
Collect(m, op) ==
  CASE op.op = "upsert_node" ->
         [m EXCEPT !.nodes = [id \in DOMAIN m.nodes \cup {op.id} |->
                                IF id = op.id THEN [label |-> op.label, fields |-> op.fields]
                                ELSE m.nodes[id]]]
    [] op.op = "set_field" /\ op.id \in DOMAIN m.nodes ->
         [m EXCEPT !.nodes[op.id].fields =
            [f \in DOMAIN @ \cup {op.field} |-> IF f = op.field THEN op.value ELSE @[f]]]
    [] op.op = "set_field" /\ op.id \notin DOMAIN m.nodes -> m
    [] op.op = "add_edge"    -> [m EXCEPT !.edges = @ \cup {Collected(op)}]
    [] op.op = "remove_edge" -> [m EXCEPT !.removed = @ \cup {op.edge_id}]

\* What is collected after each number of ops.
Projected(m, ops) ==
  LET projected[n \in 0..Len(ops)] ==
        IF n = 0 THEN m ELSE Collect(projected[n - 1], ops[n])
  IN  projected

\* process_event_journal, one event further.
Project(m, ops) == Projected(m, ops)[Len(ops)]

Atoms(m) == {e \in m.edges : e.edge_id \notin m.removed}

\* _infer_state_references: the state of a move is the source of a PROPOSES edge to it,
\* removed or not.  Several leave the last, here any.
StatesOf(m, move) == {e.src : e \in {d \in m.edges : d.rel = "PROPOSES" /\ d.dst = move}}

\* The atoms describe the graph v: its nodes with their fields, its edges, and of each
\* move the state that proposes it.
Describes(m, v) ==
  /\ m.nodes = v.nodes
  /\ Atoms(m) = {[edge_id |-> e, rel |-> v.edges[e].rel, src |-> v.edges[e].src,
                  dst |-> v.edges[e].dst, index |-> v.edges[e].index] : e \in DOMAIN v.edges}
  /\ \A move \in DOMAIN v.nodes :
       StatesOf(m, move) = EdgeSources(v, <<>>, move, "PROPOSES")

=============================================================================
