----------------------------- MODULE GateRules -----------------------------
(***************************************************************************)
(* The op algebra of the commit gate: what a proposal may contain, what     *)
(* replaying its ops does to committed state, and the rules a proposal must *)
(* satisfy before it is journalled.  Operators only; CommitGate and         *)
(* FormalSearch put them to work on a committed graph.                      *)
(*                                                                         *)
(* A graph is [nodes, edges]: from node ids to [label, fields], and from    *)
(* edge ids to [rel, src, dst, index].  An id is a pair, the proof that     *)
(* scopes it and a local name.  Fields absent from a node read as None.     *)
(***************************************************************************)
EXTENDS Integers, Sequences, FiniteSets

CONSTANTS
  None,   \* Python's None: an absent field, a null
  Unset   \* the UNSET sentinel: a write that expects nothing

UpsertNode(label, id, fields) ==
  [op |-> "upsert_node", label |-> label, id |-> id, fields |-> fields]
SetField(label, id, field, value, prior) ==
  [op |-> "set_field", label |-> label, id |-> id, field |-> field,
   value |-> value, prior |-> prior]
AddEdge(rel, src, dst, edge_id, index) ==
  [op |-> "add_edge", rel |-> rel, src |-> src, dst |-> dst,
   edge_id |-> edge_id, index |-> index]
RemoveEdge(rel, edge_id) == [op |-> "remove_edge", rel |-> rel, edge_id |-> edge_id]

\* Of the heuristic scores one is enough.
ANNOTATION_FIELDS == {"pln_strength"}

\* A lifecycle is no status: its name ends in neither "status" nor "verdict".
OpClass(op) ==
  IF op.op = "set_field"
  THEN CASE op.field \in ANNOTATION_FIELDS    -> "annotation"
         [] op.field \in {"status", "verdict"} -> "status"
         [] OTHER                              -> "structural"
  ELSE "structural"

Get(fields, name) == IF name \in DOMAIN fields THEN fields[name] ELSE None

NoFields   == [name \in {} |-> None]
EmptyGraph == [nodes |-> [id \in {} |-> None], edges |-> [id \in {} |-> None]]

EdgesFrom(v, id, rel) == {e \in DOMAIN v.edges : v.edges[e].src = id /\ v.edges[e].rel = rel}
EdgesTo(v, id, rel)   == {e \in DOMAIN v.edges : v.edges[e].dst = id /\ v.edges[e].rel = rel}

-----------------------------------------------------------------------------
(* Replay: apply_ops, op by op.  An upsert or an edge whose id exists is     *)
(* dropped, a field write always writes, a removal forgets the id.           *)

Least(S)    == CHOOSE i \in S : \A j \in S : i <= j
Greatest(S) == CHOOSE i \in S : \A j \in S : j <= i

Upserts(ops, id)       == {i \in DOMAIN ops : ops[i].op = "upsert_node" /\ ops[i].id = id}
Writes(ops, id, field) == {i \in DOMAIN ops : /\ ops[i].op = "set_field"
                                              /\ ops[i].id = id /\ ops[i].field = field}
Adds(ops, edge)        == {i \in DOMAIN ops : ops[i].op = "add_edge" /\ ops[i].edge_id = edge}
Removes(ops, edge)     == {i \in DOMAIN ops : ops[i].op = "remove_edge" /\ ops[i].edge_id = edge}

OpsOf(ops, kind) == {ops[i] : i \in {j \in DOMAIN ops : ops[j].op = kind}}

\* apply_ops raises ValueError on a write whose node does not exist yet.
Applies(v, ops) ==
  \A i \in DOMAIN ops :
    ops[i].op = "set_field" =>
      ops[i].id \in DOMAIN v.nodes \/ \E j \in Upserts(ops, ops[i].id) : j < i

\* What a node starts from: what is committed, or else its first upsert.
BaseNode(v, ops, id) ==
  IF id \in DOMAIN v.nodes THEN v.nodes[id]
  ELSE LET op == ops[Least(Upserts(ops, id))]
       IN [label |-> op.label, fields |-> op.fields]

NodeAfter(v, ops, id) ==
  LET base == BaseNode(v, ops, id)
      written == {op.field : op \in {o \in OpsOf(ops, "set_field") : o.id = id}}
  IN [label  |-> base.label,
      fields |-> [f \in DOMAIN base.fields \cup written |->
                    IF f \in written THEN ops[Greatest(Writes(ops, id, f))].value
                    ELSE base.fields[f]]]

\* The additions of an edge id that come after its last removal.
StandingAdds(ops, edge) ==
  {i \in Adds(ops, edge) : \A r \in Removes(ops, edge) : r < i}

EdgeRecord(op) == [rel |-> op.rel, src |-> op.src, dst |-> op.dst, index |-> op.index]

EdgeAfter(v, ops, edge) ==
  IF edge \in DOMAIN v.edges /\ Removes(ops, edge) = {} THEN v.edges[edge]
  ELSE EdgeRecord(ops[Least(StandingAdds(ops, edge))])

ApplyOps(v, ops) ==
  [nodes |-> [id \in DOMAIN v.nodes \cup {op.id : op \in OpsOf(ops, "upsert_node")} |->
                NodeAfter(v, ops, id)],
   edges |-> [edge \in {e \in DOMAIN v.edges : Removes(ops, e) = {}}
                       \cup {op.edge_id : op \in {o \in OpsOf(ops, "add_edge") :
                                            StandingAdds(ops, o.edge_id) # {}}} |->
                EdgeAfter(v, ops, edge)]]

-----------------------------------------------------------------------------
(* Vocabularies and the tables of transitions.                              *)

\* The transitions of a field, as rows: a value and those it may change to.
STATUS_TRANSITIONS(label, field) ==
  LET sunk == {"tainted", "stale"}
      ended == {"tainted", "refuted", "retracted", "stale"}
      searched == {"formally-closed", "failed", "pruned"} \cup sunk
      outcomes == {"proved-pending-replay", "budget-exhausted", "stagnated", "counterexample",
                   "invalid-request", "environment-error", "internal-error", "cancelled"}
      pruned == {"refuted", "dominated", "exhausted"}
      dead == {<<s, {}>> : s \in pruned}
      live == {"leased", "closed"} \cup pruned
      stales(S) == {<<s, {"stale"}>> : s \in S}
  IN CASE <<label, field>> = <<"FormalState", "status">> ->
            {<<"open", {"expanded"} \cup searched>>, <<"expanded", searched>>,
             <<"formally-closed", {"lean-verified"} \cup sunk>>, <<"lean-verified", sunk>>,
             <<"tainted", {"reopened", "pruned", "stale"}>>,
             <<"reopened", {"expanded"} \cup searched>>, <<"stale", {}>>}
              \cup stales({"failed", "pruned"})
       [] <<label, field>> = <<"Claim", "status">> ->
            {<<"conjectural", {"empirical", "provisional"} \cup ended>>,
             <<"empirical", {"provisional"} \cup ended>>,
             <<"provisional", {"critic-accepted", "formally-closed"} \cup ended>>,
             <<"critic-accepted", {"formally-closed"} \cup ended>>,
             <<"formally-closed", {"lean-verified"} \cup ended>>,
             <<"lean-verified", sunk>>, <<"tainted", ended \ {"tainted"}>>, <<"stale", {}>>}
              \cup stales({"refuted", "retracted"})
       [] <<label, field>> = <<"FormalDeclaration", "status">> ->
            {<<"draft", {"aligned", "searching", "stale"}>>, <<"aligned", {"searching", "stale"}>>,
             <<"searching", {"certificate-produced", "stale"}>>,
             <<"certificate-produced", {"replay-pending", "stale"}>>,
             <<"replay-pending", {"replay-accepted", "replay-rejected", "stale"}>>,
             <<"stale", {}>>} \cup stales({"replay-accepted", "replay-rejected"})
       [] <<label, field>> = <<"Certificate", "status">> ->
            {<<"candidate", {"replay-pending", "stale"}>>,
             <<"replay-pending", {"replay-accepted", "replay-rejected", "stale"}>>,
             <<"stale", {}>>} \cup stales({"replay-accepted", "replay-rejected"})
       [] <<label, field>> = <<"Alignment", "lifecycle">> ->
            {<<"draft", {"review-needed", "superseded", "stale"}>>,
             <<"review-needed", {"reviewed", "superseded", "stale"}>>,
             <<"reviewed", {"superseded", "stale"}>>, <<"stale", {}>>} \cup stales({"superseded"})
       [] <<label, field>> = <<"FormalRun", "status">> ->
            {<<"searching", outcomes>>} \cup {<<s, {}>> : s \in outcomes}
       [] <<label, field>> = <<"TacticApplication", "status">> ->
            {<<"pending", {"queued", "open", "closed", "dead"}>>,
             <<"queued", {"leased", "open", "dominated", "dead"}>>,
             <<"leased", {"open", "closed", "refuted", "exhausted", "dead"}>>,
             <<"open", live \cup {"dead"}>>, <<"closed", {"reopened"}>>,
             <<"reopened", live \cup {"dead"}>>, <<"dead", {}>>} \cup dead
       [] <<label, field>> = <<"ResearchState", "status">> ->
            {<<"open", {"superseded", "refuted", "stale"}>>, <<"stale", {}>>}
              \cup stales({"superseded", "refuted"})
       [] <<label, field>> = <<"ResearchMove", "status">> ->
            {<<"queued", {"leased", "open", "dominated", "exhausted", "stale"}>>,
             <<"open", live \cup {"stale"}>>, <<"leased", (live \ {"leased"}) \cup {"open", "stale"}>>,
             <<"stale", {}>>} \cup stales({"closed"}) \cup dead
       [] OTHER -> {}

AllowedFrom(label, field, value) ==
  UNION {row[2] : row \in {r \in STATUS_TRANSITIONS(label, field) : r[1] = value}}

EXECUTOR_FAILURES == {"timeout", "backend-missing", "parse-failure", "crash", "empty-output"}

\* ENUM_FIELDS, of the fields the models use: the literals a field may hold; {}
\* where any value is good.
Vocabulary(label, field) ==
  CASE <<label, field>> = <<"Alignment", "verdict">> ->
         {"aligned", "weaker", "stronger", "mismatch", "ambiguous"}
    [] <<label, field>> = <<"TacticApplication", "executor_result">> ->
         {"lean-accepted", "lean-rejected"} \cup EXECUTOR_FAILURES
    [] <<label, field>> = <<"LeanReplay", "status">> -> {"verified", "rejected"}
    [] <<label, field>> = <<"Obstruction", "kind">> ->
         {"missing-lemma", "missing-premise", "library-gap", "resource", "search-policy",
          "likely-false", "unknown"}  \* and six more
    [] label \in {"ResearchState", "ResearchMove"} -> {}
    [] OTHER -> {row[1] : row \in STATUS_TRANSITIONS(label, field)}

\* Of the fields the models use, those that are set at creation only.
IMMUTABLE_FIELDS(label) ==
  CASE label = "FormalState"       -> {"goal_text"}
    [] label = "TacticApplication" -> {"tactic_label", "subgoal_count", "executor_result",
                                       "diagnostic_artifact"}
    [] label = "LeanReplay"        -> {"actor", "status", "sorry_detected"}
    [] label = "Obstruction"       -> {"kind", "actor"}
    [] label = "Certificate"       -> {"actor", "producer_run_id"}
    [] label \in {"FormalRun", "Proof", "Alignment", "Attempt", "FormalCheckpoint"} -> {"actor"}
    [] OTHER                       -> {}

\* EDGE_ENDPOINTS, of the relationships the models use: the labels of source and
\* target, or {} where none are required.
EDGE_ENDPOINTS(rel) ==
  CASE rel = "HAS_TACTIC"           -> {<<"FormalState", "TacticApplication">>}
    [] rel = "FORMAL_REQUIRES"      -> {<<"TacticApplication", "FormalState">>}
    [] rel = "CLOSES_STATE"         -> {<<"TacticApplication", "FormalState">>}
    [] rel = "HAS_ROOT"             -> {<<"FormalRun", "FormalState">>}
    [] rel = "HAS_CHECKPOINT"       -> {<<"FormalRun", "FormalCheckpoint">>}
    [] rel = "CHECKPOINT_FRONTIER"  -> {<<"FormalCheckpoint", "FormalState">>}
    [] rel = "SEARCHES"             -> {<<"FormalRun", "FormalDeclaration">>}
    [] rel = "PRODUCED_CERTIFICATE" -> {<<"FormalRun", "Certificate">>}
    [] rel = "CERTIFIES"            -> {<<"Certificate", "FormalDeclaration">>}
    [] rel = "REPLAYED_BY"          -> {<<"Certificate", "LeanReplay">>}
    [] rel = "ALIGNS_CLAIM"         -> {<<"Alignment", "Claim">>}
    [] rel = "ALIGNS_DECLARATION"   -> {<<"Alignment", "FormalDeclaration">>}
    [] rel = "PROVED_BY"            -> {<<"Claim", "Certificate">>}
    [] rel = "DEPENDS_ON"           -> {<<"Claim", "Claim">>}
    [] rel = "RAISED_OBSTRUCTION"   -> {<<"FormalRun", "Obstruction">>}
    [] rel = "AT_STATE"             -> {<<"Obstruction", "FormalState">>}
    [] OTHER                        -> {}

-----------------------------------------------------------------------------
(* Rules decided by the ops alone.                                          *)

\* check_concurrency_tokens: a status write needs the lease.
CheckTokens(p) ==
  /\ p.based
  /\ p.leased \/ \A i \in DOMAIN p.ops : OpClass(p.ops[i]) # "status"

InVocabulary(label, field, value) ==
  Vocabulary(label, field) # {} => value \in Vocabulary(label, field)

\* Mutant: only the fields of upserts are looked at.
CheckUpsertVocabulary(ops) ==
  \A op \in OpsOf(ops, "upsert_node") : \A f \in DOMAIN op.fields :
    InVocabulary(op.label, f, op.fields[f])

CheckVocabulary(ops) ==
  \A i \in DOMAIN ops :
    /\ ops[i].op = "upsert_node" =>
         \A f \in DOMAIN ops[i].fields : InVocabulary(ops[i].label, f, ops[i].fields[f])
    /\ ops[i].op = "set_field" => InVocabulary(ops[i].label, ops[i].field, ops[i].value)

Identities(op) ==
  CASE op.op \in {"upsert_node", "set_field"} -> {op.id}
    [] op.op = "add_edge"                     -> {op.src, op.dst, op.edge_id}
    [] op.op = "remove_edge"                  -> {op.edge_id}

CheckNamespace(proof, ops) ==
  \A i \in DOMAIN ops : \A id \in Identities(ops[i]) : id[1] = proof

\* The tactics the ops create or confirm, each with the fields of its last upsert.
TacticUpserts(ops, t) == {i \in Upserts(ops, t) : ops[i].label = "TacticApplication"}
Tactics(ops) ==
  {op.id : op \in {o \in OpsOf(ops, "upsert_node") : o.label = "TacticApplication"}}
TacticFields(ops, t) == ops[Greatest(TacticUpserts(ops, t))].fields

EdgeOps(ops, rel) == {i \in DOMAIN ops : ops[i].op = "add_edge" /\ ops[i].rel = rel}

\* Mutant: the tactics of the proposal are counted, edges of other tactics are not missed.
CheckSubgoalCounts(ops) ==
  \A t \in Tactics(ops) :
    LET children == {i \in EdgeOps(ops, "FORMAL_REQUIRES") : ops[i].src = t}
    IN /\ Get(TacticFields(ops, t), "subgoal_count") = Cardinality(children)
       /\ {ops[i].index : i \in children} = 0..(Cardinality(children) - 1)

\* check_subgoal_conservation: a tactic comes with all its children, distinct and
\* numbered from 0, and no child is added or removed otherwise.
CheckSubgoals(ops) ==
  /\ \A i \in DOMAIN ops : ops[i].op = "remove_edge" => ops[i].rel # "FORMAL_REQUIRES"
  /\ \A i \in EdgeOps(ops, "FORMAL_REQUIRES") : ops[i].src \in Tactics(ops)
  /\ \A t \in Tactics(ops) :
       LET children == {i \in EdgeOps(ops, "FORMAL_REQUIRES") : ops[i].src = t}
       IN /\ Get(TacticFields(ops, t), "subgoal_count") = Cardinality(children)
          /\ \A i, j \in children : ops[i].dst = ops[j].dst => i = j
          /\ {ops[i].index : i \in children} = 0..(Cardinality(children) - 1)

\* Mutant: a tactic Lean accepted closes a state whatever it left to prove.
CheckAcceptedCloses(ops) ==
  \A i \in EdgeOps(ops, "CLOSES_STATE") :
    /\ ops[i].src \in Tactics(ops)
    /\ Get(TacticFields(ops, ops[i].src), "executor_result") = "lean-accepted"

\* check_executor_result: infrastructure failures are not results, and only a
\* tactic Lean accepted with no goals left closes a state.
CheckExecutor(ops) ==
  /\ \A t \in Tactics(ops) :
       LET fields == TacticFields(ops, t)
           result == Get(fields, "executor_result")
       IN /\ result # None
          /\ result \in EXECUTOR_FAILURES => /\ Get(fields, "status") # "closed"
                                             /\ Get(fields, "diagnostic_artifact") = None
          /\ result = "lean-rejected" => Get(fields, "diagnostic_artifact") # None
  /\ \A i \in EdgeOps(ops, "CLOSES_STATE") :
       /\ ops[i].src \in Tactics(ops)
       /\ Get(TacticFields(ops, ops[i].src), "executor_result") = "lean-accepted"
       /\ Get(TacticFields(ops, ops[i].src), "subgoal_count") = 0

\* check_annotation_separation: writes other than scores state what they expect,
\* and no state is closed in a proposal that scores it without closing evidence.
CheckAnnotations(ops) ==
  LET scored == {op.id : op \in {o \in OpsOf(ops, "set_field") : OpClass(o) = "annotation"}}
                \cup {op.id : op \in {o \in OpsOf(ops, "upsert_node") :
                                /\ o.label = "FormalState"
                                /\ DOMAIN o.fields \cap ANNOTATION_FIELDS # {}}}
      evident == {ops[i].dst : i \in EdgeOps(ops, "CLOSES_STATE")}
  IN \A op \in OpsOf(ops, "set_field") :
       OpClass(op) # "annotation" =>
         /\ op.prior # Unset
         /\ /\ op.label = "FormalState" /\ op.field = "status"
            /\ op.value \in {"formally-closed", "lean-verified"}
            => (op.id \in scored => op.id \in evident)

-----------------------------------------------------------------------------
(* Rules that read committed state.  A proposal's own ops come first where   *)
(* labels and edge types are asked, and committed fields come first where     *)
(* evidence is.                                                              *)

LabelOf(v, ops, id) ==
  IF Upserts(ops, id) # {} THEN ops[Greatest(Upserts(ops, id))].label
  ELSE IF id \in DOMAIN v.nodes THEN v.nodes[id].label ELSE None

RelOf(v, ops, edge) ==
  IF Adds(ops, edge) # {} THEN ops[Greatest(Adds(ops, edge))].rel
  ELSE IF edge \in DOMAIN v.edges THEN v.edges[edge].rel ELSE None

\* Mutant: a write to a node nobody knows has no label to disagree with.
CheckKnownReferences(v, ops) ==
  /\ \A op \in OpsOf(ops, "set_field") : LabelOf(v, ops, op.id) \in {op.label, None}
  /\ \A op \in OpsOf(ops, "add_edge") :
       LET ends == <<LabelOf(v, ops, op.src), LabelOf(v, ops, op.dst)>>
       IN /\ ends[1] # None /\ ends[2] # None
          /\ EDGE_ENDPOINTS(op.rel) # {} => ends \in EDGE_ENDPOINTS(op.rel)
  /\ \A op \in OpsOf(ops, "remove_edge") : RelOf(v, ops, op.edge_id) = op.rel

CheckReferences(v, ops) ==
  \A i \in DOMAIN ops :
    LET op == ops[i]
    IN CASE op.op = "set_field" -> LabelOf(v, ops, op.id) = op.label
         [] op.op = "add_edge" ->
              LET ends == <<LabelOf(v, ops, op.src), LabelOf(v, ops, op.dst)>>
              IN /\ ends[1] # None /\ ends[2] # None
                 /\ EDGE_ENDPOINTS(op.rel) # {} => ends \in EDGE_ENDPOINTS(op.rel)
         [] op.op = "upsert_node" ->
              op.id \in DOMAIN v.nodes =>
                \A f \in DOMAIN op.fields :
                  /\ f \in DOMAIN v.nodes[op.id].fields
                  /\ v.nodes[op.id].fields[f] = op.fields[f]
         [] op.op = "remove_edge" ->
              /\ RelOf(v, ops, op.edge_id) = op.rel
              /\ \A j \in Removes(ops, op.edge_id) : i <= j

\* The committed value a write is compared with, None if the node is not committed.
CommittedValue(v, op) ==
  IF op.id \in DOMAIN v.nodes THEN Get(v.nodes[op.id].fields, op.field) ELSE None

CheckPriors(v, ops) ==
  \A op \in OpsOf(ops, "set_field") :
    op.prior # Unset /\ op.id \in DOMAIN v.nodes => op.prior = CommittedValue(v, op)

\* Mutant: a write is judged by the write of the same field before it, if there is one.
CheckTransitionsInOrder(v, ops) ==
  \A i \in DOMAIN ops :
    ops[i].op = "set_field" =>
      LET earlier == {j \in Writes(ops, ops[i].id, ops[i].field) : j < i}
          before  == IF earlier = {} THEN CommittedValue(v, ops[i]) ELSE ops[Greatest(earlier)].value
      IN STATUS_TRANSITIONS(ops[i].label, ops[i].field) # {} /\ before # None =>
           ops[i].value \in AllowedFrom(ops[i].label, ops[i].field, before)

\* check_status_transitions: a field without a value may be set to anything.
CheckTransitions(v, ops) ==
  \A op \in OpsOf(ops, "set_field") :
    STATUS_TRANSITIONS(op.label, op.field) # {} /\ CommittedValue(v, op) # None =>
      op.value \in AllowedFrom(op.label, op.field, CommittedValue(v, op))

CheckImmutability(ops) ==
  \A op \in OpsOf(ops, "set_field") : op.field \notin IMMUTABLE_FIELDS(op.label)

\* _edge_targets and _edge_sources: over the proposal's edges and the committed ones.
EdgeTargets(v, ops, src, rel) ==
  {ops[i].dst : i \in {j \in EdgeOps(ops, rel) : ops[j].src = src}}
  \cup {v.edges[e].dst : e \in EdgesFrom(v, src, rel)}
EdgeSources(v, ops, dst, rel) ==
  {ops[i].src : i \in {j \in EdgeOps(ops, rel) : ops[j].dst = dst}}
  \cup {v.edges[e].src : e \in EdgesTo(v, dst, rel)}

\* _node_fields: a re-upsert says nothing of a node already committed.
NodeFields(v, ops, id) ==
  IF id \in DOMAIN v.nodes THEN v.nodes[id].fields
  ELSE IF Upserts(ops, id) # {} THEN ops[Least(Upserts(ops, id))].fields
  ELSE NoFields

CheckStagnation(v, ops) ==
  \A op \in OpsOf(ops, "set_field") :
    op.label = "FormalRun" /\ op.field = "status" /\ op.value = "stagnated" =>
      EdgeTargets(v, ops, op.id, "RAISED_OBSTRUCTION") # {}

\* A replay that passed, without sorry, by an actor other than the producer.
IndependentReplay(certificate, replay) ==
  /\ Get(replay, "status") = "verified"
  /\ Get(replay, "sorry_detected") = FALSE
  /\ Get(replay, "actor") # None /\ Get(certificate, "actor") # None
  /\ Get(replay, "actor") # Get(certificate, "actor")

ReviewedAligned(alignment) ==
  Get(alignment, "lifecycle") = "reviewed" /\ Get(alignment, "verdict") = "aligned"

Promotions(ops) ==
  {op \in OpsOf(ops, "set_field") :
     op.label = "Claim" /\ op.field = "status" /\ op.value = "lean-verified"}

\* Mutant: any replay that passed is evidence.
CheckReplayVerified(v, ops) ==
  \A op \in Promotions(ops) :
    \E certificate \in EdgeTargets(v, ops, op.id, "PROVED_BY") :
      \E replay \in EdgeTargets(v, ops, certificate, "REPLAYED_BY") :
        Get(NodeFields(v, ops, replay), "status") = "verified"

CheckReplayEvidence(v, ops) ==
  \A op \in Promotions(ops) :
    \E certificate \in EdgeTargets(v, ops, op.id, "PROVED_BY") :
      \E replay \in EdgeTargets(v, ops, certificate, "REPLAYED_BY") :
        IndependentReplay(NodeFields(v, ops, certificate), NodeFields(v, ops, replay))

CheckSelfCertification(v, ops) ==
  \A i \in EdgeOps(ops, "REPLAYED_BY") :
    LET replayer == Get(NodeFields(v, ops, ops[i].dst), "actor")
        producer == Get(NodeFields(v, ops, ops[i].src), "actor")
    IN replayer # None /\ producer # None => replayer # producer

\* Mutant: a verdict counts before the review is over.
CheckAlignmentVerdict(v, ops) ==
  \A op \in Promotions(ops) :
    \E alignment \in EdgeSources(v, ops, op.id, "ALIGNS_CLAIM") :
      Get(NodeFields(v, ops, alignment), "verdict") = "aligned"

CheckAlignmentGate(v, ops) ==
  \A op \in Promotions(ops) :
    \E alignment \in EdgeSources(v, ops, op.id, "ALIGNS_CLAIM") :
      ReviewedAligned(NodeFields(v, ops, alignment))

\* validate_proposal finds nothing.
Accepts(v, p) ==
  /\ CheckTokens(p)
  /\ CheckVocabulary(p.ops)
  /\ CheckNamespace(p.proof_id, p.ops)
  /\ CheckSubgoals(p.ops)
  /\ CheckExecutor(p.ops)
  /\ CheckAnnotations(p.ops)
  /\ CheckReferences(v, p.ops)
  /\ CheckPriors(v, p.ops)
  /\ CheckTransitions(v, p.ops)
  /\ CheckImmutability(p.ops)
  /\ CheckStagnation(v, p.ops)
  /\ CheckReplayEvidence(v, p.ops)
  /\ CheckSelfCertification(v, p.ops)
  /\ CheckAlignmentGate(v, p.ops)

-----------------------------------------------------------------------------
(* What a producer may keep to, and what readers take for granted.  The gate *)
(* enforces none of the four habits that follow.  formal_result_to_ops and   *)
(* the routing follow-up have them all ("creates what is absent, annotates   *)
(* what exists"); critic_result_to_ops and research_result_to_ops use the ids *)
(* a result names, taken or not.                                            *)

\* Nothing is removed, and an edge id names one edge for good.
NewEdges(v, ops) ==
  /\ \A i \in DOMAIN ops : ops[i].op # "remove_edge"
  /\ \A i, j \in DOMAIN ops :
       ops[i].op = "add_edge" /\ ops[j].op = "add_edge" /\ ops[i].edge_id = ops[j].edge_id
         => i = j
  /\ \A i \in DOMAIN ops : ops[i].op = "add_edge" => ops[i].edge_id \notin DOMAIN v.edges

\* An id names one node for good.  A node that exists may be confirmed, a tactic is not.
NewNodes(v, ops) ==
  /\ \A i, j \in DOMAIN ops :
       ops[i].op = "upsert_node" /\ ops[j].op = "upsert_node" /\ ops[i].id = ops[j].id => i = j
  /\ \A op \in OpsOf(ops, "upsert_node") :
       op.id \in DOMAIN v.nodes =>
         op.label = v.nodes[op.id].label /\ op.label # "TacticApplication"

\* No claim is created lean-verified.
NewClaims(ops) ==
  \A op \in OpsOf(ops, "upsert_node") :
    op.label = "Claim" => Get(op.fields, "status") # "lean-verified"

\* Writes go to nodes that are committed.
WritesCommitted(v, ops) == \A op \in OpsOf(ops, "set_field") : op.id \in DOMAIN v.nodes

\* Names for these habits, as CommitGate takes them.
Habits == {"edges", "nodes", "claims", "writes"}

Produced(v, ops) ==
  NewEdges(v, ops) /\ NewNodes(v, ops) /\ NewClaims(ops) /\ WritesCommitted(v, ops)

\* Edges join committed nodes of the labels they require.
Joined(v) ==
  \A e \in DOMAIN v.edges :
    LET edge == v.edges[e]
    IN /\ edge.src \in DOMAIN v.nodes /\ edge.dst \in DOMAIN v.nodes
       /\ EDGE_ENDPOINTS(edge.rel) # {} =>
            <<v.nodes[edge.src].label, v.nodes[edge.dst].label>> \in EDGE_ENDPOINTS(edge.rel)

=============================================================================
