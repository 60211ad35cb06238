---------------------------- MODULE FormalResults ----------------------------
(***************************************************************************)
(* What the ATP adapters answer, and what dispatch makes of an answer: the  *)
(* ops of a proposal.  Operators only; FormalSearch runs searches.          *)
(*                                                                         *)
(* A result names its states and tactics by serial, as build_state and      *)
(* build_tactic_edge do: the serials of every search start from 1.  The     *)
(* goal of a state is whatever was searched and the serial; hashes and      *)
(* scores are left out.                                                     *)
(***************************************************************************)
EXTENDS GateRules, SequencesExt

\* A payload that reports a disposition and nothing else.
Result(disposition) ==
  [disposition |-> disposition, rooted |-> FALSE, states |-> <<>>, tactics |-> <<>>,
   frontier |-> <<>>, epoch |-> 0, certificate |-> FALSE, obstructions |-> <<>>]

IsList(s) == s \in Seq(Range(s))
IsMap(m)  == m = [k \in DOMAIN m |-> m[k]]

\* The lists of a payload are lists, its states are maps with a status, and it raises an
\* obstruction once.
IsPayload(r) ==
  /\ IsList(r.states) /\ IsList(r.tactics) /\ IsList(r.frontier) /\ IsList(r.obstructions)
  /\ r.rooted \in BOOLEAN /\ r.certificate \in BOOLEAN
  /\ \A s \in DOMAIN r.states : IsMap(r.states[s]) /\ "status" \in DOMAIN r.states[s]
  /\ \A i \in DOMAIN r.tactics : IsList(r.tactics[i].children)
  /\ \A i \in DOMAIN r.obstructions :
       /\ IsList(r.obstructions[i].states) /\ r.obstructions[i].serial \in Nat
       /\ \A j \in DOMAIN r.obstructions :
            r.obstructions[i].serial = r.obstructions[j].serial => i = j

\* build_state, for every state of a search for a goal.
States(searched, statuses) ==
  [n \in DOMAIN statuses |-> [goal_text |-> <<searched, n>>, status |-> statuses[n]]]

\* build_tactic_edge; the family is that of the annotations.
TacticEdge(source, result, children, family) ==
  [source |-> source, executor_result |-> result, children |-> children, family |-> family]

Obstruction(serial, kind, states) == [serial |-> serial, kind |-> kind, states |-> states]

-----------------------------------------------------------------------------
(* MathsAIFormalATP.  The reasoner's hypergraph g has nodes, the root first,  *)
(* with a status each, and edges [source, kernel, children, status]; an edge   *)
(* that is not kernel is a PLN fallback.                                      *)

Solved(g)    == g.nodes[1] = "solved"
Exhausted(g) == g.nodes[1] = "dead"
NodesAt(g, status) ==
  FlattenSeq([n \in DOMAIN g.nodes |-> IF g.nodes[n] = status THEN <<n>> ELSE <<>>])

\* Mutant: a node is closed whatever solved it.
SolvedSources(g) ==
  {g.edges[i].source : i \in {j \in DOMAIN g.edges : g.edges[j].status = "solved"}}

\* _kernel_closed_nodes: those with a solved edge on which a tactic ran.
KernelClosed(g) ==
  {g.edges[i].source : i \in {j \in DOMAIN g.edges : /\ g.edges[j].status = "solved"
                                                     /\ g.edges[j].kernel}}

StateStatus(g, n) ==
  CASE g.nodes[n] = "solved" -> IF n \in KernelClosed(g) THEN "formally-closed" ELSE "open"
    [] g.nodes[n] = "dead"   -> "failed"
    [] OTHER                 -> g.nodes[n]

EdgeResult(edge) ==
  IF ~edge.kernel THEN "empty-output"
  ELSE IF edge.status = "dead" THEN "lean-rejected" ELSE "lean-accepted"

\* _convert_graph, of a search for a declaration: solved by a tactic at the root, dead at
\* the root, or neither.
Converted(g, declaration) ==
  LET searched ==
        [Result("budget-exhausted") EXCEPT
           !.states   = States(declaration, [n \in DOMAIN g.nodes |-> StateStatus(g, n)]),
           !.tactics  = [i \in DOMAIN g.edges |->
                           TacticEdge(g.edges[i].source, EdgeResult(g.edges[i]),
                                      g.edges[i].children, None)],
           !.frontier = NodesAt(g, "open")]
  IN IF Solved(g) /\ 1 \in KernelClosed(g)
     THEN [searched EXCEPT !.disposition = "proved-pending-replay", !.rooted = TRUE,
                           !.certificate = TRUE, !.frontier = <<>>]
     ELSE IF Exhausted(g)
     THEN [searched EXCEPT !.disposition = "stagnated", !.rooted = TRUE,
             !.obstructions = <<Obstruction(1, "search-policy", NodesAt(g, "dead"))>>]
     ELSE IF Solved(g) THEN [searched EXCEPT !.frontier = Append(@, 1)]
     ELSE searched

-----------------------------------------------------------------------------
(* FakeFormalATP: build_result, of a request for a goal.                      *)

EMITTABLE_DISPOSITIONS ==
  {"proved-pending-replay", "budget-exhausted", "stagnated", "counterexample",
   "invalid-request", "environment-error", "internal-error"}

build_result(disposition, goal) ==
  LET found(statuses) ==
        [Result(disposition) EXCEPT !.rooted = TRUE, !.states = States(goal, statuses)]
  IN CASE disposition = "proved-pending-replay" ->
            [found(<<"open">>) EXCEPT !.tactics = <<TacticEdge(1, "lean-accepted", <<>>, None)>>,
                                      !.certificate = TRUE]
       [] disposition = "counterexample" ->
            [found(<<"failed">>) EXCEPT !.obstructions = <<Obstruction(1, "likely-false", <<1>>)>>]
       [] disposition = "stagnated" ->
            [found(<<"open", "open">>) EXCEPT !.frontier = <<2>>,
               !.tactics = <<TacticEdge(1, "lean-rejected", <<>>, "apply-failure")>>,
               !.obstructions = <<Obstruction(1, "missing-lemma", <<2>>)>>]
       [] disposition = "budget-exhausted" ->
            [found(<<"open", "open", "open">>) EXCEPT !.frontier = <<2, 3>>,
               !.tactics = <<TacticEdge(1, "lean-accepted", <<2, 3>>, None)>>]
       [] OTHER -> Result(disposition)

-----------------------------------------------------------------------------
(* formal_result_to_ops, part by part.  scope is the proof the answer names    *)
(* its entities under, declaration the one it reports or None.                *)

When(condition, ops) == IF condition THEN ops ELSE <<>>

\* _next_serial: one past the highest committed serial of a prefix.
NextSerial(v, prefix) ==
  1 + Greatest({0} \cup {id[3] : id \in {n \in DOMAIN v.nodes : n[2] = prefix}})

\* _advance_status: whatever the direction, a status that differs is written.
Advance(v, label, id, status) ==
  LET current == Get(v.nodes[id].fields, "status")
  IN When(status # current, <<SetField(label, id, "status", status, current)>>)

\* Mutant: a state that exists keeps its status.
NewStateOps(v, r, scope) ==
  FlattenSeq([s \in DOMAIN r.states |->
    LET id == <<scope, "fs", s>>
    IN When(id \notin DOMAIN v.nodes, <<UpsertNode("FormalState", id, r.states[s])>>)])

StateOps(v, r, scope) ==
  FlattenSeq([s \in DOMAIN r.states |->
    LET id == <<scope, "fs", s>>
    IN IF id \in DOMAIN v.nodes THEN Advance(v, "FormalState", id, r.states[s].status)
       ELSE <<UpsertNode("FormalState", id, r.states[s])>>])

\* Mutant: the disposition of a run that exists is not written.
RunOpsOnce(v, r, run, declaration, scope) ==
  When(run \notin DOMAIN v.nodes,
       <<UpsertNode("FormalRun", run, [actor |-> "formal-atp", status |-> r.disposition])>>
       \o When(r.rooted, <<AddEdge("HAS_ROOT", run, <<scope, "fs", 1>>, Append(run, "root"), None)>>))
  \o When(declaration \notin EdgeTargets(v, <<>>, run, "SEARCHES") \cup {None},
          <<AddEdge("SEARCHES", run, declaration, Append(run, "searches"), None)>>)

RunOps(v, r, run, declaration, scope) ==
  (IF run \in DOMAIN v.nodes THEN Advance(v, "FormalRun", run, r.disposition)
   ELSE <<UpsertNode("FormalRun", run, [actor |-> "formal-atp", status |-> r.disposition])>>
        \o When(r.rooted, <<AddEdge("HAS_ROOT", run, <<scope, "fs", 1>>, Append(run, "root"), None)>>))
  \o When(declaration \notin EdgeTargets(v, <<>>, run, "SEARCHES") \cup {None},
          <<AddEdge("SEARCHES", run, declaration, Append(run, "searches"), None)>>)

\* The fields of a tactic, absent where the edge has none.
AppliedFields(tactic) ==
  LET fields == [executor_result |-> tactic.executor_result,
                 subgoal_count |-> Len(tactic.children),
                 diagnostic_artifact |->
                   IF tactic.executor_result = "lean-rejected" THEN "diagnostic" ELSE None,
                 failure_family |-> tactic.family]
  IN [f \in {g \in DOMAIN fields : fields[g] # None} |-> fields[f]]

\* A tactic, where it applies, what it requires, and what it closes.
TacticOps(t, tactic, scope) ==
  LET state(s) == <<scope, "fs", s>>
  IN <<UpsertNode("TacticApplication", t, AppliedFields(tactic)),
       AddEdge("HAS_TACTIC", state(tactic.source), t, Append(t, "at"), None)>>
     \o [c \in DOMAIN tactic.children |->
           AddEdge("FORMAL_REQUIRES", t, state(tactic.children[c]), t \o <<"req", c - 1>>, c - 1)]
     \o When(tactic.children = <<>> /\ tactic.executor_result = "lean-accepted",
             <<AddEdge("CLOSES_STATE", t, state(tactic.source), Append(t, "closes"), None)>>)

\* Mutant: a tactic is confirmed with its edges, committed or not.
AllTacticOps(v, r, scope) ==
  FlattenSeq([i \in DOMAIN r.tactics |-> TacticOps(<<scope, "ta", i>>, r.tactics[i], scope)])

NewTacticOps(v, r, scope) ==
  FlattenSeq([i \in DOMAIN r.tactics |->
    When(<<scope, "ta", i>> \notin DOMAIN v.nodes,
         TacticOps(<<scope, "ta", i>>, r.tactics[i], scope))])

CheckpointOps(v, proof, r, run, scope) ==
  LET fc == <<proof, "fc", NextSerial(v, "fc")>>
  IN When(r.frontier # <<>>,
       <<UpsertNode("FormalCheckpoint", fc, [actor |-> "formal-atp", epoch_ms |-> r.epoch]),
         AddEdge("HAS_CHECKPOINT", run, fc, Append(fc, "in"), None)>>
       \o [i \in DOMAIN r.frontier |->
             AddEdge("CHECKPOINT_FRONTIER", fc, <<scope, "fs", r.frontier[i]>>,
                     fc \o <<"frontier", i - 1>>, None)])

CertificateOps(v, proof, r, run, declaration) ==
  LET cert == <<proof, "cert", NextSerial(v, "cert")>>
  IN When(r.certificate,
       <<UpsertNode("Certificate", cert, [actor |-> "formal-atp", producer_run_id |-> run,
                                          status |-> "candidate"]),
         AddEdge("PRODUCED_CERTIFICATE", run, cert, Append(cert, "produced"), None)>>
       \o When(declaration # None,
               <<AddEdge("CERTIFIES", cert, declaration, Append(cert, "certifies"), None)>>))

ObstructionOps(v, r, run, scope) ==
  FlattenSeq([i \in DOMAIN r.obstructions |->
    LET o == r.obstructions[i]
        obs == <<scope, "obs", o.serial>>
    IN When(obs \notin DOMAIN v.nodes,
         <<UpsertNode("Obstruction", obs, [kind |-> o.kind, actor |-> "formal-atp"]),
           AddEdge("RAISED_OBSTRUCTION", run, obs, Append(obs, "raised"), None)>>
         \o [s \in DOMAIN o.states |->
               AddEdge("AT_STATE", obs, <<scope, "fs", o.states[s]>>,
                       obs \o <<"state", s - 1>>, None)])])

formal_result_to_ops(v, proof, r, run, declaration, scope) ==
  StateOps(v, r, scope) \o RunOps(v, r, run, declaration, scope) \o NewTacticOps(v, r, scope)
  \o CheckpointOps(v, proof, r, run, scope) \o CertificateOps(v, proof, r, run, declaration)
  \o ObstructionOps(v, r, run, scope)

-----------------------------------------------------------------------------
(* evaluate_run: the trigger table, over a committed graph.                   *)

SearchIsLive(v, s) == Get(v.nodes[s].fields, "status") \in {"open", "expanded"}

Checkpoints(v, run) == EdgeTargets(v, <<>>, run, "HAS_CHECKPOINT")
FrontierOf(v, fc)   == EdgeTargets(v, <<>>, fc, "CHECKPOINT_FRONTIER")

\* _closing_healthily: the newest checkpoint has fewer live states than the oldest.
\* Checkpoints are as old as their epoch, and by size where epochs are equal.
ClosingHealthily(v, run) ==
  LET size(fc) == Cardinality({s \in FrontierOf(v, fc) : SearchIsLive(v, s)})
      epoch(fc) == v.nodes[fc].fields.epoch_ms
      before(a, b) == \/ epoch(a) < epoch(b)
                      \/ epoch(a) = epoch(b) /\ size(a) <= size(b)
      fcs == Checkpoints(v, run)
  IN \E oldest, newest \in fcs :
       /\ \A fc \in fcs : before(oldest, fc) /\ before(fc, newest)
       /\ size(newest) < size(oldest)

\* _repeated_failure_family: two tactics under the run were rejected the same way.
FailsAlike(v, run) ==
  LET states == EdgeTargets(v, <<>>, run, "HAS_ROOT")
                \cup UNION {FrontierOf(v, fc) : fc \in Checkpoints(v, run)}
      rejected == {t \in UNION {EdgeTargets(v, <<>>, s, "HAS_TACTIC") : s \in states} :
                     /\ Get(v.nodes[t].fields, "executor_result") = "lean-rejected"
                     /\ Get(v.nodes[t].fields, "failure_family") # None}
  IN \E t, u \in rejected :
       t # u /\ v.nodes[t].fields.failure_family = v.nodes[u].fields.failure_family

\* _converged_obstruction: states at which the run raised one kind twice.
ConvergedAt(v, run) ==
  LET at == UNION {EdgesFrom(v, o, "AT_STATE") : o \in EdgeTargets(v, <<>>, run, "RAISED_OBSTRUCTION")}
      kind(e) == v.nodes[v.edges[e].src].fields.kind
  IN {v.edges[e].dst : e \in {d \in at : \E f \in at \ {d} : /\ v.edges[f].dst = v.edges[d].dst
                                                          /\ kind(f) = kind(d)}}

evaluate_run(v, run) ==
  LET disposition == Get(v.nodes[run].fields, "status")
  IN IF disposition = "proved-pending-replay" THEN "hold-for-replay"
     ELSE IF disposition = "searching" /\ ClosingHealthily(v, run) THEN "continue-search"
     ELSE IF FailsAlike(v, run) THEN "widen-premises"
     ELSE IF ConvergedAt(v, run) # {} THEN "propose-bridge-lemma"
     ELSE "none"

=============================================================================
