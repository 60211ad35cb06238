----------------------------- MODULE FormalSearch -----------------------------
(***************************************************************************)
(* Formal searches of one proof, one cycle after the other: a declaration   *)
(* or a searching run is leased, the adapter answers, the answer becomes a  *)
(* proposal, the gate commits or rejects it, maintenance applies it, and    *)
(* the run is routed.  Races between cycles are ProofCycle's subject.       *)
(*                                                                         *)
(* What the reasoner finds and what a scripted adapter says is arbitrary.   *)
(* What an adapter knows of its runs is in memory and lost in a restart.    *)
(***************************************************************************)
EXTENDS Soundness, Projection

CONSTANTS
  Proof,          \* its id
  Decls,          \* serials of declarations
  Stated,         \* those with a Lean type, the goal of a search
  Adapters,       \* which of "maths-ai" and "fake" may be in use
  Graphs,         \* hypergraphs the reasoner may return
  Payloads,       \* results a scripted adapter gives verbatim
  Journals,       \* lists of ops the proof may start from
  MaxRuns,        \* bound: no search starts once there are as many runs
  MaxCheckpoints  \* bound: no scripted run is resumed once there are as many checkpoints

ASSUME SearchAssumption ==
  /\ Adapters \subseteq {"maths-ai", "fake"} /\ Stated \subseteq Decls
  /\ MaxRuns \in Nat /\ MaxCheckpoints \in Nat
  /\ None \notin Vocabulary("FormalState", "status")

\* What the reasoner returns: a root and the nodes a tactic opens are its nodes, each once,
\* with a status it knows.
ASSUME GraphAssumption ==
  \A g \in Graphs :
    /\ IsList(g.nodes) /\ 1 \in DOMAIN g.nodes
    /\ Range(g.nodes) \subseteq {"open", "expanded", "solved", "dead"}
    /\ IsList(g.edges)
    /\ \A i \in DOMAIN g.edges :
         /\ IsList(g.edges[i].children) /\ IsInjective(g.edges[i].children)
         /\ Range(g.edges[i].children) \subseteq DOMAIN g.nodes
         /\ g.edges[i].kernel \in BOOLEAN

\* A payload reports the states on its frontier, open, and certifies exactly what it proves.
ASSUME PayloadAssumption ==
  \A r \in Payloads :
    /\ IsPayload(r)
    /\ \A s \in Range(r.frontier) : s \in DOMAIN r.states /\ r.states[s].status = "open"
    /\ r.certificate = (r.disposition = "proved-pending-replay")

\* The prefixes of ids.py, of the labels the models use.
LabelOfPrefix(prefix) ==
  CASE prefix = "rs"   -> "ResearchState"
    [] prefix = "rm"   -> "ResearchMove"
    [] prefix = "c"    -> "Claim"
    [] prefix = "fd"   -> "FormalDeclaration"
    [] prefix = "fr"   -> "FormalRun"
    [] prefix = "fs"   -> "FormalState"
    [] prefix = "ta"   -> "TacticApplication"
    [] prefix = "al"   -> "Alignment"
    [] prefix = "obs"  -> "Obstruction"
    [] prefix = "cert" -> "Certificate"
    [] prefix = "lr"   -> "LeanReplay"
    [] prefix = "fc"   -> "FormalCheckpoint"
    [] prefix = "at"   -> "Attempt"
    [] OTHER           -> "no label"

Id(prefix, serial) == <<Proof, prefix, serial>>

\* A node is named after the type it has, an edge after a node that comes with it.
Named(ops) ==
  /\ \A op \in OpsOf(ops, "upsert_node") :
       /\ op.id = Id(op.id[2], op.id[3]) /\ op.id[3] \in Nat
       /\ op.label = LabelOfPrefix(op.id[2]) /\ IsMap(op.fields)
  /\ \A op \in OpsOf(ops, "add_edge") :
       \E made \in OpsOf(ops, "upsert_node") :
         made.id = <<op.edge_id[1], op.edge_id[2], op.edge_id[3]>>

\* What is submitted, on a proof that has a revision.
Proposal(ops, leased) == [proof_id |-> Proof, based |-> TRUE, leased |-> leased, ops |-> ops]

RunsOf(v)       == {id \in DOMAIN v.nodes : v.nodes[id].label = "FormalRun"}
StatusIn(v, id) == Get(v.nodes[id].fields, "status")

\* A run awaits replay exactly if it produced a certificate; a certificate has one producer,
\* which it names, and certifies nothing but what that run searched.
Certified(v) ==
  /\ \A run \in RunsOf(v) :
       StatusIn(v, run) = "proved-pending-replay" <=> EdgesFrom(v, run, "PRODUCED_CERTIFICATE") # {}
  /\ \A id \in DOMAIN v.nodes : v.nodes[id].label = "Certificate" =>
       LET producer == Get(v.nodes[id].fields, "producer_run_id")
       IN /\ EdgeSources(v, <<>>, id, "PRODUCED_CERTIFICATE") = {producer}
          /\ EdgeTargets(v, <<>>, id, "CERTIFIES") \subseteq EdgeTargets(v, <<>>, producer, "SEARCHES")

\* The roots of the runs that await replay are closed.
RootsClosed(v) ==
  \A run \in RunsOf(v) : StatusIn(v, run) = "proved-pending-replay" =>
    \A root \in EdgeTargets(v, <<>>, run, "HAS_ROOT") : StatusIn(v, root) = "formally-closed"

\* What the proof starts from is what earlier cycles may have committed: the gate accepts
\* it, of producers that keep to what they do; runs are numbered as they came, those that
\* await replay are certified, and the roots of the reasoner's are closed.
ASSUME HistoryAssumption ==
  \A ops \in Journals :
    /\ IsList(ops) /\ Named(ops) /\ Produced(EmptyGraph, ops)
    /\ \A i \in DOMAIN ops : ops[i].op \in {"set_field", "upsert_node", "add_edge"}
    /\ Accepts(EmptyGraph, Proposal(ops, TRUE))
    /\ \E k \in 0..MaxRuns :
         {op.id : op \in {o \in OpsOf(ops, "upsert_node") : o.label = "FormalRun"}}
           = {Id("fr", n) : n \in 1..k}
    /\ Certified(ApplyOps(EmptyGraph, ops))
    /\ "maths-ai" \in Adapters => RootsClosed(ApplyOps(EmptyGraph, ops))

VARIABLES
  adapter,    \* the adapter in use
  known,      \* searching runs it remembers: _requests, _latest
  cancelled,  \* searching runs it was told to cancel
  view,       \* committed state
  mirror,     \* what the projector has collected of the journal
  submitted,  \* history: the proposal this step committed, None if it committed none
  due         \* the run to route, None if there is none

vars == <<adapter, known, cancelled, view, mirror, submitted, due>>

\* The gate alone, and the gate as its proofs see it: fed by disciplined producers.
Gate == INSTANCE CommitGate WITH proof <- Proof, replayable <- TRUE, Proofs <- {Proof},
                                 Proposals <- {}, Discipline <- [p \in {Proof} |-> Habits]

Runs == RunsOf(view)
StatusOf(id) == StatusIn(view, id)
Searched(run) == EdgeTargets(view, <<>>, run, "SEARCHES")

\* An adapter is asked again for searching runs only, so that is what its memory is kept of.
Going(runs, v) ==
  {run \in runs \cap DOMAIN v.nodes : Get(v.nodes[run].fields, "status") = "searching"}

\* An answer: the result, the declaration it names or None, the proof it is scoped to,
\* and whether the adapter remembers the run from now on.
Answer(result, declaration, scope, remembers) ==
  [result |-> result, declaration |-> declaration, scope |-> scope, remembers |-> remembers]

\* A scripted payload names no declaration.
Scripted(goal, declaration, scope) ==
  {Answer(build_result(d, goal), declaration, scope, TRUE) : d \in EMITTABLE_DISPOSITIONS}
  \cup {Answer(r, None, Proof, TRUE) : r \in Payloads}

SearchedFor(declaration) ==
  {Answer(Converted(g, declaration), declaration, Proof, TRUE) : g \in Graphs}
  \cup {Answer(Result("internal-error"), declaration, Proof, FALSE)}

\* formal_search_start
StartAnswers(declaration) ==
  IF adapter = "fake"
  THEN Scripted(declaration, declaration, Proof)
       \cup {Answer(Result("invalid-request"), declaration, Proof, FALSE)}
  ELSE IF declaration[3] \in Stated THEN SearchedFor(declaration)
  ELSE {Answer(Result("invalid-request"), declaration, Proof, FALSE)}

\* formal_search_resume: the fake goes on from its latest result, which names the proof
\* but no declaration, and calls the goal after the run; neither adapter answers for a run it does not remember as its own.
ResumeAnswers(run) ==
  LET lost == Answer(Result("invalid-request"), None, Proof, FALSE)
  IN IF run \in cancelled THEN {Answer(Result("cancelled"), None, Proof, FALSE)}
     ELSE IF adapter = "fake"
     THEN Scripted(run, None, IF run \in known THEN Proof ELSE "unscoped") \cup {lost}
     ELSE IF run \in known THEN UNION {SearchedFor(d) : d \in Searched(run)}
     ELSE {lost}

-----------------------------------------------------------------------------

Init ==
  /\ adapter \in Adapters
  /\ known = {} /\ cancelled = {}
  /\ \E ops \in Journals : /\ view = ApplyOps(EmptyGraph, ops)
                           /\ mirror = Project(Unprojected, ops)
  /\ submitted = None /\ due = None

\* CommitGate.commit and maintenance.
Submit(ops, leased) ==
  LET p == Proposal(ops, leased)
  IN IF Accepts(view, p)
     THEN /\ view' = ApplyOps(view, ops)
          /\ mirror' = Project(mirror, ops)
          /\ submitted' = p
     ELSE submitted' = None /\ UNCHANGED <<view, mirror>>

\* Mutant: a run is routed whether it was committed or not.
ConcludeRouting(run, answer) ==
  /\ Submit(formal_result_to_ops(view, Proof, answer.result, run, answer.declaration,
                                 answer.scope), TRUE)
  /\ known' = Going(known \cup (IF answer.remembers THEN {run} ELSE {}), view')
  /\ cancelled' = Going(cancelled, view')
  /\ due' = run
  /\ UNCHANGED adapter

\* What a cycle does with the adapter's answer.  A rejected one changes nothing; a run
\* that is committed is routed.
Conclude(run, answer) ==
  /\ Submit(formal_result_to_ops(view, Proof, answer.result, run, answer.declaration,
                                 answer.scope), TRUE)
  /\ known' = Going(known \cup (IF answer.remembers THEN {run} ELSE {}), view')
  /\ cancelled' = Going(cancelled, view')
  /\ due' = IF run \in DOMAIN view'.nodes THEN run ELSE None
  /\ UNCHANGED adapter

\* A cycle that leased a declaration: the run is named when the request is compiled.
Start(declaration) ==
  /\ due = None
  /\ declaration \in DOMAIN view.nodes /\ StatusOf(declaration) \in {"aligned", "searching"}
  /\ Cardinality(Runs) < MaxRuns
  /\ \E answer \in StartAnswers(declaration) : Conclude(Id("fr", NextSerial(view, "fr")), answer)

\* _run_has_open_checkpoint, of a run still searching: it is on the frontier.
Resumable(run) ==
  /\ run \in Runs /\ StatusOf(run) = "searching"
  /\ \E fc \in Checkpoints(view, run) : \E s \in FrontierOf(view, fc) : SearchIsLive(view, s)

\* A cycle that leased a searching run.  The request does not compile without the
\* declaration.
Resume(run) ==
  /\ due = None
  /\ Resumable(run) /\ Searched(run) # {}
  /\ adapter = "fake" => Cardinality({id \in DOMAIN view.nodes : id[2] = "fc"}) < MaxCheckpoints
  /\ \E answer \in ResumeAnswers(run) : Conclude(run, answer)

\* _route_after_commit: obstructions that converge are worth a bridge lemma, everything
\* else goes back to the coordinator.
ProposeBridge ==
  /\ due # None /\ evaluate_run(view, due) = "propose-bridge-lemma"
  /\ \E s \in ConvergedAt(view, due) :
       LET rs == Id("rs", NextSerial(view, "rs"))
           rm == Id("rm", NextSerial(view, "rm"))
       IN Submit(<<UpsertNode("ResearchState", rs, [status |-> "open", origin_state |-> s]),
                   UpsertNode("ResearchMove", rm, [status |-> "queued"]),
                   AddEdge("PROPOSES", rs, rm, Append(rm, "proposed"), None)>>, FALSE)
  /\ due' = None
  /\ UNCHANGED <<adapter, known, cancelled>>

ReportRouting ==
  /\ due # None /\ evaluate_run(view, due) # "propose-bridge-lemma"
  /\ due' = None /\ submitted' = None
  /\ UNCHANGED <<adapter, known, cancelled, view, mirror>>

\* formal_search_cancel, by whoever has the adapter.
Cancel(run) ==
  /\ run \in Going(Runs, view) \ cancelled
  /\ cancelled' = cancelled \cup {run} /\ submitted' = None
  /\ UNCHANGED <<adapter, known, view, mirror, due>>

\* The process ends, a run it had committed is not routed, and another takes its place.
Restart ==
  /\ known' = {} /\ cancelled' = {} /\ due' = None /\ submitted' = None
  /\ UNCHANGED <<adapter, view, mirror>>

Next ==
  \/ \E d \in Decls : Start(Id("fd", d))
  \/ \E run \in Runs : Resume(run)
  \/ ProposeBridge
  \/ ReportRouting
  \/ \E run \in Runs : Cancel(run)
  \/ Restart

Spec == Init /\ [][Next]_vars

\* A coordinator keeps cycling: a run on the frontier outranks every declaration
\* (estimated_cost 2 against 3), and routing is part of the cycle.
RunIds == {Id("fr", n) : n \in 1..MaxRuns}
FairSpec ==
  /\ Spec
  /\ \A run \in RunIds : SF_vars(run \in Runs /\ Resume(run))
  /\ WF_vars(ProposeBridge \/ ReportRouting)

-----------------------------------------------------------------------------
(* Properties                                                               *)

\* Types, and the committed graph as every reader takes it.
TypeOK ==
  /\ adapter \in Adapters
  /\ known \subseteq RunIds /\ cancelled \subseteq Runs /\ due \in Runs \cup {None}
  /\ Gate!TypeOK

\* Whatever the adapter answers, whenever it does, dispatch commits only what the proofs
\* of CommitGate assume of a producer: it creates what is absent, once, and writes to what
\* is committed.  So evidence, arity and closures stand, and every event can be replayed.
CommitsAreDisciplined == [][view' # view => Gate!Commit(submitted')]_vars

\* The atoms projected from the journal describe the committed graph: no search and no
\* follow-up repeats an id, which is where projector and apply_ops part.
ProjectionAgrees == Describes(mirror, view)

\* A run awaits replay exactly if it produced a certificate, which names it as its
\* producer and certifies nothing but what the run searched.
ProvedRunsAreCertified == Certified(view)

\* However the states of several searches share their ids, a checkpoint is committed only
\* with a frontier of states that are open in committed state.
FrontiersAreOpen ==
  [][\A e \in DOMAIN view'.edges \ DOMAIN view.edges :
       view'.edges[e].rel = "CHECKPOINT_FRONTIER" =>
         Get(view'.nodes[view'.edges[e].dst].fields, "status") = "open"]_vars

\* The root of a run the reasoner proved is closed, and no later search reopens it.
ProvedRootsAreClosed == adapter = "maths-ai" => RootsClosed(view)

\* Whatever is found of an answer of the reasoner's adapter or of a result the fake makes
\* up, children are reported and proofs are certified, and a state that is closed although
\* the validators object (a split closed it, or a fallback stands beside its proof) is one
\* at which Lean accepted a tactic.
AnswersAreSound ==
  \A d \in Decls : \A answer \in StartAnswers(Id("fd", d)) :
    LET r == answer.result
    IN r \in Payloads \/
       \A finding \in validate_formal_search_result(r) :
         /\ finding[1] \in {"executor-failure-as-success", "heuristic-closure-attempt"}
         /\ \E t \in TacticsOf(r) : t.source = finding[2] /\ t.executor_result = "lean-accepted"

\* A run the scheduler would resume does not stay so: it ends, or its frontier closes.
ResumableRunsSettle ==
  \A run \in RunIds : (adapter = "maths-ai" /\ run \in Runs /\ Resumable(run)) ~>
                      ~(run \in Runs /\ Resumable(run))

\* A run cannot be stagnated without logging an obstruction (validate.py:609).
StagnationIsExplained ==
  \A run \in Runs :
    StatusOf(run) = "stagnated" => EdgesFrom(view, run, "RAISED_OBSTRUCTION") # {}

\* A declaration's goal is closed only if a run that searched for it proved it: "equal
\* semantics never merge states" (formal-state.schema.json:5).
ClosedGoalsAreProved ==
  \A d \in Decls : \A id \in DOMAIN view.nodes :
    /\ view.nodes[id].label = "FormalState" /\ StatusOf(id) = "formally-closed"
    /\ view.nodes[id].fields.goal_text = <<Id("fd", d), 1>>
    => \E run \in Runs : /\ StatusOf(run) = "proved-pending-replay"
                          /\ Id("fd", d) \in Searched(run)

=============================================================================
