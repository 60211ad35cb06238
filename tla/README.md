# Verification of persistent-atp

TLA+ models of the proof-search system in this repository, TLC configurations
that check them on small instances, and TLAPS proofs of the results that should
hold for every instance. Paths below are relative to the repository root.

## The system

Workers search for proofs of one theorem and share what they find through a
commit journal. A *cycle* (`src/mathproof/cycle.py`, `run_cycle`) leases the best
move of the frontier, lets a worker compute, turns the answer into a *proposal*
(a list of graph ops), and asks the *commit gate* to journal it. Everything else
is derived from the journal: in-memory views, a Neo4j search graph, MORK atoms.

| Component | State | Operations | Talks to |
| --- | --- | --- | --- |
| Journal store `src/commit_gate/store.py` | SQLite tables `journal`, `leases`, `lease_serials`, `lease_events`, `rejections` | `append`, `acquire_lease`, `issue_lease`, `dispatch_lease`, `release_lease`, `active_leases`, `record_rejection`, `verify_chain` | called by gate and scheduler, from any number of processes; one write lock per transaction |
| Commit gate `gate.py`, `validate.py`, `transitions.py` | none of its own; reads a `ReadView` | `commit`: validate on the view, then `append` | view (unlocked), store |
| Views `state.py`, `apply.py` | `MemoryView`: nodes and edges | `apply_ops` by a cycle's `maintenance`, or a replay of the journal | read by gate, scheduler, dispatcher, compiler |
| Scheduler `src/mathproof/scheduler.py` | in-process lock, statistics | `lease_next`, `release`, `build_frontier` | view, store |
| Cycle and dispatch `cycle.py`, `dispatch.py`, `context_compiler.py` | the cycle's local variables | `run_cycle`, `result_to_proposal`, `_route_after_commit` | all of the above, workers |
| Routing `routing.py` | none | `evaluate_run`: trigger table | view |
| ATP adapters `formal_atp.py`, `maths_ai_atp.py` | requests, latest results and cancelled runs, in memory | start, resume, cancel, status, replay | called by the cycle; external provers |
| Soundness `soundness.py`, ids `ids.py` | none; counters of an allocator | validators of a result; `IdAllocator` | callers outside the cycle only |
| Search graph `neo4j_adapter/` | Neo4j nodes and relationships of a proof | states, moves, claims, closures, taint, rebuild | external database |
| MORK `mork/projector`, `mork/rules` | nodes, edges, removed edge ids of a projection | project a journal; MeTTa queries | journal file, external engine |

### What is hard

* **Two clocks of truth.** The gate validates on a view without a lock and the
  journal compares one number, the base revision. The base is read from the
  journal while serials, prior values and the frontier are read from the view,
  which trails the journal between an append and the maintenance that applies it,
  and for as long as another process does not rebuild.
* **Leases that end under their holder.** Leases lapse by wall clock, lazily, when
  some call looks; they are superseded, released by id, re-issued under an id that
  had a token before. A worker answers whenever it likes.
* **Two transactions where one is promised.** A refused append rolls back the
  lapse it saw and repeats it in a second transaction.
* **Partial failure.** Nothing releases a lease when a commit is rejected, a
  compiler raises or a process dies. Maintenance may never run.
* **One namespace for many searches.** Serials of states, tactics and obstructions
  restart with every search, and ids are all that dispatch compares: a later search
  of the proof meets what an earlier one left.
* **Memory that does not survive.** An adapter forgets requests, results and
  cancellations in a restart, while the journal still says its runs are searching.
* **Validation of a set, replay of a list.** Rules look at committed state and at
  the proposal's ops in any order; replay takes them one after the other, and drops
  what exists.
* **Graph rules run to a fixpoint** over a database at read-committed isolation.

### What makes each component correct

* Store: a move has one active lease; a token names one acquisition and never
  revives; the audit trail explains the table; late work is never journalled; a
  refusal is answered only once its lapse is on record; timed leases end.
* Cycle: an accepted proposal changes committed state by what it says; a claim is
  promoted exactly on a committed favorable review; claims settle in the end.
* Gate and lifecycle: a lean-verified claim has a replayed, independent, sorry-free
  certificate and a reviewed alignment, whatever sequence of proposals led there; what is
  journalled can be replayed.
* Search graph: a state is closed only with a completed move; dependency is acyclic;
  nothing closed rests on a tainted claim; a rebuild gives the graph it replaces.
* Formal search: dispatch commits what the gate's guarantees assume of a producer,
  whatever an adapter answers and whenever; a run awaits replay exactly if it has a
  certificate; a checkpoint's frontier is open; a run is not resumed for ever.
* Projection: a journal and its projection describe the same graph.

Some of these the code promises in so many words and does not keep; the runs that expect
a violation and the further counterexamples below show how, and a weaker property beside each
says what it does keep.

## Modules

| Module | What it is |
| --- | --- |
| `JournalStore` | one proof's rows of the store; one action per method |
| `FencedLog` | abstract specification: numbered grants, a log only live grants extend |
| `JournalRefinement` | the mapping under which `JournalStore` implements `FencedLog` |
| `MCJournal` | small instances, symmetry |
| `JournalStoreProofs` | TLAPS: type correctness and safety of the store; it implements the fenced log |
| `JournalAuditProofs` | TLAPS: the audit trail explains the table, commits are fenced, refusals audited |
| `ProofCycle` | workers running cycles over the fenced log, with views |
| `MCCycle` | small instances: own views, a shared view |
| `ProofCycleProofs` | TLAPS: current proposals take effect |
| `CycleStateProofs` | TLAPS: types of the cycle, promotions go with reviews |
| `GateRules` | the op algebra, `apply_ops`, the tables and the rules of the gate, what producers keep to; operators only |
| `GateRulesProofs` | TLAPS: what one commit makes of a graph |
| `CommitGate` | one proof's committed graph under any sequence of accepted proposals |
| `MCGate` | small instances: proposals of a promotion, by workers with every habit and by workers with one, and of a search |
| `CommitGateProofs` | TLAPS: what the rules guarantee of committed state |
| `SearchGraph` | the Neo4j projection of a journal: states, moves, claims, closure, taint, rebuild |
| `MorkRules` | the MORK queries on dependency and taint, asked of a search graph |
| `MCSearch` | small instances: an AND/OR tree, a chain of claims, a dependency before its claim, a subgoal on refuted ground, two claims, a chain of 66 states |
| `SearchGraphProofs` | TLAPS: closures, taint, dependencies and rebuilds, for every journal |
| `FormalResults` | what the ATP adapters answer, the ops dispatch makes of it, the routing table; operators only |
| `Soundness` | the structural validators of a result; operators only |
| `Projection` | the MORK projector, op by op, and the graph its atoms describe; operators only |
| `FormalSearch` | formal searches of one proof: adapters, dispatch, gate, projector and routing composed |
| `FormalSearchProofs` | TLAPS: answers are sound, commits disciplined, frontiers open, proved runs certified, their roots closed, and projections agree, for every payload |
| `MCFormal` | small instances: hypergraphs, scripted results, journals to start from |

### JournalStore and the code

Every public method of the store is one `BEGIN IMMEDIATE` transaction
(`JournalStore._write`), so every method is one action. `leases` is the lease
table as a partial function from id to row, `serial` is `lease_serials`, `trail`
is `lease_events` with one set of events per statement, `journal` keeps of a
revision the lease it was committed under. A minted id `ls-N` is the number `N`;
`ExternalIds` are the ids callers choose, of that form or of another (0), since
`issue_lease` takes any. `Lapsed` is the table after
`_expire_due_leases`, which each method except `release_lease` runs first, and is
part of those actions. A call that raises and rolls back changes nothing, so it is
a stuttering step; the exception is `LEASE_NOT_HELD`, which is answered after a
second transaction: `AppendRefused`, then `Relapse`, or `RelapseLost` when the
lock is refused or the process dies. `Tick` and `SetClockBack` are the wall
clock (`time.time`, which is not monotonic).

### ProofCycle and the code

`journal`, `live` and `top` are the fenced log that the store implements
(`Log == INSTANCE FencedLog`); every action that touches them is one of its steps.
`graph` is what a replay of the journal gives, `view[v]` what the gate and the
scheduler really read. A worker's record is the stage of its `run_cycle` and its
local variables:

    idle -RankFrontier-> ranked -LeaseNext-> leased -Compile-> working -Propose->
    proposed -Validate-> validated -AppendAccepted-> committed -Maintain->
    maintained -Release-> routing -RouteBridge-> bridging -BridgeBase-> proposed ...

with an exit at each place where the code has one: `LeaseNone`, `CompileRaises`,
`Reject`, `AppendRefused`, `KeepLease`, `RouteNothing`, `Abandon`. Between any two
stages other workers, `Rebuild` (a view replayed from the journal) and `Lapse` may
run. Stages are split exactly where the code reads shared state again: frontier
and grant, view and base, validation and append, append and maintenance.

Ops are kept as far as concurrency tells them apart: a critic's attempt with its
review edge and the promotion of the claim, a queued research move, the creation
of a formal run or the write that ends it. `UpsertAgrees`, `WriteIsLegal` and
`Applied` are what the validators and `apply_ops` do with these. Formal states,
tactics, certificates, obstructions and checkpoints of a formal result are left
out (a searching run is taken to have an open checkpoint), as are scores: any
eligible move may rank first.

A result may name the id of its review edge or of its research move
(`dispatch.py:304`, `:320`); `Ids` is the minted id or one of `NamedIds`, taken or not.
An edge or node whose id is taken is dropped, as `apply_ops` drops it.

`seen` and `journal[i].seen` are history: the revision the view held when the cycle
first read it, if it held exactly that revision. `named` says of a revision that its
result named the review edge.

### GateRules, CommitGate and the code

A graph is a `MemoryView`: nodes with a label and fields, edges with a
relationship, two ends and the child index, each under an id. An id is a pair of
the proof that scopes it and a local name, in place of `proof/name`; artifacts,
whose ids are hashes and scoped to no proof, are left out. Ops are the four classes
of `ops.py`. Each `Check...` operator is one `check_...` function of `validate.py`
and holds when that function yields nothing; `Accepts` is their conjunction.
`STATUS_TRANSITIONS`, `IMMUTABLE_FIELDS`, `EDGE_ENDPOINTS` and the vocabularies are
the tables of the code for the labels and fields the rules tell apart; one heuristic
score stands for all.

`ApplyOps` says what a whole proposal does to the graph, without stepping
through it: a node that exists keeps its label, whatever upserts say; a field has the
value of its last write; an edge id holds its first addition since its last removal.
`Applies` is the condition under which `apply_ops` does not raise. That makes one
commit one formula, which is why the proofs need no induction over ops.

`Commit(p)` is `CommitGate.commit` with the maintenance that applies the ops, for a
proposal whose base revision and lease hold; races between commits are `ProofCycle`'s
subject. `CheckTokens` keeps what the validators ask of the tokens: a status write
names a lease. `Produced` is what a converter of `dispatch.py` keeps to that "creates
what is absent, annotates what exists", in four `Habits`: `NewEdges` (an edge id names one
edge for good), `NewNodes` (a node id names one node, tactics are not confirmed),
`NewClaims` (no claim is created verified), `WritesCommitted` (writes go to committed
nodes). Nothing in the rules enforces them: the constant `Discipline` says which ones the
workers of each proof have. `formal_result_to_ops` has all four, which `FormalSearch`
checks (`CommitsAreDisciplined`); `critic_result_to_ops` and `research_result_to_ops`
have them while results leave ids to be minted. The proof `links` of `gate_commits` and the
run `gate_taken` drop habits and show what the rules keep without them.

### SearchGraph and the code

`graph` holds the statuses of the `State`, `Move` and `Claim` nodes (`None` where
there is no node) and the edges the rules read, each under the id of its event, as
`_edge_id` makes it; `log` is the journal the graph is a projection of. Each operator
of a write method is that method's transaction: nodes are merged, edges to missing
nodes are not, a new `HAS_STATE` or `REQUIRES` edge opens its state, a new `PROPOSES`
edge sets its move's status, and `add_claim` sets the claim's. `Project` is the
method of an event. Callers and replay call it with different arguments: `AsCalled` queues
a move that is given no status, `AsReplayed` opens it and drops what `_replay_event` does
not pass on (`theorem_hash`, `statement_blob`, `score`, `cost_estimate`; `details` has the
nodes that hold one of these). `PropagateClosures` iterates the AND and the OR statement `MaxIter`
times; the code stops at the first pass that changes nothing, which gives the same
graph. `CHILD_OF` edges open the state their event's `HAS_STATE` edge opens, and are
left out; so are nodes and edges no rule reads (attempts, routes, contexts,
artifacts, hypotheses and so on) and direct status writes no event replays.

A call is one transaction and one step (`Record`), except `add_claim_dependency`:
its cycle check reads, then its MERGE takes locks, and Neo4j transactions are
read-committed, so other transactions commit in between (`CheckDependency`,
`MergeDependency`), or has no check at all when it names no proof (`AddUnscoped`). A
rebuild is `Wipe` and one `ReplayEvent` per event, with calls,
or a crash (`Interrupt`), anywhere in between; `ReplayEvent` ends in `Raised` when a
journalled dependency is refused. Callers are taken to project events in the order of
the journal, and the journal a proof starts with holds only dependencies that passed their
check (`HistoryAssumption`). `live`, `raced` and `unguarded` are history: the graph without any
wipe, whether a dependency was merged into others than its check had read, or refused by a
rebuild that was not given the whole journal, and whether one was merged without a check.

A dependency may be journalled before its claims: `add_claim_dependency` then matches no
nodes, its check finds no path and its MERGE makes no edge. A later rebuild finds the
claims there if a call recorded them meanwhile, adds the edge the live graph never had, and
may then refuse a dependency that passed its check. So a merge into unseen dependencies is
not the only race: calls during a rebuild are one too. `CyclesEvadeTheCheck` says that cycles come of a race or of a call without a check.

`MorkRules` says in terms of queries what a refutation ought to do: the queries of
`dependency-taint.metta` restate the rules of the graph, and `TaintFollowsQueries`
checks that the two agree, unless the refuted claim rests on itself. There the two differ:
`reaches?` is reflexive, so `would-cycle?` refuses what `add_claim_dependency` lets in.

### FormalResults, Soundness, Projection, FormalSearch and the code

`FormalSearch` runs one formal cycle after the other; races between cycles are
`ProofCycle`'s subject. `Start` and `Resume` are a `run_cycle` that leased a declaration
or a searching run: request, answer of the adapter, `formal_result_to_ops`, the gate's
rules (`Accepts`) and maintenance. Routing is a step of its own (`ReportRouting`, or
`ProposeBridge` with the follow-up proposal, which carries no lease), because a process
may end between the two (`Restart`). `known` and `cancelled` are the adapter's memory;
only searching runs are kept in them, since only those are asked for again. `view` is a
graph of `GateRules`, `mirror` what the projector has collected, `submitted` the
proposal the step committed.

A result keeps of the payload its disposition, states, tactics, frontier, epoch,
obstructions and whether it has a root and a certificate, each named by serial.
`Converted` is `_convert_graph` of a hypergraph, `build_result` what the fake makes up;
both number states from 1 under the proof, as the code does. The goal of a state is the
declaration searched (or, where the fake resumes without one, the run) and the serial,
which is what distinguishes texts. The reasoner and the scripts are outside: any
hypergraph of `Graphs`, any disposition the fake can emit, any of `Payloads`, or an
exception (`internal-error`).

Details of the code the model keeps because they matter: a resumed result of the fake
names no declaration, so its run is not linked again and its certificate certifies
nothing; a budget-exhausted result of the reasoner names no root; a resumed run after a
restart is answered with `invalid-request`, which ends it; `cycle.py:197` overwrites the
proof of a result but not the proof inside its state ids, so the states of an `unscoped`
result make the gate reject it. With `maths_ai` every obstruction is `obs-1`, so the
bridge-lemma rule, which needs two, fires for scripted results only; and the adapter
never answers `searching`, so of its runs only those found searching after a change of adapter or a restart are
resumed, which ends them (`ResumableRunsSettle`), though `maths_ai_atp.py:257-259` keeps the goal of a budget-exhausted one on the frontier for
"a resumed run".

`Projection` keeps what `_collect_operation` keeps: nodes by id, every edge in a list
(here a set), removed ids. `Describes` says what the atoms say: node and field atoms,
forward edges with their fields (the reverse edge is the same fact), and the inferred
state of a move. `_infer_state_references` counts edges that were removed; no producer
removes edges.

`Soundness` gives the validators' findings as pairs of a reason and a state. Two of them
are raised against honest answers of the reasoner: a state proved by a split has no
childless tactic ("heuristic closure"), and a fallback beside a proof is an executor
failure at a closed state. `AnswersAreSound` allows these, where Lean accepted a tactic,
and nothing else.

## Runs

| Run | Shows | Bounds |
| --- | --- | --- |
| `journal_leases` | moves are exclusive, tokens unique and dead for good, no id minted twice, the trail explains the table | 2 moves, 2 ids of callers (one of the minted form), 3 acquisitions, clock 0..2, forwards and backwards |
| `journal_appends` | commits are fenced and ordered, refusals audited, the store implements `FencedLog`, no timed lease outlives its time | 2 moves, 1 id of a caller's (of the minted form), 2 acquisitions, 2 revisions, 1 caller, clock 0..2, forwards only; `FairSpec`, no symmetry |
| `cycle_commits` | `CurrentCyclesTakeEffect`, `PromotedOnReview` | 2 processes with own views, all 3 worker classes, 1 claim, 1 declaration, 1 id that results may name, 2 leases, 3 revisions, all faults |
| `cycle_settle` | every claim settles | 2 threads on one view, 2 claims, 2 ids that results may name, leases left behind |
| `cycle_trailing` (violation) | an accepted commit does not take effect | 2 threads on one view, 2 claims, 2 leases |
| `gate_commits` | arity, closure, alignment, transitions; only redone links lose evidence, only the order of ops stops a replay | three proofs: `claims` with two dozen lists of claim ops and `search` with as many of search ops, by workers with all four habits; `links` with 17 lists of claim ops, with removals, taken ids and verified claims, by workers with the habit `nodes` alone; any list or any two as one proposal, in any order, any number of times |
| `gate_taken` (violation) | a claim is verified without evidence | the same proposals, workers without the habit `edges` |
| `search_rules` | closures settle or reach the cap and are earned, a refutation does what the taint queries call for, rebuilds converge, cycles need a race or a skipped check | 4 states, 3 moves, 3 claims, 2 passes; journals of 8 events (a chain of three moves, one of them without a status; a chain of three claims; a dependency before its claim) and 2 more of any kind; 2 writers of dependencies, calls without a proof |
| `search_reopened` (violation) | a move closes over a reopened subgoal | a move with 2 subgoals, one resting on a refuted claim |
| `formal_searches` | commits are disciplined, the projection agrees, proved runs are certified and their roots closed, frontiers are open, answers are sound, runs settle | 2 declarations, one without a goal; 2 runs, 4 checkpoints; both adapters, 10 hypergraphs of up to 3 nodes, 3 scripted results; restarts and cancellations at any point |
| `formal_goals` (violation) | a search closes the goal of another | 2 declarations with goals, `maths_ai`, 3 runs |
| `formal_stagnation` (violation) | a run stagnates without an obstruction | `maths_ai`, 3 runs |

Why the bounds suffice. A fault of the store needs an acquisition, one that
displaces it and one that reuses its id: three. A commit is late with respect to
one later acquisition: two, with a revision before and one after. The model's
caller of `append` keeps nothing between calls but a refusal's pending lapse, and
other callers' lapses are `LeaseOp` steps, so one caller suffices. A race of
cycles needs two workers; the third revision is a bridge-lemma follow-up of the
first or second. One id that results may name is enough for it to be taken when it is
named, or minted after it was. The rules of the gate compare a proposal's ops with each other and
with committed state: two lists of ops in one proposal show what happens when an op and
its context arrive together or in either order, and a proposal for each list what
happens when they arrive apart. Every rule of the gate rejects some of these proposals.
The rules of the search graph read one neighbourhood at a time, so a chain of moves
tells a fixpoint from a pass and a chain of three claims a cone from a neighbour; a cycle
needs two merges, and a rebuild that misses something one event during it and one after.
`MaxIter` is 2 in `search_rules`, so that a chain of three moves reaches the cap and one of
two does not; the properties and theorems hold for every `MaxIter`, and `SearchDeep.cfg` has
the 64 of the code.
Searches interact through the ids they share, so two of them show what a third would; the
hypergraphs are one for each way a node can be closed, left open or given up, with and
without children, and the scripted results are what no adapter makes up: an answer that
goes on searching, one with states of all statuses, one whose obstructions converge.
`MaxCheckpoints` ends a script that would go on for ever; a resumed run of the reasoner
is not bounded.

### What the violations say

* `cycle_trailing`: `gate.py:46-48` says there is nothing in the gate that can go
  stale. The view can: a second critic on the same view leases at the new head
  before the first one's maintenance has run, mints the attempt id the first one
  used, passes validation (the view holds no such attempt), passes the base check,
  and is journalled. Replay drops its attempt and its review and keeps the
  promotion. `CurrentCyclesTakeEffect` states what does hold: if the view held the
  base revision when the cycle first read it, the proposal takes effect.
* `gate_taken`: `validate.py:641` says that a claim cannot become lean-verified on a
  self-report. The rule counts the edge of a proposal that `apply_ops` then drops because
  its id is taken. What holds without any discipline about edges, claims or writes is
  `OnlyLinksLoseEvidence`.
* `search_reopened`: the closure treats a reopened subgoal as done (`rules.py:243-244`),
  `move_is_complete` and its test treat it as open. A subgoal is closed, the claim under
  it is refuted, the subgoal is reopened; when the other subgoal closes, the move and the
  root close with it.
* `formal_goals`: `formal-state.schema.json` says that equal semantics never merge states
  and that a state's id is issued by an allocator. `_convert_graph` issues `fs-1`, `fs-2`,
  ... to every search, and dispatch compares only the status of a state it finds: the
  proof of a second declaration closes the state that holds the goal of the first. What
  keeps this from going further is the status table, which refuses to reopen a closed
  state and rejects the whole result with it (`ProvedRootsAreClosed`, `FrontiersAreOpen`).
* `formal_stagnation`: `validate.py:609` says that a run cannot be stagnated without
  logging an obstruction. The rule looks at writes only, a run is created stagnated, and
  the obstruction of a second such search has the id of the first and is dropped.

### Further counterexamples

Each of these configurations checks one more promise of the code that a passing run weakens,
and TLC finds it broken within a minute. They are not among the runs, since each isolates
a case that the passing run beside it already contains; `tlc -config X.cfg M` reproduces one.

| Configuration, module | The code says | What happens | What holds, in run |
| --- | --- | --- | --- |
| `JournalDispatch.cfg`, `MCJournal` | `store.py:450-451`: dispatch grants a row or answers `None` | `issue_lease` takes `<proof>/ls-1` from a caller and leaves `lease_serials` as it was. The next dispatch mints that id, its `INSERT` fails, the rollback takes the serial back, so every later one fails too. No caller in the repository passes an id | `MintedIdsMeetOnlyCallers` in `journal_leases`: the store meets no id of its own |
| `CycleNamed.cfg`, `MCCycle` | `dispatch.py:63-64`: a claim is promoted on a favorable review | a refuting verdict is committed with its review edge `at-1-reviews`; the next result supports the claim and names that edge: the gate does not ask whether it is taken, `apply_ops` drops the review, the promotion stands | `PromotedOnReview` in `cycle_commits`: while no committed result has named its edge |
| `GateCreated.cfg`, `MCGate` | `validate.py:641`: no claim becomes lean-verified on a self-report | the rule looks at writes, so a claim may be created verified | `OnlyLinksLoseEvidence` in `gate_commits` |
| `GateReplays.cfg`, `MCGate` | `apply.py:19-20`: the gate rejects a write to a node that is not there | `check_references` is content with a node created anywhere in the proposal; `apply_ops` raises if that comes later | `OnlyOrderStopsReplay` in `gate_commits`: that is the only way |
| `SearchRebuild.cfg`, `MCSearch` | `adapter.py:39-40`: the graph can always be wiped and rebuilt by replay | replay opens a move that `add_move` had queued, and forgets a proof's hash, a claim's statement, a move's score and cost | `RebuildConverges` in `search_rules`: it is no more than that |
| `SearchRace.cfg`, `MCSearch` | `adapter.py:260-262`: two writers cannot each see an acyclic graph and then close a cycle together | read-committed transactions can | `CyclesEvadeTheCheck` in `search_rules`: only a race or a skipped check lets a cycle in |
| `SearchUnscoped.cfg`, `MCSearch` | `adapter.py:258`: a cycle raises `ValueError` | with the default `proof_id` there is no check, as a test in `test_adapter.py` notes | as above |
| `SearchDeep.cfg`, `MCSearch` | `rules.py:100-102`: no half-propagated fixpoint is observed | a closing 65 moves below the root stops after the code's 64 passes, with the root open | `ClosingsSettle` in `search_rules`: a closing stops early at the cap only |

One more promise has no run: the store's proof-level lease excludes what was active when it
was taken, not what is dispatched later (`store.py:254-258` calls it exclusive).

Three more things the model of the search graph shows, without a run of their own. A move
without subgoals satisfies the AND rule, so closing any state closes every such move of
the proof, refuted ones included, and the states that propose it: `ClosingsAreEarned` is
stated so as to allow it. `propagate_taint` reopens states that use a *dependent* of the
refuted claim; a closed state that uses the refuted claim itself stays closed, though
`rules.py:148-149` says none can. And `add_claim_dependency` lets a claim depend on itself,
once: its refutation then leaves it tainted.

### Fairness

`FairSpec` of `JournalStore` (`journal_appends`) assumes that time passes and that some scheduler keeps
polling `active_leases`, which `lease_next` does first thing in every cycle.
`FairSpec` of `ProofCycle` assumes that a cycle once started runs on, and that
leases lapse, which is `TimedLeasesEnd`: cycles lease with a positive time to live.
`EarlyLapse = FALSE` in that run assumes a time to live longer than a cycle, as the
default of 600 seconds intends; critics there return a favorable verdict, since
one that always refutes keeps its claim provisional for good.
`FairSpec` of `FormalSearch` assumes a coordinator that keeps running cycles: a searching
run on the frontier outranks every declaration (estimated cost 2 against 3), so one that
can be resumed again and again is resumed (strong fairness, as cycles and restarts come
in between), and routing, which is part of the cycle, is not put off for ever.

## Proofs

`JournalStoreProofs` (all sets of moves, processes, ids, times to live and bounds).
An action changes the lease table in one of two ways: active rows end, or, after
some rows ended, one row is written with a token above all others. `Inv` adds to
the types: some row holds the largest token (so `MAX` exists and a new token is
new), active rows of a move are unique, tokens are unique, a proof-level lease is
the oldest active one, no active lease is older than a revision that fences its
move, and journalled tokens were issued. The last three make `FencedOrder`
inductive: alone it says nothing of the tokens that may still be committed. The
refinement rests on the same invariant: each action of the store is a step of `FencedLog`
under the mapping, or a stutter; grants are numbered by tokens, the live ones are the
active rows, and an append needs `Inv`'s clause on proof-level leases to be by a live grant.

`ProofCycleProofs` (all numbers of workers, views, claims, declarations, any
sharing of views, all faults). `CycleInv` says of a cycle whose first look was at
the head of the journal, and the head has not moved since (`Current`): its view
still equals committed state, its run id is new or the run it resumes, its proposal
still says something new, and once validated, writes over what it expects. A commit
moves the head, so no cycle stays current. What could disturb a current view is the
maintenance another worker still owes it; `DueIsCommitted` (committed state
already contains every proposal whose maintenance is due) makes that a no-op
(`RepeatedIsIdle`), and is kept by later commits because statuses go one way
(`ContainedStays`). `CurrentProposalsTakeEffect` speaks of proposals with minted ids, in
journals whose reviews were minted (`NothingNamed`): a taken id makes a commit a no-op
whatever its view. Constants are assumed as in `CycleAssumption`.

`CommitGateProofs` (all proofs and proposals; each theorem assumes the habits it needs).
Everything rests on the lemmas of `GateRulesProofs` about one commit, which
`FormalSearchProofs` uses too: a committed node keeps its label and every field that is
not written (`CommittedNode`), a new one is as its only upsert made it (`NewNode`),
edges stay and additions stand (`CommittedEdge`, `AddedEdge`, `NewEdge`), the label the
rules saw is the one committed (`LabelAfter`).
`OnlyOrderStops` assumes nothing. `GateTypeCorrect`, `OnlyRedoneLinksLoseEvidence`,
`PromotionsAreAligned` and `StatusesAreLegal` assume `NewNodes` only (`NodesAreNamed`): with edge ends typed (`Joined`, from `check_references`) the nodes under
`PROVED_BY` and `REPLAYED_BY` are certificates and replays, whose actor, status and sorry
flag are immutable, so a commit that redoes no link of evidence (`LinksKept`) keeps all of
it, and what it promotes has it. The gates read the links as they will be if every op takes
effect; a link that is not redone (`Keeps`) is the one they read (`LinkKept`, `LinkMade`), so
evidence and alignment can only be lost with a link, or with a claim that is created verified
and no gate looked at. `ArityIsFixed` and `ClosuresHold` assume all four habits
(`Disciplined`) and are inductive together (`IInv`): arity stays because no
proposal that may name a committed tactic as a source upserts it (`NoLaterChildren`).

`JournalAuditProofs` (as `JournalStoreProofs`). `AuditInv` is stronger than
`AuditMatchesTable`: no statement records two events of one lease, the trail names only
leases of the table, and every row is *accounted for*: the trail holds the issue of an
active row, with nothing after it that fences it out, and the end of an ended row, with
nothing after it of that lease. That form survives a statement that touches other leases
(`AppendedAccounts`), which "the last transition recorded" does not say by itself.
`MintedIdsAreNew` needs nothing of callers, and `DispatchesAnswer` that they keep out of the
minted form. `RevisionsAreFenced` is what it says of the row an append finds active. `RefusalsAreAudited`
follows a refusal across its two transactions (`RefusalInv`: what refused it is already on
the trail, or still due), whoever runs in between. Its hypothesis is that the clock is not
set back (`StepsBack` is false, as in `journal_appends`): a clock set back between the two
transactions makes the lease active again, and the refusal is answered with nothing on
record.

`CycleStateProofs` (as `ProofCycleProofs`). `PromotionsOnReview` follows from
`CycleInv` and from every review having its attempt (`ReviewsHaveAttempts`). The types are not inductive alone: a cycle mints serials from counts of its
view, so `SerialsInRange` bounds what views and committed state can hold by the journal's
length, and `CycleFits` says what each stage has in its locals (a resumed run is one of its
view). Proving `Compile` showed that the guards of a `CASE` in it overlapped, which leaves
its value open where the code has a first match; it is an `IF` now.

`SearchGraphProofs` (all sets of nodes, all journals, any writers, rebuilds and crashes;
`GraphAssumption`, `EventAssumption`: callers record events with the vocabulary's statuses;
`HistoryAssumption`). A journal determines two chains of graphs, one after each event: what
callers build, `Called(log)`, and what a rebuild goes through, `Replayed(log)`. `SearchInv`
says that the live graph is the end of the first, that a rebuild stands on the second, and
that without a race or a skipped check no event of the journal is refused where the chain
has come to it (`Unrefused`). `RebuildConverges` compares the chains: they agree step by
step up to `Restores`, since whatever writes a move's status but a creation without one
writes the same in both, and nothing else is decided by a status that is queued in one and
open in the other. `CyclesPassNoCheck` is `Unrefused` with
`CheckedEdge`: an edge that closes no path leaves the dependencies acyclic, carried along
the chain. Reachability is stated by sets closed under the dependencies, so the lemmas on
paths need no induction. `EveryClosingIsEarned` carries what a closing has done so far
(`Earned`) through the passes of the fixpoint. `ClosingsStopAtTheCap` counts: a pass that
leaves the tree unsettled has closed a state that no earlier pass had. So a graph with no
more states than there are passes is always settled (`ClosingsSettleWithin`); that
hypothesis is not idle, as `SearchDeep.cfg` shows.
`TaintAgreesWithQueries` needs that dependencies join claims that are there (`Found`).
Passes and chains are recursive functions; that they exist, and induction along them, come
from `Counting`, which is proved from the least element of a set of numbers. A first
form of `CyclesEvadeTheCheck`, without calls during a rebuild, could not be proved: TLC
then found the counterexample on the journal that is now `EarlyJournal`.

`FormalSearchProofs` (all hypergraphs, payloads, journals to start from and bounds).
`ResultsAreSound` is about the adapter alone: an answer, made up by the reasoner or by a
script, passes the structural validators of `soundness.py`. `ProducersAreDisciplined` is the
link to the gate: each commit of formal search is `Produced`, the hypothesis of
`CommitGateProofs`. Its proof follows `formal_result_to_ops` part by part. A part `Makes`
nodes under ids of its own, with edges named after them, and writes nothing else; parts with
different labels do not meet, so a whole result makes what its parts make, and what makes
ops in that way is `Produced`. This needs that an id of committed state carries the label its name says
(`GraphInv`: a serial `fs-3` is a state), which is where the lemmas on one commit come in: an
upsert of what is there changes no label. Runs are numbered one after the other (`SearchInv`),
so a new search never meets the run of an old one. `SearchTypesHold` follows.
`StepKeeps` adds what every later proof starts from: a step commits nothing, concludes a
run with an answer that the adapter may give it, or proposes a bridge lemma.

`FrontiersOpen`: a checkpoint's frontier are states of the same result, each of which the
result reports open. A state that is new is created so; one that is there is written by
`Advance` unless it has that status already, and no other op of the result writes it.
`RunsCertified`: only the concluding run changes. It was searching or is new, so it had no
certificate; the result certifies exactly what it proves, under the next serial, and no
other edge joins an old certificate, because the owner of a new edge is a new node.
`RootsStayClosed`, of the reasoner's adapter: `_convert_graph` never leaves a run
searching, so a run it is asked to resume is one it does not remember and is answered
without states; of a run that starts, a proved root is reported closed (`ResultRooted`);
and a closed state cannot be set back by another result, since the lifecycle lets it
become tainted or stale only, which no result reports (`ClosedStays`).
`ProjectionHolds` compares two folds of the same ops: the projector's, one op after the
other, and `ApplyOps`, which says of each node and edge what the whole list leaves. The
invariant between them (`UpTo`) says what the projector has after n ops: the nodes upserted
so far, every field of a committed node as written last, the edges added so far, and
nothing removed. One lemma per kind of op carries it (`UpToUpsert`, `UpToEdge`,
`UpToWrite`), and induction along the list comes from `Counting`. It needs the discipline
again: an upsert of a committed node or a second edge of one id is where the two part.

What is assumed: `GraphAssumption` (a tactic's children are distinct nodes of the
hypergraph: the external reasoner), `PayloadAssumption` (scripted payloads are typed as the
schemas say, report the states of their frontier open, and carry a certificate exactly if
they prove, as both adapters' own results do; `soundness.py:293` asks it of the proved
ones), `HistoryAssumption` (a journal to start from only creates, under the names dispatch
mints, was accepted, and left runs certified and roots closed: what the theorems keep, they
need to begin with), `SearchAssumption` (`None` is no status).

Only model-checked: the liveness properties `TimedLeasesEnd`, `ClaimsSettle` and
`ResumableRunsSettle`, which need fairness and `ENABLED` and so are out of the prover's
reach. Every safety property and every action property of the passing runs is a theorem.

## Plan

1. `JournalStore`, `FencedLog`, `JournalRefinement` and their proofs: done; every safety
   property of the runs is a theorem.
2. `ProofCycle`, `ProofCycleProofs`, `CycleStateProofs`: done, likewise.
3. `GateRules`, `CommitGate`, `CommitGateProofs`: done, likewise.
4. `SearchGraph`, `MorkRules`, `SearchGraphProofs`: done, likewise.
5. `FormalResults`, `Soundness`, `Projection`, `FormalSearch`, `FormalSearchProofs`: done,
   likewise.
6. Left: the invariants of `CommitGate` (arity, closure, alignment) as theorems of
   `FormalSearch` too, which `ProducersAreDisciplined` and `CommitGateProofs` prepare.

## Not modelled

* The hash chain (`verify_chain`, `read_chain`): it detects edits of the database file
  from outside the program, and the model's journal is what `append` wrote.
* The rejection log: nothing reads it.
* `IdAllocator`: nothing outside the tests calls it; ids come from `_next_serial` and
  from the adapters, which are modelled. Environment hashes and their staleness.
* The MORK rules other than dependency and taint: queries for an external engine which
  nothing in the program asks, over statuses of their own (a move is `formally-closed`
  there and `closed` in the vocabulary).
* Vocabularies, JSON schemas, canonical JSON and SQL encodings: data without state. The
  tables the rules use are in `GateRules`.
* The provers, Neo4j and the MORK engine themselves, scores and prompts.
