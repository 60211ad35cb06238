----------------------------- MODULE ProofCycle -----------------------------
(***************************************************************************)
(* Workers running run_cycle on one proof: rank a frontier read from a view *)
(* of committed state, lease a move, compute, turn the result into a        *)
(* proposal, validate it on the view, append it to the journal, apply it to *)
(* the view, release, and possibly follow up with a bridge-lemma proposal.  *)
(*                                                                         *)
(* The journal is the fenced log its store implements (JournalRefinement). *)
(* What the code keeps apart is kept apart here: the graph a replay of the *)
(* journal gives, and the views the gate and the scheduler really read,    *)
(* which change only by the worker's own maintenance or by a rebuild.      *)
(***************************************************************************)
EXTENDS Integers, Sequences

CONSTANTS
  Workers,     \* concurrent callers of run_cycle
  Views,       \* MemoryViews they read; threads of one process share one
  ViewOf,      \* which view a worker reads
  Classes,     \* worker classes cycles are run with
  Claims,      \* claims, provisional at first
  Decls,       \* formal declarations, aligned
  OpenMoves,   \* how many research moves are queued at first
  Verdicts,    \* verdicts critics return
  NamedIds,    \* serials of the ids workers' results name themselves
  NoMove, WholeProof, None,
  Faults,      \* may a cycle die, a view be rebuilt, the journal be busy, or a
               \* result not be terminal?
  EarlyLapse,  \* may a lease lapse while its worker is still in the cycle?
  MaxGrants,   \* bound on leases dispatched
  MaxRevision  \* bound on the length of the journal

Favorable   == {"supported", "critic-accepted"}
RunStatuses == {"searching", "proved-pending-replay"}

ASSUME CycleAssumption ==
  /\ ViewOf \in [Workers -> Views]
  /\ Classes \subseteq {"critic", "formal-atp", "llm-research"}
  /\ OpenMoves \in Nat /\ NamedIds \subseteq Nat \ {0}
  /\ Faults \in BOOLEAN /\ EarlyLapse \in BOOLEAN
  /\ MaxGrants \in Nat /\ MaxRevision \in Nat
  /\ None \notin Nat \cup RunStatuses

\* Node ids by serial: rm-<n> and fr-<n>.
MoveId(n) == <<"rm", n>>
RunId(n)  == <<"fr", n>>
Targets   == Claims \cup Decls \cup {"rm", "fr"} \X Nat

VARIABLES
  journal,  \* per revision: its grant, and the history `seen` and `named`
  live,     \* leases in force
  top,      \* fencing tokens issued so far
  graph,    \* committed state: what a replay of the journal gives
  view,     \* per view: the state the gate and the scheduler read
  worker    \* per worker: where it is in run_cycle

vars == <<journal, live, top, graph, view, worker>>

CommittedGrants == [i \in DOMAIN journal |-> journal[i].grant]
Log == INSTANCE FencedLog WITH Moves <- Targets, log <- CommittedGrants

HeadRevision == Len(journal)

\* Per class of node: attempts, research moves with who worded them, formal runs
\* with the declaration they search; and the REVIEWS_CLAIM edges, whose id
\* at-<n>-reviews is the number n.
Graphs ==
  [claim : [Claims -> {"provisional", "critic-accepted"}],
   attempts : SUBSET [n : Nat, verdict : Verdicts],
   reviews : SUBSET [n : Nat, attempt : Nat, about : Targets],
   moves : SUBSET [n : Nat, detail : Workers \cup {"initial", "bridge"}],
   runs : SUBSET [n : Nat, decl : Decls, status : RunStatuses]]

Serials(records) == {r.n : r \in records}

\* One past the highest serial in the view.
NextSerial(records) ==
  1 + CHOOSE n \in Serials(records) \cup {0} : \A m \in Serials(records) : m <= n

HasFavorableVerdict(v, c) ==
  \E e \in v.reviews, a \in v.attempts :
    e.about = c /\ e.attempt = a.n /\ a.verdict \in Favorable

\* build_frontier: nothing moves a research move or a declaration out of it.  A
\* searching run is taken to have an open checkpoint, and a move's parent to live.
Frontier(v) ==
  {c \in Claims : v.claim[c] = "provisional" /\ ~HasFavorableVerdict(v, c)}
  \cup Decls
  \cup {MoveId(n) : n \in Serials(v.moves)}
  \cup {RunId(r.n) : r \in {q \in v.runs : q.status = "searching"}}

-----------------------------------------------------------------------------
(* Proposals: what result_to_proposal makes of a result, what the gate       *)
(* checks on a view, and what replaying the accepted ops does.               *)

Proposals ==
  [kind : {"verdict"}, n : Nat, about : Targets, verdict : Verdicts,
   edge : Nat, named : BOOLEAN]
  \cup [kind : {"move"}, n : Nat, detail : Workers \cup {"bridge"}, named : BOOLEAN]
  \cup [kind : {"run"}, n : Nat, decl : Decls, status : RunStatuses,
        prior : RunStatuses \cup {None}]

\* Mutant: any verdict promotes.
PromotesAlways(p) == p.kind = "verdict"

\* Mutant: of the favorable verdicts only one promotes, though both take the
\* claim out of the frontier.
PromotesAcceptedOnly(p) == p.kind = "verdict" /\ p.verdict = "critic-accepted"

Promotes(p) == p.kind = "verdict" /\ p.verdict \in Favorable

\* Did the worker's result name the review edge, or the edge or the move?
NamesReview(p) == p.kind = "verdict" /\ p.named
NamesId(p)     == NamesReview(p) \/ (p.kind = "move" /\ p.named)

\* Does p create a run, or move a run it found in the view on?
Starts(p)   == p.kind = "run" /\ p.prior = None
Advances(p) == p.kind = "run" /\ p.prior \notin {None, p.status}

\* UpsertNode passes on an id the view holds only with the fields it holds.
UpsertAgrees(v, p) ==
  CASE p.kind = "verdict" -> \A a \in v.attempts : a.n = p.n => a.verdict = p.verdict
    [] p.kind = "move"    -> \A m \in v.moves : m.n = p.n => m.detail = p.detail
    [] p.kind = "run"     -> Starts(p) => \A r \in v.runs : r.n = p.n => r.status = p.status

\* SetField: the label fits, the prior is the view's value, and the table of
\* transitions allows the step.
WriteIsLegal(v, p) ==
  /\ Promotes(p) => p.about \in Claims /\ v.claim[p.about] = "provisional"
  /\ Advances(p) => /\ p.prior = "searching"
                    /\ \E r \in v.runs : r.n = p.n /\ r.status = p.prior

Valid(v, p) == UpsertAgrees(v, p) /\ WriteIsLegal(v, p)

\* apply_ops: an upsert of an existing node and an edge whose id exists are
\* no-ops, a field write always writes.
Added(records, new) == IF new.n \in Serials(records) THEN records ELSE records \cup {new}

Applied(v, p) ==
  [claim    |-> [c \in Claims |-> IF Promotes(p) /\ c = p.about
                                  THEN "critic-accepted" ELSE v.claim[c]],
   attempts |-> IF p.kind # "verdict" THEN v.attempts
                ELSE Added(v.attempts, [n |-> p.n, verdict |-> p.verdict]),
   reviews  |-> IF p.kind # "verdict" THEN v.reviews
                ELSE Added(v.reviews, [n |-> p.edge, attempt |-> p.n, about |-> p.about]),
   moves    |-> IF p.kind # "move" THEN v.moves
                ELSE Added(v.moves, [n |-> p.n, detail |-> p.detail]),
   runs     |-> CASE Starts(p)   -> Added(v.runs, [n |-> p.n, decl |-> p.decl,
                                                   status |-> p.status])
                  [] Advances(p) -> {IF r.n # p.n THEN r
                                     ELSE [n |-> r.n, decl |-> r.decl, status |-> p.status] :
                                       r \in v.runs}
                  [] OTHER       -> v.runs]

-----------------------------------------------------------------------------
(* run_cycle                                                                *)

Idle == [at |-> "idle"]

\* What a cycle goes on to once its commit has been answered: only a formal
\* result names a run for _route_after_commit to evaluate, and a follow-up,
\* which has no lease, is not followed up.
AfterCommit(c) == IF c.class = "formal-atp" THEN [at |-> "routing"] ELSE Idle

\* The revision view v holds, when it is exactly what the journal gives now.
Seen(v) == IF view[v] = graph THEN HeadRevision ELSE None

Goto(w, state) == worker' = [worker EXCEPT ![w] = state]

Init ==
  /\ journal = <<>> /\ live = {} /\ top = 0
  /\ graph = [claim |-> [c \in Claims |-> "provisional"], attempts |-> {}, reviews |-> {},
              moves |-> {[n |-> n, detail |-> "initial"] : n \in 1..OpenMoves}, runs |-> {}]
  /\ view = [v \in Views |-> graph]
  /\ worker = [w \in Workers |-> Idle]

\* lease_next, first half: active_leases, then a frontier read from the view.
\* A view has one scheduler, whose _lease_lock both halves run under.
RankFrontier(w, class) ==
  /\ worker[w] = Idle
  /\ \A u \in Workers : ViewOf[u] = ViewOf[w] => worker[u].at # "ranked"
  /\ LET ranked == {m \in Frontier(view[ViewOf[w]]) : \A g \in live : g.scope # m}
     IN /\ ranked # {}
        /\ Goto(w, [at |-> "ranked", class |-> class, moves |-> ranked])
  /\ UNCHANGED <<journal, live, top, graph, view>>

\* lease_next, second half: dispatch_lease grants the best ranked move that is
\* not covered by now.  Any order of scores is possible.  The lease's base is
\* the head of the journal, not the revision the frontier was read at.
LeaseNext(w) ==
  /\ worker[w].at = "ranked"
  /\ top < MaxGrants
  /\ \E m \in worker[w].moves :
       /\ \A g \in live : g.scope # m
       /\ UNCHANGED <<journal, graph, view>>
       /\ Log!Grant(m) /\ live \subseteq live'
       /\ Goto(w, [at |-> "leased", class |-> worker[w].class, base |-> HeadRevision,
                   grant |-> [token |-> top + 1, scope |-> m]])

\* dispatch_lease returns None: every candidate is covered.
LeaseNone(w) ==
  /\ worker[w].at = "ranked"
  /\ \A m \in worker[w].moves : \E g \in live : g.scope = m
  /\ Goto(w, Idle)
  /\ UNCHANGED <<journal, live, top, graph, view>>

FormalTargets(v) == Decls \cup {RunId(n) : n \in Serials(v.runs)}

\* _dispatch up to the worker's run: the context is read from the view, and a
\* fresh declaration is given a run id minted from it.
Compile(w) ==
  LET c == worker[w]
      v == view[ViewOf[w]]
  IN /\ c.at = "leased"
     /\ c.class = "formal-atp" => c.grant.scope \in FormalTargets(v)
     /\ Goto(w, [at |-> "working", class |-> c.class, base |-> c.base,
                 grant |-> c.grant, seen |-> Seen(ViewOf[w]),
                 run |-> IF c.class # "formal-atp" THEN None
                         ELSE IF c.grant.scope \in Decls THEN NextSerial(v.runs)
                         ELSE c.grant.scope[2]])
     /\ UNCHANGED <<journal, live, top, graph, view>>

\* compile_formal_request raises on a target that is not formal: the cycle ends
\* and nobody releases the lease.
CompileRaises(w) ==
  /\ worker[w].at = "leased"
  /\ worker[w].class = "formal-atp"
  /\ worker[w].grant.scope \notin FormalTargets(view[ViewOf[w]])
  /\ Goto(w, Idle)
  /\ UNCHANGED <<journal, live, top, graph, view>>

RunOf(v, n) == CHOOSE r \in v.runs : r.n = n

\* An id of a result: the one it names (review_edge_id, move_id), or else the
\* minted one.
Ids(minted) == {<<minted, FALSE>>} \cup NamedIds \X {TRUE}

\* result_to_proposal, once the worker has answered: serials and prior values
\* are read from the view as it is by then.  The default review edge id is made
\* from the attempt's.
ResultOps(w) ==
  LET c == worker[w]
      v == view[ViewOf[w]]
  IN CASE c.class = "critic" ->
            {[kind |-> "verdict", n |-> NextSerial(v.attempts), about |-> c.grant.scope,
              verdict |-> verdict, edge |-> id[1], named |-> id[2]] :
               verdict \in Verdicts, id \in Ids(NextSerial(v.attempts))}
       [] c.class = "llm-research" ->
            {[kind |-> "move", n |-> id[1], detail |-> w, named |-> id[2]] :
               id \in Ids(NextSerial(v.moves))}
       [] c.class = "formal-atp" ->
            {[kind |-> "run", n |-> c.run,
              decl |-> IF c.grant.scope \in Decls THEN c.grant.scope
                       ELSE RunOf(v, c.run).decl,
              status |-> status,
              prior |-> IF c.run \in Serials(v.runs) THEN RunOf(v, c.run).status
                        ELSE None] :
               status \in RunStatuses}

Propose(w) ==
  /\ worker[w].at = "working"
  /\ \E p \in ResultOps(w) :
       Goto(w, [at |-> "proposed", class |-> worker[w].class, base |-> worker[w].base,
                grant |-> worker[w].grant, seen |-> worker[w].seen, proposal |-> p])
  /\ UNCHANGED <<journal, live, top, graph, view>>

\* CommitGate.commit, first half: the proposal holds on the view.
Validate(w) ==
  LET c == worker[w]
  IN /\ c.at = "proposed"
     /\ Valid(view[ViewOf[w]], c.proposal)
     /\ Goto(w, [at |-> "validated", class |-> c.class, base |-> c.base,
                 grant |-> c.grant, seen |-> c.seen, proposal |-> c.proposal])
     /\ UNCHANGED <<journal, live, top, graph, view>>

\* The gate rejects it.  run_cycle releases a lease only after an accepted
\* commit, so the lease stays in force until it lapses.
Reject(w) ==
  /\ worker[w].at = "proposed"
  /\ ~Valid(view[ViewOf[w]], worker[w].proposal)
  /\ Goto(w, AfterCommit(worker[w]))
  /\ UNCHANGED <<journal, live, top, graph, view>>

\* Mutant: the base revision is not compared.
BaseUnchecked(w) == TRUE

BaseIsHead(w) == worker[w].base = HeadRevision

\* A follow-up proposal names no lease.
Fenced(w) == worker[w].grant \in live \cup {Log!NoGrant}

\* CommitGate.commit, second half: JournalStore.append accepts.
AppendAccepted(w) ==
  LET c == worker[w]
  IN /\ c.at = "validated"
     /\ HeadRevision < MaxRevision
     /\ BaseIsHead(w)
     /\ Fenced(w)
     /\ journal' = Append(journal, [grant |-> c.grant, seen |-> c.seen,
                                    named |-> NamesReview(c.proposal)])
     /\ UNCHANGED <<live, top, view>>
     /\ Log!Commit(c.grant)
     /\ graph' = Applied(graph, c.proposal)
     /\ Goto(w, [at |-> "committed", class |-> c.class, grant |-> c.grant,
                 proposal |-> c.proposal])

\* STALE_BASE_REVISION, LEASE_NOT_HELD, FENCING_TOKEN_SUPERSEDED, or JOURNAL_BUSY.
AppendRefused(w) ==
  /\ worker[w].at = "validated"
  /\ Faults \/ ~BaseIsHead(w) \/ ~Fenced(w)
  /\ Goto(w, AfterCommit(worker[w]))
  /\ UNCHANGED <<journal, live, top, graph, view>>

\* Mutant: a follow-up is taken for a cycle that holds a lease.
MaintainAsLeased(w) ==
  /\ worker[w].at = "committed"
  /\ view' = [view EXCEPT ![ViewOf[w]] = Applied(@, worker[w].proposal)]
  /\ Goto(w, [at |-> "maintained", class |-> worker[w].class, grant |-> worker[w].grant])
  /\ UNCHANGED <<journal, live, top, graph>>

\* maintenance applies the worker's own ops to the worker's view.
Maintain(w) ==
  /\ worker[w].at = "committed"
  /\ view' = [view EXCEPT ![ViewOf[w]] = Applied(@, worker[w].proposal)]
  /\ Goto(w, IF worker[w].grant = Log!NoGrant THEN Idle
             ELSE [at |-> "maintained", class |-> worker[w].class, grant |-> worker[w].grant])
  /\ UNCHANGED <<journal, live, top, graph>>

\* A terminal result releases the lease, if it is still in force.
Release(w) ==
  /\ worker[w].at = "maintained"
  /\ UNCHANGED <<journal, top, graph, view>>
  /\ live' = live \ {worker[w].grant}
  /\ Goto(w, AfterCommit(worker[w]))

\* A result with terminal = False keeps it.
KeepLease(w) ==
  /\ worker[w].at = "maintained"
  /\ Faults
  /\ Goto(w, AfterCommit(worker[w]))
  /\ UNCHANGED <<journal, live, top, graph, view>>

\* _route_after_commit: no trigger asks for a bridge lemma.
RouteNothing(w) ==
  /\ worker[w].at = "routing"
  /\ Goto(w, Idle)
  /\ UNCHANGED <<journal, live, top, graph, view>>

\* _route_after_commit: an obstruction converges (which runs do is left open).
\* The serial is read from the view first ...
RouteBridge(w) ==
  /\ worker[w].at = "routing"
  /\ view[ViewOf[w]].runs # {}
  /\ Goto(w, [at |-> "bridging", seen |-> Seen(ViewOf[w]),
              proposal |-> [kind |-> "move", n |-> NextSerial(view[ViewOf[w]].moves),
                            detail |-> "bridge", named |-> FALSE]])
  /\ UNCHANGED <<journal, live, top, graph, view>>

\* ... and the head of the journal, its base revision, after it.
BridgeBase(w) ==
  /\ worker[w].at = "bridging"
  /\ Goto(w, [at |-> "proposed", class |-> "follow-up", base |-> HeadRevision,
              grant |-> Log!NoGrant, seen |-> worker[w].seen,
              proposal |-> worker[w].proposal])
  /\ UNCHANGED <<journal, live, top, graph, view>>

\* The process dies, or an exception leaves run_cycle.
Abandon(w) ==
  /\ Faults
  /\ worker[w] # Idle
  /\ Goto(w, Idle)
  /\ UNCHANGED <<journal, live, top, graph, view>>

\* A view is rebuilt by applying the ops of read_events in order.
Rebuild(v) ==
  /\ Faults
  /\ view[v] # graph
  /\ view' = [view EXCEPT ![v] = graph]
  /\ UNCHANGED <<journal, live, top, graph, worker>>

\* A lease's time to live runs out and some caller lapses it.
HeldBy(g) == {w \in Workers : "grant" \in DOMAIN worker[w] /\ worker[w].grant = g}

Lapse ==
  \E g \in live :
    /\ EarlyLapse \/ HeldBy(g) = {}
    /\ UNCHANGED <<journal, top, graph, view, worker>>
    /\ live' = live \ {g}

Step(w) ==
  \/ \E class \in Classes : RankFrontier(w, class)
  \/ LeaseNext(w) \/ LeaseNone(w)
  \/ Compile(w) \/ CompileRaises(w) \/ Propose(w)
  \/ Validate(w) \/ Reject(w) \/ AppendAccepted(w) \/ AppendRefused(w)
  \/ Maintain(w) \/ Release(w) \/ KeepLease(w)
  \/ RouteNothing(w) \/ RouteBridge(w) \/ BridgeBase(w)

Next ==
  \/ \E w \in Workers : Step(w) \/ Abandon(w)
  \/ \E v \in Views : Rebuild(v)
  \/ Lapse

Spec == Init /\ [][Next]_vars

\* Every cycle runs on, and an abandoned lease lapses (TimedLeasesEnd).
FairSpec == Spec /\ (\A w \in Workers : WF_vars(Step(w))) /\ WF_vars(Lapse)

-----------------------------------------------------------------------------
(* Properties                                                               *)

CycleStates ==
  LET Grants  == [token : Nat, scope : Targets]
      Granted == Grants \cup {Log!NoGrant}
      Marks   == Nat \cup {None}
  IN {Idle, [at |-> "routing"]}
     \cup [at : {"ranked"}, class : Classes, moves : SUBSET Targets]
     \cup [at : {"leased"}, class : Classes, base : Nat, grant : Grants]
     \cup [at : {"working"}, class : Classes, base : Nat, grant : Grants,
           seen : Marks, run : Marks]
     \cup [at : {"proposed", "validated"}, class : Classes \cup {"follow-up"},
           base : Nat, grant : Granted, seen : Marks, proposal : Proposals]
     \cup [at : {"committed"}, class : Classes \cup {"follow-up"}, grant : Granted,
           proposal : Proposals]
     \cup [at : {"maintained"}, class : Classes, grant : Grants]
     \cup [at : {"bridging"}, seen : Marks, proposal : Proposals]

\* Does committing p at g change committed state by exactly what p says: every
\* node and edge it creates is new, every field it writes holds the prior it names?
Creates(g, p) ==
  CASE p.kind = "verdict" -> p.n \notin Serials(g.attempts) /\ p.edge \notin Serials(g.reviews)
    [] p.kind = "move"    -> p.n \notin Serials(g.moves)
    [] p.kind = "run"     ->
         IF Starts(p) THEN p.n \notin Serials(g.runs)
         ELSE \E r \in g.runs : r.n = p.n /\ r.decl = p.decl /\ r.status = p.prior

TakesEffect(g, p) ==
  /\ Creates(g, p)
  /\ Promotes(p) => g.claim[p.about] = "provisional"

Commits(w) == worker[w].at = "validated" /\ worker'[w].at = "committed"

\* A proposal whose cycle first read the view when it held everything up to the
\* proposal's base revision takes effect when it commits, whatever other workers
\* committed, applied or lost meanwhile: provided its own result named no id, and
\* no earlier one took the review edge id it would mint.
NothingNamed == \A i \in DOMAIN journal : ~journal[i].named
CurrentCyclesTakeEffect ==
  [][\A w \in Workers :
       /\ Commits(w) /\ worker[w].seen = worker[w].base
       /\ NothingNamed /\ ~NamesId(worker[w].proposal)
       => TakesEffect(graph, worker[w].proposal)]_vars

\* Every accepted proposal takes effect.
CommitsTakeEffect ==
  [][\A w \in Workers : Commits(w) => TakesEffect(graph, worker[w].proposal)]_vars

\* While every revision was computed on a current view and minted its review
\* edge, a claim is critic-accepted exactly when a favorable verdict about it is
\* committed, so no claim is promoted without its review and none with a favorable
\* verdict is left provisional and out of the frontier.
PromotedOnReview ==
  NothingNamed /\ (\A i \in DOMAIN journal : journal[i].seen = i - 1) =>
    \A c \in Claims :
      graph.claim[c] = "critic-accepted" <=> HasFavorableVerdict(graph, c)

\* What result_to_proposal says of a critic's verdict: it becomes "the critic's
\* Attempt plus its REVIEWS_CLAIM edge (and the claim promotion when favorable)".
\* A promoted claim has its review.
PromotionsAreReviewed ==
  \A c \in Claims : graph.claim[c] = "critic-accepted" => HasFavorableVerdict(graph, c)

\* Every claim is settled in the end, although cycles lose the race for a
\* revision, are rejected, or leave their lease behind.
ClaimsSettle == \A c \in Claims : <>(graph.claim[c] = "critic-accepted")

\* Committed state and worker states have their shapes.
TypeOK ==
  /\ graph \in Graphs
  /\ view \in [Views -> Graphs]
  /\ live \subseteq [token : 1..top, scope : Targets]
  /\ top \in Nat
  /\ journal \in Seq([grant : [token : Nat, scope : Targets] \cup {Log!NoGrant},
                      seen : Nat \cup {None}, named : BOOLEAN])
  /\ worker \in [Workers -> CycleStates]
=============================================================================
