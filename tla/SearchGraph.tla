----------------------------- MODULE SearchGraph -----------------------------
(***************************************************************************)
(* The neo4j projection of a proof's journal: search states (OR points),     *)
(* moves (AND points) and claims, with the rules that close and taint them.  *)
(* Every adapter call is the projection of one journal event and one         *)
(* transaction, except that a dependency's cycle check and its MERGE are     *)
(* separate statements of a read-committed transaction: two steps here, or   *)
(* the MERGE alone when the call names no proof.                             *)
(* The graph may be wiped and rebuilt from the journal, event by event, with *)
(* calls in between; a rebuild may be cut short and started again.  Replay   *)
(* calls the adapter's methods with other arguments than the callers did.    *)
(***************************************************************************)
EXTENDS Integers, SequencesExt

CONSTANTS
  States, Moves, Claims,
  Calls,        \* the events callers record, dependencies aside
  Links,        \* the pairs of claims they add dependencies between, naming the proof
  Unscoped,     \* the pairs they add without naming it
  Writers,      \* processes adding claim dependencies
  None,         \* no node, no status named, no pending call, no rebuild
  Raised,       \* the rebuild ended in an exception
  Histories,    \* journals the proof may start with
  MaxEvents,    \* bound on the journal's length
  MaxIter       \* iterations of the closure fixpoint; 64 in the code

ASSUME GraphAssumption ==
  /\ MaxIter \in Nat \ {0} /\ MaxEvents \in Nat
  /\ Links \subseteq Claims \X Claims /\ Unscoped \subseteq Claims \X Claims

VARIABLES
  log,        \* the journal
  graph,      \* the projection
  live,       \* history: the projection had it never been wiped
  checks,     \* per writer, the dependency it has checked and not yet merged
  raced,      \* history: has a dependency been merged, or refused by a rebuild, on a
              \* graph that others had changed meanwhile?
  unguarded,  \* history: has a dependency been merged without a check?
  rebuild     \* the rebuild: the events it was given, how many it has replayed

vars == <<log, graph, live, checks, raced, unguarded, rebuild>>

-----------------------------------------------------------------------------

StateStatuses == {"open", "expanded", "formally-closed", "lean-verified", "tainted",
                  "reopened", "failed", "pruned", "stale"}
MoveStatuses  == {"pending", "queued", "open", "leased", "closed", "reopened", "refuted",
                  "dominated", "exhausted", "dead"}
ClaimStatuses == {"conjectural", "empirical", "provisional", "critic-accepted",
                  "formally-closed", "lean-verified", "tainted", "refuted", "retracted", "stale"}

Rels == {"HAS_STATE", "PROPOSES", "REQUIRES", "USES_CLAIM", "DEPENDS_ON"}

\* detail: does the event come with fields that replay does not read (theorem_hash,
\* statement_blob, score and cost_estimate)?  A move's status may be left out.
ProjectInit(d)          == [type |-> "project_init", detail |-> d]
StateAdded(s)           == [type |-> "state_added", state |-> s]
ClaimAdded(c, st, d)    == [type |-> "claim_added", claim |-> c, status |-> st, detail |-> d]
DependencyAdded(a, b)   == [type |-> "claim_dependency_added", claim |-> a, on |-> b]
MoveAdded(m, s, st, d)  == [type |-> "move_added", move |-> m, state |-> s, status |-> st,
                            detail |-> d]
SubgoalAdded(m, s)      == [type |-> "subgoal_added", move |-> m, state |-> s]
MoveUpdated(m, st)      == [type |-> "move_updated", move |-> m, status |-> st]
StateClosed(s)          == [type |-> "state_closed", state |-> s]
StateReopened(s)        == [type |-> "state_reopened", state |-> s]
ClaimUpdated(c, st)     == [type |-> "claim_updated", claim |-> c, status |-> st]
TaintPropagated(c)      == [type |-> "taint_propagated", claim |-> c]
StateClaimLinked(s, c)  == [type |-> "state_claim_link_added", state |-> s, claim |-> c]

\* The events of a journal, with statuses the adapter's _check lets through; Added are
\* the moves' with the statuses given.
Added(statuses) ==
  {MoveAdded(m, s, st, d) : m \in Moves, s \in States, st \in statuses, d \in BOOLEAN}
Dependencies == {DependencyAdded(a, b) : a, b \in Claims}
OtherEvents ==
  {ProjectInit(d) : d \in BOOLEAN}
  \cup {StateAdded(s) : s \in States} \cup {StateClosed(s) : s \in States}
  \cup {StateReopened(s) : s \in States}
  \cup {ClaimAdded(c, st, d) : c \in Claims, st \in ClaimStatuses, d \in BOOLEAN}
  \cup {ClaimUpdated(c, st) : c \in Claims, st \in ClaimStatuses}
  \cup {TaintPropagated(c) : c \in Claims}
  \cup {MoveUpdated(m, st) : m \in Moves, st \in MoveStatuses}
  \cup {SubgoalAdded(m, s) : m \in Moves, s \in States}
  \cup {StateClaimLinked(s, c) : s \in States, c \in Claims}
Recordable == OtherEvents \cup Added(MoveStatuses \cup {None})
Events == Dependencies \cup Recordable

\* The arguments of the adapter's methods: no status is left out.
Arguments == Dependencies \cup OtherEvents \cup Added(MoveStatuses)

\* A rebuild in progress: the events it was given, how many of them it has replayed.
Progress == [events : Seq(Events), at : Nat]

ASSUME EventAssumption ==
  /\ Calls \subseteq Recordable
  /\ None \notin StateStatuses \cup MoveStatuses \cup ClaimStatuses
  /\ None # Raised /\ None \notin Progress /\ Raised \notin Progress

-----------------------------------------------------------------------------

(* Nodes and edges.  An edge carries the id of its event, the event's place in *)
(* the journal: MERGE of an edge that is there creates nothing.  details has   *)
(* the nodes with one of the fields that replay does not read.                 *)

NoGraph == [ proof |-> FALSE,
                state |-> [s \in States |-> None],
                move  |-> [m \in Moves |-> None],
                claim |-> [c \in Claims |-> None],
                edges |-> {},
                details |-> {} ]

Related(g, rel)  == {<<e[2], e[3]>> : e \in {x \in g.edges : x[1] = rel}}
Subgoals(g, m)   == {s \in States : <<m, s>> \in Related(g, "REQUIRES")}
Proposed(g, s)   == {m \in Moves : <<s, m>> \in Related(g, "PROPOSES")}
Used(g, s)       == {c \in Claims : <<s, c>> \in Related(g, "USES_CLAIM")}
Depends(g)       == Related(g, "DEPENDS_ON")

\* Does S hold what a depends on, and what its own members depend on?
Follows(deps, a, S) == \A e \in deps : e[1] \in S \cup {a} => e[2] \in S

\* Is there a path of one or more dependencies from a to b?
Reaches(deps, a, b) == \A S \in SUBSET Claims : Follows(deps, a, S) => b \in S

\* The proof's node takes each call's theorem_hash.
InitProof(g, d) ==
  LET hash == {<<"Proof", None>>}
  IN  [g EXCEPT !.proof = TRUE, !.details = IF d THEN @ \cup hash ELSE @ \ hash]

\* MERGE a State node, then an edge whose creation opens the state again.
OpenState(g, s) == IF g.state[s] = None THEN [g EXCEPT !.state[s] = "open"] ELSE g

OpenByEdge(g, s, found, edge) ==
  IF found /\ edge \notin g.edges
  THEN [g EXCEPT !.state[s] = "open", !.edges = @ \cup {edge}]
  ELSE g

AddState(g, s, id) == OpenByEdge(OpenState(g, s), s, g.proof, <<"HAS_STATE", None, s, id>>)

AddRequiredSubgoal(g, m, s, id) ==
  OpenByEdge(AddState(g, s, id), s, g.move[m] # None, <<"REQUIRES", m, s, id>>)

\* The move's status is set with the node and again with each new PROPOSES edge, its score
\* and cost with the node.
AddMove(g, m, s, st, d, id) ==
  LET edge == <<"PROPOSES", s, m, id>>
      new  == g.state[s] # None /\ edge \notin g.edges
  IN  [g EXCEPT !.move[m] = IF @ = None \/ new THEN st ELSE @,
                !.edges = IF new THEN @ \cup {edge} ELSE @,
                !.details = IF d /\ g.move[m] = None THEN @ \cup {<<"Move", m>>} ELSE @]

AddClaim(g, c, st, d) ==
  [g EXCEPT !.claim[c] = st,
            !.details = IF d /\ g.claim[c] = None THEN @ \cup {<<"Claim", c>>} ELSE @]

Link(g, rel, from, to, found, id) ==
  IF found THEN [g EXCEPT !.edges = @ \cup {<<rel, from, to, id>>}] ELSE g

LinkStateClaim(g, s, c, id) ==
  Link(g, "USES_CLAIM", s, c, g.state[s] # None /\ g.claim[c] # None, id)

MergeDependsOn(g, a, b, id) ==
  Link(g, "DEPENDS_ON", a, b, g.claim[a] # None /\ g.claim[b] # None, id)

\* Mutant: only the reverse edge counts as a cycle.
EdgeBack(g, a, b) == <<b, a>> \in Depends(g)

CycleExists(g, a, b) == Reaches(Depends(g), b, a)

UpdateMoveStatus(g, m, st)  == [g EXCEPT !.move[m] = IF @ = None THEN None ELSE st]
UpdateStateStatus(g, s, st) == [g EXCEPT !.state[s] = IF @ = None THEN None ELSE st]
UpdateClaimStatus(g, c, st) == [g EXCEPT !.claim[c] = IF @ = None THEN None ELSE st]

-----------------------------------------------------------------------------

(* The AND/OR closure.  A subgoal that is closed or reopened is settled.       *)

Settled == {"formally-closed", "reopened"}

\* Mutant: a move closes with any of its subgoals.
CloseMovesByAny(g) ==
  [g EXCEPT !.move = [m \in Moves |->
     IF g.move[m] # None /\ \E s \in Subgoals(g, m) : g.state[s] \in Settled
     THEN "closed" ELSE g.move[m]]]

\* AND: the moves none of whose subgoals is unsettled close.
CloseMoves(g) ==
  [g EXCEPT !.move = [m \in Moves |->
     IF g.move[m] # None /\ \A s \in Subgoals(g, m) : g.state[s] \in Settled
     THEN "closed" ELSE g.move[m]]]

\* Mutant: the closed literal of the graph's old vocabulary.
CloseStatesOld(g) ==
  [g EXCEPT !.state = [s \in States |->
     IF /\ g.state[s] \notin Settled \cup {None}
        /\ \E m \in Proposed(g, s) : g.move[m] = "closed"
     THEN "closed" ELSE g.state[s]]]

\* OR: the unsettled states that propose a closed move close.
CloseStates(g) ==
  [g EXCEPT !.state = [s \in States |->
     IF /\ g.state[s] \notin Settled \cup {None}
        /\ \E m \in Proposed(g, s) : g.move[m] = "closed"
     THEN "formally-closed" ELSE g.state[s]]]

\* Mutant: one pass and no fixpoint.
CloseOnce(g) == CloseStates(CloseMoves(g))

\* At most MaxIter passes; a pass that changes nothing changes nothing later.
Passes(g) ==
  LET pass[n \in 0..MaxIter] ==
        IF n = 0 THEN g ELSE CloseStates(CloseMoves(pass[n - 1]))
  IN  pass

PropagateClosures(g) == Passes(g)[MaxIter]

CloseState(g, s) ==
  PropagateClosures(
    [UpdateStateStatus(g, s, "formally-closed") EXCEPT
       !.move = [m \in Moves |-> IF m \in Proposed(g, s) THEN "closed" ELSE g.move[m]]])

\* Mutant: taint stops at the direct dependents.
TaintDirect(g, c) ==
  LET cone    == {d \in Claims : <<d, c>> \in Depends(g)}
      refuted == UpdateClaimStatus(g, c, "refuted")
  IN  [refuted EXCEPT !.claim = [d \in Claims |-> IF d \in cone THEN "tainted" ELSE refuted.claim[d]]]

\* The root is refuted, its dependents are tainted, and the closed states that use
\* a tainted claim are reopened.  A root in its own cone ends up tainted.
PropagateTaint(g, c) ==
  LET cone    == {d \in Claims : Reaches(Depends(g), d, c)}
      refuted == UpdateClaimStatus(g, c, "refuted")
  IN  [refuted EXCEPT
         !.claim = [d \in Claims |-> IF d \in cone THEN "tainted" ELSE refuted.claim[d]],
         !.state = [s \in States |->
           IF g.state[s] = "formally-closed" /\ Used(g, s) \cap cone # {}
           THEN "reopened" ELSE g.state[s]]]

\* The method for an event, called with the event's arguments.
Project(g, e, id) ==
  CASE e.type = "project_init"           -> InitProof(g, e.detail)
    [] e.type = "state_added"            -> AddState(g, e.state, id)
    [] e.type = "claim_added"            -> AddClaim(g, e.claim, e.status, e.detail)
    [] e.type = "claim_dependency_added" -> MergeDependsOn(g, e.claim, e.on, id)
    [] e.type = "move_added"             -> AddMove(g, e.move, e.state, e.status, e.detail, id)
    [] e.type = "subgoal_added"          -> AddRequiredSubgoal(g, e.move, e.state, id)
    [] e.type = "move_updated"           -> UpdateMoveStatus(g, e.move, e.status)
    [] e.type = "state_closed"           -> CloseState(g, e.state)
    [] e.type = "state_reopened"         -> UpdateStateStatus(g, e.state, "reopened")
    [] e.type = "claim_updated"          -> UpdateClaimStatus(g, e.claim, e.status)
    [] e.type = "taint_propagated"       -> PropagateTaint(g, e.claim)
    [] e.type = "state_claim_link_added" -> LinkStateClaim(g, e.state, e.claim, id)

\* What a caller passes: add_move queues a move that is given no status.
AsCalled(e) ==
  IF e.type = "move_added" /\ e.status = None THEN [e EXCEPT !.status = "queued"] ELSE e

\* Mutant: replay opens every move it adds.
AsReplayedOpen(e) ==
  CASE e.type = "move_added" -> [e EXCEPT !.status = "open", !.detail = FALSE]
    [] e.type \in {"project_init", "claim_added"} -> [e EXCEPT !.detail = FALSE]
    [] OTHER -> e

\* What _replay_event passes: it opens such a move, and drops the details.
AsReplayed(e) ==
  CASE e.type = "move_added" ->
         [e EXCEPT !.status = IF @ = None THEN "open" ELSE @, !.detail = FALSE]
    [] e.type \in {"project_init", "claim_added"} -> [e EXCEPT !.detail = FALSE]
    [] OTHER -> e

\* The graph after each number of calls.
Chain(arguments) ==
  LET chain[n \in 0..Len(arguments)] ==
        IF n = 0 THEN NoGraph ELSE Project(chain[n - 1], arguments[n], n)
  IN  chain

\* The graphs callers build, and those a rebuild goes through.
Called(events)   == Chain([i \in 1..Len(events) |-> AsCalled(events[i])])
Replayed(events) == Chain([i \in 1..Len(events) |-> AsReplayed(events[i])])

Refused(g, e) == e.type = "claim_dependency_added" /\ CycleExists(g, e.claim, e.on)

\* The journals a proof starts with were written by callers whose dependencies passed
\* add_claim_dependency's check, or would have.
ASSUME HistoryAssumption ==
  \A h \in Histories :
    /\ h \in Seq(Events) /\ Len(h) <= MaxEvents
    /\ \A i \in DOMAIN h : ~ Refused(Called(h)[i - 1], h[i])

-----------------------------------------------------------------------------

Init ==
  /\ log \in Histories
  /\ graph = Called(log)[Len(log)]
  /\ live = graph
  /\ checks = [w \in Writers |-> None]
  /\ raced = FALSE /\ unguarded = FALSE
  /\ rebuild = None

\* An event reaches the journal and the graph.
Journal(e) ==
  /\ Len(log) < MaxEvents
  /\ log' = Append(log, e)
  /\ graph' = Project(graph, AsCalled(e), Len(log'))
  /\ live' = Project(live, AsCalled(e), Len(log'))

Record(e) == Journal(e) /\ UNCHANGED <<checks, raced, unguarded, rebuild>>

\* add_claim_dependency: a path back from b to a raises ValueError ...
CheckDependency(w, a, b) ==
  /\ checks[w] = None /\ Len(log) < MaxEvents
  /\ ~ CycleExists(graph, a, b)
  /\ checks' = [checks EXCEPT ![w] = [claim |-> a, on |-> b, seen |-> Depends(graph)]]
  /\ UNCHANGED <<log, graph, live, raced, unguarded, rebuild>>

\* ... and the edge is merged, whatever was committed since the check.
MergeDependency(w) ==
  /\ checks[w] # None
  /\ Journal(DependencyAdded(checks[w].claim, checks[w].on))
  /\ raced' = (raced \/ checks[w].seen # Depends(live))
  /\ checks' = [checks EXCEPT ![w] = None]
  /\ UNCHANGED <<unguarded, rebuild>>

\* A call that names no proof skips the check.
AddUnscoped(a, b) ==
  /\ Journal(DependencyAdded(a, b))
  /\ unguarded' = TRUE
  /\ UNCHANGED <<checks, raced, rebuild>>

Rebuilding == rebuild \notin {None, Raised} /\ rebuild.at < Len(rebuild.events)

\* wipe_and_rebuild deletes the proof's nodes and their edges in one transaction ...
Wipe ==
  /\ ~ Rebuilding
  /\ graph' = NoGraph
  /\ rebuild' = [events |-> log, at |-> 0]
  /\ UNCHANGED <<log, live, checks, raced, unguarded>>

\* ... and replays the events it was given, one transaction each.
ReplayEvent ==
  /\ Rebuilding
  /\ LET id == rebuild.at + 1
         e  == rebuild.events[id]
     IN  \/ /\ ~ Refused(graph, e)
            /\ graph' = Project(graph, AsReplayed(e), id)
            /\ rebuild' = [rebuild EXCEPT !.at = id]
            /\ UNCHANGED raced
         \/ /\ Refused(graph, e)
            /\ rebuild' = Raised
            /\ raced' = (raced \/ rebuild.events # log)
            /\ UNCHANGED graph
  /\ UNCHANGED <<log, live, checks, unguarded>>

\* A crash in the middle: the graph stays as far as it got.
Interrupt ==
  /\ Rebuilding
  /\ rebuild' = None
  /\ UNCHANGED <<log, graph, live, checks, raced, unguarded>>

Next ==
  \/ \E e \in Calls : Record(e)
  \/ \E w \in Writers, l \in Links : CheckDependency(w, l[1], l[2])
  \/ \E w \in Writers : MergeDependency(w)
  \/ \E l \in Unscoped : AddUnscoped(l[1], l[2])
  \/ Wipe
  \/ ReplayEvent
  \/ Interrupt

Spec == Init /\ [][Next]_vars

-----------------------------------------------------------------------------

\* The vocabulary's literals, one projection of at most MaxEvents edge ids, writers
\* that hold one checked dependency, and a rebuild over a prefix of the journal.
GraphType == [ proof : BOOLEAN,
               state : [States -> StateStatuses \cup {None}],
               move  : [Moves -> MoveStatuses \cup {None}],
               claim : [Claims -> ClaimStatuses \cup {None}],
               edges : SUBSET (Rels \X (Moves \cup States \cup Claims \cup {None})
                                    \X (Moves \cup States \cup Claims) \X (1..MaxEvents)),
               details : SUBSET (({"Proof"} \X {None}) \cup ({"Claim"} \X Claims)
                                   \cup ({"Move"} \X Moves)) ]

TypeOK ==
  /\ graph \in GraphType /\ live \in GraphType
  /\ raced \in BOOLEAN /\ unguarded \in BOOLEAN
  /\ \A w \in Writers : checks[w] # None =>
       checks[w].claim \in Claims /\ checks[w].on \in Claims
         /\ checks[w].seen \subseteq Claims \X Claims
  /\ rebuild \notin {None, Raised} =>
       IsPrefix(rebuild.events, log) /\ rebuild.at \in 0..Len(rebuild.events)

Recorded(e) == log' = Append(log, e)

\* Propagated: no move has all its subgoals settled and is not closed, and no state that
\* proposes a closed move is unsettled.
Stable(g) ==
  /\ \A m \in Moves : g.move[m] \notin {None, "closed"} =>
       \E s \in Subgoals(g, m) : g.state[s] \notin Settled
  /\ \A s \in States : g.state[s] \notin Settled \cup {None} =>
       \A m \in Proposed(g, s) : g.move[m] # "closed"

\* A closing stops half propagated only at the cap of its passes, and each of them has
\* then closed a state: at least MaxIter states closed with the one named.
ClosingsSettle ==
  [][\A s \in States : Recorded(StateClosed(s)) =>
       Stable(graph') \/
         Cardinality({t \in States \ {s} : graph'.state[t] # graph.state[t]}) >= MaxIter]_vars

\* What close_state says: "the graph is never observed with a closed state whose moves are
\* still open, or with a half-propagated fixpoint".
ClosingsPropagate == [][\A s \in States : Recorded(StateClosed(s)) => Stable(graph')]_vars

\* Nothing closes without its reason: each move a closing closes is one of the closed
\* state's or has its subgoals settled, each state it closes is the one named or
\* proposes a closed move, reopened states stay so, and claims and edges are untouched.
EarnedBy(s) ==
  /\ \A m \in Moves : graph'.move[m] # graph.move[m] =>
       /\ graph'.move[m] = "closed"
       /\ m \in Proposed(graph, s) \/ \A g \in Subgoals(graph, m) : graph'.state[g] \in Settled
  /\ \A t \in States \ {s} : graph'.state[t] # graph.state[t] =>
       /\ graph.state[t] # "reopened" /\ graph'.state[t] = "formally-closed"
       /\ \E m \in Proposed(graph, t) : graph'.move[m] = "closed"
  /\ graph'.claim = graph.claim /\ graph'.edges = graph.edges

ClosingsAreEarned == [][\A s \in States : Recorded(StateClosed(s)) => EarnedBy(s)]_vars

\* What the comment on the AND rule says, "a move closes once every REQUIRES subgoal is
\* closed", with move_is_complete's reading of closed: a reopened subgoal is open.
IsComplete(g, m) == \A s \in Subgoals(g, m) : g.state[s] = "formally-closed"

ClosedMovesAreComplete ==
  [][\A s \in States, m \in Moves :
       Recorded(StateClosed(s)) /\ m \notin Proposed(graph, s)
         /\ graph.move[m] # "closed" /\ graph'.move[m] = "closed"
       => IsComplete(graph', m)]_vars

\* The moves that some event adds without naming a status.
Unnamed(events) ==
  {m \in Moves : \E i \in 1..Len(events) :
     events[i].type = "move_added" /\ events[i].move = m /\ events[i].status = None}

\* r is l with queued moves of some set open, details aside.
Restores(r, l, moves) ==
  /\ r.proof = l.proof /\ r.state = l.state /\ r.claim = l.claim /\ r.edges = l.edges
  /\ \A m \in Moves : r.move[m] # l.move[m] =>
       m \in moves /\ r.move[m] = "open" /\ l.move[m] = "queued"

Rebuilt == rebuild \notin {None, Raised} /\ rebuild.at = Len(rebuild.events) /\ rebuild.events = log

\* A rebuild that was given the whole journal ends, after any number of interrupted ones,
\* with the nodes, edges and statuses that the calls had built, though it passes on less
\* than they did: all that differs is that moves added without a status, which the calls
\* queued and no later event touched, are open.
RebuildConverges == Rebuilt => Restores(graph, live, Unnamed(log))

\* What the adapter says: "this graph can always be wiped and rebuilt by replay".
RebuildRestoresGraph == Rebuilt => graph = live

\* Dependencies turn circular, and a rebuild is refused a dependency that its journal
\* recorded, only after a call that skipped the check for want of a proof id, or after a
\* race: a merge whose check had not seen the dependencies it was merged into (two writers
\* at once, or one that checked against a graph being rebuilt), or calls during the rebuild
\* (a dependency recorded before its claims has no edge until a rebuild finds the claims
\* there).
Circular(deps) == \E a, b \in Claims : a # b /\ Reaches(deps, a, b) /\ Reaches(deps, b, a)

CyclesEvadeTheCheck == Circular(Depends(live)) \/ rebuild = Raised => raced \/ unguarded

\* What add_claim_dependency says of its writers: "two concurrent writers cannot each see
\* an acyclic graph and then close a cycle together".
DependenciesAcyclic == ~ Circular(Depends(live))

\* What it says of its call: it "raises ValueError if it would create a cycle".
CyclesAreRefused ==
  [][\A a, b \in Claims : Recorded(DependencyAdded(a, b)) => ~ CycleExists(graph, a, b)]_vars

=============================================================================
