----------------------------- MODULE CommitGate -----------------------------
(***************************************************************************)
(* The commit gate over one proof: any worker, any number of times and in   *)
(* any order, submits proposals; those the rules accept are journalled and  *)
(* replayed onto the committed graph.  Base revisions and leases are        *)
(* JournalStore's and ProofCycle's subject: here a proposal only says        *)
(* whether it names them, and validation and append are one step.           *)
(***************************************************************************)
EXTENDS GateRules

CONSTANTS
  Proofs,     \* proof ids
  Proposals,  \* what workers submit: [proof_id, based, leased, ops]
  Discipline  \* per proof: the habits all its workers have; the gate asks for none

ASSUME GateAssumption ==
  /\ Discipline \in [Proofs -> SUBSET Habits]
  /\ \A p \in Proposals :
       /\ Len(p.ops) \in Nat /\ DOMAIN p.ops = 1..Len(p.ops)
       /\ \A op \in OpsOf(p.ops, "set_field") : op.label # None
  /\ None \notin BOOLEAN /\ None \notin STRING

VARIABLES
  proof,      \* the proof this gate serves
  view,       \* committed state
  replayable  \* does apply_ops raise nothing on the journal so far?

vars == <<proof, view, replayable>>

-----------------------------------------------------------------------------

Init ==
  /\ proof \in Proofs
  /\ view = EmptyGraph
  /\ replayable = TRUE

\* CommitGate.commit and the maintenance that applies the ops.  An event apply_ops
\* raises on is in the journal all the same; nothing after it can be replayed.
Commit(p) ==
  /\ replayable
  /\ p.proof_id = proof
  /\ "edges" \in Discipline[proof] => NewEdges(view, p.ops)
  /\ "nodes" \in Discipline[proof] => NewNodes(view, p.ops)
  /\ "claims" \in Discipline[proof] => NewClaims(p.ops)
  /\ "writes" \in Discipline[proof] => WritesCommitted(view, p.ops)
  /\ Accepts(view, p)
  /\ replayable' = Applies(view, p.ops)
  /\ view' = IF Applies(view, p.ops) THEN ApplyOps(view, p.ops) ELSE view
  /\ UNCHANGED proof

Next == \E p \in Proposals : Commit(p)

Spec == Init /\ [][Next]_vars

-----------------------------------------------------------------------------
(* Properties                                                               *)

\* Types, and what readers of the graph take for granted: values of enum fields come
\* from their vocabulary, and edges join what they may join.
TypeOK ==
  /\ proof \in Proofs /\ replayable \in BOOLEAN
  /\ \A id \in DOMAIN view.nodes :
       /\ id[1] = proof
       /\ \A f \in DOMAIN view.nodes[id].fields :
            InVocabulary(view.nodes[id].label, f, view.nodes[id].fields[f])
  /\ Joined(view)

StatusOf(v, id) == Get(v.nodes[id].fields, "status")
Labelled(v, label) == {id \in DOMAIN v.nodes : v.nodes[id].label = label}

\* An independent replay of a certificate of the claim is linked to it.
Evidenced(v, c) ==
  \E e \in EdgesFrom(v, c, "PROVED_BY") :
    \E r \in EdgesFrom(v, v.edges[e].dst, "REPLAYED_BY") :
      IndependentReplay(v.nodes[v.edges[e].dst].fields, v.nodes[v.edges[r].dst].fields)

\* The edges to required children are as the tactic declares.
ArityAsDeclared(v, t) ==
  LET children == EdgesFrom(v, t, "FORMAL_REQUIRES")
  IN /\ Get(v.nodes[t].fields, "subgoal_count") = Cardinality(children)
     /\ \A d, e \in children : v.edges[d].dst = v.edges[e].dst => d = e
     /\ {v.edges[e].index : e \in children} = 0..(Cardinality(children) - 1)

\* Lean accepted the tactic, and nothing is left to prove.
MayClose(v, t) ==
  /\ Get(v.nodes[t].fields, "executor_result") = "lean-accepted"
  /\ EdgesFrom(v, t, "FORMAL_REQUIRES") = {}

\* The proposal creates the claim with the status a promotion gives it.
CreatesVerified(ops, c) ==
  \E i \in Upserts(ops, c) : Get(ops[i].fields, "status") = "lean-verified"

\* The proposal removes an edge of the relationship, or adds one under an id that is
\* taken, removed or used twice, so that apply_ops may drop it.
RedoesEdge(v, ops, rel) ==
  \/ \E e \in DOMAIN v.edges : v.edges[e].rel = rel /\ Removes(ops, e) # {}
  \/ \E i \in EdgeOps(ops, rel) :
       LET e == ops[i].edge_id
       IN e \in DOMAIN v.edges \/ Removes(ops, e) # {} \/ \E j \in Adds(ops, e) : j # i

\* The proposal writes to a node before the upsert that creates it.
WritesEarly(v, ops) ==
  \E op \in OpsOf(ops, "set_field") :
    /\ op.id \notin DOMAIN v.nodes /\ Upserts(ops, op.id) # {}
    /\ \E i \in Writes(ops, op.id, op.field) : \A j \in Upserts(ops, op.id) : i < j

\* A lean-verified claim rests, in committed state and for as long as it is called that,
\* on a certificate that an actor other than its producer replayed without sorry
\* (check_replay_evidence: "A claim cannot become lean-verified on a self-report").
\* The rules alone do not keep this: see OnlyLinksLoseEvidence.
EvidenceStands ==
  \A c \in Labelled(view, "Claim") :
    StatusOf(view, c) = "lean-verified" => Evidenced(view, c)

\* What the rules do keep: no commit makes a claim lean-verified without that evidence, nor
\* takes the evidence from it, but one that creates the claim so or redoes a link of
\* evidence.  Whoever replayed what, and with what outcome, is for good.
OnlyLinksLoseEvidence ==
  [][\A c \in Labelled(view', "Claim") :
       /\ StatusOf(view', c) = "lean-verified" /\ ~Evidenced(view', c)
       /\ c \in DOMAIN view.nodes /\ StatusOf(view, c) = "lean-verified" => Evidenced(view, c)
       => \A p \in Proposals :
            Commit(p) => \/ CreatesVerified(p.ops, c)
                         \/ \E rel \in {"PROVED_BY", "REPLAYED_BY"} : RedoesEdge(view, p.ops, rel)]_vars

\* Afterwards an alignment is linked to the claim that was reviewed and found aligned when
\* the ops met it: in committed state, or as they create it.
AlignedAt(ops, c) ==
  \E e \in EdgesTo(view', c, "ALIGNS_CLAIM") :
    LET a == view'.edges[e].src
    IN IF a \in DOMAIN view.nodes THEN ReviewedAligned(view.nodes[a].fields)
       ELSE \E i \in Upserts(ops, a) : ReviewedAligned(ops[i].fields)

\* A claim becomes lean-verified only with a reviewed alignment linked to it
\* (check_alignment_gate), or by a commit that creates it so or redoes a link of alignment.
\* The alignment may go stale later, and in that very step, so this is no invariant.
PromotedWhenAligned ==
  [][\A c \in Labelled(view', "Claim") :
       /\ StatusOf(view', c) = "lean-verified"
       /\ c \in DOMAIN view.nodes => StatusOf(view, c) # "lean-verified"
       => \A p \in Proposals :
            Commit(p) => \/ AlignedAt(p.ops, c) \/ CreatesVerified(p.ops, c)
                         \/ RedoesEdge(view, p.ops, "ALIGNS_CLAIM")]_vars

\* The required children of a tactic are as many as it declares, distinct, and numbered
\* from 0: however proposals are split, repeated or ordered, no obligation is lost,
\* doubled or added later (check_subgoal_conservation).
ArityFixed ==
  \A t \in Labelled(view, "TacticApplication") : ArityAsDeclared(view, t)

\* What closes a state is a tactic Lean accepted that requires no child, now and from
\* then on (check_executor_result).
ClosuresAreAccepted ==
  \A e \in DOMAIN view.edges :
    view.edges[e].rel = "CLOSES_STATE" => MayClose(view, view.edges[e].src)

\* Labels are for good, and a status or lifecycle changes only along its table, whatever
\* several writes a proposal makes of it (check_status_transitions).
StatusesFollowTables ==
  [][\A id \in DOMAIN view.nodes :
       /\ id \in DOMAIN view'.nodes /\ view'.nodes[id].label = view.nodes[id].label
       /\ \A f \in {"status", "lifecycle"} :
            LET before == Get(view.nodes[id].fields, f)
                after  == Get(view'.nodes[id].fields, f)
            IN STATUS_TRANSITIONS(view.nodes[id].label, f) # {} /\ before \notin {None, after}
                 => after \in AllowedFrom(view.nodes[id].label, f, before)]_vars

\* Whatever the gate journals, apply_ops can replay (apply.py, of writes to unknown nodes:
\* "The gate rejects such proposals before they reach the journal").  The rules look for
\* the node among all the upserts of the proposal, apply_ops among those before the write.
JournalReplays == replayable

\* What the rules do keep: the order of writes and upserts inside one proposal is all that
\* can stop a replay.  Any other proposal apply_ops would raise on is refused, whatever was
\* committed before (check_references).
OnlyOrderStopsReplay ==
  \A p \in Proposals :
    p.proof_id = proof /\ ~Applies(view, p.ops) /\ ~WritesEarly(view, p.ops) => ~Accepts(view, p)

=============================================================================
