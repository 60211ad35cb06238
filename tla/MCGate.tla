------------------------------- MODULE MCGate -------------------------------
(* Small instances of the commit gate: two proofs whose proposals promote a   *)
(* claim, one by workers of every habit and one by workers that name no more   *)
(* than nodes for good, and one whose proposals search.                        *)
EXTENDS CommitGate, TLC

Submit(scope, ops) == [proof_id |-> scope, based |-> TRUE, leased |-> TRUE, ops |-> ops]

\* Ids of the two proofs.
C(name) == <<"claims", name>>
S(name) == <<"search", name>>

Claim(status) == UpsertNode("Claim", C("c"), [status |-> status])
Certificate   == UpsertNode("Certificate", C("cert"), [actor |-> "atp", status |-> "candidate"])
ProvedBy      == AddEdge("PROVED_BY", C("c"), C("cert"), C("proved"), None)
Replay(r, actor, status, sorry) ==
  UpsertNode("LeanReplay", C(r), [actor |-> actor, status |-> status, sorry_detected |-> sorry])
Clean    == Replay("clean", "replayer", "verified", FALSE)
Sorry    == Replay("sorry", "replayer", "verified", TRUE)
Rejected == Replay("rejected", "replayer", "rejected", FALSE)
OwnWord  == Replay("own", "atp", "verified", FALSE)
ReplayedBy(r) == AddEdge("REPLAYED_BY", C("cert"), C(r), <<"claims", "by", r>>, None)
Alignment  == UpsertNode("Alignment", C("al"), [actor |-> "human", lifecycle |-> "review-needed"])
Aligns     == AddEdge("ALIGNS_CLAIM", C("al"), C("c"), C("aligns"), None)
Status(value, prior)    == SetField("Claim", C("c"), "status", value, prior)
Lifecycle(value, prior) == SetField("Alignment", C("al"), "lifecycle", value, prior)
Verdict(value, prior)   == SetField("Alignment", C("al"), "verdict", value, prior)
Promote == Status("lean-verified", "formally-closed")

ClaimOps ==
  { <<Claim("critic-accepted")>>, <<Claim("lean-verified")>>, <<Certificate, ProvedBy>>,
    <<Certificate, ProvedBy, Clean, ReplayedBy("clean"), Promote>>,
    <<Certificate, AddEdge("PROVED_BY", C("c"), C("cert"), C("aligns"), None)>>,
    <<Clean>>, <<ReplayedBy("clean")>>, <<OwnWord>>, <<ReplayedBy("own")>>,
    <<Sorry, ReplayedBy("sorry")>>, <<Rejected, ReplayedBy("rejected")>>,
    <<Alignment, Aligns>>, <<AddEdge("ALIGNS_CLAIM", C("c"), C("al"), C("swapped"), None)>>,
    <<Verdict("aligned", None)>>, <<Verdict("stronger", None)>>, <<Verdict("close", None)>>,
    <<Lifecycle("reviewed", "review-needed")>>, <<Lifecycle("stale", "reviewed"), Promote>>,
    <<Lifecycle("review-needed", "reviewed")>>,
    <<Status("formally-closed", "critic-accepted")>>, <<Promote>>,
    <<Status("tainted", "lean-verified")>>, <<Status("lean-verified", "tainted")>> }

\* The ops with every id moved to another proof.
MovedTo(scope, ops) ==
  [i \in DOMAIN ops |->
     [f \in DOMAIN ops[i] |-> IF f \in {"id", "src", "dst", "edge_id"}
                              THEN [ops[i][f] EXCEPT ![1] = scope] ELSE ops[i][f]]]

\* The links of evidence without the life of the alignment, reviewed when it is made, and a
\* write that comes before its node.
Reviewed ==
  UpsertNode("Alignment", C("al"), [actor |-> "human", lifecycle |-> "reviewed", verdict |-> "aligned"])
LinkOps ==
  { <<Claim("critic-accepted")>>, <<Claim("lean-verified")>>, <<Certificate, ProvedBy>>,
    <<Certificate, ProvedBy, Clean, ReplayedBy("clean"), Promote>>,
    <<Certificate, AddEdge("PROVED_BY", C("c"), C("cert"), C("aligns"), None)>>,
    <<Clean>>, <<ReplayedBy("clean")>>, <<OwnWord, ReplayedBy("own")>>,
    <<Sorry, ReplayedBy("sorry")>>, <<Reviewed, Aligns>>, <<Verdict("stronger", "aligned")>>,
    <<RemoveEdge("PROVED_BY", C("proved"))>>,
    <<RemoveEdge("REPLAYED_BY", <<"claims", "by", "clean">>)>>,
    <<Status("formally-closed", "critic-accepted")>>, <<Promote>>,
    <<Status("tainted", "lean-verified")>>, <<Status("lean-verified", "tainted")>> }

State(s)  == UpsertNode("FormalState", S(s), [status |-> "open"])
Tactic(t, count, result) ==
  UpsertNode("TacticApplication", S(t), [subgoal_count |-> count, executor_result |-> result])
Requires(t, s, i) == AddEdge("FORMAL_REQUIRES", S(t), S(s), <<"search", t, s, i>>, i)
Closes(t, s)      == AddEdge("CLOSES_STATE", S(t), S(s), <<"search", t, s>>, None)
StateTo(s, value, prior) == SetField("FormalState", S(s), "status", value, prior)
Score(s) == SetField("FormalState", S(s), "pln_strength", "high", Unset)
Run      == UpsertNode("FormalRun", S("run"), [status |-> "searching"])
Stagnate == SetField("FormalRun", S("run"), "status", "stagnated", "searching")
Obstruct == UpsertNode("Obstruction", S("obs"), [kind |-> "missing-lemma"])
Raise    == AddEdge("RAISED_OBSTRUCTION", S("run"), S("obs"), S("raised"), None)

SearchOps ==
  { <<State("goal"), State("left"), State("right")>>,
    <<Tactic("split", 2, "lean-accepted"), Requires("split", "left", 0), Requires("split", "right", 1)>>,
    <<Tactic("split", 2, "lean-accepted"), Requires("split", "left", 0), Requires("split", "left", 1)>>,
    <<Tactic("split", 2, "lean-accepted"), Requires("split", "left", 0)>>,
    <<Tactic("rw", 1, "lean-accepted"), Requires("rw", "left", 0)>>,
    <<Requires("rw", "right", 1)>>, <<Requires("exact", "left", 0)>>,
    <<Tactic("rw", 1, "lean-accepted"), Requires("rw", "left", 0), Closes("rw", "goal")>>,
    <<Tactic("exact", 0, "lean-accepted"), Closes("exact", "left")>>,
    <<Tactic("exact", 0, "lean-accepted"), Closes("exact", "left"),
      StateTo("left", "formally-closed", "open"), Score("left")>>,
    <<Tactic("pln", 0, "timeout"), Closes("pln", "right")>>, <<Tactic("pln", 0, "timeout")>>,
    <<Score("right"), StateTo("right", "formally-closed", "open")>>,
    <<StateTo("right", "tainted", "open"), StateTo("right", "formally-closed", "open")>>,
    <<StateTo("right", "tainted", "open"), StateTo("right", "reopened", "open")>>,
    <<StateTo("right", "reopened", "tainted")>>, <<StateTo("right", "open", "failed")>>,
    <<StateTo("right", "failed", "reopened")>>,
    <<Run>>, <<Stagnate>>, <<Obstruct>>, <<Raise>>, <<Raise, Stagnate>> }

\* Each list of ops alone, and any two as one proposal.
OneOrTwo(lists) == lists \cup {first \o second : first, second \in lists}

MCProposals ==
  {Submit("claims", ops) : ops \in OneOrTwo(ClaimOps)}
  \cup {Submit("links", MovedTo("links", ops)) : ops \in OneOrTwo(LinkOps)}
  \cup {Submit("search", ops) : ops \in OneOrTwo(SearchOps)}
  \cup {[Submit("claims", <<Promote>>) EXCEPT !.leased = FALSE],
        [Submit("claims", <<Promote>>) EXCEPT !.based = FALSE],
        Submit("claims", <<State("goal")>>)}

\* The habits of the workers of each proof; and workers that lack one of them.
MCDiscipline   == ("claims" :> Habits) @@ ("links" :> {"nodes"}) @@ ("search" :> Habits)
WithoutEdges   == [p \in Proofs |-> Habits \ {"edges"}]
WithoutClaims  == [p \in Proofs |-> Habits \ {"claims"}]
WithoutWrites  == [p \in Proofs |-> Habits \ {"writes"}]
=============================================================================
