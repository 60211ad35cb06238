------------------------------ MODULE MCFormal ------------------------------
(* Small instances of formal search: hypergraphs of up to three nodes,        *)
(* scripted payloads, a proof that starts afresh and one with a run searching. *)
EXTENDS FormalSearch

Edge(source, kernel, children, status) ==
  [source |-> source, kernel |-> kernel, children |-> children, status |-> status]
Hypergraph(nodes, edges) == [nodes |-> nodes, edges |-> edges]

\* By a tactic, by the PLN fallback, by both, by a split with both children proved, by one
\* with a child scored shut; rejected, with one child rejected; left open, with one child
\* proved.
MCGraphs ==
  { Hypergraph(<<"solved">>, <<Edge(1, TRUE, <<>>, "solved")>>),
    Hypergraph(<<"solved">>, <<Edge(1, FALSE, <<>>, "solved")>>),
    Hypergraph(<<"solved">>, <<Edge(1, TRUE, <<>>, "solved"), Edge(1, FALSE, <<>>, "solved")>>),
    Hypergraph(<<"solved", "solved", "solved">>,
      <<Edge(1, TRUE, <<2, 3>>, "solved"), Edge(2, TRUE, <<>>, "solved"),
        Edge(3, TRUE, <<>>, "solved")>>),
    Hypergraph(<<"solved", "solved", "solved">>,
      <<Edge(1, TRUE, <<2, 3>>, "solved"), Edge(2, TRUE, <<>>, "solved"),
        Edge(3, FALSE, <<>>, "solved")>>),
    Hypergraph(<<"dead">>, <<Edge(1, TRUE, <<>>, "dead")>>),
    Hypergraph(<<"dead", "dead", "open">>,
      <<Edge(1, TRUE, <<2, 3>>, "dead"), Edge(2, TRUE, <<>>, "dead")>>),
    Hypergraph(<<"expanded", "open", "open">>, <<Edge(1, TRUE, <<2, 3>>, "pending")>>),
    Hypergraph(<<"expanded", "solved", "open">>,
      <<Edge(1, TRUE, <<2, 3>>, "pending"), Edge(2, TRUE, <<>>, "solved")>>),
    Hypergraph(<<"open">>, <<>>) }

\* Two obstructions at one state (test_routing), and a search that goes on.
Ongoing(epoch, states, frontier, tactics) ==
  [Result("searching") EXCEPT !.rooted = TRUE, !.states = States(None, states), !.frontier = frontier,
                              !.epoch = epoch, !.tactics = tactics]
MCPayloads ==
  { [Result("budget-exhausted") EXCEPT !.rooted = TRUE, !.states = States(None, <<"open">>),
       !.frontier = <<1>>, !.epoch = 1,
       !.obstructions = <<Obstruction(1, "missing-lemma", <<1>>),
                          Obstruction(2, "missing-lemma", <<1>>)>>],
    Ongoing(1, <<"expanded", "open">>, <<2>>, <<TacticEdge(1, "lean-accepted", <<2>>, None)>>),
    Ongoing(2, <<"expanded", "formally-closed", "open">>, <<3>>,
            <<TacticEdge(1, "lean-accepted", <<2>>, None),
              TacticEdge(2, "lean-accepted", <<>>, None),
              TacticEdge(3, "lean-rejected", <<>>, "apply-failure")>>) }

Declaration(d) == UpsertNode("FormalDeclaration", Id("fd", d), [status |-> "aligned"])
Fresh == SetToSeq({Declaration(d) : d \in Decls})
Searching ==
  Fresh \o
  << UpsertNode("FormalState", Id("fs", 1), [goal_text |-> <<Id("fd", 1), 1>>, status |-> "open"]),
     UpsertNode("FormalRun", Id("fr", 1), [actor |-> "formal-atp", status |-> "searching"]),
     AddEdge("HAS_ROOT", Id("fr", 1), Id("fs", 1), Append(Id("fr", 1), "root"), None),
     AddEdge("SEARCHES", Id("fr", 1), Id("fd", 1), Append(Id("fr", 1), "searches"), None),
     UpsertNode("FormalCheckpoint", Id("fc", 1), [actor |-> "formal-atp", epoch_ms |-> 1]),
     AddEdge("HAS_CHECKPOINT", Id("fr", 1), Id("fc", 1), Append(Id("fc", 1), "in"), None),
     AddEdge("CHECKPOINT_FRONTIER", Id("fc", 1), Id("fs", 1), Id("fc", 1) \o <<"frontier", 0>>, None) >>
MCJournals == {Fresh, Searching}
=============================================================================
