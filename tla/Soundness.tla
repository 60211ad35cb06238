------------------------------- MODULE Soundness -------------------------------
(***************************************************************************)
(* The structural validators of a formal search result, over the results of *)
(* FormalResults: what they find, as pairs of a reason and the state it is  *)
(* about.  Environment hashes, annotations and a tactic's declared count are *)
(* left out, as results leave them out; so are certificates that carry a     *)
(* replay, which no adapter attaches.  Operators only.                       *)
(***************************************************************************)
EXTENDS FormalResults

TacticsOf(r) == {r.tactics[i] : i \in DOMAIN r.tactics}

\* _check_tactic_edges: of a tactic's children, none twice and every one reported.
TacticFindings(r) ==
  {<<"duplicated-subgoal", t.source>> : t \in {u \in TacticsOf(r) : ~IsInjective(u.children)}}
  \cup {<<"unknown-child-state", t.source>> :
          t \in {u \in TacticsOf(r) : /\ IsInjective(u.children)
                                      /\ ~(\A c \in DOMAIN u.children : u.children[c] \in DOMAIN r.states)}}

\* _check_closure_and_scores: a state closes by an accepted tactic without subgoals, and
\* has no failed one.
ClosureFindings(r) ==
  LET childless(results) ==
        {t.source : t \in {u \in TacticsOf(r) : u.children = <<>> /\ u.executor_result \in results}}
      closed == {s \in DOMAIN r.states : r.states[s].status = "formally-closed"}
  IN {<<"executor-failure-as-success", s>> : s \in closed \cap childless(EXECUTOR_FAILURES)}
     \cup {<<"heuristic-closure-attempt", s>> : s \in closed \ childless({"lean-accepted"})}

\* check_certificate_replay_binding, of a candidate.
CertificateFindings(r) ==
  {<<"certificate-required", 1>> :
     d \in {r.disposition} \cap (IF r.certificate THEN {} ELSE {"proved-pending-replay"})}

validate_formal_search_result(r) ==
  TacticFindings(r) \cup ClosureFindings(r) \cup CertificateFindings(r)

=============================================================================
