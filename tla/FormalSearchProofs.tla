-------------------------- MODULE FormalSearchProofs --------------------------
(***************************************************************************)
(* Theorems of FormalSearch, for every set of hypergraphs the reasoner may  *)
(* return, payloads the executor may report and journals the proof may have *)
(* (GraphAssumption, PayloadAssumption, HistoryAssumption).                 *)
(*                                                                         *)
(* The argument.  A result is converted to ops part by part                 *)
(* (formal_result_to_ops).  Each part makes nodes under ids no other part   *)
(* uses, with edges whose ids start with the id of such a node (Makes); so   *)
(* do all parts together (MakesAll).  A list that makes nodes that way is   *)
(* one of a disciplined producer (MakesProduced), so GateRulesProofs says   *)
(* what its commit leaves: a graph the next step's lookups and serials are   *)
(* right about (GraphInv).  With the numbering of runs that is inductive    *)
(* (SearchInv).  A step then commits nothing, a bridge lemma, or the ops of  *)
(* a result for one run (StepKeeps); what that leaves is read off the ops    *)
(* and the graph before: frontiers, certificates, roots.  The projector is  *)
(* followed op by op (UpTo) to the graph that the whole list leaves.        *)
(***************************************************************************)
EXTENDS FormalSearch, GateRulesProofs, SequenceTheorems

(***************************************************************************)
(* What the adapters answer is sound.                                      *)
(***************************************************************************)

\* The results of the reasoner's adapter, taken apart.
LEMMA ConvertedParts ==
  ASSUME NEW g \in Graphs, NEW d
  PROVE  LET r == Converted(g, d)
             proved == Solved(g) /\ 1 \in KernelClosed(g)
         IN /\ r.states = States(d, [n \in DOMAIN g.nodes |-> StateStatus(g, n)])
            /\ r.tactics = [i \in DOMAIN g.edges |->
                              TacticEdge(g.edges[i].source, EdgeResult(g.edges[i]),
                                         g.edges[i].children, None)]
            /\ r.certificate = proved
            /\ r.disposition = IF proved THEN "proved-pending-replay"
                               ELSE IF Exhausted(g) THEN "stagnated" ELSE "budget-exhausted"
            /\ r.rooted = (proved \/ Exhausted(g))
            /\ r.frontier = IF proved THEN <<>>
                            ELSE IF Solved(g) THEN Append(NodesAt(g, "open"), 1)
                            ELSE NodesAt(g, "open")
            /\ r.obstructions = IF Exhausted(g)
                                THEN <<Obstruction(1, "search-policy", NodesAt(g, "dead"))>>
                                ELSE <<>>
  BY DEF Converted, Result, Solved, Exhausted

\* The adapter closes a state only if a tactic was accepted at it.
LEMMA ConvertedIsSound ==
  ASSUME NEW g \in Graphs, NEW d, NEW finding \in validate_formal_search_result(Converted(g, d))
  PROVE  /\ finding[1] \in {"executor-failure-as-success", "heuristic-closure-attempt"}
         /\ \E t \in TacticsOf(Converted(g, d)) :
              t.source = finding[2] /\ t.executor_result = "lean-accepted"
<1> DEFINE r == Converted(g, d)
<1>1. /\ r.states = States(d, [n \in DOMAIN g.nodes |-> StateStatus(g, n)])
      /\ r.tactics = [i \in DOMAIN g.edges |->
                        TacticEdge(g.edges[i].source, EdgeResult(g.edges[i]),
                                   g.edges[i].children, None)]
      /\ r.certificate = (Solved(g) /\ 1 \in KernelClosed(g))
      /\ r.disposition = "proved-pending-replay" => Solved(g) /\ 1 \in KernelClosed(g)
  BY ConvertedParts
<1> HIDE DEF r
<1>2. DOMAIN r.states = DOMAIN g.nodes
  BY <1>1 DEF States
<1>3. \A t \in TacticsOf(r) : /\ IsInjective(t.children)
                              /\ \A c \in DOMAIN t.children : t.children[c] \in DOMAIN r.states
  <2>1. ASSUME NEW i \in DOMAIN g.edges
        PROVE  /\ IsInjective(r.tactics[i].children)
               /\ \A c \in DOMAIN r.tactics[i].children :
                    r.tactics[i].children[c] \in DOMAIN r.states
    <3>1. r.tactics[i].children = g.edges[i].children
      BY <1>1 DEF TacticEdge
    <3>2. QED
      BY <3>1, <1>2, GraphAssumption DEF GraphAssumption, Range
  <2>2. DOMAIN r.tactics = DOMAIN g.edges
    BY <1>1
  <2>3. QED
    BY <2>1, <2>2 DEF TacticsOf
<1>4. TacticFindings(r) = {}
  BY <1>3 DEF TacticFindings
<1>5. CertificateFindings(r) = {}
  BY <1>1 DEF CertificateFindings
<1>6. ASSUME NEW s \in DOMAIN r.states, r.states[s].status = "formally-closed"
      PROVE  \E t \in TacticsOf(r) : t.source = s /\ t.executor_result = "lean-accepted"
  <2>1. r.states[s].status = StateStatus(g, s)
    BY <1>1, <1>2 DEF States
  <2>2. g.nodes[s] \in {"open", "expanded", "solved", "dead"}
    BY <1>2, GraphAssumption DEF GraphAssumption, Range
  <2>3. s \in KernelClosed(g)
    BY <1>6, <2>1, <2>2 DEF StateStatus
  <2>4. PICK i \in DOMAIN g.edges : /\ g.edges[i].status = "solved" /\ g.edges[i].kernel
                                    /\ g.edges[i].source = s
    BY <2>3 DEF KernelClosed
  <2>5. EdgeResult(g.edges[i]) = "lean-accepted"
    BY <2>4 DEF EdgeResult
  <2>6. r.tactics[i] \in TacticsOf(r)
    BY <1>1 DEF TacticsOf
  <2>7. r.tactics[i].source = s /\ r.tactics[i].executor_result = "lean-accepted"
    BY <1>1, <2>4, <2>5 DEF TacticEdge
  <2>8. QED
    BY <2>6, <2>7
<1>7. finding \in ClosureFindings(r)
  BY <1>4, <1>5 DEF validate_formal_search_result, r
<1>8. PICK s \in DOMAIN r.states :
        /\ r.states[s].status = "formally-closed"
        /\ finding \in {<<"executor-failure-as-success", s>>, <<"heuristic-closure-attempt", s>>}
  BY <1>7 DEF ClosureFindings
<1>9. QED
  BY <1>6, <1>8 DEF r

\* What the fake makes up: states that are open or failed, tactics on them.
LEMMA BuiltParts ==
  ASSUME NEW d \in EMITTABLE_DISPOSITIONS, NEW goal
  PROVE  LET r == build_result(d, goal)
         IN /\ r.disposition = d
            /\ r.certificate = (d = "proved-pending-replay")
            /\ r.states \in {<<>>, States(goal, <<"open">>), States(goal, <<"failed">>),
                             States(goal, <<"open", "open">>),
                             States(goal, <<"open", "open", "open">>)}
            /\ \/ r.tactics = <<>>
               \/ r.tactics = <<TacticEdge(1, "lean-accepted", <<>>, None)>>
               \/ r.tactics = <<TacticEdge(1, "lean-rejected", <<>>, "apply-failure")>>
               \/ /\ r.tactics = <<TacticEdge(1, "lean-accepted", <<2, 3>>, None)>>
                  /\ r.states = States(goal, <<"open", "open", "open">>)
            /\ \/ r.frontier = <<>>
               \/ r.frontier = <<2>> /\ r.states = States(goal, <<"open", "open">>)
               \/ r.frontier = <<2, 3>> /\ r.states = States(goal, <<"open", "open", "open">>)
            /\ \/ r.obstructions = <<>>
               \/ r.obstructions = <<Obstruction(1, "likely-false", <<1>>)>>
               \/ r.obstructions = <<Obstruction(1, "missing-lemma", <<2>>)>>
<1>1. CASE d = "proved-pending-replay"
  BY <1>1 DEF build_result, Result
<1>2. CASE d = "counterexample"
  BY <1>2 DEF build_result, Result
<1>3. CASE d = "stagnated"
  BY <1>3 DEF build_result, Result
<1>4. CASE d = "budget-exhausted"
  BY <1>4 DEF build_result, Result
<1>5. CASE d \in {"invalid-request", "environment-error", "internal-error"}
  BY <1>5 DEF build_result, Result
<1>6. QED
  BY <1>1, <1>2, <1>3, <1>4, <1>5 DEF EMITTABLE_DISPOSITIONS

\* So the validators find nothing.
LEMMA BuiltIsSound ==
  ASSUME NEW d \in EMITTABLE_DISPOSITIONS, NEW goal
  PROVE  validate_formal_search_result(build_result(d, goal)) = {}
<1> DEFINE r == build_result(d, goal)
<1>0. /\ r.disposition = d
      /\ r.certificate = (d = "proved-pending-replay")
      /\ r.states \in {<<>>, States(goal, <<"open">>), States(goal, <<"failed">>),
                       States(goal, <<"open", "open">>),
                       States(goal, <<"open", "open", "open">>)}
      /\ \/ r.tactics = <<>>
         \/ \E result, family : r.tactics = <<TacticEdge(1, result, <<>>, family)>>
         \/ /\ r.tactics = <<TacticEdge(1, "lean-accepted", <<2, 3>>, None)>>
            /\ r.states = States(goal, <<"open", "open", "open">>)
  BY BuiltParts
<1> HIDE DEF r
<1>1. CertificateFindings(r) = {}
  BY <1>0 DEF CertificateFindings
<1>2. \A s \in DOMAIN r.states : r.states[s].status # "formally-closed"
  BY <1>0 DEF States
<1>3. ClosureFindings(r) = {}
  BY <1>2 DEF ClosureFindings
<1>4. ASSUME NEW t \in TacticsOf(r)
      PROVE  /\ IsInjective(t.children)
             /\ \A c \in DOMAIN t.children : t.children[c] \in DOMAIN r.states
  <2>1. PICK i \in DOMAIN r.tactics : t = r.tactics[i]
    BY DEF TacticsOf
  <2>2. CASE t.children = <<>>
    BY <2>2 DEF IsInjective
  <2>3. CASE t.children = <<2, 3>> /\ r.states = States(goal, <<"open", "open", "open">>)
    BY <2>3 DEF States, IsInjective
  <2>4. CASE \E result, family : r.tactics = <<TacticEdge(1, result, <<>>, family)>>
    <3>1. PICK result, family : r.tactics = <<TacticEdge(1, result, <<>>, family)>>
      BY <2>4
    <3>2. t.children = <<>>
      BY <2>1, <3>1 DEF TacticEdge
    <3>3. QED
      BY <2>2, <3>2
  <2>5. CASE /\ r.tactics = <<TacticEdge(1, "lean-accepted", <<2, 3>>, None)>>
             /\ r.states = States(goal, <<"open", "open", "open">>)
    <3>1. t.children = <<2, 3>>
      BY <2>1, <2>5 DEF TacticEdge
    <3>2. QED
      BY <2>3, <2>5, <3>1
  <2>6. QED
    BY <1>0, <2>1, <2>4, <2>5
<1>5. TacticFindings(r) = {}
  BY <1>4 DEF TacticFindings
<1>6. QED
  BY <1>1, <1>3, <1>5 DEF validate_formal_search_result, r

\* A result that reports a failure is empty.
LEMMA FailureIsSound ==
  ASSUME NEW d, d # "proved-pending-replay"
  PROVE  validate_formal_search_result(Result(d)) = {}
<1> DEFINE r == Result(d)
<1>1. /\ r.states = <<>> /\ r.tactics = <<>> /\ r.disposition = d /\ r.certificate = FALSE
  BY DEF Result
<1>2. TacticsOf(r) = {} /\ DOMAIN r.states = {}
  BY <1>1 DEF TacticsOf
<1> HIDE DEF r
<1>3. TacticFindings(r) = {}
  BY <1>2 DEF TacticFindings
<1>4. ClosureFindings(r) = {}
  BY <1>2 DEF ClosureFindings
<1>5. CertificateFindings(r) = {}
  BY <1>1 DEF CertificateFindings
<1>6. QED
  BY <1>3, <1>4, <1>5 DEF validate_formal_search_result, r

\* Whatever graph the reasoner returns, with whatever tactics, splits and fallbacks, the
\* adapter's result is sound up to closings that a tactic Lean accepted stands behind, and
\* so is what the fake makes up (AnswersAreSound).
THEOREM ResultsAreSound == Spec => []AnswersAreSound
<1>1. AnswersAreSound
  <2> SUFFICES ASSUME NEW d \in Decls, NEW answer \in StartAnswers(Id("fd", d)),
                      answer.result \notin Payloads,
                      NEW finding \in validate_formal_search_result(answer.result)
               PROVE  /\ finding[1] \in {"executor-failure-as-success", "heuristic-closure-attempt"}
                      /\ \E t \in TacticsOf(answer.result) :
                           t.source = finding[2] /\ t.executor_result = "lean-accepted"
    BY DEF AnswersAreSound
  <2>1. \/ \E f \in {"invalid-request", "internal-error"} : answer.result = Result(f)
        \/ \E e \in EMITTABLE_DISPOSITIONS : \E goal : answer.result = build_result(e, goal)
        \/ \E g \in Graphs : \E goal : answer.result = Converted(g, goal)
    BY DEF StartAnswers, Scripted, SearchedFor, Answer
  <2>2. CASE \E f \in {"invalid-request", "internal-error"} : answer.result = Result(f)
    BY <2>2, FailureIsSound
  <2>3. CASE \E e \in EMITTABLE_DISPOSITIONS : \E goal : answer.result = build_result(e, goal)
    BY <2>3, BuiltIsSound
  <2>4. CASE \E g \in Graphs : \E goal : answer.result = Converted(g, goal)
    BY <2>4, ConvertedIsSound
  <2>5. QED
    BY <2>1, <2>2, <2>3, <2>4
<1>2. QED
  BY <1>1, PTL


(***************************************************************************)
(* Lists, and what a list of ops makes: nodes under ids of its own, with   *)
(* their edges.                                                            *)
(***************************************************************************)

\* A list is a sequence over whatever holds its values.
LEMMA ListFacts ==
  ASSUME NEW s, IsList(s)
  PROVE  /\ Len(s) \in Nat /\ DOMAIN s = 1..Len(s) /\ Listed(s)
         /\ \A X : Range(s) \subseteq X => s \in Seq(X)
<1>1. Len(s) \in Nat /\ DOMAIN s = 1..Len(s)
  BY DEF IsList
<1>2. ASSUME NEW X, Range(s) \subseteq X PROVE s \in Seq(X)
  BY <1>2 DEF IsList
<1>3. QED
  BY <1>1, <1>2 DEF Listed

\* Sequences are lists.
LEMMA SeqIsList ==
  ASSUME NEW X, NEW s \in Seq(X)
  PROVE  IsList(s) /\ Range(s) \subseteq X
<1>1. Range(s) \subseteq X
  BY DEF Range
<1>2. s \in [1..Len(s) -> Range(s)]
  BY DEF Range
<1>3. Len(s) \in Nat
  OBVIOUS
<1>4. QED
  BY <1>1, <1>2, <1>3, SeqDef DEF IsList

\* A function on 1..n is a list of length n.
LEMMA MadeList ==
  ASSUME NEW s, NEW n \in Nat, DOMAIN s = 1..n, s = [i \in 1..n |-> s[i]]
  PROVE  IsList(s) /\ Len(s) = n
<1>1. s \in [1..n -> Range(s)]
  BY DEF Range
<1>2. s \in Seq(Range(s))
  BY <1>1, SeqDef
<1>3. QED
  BY <1>1, <1>2, LenProperties DEF IsList

\* Joining two lists.
LEMMA Concat ==
  ASSUME NEW s, NEW t, IsList(s), IsList(t)
  PROVE  /\ IsList(s \o t)
         /\ Len(s \o t) = Len(s) + Len(t)
         /\ \A i \in DOMAIN (s \o t) :
              \/ i \in DOMAIN s /\ (s \o t)[i] = s[i]
              \/ i - Len(s) \in DOMAIN t /\ i \notin DOMAIN s /\ (s \o t)[i] = t[i - Len(s)]
         /\ \A i \in DOMAIN s : i \in DOMAIN (s \o t) /\ (s \o t)[i] = s[i]
         /\ \A i \in DOMAIN t : i + Len(s) \in DOMAIN (s \o t) /\ (s \o t)[i + Len(s)] = t[i]
         /\ Range(s \o t) = Range(s) \cup Range(t)
<1> DEFINE X == Range(s) \cup Range(t)
<1>1. s \in Seq(X) /\ t \in Seq(X)
  BY ListFacts
<1> HIDE DEF X
<1>2. /\ s \o t \in Seq(X) /\ Len(s \o t) = Len(s) + Len(t)
      /\ \A i \in 1..(Len(s) + Len(t)) : (s \o t)[i] = IF i <= Len(s) THEN s[i] ELSE t[i - Len(s)]
  BY <1>1
<1>3. /\ IsList(s \o t) /\ DOMAIN (s \o t) = 1..(Len(s) + Len(t))
      /\ DOMAIN s = 1..Len(s) /\ DOMAIN t = 1..Len(t) /\ Len(s) \in Nat /\ Len(t) \in Nat
  <2>1. IsList(s \o t)
    BY <1>2, SeqIsList
  <2>2. QED
    BY <2>1, <1>2, ListFacts
<1> DEFINE w == s \o t
<1>4. \A i \in DOMAIN w :
              \/ i \in DOMAIN s /\ w[i] = s[i]
              \/ i - Len(s) \in DOMAIN t /\ i \notin DOMAIN s /\ w[i] = t[i - Len(s)]
  BY <1>2, <1>3
<1>5. \A i \in DOMAIN s : i \in DOMAIN w /\ w[i] = s[i]
  BY <1>2, <1>3
<1>6. \A i \in DOMAIN t : i + Len(s) \in DOMAIN w /\ w[i + Len(s)] = t[i]
  BY <1>2, <1>3
<1> HIDE DEF w
<1>7. Range(w) = Range(s) \cup Range(t)
  <2>1. Range(w) \subseteq Range(s) \cup Range(t)
    BY <1>4 DEF Range
  <2>2. Range(s) \subseteq Range(w)
    BY <1>5 DEF Range
  <2>3. Range(t) \subseteq Range(w)
    BY <1>6 DEF Range
  <2>4. QED
    BY <2>1, <2>2, <2>3
<1>8. QED
  BY <1>2, <1>3, <1>4, <1>5, <1>6, <1>7 DEF w

\* Induction on the naturals, for a set instead of a predicate.
LEMMA Counting ==
  ASSUME NEW S \in SUBSET Nat, 0 \in S, \A n \in S : n + 1 \in S
  PROVE  \A n \in Nat : n \in S
<1> SUFFICES ASSUME Nat \ S # {}
             PROVE  FALSE
  OBVIOUS
<1>1. IsWellFoundedOn(OpToRel(<, Nat), Nat)
  BY NatLessThanWellFounded
<1>2. PICK x \in Nat \ S : \A y \in Nat \ S : ~ (<<y, x>> \in OpToRel(<, Nat))
  <2> DEFINE T == Nat \ S
  <2>1. T \subseteq Nat /\ T # {}
    OBVIOUS
  <2> HIDE DEF T
  <2>2. \E x \in T : \A y \in T : ~ (<<y, x>> \in OpToRel(<, Nat))
    BY <1>1, <2>1, WFMin
  <2>3. QED
    BY <2>2 DEF T
<1>3. x \in Nat /\ x # 0 /\ x - 1 \in Nat /\ x - 1 < x
  OBVIOUS
<1>4. x - 1 \in S
  BY <1>2, <1>3 DEF OpToRel
<1>5. (x - 1) + 1 = x
  BY <1>3
<1>6. QED
  BY <1>2, <1>4, <1>5

\* Flattening: the lists that are joined one after the other.
LEMMA FlattenDef ==
  ASSUME NEW seqs, IsList(seqs), \A i \in DOMAIN seqs : IsList(seqs[i]), Len(seqs) # 0
  PROVE  \E flat : /\ flat[1] = seqs[1]
                   /\ \A i \in 2..Len(seqs) : flat[i] = flat[i-1] \o seqs[i]
                   /\ FlattenSeq(seqs) = flat[Len(seqs)]
<1> DEFINE Step(f, i) == IF i = 1 THEN seqs[i] ELSE f[i-1] \o seqs[i]
<1> DEFINE Is(f, n) == f = [i \in 1..n |-> Step(f, i)]
<1> DEFINE S == {n \in Nat : \E f : Is(f, n)}
<1>1. 0 \in S
  <2>1. Is([i \in 1..0 |-> 0], 0)
    OBVIOUS
  <2>2. QED
    BY <2>1
<1>2. ASSUME NEW n \in S PROVE n + 1 \in S
  <2>1. PICK f : Is(f, n)
    OBVIOUS
  <2> DEFINE g == [i \in 1..(n+1) |-> IF i <= n THEN f[i] ELSE Step(f, i)]
  <2>2. \A i \in 1..(n+1) : g[i] = Step(g, i)
    <3> SUFFICES ASSUME NEW i \in 1..(n+1) PROVE g[i] = Step(g, i)
      OBVIOUS
    <3>1. Step(g, i) = Step(f, i)
      OBVIOUS
    <3>2. i <= n => f[i] = Step(f, i)
      <4> HIDE DEF Step
      <4>1. i <= n => i \in 1..n
        OBVIOUS
      <4>2. QED
        BY <2>1, <4>1
    <3>3. QED
      BY <3>1, <3>2
  <2>3. Is(g, n+1)
    BY <2>2
  <2> HIDE DEF Is, g
  <2>4. QED
    BY <2>3
<1>3. Len(seqs) \in S
  <2> HIDE DEF S
  <2>1. S \in SUBSET Nat
    BY DEF S
  <2>2. QED
    BY <1>1, <1>2, <2>1, Counting, ListFacts
<1>4. \E f : Is(f, Len(seqs))
  BY <1>3
<1> DEFINE flat == CHOOSE f : Is(f, Len(seqs))
<1>5. Is(flat, Len(seqs))
  BY <1>4
<1>6. FlattenSeq(seqs) = flat[Len(seqs)]
  BY DEF FlattenSeq
<1> HIDE DEF flat
<1>7. Len(seqs) \in Nat /\ 1 \in 1..Len(seqs)
  BY ListFacts
<1>8. flat[1] = seqs[1] /\ \A i \in 2..Len(seqs) : flat[i] = flat[i-1] \o seqs[i]
  <2>1. \A i \in 1..Len(seqs) : flat[i] = Step(flat, i)
    <3> HIDE DEF Step
    <3>1. QED
      BY <1>5
  <2>2. flat[1] = seqs[1]
    <3>1. flat[1] = Step(flat, 1)
      BY <2>1, <1>7
    <3>2. QED
      BY <3>1
  <2>3. ASSUME NEW i \in 2..Len(seqs) PROVE flat[i] = flat[i-1] \o seqs[i]
    <3>1. flat[i] = Step(flat, i) /\ i # 1
      BY <2>1, <1>7
    <3>2. QED
      BY <3>1
  <2>4. QED
    BY <2>2, <2>3
<1>9. QED
  BY <1>6, <1>8

\* What a flattened list holds is what the lists hold.
LEMMA FlattenList ==
  ASSUME NEW seqs, IsList(seqs), \A i \in DOMAIN seqs : IsList(seqs[i])
  PROVE  /\ IsList(FlattenSeq(seqs))
         /\ Range(FlattenSeq(seqs)) = UNION {Range(seqs[i]) : i \in DOMAIN seqs}
<1>0. Len(seqs) \in Nat /\ DOMAIN seqs = 1..Len(seqs)
  BY ListFacts
<1>1. CASE Len(seqs) = 0
  <2>1. FlattenSeq(seqs) = seqs /\ DOMAIN seqs = {}
    BY <1>0, <1>1 DEF FlattenSeq
  <2>2. QED
    BY <2>1 DEF Range
<1>2. CASE Len(seqs) # 0
  <2>1. PICK flat : /\ flat[1] = seqs[1]
                    /\ \A i \in 2..Len(seqs) : flat[i] = flat[i-1] \o seqs[i]
                    /\ FlattenSeq(seqs) = flat[Len(seqs)]
    BY <1>2, FlattenDef
  <2> DEFINE Good(n) == /\ IsList(flat[n])
                        /\ Range(flat[n]) = UNION {Range(seqs[i]) : i \in 1..n}
  <2> DEFINE S == {n \in Nat : n \in 1..Len(seqs) => Good(n)}
  <2>2. 0 \in S
    OBVIOUS
  <2>3. ASSUME NEW n \in S PROVE n + 1 \in S
    <3> SUFFICES ASSUME n + 1 \in 1..Len(seqs) PROVE Good(n + 1)
      OBVIOUS
    <3>1. CASE n = 0
      <4>1. 1..1 = {1}
        OBVIOUS
      <4>2. UNION {Range(seqs[i]) : i \in 1..1} = Range(seqs[1])
        BY <4>1
      <4>3. QED
        BY <2>1, <3>1, <4>2, <1>0
    <3>2. CASE n # 0
      <4>1. n \in 1..Len(seqs) /\ n + 1 \in 2..Len(seqs) /\ (n + 1) - 1 = n
        BY <3>2, <1>0
      <4>2. Good(n)
        BY <4>1
      <4>3. flat[n + 1] = flat[n] \o seqs[n + 1]
        BY <2>1, <4>1
      <4>4. IsList(seqs[n + 1])
        BY <1>0
      <4>5. IsList(flat[n + 1]) /\ Range(flat[n + 1]) = Range(flat[n]) \cup Range(seqs[n + 1])
        BY <4>2, <4>3, <4>4, Concat
      <4>6. 1..(n + 1) = (1..n) \cup {n + 1}
        BY <4>1
      <4>7. UNION {Range(seqs[i]) : i \in 1..(n + 1)} =
              (UNION {Range(seqs[i]) : i \in 1..n}) \cup Range(seqs[n + 1])
        BY <4>6, Zenon
      <4>8. QED
        BY <4>2, <4>5, <4>7
    <3>3. QED
      BY <3>1, <3>2
  <2> HIDE DEF S
  <2>4. S \in SUBSET Nat
    BY DEF S
  <2>5. Len(seqs) \in S
    BY <1>0, <2>2, <2>3, <2>4, Counting
  <2>6. Good(Len(seqs))
    BY <1>0, <1>2, <2>5 DEF S
  <2>7. QED
    BY <2>1, <2>6, <1>0
<1>3. QED
  BY <1>1, <1>2

\* What a list of ops makes: each op writes to a node of v, creates one of the nodes O,
\* which v has not, or joins a node the list creates; and creates it once.
OwnerOf(op) == <<op.edge_id[1], op.edge_id[2], op.edge_id[3]>>

OpIsMade(v, s, O, i) ==
  \/ s[i].op = "set_field" /\ s[i].id \in DOMAIN v.nodes
  \/ s[i].op = "upsert_node" /\ s[i].id \in O \ DOMAIN v.nodes
     /\ s[i].label = LabelOfPrefix(s[i].id[2]) /\ s[i].label # "Claim" /\ IsMap(s[i].fields)
  \/ s[i].op = "add_edge" /\ \E j \in DOMAIN s : s[j].op = "upsert_node" /\ s[j].id = OwnerOf(s[i])

OnceMade(s, i, j) ==
  /\ s[i].op = "upsert_node" /\ s[j].op = "upsert_node" /\ s[i].id = s[j].id => i = j
  /\ s[i].op = "add_edge" /\ s[j].op = "add_edge" /\ s[i].edge_id = s[j].edge_id => i = j

Makes(v, s, O) ==
  /\ IsList(s)
  /\ \A i \in DOMAIN s : OpIsMade(v, s, O, i)
  /\ \A i, j \in DOMAIN s : OnceMade(s, i, j)

\* An edge that is made hangs on a node of the graph or on one the list creates.
LEMMA MadeOwner ==
  ASSUME NEW v, NEW s, NEW O, Makes(v, s, O), NEW i \in DOMAIN s
  PROVE  /\ s[i].op \in {"set_field", "upsert_node", "add_edge"}
         /\ s[i].op = "upsert_node" => s[i].id \in O \ DOMAIN v.nodes /\ IsMap(s[i].fields)
         /\ s[i].op = "add_edge" => OwnerOf(s[i]) \in O
BY DEF Makes, OpIsMade

\* Two lists, of ids that have nothing in common.
LEMMA MakesBoth ==
  ASSUME NEW v, NEW s, NEW t, NEW O, NEW P, Makes(v, s, O), Makes(v, t, P), O \cap P = {}
  PROVE  Makes(v, s \o t, O \cup P)
<1> DEFINE w == s \o t
<1>0. IsList(s) /\ IsList(t)
  BY DEF Makes
<1>a. DOMAIN s = 1..Len(s) /\ DOMAIN t = 1..Len(t) /\ Len(s) \in Nat /\ Len(t) \in Nat
  BY <1>0, ListFacts
<1>1. /\ IsList(w)
      /\ \A i \in DOMAIN w :
              \/ i \in DOMAIN s /\ w[i] = s[i]
              \/ i - Len(s) \in DOMAIN t /\ i \notin DOMAIN s /\ w[i] = t[i - Len(s)]
      /\ \A i \in DOMAIN s : i \in DOMAIN w /\ w[i] = s[i]
      /\ \A i \in DOMAIN t : i + Len(s) \in DOMAIN w /\ w[i + Len(s)] = t[i]
  BY <1>0, Concat
<1>2. DOMAIN w \subseteq Nat
  BY <1>1, ListFacts
<1> HIDE DEF w
<1>3. ASSUME NEW i \in DOMAIN w PROVE OpIsMade(v, w, O \cup P, i)
  <2>1. CASE i \in DOMAIN s /\ w[i] = s[i]
    <3>1. OpIsMade(v, s, O, i)
      BY <2>1 DEF Makes
    <3>2. QED
      BY <2>1, <3>1, <1>1 DEF OpIsMade
  <2>2. CASE i - Len(s) \in DOMAIN t /\ w[i] = t[i - Len(s)]
    <3>1. OpIsMade(v, t, P, i - Len(s))
      BY <2>2 DEF Makes
    <3> DEFINE k == i - Len(s)
    <3> HIDE DEF k
    <3>2. \A j \in DOMAIN t : \E l \in DOMAIN w : w[l] = t[j]
      BY <1>1
    <3>3. OpIsMade(v, t, P, k) /\ w[i] = t[k]
      BY <2>2, <3>1 DEF k
    <3>4. QED
      BY <3>2, <3>3 DEF OpIsMade
  <2>3. QED
    BY <1>1, <2>1, <2>2
<1>4. ASSUME NEW i \in DOMAIN w, NEW j \in DOMAIN w PROVE OnceMade(w, i, j)
  <2>1. CASE i \in DOMAIN s /\ j \in DOMAIN s
    BY <1>1, <2>1 DEF OnceMade, Makes
  <2>2. CASE i \notin DOMAIN s /\ j \notin DOMAIN s
    <3>1. /\ i - Len(s) \in DOMAIN t /\ w[i] = t[i - Len(s)]
          /\ j - Len(s) \in DOMAIN t /\ w[j] = t[j - Len(s)]
      BY <1>1, <2>2
    <3>2. OnceMade(t, i - Len(s), j - Len(s))
      BY <3>1 DEF Makes
    <3>3. i - Len(s) = j - Len(s) => i = j
      BY <1>2, <1>a
    <3>4. QED
      BY <3>1, <3>2, <3>3 DEF OnceMade
  <2>3. ASSUME NEW a \in DOMAIN s, NEW b \in DOMAIN t
        PROVE  /\ ~ (s[a].op = "upsert_node" /\ t[b].op = "upsert_node" /\ s[a].id = t[b].id)
               /\ ~ (s[a].op = "add_edge" /\ t[b].op = "add_edge" /\ s[a].edge_id = t[b].edge_id)
    <3>1. s[a].edge_id = t[b].edge_id => OwnerOf(s[a]) = OwnerOf(t[b])
      BY DEF OwnerOf
    <3>2. QED
      BY <3>1, MadeOwner
  <2>4. CASE i \in DOMAIN s /\ j \notin DOMAIN s
    BY <1>1, <2>3, <2>4 DEF OnceMade
  <2>5. CASE i \notin DOMAIN s /\ j \in DOMAIN s
    BY <1>1, <2>3, <2>5 DEF OnceMade
  <2>6. QED
    BY <2>1, <2>2, <2>4, <2>5
<1>5. QED
  BY <1>1, <1>3, <1>4 DEF Makes, w

\* A list that makes nodes with fewer ids.
LEMMA MakesMore ==
  ASSUME NEW v, NEW s, NEW O, NEW P, Makes(v, s, O), O \subseteq P
  PROVE  Makes(v, s, P)
  BY DEF Makes, OpIsMade

\* Lists one after the other, each with ids of its own.
LEMMA MakesAll ==
  ASSUME NEW v, NEW seqs, IsList(seqs), NEW O,
         \A i \in DOMAIN seqs : Makes(v, seqs[i], O[i]),
         \A i, j \in DOMAIN seqs : i # j => O[i] \cap O[j] = {},
         NEW made, \A i \in DOMAIN seqs : O[i] \subseteq made
  PROVE  Makes(v, FlattenSeq(seqs), made)
<1>0. Len(seqs) \in Nat /\ DOMAIN seqs = 1..Len(seqs)
  BY ListFacts
<1>1. CASE Len(seqs) = 0
  <2>1. FlattenSeq(seqs) = seqs /\ DOMAIN seqs = {}
    BY <1>0, <1>1 DEF FlattenSeq
  <2>2. QED
    BY <2>1 DEF Makes
<1>2. CASE Len(seqs) # 0
  <2>0. \A i \in DOMAIN seqs : IsList(seqs[i])
    BY DEF Makes
  <2>1. PICK flat : /\ flat[1] = seqs[1]
                    /\ \A i \in 2..Len(seqs) : flat[i] = flat[i-1] \o seqs[i]
                    /\ FlattenSeq(seqs) = flat[Len(seqs)]
    BY <1>2, <2>0, FlattenDef
  <2> DEFINE Good(n) == Makes(v, flat[n], UNION {O[i] : i \in 1..n})
  <2> DEFINE S == {n \in Nat : n \in 1..Len(seqs) => Good(n)}
  <2>2. 0 \in S
    OBVIOUS
  <2>3. ASSUME NEW n \in S PROVE n + 1 \in S
    <3> SUFFICES ASSUME n + 1 \in 1..Len(seqs) PROVE Good(n + 1)
      OBVIOUS
    <3>1. CASE n = 0
      <4>1. 1..1 = {1}
        OBVIOUS
      <4>2. UNION {O[i] : i \in 1..1} = O[1]
        BY <4>1
      <4>3. Makes(v, seqs[1], O[1])
        BY <3>1, <1>0
      <4>4. Good(1)
        BY <2>1, <4>2, <4>3
      <4>5. n + 1 = 1
        BY <3>1
      <4> HIDE DEF Good
      <4>6. QED
        BY <4>4, <4>5
    <3>2. CASE n # 0
      <4>1. n \in 1..Len(seqs) /\ n + 1 \in 2..Len(seqs) /\ (n + 1) - 1 = n
        BY <3>2, <1>0
      <4>2. Good(n)
        BY <4>1
      <4>3. flat[n + 1] = flat[n] \o seqs[n + 1]
        BY <2>1, <4>1
      <4> DEFINE P == UNION {O[i] : i \in 1..n}
      <4>5. P \cap O[n + 1] = {}
        <5>1. \A i \in 1..n : i \in DOMAIN seqs /\ i # n + 1
          BY <4>1, <1>0
        <5>2. n + 1 \in DOMAIN seqs
          BY <1>0
        <5>3. QED
          BY <5>1, <5>2
      <4>6. 1..(n + 1) = (1..n) \cup {n + 1}
        BY <4>1
      <4>7. UNION {O[i] : i \in 1..(n + 1)} = P \cup O[n + 1]
        BY <4>6, Zenon
      <4>9. Makes(v, seqs[n + 1], O[n + 1])
        BY <1>0
      <4> HIDE DEF P
      <4>10. Makes(v, flat[n] \o seqs[n + 1], P \cup O[n + 1])
        <5>1. Makes(v, flat[n], P)
          BY <4>2 DEF P
        <5>2. QED
          BY <5>1, <4>5, <4>9, MakesBoth
      <4>8. QED
        BY <4>3, <4>7, <4>10
    <3>3. QED
      BY <3>1, <3>2
  <2> HIDE DEF S
  <2>4. S \in SUBSET Nat
    BY DEF S
  <2>5. Len(seqs) \in S
    BY <1>0, <2>2, <2>3, <2>4, Counting
  <2>6. Good(Len(seqs))
    BY <1>0, <1>2, <2>5 DEF S
  <2>7. UNION {O[i] : i \in 1..Len(seqs)} \subseteq made
    BY <1>0
  <2>8. QED
    BY <2>1, <2>6, <2>7, <1>0, MakesMore
<1>3. QED
  BY <1>1, <1>2

\* A node's own edges: their ids start with its id, and what follows tells them apart.
Owned(s, id, marks) ==
  /\ IsList(s)
  /\ \A i \in DOMAIN s : s[i].op = "add_edge" /\ OwnerOf(s[i]) = id /\ s[i].edge_id[4] \in marks
  /\ \A i, j \in DOMAIN s : s[i].edge_id = s[j].edge_id => i = j

IsId(id) == id = <<id[1], id[2], id[3]>>

\* Ids of edges that start alike and go on differently are different.
LEMMA MarkedIds ==
  ASSUME NEW id, IsId(id), NEW k, NEW n
  PROVE  /\ Append(id, k) = <<id[1], id[2], id[3], k>>
         /\ id \o <<k, n>> = <<id[1], id[2], id[3], k, n>>
<1> DEFINE a == id[1]
<1> DEFINE b == id[2]
<1> DEFINE c == id[3]
<1>1. id = <<a, b, c>>
  BY DEF IsId
<1> HIDE DEF a, b, c
<1> DEFINE X == {a, b, c, k, n}
<1>2. Append(<<a, b, c>>, k) = <<a, b, c, k>>
  <2>1. <<a, b, c>> \in Seq(X) /\ <<a, b, c, k>> \in Seq(X) /\ k \in X
    OBVIOUS
  <2> DEFINE s == Append(<<a, b, c>>, k)
  <2>2. s \in Seq(X) /\ Len(s) = 4 /\ s[1] = a /\ s[2] = b /\ s[3] = c /\ s[4] = k
    BY <2>1
  <2> HIDE DEF s, X
  <2> DEFINE t == <<a, b, c, k>>
  <2>3. Len(t) = 4 /\ t[1] = a /\ t[2] = b /\ t[3] = c /\ t[4] = k
    OBVIOUS
  <2> HIDE DEF t
  <2>4. \A i \in 1..Len(s) : s[i] = t[i]
    BY <2>2, <2>3
  <2>5. s = t
    BY <2>1, <2>2, <2>3, <2>4, SeqEqual DEF t
  <2>6. QED
    BY <2>5 DEF s, t
<1>3. <<a, b, c>> \o <<k, n>> = <<a, b, c, k, n>>
  <2>1. <<a, b, c>> \in Seq(X) /\ <<k, n>> \in Seq(X) /\ <<a, b, c, k, n>> \in Seq(X)
    OBVIOUS
  <2> DEFINE s == <<a, b, c>> \o <<k, n>>
  <2>2. s \in Seq(X) /\ Len(s) = 5 /\ s[1] = a /\ s[2] = b /\ s[3] = c /\ s[4] = k /\ s[5] = n
    BY <2>1
  <2> HIDE DEF s, X
  <2> DEFINE t == <<a, b, c, k, n>>
  <2>3. Len(t) = 5 /\ t[1] = a /\ t[2] = b /\ t[3] = c /\ t[4] = k /\ t[5] = n
    OBVIOUS
  <2> HIDE DEF t
  <2>4. \A i \in 1..Len(s) : s[i] = t[i]
    BY <2>2, <2>3
  <2>5. s = t
    BY <2>1, <2>2, <2>3, <2>4, SeqEqual DEF t
  <2>6. QED
    BY <2>5 DEF s, t
<1>4. QED
  BY <1>1, <1>2, <1>3 DEF a, b, c

\* Lists of one.
LEMMA OneList ==
  ASSUME NEW x
  PROVE  IsList(<<x>>) /\ Len(<<x>>) = 1 /\ DOMAIN <<x>> = {1} /\ <<x>>[1] = x
<1>1. <<x>> \in Seq({x}) /\ Len(<<x>>) = 1 /\ <<x>>[1] = x
  OBVIOUS
<1>2. IsList(<<x>>)
  BY <1>1, SeqIsList
<1>3. DOMAIN <<x>> = 1..1
  BY <1>1, <1>2, ListFacts
<1>4. QED
  BY <1>1, <1>2, <1>3

\* No edges.
LEMMA OwnedNone ==
  ASSUME NEW id, NEW marks
  PROVE  Owned(<<>>, id, marks)
  BY DEF Owned, IsList

\* One edge, of a mark nothing else has.
LEMMA OwnedOne ==
  ASSUME NEW id, IsId(id), NEW mark, NEW rel, NEW src, NEW dst, NEW index
  PROVE  Owned(<<AddEdge(rel, src, dst, Append(id, mark), index)>>, id, {mark})
<1> DEFINE s == <<AddEdge(rel, src, dst, Append(id, mark), index)>>
<1>1. IsList(s) /\ DOMAIN s = {1}
  BY OneList
<1>2. s[1].op = "add_edge" /\ s[1].edge_id = <<id[1], id[2], id[3], mark>>
  BY MarkedIds DEF AddEdge
<1> HIDE DEF s
<1>3. OwnerOf(s[1]) = id /\ s[1].edge_id[4] = mark
  <2>1. OwnerOf(s[1]) = <<id[1], id[2], id[3]>>
    BY <1>2 DEF OwnerOf
  <2>2. QED
    BY <1>2, <2>1 DEF IsId
<1>4. QED
  BY <1>1, <1>2, <1>3 DEF Owned, s

\* Edges numbered from 0, one for each of a list.
LEMMA OwnedMany ==
  ASSUME NEW id, IsId(id), NEW mark, NEW s, IsList(s),
         \A i \in DOMAIN s : s[i].op = "add_edge" /\ s[i].edge_id = id \o <<mark, i - 1>>
  PROVE  Owned(s, id, {mark})
<1>1. ASSUME NEW i \in DOMAIN s
      PROVE  /\ s[i].op = "add_edge" /\ s[i].edge_id = <<id[1], id[2], id[3], mark, i - 1>>
             /\ OwnerOf(s[i]) = id /\ s[i].edge_id[4] = mark /\ s[i].edge_id[5] = i - 1
  <2>1. s[i].op = "add_edge" /\ s[i].edge_id = <<id[1], id[2], id[3], mark, i - 1>>
    BY MarkedIds
  <2>2. OwnerOf(s[i]) = <<id[1], id[2], id[3]>>
    BY <2>1 DEF OwnerOf
  <2>3. QED
    BY <2>1, <2>2 DEF IsId
<1>2. ASSUME NEW i \in DOMAIN s, NEW j \in DOMAIN s, s[i].edge_id = s[j].edge_id PROVE i = j
  <2>1. i - 1 = j - 1
    BY <1>1, <1>2
  <2>2. i \in Nat /\ j \in Nat
    BY ListFacts
  <2>3. QED
    BY <2>1, <2>2
<1>3. QED
  BY <1>1, <1>2 DEF Owned

\* Edges after edges.
LEMMA OwnedBoth ==
  ASSUME NEW id, NEW s, NEW t, NEW marks, NEW others, Owned(s, id, marks), Owned(t, id, others),
         marks \cap others = {}
  PROVE  Owned(s \o t, id, marks \cup others)
<1> DEFINE w == s \o t
<1>0. IsList(s) /\ IsList(t)
  BY DEF Owned
<1>1. /\ IsList(w) /\ Len(s) \in Nat /\ DOMAIN w \subseteq Nat
      /\ \A i \in DOMAIN w :
              \/ i \in DOMAIN s /\ w[i] = s[i]
              \/ i - Len(s) \in DOMAIN t /\ i \notin DOMAIN s /\ w[i] = t[i - Len(s)]
  <2>1. IsList(w)
    BY <1>0, Concat
  <2>2. QED
    BY <1>0, <2>1, Concat, ListFacts
<1> HIDE DEF w
<1>2. ASSUME NEW i \in DOMAIN w
      PROVE  w[i].op = "add_edge" /\ OwnerOf(w[i]) = id /\ w[i].edge_id[4] \in marks \cup others
  BY <1>1 DEF Owned
<1>3. ASSUME NEW i \in DOMAIN w, NEW j \in DOMAIN w, w[i].edge_id = w[j].edge_id PROVE i = j
  <2>1. CASE i \in DOMAIN s /\ j \in DOMAIN s
    BY <1>1, <1>3, <2>1 DEF Owned
  <2>2. CASE i \notin DOMAIN s /\ j \notin DOMAIN s
    <3>1. i - Len(s) = j - Len(s)
      BY <1>1, <1>3, <2>2 DEF Owned
    <3>2. QED
      BY <1>1, <3>1
  <2>3. ASSUME NEW a \in DOMAIN s, NEW b \in DOMAIN t PROVE s[a].edge_id # t[b].edge_id
    BY DEF Owned
  <2>4. QED
    BY <1>1, <1>3, <2>1, <2>2, <2>3
<1>4. QED
  BY <1>1, <1>2, <1>3 DEF Owned, w

\* Edges that are there if a condition holds.
LEMMA OwnedWhen ==
  ASSUME NEW id, NEW s, NEW marks, Owned(s, id, marks), NEW condition
  PROVE  Owned(When(condition, s), id, marks)
  BY OwnedNone DEF When

\* A node and its edges.
LEMMA MakesNode ==
  ASSUME NEW v, NEW id, NEW label, label = LabelOfPrefix(id[2]), label # "Claim",
         id \notin DOMAIN v.nodes, NEW fields, IsMap(fields),
         NEW s, NEW marks, Owned(s, id, marks)
  PROVE  Makes(v, <<UpsertNode(label, id, fields)>> \o s, {id})
<1> DEFINE u == <<UpsertNode(label, id, fields)>>
<1> DEFINE w == u \o s
<1>1. /\ IsList(u) /\ Len(u) = 1 /\ DOMAIN u = {1}
      /\ u[1].op = "upsert_node" /\ u[1].id = id /\ u[1].label = label /\ u[1].fields = fields
  BY OneList DEF UpsertNode
<1>2. IsList(s)
  BY DEF Owned
<1> HIDE DEF u
<1>3. /\ IsList(w)
      /\ \A i \in DOMAIN w :
              \/ i = 1 /\ w[i] = u[1]
              \/ i - 1 \in DOMAIN s /\ i # 1 /\ w[i] = s[i - 1]
      /\ 1 \in DOMAIN w /\ w[1] = u[1]
  <2>1. /\ IsList(w)
        /\ \A i \in DOMAIN w :
              \/ i \in DOMAIN u /\ w[i] = u[i]
              \/ i - Len(u) \in DOMAIN s /\ i \notin DOMAIN u /\ w[i] = s[i - Len(u)]
        /\ \A i \in DOMAIN u : i \in DOMAIN w /\ w[i] = u[i]
    BY <1>1, <1>2, Concat
  <2> HIDE DEF w
  <2>2. QED
    BY <2>1, <1>1
<1>4. DOMAIN w \subseteq Nat
  BY <1>3, ListFacts
<1> HIDE DEF w
<1>5. ASSUME NEW i \in DOMAIN w PROVE OpIsMade(v, w, {id}, i)
  BY <1>1, <1>3 DEF OpIsMade, Owned
<1>6. ASSUME NEW i \in DOMAIN w, NEW j \in DOMAIN w PROVE OnceMade(w, i, j)
  <2>1. CASE i = 1 \/ j = 1
    BY <1>1, <1>3, <2>1 DEF OnceMade, Owned
  <2>2. CASE i # 1 /\ j # 1
    <3>1. i - 1 = j - 1 => i = j
      BY <1>4
    <3>2. QED
      BY <1>3, <2>2, <3>1 DEF OnceMade, Owned
  <2>3. QED
    BY <2>1, <2>2
<1>7. QED
  BY <1>3, <1>5, <1>6 DEF Makes, w, u

\* The empty list.
LEMMA NoneList == IsList(<<>>) /\ Range(<<>>) = {} /\ DOMAIN <<>> = {} /\ Len(<<>>) = 0
<1>1. <<>> \in Seq({}) /\ Len(<<>>) = 0 /\ DOMAIN <<>> = {}
  OBVIOUS
<1>2. Range(<<>>) = {}
  BY <1>1 DEF Range
<1>3. QED
  BY <1>1, <1>2 DEF IsList

\* The empty list makes nothing.
LEMMA MakesNothing ==
  ASSUME NEW v, NEW O
  PROVE  Makes(v, <<>>, O)
  BY NoneList DEF Makes

\* A list that is there if a condition holds.
LEMMA MakesWhen ==
  ASSUME NEW v, NEW s, NEW O, NEW condition, condition => Makes(v, s, O)
  PROVE  Makes(v, When(condition, s), O)
  BY MakesNothing DEF When

\* A write, or a node alone.
LEMMA MakesOne ==
  ASSUME NEW v, NEW O, NEW op,
         \/ op.op = "set_field" /\ op.id \in DOMAIN v.nodes
         \/ op.op = "upsert_node" /\ op.id \in O \ DOMAIN v.nodes
            /\ op.label = LabelOfPrefix(op.id[2]) /\ op.label # "Claim" /\ IsMap(op.fields)
  PROVE  Makes(v, <<op>>, O)
<1> DEFINE s == <<op>>
<1>1. IsList(s) /\ DOMAIN s = {1} /\ s[1] = op
  BY OneList
<1> HIDE DEF s
<1>2. \A i \in DOMAIN s : OpIsMade(v, s, O, i)
  BY <1>1 DEF OpIsMade
<1>3. \A i, j \in DOMAIN s : i = j
  BY <1>1
<1>4. QED
  BY <1>1, <1>2, <1>3 DEF Makes, OnceMade, s

\* Joining is associative.
LEMMA Regroup ==
  ASSUME NEW s, NEW t, NEW u, IsList(s), IsList(t), IsList(u)
  PROVE  (s \o t) \o u = s \o (t \o u)
<1> DEFINE X == Range(s) \cup Range(t) \cup Range(u)
<1>1. s \in Seq(X) /\ t \in Seq(X) /\ u \in Seq(X)
  BY ListFacts
<1> HIDE DEF X
<1>2. QED
  BY <1>1, ConcatAssociative

\* A pair is two lists of one.
LEMMA Pair ==
  ASSUME NEW x, NEW y
  PROVE  <<x, y>> = <<x>> \o <<y>>
<1> DEFINE X == {x, y}
<1> DEFINE s == <<x>> \o <<y>>
<1> DEFINE t == <<x, y>>
<1>1. <<x>> \in Seq(X) /\ <<y>> \in Seq(X) /\ t \in Seq(X) /\ Len(t) = 2 /\ t[1] = x /\ t[2] = y
  OBVIOUS
<1>2. s \in Seq(X) /\ Len(s) = 2 /\ s[1] = x /\ s[2] = y
  BY <1>1
<1> HIDE DEF s, t, X
<1>3. \A i \in 1..Len(s) : s[i] = t[i]
  BY <1>1, <1>2
<1>4. s = t
  BY <1>1, <1>2, <1>3, SeqEqual
<1>5. QED
  BY <1>4 DEF s, t

\* Serials.
LEMMA GreatestOfFinite ==
  ASSUME NEW T \in SUBSET Nat, IsFiniteSet(T), T # {}
  PROVE  Greatest(T) \in T /\ \A y \in T : y <= Greatest(T)
<1> DEFINE Has(U) == \E x \in U : \A y \in U : y <= x
<1> DEFINE S == {n \in Nat : \A U \in SUBSET Nat :
                   IsFiniteSet(U) /\ Cardinality(U) = n /\ U # {} => Has(U)}
<1>1. 0 \in S
  BY FS_EmptySet
<1>2. ASSUME NEW n \in S PROVE n + 1 \in S
  <2> SUFFICES ASSUME NEW U \in SUBSET Nat, IsFiniteSet(U), Cardinality(U) = n + 1, U # {}
               PROVE  Has(U)
    OBVIOUS
  <2>1. PICK x \in U : TRUE
    OBVIOUS
  <2> DEFINE V == U \ {x}
  <2>2. IsFiniteSet(V) /\ Cardinality(V) = n
    <3>1. n \in Nat
      OBVIOUS
    <3>2. IsFiniteSet(V) /\ Cardinality(V) = (n + 1) - 1
      BY <2>1, FS_RemoveElement
    <3>3. QED
      BY <3>1, <3>2
  <2>3. CASE V = {}
    <3>1. \A y \in U : y = x /\ x \in Nat
      BY <2>3
    <3>2. QED
      BY <3>1
  <2>4. CASE V # {}
    <3>1. Has(V)
      BY <2>2, <2>4
    <3>2. PICK z \in V : \A y \in V : y <= z
      BY <3>1
    <3>3. \A y \in U : y \in V \/ y = x
      OBVIOUS
    <3>4. x \in Nat /\ z \in Nat /\ z \in U
      OBVIOUS
    <3>5. CASE x <= z
      <4>1. \A y \in U : y <= z
        BY <3>2, <3>3, <3>5
      <4>2. QED
        BY <3>4, <4>1
    <3>6. CASE z <= x
      <4>1. ASSUME NEW y \in U PROVE y <= x
        <5>1. CASE y \in V
          <6>1. y <= z /\ y \in Nat
            BY <3>2, <5>1
          <6>2. QED
            BY <3>4, <3>6, <6>1
        <5>2. CASE y = x
          BY <5>2, <3>4
        <5>3. QED
          BY <3>3, <5>1, <5>2
      <4>2. QED
        BY <4>1
    <3>7. QED
      BY <3>4, <3>5, <3>6
  <2>5. QED
    BY <2>3, <2>4
<1>3. Cardinality(T) \in S
  <2> HIDE DEF S
  <2>1. S \in SUBSET Nat
    BY DEF S
  <2>2. QED
    BY <1>1, <1>2, <2>1, Counting, FS_CardinalityType
<1>4. Has(T)
  BY <1>3
<1>5. QED
  BY <1>4 DEF Greatest

\* Node ids of the proof, each with a serial.
Numbered(v) ==
  /\ IsFiniteSet(DOMAIN v.nodes)
  /\ \A id \in DOMAIN v.nodes : IsId(id) /\ id[1] = Proof /\ id[3] \in Nat

\* No node has the serial that comes after the greatest.
LEMMA NextSerialIsFree ==
  ASSUME NEW v, Numbered(v), NEW prefix, NEW scope
  PROVE  /\ NextSerial(v, prefix) \in Nat
         /\ <<scope, prefix, NextSerial(v, prefix)>> \notin DOMAIN v.nodes
<1> DEFINE taken == {id[3] : id \in {n \in DOMAIN v.nodes : n[2] = prefix}}
<1> DEFINE T == {0} \cup taken
<1>1. T \in SUBSET Nat
  BY DEF Numbered
<1>2. IsFiniteSet(T)
  <2> DEFINE ids == {n \in DOMAIN v.nodes : n[2] = prefix}
  <2>1. IsFiniteSet(ids)
    BY FS_Subset DEF Numbered
  <2> HIDE DEF ids
  <2>2. IsFiniteSet({id[3] : id \in ids})
    <3> DEFINE serial == [id \in ids |-> id[3]]
    <3>1. serial \in Surjection(ids, {id[3] : id \in ids})
      BY DEF Surjection
    <3>2. QED
      BY <2>1, <3>1, FS_Surjection
  <2>3. IsFiniteSet(taken)
    BY <2>2 DEF ids
  <2> HIDE DEF taken
  <2>4. QED
    BY <2>3, FS_AddElement
<1> DEFINE top == Greatest(T)
<1>3. top \in T /\ \A y \in T : y <= top
  <2> HIDE DEF T
  <2>0. T # {}
    BY DEF T
  <2>1. QED
    BY <1>1, <1>2, <2>0, GreatestOfFinite
<1>4. NextSerial(v, prefix) = 1 + top
  BY DEF NextSerial
<1> HIDE DEF top
<1>5. top \in Nat
  BY <1>1, <1>3
<1>6. 1 + top \notin T
  BY <1>3, <1>5
<1>7. <<scope, prefix, 1 + top>> \notin DOMAIN v.nodes
  BY <1>6
<1>8. QED
  BY <1>4, <1>5, <1>7

-----------------------------------------------------------------------------
(* What each part of formal_result_to_ops makes.                            *)

\* _set_or_advance writes what is there or nothing: it creates no node.
LEMMA AdvanceMakes ==
  ASSUME NEW v, NEW label, NEW id \in DOMAIN v.nodes, NEW status, NEW O
  PROVE  Makes(v, Advance(v, label, id, status), O)
<1> DEFINE op == SetField(label, id, "status", status, Get(v.nodes[id].fields, "status"))
<1>1. op.op = "set_field" /\ op.id = id
  BY DEF SetField
<1>2. Makes(v, <<op>>, O)
  <2> HIDE DEF op
  <2>1. QED
    BY <1>1, MakesOne
<1>3. QED
  BY <1>2, MakesWhen DEF Advance

\* The states of a result, under the scope of the search (formal_result_to_ops).
LEMMA StatesMade ==
  ASSUME NEW v, NEW r, IsList(r.states), \A s \in DOMAIN r.states : IsMap(r.states[s]), NEW scope
  PROVE  Makes(v, StateOps(v, r, scope), {<<scope, "fs", s>> : s \in DOMAIN r.states})
<1> DEFINE id(s) == <<scope, "fs", s>>
<1> DEFINE made(s) == IF id(s) \in DOMAIN v.nodes
                      THEN Advance(v, "FormalState", id(s), r.states[s].status)
                      ELSE <<UpsertNode("FormalState", id(s), r.states[s])>>
<1> DEFINE seqs == [s \in DOMAIN r.states |-> made(s)]
<1> DEFINE O == [s \in DOMAIN r.states |-> {id(s)}]
<1>1. ASSUME NEW s \in DOMAIN r.states PROVE Makes(v, made(s), {id(s)})
  <2>1. CASE id(s) \in DOMAIN v.nodes
    <3> HIDE DEF id
    <3>1. QED
      BY <2>1, AdvanceMakes
  <2>2. CASE id(s) \notin DOMAIN v.nodes
    <3> DEFINE op == UpsertNode("FormalState", id(s), r.states[s])
    <3>1. /\ op.op = "upsert_node" /\ op.id = id(s) /\ op.label = "FormalState"
          /\ IsMap(op.fields) /\ LabelOfPrefix(id(s)[2]) = "FormalState"
      BY DEF UpsertNode, LabelOfPrefix
    <3>2. made(s) = <<op>>
      BY <2>2
    <3> HIDE DEF op, made, id
    <3>3. QED
      BY <2>2, <3>1, <3>2, MakesOne
  <2>3. QED
    BY <2>1, <2>2
<1>2. IsList(seqs) /\ DOMAIN seqs = DOMAIN r.states
  <2> HIDE DEF made
  <2>1. DOMAIN r.states = 1..Len(r.states) /\ Len(r.states) \in Nat
    BY ListFacts
  <2>2. QED
    BY <2>1, MadeList
<1>3. \A s \in DOMAIN seqs : Makes(v, seqs[s], O[s])
  BY <1>1, <1>2
<1>4. \A s, t \in DOMAIN seqs : s # t => O[s] \cap O[t] = {}
  BY <1>2
<1> DEFINE P == {id(s) : s \in DOMAIN r.states}
<1>5. \A s \in DOMAIN seqs : O[s] \subseteq P
  BY <1>2
<1>6. StateOps(v, r, scope) = FlattenSeq(seqs)
  BY DEF StateOps
<1> HIDE DEF seqs, O, P
<1>7. Makes(v, FlattenSeq(seqs), P)
  BY <1>2, <1>3, <1>4, <1>5, MakesAll
<1>8. QED
  BY <1>6, <1>7 DEF P

\* A run that exists only advances: what it searches for was said when it started.
LEMMA RunMade ==
  ASSUME NEW v, NEW r, NEW run, IsId(run), run[2] = "fr", NEW declaration, NEW scope,
         run \in DOMAIN v.nodes => declaration \in EdgeTargets(v, <<>>, run, "SEARCHES") \cup {None}
  PROVE  Makes(v, RunOps(v, r, run, declaration, scope), {run})
<1> DEFINE said == declaration \notin EdgeTargets(v, <<>>, run, "SEARCHES") \cup {None}
<1> DEFINE searches ==
      When(said, <<AddEdge("SEARCHES", run, declaration, Append(run, "searches"), None)>>)
<1>1. CASE run \in DOMAIN v.nodes
  <2> DEFINE a == Advance(v, "FormalRun", run, r.disposition)
  <2>1. searches = <<>>
    BY <1>1 DEF When
  <2>2. RunOps(v, r, run, declaration, scope) = a \o <<>>
    BY <1>1, <2>1 DEF RunOps
  <2>3. Makes(v, a, {run}) /\ Makes(v, <<>>, {})
    BY <1>1, AdvanceMakes, MakesNothing
  <2> HIDE DEF a
  <2>4. Makes(v, a \o <<>>, {run} \cup {})
    BY <2>3, MakesBoth
  <2>5. QED
    BY <2>2, <2>4
<1>2. CASE run \notin DOMAIN v.nodes
  <2> DEFINE fields == [actor |-> "formal-atp", status |-> r.disposition]
  <2> DEFINE u == <<UpsertNode("FormalRun", run, fields)>>
  <2> DEFINE root ==
        When(r.rooted, <<AddEdge("HAS_ROOT", run, <<scope, "fs", 1>>, Append(run, "root"), None)>>)
  <2>1. RunOps(v, r, run, declaration, scope) = (u \o root) \o searches
    BY <1>2 DEF RunOps
  <2>2. Owned(root, run, {"root"}) /\ Owned(searches, run, {"searches"})
    BY OwnedOne, OwnedWhen
  <2> HIDE DEF root, searches
  <2>3. Owned(root \o searches, run, {"root"} \cup {"searches"})
    BY <2>2, OwnedBoth
  <2>4. (u \o root) \o searches = u \o (root \o searches)
    BY <2>2, OneList, Regroup DEF Owned
  <2>7. IsMap(fields)
    BY DEF IsMap
  <2> HIDE DEF fields
  <2>5. Makes(v, u \o (root \o searches), {run})
    <3>1. LabelOfPrefix(run[2]) = "FormalRun"
      BY DEF LabelOfPrefix
    <3>2. QED
      BY <3>1, <1>2, <2>3, <2>7, MakesNode
  <2>6. QED
    BY <2>1, <2>4, <2>5
<1>3. QED
  BY <1>1, <1>2

\* One tactic application, with the children it opens.
LEMMA TacticMade ==
  ASSUME NEW v, NEW t, IsId(t), t[2] = "ta", t \notin DOMAIN v.nodes,
         NEW tactic, IsList(tactic.children), NEW scope
  PROVE  Makes(v, TacticOps(t, tactic, scope), {t})
<1> DEFINE state(s) == <<scope, "fs", s>>
<1> DEFINE fields == AppliedFields(tactic)
<1> DEFINE op == UpsertNode("TacticApplication", t, fields)
<1> DEFINE edge == AddEdge("HAS_TACTIC", state(tactic.source), t, Append(t, "at"), None)
<1> DEFINE req == [c \in DOMAIN tactic.children |->
                     AddEdge("FORMAL_REQUIRES", t, state(tactic.children[c]), t \o <<"req", c - 1>>, c - 1)]
<1> DEFINE closes == When(tactic.children = <<>> /\ tactic.executor_result = "lean-accepted",
                          <<AddEdge("CLOSES_STATE", t, state(tactic.source), Append(t, "closes"), None)>>)
<1>1. TacticOps(t, tactic, scope) = (<<op, edge>> \o req) \o closes
  BY DEF TacticOps
<1>2. Owned(<<edge>>, t, {"at"})
  BY OwnedOne
<1>3. Owned(req, t, {"req"})
  <2>1. \A c \in DOMAIN req : req[c].op = "add_edge" /\ req[c].edge_id = t \o <<"req", c - 1>>
    BY DEF AddEdge
  <2>2. DOMAIN req = DOMAIN tactic.children
    OBVIOUS
  <2>3. /\ DOMAIN req = 1..Len(tactic.children) /\ Len(tactic.children) \in Nat
        /\ req = [i \in 1..Len(tactic.children) |-> req[i]]
    BY <2>2, ListFacts
  <2> HIDE DEF req
  <2>4. IsList(req)
    BY <2>3, MadeList
  <2>5. QED
    BY <2>1, <2>4, OwnedMany
<1>4. Owned(closes, t, {"closes"})
  BY OwnedOne, OwnedWhen
<1>a. IsMap(fields)
  BY DEF IsMap, AppliedFields
<1> HIDE DEF edge, req, closes, fields
<1>5. Owned(<<edge>> \o req, t, {"at"} \cup {"req"})
  BY <1>2, <1>3, OwnedBoth
<1>6. Owned((<<edge>> \o req) \o closes, t, ({"at"} \cup {"req"}) \cup {"closes"})
  BY <1>4, <1>5, OwnedBoth
<1>7. Makes(v, <<op>> \o ((<<edge>> \o req) \o closes), {t})
  <2>1. LabelOfPrefix(t[2]) = "TacticApplication"
    BY DEF LabelOfPrefix
  <2>2. QED
    BY <2>1, <1>6, <1>a, MakesNode
<1>8. (<<op, edge>> \o req) \o closes = <<op>> \o ((<<edge>> \o req) \o closes)
  <2> HIDE DEF op
  <2>1. <<op, edge>> = <<op>> \o <<edge>>
    BY Pair
  <2>2. /\ IsList(<<op>>) /\ IsList(<<edge>>) /\ IsList(req) /\ IsList(closes)
        /\ IsList(<<edge>> \o req)
    BY <1>3, <1>4, <1>5, OneList DEF Owned
  <2>3. (<<op>> \o <<edge>>) \o req = <<op>> \o (<<edge>> \o req)
    BY <2>2, Regroup
  <2>4. (<<op>> \o (<<edge>> \o req)) \o closes = <<op>> \o ((<<edge>> \o req) \o closes)
    BY <2>2, Regroup
  <2>5. QED
    BY <2>1, <2>3, <2>4
<1>9. QED
  BY <1>1, <1>7, <1>8

\* All of them: each has a number of its own.
LEMMA TacticsMade ==
  ASSUME NEW v, NEW r, IsPayload(r), NEW scope
  PROVE  Makes(v, NewTacticOps(v, r, scope), {<<scope, "ta", i>> : i \in DOMAIN r.tactics})
<1> DEFINE id(i) == <<scope, "ta", i>>
<1> DEFINE made(i) == When(id(i) \notin DOMAIN v.nodes, TacticOps(id(i), r.tactics[i], scope))
<1> DEFINE seqs == [i \in DOMAIN r.tactics |-> made(i)]
<1> DEFINE O == [i \in DOMAIN r.tactics |-> {id(i)}]
<1> DEFINE P == {id(i) : i \in DOMAIN r.tactics}
<1>1. ASSUME NEW i \in DOMAIN r.tactics PROVE Makes(v, made(i), {id(i)})
  <2>1. IsList(r.tactics[i].children)
    BY DEF IsPayload
  <2>2. IsId(id(i)) /\ id(i)[2] = "ta"
    BY DEF IsId
  <2> HIDE DEF id
  <2>3. id(i) \notin DOMAIN v.nodes => Makes(v, TacticOps(id(i), r.tactics[i], scope), {id(i)})
    BY <2>1, <2>2, TacticMade
  <2>4. QED
    BY <2>3, MakesWhen
<1>2. IsList(seqs) /\ DOMAIN seqs = DOMAIN r.tactics
  <2> HIDE DEF made
  <2>1. DOMAIN r.tactics = 1..Len(r.tactics) /\ Len(r.tactics) \in Nat
    BY ListFacts DEF IsPayload
  <2>2. QED
    BY <2>1, MadeList
<1>3. \A i \in DOMAIN seqs : Makes(v, seqs[i], O[i])
  BY <1>1, <1>2
<1>4. \A i, j \in DOMAIN seqs : i # j => O[i] \cap O[j] = {}
  BY <1>2
<1>5. \A i \in DOMAIN seqs : O[i] \subseteq P
  BY <1>2
<1>6. NewTacticOps(v, r, scope) = FlattenSeq(seqs)
  BY DEF NewTacticOps
<1> HIDE DEF seqs, O, P
<1>7. Makes(v, FlattenSeq(seqs), P)
  BY <1>2, <1>3, <1>4, <1>5, MakesAll
<1>8. QED
  BY <1>6, <1>7 DEF P

\* A node that comes with an edge from the run and a list of its own edges.
LEMMA MakesRaised ==
  ASSUME NEW v, NEW id, NEW label, label = LabelOfPrefix(id[2]), label # "Claim",
         IsId(id), id \notin DOMAIN v.nodes, NEW fields, IsMap(fields),
         NEW mark, NEW rel, NEW src, NEW s, NEW other, other # mark, Owned(s, id, {other})
  PROVE  Makes(v, <<UpsertNode(label, id, fields),
                    AddEdge(rel, src, id, Append(id, mark), None)>> \o s, {id})
<1> DEFINE op == UpsertNode(label, id, fields)
<1> DEFINE edge == AddEdge(rel, src, id, Append(id, mark), None)
<1>1. Owned(<<edge>>, id, {mark})
  BY OwnedOne
<1> HIDE DEF edge
<1>2. Owned(<<edge>> \o s, id, {mark} \cup {other})
  BY <1>1, OwnedBoth
<1>3. Makes(v, <<op>> \o (<<edge>> \o s), {id})
  BY <1>2, MakesNode
<1>4. <<op, edge>> \o s = <<op>> \o (<<edge>> \o s)
  <2> HIDE DEF op
  <2>1. <<op, edge>> = <<op>> \o <<edge>>
    BY Pair
  <2>2. IsList(<<op>>) /\ IsList(<<edge>>) /\ IsList(s)
    BY OneList DEF Owned
  <2>3. QED
    BY <2>1, <2>2, Regroup
<1>5. QED
  BY <1>3, <1>4 DEF edge

\* Such a list, over the states of a list.
LEMMA OwnedStates ==
  ASSUME NEW id, IsId(id), NEW rel, NEW mark, NEW xs, IsList(xs), NEW scope
  PROVE  Owned([i \in DOMAIN xs |->
                  AddEdge(rel, id, <<scope, "fs", xs[i]>>, id \o <<mark, i - 1>>, None)], id, {mark})
<1> DEFINE s == [i \in DOMAIN xs |->
                   AddEdge(rel, id, <<scope, "fs", xs[i]>>, id \o <<mark, i - 1>>, None)]
<1>1. \A c \in DOMAIN s : s[c].op = "add_edge" /\ s[c].edge_id = id \o <<mark, c - 1>>
  BY DEF AddEdge
<1>2. DOMAIN s = 1..Len(xs) /\ Len(xs) \in Nat /\ s = [i \in 1..Len(xs) |-> s[i]]
  BY ListFacts
<1> HIDE DEF s
<1>3. IsList(s)
  BY <1>2, MadeList
<1>4. Owned(s, id, {mark})
  BY <1>1, <1>3, OwnedMany
<1>5. QED
  BY <1>4 DEF s

\* The checkpoint, with an edge for every state on the frontier.
LEMMA CheckpointMade ==
  ASSUME NEW v, Numbered(v), NEW r, IsList(r.frontier), NEW run, NEW scope, NEW proof
  PROVE  Makes(v, CheckpointOps(v, proof, r, run, scope), {<<proof, "fc", NextSerial(v, "fc")>>})
<1> DEFINE fc == <<proof, "fc", NextSerial(v, "fc")>>
<1> DEFINE fields == [actor |-> "formal-atp", epoch_ms |-> r.epoch]
<1> DEFINE s == [i \in DOMAIN r.frontier |->
                   AddEdge("CHECKPOINT_FRONTIER", fc, <<scope, "fs", r.frontier[i]>>,
                           fc \o <<"frontier", i - 1>>, None)]
<1> DEFINE ops == <<UpsertNode("FormalCheckpoint", fc, fields),
                    AddEdge("HAS_CHECKPOINT", run, fc, Append(fc, "in"), None)>> \o s
<1>1. IsId(fc) /\ fc \notin DOMAIN v.nodes /\ LabelOfPrefix(fc[2]) = "FormalCheckpoint"
  BY NextSerialIsFree DEF IsId, LabelOfPrefix
<1>2. CheckpointOps(v, proof, r, run, scope) = When(r.frontier # <<>>, ops)
  BY DEF CheckpointOps
<1>a. IsMap(fields)
  BY DEF IsMap
<1> HIDE DEF fc, fields
<1>3. Owned(s, fc, {"frontier"})
  BY <1>1, OwnedStates
<1> HIDE DEF s
<1>4. Makes(v, ops, {fc})
  BY <1>1, <1>3, <1>a, MakesRaised
<1>5. QED
  BY <1>2, <1>4, MakesWhen DEF fc

\* The certificate and what it certifies.
LEMMA CertificateMade ==
  ASSUME NEW v, Numbered(v), NEW r, NEW run, NEW declaration, NEW proof
  PROVE  Makes(v, CertificateOps(v, proof, r, run, declaration),
                 {<<proof, "cert", NextSerial(v, "cert")>>})
<1> DEFINE cert == <<proof, "cert", NextSerial(v, "cert")>>
<1> DEFINE fields == [actor |-> "formal-atp", producer_run_id |-> run, status |-> "candidate"]
<1> DEFINE s == When(declaration # None,
                     <<AddEdge("CERTIFIES", cert, declaration, Append(cert, "certifies"), None)>>)
<1> DEFINE ops == <<UpsertNode("Certificate", cert, fields),
                    AddEdge("PRODUCED_CERTIFICATE", run, cert, Append(cert, "produced"), None)>> \o s
<1>1. IsId(cert) /\ cert \notin DOMAIN v.nodes /\ LabelOfPrefix(cert[2]) = "Certificate"
  BY NextSerialIsFree DEF IsId, LabelOfPrefix
<1>2. CertificateOps(v, proof, r, run, declaration) = When(r.certificate, ops)
  BY DEF CertificateOps
<1>a. IsMap(fields)
  BY DEF IsMap
<1> HIDE DEF cert, fields
<1>3. Owned(s, cert, {"certifies"})
  BY <1>1, OwnedOne, OwnedWhen
<1> HIDE DEF s
<1>4. Makes(v, ops, {cert})
  BY <1>1, <1>3, <1>a, MakesRaised
<1>5. QED
  BY <1>2, <1>4, MakesWhen DEF cert

\* The obstructions, each with the states that raise it.
LEMMA ObstructionsMade ==
  ASSUME NEW v, NEW r, IsPayload(r), NEW run, NEW scope, NEW P,
         \A i \in DOMAIN r.obstructions : <<scope, "obs", r.obstructions[i].serial>> \in P
  PROVE  Makes(v, ObstructionOps(v, r, run, scope), P)
<1> DEFINE id(i) == <<scope, "obs", r.obstructions[i].serial>>
<1> DEFINE fields(i) == [kind |-> r.obstructions[i].kind, actor |-> "formal-atp"]
<1> DEFINE at(i) == [s \in DOMAIN r.obstructions[i].states |->
                       AddEdge("AT_STATE", id(i), <<scope, "fs", r.obstructions[i].states[s]>>,
                               id(i) \o <<"state", s - 1>>, None)]
<1> DEFINE ops(i) == <<UpsertNode("Obstruction", id(i), fields(i)),
                       AddEdge("RAISED_OBSTRUCTION", run, id(i), Append(id(i), "raised"), None)>> \o at(i)
<1> DEFINE made(i) == When(id(i) \notin DOMAIN v.nodes, ops(i))
<1> DEFINE seqs == [i \in DOMAIN r.obstructions |-> made(i)]
<1> DEFINE O == [i \in DOMAIN r.obstructions |-> {id(i)}]
<1>6. ObstructionOps(v, r, run, scope) = FlattenSeq(seqs)
  BY DEF ObstructionOps
<1>1. ASSUME NEW i \in DOMAIN r.obstructions PROVE Makes(v, made(i), {id(i)})
  <2>1. IsList(r.obstructions[i].states)
    BY DEF IsPayload
  <2>2. IsId(id(i)) /\ LabelOfPrefix(id(i)[2]) = "Obstruction"
    BY DEF IsId, LabelOfPrefix
  <2>6. IsMap(fields(i))
    BY DEF IsMap
  <2> HIDE DEF id, fields
  <2>3. Owned(at(i), id(i), {"state"})
    BY <2>1, <2>2, OwnedStates
  <2> HIDE DEF at
  <2>4. id(i) \notin DOMAIN v.nodes => Makes(v, ops(i), {id(i)})
    BY <2>2, <2>3, <2>6, MakesRaised
  <2> HIDE DEF ops
  <2>5. QED
    BY <2>4, MakesWhen
<1>2. IsList(seqs) /\ DOMAIN seqs = DOMAIN r.obstructions
  <2> HIDE DEF made
  <2>1. DOMAIN r.obstructions = 1..Len(r.obstructions) /\ Len(r.obstructions) \in Nat
    BY ListFacts DEF IsPayload
  <2>2. QED
    BY <2>1, MadeList
<1> HIDE DEF made
<1>3. \A i \in DOMAIN seqs : Makes(v, seqs[i], O[i])
  BY <1>1, <1>2
<1>4. \A i, j \in DOMAIN seqs : i # j => O[i] \cap O[j] = {}
  BY <1>2 DEF IsPayload
<1>5. \A i \in DOMAIN seqs : O[i] \subseteq P
  BY <1>2
<1> HIDE DEF seqs, O
<1>7. Makes(v, FlattenSeq(seqs), P)
  BY <1>2, <1>3, <1>4, <1>5, MakesAll
<1>8. QED
  BY <1>6, <1>7

\* The ids a result may give to the nodes its proposal creates.
ResultIds(v, proof, r, run, scope) ==
  {<<scope, "fs", s>> : s \in DOMAIN r.states} \cup {run}
  \cup {<<scope, "ta", i>> : i \in DOMAIN r.tactics}
  \cup {<<proof, "fc", NextSerial(v, "fc")>>} \cup {<<proof, "cert", NextSerial(v, "cert")>>}
  \cup {<<scope, "obs", r.obstructions[i].serial>> : i \in DOMAIN r.obstructions}

\* The whole proposal: the parts have ids of their own.
LEMMA ResultMade ==
  ASSUME NEW v, Numbered(v), NEW r, IsPayload(r), NEW run, IsId(run), run[2] = "fr",
         NEW declaration, NEW scope, NEW proof,
         run \in DOMAIN v.nodes => declaration \in EdgeTargets(v, <<>>, run, "SEARCHES") \cup {None}
  PROVE  Makes(v, formal_result_to_ops(v, proof, r, run, declaration, scope),
               ResultIds(v, proof, r, run, scope))
<1> DEFINE A == {<<scope, "fs", s>> : s \in DOMAIN r.states}
<1> DEFINE C == {<<scope, "ta", i>> : i \in DOMAIN r.tactics}
<1> DEFINE D == {<<proof, "fc", NextSerial(v, "fc")>>}
<1> DEFINE E == {<<proof, "cert", NextSerial(v, "cert")>>}
<1> DEFINE F == {<<scope, "obs", r.obstructions[i].serial>> : i \in DOMAIN r.obstructions}
<1> DEFINE a == StateOps(v, r, scope)
<1> DEFINE b == RunOps(v, r, run, declaration, scope)
<1> DEFINE c == NewTacticOps(v, r, scope)
<1> DEFINE d == CheckpointOps(v, proof, r, run, scope)
<1> DEFINE e == CertificateOps(v, proof, r, run, declaration)
<1> DEFINE f == ObstructionOps(v, r, run, scope)
<1>1. /\ Makes(v, a, A) /\ Makes(v, b, {run}) /\ Makes(v, c, C)
      /\ Makes(v, d, D) /\ Makes(v, e, E) /\ Makes(v, f, F)
  <2>1. /\ IsList(r.states) /\ IsList(r.frontier)
        /\ \A s \in DOMAIN r.states : IsMap(r.states[s])
    BY DEF IsPayload
  <2>2. QED
    <3>1. Makes(v, a, A)
      BY <2>1, StatesMade
    <3>2. Makes(v, b, {run})
      BY RunMade
    <3>3. Makes(v, c, C)
      BY TacticsMade
    <3>4. Makes(v, d, D)
      BY <2>1, CheckpointMade
    <3>5. Makes(v, e, E)
      BY CertificateMade
    <3>6. Makes(v, f, F)
      BY ObstructionsMade
    <3>7. QED
      BY <3>1, <3>2, <3>3, <3>4, <3>5, <3>6
<1>2. /\ \A id \in A : id[2] = "fs"
      /\ \A id \in C : id[2] = "ta"
      /\ \A id \in D : id[2] = "fc"
      /\ \A id \in E : id[2] = "cert"
      /\ \A id \in F : id[2] = "obs"
  OBVIOUS
<1>3. formal_result_to_ops(v, proof, r, run, declaration, scope) = a \o b \o c \o d \o e \o f
  BY DEF formal_result_to_ops
<1>4. ResultIds(v, proof, r, run, scope) = A \cup {run} \cup C \cup D \cup E \cup F
  BY DEF ResultIds
<1> HIDE DEF a, b, c, d, e, f, A, C, D, E, F
<1>5. Makes(v, a \o b, A \cup {run})
  BY <1>1, <1>2, MakesBoth
<1>6. Makes(v, a \o b \o c, A \cup {run} \cup C)
  BY <1>1, <1>2, <1>5, MakesBoth
<1>7. Makes(v, a \o b \o c \o d, A \cup {run} \cup C \cup D)
  BY <1>1, <1>2, <1>6, MakesBoth
<1>8. Makes(v, a \o b \o c \o d \o e, A \cup {run} \cup C \cup D \cup E)
  BY <1>1, <1>2, <1>7, MakesBoth
<1>9. Makes(v, a \o b \o c \o d \o e \o f, A \cup {run} \cup C \cup D \cup E \cup F)
  BY <1>1, <1>2, <1>8, MakesBoth
<1>10. QED
  BY <1>3, <1>4, <1>9


(***************************************************************************)
(* From what is made to what the gate requires, and to the graph it leaves.*)
(***************************************************************************)

\* An edge comes with a node, whose id its own starts with.
EdgesOwned(v) == \A e \in DOMAIN v.edges : <<e[1], e[2], e[3]>> \in DOMAIN v.nodes

\* Runs are numbered as they came.
RunsCounted(v) == \E k \in 0..MaxRuns : RunsOf(v) = {Id("fr", n) : n \in 1..k}

\* The graph as every reader takes it: finite, typed, of nodes and edges that are named
\* after the type and the owner they have.
GraphInv(v) ==
  /\ Numbered(v)
  /\ \A id \in DOMAIN v.nodes : v.nodes[id].label = LabelOfPrefix(id[2])
  /\ EdgesOwned(v)
  /\ \A id \in DOMAIN v.nodes : \A f \in DOMAIN v.nodes[id].fields :
       InVocabulary(v.nodes[id].label, f, v.nodes[id].fields[f])
  /\ Joined(v)

\* What is made is what a disciplined producer produces (Produced).
LEMMA MakesProduced ==
  ASSUME NEW v, NEW s, NEW O, Makes(v, s, O), EdgesOwned(v)
  PROVE  Produced(v, s)
<1>1. \A i, j \in DOMAIN s : OnceMade(s, i, j)
  BY DEF Makes
<1>2. ASSUME NEW i \in DOMAIN s
      PROVE  /\ s[i].op \in {"set_field", "upsert_node", "add_edge"}
             /\ s[i].op = "set_field" => s[i].id \in DOMAIN v.nodes
             /\ s[i].op = "upsert_node" => /\ s[i].id \notin DOMAIN v.nodes /\ s[i].label # "Claim"
                                            /\ IsMap(s[i].fields)
             /\ s[i].op = "add_edge" => s[i].edge_id \notin DOMAIN v.edges
  <2>1. OpIsMade(v, s, O, i)
    BY DEF Makes
  <2>2. CASE s[i].op = "add_edge"
    <3>1. PICK j \in DOMAIN s : s[j].op = "upsert_node" /\ s[j].id = OwnerOf(s[i])
      BY <2>1, <2>2 DEF OpIsMade
    <3>2. OpIsMade(v, s, O, j)
      BY DEF Makes
    <3>3. OwnerOf(s[i]) \notin DOMAIN v.nodes
      BY <3>1, <3>2 DEF OpIsMade
    <3>4. QED
      BY <2>2, <3>3 DEF EdgesOwned, OwnerOf
  <2>3. CASE s[i].op # "add_edge"
    BY <2>1, <2>3 DEF OpIsMade
  <2>4. QED
    BY <2>2, <2>3
<1>3. NewEdges(v, s)
  BY <1>1, <1>2 DEF NewEdges, OnceMade
<1>4. NewNodes(v, s)
  <2>1. \A i, j \in DOMAIN s :
          s[i].op = "upsert_node" /\ s[j].op = "upsert_node" /\ s[i].id = s[j].id => i = j
    BY <1>1 DEF OnceMade
  <2>2. \A op \in OpsOf(s, "upsert_node") : op.id \notin DOMAIN v.nodes /\ op.label # "Claim"
    BY <1>2 DEF OpsOf
  <2>3. QED
    BY <2>1, <2>2 DEF NewNodes
<1>5. WritesCommitted(v, s)
  BY <1>2 DEF WritesCommitted, OpsOf
<1>6. NewClaims(s)
  BY <1>2 DEF NewClaims, OpsOf
<1>7. QED
  BY <1>3, <1>4, <1>5, <1>6 DEF Produced

\* What is made under numbered ids is named as ids are.
LEMMA MakesNamed ==
  ASSUME NEW v, NEW s, NEW O, Makes(v, s, O), CheckNamespace(Proof, s),
         \A id \in O : IsId(id) /\ id[3] \in Nat
  PROVE  Named(s)
<1>1. ASSUME NEW i \in DOMAIN s, s[i].op = "upsert_node"
      PROVE  /\ s[i].id = Id(s[i].id[2], s[i].id[3]) /\ s[i].id[3] \in Nat
             /\ s[i].label = LabelOfPrefix(s[i].id[2]) /\ IsMap(s[i].fields)
  <2>1. s[i].id \in O /\ s[i].label = LabelOfPrefix(s[i].id[2]) /\ IsMap(s[i].fields)
    BY <1>1 DEF Makes, OpIsMade
  <2>2. s[i].id \in Identities(s[i])
    BY <1>1 DEF Identities
  <2>3. s[i].id[1] = Proof
    BY <2>2 DEF CheckNamespace
  <2>4. QED
    BY <2>1, <2>3 DEF IsId, Id
<1>2. ASSUME NEW i \in DOMAIN s, s[i].op = "add_edge"
      PROVE  \E made \in OpsOf(s, "upsert_node") :
               made.id = <<s[i].edge_id[1], s[i].edge_id[2], s[i].edge_id[3]>>
  BY <1>2 DEF Makes, OpIsMade, OwnerOf, OpsOf
<1>3. QED
  BY <1>1, <1>2 DEF Named, OpsOf

\* A node that a commit creates is one that its ops upsert.
LEMMA CreatedNode ==
  ASSUME NEW v, NEW ops, Listed(ops), Produced(v, ops),
         NEW id \in DOMAIN ApplyOps(v, ops).nodes, id \notin DOMAIN v.nodes
  PROVE  \E op \in OpsOf(ops, "upsert_node") :
           op.id = id /\ op.label = ApplyOps(v, ops).nodes[id].label
<1>1. PICK i \in Upserts(ops, id) : ApplyOps(v, ops).nodes[id].label = ops[i].label
  BY NewNode
<1>2. QED
  BY <1>1 DEF Upserts, OpsOf

\* An accepted commit of such ops keeps the graph as it should be.
LEMMA GraphKept ==
  ASSUME NEW v, NEW s, NEW leased, IsList(s), Produced(v, s), Named(s),
         Accepts(v, Proposal(s, leased)), GraphInv(v)
  PROVE  /\ GraphInv(ApplyOps(v, s))
         /\ RunsOf(ApplyOps(v, s)) =
              RunsOf(v) \cup {op.id : op \in {o \in OpsOf(s, "upsert_node") : o.label = "FormalRun"}}
<1> DEFINE w == ApplyOps(v, s)
<1>0. Listed(s)
  BY ListFacts
<1>1. CheckReferences(v, s) /\ CheckVocabulary(s) /\ CheckNamespace(Proof, s)
  BY DEF Accepts, Proposal
<1>2. DOMAIN w.nodes = DOMAIN v.nodes \cup {op.id : op \in OpsOf(s, "upsert_node")}
  BY DEF ApplyOps
<1>3. Joined(w)
  BY <1>0, <1>1, JoinedKept DEF GraphInv, Produced
<1>4. \A id \in DOMAIN w.nodes : \A f \in DOMAIN w.nodes[id].fields :
        InVocabulary(w.nodes[id].label, f, w.nodes[id].fields[f])
  <2>1. \A id \in DOMAIN v.nodes : \A f \in DOMAIN v.nodes[id].fields :
          InVocabulary(v.nodes[id].label, f, v.nodes[id].fields[f])
    BY DEF GraphInv
  <2>2. QED
    BY <1>0, <1>1, <2>1, VocabularyKept DEF Produced
<1>5. ASSUME NEW id \in DOMAIN w.nodes
      PROVE  IsId(id) /\ id[1] = Proof /\ id[3] \in Nat /\ w.nodes[id].label = LabelOfPrefix(id[2])
  <2>1. CASE id \in DOMAIN v.nodes
    BY <2>1, <1>0, CommittedNode DEF GraphInv, Numbered
  <2>2. CASE id \notin DOMAIN v.nodes
    <3>1. PICK op \in OpsOf(s, "upsert_node") : op.id = id /\ op.label = w.nodes[id].label
      BY <2>2, <1>0, CreatedNode
    <3>2. op.id = Id(op.id[2], op.id[3]) /\ op.id[3] \in Nat /\ op.label = LabelOfPrefix(op.id[2])
      BY DEF Named
    <3> HIDE DEF w
    <3>3. id = <<Proof, id[2], id[3]>> /\ id[3] \in Nat
      BY <3>1, <3>2 DEF Id
    <3>4. id[1] = Proof
      BY <3>3
    <3>5. QED
      BY <3>1, <3>2, <3>3, <3>4 DEF IsId
  <2>3. QED
    BY <2>1, <2>2
<1>6. IsFiniteSet(DOMAIN w.nodes)
  <2>1. IsFiniteSet(DOMAIN s)
    BY <1>0, Indexed
  <2>2. IsFiniteSet({op.id : op \in OpsOf(s, "upsert_node")})
    <3> DEFINE S == {j \in DOMAIN s : s[j].op = "upsert_node"}
    <3> DEFINE T == {op.id : op \in OpsOf(s, "upsert_node")}
    <3> DEFINE f == [j \in S |-> s[j].id]
    <3>1. IsFiniteSet(S)
      BY <2>1, FS_Subset
    <3>2. f \in Surjection(S, T)
      <4>1. \A j \in S : s[j].id \in T
        BY DEF OpsOf
      <4>2. \A t \in T : \E j \in S : s[j].id = t
        BY DEF OpsOf
      <4>3. QED
        BY <4>1, <4>2 DEF Surjection
    <3> HIDE DEF S, T, f
    <3>3. IsFiniteSet(T)
      BY <3>1, <3>2, FS_Surjection
    <3>4. QED
      BY <3>3 DEF T
  <2>3. IsFiniteSet(DOMAIN v.nodes)
    BY DEF GraphInv, Numbered
  <2>4. IsFiniteSet(DOMAIN v.nodes \cup {op.id : op \in OpsOf(s, "upsert_node")})
    BY <2>2, <2>3, FS_Union, Zenon
  <2>5. QED
    BY <1>2, <2>4, Zenon
<1>7. EdgesOwned(w)
  <2> SUFFICES ASSUME NEW e \in DOMAIN w.edges PROVE <<e[1], e[2], e[3]>> \in DOMAIN w.nodes
    BY DEF EdgesOwned
  <2>1. CASE e \in DOMAIN v.edges
    BY <2>1, <1>2 DEF GraphInv, EdgesOwned
  <2>2. CASE e \notin DOMAIN v.edges
    <3>1. PICK i \in DOMAIN s : s[i].op = "add_edge" /\ s[i].edge_id = e
      BY <2>2, <1>0, NewEdge
    <3>2. PICK made \in OpsOf(s, "upsert_node") : made.id = <<e[1], e[2], e[3]>>
      BY <3>1 DEF Named, OpsOf
    <3>3. QED
      BY <3>2, <1>2
  <2>3. QED
    BY <2>1, <2>2
<1>8. GraphInv(w)
  <2> HIDE DEF w
  <2>1. QED
    BY <1>3, <1>4, <1>5, <1>6, <1>7 DEF GraphInv, Numbered
<1>9. RunsOf(w) =
        RunsOf(v) \cup {op.id : op \in {o \in OpsOf(s, "upsert_node") : o.label = "FormalRun"}}
  <2> DEFINE N == {op.id : op \in {o \in OpsOf(s, "upsert_node") : o.label = "FormalRun"}}
  <2>1. ASSUME NEW id \in RunsOf(w) PROVE id \in RunsOf(v) \cup N
    <3>0. id \in DOMAIN w.nodes /\ w.nodes[id].label = "FormalRun"
      BY DEF RunsOf
    <3>1. CASE id \in DOMAIN v.nodes
      BY <3>0, <3>1, <1>0, CommittedNode DEF RunsOf
    <3>2. CASE id \notin DOMAIN v.nodes
      <4>1. PICK op \in OpsOf(s, "upsert_node") : op.id = id /\ op.label = w.nodes[id].label
        BY <3>0, <3>2, <1>0, CreatedNode
      <4>2. QED
        BY <3>0, <4>1
    <3>3. QED
      BY <3>1, <3>2
  <2>2. ASSUME NEW id \in RunsOf(v) PROVE id \in RunsOf(w)
    BY <1>0, CommittedNode DEF RunsOf
  <2>3. ASSUME NEW op \in OpsOf(s, "upsert_node"), op.label = "FormalRun" PROVE op.id \in RunsOf(w)
    <3>1. op.id \in DOMAIN w.nodes
      BY <1>2
    <3>2. w.nodes[op.id].label = LabelOfPrefix(op.id[2])
      BY <3>1, <1>5
    <3>3. op.label = LabelOfPrefix(op.id[2])
      BY DEF Named
    <3>4. QED
      BY <3>1, <3>2, <3>3, <2>3 DEF RunsOf
  <2>4. QED
    BY <2>1, <2>2, <2>3
<1>10. QED
  BY <1>8, <1>9


(***************************************************************************)
(* The results that reach formal_result_to_ops.                            *)
(***************************************************************************)

\* A result that says what it found: its frontier is of states it reports open, and it
\* certifies what it proved.
Coherent(r) ==
  /\ \A s \in Range(r.frontier) : s \in DOMAIN r.states /\ r.states[s].status = "open"
  /\ r.certificate = (r.disposition = "proved-pending-replay")

\* The range of the empty list.
LEMMA NoneRange == Range(<<>>) = {}
  BY DEF Range

\* The range of a list of one.
LEMMA OneRange ==
  ASSUME NEW x
  PROVE  Range(<<x>>) = {x}
  BY OneList DEF Range

\* Lists of two and three.
LEMMA SmallLists ==
  ASSUME NEW x, NEW y, NEW z
  PROVE  IsList(<<x>>) /\ IsList(<<x, y>>) /\ IsList(<<x, y, z>>)
<1> DEFINE X == {x, y, z}
<1>1. <<x>> \in Seq(X) /\ <<x, y>> \in Seq(X) /\ <<x, y, z>> \in Seq(X)
  OBVIOUS
<1> HIDE DEF X
<1>2. QED
  BY <1>1, SeqIsList

\* A result without states or tactics.
LEMMA ResultGood ==
  ASSUME NEW d, d # "proved-pending-replay"
  PROVE  IsPayload(Result(d)) /\ Coherent(Result(d))
<1>1. /\ Result(d).states = <<>> /\ Result(d).tactics = <<>> /\ Result(d).frontier = <<>>
      /\ Result(d).obstructions = <<>>
      /\ Result(d).rooted = FALSE /\ Result(d).certificate = FALSE /\ Result(d).disposition = d
  BY DEF Result
<1> DEFINE r == Result(d)
<1> HIDE DEF r
<1>2. IsPayload(r)
  BY <1>1, NoneList DEF IsPayload, r
<1>3. Coherent(r)
  BY <1>1, NoneList DEF Coherent, r
<1>4. QED
  BY <1>2, <1>3 DEF r

\* The states of a search are a list if their statuses are.
LEMMA StatesList ==
  ASSUME NEW goal, NEW statuses, IsList(statuses)
  PROVE  /\ IsList(States(goal, statuses)) /\ DOMAIN States(goal, statuses) = DOMAIN statuses
         /\ \A n \in DOMAIN statuses : /\ States(goal, statuses)[n].status = statuses[n]
                                       /\ "status" \in DOMAIN States(goal, statuses)[n]
                                       /\ IsMap(States(goal, statuses)[n])
<1>1. DOMAIN statuses = 1..Len(statuses) /\ Len(statuses) \in Nat
  BY ListFacts
<1>2. DOMAIN States(goal, statuses) = DOMAIN statuses
  BY DEF States
<1>3. IsList(States(goal, statuses))
  BY <1>1, MadeList DEF States
<1>4. \A n \in DOMAIN statuses : IsMap(States(goal, statuses)[n])
  BY <1>2 DEF States, IsMap
<1>5. QED
  BY <1>2, <1>3, <1>4 DEF States

\* The results of the fake are coherent payloads (build_result).
LEMMA BuiltGood ==
  ASSUME NEW d \in EMITTABLE_DISPOSITIONS, NEW goal
  PROVE  IsPayload(build_result(d, goal)) /\ Coherent(build_result(d, goal))
<1> DEFINE r == build_result(d, goal)
<1>1. /\ r.states \in {<<>>, States(goal, <<"open">>), States(goal, <<"failed">>),
                       States(goal, <<"open", "open">>),
                       States(goal, <<"open", "open", "open">>)}
      /\ \/ r.tactics = <<>>
         \/ r.tactics = <<TacticEdge(1, "lean-accepted", <<>>, None)>>
         \/ r.tactics = <<TacticEdge(1, "lean-rejected", <<>>, "apply-failure")>>
         \/ r.tactics = <<TacticEdge(1, "lean-accepted", <<2, 3>>, None)>>
      /\ \/ r.frontier = <<>>
         \/ r.frontier = <<2>> /\ r.states = States(goal, <<"open", "open">>)
         \/ r.frontier = <<2, 3>> /\ r.states = States(goal, <<"open", "open", "open">>)
      /\ \/ r.obstructions = <<>>
         \/ r.obstructions = <<Obstruction(1, "likely-false", <<1>>)>>
         \/ r.obstructions = <<Obstruction(1, "missing-lemma", <<2>>)>>
      /\ r.disposition = d /\ r.certificate = (d = "proved-pending-replay")
  BY BuiltParts
<1>2. r.rooted \in BOOLEAN
  BY DEF build_result, Result, EMITTABLE_DISPOSITIONS
<1> HIDE DEF r
<1>3. /\ IsList(<<"open">>) /\ IsList(<<"failed">>) /\ IsList(<<"open", "open">>)
      /\ IsList(<<"open", "open", "open">>) /\ IsList(<<2>>) /\ IsList(<<2, 3>>) /\ IsList(<<1>>)
  BY SmallLists
<1>4. /\ IsList(r.states)
      /\ \A s \in DOMAIN r.states : IsMap(r.states[s]) /\ "status" \in DOMAIN r.states[s]
  BY <1>1, <1>3, StatesList, NoneList
<1>5. IsList(r.frontier)
  BY <1>1, <1>3, NoneList
<1>6. IsList(r.tactics) /\ \A i \in DOMAIN r.tactics : IsList(r.tactics[i].children)
  <2>1. ASSUME NEW t, r.tactics = <<t>>, IsList(t.children)
        PROVE  IsList(r.tactics) /\ \A i \in DOMAIN r.tactics : IsList(r.tactics[i].children)
    BY <2>1, OneList
  <2>2. ASSUME NEW result, NEW children, NEW family, IsList(children)
        PROVE  IsList(TacticEdge(1, result, children, family).children)
    BY <2>2 DEF TacticEdge
  <2>3. QED
    BY <1>1, <1>3, <2>1, <2>2, NoneList
<1>7. /\ IsList(r.obstructions)
      /\ \A i \in DOMAIN r.obstructions :
           /\ IsList(r.obstructions[i].states) /\ r.obstructions[i].serial \in Nat
           /\ \A j \in DOMAIN r.obstructions :
                r.obstructions[i].serial = r.obstructions[j].serial => i = j
  <2>1. CASE r.obstructions = <<>>
    BY <2>1, NoneList
  <2>2. ASSUME NEW kind, NEW states, IsList(states),
               r.obstructions = <<Obstruction(1, kind, states)>>
        PROVE  <1>7!1 /\ <1>7!2
    BY <2>2, OneList DEF Obstruction
  <2>3. QED
    BY <1>1, <1>3, <2>1, <2>2
<1>8. IsPayload(r)
  BY <1>1, <1>2, <1>4, <1>5, <1>6, <1>7 DEF IsPayload
<1>9. Coherent(r)
  <2>1. CASE r.frontier = <<>>
    BY <2>1, <1>1, NoneList DEF Coherent
  <2>2. CASE r.frontier = <<2>> /\ r.states = States(goal, <<"open", "open">>)
    <3>1. Range(<<2>>) = {2}
      BY DEF Range
    <3>2. QED
      BY <2>2, <3>1, <1>1 DEF Coherent, States
  <2>3. CASE r.frontier = <<2, 3>> /\ r.states = States(goal, <<"open", "open", "open">>)
    <3>1. Range(<<2, 3>>) = {2, 3}
      BY DEF Range
    <3>2. QED
      BY <2>3, <3>1, <1>1 DEF Coherent, States
  <2>4. QED
    BY <1>1, <2>1, <2>2, <2>3
<1>10. QED
  BY <1>8, <1>9 DEF r

\* The nodes of a hypergraph with a status.
LEMMA NodesAtList ==
  ASSUME NEW g \in Graphs, NEW status
  PROVE  /\ IsList(NodesAt(g, status))
         /\ Range(NodesAt(g, status)) = {n \in DOMAIN g.nodes : g.nodes[n] = status}
<1> DEFINE seqs == [n \in DOMAIN g.nodes |-> IF g.nodes[n] = status THEN <<n>> ELSE <<>>]
<1>1. DOMAIN g.nodes = 1..Len(g.nodes) /\ Len(g.nodes) \in Nat
  BY GraphAssumption, ListFacts
<1>2. IsList(seqs)
  BY <1>1, MadeList
<1>3. \A n \in DOMAIN g.nodes : IsList(<<n>>) /\ Range(<<n>>) = {n}
  BY OneList, OneRange
<1>4. \A i \in DOMAIN seqs : IsList(seqs[i]) /\ Range(seqs[i]) = {n \in {i} : g.nodes[n] = status}
  BY <1>3, NoneList
<1>5. DOMAIN seqs = DOMAIN g.nodes
  OBVIOUS
<1> HIDE DEF seqs
<1>6. /\ IsList(FlattenSeq(seqs))
      /\ Range(FlattenSeq(seqs)) = UNION {Range(seqs[i]) : i \in DOMAIN seqs}
  BY <1>2, <1>4, FlattenList
<1>7. UNION {Range(seqs[i]) : i \in DOMAIN seqs} = {n \in DOMAIN g.nodes : g.nodes[n] = status}
  BY <1>4, <1>5
<1>8. NodesAt(g, status) = FlattenSeq(seqs)
  BY DEF NodesAt, seqs
<1>9. QED
  BY <1>6, <1>7, <1>8


\* Appending to a list.
LEMMA AppendList ==
  ASSUME NEW s, IsList(s), NEW x
  PROVE  IsList(Append(s, x)) /\ Range(Append(s, x)) = Range(s) \cup {x}
<1> DEFINE X == Range(s) \cup {x}
<1> DEFINE t == <<x>>
<1>1. s \in Seq(X) /\ x \in X
  BY ListFacts
<1>2. Append(s, x) = s \o t
  BY <1>1
<1>3. IsList(t) /\ Range(t) = {x}
  BY OneList, OneRange
<1> HIDE DEF t
<1>4. IsList(s \o t) /\ Range(s \o t) = Range(s) \cup Range(t)
  BY <1>3, Concat
<1>5. QED
  BY <1>2, <1>3, <1>4

\* So are the results of the reasoner, whatever graph it returns.
LEMMA ConvertedGood ==
  ASSUME NEW g \in Graphs, NEW d
  PROVE  IsPayload(Converted(g, d)) /\ Coherent(Converted(g, d))
<1> DEFINE r == Converted(g, d)
<1> DEFINE statuses == [n \in DOMAIN g.nodes |-> StateStatus(g, n)]
<1> DEFINE proved == Solved(g) /\ 1 \in KernelClosed(g)
<1>1. /\ r.states = States(d, statuses)
      /\ r.tactics = [i \in DOMAIN g.edges |->
                        TacticEdge(g.edges[i].source, EdgeResult(g.edges[i]),
                                   g.edges[i].children, None)]
      /\ r.frontier = IF proved THEN <<>>
                      ELSE IF Solved(g) THEN Append(NodesAt(g, "open"), 1)
                      ELSE NodesAt(g, "open")
      /\ \/ r.obstructions = <<>>
         \/ r.obstructions = <<Obstruction(1, "search-policy", NodesAt(g, "dead"))>>
      /\ r.certificate = proved /\ r.rooted \in BOOLEAN
      /\ r.certificate = (r.disposition = "proved-pending-replay")
  BY ConvertedParts
<1> HIDE DEF r
<1>2. /\ DOMAIN g.nodes = 1..Len(g.nodes) /\ Len(g.nodes) \in Nat /\ 1 \in DOMAIN g.nodes
      /\ DOMAIN g.edges = 1..Len(g.edges) /\ Len(g.edges) \in Nat
      /\ \A i \in DOMAIN g.edges : IsList(g.edges[i].children)
  BY GraphAssumption, ListFacts
<1>3. /\ IsList(r.states) /\ DOMAIN r.states = DOMAIN g.nodes
      /\ \A n \in DOMAIN g.nodes : /\ r.states[n].status = StateStatus(g, n)
                                   /\ "status" \in DOMAIN r.states[n] /\ IsMap(r.states[n])
  <2>1. IsList(statuses) /\ DOMAIN statuses = DOMAIN g.nodes
    BY <1>2, MadeList
  <2>2. \A n \in DOMAIN g.nodes : statuses[n] = StateStatus(g, n)
    OBVIOUS
  <2> HIDE DEF statuses
  <2>3. QED
    BY <1>1, <2>1, <2>2, StatesList
<1>4. IsList(r.tactics) /\ \A i \in DOMAIN r.tactics : IsList(r.tactics[i].children)
  <2>1. DOMAIN r.tactics = 1..Len(g.edges)
    BY <1>1, <1>2
  <2>2. r.tactics = [i \in 1..Len(g.edges) |-> r.tactics[i]]
    BY <1>1, <1>2
  <2>3. IsList(r.tactics)
    BY <1>2, <2>1, <2>2, MadeList
  <2>4. \A i \in DOMAIN r.tactics : r.tactics[i].children = g.edges[i].children
    BY <1>1 DEF TacticEdge
  <2>5. QED
    BY <1>2, <2>1, <2>3, <2>4
<1>5. /\ IsList(NodesAt(g, "open"))
      /\ Range(NodesAt(g, "open")) = {n \in DOMAIN g.nodes : g.nodes[n] = "open"}
      /\ IsList(NodesAt(g, "dead"))
  BY NodesAtList
<1> DEFINE open == NodesAt(g, "open")
<1> HIDE DEF proved
<1>6. /\ IsList(r.frontier)
      /\ Range(r.frontier) \subseteq Range(open) \cup (IF Solved(g) /\ ~proved THEN {1} ELSE {})
  <2>1. IsList(Append(open, 1)) /\ Range(Append(open, 1)) = Range(open) \cup {1}
    BY <1>5, AppendList
  <2> HIDE DEF open
  <2>2. QED
    BY <1>1, <1>5, <2>1, NoneList DEF open
<1>7. /\ IsList(r.obstructions)
      /\ \A i \in DOMAIN r.obstructions :
           /\ IsList(r.obstructions[i].states) /\ r.obstructions[i].serial \in Nat
           /\ \A j \in DOMAIN r.obstructions :
                r.obstructions[i].serial = r.obstructions[j].serial => i = j
  <2>1. CASE r.obstructions = <<>>
    BY <2>1, NoneList
  <2>2. CASE r.obstructions = <<Obstruction(1, "search-policy", NodesAt(g, "dead"))>>
    BY <2>2, <1>5, OneList DEF Obstruction
  <2>3. QED
    BY <1>1, <2>1, <2>2
<1>8. IsPayload(r)
  BY <1>1, <1>3, <1>4, <1>6, <1>7 DEF IsPayload
<1>9. Coherent(r)
  <2> SUFFICES ASSUME NEW s \in Range(r.frontier)
               PROVE  s \in DOMAIN r.states /\ r.states[s].status = "open"
    BY <1>1 DEF Coherent
  <2>1. CASE s \in Range(open)
    BY <2>1, <1>3, <1>5 DEF StateStatus
  <2>2. CASE s = 1 /\ Solved(g) /\ ~proved
    BY <2>2, <1>2, <1>3 DEF StateStatus, Solved, proved
  <2>3. QED
    BY <1>6, <2>1, <2>2
<1>10. QED
  BY <1>8, <1>9 DEF r

\* What an adapter answers, whatever it is asked.
LEMMA AnswersGood ==
  /\ \A d : \A answer \in StartAnswers(d) :
       /\ IsPayload(answer.result) /\ Coherent(answer.result)
       /\ answer.declaration \in {d, None}
  /\ \A run : \A answer \in ResumeAnswers(run) :
       /\ IsPayload(answer.result) /\ Coherent(answer.result)
       /\ answer.declaration \in Searched(run) \cup {None}
<1> DEFINE Good(r) == IsPayload(r) /\ Coherent(r)
<1>1. \A d : d # "proved-pending-replay" => Good(Result(d))
  BY ResultGood
<1>2. \A r \in Payloads : Good(r)
  BY PayloadAssumption DEF Coherent
<1>3. \A d \in EMITTABLE_DISPOSITIONS : \A goal : Good(build_result(d, goal))
  BY BuiltGood
<1>4. \A g \in Graphs : \A d : Good(Converted(g, d))
  BY ConvertedGood
<1> HIDE DEF Good
<1>5. \A goal, d, scope : \A answer \in Scripted(goal, d, scope) :
        Good(answer.result) /\ answer.declaration \in {d, None}
  BY <1>2, <1>3 DEF Scripted, Answer
<1>6. \A d : \A answer \in SearchedFor(d) : Good(answer.result) /\ answer.declaration = d
  BY <1>1, <1>4 DEF SearchedFor, Answer
<1>7. ASSUME NEW d, NEW answer \in StartAnswers(d)
      PROVE  Good(answer.result) /\ answer.declaration \in {d, None}
  <2> DEFINE refused == Answer(Result("invalid-request"), d, Proof, FALSE)
  <2>1. Good(refused.result) /\ refused.declaration = d
    BY <1>1 DEF Answer
  <2>2. answer \in Scripted(d, d, Proof) \/ answer = refused \/ answer \in SearchedFor(d)
    BY DEF StartAnswers
  <2> HIDE DEF refused
  <2>3. QED
    BY <1>5, <1>6, <2>1, <2>2
<1>8. ASSUME NEW run, NEW answer \in ResumeAnswers(run)
      PROVE  Good(answer.result) /\ answer.declaration \in Searched(run) \cup {None}
  <2> DEFINE lost == Answer(Result("invalid-request"), None, Proof, FALSE)
  <2> DEFINE stopped == Answer(Result("cancelled"), None, Proof, FALSE)
  <2>1. /\ Good(lost.result) /\ lost.declaration = None
        /\ Good(stopped.result) /\ stopped.declaration = None
    BY <1>1 DEF Answer
  <2>2. \/ answer = lost \/ answer = stopped
        \/ \E scope : answer \in Scripted(run, None, scope)
        \/ \E d \in Searched(run) : answer \in SearchedFor(d)
    BY DEF ResumeAnswers
  <2> HIDE DEF lost, stopped
  <2>3. QED
    BY <1>5, <1>6, <2>1, <2>2
<1>9. QED
  BY <1>7, <1>8 DEF Good

\* The ids that a result is given: the next serials, and the run.
LEMMA IdsGood ==
  ASSUME NEW v, Numbered(v), NEW r, IsPayload(r), NEW run, IsId(run), run[2] = "fr", run[3] \in Nat,
         NEW scope, NEW proof
  PROVE  \A id \in ResultIds(v, proof, r, run, scope) :
           IsId(id) /\ id[3] \in Nat /\ (id[2] = "fr" => id = run)
<1>1. DOMAIN r.states \subseteq Nat /\ DOMAIN r.tactics \subseteq Nat
  <2>1. DOMAIN r.states = 1..Len(r.states) /\ DOMAIN r.tactics = 1..Len(r.tactics)
    BY ListFacts DEF IsPayload
  <2>2. QED
    BY <2>1
<1>2. \A i \in DOMAIN r.obstructions : r.obstructions[i].serial \in Nat
  BY DEF IsPayload
<1>3. NextSerial(v, "fc") \in Nat /\ NextSerial(v, "cert") \in Nat
  BY NextSerialIsFree
<1>4. ASSUME NEW p, NEW q, NEW n \in Nat, q # "fr"
      PROVE  IsId(<<p, q, n>>) /\ <<p, q, n>>[3] \in Nat /\ <<p, q, n>>[2] # "fr"
  BY <1>4 DEF IsId
<1>5. QED
  BY <1>1, <1>2, <1>3, <1>4 DEF ResultIds

\* Whatever is made and accepted keeps the graph as readers take it.
LEMMA SubmitKeeps ==
  ASSUME GraphInv(view), NEW ops, NEW leased, NEW O, Makes(view, ops, O),
         \A id \in O : IsId(id) /\ id[3] \in Nat, Submit(ops, leased)
  PROVE  \/ view' = view /\ mirror' = mirror
         \/ /\ Produced(view, ops) /\ Accepts(view, Proposal(ops, leased))
            /\ view' = ApplyOps(view, ops) /\ submitted' = Proposal(ops, leased)
            /\ mirror' = Project(mirror, ops)
            /\ GraphInv(ApplyOps(view, ops))
            /\ \A id \in RunsOf(ApplyOps(view, ops)) :
                 id \in RunsOf(view) \/ (id \in O \ DOMAIN view.nodes /\ id[2] = "fr")
            /\ RunsOf(view) \subseteq RunsOf(ApplyOps(view, ops))
<1>1. CASE ~Accepts(view, Proposal(ops, leased))
  BY <1>1 DEF Submit
<1>2. CASE Accepts(view, Proposal(ops, leased))
  <2>1. /\ view' = ApplyOps(view, ops) /\ submitted' = Proposal(ops, leased)
        /\ mirror' = Project(mirror, ops)
    BY <1>2 DEF Submit
  <2>2. EdgesOwned(view) /\ IsList(ops)
    BY DEF GraphInv, Makes
  <2>3. Produced(view, ops)
    BY <2>2, MakesProduced
  <2>4. Named(ops)
    BY <1>2, MakesNamed DEF Accepts, Proposal
  <2>5. /\ GraphInv(ApplyOps(view, ops))
        /\ RunsOf(ApplyOps(view, ops)) =
             RunsOf(view) \cup {op.id : op \in {o \in OpsOf(ops, "upsert_node") : o.label = "FormalRun"}}
    BY <1>2, <2>2, <2>3, <2>4, GraphKept
  <2>6. ASSUME NEW op \in OpsOf(ops, "upsert_node"), op.label = "FormalRun"
        PROVE  op.id \in O \ DOMAIN view.nodes /\ op.id[2] = "fr"
    <3>1. PICK i \in DOMAIN ops : ops[i] = op /\ ops[i].op = "upsert_node"
      BY DEF OpsOf
    <3>2. OpIsMade(view, ops, O, i)
      BY DEF Makes
    <3>3. op.id \in O \ DOMAIN view.nodes /\ LabelOfPrefix(op.id[2]) = "FormalRun"
      BY <3>1, <3>2, <2>6 DEF OpIsMade
    <3>4. op.id[2] = "fr"
      BY <3>3 DEF LabelOfPrefix
    <3>5. QED
      BY <3>3, <3>4
  <2>7. QED
    BY <1>2, <2>1, <2>3, <2>5, <2>6
<1>3. QED
  BY <1>1, <1>2


(***************************************************************************)
(* The invariant: initially, by each step, always.                         *)
(***************************************************************************)

\* The inductive invariant of the proof cycle over the formal adapters.
SearchInv ==
  /\ adapter \in Adapters
  /\ known \subseteq RunIds /\ cancelled \subseteq Runs /\ due \in Runs \cup {None}
  /\ GraphInv(view) /\ RunsCounted(view)

\* The next run is the next number.
LEMMA NextRun ==
  ASSUME NEW v, GraphInv(v), NEW k \in 0..MaxRuns, RunsOf(v) = {Id("fr", n) : n \in 1..k}
  PROVE  Cardinality(RunsOf(v)) = k /\ NextSerial(v, "fr") = k + 1
<1>0. k \in Nat
  BY SearchAssumption
<1>1. Cardinality(RunsOf(v)) = k
  <2> DEFINE f == [n \in 1..k |-> Id("fr", n)]
  <2>1. f \in Bijection(1..k, RunsOf(v))
    <3>1. f \in [1..k -> RunsOf(v)]
      OBVIOUS
    <3>2. \A a, b \in 1..k : f[a] = f[b] => a = b
      BY DEF Id
    <3>3. \A t \in RunsOf(v) : \E n \in 1..k : f[n] = t
      OBVIOUS
    <3> HIDE DEF f
    <3>4. f \in Injection(1..k, RunsOf(v))
      BY <3>1, <3>2 DEF Injection, IsInjective
    <3>5. f \in Surjection(1..k, RunsOf(v))
      BY <3>1, <3>3 DEF Surjection
    <3>6. QED
      BY <3>4, <3>5 DEF Bijection
  <2>2. IsFiniteSet(1..k) /\ Cardinality(1..k) = k
    BY <1>0, FS_Interval
  <2> HIDE DEF f
  <2>3. QED
    BY <2>1, <2>2, FS_Bijection DEF ExistsBijection
<1>2. {n \in DOMAIN v.nodes : n[2] = "fr"} = RunsOf(v)
  <2>1. \A id \in DOMAIN v.nodes : v.nodes[id].label = LabelOfPrefix(id[2])
    BY DEF GraphInv
  <2>2. ASSUME NEW id \in DOMAIN v.nodes, id[2] = "fr" PROVE id \in RunsOf(v)
    BY <2>1, <2>2 DEF RunsOf, LabelOfPrefix
  <2>3. ASSUME NEW id \in RunsOf(v) PROVE id \in DOMAIN v.nodes /\ id[2] = "fr"
    BY DEF RunsOf, Id
  <2>4. QED
    BY <2>2, <2>3
<1> DEFINE T == {0} \cup {id[3] : id \in {n \in DOMAIN v.nodes : n[2] = "fr"}}
<1>3. T = 0..k
  <2>1. {id[3] : id \in RunsOf(v)} = 1..k
    <3>1. \A n : Id("fr", n)[3] = n
      BY DEF Id
    <3>2. {id[3] : id \in {Id("fr", n) : n \in 1..k}} = 1..k
      BY <3>1
    <3>3. QED
      BY <3>2, Zenon
  <2>2. T = {0} \cup 1..k
    BY <1>2, <2>1, Zenon
  <2>3. QED
    BY <1>0, <2>2
<1>4. Greatest(T) = k
  <2>1. k \in T /\ \A y \in T : y <= k
    BY <1>0, <1>3
  <2>2. T \subseteq Nat
    BY <1>3
  <2> HIDE DEF T
  <2>3. \A x \in T : (\A y \in T : y <= x) => x = k
    BY <2>1, <2>2
  <2>4. QED
    BY <2>1, <2>3 DEF Greatest
<1>5. NextSerial(v, "fr") = 1 + Greatest(T)
  BY DEF NextSerial
<1> HIDE DEF T
<1>6. QED
  BY <1>0, <1>1, <1>4, <1>5

\* The graph a journal starts from.
LEMMA EmptyKept == GraphInv(EmptyGraph) /\ RunsOf(EmptyGraph) = {}
<1>1. DOMAIN EmptyGraph.nodes = {} /\ DOMAIN EmptyGraph.edges = {}
  BY DEF EmptyGraph
<1>2. Numbered(EmptyGraph) /\ EdgesOwned(EmptyGraph) /\ Joined(EmptyGraph)
  BY <1>1, FS_EmptySet DEF Numbered, EdgesOwned, Joined
<1>3. QED
  BY <1>1, <1>2 DEF GraphInv, RunsOf

\* What is already in the journal keeps the invariant.
LEMMA InitKeeps == Init => SearchInv
<1> SUFFICES ASSUME Init PROVE SearchInv
  OBVIOUS
<1>1. PICK ops \in Journals : view = ApplyOps(EmptyGraph, ops)
  BY DEF Init
<1>2. /\ IsList(ops) /\ Named(ops) /\ Produced(EmptyGraph, ops)
      /\ Accepts(EmptyGraph, Proposal(ops, TRUE))
  BY HistoryAssumption
<1> DEFINE N == {op.id : op \in {o \in OpsOf(ops, "upsert_node") : o.label = "FormalRun"}}
<1>3. \E k \in 0..MaxRuns : N = {Id("fr", n) : n \in 1..k}
  BY HistoryAssumption
<1>4. GraphInv(view) /\ RunsOf(view) = RunsOf(EmptyGraph) \cup N
  BY <1>1, <1>2, EmptyKept, GraphKept
<1>5. RunsOf(view) = N
  BY <1>4, EmptyKept
<1>6. RunsCounted(view)
  BY <1>3, <1>5 DEF RunsCounted
<1>7. QED
  BY <1>4, <1>6 DEF Init, SearchInv

\* A step that submits something.
Disciplined(ops, leased) ==
  /\ Produced(view, ops) /\ Accepts(view, Proposal(ops, leased)) /\ IsList(ops)
  /\ \A i \in DOMAIN ops :
       /\ ops[i].op \in {"set_field", "upsert_node", "add_edge"}
       /\ ops[i].op = "upsert_node" => ops[i].id \notin DOMAIN view.nodes /\ IsMap(ops[i].fields)
  /\ view' = ApplyOps(view, ops) /\ submitted' = Proposal(ops, leased)
  /\ mirror' = Project(mirror, ops)

\* A cycle concludes with an answer to a new run or to one that was searching; or a bridge
\* lemma is proposed.
Answered(run, answer) ==
  \/ /\ run \in Runs /\ StatusOf(run) = "searching" /\ answer \in ResumeAnswers(run)
  \/ /\ run \in RunIds /\ run = Id("fr", NextSerial(view, "fr")) /\ run \notin DOMAIN view.nodes
     /\ \E d \in Decls : answer \in StartAnswers(Id("fd", d))

Concluded(run, answer) ==
  Disciplined(formal_result_to_ops(view, Proof, answer.result, run, answer.declaration,
                                   answer.scope), TRUE)

Bridged ==
  \E rs, rm, f, h :
    /\ rs[2] = "rs" /\ rm[2] = "rm" /\ rs \notin DOMAIN view.nodes /\ rm \notin DOMAIN view.nodes
    /\ Disciplined(<<UpsertNode("ResearchState", rs, f), UpsertNode("ResearchMove", rm, h),
                     AddEdge("PROPOSES", rs, rm, Append(rm, "proposed"), None)>>, FALSE)

\* Concluding a search: poll, start, resume.
LEMMA ConcludeKeeps ==
  ASSUME SearchInv, NEW run, run \in DOMAIN view.nodes \/ run = Id("fr", NextSerial(view, "fr")),
         run \in RunIds, NEW answer, IsPayload(answer.result),
         run \in DOMAIN view.nodes => answer.declaration \in Searched(run) \cup {None},
         run \in DOMAIN view.nodes \/ Cardinality(Runs) < MaxRuns,
         Conclude(run, answer)
  PROVE  SearchInv' /\ ((view' = view /\ mirror' = mirror) \/ Concluded(run, answer))
<1> DEFINE ops ==
      formal_result_to_ops(view, Proof, answer.result, run, answer.declaration, answer.scope)
<1> DEFINE O == ResultIds(view, Proof, answer.result, run, answer.scope)
<1>1. GraphInv(view) /\ Numbered(view)
  BY DEF SearchInv, GraphInv
<1>2. IsId(run) /\ run[2] = "fr" /\ run[3] \in Nat
  BY DEF RunIds, Id, IsId
<1>3. Makes(view, ops, O)
  BY <1>1, <1>2, ResultMade DEF Searched
<1>4. \A id \in O : IsId(id) /\ id[3] \in Nat /\ (id[2] = "fr" => id = run)
  BY <1>1, <1>2, IdsGood
<1>5. Submit(ops, TRUE)
  BY DEF Conclude
<1> HIDE DEF ops, O
<1>6. \/ view' = view /\ mirror' = mirror
      \/ /\ Disciplined(ops, TRUE) /\ GraphInv(ApplyOps(view, ops))
         /\ \A id \in RunsOf(ApplyOps(view, ops)) :
              id \in RunsOf(view) \/ (id = run /\ id \notin DOMAIN view.nodes)
         /\ RunsOf(view) \subseteq RunsOf(ApplyOps(view, ops))
  <2>1. /\ IsList(ops)
        /\ \A i \in DOMAIN ops :
             /\ ops[i].op \in {"set_field", "upsert_node", "add_edge"}
             /\ ops[i].op = "upsert_node" =>
                  ops[i].id \notin DOMAIN view.nodes /\ IsMap(ops[i].fields)
    BY <1>3, MadeOwner DEF Makes
  <2>2. QED
    BY <2>1, <1>1, <1>3, <1>4, <1>5, SubmitKeeps DEF Disciplined
<1>7. GraphInv(view')
  BY <1>1, <1>6 DEF Disciplined
<1>8. RunsOf(view) \subseteq RunsOf(view') /\ RunsCounted(view')
  <2>1. CASE RunsOf(view') = RunsOf(view)
    BY <2>1 DEF SearchInv, RunsCounted
  <2>2. CASE RunsOf(view') # RunsOf(view)
    <3>0. /\ \A id \in RunsOf(view') :
               id \in RunsOf(view) \/ (id = run /\ id \notin DOMAIN view.nodes)
          /\ RunsOf(view) \subseteq RunsOf(view')
      <4>1. CASE view' = view
        BY <4>1, <2>2
      <4>2. CASE view' = ApplyOps(view, ops)
        BY <4>2, <1>6, <2>2
      <4>3. QED
        BY <4>1, <4>2, <1>6 DEF Disciplined
    <3>1. RunsOf(view') = RunsOf(view) \cup {run} /\ run \notin DOMAIN view.nodes
      BY <2>2, <3>0
    <3>2. PICK k \in 0..MaxRuns : RunsOf(view) = {Id("fr", n) : n \in 1..k}
      BY DEF SearchInv, RunsCounted
    <3>3. Cardinality(RunsOf(view)) = k /\ NextSerial(view, "fr") = k + 1
      BY <1>1, <3>2, NextRun
    <3>4. k + 1 \in 0..MaxRuns
      <4>1. Runs = RunsOf(view)
        BY DEF Runs
      <4>2. k < MaxRuns
        BY <3>1, <3>3, <4>1
      <4>3. QED
        BY <4>2, SearchAssumption
    <3>5. run = Id("fr", k + 1)
      BY <3>1, <3>3
    <3>6. 1..(k + 1) = 1..k \cup {k + 1}
      BY SearchAssumption
    <3>7. RunsOf(view') = {Id("fr", n) : n \in 1..(k + 1)}
      BY <3>1, <3>2, <3>5, <3>6, Zenon
    <3>8. QED
      BY <3>1, <3>4, <3>7 DEF RunsCounted
  <2>3. QED
    BY <2>1, <2>2
<1>9. Runs' = RunsOf(view') /\ Runs = RunsOf(view)
  BY DEF Runs
<1>10. known' \subseteq RunIds /\ cancelled' \subseteq Runs'
  BY <1>8, <1>9 DEF Conclude, Going, SearchInv, RunIds
<1>11. due' \in Runs' \cup {None}
  <2>1. CASE run \in DOMAIN view'.nodes
    <3>1. view'.nodes[run].label = LabelOfPrefix(run[2])
      BY <1>7, <2>1 DEF GraphInv
    <3>2. run \in RunsOf(view')
      BY <2>1, <3>1, <1>2 DEF RunsOf, LabelOfPrefix
    <3>3. QED
      BY <3>2, <1>9 DEF Conclude
  <2>2. CASE run \notin DOMAIN view'.nodes
    BY <2>2 DEF Conclude
  <2>3. QED
    BY <2>1, <2>2
<1>12. adapter' \in Adapters
  BY DEF Conclude, SearchInv
<1>13. SearchInv'
  <2>1. GraphInv(view)' /\ RunsCounted(view)'
    BY <1>7, <1>8 DEF GraphInv, RunsCounted, RunsOf
  <2>2. QED
    BY <2>1, <1>10, <1>11, <1>12 DEF SearchInv
<1>14. QED
  BY <1>6, <1>13 DEF Concluded, ops

\* Three ops, and a node, a node and an edge.
LEMMA Triple ==
  ASSUME NEW x, NEW y, NEW z
  PROVE  <<x, y, z>> = <<x>> \o <<y, z>>
<1> DEFINE X == {x, y, z}
<1> DEFINE s == <<x>> \o <<y, z>>
<1> DEFINE t == <<x, y, z>>
<1>1. <<x>> \in Seq(X) /\ <<y, z>> \in Seq(X) /\ t \in Seq(X)
  OBVIOUS
<1>2. Len(t) = 3 /\ t[1] = x /\ t[2] = y /\ t[3] = z
  OBVIOUS
<1>3. s \in Seq(X) /\ Len(s) = 3 /\ s[1] = x /\ s[2] = y /\ s[3] = z
  BY <1>1
<1> HIDE DEF s, t, X
<1>4. \A i \in 1..Len(s) : s[i] = t[i]
  BY <1>2, <1>3
<1>5. s = t
  BY <1>1, <1>2, <1>3, <1>4, SeqEqual
<1>6. QED
  BY <1>5 DEF s, t

\* A bridge lemma is a research state, a move and an edge between them.
LEMMA BridgeMade ==
  ASSUME NEW v, NEW rs, NEW rm, IsId(rs), IsId(rm), rs[2] = "rs", rm[2] = "rm",
         rs \notin DOMAIN v.nodes, rm \notin DOMAIN v.nodes, NEW f, NEW h, IsMap(f), IsMap(h)
  PROVE  Makes(v, <<UpsertNode("ResearchState", rs, f), UpsertNode("ResearchMove", rm, h),
                    AddEdge("PROPOSES", rs, rm, Append(rm, "proposed"), None)>>, {rs, rm})
<1> DEFINE a == UpsertNode("ResearchState", rs, f)
<1> DEFINE b == UpsertNode("ResearchMove", rm, h)
<1> DEFINE c == AddEdge("PROPOSES", rs, rm, Append(rm, "proposed"), None)
<1>1. Makes(v, <<a>>, {rs})
  <2>1. a.op = "upsert_node" /\ a.id = rs /\ a.label = "ResearchState" /\ IsMap(a.fields)
    BY DEF UpsertNode
  <2>2. a.label = LabelOfPrefix(rs[2]) /\ a.label # "Claim"
    BY <2>1 DEF LabelOfPrefix
  <2> HIDE DEF a
  <2>3. QED
    BY <2>1, <2>2, MakesOne
<1>2. Makes(v, <<b>> \o <<c>>, {rm})
  <2>1. Owned(<<c>>, rm, {"proposed"})
    BY OwnedOne
  <2>2. LabelOfPrefix(rm[2]) = "ResearchMove"
    BY DEF LabelOfPrefix
  <2> HIDE DEF c
  <2>3. QED
    BY <2>1, <2>2, MakesNode
<1> HIDE DEF a, b, c
<1>3. <<a, b, c>> = <<a>> \o (<<b>> \o <<c>>)
  <2>1. <<b, c>> = <<b>> \o <<c>>
    BY Pair
  <2>2. <<a, b, c>> = <<a>> \o <<b, c>>
    BY Triple
  <2>3. QED
    BY <2>1, <2>2
<1>4. rs # rm
  OBVIOUS
<1>5. Makes(v, <<a>> \o (<<b>> \o <<c>>), {rs} \cup {rm})
  BY <1>1, <1>2, <1>4, MakesBoth
<1>6. Makes(v, <<a, b, c>>, {rs, rm})
  <2>1. {rs} \cup {rm} = {rs, rm}
    OBVIOUS
  <2>2. QED
    BY <1>3, <1>5, <2>1
<1>7. QED
  BY <1>6 DEF a, b, c

\* Proposing a bridge lemma.
LEMMA BridgeKeeps ==
  ASSUME SearchInv, ProposeBridge
  PROVE  SearchInv' /\ ((view' = view /\ mirror' = mirror) \/ Bridged)
<1> DEFINE rs == Id("rs", NextSerial(view, "rs"))
<1> DEFINE rm == Id("rm", NextSerial(view, "rm"))
<1>1. GraphInv(view) /\ Numbered(view)
  BY DEF SearchInv, GraphInv
<1>2. /\ IsId(rs) /\ rs[2] = "rs" /\ rs[3] \in Nat /\ rs \notin DOMAIN view.nodes
      /\ IsId(rm) /\ rm[2] = "rm" /\ rm[3] \in Nat /\ rm \notin DOMAIN view.nodes
  BY <1>1, NextSerialIsFree DEF IsId, Id
<1> HIDE DEF rs, rm
<1>3. PICK f, h : /\ IsMap(f) /\ IsMap(h)
                  /\ LET ops == <<UpsertNode("ResearchState", rs, f), UpsertNode("ResearchMove", rm, h),
                                  AddEdge("PROPOSES", rs, rm, Append(rm, "proposed"), None)>>
                     IN Submit(ops, FALSE)
  <2>1. PICK s : LET ops == <<UpsertNode("ResearchState", rs, [status |-> "open", origin_state |-> s]),
                              UpsertNode("ResearchMove", rm, [status |-> "queued"]),
                              AddEdge("PROPOSES", rs, rm, Append(rm, "proposed"), None)>>
                 IN Submit(ops, FALSE)
    BY DEF ProposeBridge, rs, rm
  <2>2. IsMap([status |-> "open", origin_state |-> s]) /\ IsMap([status |-> "queued"])
    BY DEF IsMap
  <2>3. QED
    BY <2>1, <2>2
<1> DEFINE ops == <<UpsertNode("ResearchState", rs, f), UpsertNode("ResearchMove", rm, h),
                    AddEdge("PROPOSES", rs, rm, Append(rm, "proposed"), None)>>
<1>4. Makes(view, ops, {rs, rm})
  BY <1>2, <1>3, BridgeMade
<1>5. Submit(ops, FALSE)
  BY <1>3
<1> HIDE DEF ops
<1>6. \A id \in {rs, rm} : IsId(id) /\ id[3] \in Nat /\ id[2] # "fr"
  BY <1>2
<1>7. \/ view' = view /\ mirror' = mirror
      \/ /\ Disciplined(ops, FALSE) /\ GraphInv(ApplyOps(view, ops))
         /\ RunsOf(ApplyOps(view, ops)) = RunsOf(view)
  <2> DEFINE O == {rs, rm}
  <2>1. \A id \in O : IsId(id) /\ id[3] \in Nat
    BY <1>6
  <2>2. Makes(view, ops, O)
    BY <1>4
  <2>3. \A id \in O : id[2] # "fr"
    BY <1>6
  <2> HIDE DEF O
  <2>6. /\ IsList(ops)
        /\ \A i \in DOMAIN ops :
             /\ ops[i].op \in {"set_field", "upsert_node", "add_edge"}
             /\ ops[i].op = "upsert_node" =>
                  ops[i].id \notin DOMAIN view.nodes /\ IsMap(ops[i].fields)
    BY <2>2, MadeOwner DEF Makes
  <2>4. \/ view' = view /\ mirror' = mirror
        \/ /\ Disciplined(ops, FALSE) /\ GraphInv(ApplyOps(view, ops))
           /\ \A id \in RunsOf(ApplyOps(view, ops)) :
                id \in RunsOf(view) \/ (id \in O \ DOMAIN view.nodes /\ id[2] = "fr")
           /\ RunsOf(view) \subseteq RunsOf(ApplyOps(view, ops))
    BY <1>1, <1>5, <2>1, <2>2, <2>6, SubmitKeeps DEF Disciplined
  <2>5. QED
    BY <2>3, <2>4
<1>8. GraphInv(view') /\ RunsOf(view') = RunsOf(view)
  BY <1>1, <1>7 DEF Disciplined
<1>9. Runs' = RunsOf(view') /\ Runs = RunsOf(view)
  BY DEF Runs
<1>10. SearchInv'
  <2>1. GraphInv(view)' /\ RunsCounted(view)'
    BY <1>8 DEF SearchInv, GraphInv, RunsCounted, RunsOf
  <2>2. QED
    BY <2>1, <1>8, <1>9 DEF SearchInv, ProposeBridge
<1>11. (view' = view /\ mirror' = mirror) \/ Bridged
  BY <1>2, <1>7 DEF Bridged, ops
<1>12. QED
  BY <1>10, <1>11

\* A cycle that starts a search has a new run, numbered after the others, and an answer.
LEMMA StartConcludes ==
  ASSUME SearchInv, NEW d \in Decls, Start(Id("fd", d))
  PROVE  \E run, answer :
           /\ answer \in StartAnswers(Id("fd", d)) /\ Conclude(run, answer)
           /\ run \notin DOMAIN view.nodes /\ Answered(run, answer)
           /\ SearchInv' /\ ((view' = view /\ mirror' = mirror) \/ Concluded(run, answer))
<1> DEFINE run == Id("fr", NextSerial(view, "fr"))
<1>0. Runs = RunsOf(view)
  BY DEF Runs
<1>1. PICK answer \in StartAnswers(Id("fd", d)) : Conclude(run, answer)
  BY DEF Start
<1>2. PICK k \in 0..MaxRuns : RunsOf(view) = {Id("fr", n) : n \in 1..k}
  BY DEF SearchInv, RunsCounted
<1>3. Cardinality(Runs) = k /\ NextSerial(view, "fr") = k + 1
  BY <1>0, <1>2, NextRun DEF SearchInv
<1>4. Cardinality(Runs) < MaxRuns
  BY DEF Start
<1>5. run \in RunIds
  <2>1. k + 1 \in 1..MaxRuns
    BY <1>3, <1>4, SearchAssumption
  <2>2. QED
    BY <2>1, <1>3 DEF RunIds
<1>6. run \notin DOMAIN view.nodes
  BY NextSerialIsFree DEF SearchInv, GraphInv, Id
<1>7. IsPayload(answer.result)
  BY AnswersGood
<1>8. run = Id("fr", NextSerial(view, "fr"))
  OBVIOUS
<1> HIDE DEF run
<1>9. SearchInv' /\ ((view' = view /\ mirror' = mirror) \/ Concluded(run, answer))
  BY <1>1, <1>4, <1>5, <1>6, <1>7, <1>8, ConcludeKeeps
<1>10. Answered(run, answer)
  BY <1>1, <1>5, <1>6, <1>8 DEF Answered
<1>11. QED
  BY <1>1, <1>6, <1>9, <1>10

\* A cycle that leased a searching run concludes with an answer, and keeps the invariant.
LEMMA ResumeConcludes ==
  ASSUME SearchInv, NEW run \in Runs, Resume(run)
  PROVE  \E answer :
           /\ answer \in ResumeAnswers(run) /\ Conclude(run, answer) /\ Answered(run, answer)
           /\ SearchInv' /\ ((view' = view /\ mirror' = mirror) \/ Concluded(run, answer))
<1>0. Runs = RunsOf(view)
  BY DEF Runs
<1>1. PICK answer \in ResumeAnswers(run) : Conclude(run, answer)
  BY DEF Resume
<1>2. IsPayload(answer.result) /\ answer.declaration \in Searched(run) \cup {None}
  BY AnswersGood
<1>3. run \in DOMAIN view.nodes
  BY DEF Runs, RunsOf
<1>4. run \in RunIds
  <2>1. PICK k \in 0..MaxRuns : RunsOf(view) = {Id("fr", n) : n \in 1..k}
    BY DEF SearchInv, RunsCounted
  <2>2. PICK n \in 1..k : run = Id("fr", n)
    BY <1>0, <2>1
  <2>3. n \in 1..MaxRuns
    BY SearchAssumption
  <2>4. QED
    BY <2>2, <2>3 DEF RunIds
<1>5. SearchInv' /\ ((view' = view /\ mirror' = mirror) \/ Concluded(run, answer))
  BY <1>1, <1>2, <1>3, <1>4, ConcludeKeeps
<1>6. Answered(run, answer)
  BY <1>1 DEF Answered, Resume, Resumable
<1>7. QED
  BY <1>1, <1>5, <1>6

\* What every step keeps, and what it commits.
LEMMA StepKeeps ==
  ASSUME SearchInv, [Next]_vars
  PROVE  /\ SearchInv'
         /\ \/ (view' = view /\ mirror' = mirror) \/ Bridged
            \/ \E run, answer : Answered(run, answer) /\ Concluded(run, answer)
<1>0. Runs = RunsOf(view)
  BY DEF Runs
<1>1. ASSUME view' = view, adapter' = adapter, known' \subseteq known, cancelled' \subseteq Runs,
             due' \in {due, None}
      PROVE  SearchInv'
  BY <1>1 DEF SearchInv, Runs
<1> DEFINE Concludes == \E run, answer : Answered(run, answer) /\ Concluded(run, answer)
<1>2. ASSUME NEW d \in Decls, Start(Id("fd", d))
      PROVE  SearchInv' /\ ((view' = view /\ mirror' = mirror) \/ Concludes)
  BY <1>2, StartConcludes
<1>3. ASSUME NEW run \in Runs, Resume(run)
      PROVE  SearchInv' /\ ((view' = view /\ mirror' = mirror) \/ Concludes)
  BY <1>3, ResumeConcludes
<1>4. CASE ProposeBridge
  BY <1>4, BridgeKeeps
<1>5. CASE ReportRouting
  BY <1>5, <1>1 DEF ReportRouting, SearchInv
<1>6. ASSUME NEW run \in Runs, Cancel(run)
      PROVE  SearchInv' /\ view' = view /\ mirror' = mirror
  BY <1>6, <1>1 DEF Cancel, SearchInv, Going
<1>7. CASE Restart
  BY <1>7, <1>1 DEF Restart, SearchInv
<1>8. CASE UNCHANGED vars
  BY <1>8, <1>1 DEF vars, SearchInv
<1>9. QED
  BY <1>2, <1>3, <1>4, <1>5, <1>6, <1>7, <1>8 DEF Next

\* The invariant holds in every reachable state.
THEOREM SearchesKeepInv == Spec => []SearchInv
<1>1. SearchInv /\ [Next]_vars => SearchInv'
  BY StepKeeps
<1>2. QED
  BY InitKeeps, <1>1, PTL DEF Spec


(***************************************************************************)
(* Types, and the discipline of the producers.                             *)
(***************************************************************************)

\* The gate that CommitGate models reads the same tables.
LEMMA GateTables ==
  ASSUME NEW label, NEW field
  PROVE  Gate!Vocabulary(label, field) = Vocabulary(label, field)
<1>1. Gate!STATUS_TRANSITIONS(label, field) = STATUS_TRANSITIONS(label, field)
  BY DEF Gate!STATUS_TRANSITIONS, STATUS_TRANSITIONS
<1>2. QED
  BY <1>1 DEF Gate!Vocabulary, Vocabulary, Gate!EXECUTOR_FAILURES, EXECUTOR_FAILURES

\* Its type invariant is part of the invariant here.
LEMMA GateTypes == GraphInv(view) => Gate!TypeOK
<1> SUFFICES ASSUME GraphInv(view) PROVE Gate!TypeOK
  OBVIOUS
<1>1. \A id \in DOMAIN view.nodes : id[1] = Proof
  BY DEF GraphInv, Numbered
<1>2. \A label, field, value :
        Gate!InVocabulary(label, field, value) <=> InVocabulary(label, field, value)
  BY GateTables DEF Gate!InVocabulary, InVocabulary
<1>3. \A rel : Gate!EDGE_ENDPOINTS(rel) = EDGE_ENDPOINTS(rel)
  BY DEF Gate!EDGE_ENDPOINTS, EDGE_ENDPOINTS
<1>4. Gate!Joined(view)
  BY <1>3 DEF Gate!Joined, Joined, GraphInv
<1>5. \A id \in DOMAIN view.nodes : \A f \in DOMAIN view.nodes[id].fields :
        Gate!InVocabulary(view.nodes[id].label, f, view.nodes[id].fields[f])
  BY <1>2 DEF GraphInv
<1>6. QED
  BY <1>1, <1>4, <1>5 DEF Gate!TypeOK

\* Types (TypeOK), of every list of ops, result and graph that the assumptions admit.
THEOREM SearchTypesHold == Spec => []TypeOK
<1>1. SearchInv => TypeOK
  BY GateTypes DEF SearchInv, TypeOK
<1>2. QED
  BY <1>1, SearchesKeepInv, PTL

\* The two copies of Produced and apply_ops are one.
LEMMA GateProduced ==
  ASSUME NEW v, NEW ops, Produced(v, ops)
  PROVE  Gate!Produced(v, ops) /\ Gate!Applies(v, ops)
<1>1. Gate!Produced(v, ops)
  BY DEF Produced, NewEdges, NewNodes, NewClaims, WritesCommitted, OpsOf, Get, Gate!Produced,
         Gate!NewEdges, Gate!NewNodes, Gate!NewClaims, Gate!WritesCommitted, Gate!OpsOf, Gate!Get
<1>2. Gate!Applies(v, ops)
  BY DEF Produced, WritesCommitted, OpsOf, Gate!Applies
<1>3. QED
  BY <1>1, <1>2

\* apply_ops is the same there.
LEMMA GateApplies ==
  ASSUME NEW v, NEW ops
  PROVE  Gate!ApplyOps(v, ops) = ApplyOps(v, ops)
<1>1. \A S : Gate!Greatest(S) = Greatest(S) /\ Gate!Least(S) = Least(S)
  BY DEF Gate!Greatest, Greatest, Gate!Least, Least
<1>2. \A s, kind : Gate!OpsOf(s, kind) = OpsOf(s, kind)
  BY DEF Gate!OpsOf, OpsOf
<1>3. \A s, id, f : Gate!Upserts(s, id) = Upserts(s, id) /\ Gate!Writes(s, id, f) = Writes(s, id, f)
  BY DEF Gate!Upserts, Upserts, Gate!Writes, Writes
<1>4. \A s, e : /\ Gate!Removes(s, e) = Removes(s, e)
                /\ Gate!StandingAdds(s, e) = StandingAdds(s, e)
  BY DEF Gate!StandingAdds, StandingAdds, Gate!Adds, Adds, Gate!Removes, Removes
<1>5. \A id : Gate!NodeAfter(v, ops, id) = NodeAfter(v, ops, id)
  BY <1>1, <1>2, <1>3 DEF Gate!NodeAfter, NodeAfter, Gate!BaseNode, BaseNode
<1>6. \A e : Gate!EdgeAfter(v, ops, e) = EdgeAfter(v, ops, e)
  BY <1>1, <1>4 DEF Gate!EdgeAfter, EdgeAfter, Gate!EdgeRecord, EdgeRecord
<1>7. QED
  BY <1>2, <1>4, <1>5, <1>6 DEF Gate!ApplyOps, ApplyOps


\* What is accepted here is accepted there.
LEMMA GateAccepts ==
  ASSUME NEW v, NEW p, Accepts(v, p),
         \A i \in DOMAIN p.ops : p.ops[i].op \in {"set_field", "upsert_node", "add_edge"}
  PROVE  Gate!Accepts(v, p)
<1>1. /\ \A op : Gate!OpClass(op) = OpClass(op)
      /\ \A fields, name : Gate!Get(fields, name) = Get(fields, name)
      /\ \A S : Gate!Greatest(S) = Greatest(S) /\ Gate!Least(S) = Least(S)
      /\ \A ops, kind : Gate!OpsOf(ops, kind) = OpsOf(ops, kind)
      /\ \A ops, id : Gate!Upserts(ops, id) = Upserts(ops, id)
      /\ \A ops, e : Gate!Adds(ops, e) = Adds(ops, e) /\ Gate!Removes(ops, e) = Removes(ops, e)
      /\ \A ops, rel : Gate!EdgeOps(ops, rel) = EdgeOps(ops, rel)
      /\ \A op : Gate!Identities(op) = Identities(op)
      /\ \A ops, t : Gate!TacticUpserts(ops, t) = TacticUpserts(ops, t)
      /\ Gate!EXECUTOR_FAILURES = EXECUTOR_FAILURES
      /\ Gate!ANNOTATION_FIELDS = ANNOTATION_FIELDS
  BY DEF Gate!OpClass, OpClass, Gate!Get, Get, Gate!Greatest, Greatest, Gate!Least, Least,
         Gate!OpsOf, OpsOf, Gate!Upserts, Upserts, Gate!Adds, Adds, Gate!Removes, Removes,
         Gate!EdgeOps, EdgeOps, Gate!Identities, Identities, Gate!TacticUpserts, TacticUpserts,
         Gate!EXECUTOR_FAILURES, EXECUTOR_FAILURES, Gate!ANNOTATION_FIELDS, ANNOTATION_FIELDS
<1>2. /\ \A ops : Gate!Tactics(ops) = Tactics(ops)
      /\ \A ops, t : Gate!TacticFields(ops, t) = TacticFields(ops, t)
  BY <1>1 DEF Gate!Tactics, Tactics, Gate!TacticFields, TacticFields
<1>3. \A label, field, value :
        Gate!InVocabulary(label, field, value) <=> InVocabulary(label, field, value)
  BY GateTables DEF Gate!InVocabulary, InVocabulary
<1>4. Gate!CheckTokens(p)
  BY <1>1 DEF Accepts, Gate!CheckTokens, CheckTokens
<1>5. Gate!CheckVocabulary(p.ops)
  BY <1>3 DEF Accepts, Gate!CheckVocabulary, CheckVocabulary
<1>6. Gate!CheckNamespace(p.proof_id, p.ops)
  BY <1>1 DEF Accepts, Gate!CheckNamespace, CheckNamespace
<1>7. Gate!CheckSubgoals(p.ops)
  <2>1. \A S : Gate!Cardinality(S) = Cardinality(S)
    BY DEF Gate!Cardinality, Cardinality
  <2>2. QED
    BY <1>1, <1>2, <2>1 DEF Accepts, Gate!CheckSubgoals, CheckSubgoals
<1>8. Gate!CheckExecutor(p.ops)
  BY <1>1, <1>2 DEF Accepts, Gate!CheckExecutor, CheckExecutor
<1>9. Gate!CheckAnnotations(p.ops)
  BY <1>1 DEF Accepts, Gate!CheckAnnotations, CheckAnnotations
<1>10. \A ops, id : Gate!LabelOf(v, ops, id) = LabelOf(v, ops, id)
  BY <1>1 DEF Gate!LabelOf, LabelOf
<1>11. \A ops, e : Gate!RelOf(v, ops, e) = RelOf(v, ops, e)
  BY <1>1 DEF Gate!RelOf, RelOf
<1>12. \A rel : Gate!EDGE_ENDPOINTS(rel) = EDGE_ENDPOINTS(rel)
  BY DEF Gate!EDGE_ENDPOINTS, EDGE_ENDPOINTS
<1>13. Gate!CheckReferences(v, p.ops)
  <2> SUFFICES ASSUME NEW i \in DOMAIN p.ops
               PROVE  LET op == p.ops[i]
                      IN /\ op.op = "set_field" => Gate!LabelOf(v, p.ops, op.id) = op.label
                         /\ op.op = "add_edge" =>
                              LET ends == <<Gate!LabelOf(v, p.ops, op.src),
                                            Gate!LabelOf(v, p.ops, op.dst)>>
                              IN /\ ends[1] # None /\ ends[2] # None
                                 /\ Gate!EDGE_ENDPOINTS(op.rel) # {} =>
                                      ends \in Gate!EDGE_ENDPOINTS(op.rel)
                         /\ op.op = "upsert_node" =>
                              (op.id \in DOMAIN v.nodes =>
                                 \A f \in DOMAIN op.fields :
                                   /\ f \in DOMAIN v.nodes[op.id].fields
                                   /\ v.nodes[op.id].fields[f] = op.fields[f])
    BY DEF Gate!CheckReferences
  <2>1. CheckReferences(v, p.ops)
    BY DEF Accepts
  <2>2. LET op == p.ops[i]
        IN /\ op.op = "set_field" => LabelOf(v, p.ops, op.id) = op.label
           /\ op.op = "add_edge" =>
                LET ends == <<LabelOf(v, p.ops, op.src), LabelOf(v, p.ops, op.dst)>>
                IN /\ ends[1] # None /\ ends[2] # None
                   /\ EDGE_ENDPOINTS(op.rel) # {} => ends \in EDGE_ENDPOINTS(op.rel)
           /\ op.op = "upsert_node" =>
                (op.id \in DOMAIN v.nodes =>
                   \A f \in DOMAIN op.fields :
                     /\ f \in DOMAIN v.nodes[op.id].fields
                     /\ v.nodes[op.id].fields[f] = op.fields[f])
    BY <2>1 DEF CheckReferences
  <2>3. QED
    BY <2>2, <1>10, <1>12
<1>14. \A op : Gate!CommittedValue(v, op) = CommittedValue(v, op)
  BY <1>1 DEF Gate!CommittedValue, CommittedValue
<1>15. Gate!CheckPriors(v, p.ops)
  BY <1>1, <1>14 DEF Accepts, Gate!CheckPriors, CheckPriors
<1>16. \A label, field : Gate!STATUS_TRANSITIONS(label, field) = STATUS_TRANSITIONS(label, field)
  BY DEF Gate!STATUS_TRANSITIONS, STATUS_TRANSITIONS
<1>17. \A label, field, value :
         Gate!AllowedFrom(label, field, value) = AllowedFrom(label, field, value)
  BY <1>16 DEF Gate!AllowedFrom, AllowedFrom
<1>18. Gate!CheckTransitions(v, p.ops)
  BY <1>1, <1>14, <1>16, <1>17 DEF Accepts, Gate!CheckTransitions, CheckTransitions
<1>19. \A label : Gate!IMMUTABLE_FIELDS(label) = IMMUTABLE_FIELDS(label)
  BY DEF Gate!IMMUTABLE_FIELDS, IMMUTABLE_FIELDS
<1>20. Gate!CheckImmutability(p.ops)
  BY <1>1, <1>19 DEF Accepts, Gate!CheckImmutability, CheckImmutability
<1>21. /\ \A ops, id, rel : Gate!EdgeTargets(v, ops, id, rel) = EdgeTargets(v, ops, id, rel)
       /\ \A ops, id, rel : Gate!EdgeSources(v, ops, id, rel) = EdgeSources(v, ops, id, rel)
       /\ \A ops, id : Gate!NodeFields(v, ops, id) = NodeFields(v, ops, id)
       /\ \A ops : Gate!Promotions(ops) = Promotions(ops)
  <2>1. \A ops, id, rel : Gate!EdgeTargets(v, ops, id, rel) = EdgeTargets(v, ops, id, rel)
    BY <1>1 DEF Gate!EdgeTargets, EdgeTargets, Gate!EdgesFrom, EdgesFrom
  <2>2. \A ops, id, rel : Gate!EdgeSources(v, ops, id, rel) = EdgeSources(v, ops, id, rel)
    BY <1>1 DEF Gate!EdgeSources, EdgeSources, Gate!EdgesTo, EdgesTo
  <2>3. \A ops, id : Gate!NodeFields(v, ops, id) = NodeFields(v, ops, id)
    BY <1>1 DEF Gate!NodeFields, NodeFields, Gate!NoFields, NoFields
  <2>4. \A ops : Gate!Promotions(ops) = Promotions(ops)
    BY <1>1 DEF Gate!Promotions, Promotions
  <2>5. QED
    BY <2>1, <2>2, <2>3, <2>4
<1>22. Gate!CheckStagnation(v, p.ops)
  BY <1>1, <1>21 DEF Accepts, Gate!CheckStagnation, CheckStagnation
<1>23. Gate!CheckReplayEvidence(v, p.ops)
  <2>1. \A c, r : Gate!IndependentReplay(c, r) <=> IndependentReplay(c, r)
    BY <1>1 DEF Gate!IndependentReplay, IndependentReplay
  <2>2. QED
    BY <1>21, <2>1 DEF Accepts, Gate!CheckReplayEvidence, CheckReplayEvidence
<1>24. Gate!CheckSelfCertification(v, p.ops)
  BY <1>1, <1>21 DEF Accepts, Gate!CheckSelfCertification, CheckSelfCertification
<1>25. Gate!CheckAlignmentGate(v, p.ops)
  <2>1. \A a : Gate!ReviewedAligned(a) <=> ReviewedAligned(a)
    BY <1>1 DEF Gate!ReviewedAligned, ReviewedAligned
  <2>2. QED
    BY <1>21, <2>1 DEF Accepts, Gate!CheckAlignmentGate, CheckAlignmentGate
<1>26. QED
  BY <1>4, <1>5, <1>6, <1>7, <1>8, <1>9, <1>13, <1>15, <1>18, <1>20, <1>22, <1>23, <1>24, <1>25
     DEF Gate!Accepts

\* Whatever an adapter answers, a step that commits is a step of the gate that CommitGate
\* models (CommitsAreDisciplined): its ops keep to the discipline CommitGateProofs assume of
\* producers, so what is proved there of one commit holds of every commit here.
THEOREM ProducersAreDisciplined == Spec => CommitsAreDisciplined
<1>1. ASSUME SearchInv, [Next]_vars, view' # view PROVE Gate!Commit(submitted')
  <2>1. PICK ops, leased : Disciplined(ops, leased)
    BY <1>1, StepKeeps DEF Concluded, Bridged
  <2>2. submitted'.ops = ops /\ submitted'.proof_id = Proof
    BY <2>1 DEF Disciplined, Proposal
  <2>3. Gate!Produced(view, submitted'.ops) /\ Gate!Applies(view, submitted'.ops)
    BY <2>1, <2>2, GateProduced DEF Disciplined
  <2>4. Gate!Accepts(view, submitted')
    BY <2>1, <2>2, GateAccepts DEF Disciplined
  <2>5. view' = Gate!ApplyOps(view, submitted'.ops)
    BY <2>1, <2>2, GateApplies DEF Disciplined
  <2>6. QED
    BY <2>2, <2>3, <2>4, <2>5 DEF Gate!Commit, Gate!Produced
<1>2. SearchInv /\ [Next]_vars => [view' # view => Gate!Commit(submitted')]_vars
  BY <1>1
<1>3. QED
  BY <1>2, SearchesKeepInv, PTL DEF Spec, CommitsAreDisciplined

\* What a list holds.
LEMMA InRange == ASSUME NEW s, NEW x PROVE x \in Range(s) <=> \E i \in DOMAIN s : s[i] = x
  BY DEF Range

LEMMA RangeWhen ==
  ASSUME NEW condition \in BOOLEAN, NEW s
  PROVE  Range(When(condition, s)) = IF condition THEN Range(s) ELSE {}
  BY NoneList DEF When

LEMMA RangeBoth ==
  ASSUME NEW s, NEW t, IsList(s), IsList(t)
  PROVE  Range(s \o t) = Range(s) \cup Range(t)
  BY Concat

\* What the parts of a proposal hold.
SaysStates(v, r, scope, op) ==
  \E s \in DOMAIN r.states :
    LET id == <<scope, "fs", s>>
    IN \/ /\ id \notin DOMAIN v.nodes
          /\ op = UpsertNode("FormalState", id, r.states[s])
       \/ /\ id \in DOMAIN v.nodes
          /\ Get(v.nodes[id].fields, "status") # r.states[s].status
          /\ op = SetField("FormalState", id, "status", r.states[s].status,
                           Get(v.nodes[id].fields, "status"))

SaysRun(v, r, run, declaration, scope, op) ==
  \/ /\ run \in DOMAIN v.nodes
     /\ Get(v.nodes[run].fields, "status") # r.disposition
     /\ op = SetField("FormalRun", run, "status", r.disposition, Get(v.nodes[run].fields, "status"))
  \/ /\ run \notin DOMAIN v.nodes
     /\ \/ op = UpsertNode("FormalRun", run, [actor |-> "formal-atp", status |-> r.disposition])
        \/ r.rooted /\ op = AddEdge("HAS_ROOT", run, <<scope, "fs", 1>>, Append(run, "root"), None)
  \/ /\ declaration \notin EdgeTargets(v, <<>>, run, "SEARCHES") \cup {None}
     /\ op = AddEdge("SEARCHES", run, declaration, Append(run, "searches"), None)

SaysTactics(op) ==
  \/ op.op = "upsert_node" /\ op.label = "TacticApplication" /\ op.id[2] = "ta"
  \/ op.op = "add_edge" /\ op.rel \in {"HAS_TACTIC", "FORMAL_REQUIRES", "CLOSES_STATE"}

SaysCheckpoint(v, proof, r, run, scope, op) ==
  LET fc == <<proof, "fc", NextSerial(v, "fc")>>
  IN /\ r.frontier # <<>>
     /\ \/ op = UpsertNode("FormalCheckpoint", fc, [actor |-> "formal-atp", epoch_ms |-> r.epoch])
        \/ op = AddEdge("HAS_CHECKPOINT", run, fc, Append(fc, "in"), None)
        \/ \E i \in DOMAIN r.frontier :
             op = AddEdge("CHECKPOINT_FRONTIER", fc, <<scope, "fs", r.frontier[i]>>,
                          fc \o <<"frontier", i - 1>>, None)

SaysCertificate(v, proof, r, run, declaration, op) ==
  LET cert == <<proof, "cert", NextSerial(v, "cert")>>
  IN /\ r.certificate
     /\ \/ op = UpsertNode("Certificate", cert, [actor |-> "formal-atp", producer_run_id |-> run,
                                                 status |-> "candidate"])
        \/ op = AddEdge("PRODUCED_CERTIFICATE", run, cert, Append(cert, "produced"), None)
        \/ /\ declaration # None
           /\ op = AddEdge("CERTIFIES", cert, declaration, Append(cert, "certifies"), None)

SaysObstructions(op) ==
  \/ op.op = "upsert_node" /\ op.label = "Obstruction" /\ op.id[2] = "obs"
  \/ op.op = "add_edge" /\ op.rel \in {"RAISED_OBSTRUCTION", "AT_STATE"}

LEMMA StatesSaid ==
  ASSUME NEW v, NEW r, IsList(r.states), NEW scope, NEW op
  PROVE  op \in Range(StateOps(v, r, scope)) <=> SaysStates(v, r, scope, op)
<1> DEFINE id(s) == <<scope, "fs", s>>
<1> DEFINE part(s) == IF id(s) \in DOMAIN v.nodes
                      THEN Advance(v, "FormalState", id(s), r.states[s].status)
                      ELSE <<UpsertNode("FormalState", id(s), r.states[s])>>
<1> DEFINE seqs == [s \in DOMAIN r.states |-> part(s)]
<1>1. StateOps(v, r, scope) = FlattenSeq(seqs)
  BY DEF StateOps
<1>2. ASSUME NEW s \in DOMAIN r.states
      PROVE  /\ IsList(part(s))
             /\ op \in Range(part(s)) <=>
                  \/ /\ id(s) \notin DOMAIN v.nodes
                     /\ op = UpsertNode("FormalState", id(s), r.states[s])
                  \/ /\ id(s) \in DOMAIN v.nodes
                     /\ Get(v.nodes[id(s)].fields, "status") # r.states[s].status
                     /\ op = SetField("FormalState", id(s), "status", r.states[s].status,
                                      Get(v.nodes[id(s)].fields, "status"))
  <2>1. CASE id(s) \in DOMAIN v.nodes
    <3> DEFINE current == Get(v.nodes[id(s)].fields, "status")
    <3> DEFINE write == SetField("FormalState", id(s), "status", r.states[s].status, current)
    <3>1. part(s) = IF r.states[s].status # current THEN <<write>> ELSE <<>>
      BY <2>1 DEF Advance, When
    <3> HIDE DEF write
    <3>2. IsList(<<write>>) /\ Range(<<write>>) = {write}
      BY OneList, OneRange
    <3>3. IsList(part(s)) /\ Range(part(s)) = IF r.states[s].status # current THEN {write} ELSE {}
      BY <3>1, <3>2, NoneList
    <3> HIDE DEF part, id, current
    <3>4. QED
      BY <2>1, <3>3 DEF write, current
  <2>2. CASE id(s) \notin DOMAIN v.nodes
    <3> DEFINE up == UpsertNode("FormalState", id(s), r.states[s])
    <3>1. part(s) = <<up>>
      BY <2>2
    <3> HIDE DEF up
    <3>2. IsList(part(s)) /\ Range(part(s)) = {up}
      BY <3>1, OneList, OneRange
    <3> HIDE DEF part, id
    <3>3. QED
      BY <2>2, <3>2 DEF up
  <2>3. QED
    BY <2>1, <2>2
<1>3. DOMAIN r.states = 1..Len(r.states) /\ Len(r.states) \in Nat
  BY ListFacts
<1> HIDE DEF part
<1>4. IsList(seqs)
  BY <1>3, MadeList
<1>5. DOMAIN seqs = DOMAIN r.states /\ \A s \in DOMAIN r.states : seqs[s] = part(s)
  OBVIOUS
<1> HIDE DEF seqs
<1>6. Range(FlattenSeq(seqs)) = UNION {Range(seqs[s]) : s \in DOMAIN seqs}
  BY <1>2, <1>4, <1>5, FlattenList
<1>7. op \in Range(FlattenSeq(seqs)) <=> \E s \in DOMAIN r.states : op \in Range(part(s))
  BY <1>5, <1>6
<1>8. QED
  BY <1>1, <1>2, <1>7 DEF SaysStates

LEMMA RunSaid ==
  ASSUME NEW v, NEW r, r.rooted \in BOOLEAN, NEW run, NEW declaration, NEW scope, NEW op
  PROVE  op \in Range(RunOps(v, r, run, declaration, scope)) <=>
           SaysRun(v, r, run, declaration, scope, op)
<1> DEFINE current == Get(v.nodes[run].fields, "status")
<1> DEFINE write == SetField("FormalRun", run, "status", r.disposition, current)
<1> DEFINE up == UpsertNode("FormalRun", run, [actor |-> "formal-atp", status |-> r.disposition])
<1> DEFINE root == AddEdge("HAS_ROOT", run, <<scope, "fs", 1>>, Append(run, "root"), None)
<1> DEFINE search == AddEdge("SEARCHES", run, declaration, Append(run, "searches"), None)
<1> DEFINE new == declaration \notin EdgeTargets(v, <<>>, run, "SEARCHES") \cup {None}
<1> DEFINE first == IF run \in DOMAIN v.nodes THEN When(r.disposition # current, <<write>>)
                    ELSE <<up>> \o When(r.rooted, <<root>>)
<1>1. RunOps(v, r, run, declaration, scope) = first \o When(new, <<search>>)
  BY DEF RunOps, Advance
<1>2. SaysRun(v, r, run, declaration, scope, op) <=>
        \/ run \in DOMAIN v.nodes /\ r.disposition # current /\ op = write
        \/ run \notin DOMAIN v.nodes /\ (op = up \/ (r.rooted /\ op = root))
        \/ new /\ op = search
  BY DEF SaysRun
<1> HIDE DEF current, write, up, root, search, new
<1>3. \A x : IsList(<<x>>) /\ Range(<<x>>) = {x}
  BY OneList, OneRange
<1>4. \A condition \in BOOLEAN : \A x :
        /\ IsList(When(condition, <<x>>))
        /\ Range(When(condition, <<x>>)) = IF condition THEN {x} ELSE {}
  BY <1>3, NoneList DEF When
<1>5. new \in BOOLEAN /\ (r.disposition # current) \in BOOLEAN
  BY DEF new
<1>6. IsList(first)
      /\ Range(first) = IF run \in DOMAIN v.nodes
                        THEN IF r.disposition # current THEN {write} ELSE {}
                        ELSE {up} \cup IF r.rooted THEN {root} ELSE {}
  <2>1. CASE run \in DOMAIN v.nodes
    BY <2>1, <1>4, <1>5
  <2>2. CASE run \notin DOMAIN v.nodes
    <3>1. first = <<up>> \o When(r.rooted, <<root>>)
      BY <2>2
    <3> DEFINE t == When(r.rooted, <<root>>)
    <3> DEFINE s == <<up>>
    <3>2. IsList(s) /\ Range(s) = {up} /\ IsList(t) /\ Range(t) = IF r.rooted THEN {root} ELSE {}
      BY <1>3, <1>4
    <3> HIDE DEF s, t, first
    <3>3. IsList(s \o t) /\ Range(s \o t) = Range(s) \cup Range(t)
      BY <3>2, Concat
    <3>4. first = s \o t
      BY <3>1 DEF s, t
    <3>5. QED
      BY <2>2, <3>2, <3>3, <3>4
  <2>3. QED
    BY <2>1, <2>2
<1> DEFINE last == When(new, <<search>>)
<1>7. IsList(last) /\ Range(last) = IF new THEN {search} ELSE {}
  BY <1>4, <1>5
<1>8. RunOps(v, r, run, declaration, scope) = first \o last
  BY <1>1
<1> HIDE DEF first, last
<1>9. Range(first \o last) = Range(first) \cup Range(last)
  BY <1>6, <1>7, Concat
<1>10. op \in Range(RunOps(v, r, run, declaration, scope)) <=> op \in Range(first) \/ op \in Range(last)
  BY <1>8, <1>9
<1>11. QED
  BY <1>2, <1>6, <1>7, <1>10

\* A node, an edge to it and edges of its own.
LEMMA RaisedSaid ==
  ASSUME NEW a, NEW b, NEW s, IsList(s), NEW op
  PROVE  /\ IsList(<<a, b>> \o s)
         /\ op \in Range(<<a, b>> \o s) <=> op = a \/ op = b \/ op \in Range(s)
<1> DEFINE x == <<a>>
<1> DEFINE y == <<b>>
<1> DEFINE z == <<a, b>>
<1>1. z = x \o y
  BY Pair
<1>2. IsList(x) /\ IsList(y) /\ Range(x) = {a} /\ Range(y) = {b}
  BY OneList, OneRange
<1> HIDE DEF x, y, z
<1>3. IsList(x \o y) /\ Range(x \o y) = {a} \cup {b}
  BY <1>2, Concat
<1>4. IsList(z) /\ Range(z) = {a, b}
  BY <1>1, <1>3
<1>5. IsList(z \o s) /\ Range(z \o s) = {a, b} \cup Range(s)
  BY <1>4, Concat
<1>6. QED
  BY <1>5 DEF z

LEMMA CheckpointSaid ==
  ASSUME NEW v, NEW r, IsList(r.frontier), NEW run, NEW scope, NEW proof, NEW op
  PROVE  op \in Range(CheckpointOps(v, proof, r, run, scope)) <=>
           SaysCheckpoint(v, proof, r, run, scope, op)
<1> DEFINE fc == <<proof, "fc", NextSerial(v, "fc")>>
<1> DEFINE a == UpsertNode("FormalCheckpoint", fc, [actor |-> "formal-atp", epoch_ms |-> r.epoch])
<1> DEFINE b == AddEdge("HAS_CHECKPOINT", run, fc, Append(fc, "in"), None)
<1> DEFINE edge(i) == AddEdge("CHECKPOINT_FRONTIER", fc, <<scope, "fs", r.frontier[i]>>,
                              fc \o <<"frontier", i - 1>>, None)
<1> DEFINE s == [i \in DOMAIN r.frontier |-> edge(i)]
<1>1. CheckpointOps(v, proof, r, run, scope) = When(r.frontier # <<>>, <<a, b>> \o s)
  BY DEF CheckpointOps
<1>2. SaysCheckpoint(v, proof, r, run, scope, op) <=>
        r.frontier # <<>> /\ (op = a \/ op = b \/ \E i \in DOMAIN r.frontier : op = edge(i))
  BY DEF SaysCheckpoint
<1>3. DOMAIN r.frontier = 1..Len(r.frontier) /\ Len(r.frontier) \in Nat
  BY ListFacts
<1> HIDE DEF a, b, edge
<1>4. IsList(s)
  BY <1>3, MadeList
<1>5. op \in Range(s) <=> \E i \in DOMAIN r.frontier : op = edge(i)
  BY DEF Range
<1> HIDE DEF s
<1>6. op \in Range(<<a, b>> \o s) <=> op = a \/ op = b \/ op \in Range(s)
  BY <1>4, RaisedSaid
<1> DEFINE t == <<a, b>> \o s
<1> HIDE DEF t
<1>7. op \in Range(When(r.frontier # <<>>, t)) <=> r.frontier # <<>> /\ op \in Range(t)
  BY RangeWhen
<1>8. QED
  BY <1>1, <1>2, <1>5, <1>6, <1>7 DEF t

LEMMA CertificateSaid ==
  ASSUME NEW v, NEW r, NEW run, NEW declaration, NEW proof, NEW op, r.certificate \in BOOLEAN
  PROVE  op \in Range(CertificateOps(v, proof, r, run, declaration)) <=>
           SaysCertificate(v, proof, r, run, declaration, op)
<1> DEFINE cert == <<proof, "cert", NextSerial(v, "cert")>>
<1> DEFINE a == UpsertNode("Certificate", cert, [actor |-> "formal-atp", producer_run_id |-> run,
                                                 status |-> "candidate"])
<1> DEFINE b == AddEdge("PRODUCED_CERTIFICATE", run, cert, Append(cert, "produced"), None)
<1> DEFINE c == AddEdge("CERTIFIES", cert, declaration, Append(cert, "certifies"), None)
<1> DEFINE s == When(declaration # None, <<c>>)
<1>1. CertificateOps(v, proof, r, run, declaration) = When(r.certificate, <<a, b>> \o s)
  BY DEF CertificateOps
<1>2. SaysCertificate(v, proof, r, run, declaration, op) <=>
        r.certificate /\ (op = a \/ op = b \/ (declaration # None /\ op = c))
  BY DEF SaysCertificate
<1> HIDE DEF a, b, c
<1>3. IsList(<<c>>) /\ Range(<<c>>) = {c}
  BY OneList, OneRange
<1>4. IsList(s) /\ (op \in Range(s) <=> declaration # None /\ op = c)
  BY <1>3, NoneList DEF When
<1> HIDE DEF s
<1>5. op \in Range(<<a, b>> \o s) <=> op = a \/ op = b \/ op \in Range(s)
  BY <1>4, RaisedSaid
<1> DEFINE t == <<a, b>> \o s
<1> HIDE DEF t
<1>6. op \in Range(When(r.certificate, t)) <=> r.certificate /\ op \in Range(t)
  BY RangeWhen
<1>7. QED
  BY <1>1, <1>2, <1>4, <1>5, <1>6 DEF t

\* Every op of a list of parts is an op of a part.
LEMMA FlatSaid ==
  ASSUME NEW seqs, IsList(seqs), \A i \in DOMAIN seqs : IsList(seqs[i]),
         NEW op, op \in Range(FlattenSeq(seqs))
  PROVE  \E i \in DOMAIN seqs : op \in Range(seqs[i])
<1>1. Range(FlattenSeq(seqs)) = UNION {Range(seqs[i]) : i \in DOMAIN seqs}
  BY FlattenList
<1>2. QED
  BY <1>1

LEMMA TacticsSaid ==
  ASSUME NEW v, NEW r, IsList(r.tactics), \A i \in DOMAIN r.tactics : IsList(r.tactics[i].children),
         NEW scope, NEW op, op \in Range(NewTacticOps(v, r, scope))
  PROVE  SaysTactics(op)
<1> DEFINE t(i) == <<scope, "ta", i>>
<1> DEFINE made(i) == TacticOps(t(i), r.tactics[i], scope)
<1> DEFINE part(i) == When(t(i) \notin DOMAIN v.nodes, made(i))
<1> DEFINE seqs == [i \in DOMAIN r.tactics |-> part(i)]
<1>1. NewTacticOps(v, r, scope) = FlattenSeq(seqs)
  BY DEF NewTacticOps
<1>2. ASSUME NEW i \in DOMAIN r.tactics
      PROVE  IsList(made(i)) /\ \A o \in Range(made(i)) : SaysTactics(o)
  <2> DEFINE state(k) == <<scope, "fs", k>>
  <2> DEFINE tactic == r.tactics[i]
  <2> DEFINE a == UpsertNode("TacticApplication", t(i), AppliedFields(tactic))
  <2> DEFINE b == AddEdge("HAS_TACTIC", state(tactic.source), t(i), Append(t(i), "at"), None)
  <2> DEFINE edge(c) == AddEdge("FORMAL_REQUIRES", t(i), state(tactic.children[c]),
                                t(i) \o <<"req", c - 1>>, c - 1)
  <2> DEFINE s == [c \in DOMAIN tactic.children |-> edge(c)]
  <2> DEFINE c == AddEdge("CLOSES_STATE", t(i), state(tactic.source), Append(t(i), "closes"), None)
  <2> DEFINE u == When(tactic.children = <<>> /\ tactic.executor_result = "lean-accepted", <<c>>)
  <2>1. made(i) = (<<a, b>> \o s) \o u
    BY DEF TacticOps
  <2>2. /\ SaysTactics(a) /\ SaysTactics(b) /\ SaysTactics(c)
        /\ \A k \in DOMAIN tactic.children : SaysTactics(edge(k))
    BY DEF SaysTactics, UpsertNode, AddEdge
  <2>3. DOMAIN tactic.children = 1..Len(tactic.children) /\ Len(tactic.children) \in Nat
    BY ListFacts
  <2> HIDE DEF a, b, c, edge
  <2>4. IsList(s)
    BY <2>3, MadeList
  <2>5. \A o \in Range(s) : SaysTactics(o)
    BY <2>2 DEF Range
  <2>6. IsList(<<c>>) /\ Range(<<c>>) = {c}
    BY OneList, OneRange
  <2>7. IsList(u) /\ \A o \in Range(u) : SaysTactics(o)
    BY <2>2, <2>6, NoneList DEF When
  <2> HIDE DEF s, u
  <2> DEFINE w == <<a, b>> \o s
  <2>8. IsList(w) /\ \A o \in Range(w) : SaysTactics(o)
    BY <2>2, <2>4, <2>5, RaisedSaid
  <2> HIDE DEF w, made
  <2>9. made(i) = w \o u
    BY <2>1 DEF w
  <2>10. IsList(w \o u) /\ Range(w \o u) = Range(w) \cup Range(u)
    BY <2>7, <2>8, Concat
  <2>11. QED
    BY <2>7, <2>8, <2>9, <2>10
<1> HIDE DEF made
<1>3. \A i \in DOMAIN r.tactics : IsList(part(i)) /\ \A o \in Range(part(i)) : SaysTactics(o)
  BY <1>2, NoneList DEF When
<1>4. DOMAIN r.tactics = 1..Len(r.tactics) /\ Len(r.tactics) \in Nat
  BY ListFacts
<1> HIDE DEF part
<1>5. IsList(seqs)
  BY <1>4, MadeList
<1>6. DOMAIN seqs = DOMAIN r.tactics /\ \A i \in DOMAIN r.tactics : seqs[i] = part(i)
  OBVIOUS
<1> HIDE DEF seqs
<1>7. PICK i \in DOMAIN seqs : op \in Range(seqs[i])
  BY <1>1, <1>3, <1>5, <1>6, FlatSaid
<1>8. QED
  BY <1>3, <1>6, <1>7

LEMMA ObstructionsSaid ==
  ASSUME NEW v, NEW r, IsList(r.obstructions),
         \A i \in DOMAIN r.obstructions : IsList(r.obstructions[i].states),
         NEW run, NEW scope, NEW op, op \in Range(ObstructionOps(v, r, run, scope))
  PROVE  SaysObstructions(op)
<1> DEFINE obs(i) == <<scope, "obs", r.obstructions[i].serial>>
<1> DEFINE a(i) == UpsertNode("Obstruction", obs(i),
                              [kind |-> r.obstructions[i].kind, actor |-> "formal-atp"])
<1> DEFINE b(i) == AddEdge("RAISED_OBSTRUCTION", run, obs(i), Append(obs(i), "raised"), None)
<1> DEFINE edge(i, k) == AddEdge("AT_STATE", obs(i), <<scope, "fs", r.obstructions[i].states[k]>>,
                                 obs(i) \o <<"state", k - 1>>, None)
<1> DEFINE s(i) == [k \in DOMAIN r.obstructions[i].states |-> edge(i, k)]
<1> DEFINE made(i) == <<a(i), b(i)>> \o s(i)
<1> DEFINE part(i) == When(obs(i) \notin DOMAIN v.nodes, made(i))
<1> DEFINE seqs == [i \in DOMAIN r.obstructions |-> part(i)]
<1>1. ObstructionOps(v, r, run, scope) = FlattenSeq(seqs)
  BY DEF ObstructionOps
<1>2. ASSUME NEW i \in DOMAIN r.obstructions
      PROVE  IsList(made(i)) /\ \A o \in Range(made(i)) : SaysObstructions(o)
  <2>1. /\ SaysObstructions(a(i)) /\ SaysObstructions(b(i))
        /\ \A k \in DOMAIN r.obstructions[i].states : SaysObstructions(edge(i, k))
    BY DEF SaysObstructions, UpsertNode, AddEdge
  <2>2. /\ DOMAIN r.obstructions[i].states = 1..Len(r.obstructions[i].states)
        /\ Len(r.obstructions[i].states) \in Nat
    BY ListFacts
  <2> HIDE DEF a, b, edge
  <2>3. IsList(s(i))
    BY <2>2, MadeList
  <2>4. \A o \in Range(s(i)) : SaysObstructions(o)
    BY <2>1 DEF Range
  <2> HIDE DEF s
  <2>5. QED
    BY <2>1, <2>3, <2>4, RaisedSaid
<1> HIDE DEF made
<1>3. \A i \in DOMAIN r.obstructions :
        IsList(part(i)) /\ \A o \in Range(part(i)) : SaysObstructions(o)
  BY <1>2, NoneList DEF When
<1>4. DOMAIN r.obstructions = 1..Len(r.obstructions) /\ Len(r.obstructions) \in Nat
  BY ListFacts
<1> HIDE DEF part
<1>5. IsList(seqs)
  BY <1>4, MadeList
<1>6. DOMAIN seqs = DOMAIN r.obstructions /\ \A i \in DOMAIN r.obstructions : seqs[i] = part(i)
  OBVIOUS
<1> HIDE DEF seqs
<1>7. PICK i \in DOMAIN seqs : op \in Range(seqs[i])
  BY <1>1, <1>3, <1>5, <1>6, FlatSaid
<1>8. QED
  BY <1>3, <1>6, <1>7

\* The parts of a proposal are lists.
LEMMA PartsListed ==
  ASSUME NEW v, Numbered(v), NEW r, IsPayload(r), NEW run, IsId(run), run[2] = "fr",
         NEW declaration, NEW scope, NEW proof,
         run \in DOMAIN v.nodes => declaration \in EdgeTargets(v, <<>>, run, "SEARCHES") \cup {None}
  PROVE  /\ IsList(StateOps(v, r, scope)) /\ IsList(RunOps(v, r, run, declaration, scope))
         /\ IsList(NewTacticOps(v, r, scope)) /\ IsList(CheckpointOps(v, proof, r, run, scope))
         /\ IsList(CertificateOps(v, proof, r, run, declaration))
         /\ IsList(ObstructionOps(v, r, run, scope))
<1>1. /\ IsList(r.states) /\ IsList(r.frontier)
      /\ \A s \in DOMAIN r.states : IsMap(r.states[s])
  BY DEF IsPayload
<1>2. \A t, O : Makes(v, t, O) => IsList(t)
  BY DEF Makes
<1>3. IsList(StateOps(v, r, scope)) /\ IsList(CheckpointOps(v, proof, r, run, scope))
  BY <1>1, <1>2, StatesMade, CheckpointMade
<1>4. IsList(RunOps(v, r, run, declaration, scope))
  BY <1>2, RunMade
<1>5. IsList(NewTacticOps(v, r, scope)) /\ IsList(ObstructionOps(v, r, run, scope))
  <2>1. Makes(v, NewTacticOps(v, r, scope), {<<scope, "ta", i>> : i \in DOMAIN r.tactics})
    BY TacticsMade
  <2>2. Makes(v, ObstructionOps(v, r, run, scope),
              {<<scope, "obs", r.obstructions[i].serial>> : i \in DOMAIN r.obstructions})
    BY ObstructionsMade
  <2>3. QED
    BY <1>2, <2>1, <2>2
<1>6. IsList(CertificateOps(v, proof, r, run, declaration))
  BY <1>2, CertificateMade
<1>7. QED
  BY <1>3, <1>4, <1>5, <1>6

\* What a result's ops are.
LEMMA ResultSaid ==
  ASSUME NEW v, Numbered(v), NEW r, IsPayload(r), NEW run, IsId(run), run[2] = "fr",
         NEW declaration, NEW scope, NEW proof,
         run \in DOMAIN v.nodes => declaration \in EdgeTargets(v, <<>>, run, "SEARCHES") \cup {None},
         NEW op
  PROVE  /\ \/ SaysStates(v, r, scope, op) \/ SaysRun(v, r, run, declaration, scope, op)
            \/ SaysCheckpoint(v, proof, r, run, scope, op)
            \/ SaysCertificate(v, proof, r, run, declaration, op)
            => op \in Range(formal_result_to_ops(v, proof, r, run, declaration, scope))
         /\ op \in Range(formal_result_to_ops(v, proof, r, run, declaration, scope)) =>
            \/ SaysStates(v, r, scope, op) \/ SaysRun(v, r, run, declaration, scope, op)
            \/ SaysTactics(op) \/ SaysCheckpoint(v, proof, r, run, scope, op)
            \/ SaysCertificate(v, proof, r, run, declaration, op) \/ SaysObstructions(op)
<1> DEFINE a == StateOps(v, r, scope)
<1> DEFINE b == RunOps(v, r, run, declaration, scope)
<1> DEFINE c == NewTacticOps(v, r, scope)
<1> DEFINE d == CheckpointOps(v, proof, r, run, scope)
<1> DEFINE e == CertificateOps(v, proof, r, run, declaration)
<1> DEFINE f == ObstructionOps(v, r, run, scope)
<1>1. IsList(a) /\ IsList(b) /\ IsList(c) /\ IsList(d) /\ IsList(e) /\ IsList(f)
  BY PartsListed
<1>2. formal_result_to_ops(v, proof, r, run, declaration, scope) = a \o b \o c \o d \o e \o f
  BY DEF formal_result_to_ops
<1>3. /\ op \in Range(a) <=> SaysStates(v, r, scope, op)
      /\ op \in Range(b) <=> SaysRun(v, r, run, declaration, scope, op)
      /\ op \in Range(c) => SaysTactics(op)
      /\ op \in Range(d) <=> SaysCheckpoint(v, proof, r, run, scope, op)
      /\ op \in Range(e) <=> SaysCertificate(v, proof, r, run, declaration, op)
      /\ op \in Range(f) => SaysObstructions(op)
  <2>1. /\ IsList(r.states) /\ IsList(r.tactics) /\ IsList(r.frontier) /\ IsList(r.obstructions)
        /\ r.rooted \in BOOLEAN /\ r.certificate \in BOOLEAN
        /\ \A i \in DOMAIN r.tactics : IsList(r.tactics[i].children)
        /\ \A i \in DOMAIN r.obstructions : IsList(r.obstructions[i].states)
    BY DEF IsPayload
  <2>2. op \in Range(a) <=> SaysStates(v, r, scope, op)
    BY <2>1, StatesSaid
  <2>3. op \in Range(b) <=> SaysRun(v, r, run, declaration, scope, op)
    BY <2>1, RunSaid
  <2>4. op \in Range(c) => SaysTactics(op)
    BY <2>1, TacticsSaid
  <2>5. op \in Range(d) <=> SaysCheckpoint(v, proof, r, run, scope, op)
    BY <2>1, CheckpointSaid
  <2>6. op \in Range(e) <=> SaysCertificate(v, proof, r, run, declaration, op)
    BY <2>1, CertificateSaid
  <2>7. op \in Range(f) => SaysObstructions(op)
    BY <2>1, ObstructionsSaid
  <2>8. QED
    BY <2>2, <2>3, <2>4, <2>5, <2>6, <2>7
<1> HIDE DEF a, b, c, d, e, f
<1>4. IsList(a \o b) /\ Range(a \o b) = Range(a) \cup Range(b)
  BY <1>1, Concat
<1>5. IsList(a \o b \o c) /\ Range(a \o b \o c) = Range(a) \cup Range(b) \cup Range(c)
  BY <1>1, <1>4, Concat
<1>6. /\ IsList(a \o b \o c \o d)
      /\ Range(a \o b \o c \o d) = Range(a) \cup Range(b) \cup Range(c) \cup Range(d)
  BY <1>1, <1>5, Concat
<1>7. /\ IsList(a \o b \o c \o d \o e)
      /\ Range(a \o b \o c \o d \o e)
           = Range(a) \cup Range(b) \cup Range(c) \cup Range(d) \cup Range(e)
  BY <1>1, <1>6, Concat
<1>8. Range(a \o b \o c \o d \o e \o f)
        = Range(a) \cup Range(b) \cup Range(c) \cup Range(d) \cup Range(e) \cup Range(f)
  BY <1>1, <1>7, Concat
<1>9. QED
  BY <1>2, <1>3, <1>8

(***************************************************************************)
(* The graph a result leaves.                                              *)
(***************************************************************************)

ResultOps(v, r, run, declaration, scope) ==
  formal_result_to_ops(v, Proof, r, run, declaration, scope)

\* A result that is committed to a graph.
Commits(v, r, run, declaration, scope) ==
  /\ GraphInv(v) /\ IsPayload(r) /\ Coherent(r) /\ IsId(run) /\ run[2] = "fr"
  /\ run \in DOMAIN v.nodes => declaration \in EdgeTargets(v, <<>>, run, "SEARCHES") \cup {None}
  /\ Listed(ResultOps(v, r, run, declaration, scope))
  /\ Produced(v, ResultOps(v, r, run, declaration, scope))
  /\ Accepts(v, Proposal(ResultOps(v, r, run, declaration, scope), TRUE))

\* A field that is written has the value of a write.
LEMMA WrittenField ==
  ASSUME NEW v, NEW ops, Listed(ops), NEW id \in DOMAIN v.nodes, NEW f, Writes(ops, id, f) # {}
  PROVE  \E i \in Writes(ops, id, f) : Get(ApplyOps(v, ops).nodes[id].fields, f) = ops[i].value
<1> DEFINE w == ApplyOps(v, ops)
<1> DEFINE written == {op.field : op \in {o \in OpsOf(ops, "set_field") : o.id = id}}
<1>1. w.nodes[id] = NodeAfter(v, ops, id)
  BY DEF ApplyOps
<1>2. BaseNode(v, ops, id) = v.nodes[id]
  BY DEF BaseNode
<1>3. w.nodes[id].fields =
        [g \in DOMAIN v.nodes[id].fields \cup written |->
           IF g \in written THEN ops[Greatest(Writes(ops, id, g))].value ELSE v.nodes[id].fields[g]]
  BY <1>1, <1>2 DEF NodeAfter
<1>4. f \in written
  BY DEF Writes, OpsOf
<1>5. Greatest(Writes(ops, id, f)) \in Writes(ops, id, f)
  <2>1. Writes(ops, id, f) \in SUBSET (1..Len(ops))
    BY DEF Writes, Listed
  <2>2. QED
    BY <2>1, GreatestIn DEF Listed
<1>6. QED
  BY <1>3, <1>4, <1>5 DEF Get

\* The fields of the ops.
LEMMA OpFields ==
  /\ \A label, id, fields :
       LET op == UpsertNode(label, id, fields)
       IN /\ op.op = "upsert_node" /\ op.label = label /\ op.id = id /\ op.fields = fields
  /\ \A label, id, field, value, prior :
       LET op == SetField(label, id, field, value, prior)
       IN /\ op.op = "set_field" /\ op.label = label /\ op.id = id /\ op.field = field
          /\ op.value = value
  /\ \A rel, src, dst, edge, index :
       LET op == AddEdge(rel, src, dst, edge, index)
       IN /\ op.op = "add_edge" /\ op.rel = rel /\ op.src = src /\ op.dst = dst
          /\ op.edge_id = edge /\ EdgeRecord(op) = [rel |-> rel, src |-> src, dst |-> dst, index |-> index]
BY DEF UpsertNode, SetField, AddEdge, EdgeRecord

\* What the ops of each part are.
LEMMA StatesKind ==
  ASSUME NEW v, NEW r, NEW scope, NEW op, SaysStates(v, r, scope, op)
  PROVE  \E s \in DOMAIN r.states :
           /\ op.id = <<scope, "fs", s>>
           /\ \/ op.op = "upsert_node" /\ op.label = "FormalState" /\ op.fields = r.states[s]
              \/ /\ op.op = "set_field" /\ op.label = "FormalState" /\ op.field = "status"
                 /\ op.value = r.states[s].status
BY OpFields DEF SaysStates

LEMMA RunKind ==
  ASSUME NEW v, NEW r, NEW run, NEW declaration, NEW scope, NEW op,
         SaysRun(v, r, run, declaration, scope, op)
  PROVE  \/ /\ op.op = "set_field" /\ op.label = "FormalRun" /\ op.id = run
            /\ op.field = "status" /\ op.value = r.disposition
         \/ /\ op.op = "upsert_node" /\ op.label = "FormalRun" /\ op.id = run
            /\ op.fields = [actor |-> "formal-atp", status |-> r.disposition]
         \/ /\ op.op = "add_edge" /\ op.rel = "HAS_ROOT" /\ op.src = run
            /\ op.dst = <<scope, "fs", 1>> /\ run \notin DOMAIN v.nodes /\ r.rooted
         \/ op.op = "add_edge" /\ op.rel = "SEARCHES" /\ op.src = run /\ op.dst = declaration
<1> DEFINE a == Append(run, "root")
<1> DEFINE b == Append(run, "searches")
<1>1. SaysRun(v, r, run, declaration, scope, op) =>
        \/ op = SetField("FormalRun", run, "status", r.disposition, Get(v.nodes[run].fields, "status"))
        \/ op = UpsertNode("FormalRun", run, [actor |-> "formal-atp", status |-> r.disposition])
        \/ /\ run \notin DOMAIN v.nodes /\ r.rooted
           /\ op = AddEdge("HAS_ROOT", run, <<scope, "fs", 1>>, a, None)
        \/ op = AddEdge("SEARCHES", run, declaration, b, None)
  BY DEF SaysRun
<1> HIDE DEF a, b
<1>2. QED
  BY <1>1, OpFields

LEMMA RunEdge ==
  ASSUME NEW v, NEW r, NEW run, NEW declaration, NEW scope, NEW op,
         SaysRun(v, r, run, declaration, scope, op), op.op = "add_edge"
  PROVE  \/ /\ op.rel = "HAS_ROOT" /\ op.src = run /\ op.dst = <<scope, "fs", 1>>
            /\ run \notin DOMAIN v.nodes /\ r.rooted
         \/ op.rel = "SEARCHES"
<1> DEFINE a == Append(run, "root")
<1> DEFINE b == Append(run, "searches")
<1> DEFINE write == SetField("FormalRun", run, "status", r.disposition, Get(v.nodes[run].fields, "status"))
<1> DEFINE up == UpsertNode("FormalRun", run, [actor |-> "formal-atp", status |-> r.disposition])
<1>1. \/ op = write \/ op = up
      \/ /\ run \notin DOMAIN v.nodes /\ r.rooted
         /\ op = AddEdge("HAS_ROOT", run, <<scope, "fs", 1>>, a, None)
      \/ op = AddEdge("SEARCHES", run, declaration, b, None)
  BY DEF SaysRun
<1>2. write.op = "set_field" /\ up.op = "upsert_node"
  BY OpFields
<1> HIDE DEF a, b, write, up
<1>3. QED
  BY <1>1, <1>2, OpFields

LEMMA CheckpointKind ==
  ASSUME NEW v, NEW r, NEW proof, NEW run, NEW scope, NEW op,
         SaysCheckpoint(v, proof, r, run, scope, op)
  PROVE  \/ op.op = "upsert_node" /\ op.label = "FormalCheckpoint" /\ op.id[2] = "fc"
         \/ op.op = "add_edge" /\ op.rel = "HAS_CHECKPOINT"
         \/ /\ op.op = "add_edge" /\ op.rel = "CHECKPOINT_FRONTIER"
            /\ \E i \in DOMAIN r.frontier : op.dst = <<scope, "fs", r.frontier[i]>>
<1> DEFINE fc == <<proof, "fc", NextSerial(v, "fc")>>
<1> DEFINE in == Append(fc, "in")
<1> DEFINE at(i) == fc \o <<"frontier", i - 1>>
<1>1. fc[2] = "fc"
  OBVIOUS
<1>2. \/ op = UpsertNode("FormalCheckpoint", fc, [actor |-> "formal-atp", epoch_ms |-> r.epoch])
      \/ op = AddEdge("HAS_CHECKPOINT", run, fc, in, None)
      \/ \E i \in DOMAIN r.frontier :
           op = AddEdge("CHECKPOINT_FRONTIER", fc, <<scope, "fs", r.frontier[i]>>, at(i), None)
  BY DEF SaysCheckpoint
<1> HIDE DEF fc, in, at
<1>3. CASE \E i \in DOMAIN r.frontier :
             op = AddEdge("CHECKPOINT_FRONTIER", fc, <<scope, "fs", r.frontier[i]>>, at(i), None)
  <2>1. PICK i \in DOMAIN r.frontier :
          op = AddEdge("CHECKPOINT_FRONTIER", fc, <<scope, "fs", r.frontier[i]>>, at(i), None)
    BY <1>3
  <2>2. /\ op.op = "add_edge" /\ op.rel = "CHECKPOINT_FRONTIER"
        /\ op.dst = <<scope, "fs", r.frontier[i]>>
    BY <2>1, OpFields
  <2>3. QED
    BY <2>2
<1>4. QED
  BY <1>1, <1>2, <1>3, OpFields

LEMMA CertificateKind ==
  ASSUME NEW v, NEW r, NEW proof, NEW run, NEW declaration, NEW op,
         SaysCertificate(v, proof, r, run, declaration, op)
  PROVE  LET cert == <<proof, "cert", NextSerial(v, "cert")>>
         IN /\ r.certificate
            /\ \/ /\ op.op = "upsert_node" /\ op.label = "Certificate" /\ op.id = cert
                  /\ op.fields.producer_run_id = run /\ "producer_run_id" \in DOMAIN op.fields
               \/ /\ op.op = "add_edge" /\ op.rel = "PRODUCED_CERTIFICATE"
                  /\ op.src = run /\ op.dst = cert
               \/ /\ op.op = "add_edge" /\ op.rel = "CERTIFIES" /\ op.src = cert
                  /\ op.dst = declaration /\ declaration # None
<1> DEFINE cert == <<proof, "cert", NextSerial(v, "cert")>>
<1> DEFINE a == Append(cert, "produced")
<1> DEFINE b == Append(cert, "certifies")
<1>1. /\ r.certificate
      /\ \/ op = UpsertNode("Certificate", cert, [actor |-> "formal-atp", producer_run_id |-> run,
                                                 status |-> "candidate"])
         \/ op = AddEdge("PRODUCED_CERTIFICATE", run, cert, a, None)
         \/ declaration # None /\ op = AddEdge("CERTIFIES", cert, declaration, b, None)
  BY DEF SaysCertificate
<1> HIDE DEF cert, a, b
<1>2. QED
  BY <1>1, OpFields DEF cert

\* What each op of a committed result says.
LEMMA OpSaid ==
  ASSUME NEW v, NEW r, NEW run, NEW declaration, NEW scope, Commits(v, r, run, declaration, scope),
         NEW i \in DOMAIN ResultOps(v, r, run, declaration, scope)
  PROVE  LET op == ResultOps(v, r, run, declaration, scope)[i]
         IN \/ SaysStates(v, r, scope, op) \/ SaysRun(v, r, run, declaration, scope, op)
            \/ SaysTactics(op) \/ SaysCheckpoint(v, Proof, r, run, scope, op)
            \/ SaysCertificate(v, Proof, r, run, declaration, op) \/ SaysObstructions(op)
<1> DEFINE ops == ResultOps(v, r, run, declaration, scope)
<1>1. ops[i] \in Range(ops)
  BY DEF Range
<1>2. Numbered(v)
  BY DEF Commits, GraphInv
<1>3. ops = formal_result_to_ops(v, Proof, r, run, declaration, scope)
  BY DEF ResultOps
<1> HIDE DEF ops
<1>4. QED
  BY <1>1, <1>2, <1>3, ResultSaid DEF Commits, ops

LEMMA SaidOp ==
  ASSUME NEW v, NEW r, NEW run, NEW declaration, NEW scope, Commits(v, r, run, declaration, scope),
         NEW op, \/ SaysStates(v, r, scope, op) \/ SaysRun(v, r, run, declaration, scope, op)
                 \/ SaysCheckpoint(v, Proof, r, run, scope, op)
                 \/ SaysCertificate(v, Proof, r, run, declaration, op)
  PROVE  \E i \in DOMAIN ResultOps(v, r, run, declaration, scope) :
           ResultOps(v, r, run, declaration, scope)[i] = op
<1> DEFINE ops == ResultOps(v, r, run, declaration, scope)
<1>1. Numbered(v)
  BY DEF Commits, GraphInv
<1>2. ops = formal_result_to_ops(v, Proof, r, run, declaration, scope)
  BY DEF ResultOps
<1> HIDE DEF ops
<1>3. op \in Range(ops)
  BY <1>1, <1>2, ResultSaid DEF Commits
<1>4. QED
  BY <1>3 DEF Range, ops

\* It writes the status of its run and of states it reports.
LEMMA WrittenByResult ==
  ASSUME NEW v, NEW r, NEW run, NEW declaration, NEW scope, Commits(v, r, run, declaration, scope),
         NEW id, NEW f, NEW i \in Writes(ResultOps(v, r, run, declaration, scope), id, f)
  PROVE  LET value == ResultOps(v, r, run, declaration, scope)[i].value
         IN /\ f = "status"
            /\ \/ id = run /\ value = r.disposition
               \/ \E s \in DOMAIN r.states : id = <<scope, "fs", s>> /\ value = r.states[s].status
<1> DEFINE op == ResultOps(v, r, run, declaration, scope)[i]
<1>1. /\ i \in DOMAIN ResultOps(v, r, run, declaration, scope)
      /\ op.op = "set_field" /\ op.id = id /\ op.field = f
  BY DEF Writes
<1>2. \/ SaysStates(v, r, scope, op) \/ SaysRun(v, r, run, declaration, scope, op)
      \/ SaysTactics(op) \/ SaysCheckpoint(v, Proof, r, run, scope, op)
      \/ SaysCertificate(v, Proof, r, run, declaration, op) \/ SaysObstructions(op)
  BY <1>1, OpSaid
<1> HIDE DEF op
<1>3. ~SaysTactics(op) /\ ~SaysObstructions(op)
  BY <1>1 DEF SaysTactics, SaysObstructions
<1>4. ~SaysCheckpoint(v, Proof, r, run, scope, op) /\ ~SaysCertificate(v, Proof, r, run, declaration, op)
  BY <1>1, CheckpointKind, CertificateKind
<1>5. CASE SaysStates(v, r, scope, op)
  BY <1>1, <1>5, StatesKind DEF op
<1>6. CASE SaysRun(v, r, run, declaration, scope, op)
  <2>1. op.id = run /\ op.field = "status" /\ op.value = r.disposition
    BY <1>1, <1>6, RunKind
  <2>2. QED
    BY <1>1, <2>1 DEF op
<1>7. QED
  BY <1>2, <1>3, <1>4, <1>5, <1>6

After(v, r, run, declaration, scope) == ApplyOps(v, ResultOps(v, r, run, declaration, scope))

\* Committed nodes keep all but the status of the run and of the states it reports.
LEMMA NodesAfter ==
  ASSUME NEW v, NEW r, NEW run, NEW declaration, NEW scope, Commits(v, r, run, declaration, scope),
         NEW id \in DOMAIN v.nodes
  PROVE  LET w == After(v, r, run, declaration, scope)
         IN /\ id \in DOMAIN w.nodes /\ w.nodes[id].label = v.nodes[id].label
            /\ \A f :
                 \/ /\ Get(w.nodes[id].fields, f) = Get(v.nodes[id].fields, f)
                    /\ f \in DOMAIN w.nodes[id].fields <=> f \in DOMAIN v.nodes[id].fields
                 \/ f = "status" /\ id = run /\ Get(w.nodes[id].fields, f) = r.disposition
                 \/ /\ f = "status"
                    /\ \E s \in DOMAIN r.states :
                         id = <<scope, "fs", s>> /\ Get(w.nodes[id].fields, f) = r.states[s].status
<1> DEFINE ops == ResultOps(v, r, run, declaration, scope)
<1> DEFINE w == After(v, r, run, declaration, scope)
<1>1. w = ApplyOps(v, ops) /\ Listed(ops) /\ Produced(v, ops)
  BY DEF After, Commits
<1>2. /\ id \in DOMAIN w.nodes /\ w.nodes[id].label = v.nodes[id].label
      /\ \A f :
           \/ /\ Get(w.nodes[id].fields, f) = Get(v.nodes[id].fields, f)
              /\ f \in DOMAIN w.nodes[id].fields <=> f \in DOMAIN v.nodes[id].fields
           \/ \E i \in Writes(ops, id, f) : Get(w.nodes[id].fields, f) = ops[i].value
  BY <1>1, CommittedNode
<1>3. \A f : \A i \in Writes(ops, id, f) :
        /\ f = "status"
        /\ \/ id = run /\ ops[i].value = r.disposition
           \/ \E s \in DOMAIN r.states : id = <<scope, "fs", s>> /\ ops[i].value = r.states[s].status
  BY WrittenByResult
<1> HIDE DEF ops, w
<1>4. ASSUME NEW f, NEW i \in Writes(ops, id, f), Get(w.nodes[id].fields, f) = ops[i].value
      PROVE  /\ f = "status"
             /\ \/ id = run /\ Get(w.nodes[id].fields, f) = r.disposition
                \/ \E s \in DOMAIN r.states :
                     id = <<scope, "fs", s>> /\ Get(w.nodes[id].fields, f) = r.states[s].status
  BY <1>3, <1>4
<1>5. QED
  BY <1>2, <1>4 DEF w

\* Every state that is reported is there afterwards, with the status reported.
LEMMA StatesAfter ==
  ASSUME NEW v, NEW r, NEW run, NEW declaration, NEW scope, Commits(v, r, run, declaration, scope),
         NEW s \in DOMAIN r.states
  PROVE  LET w == After(v, r, run, declaration, scope)
         IN /\ <<scope, "fs", s>> \in DOMAIN w.nodes
            /\ Get(w.nodes[<<scope, "fs", s>>].fields, "status") = r.states[s].status
<1> DEFINE id == <<scope, "fs", s>>
<1> DEFINE ops == ResultOps(v, r, run, declaration, scope)
<1> DEFINE w == After(v, r, run, declaration, scope)
<1>1. w = ApplyOps(v, ops) /\ Listed(ops) /\ Produced(v, ops)
  BY DEF After, Commits
<1>2. /\ \A t : <<scope, "fs", t>> = id => t = s
      /\ id # run /\ id[2] = "fs"
  BY DEF Commits
<1>3. CASE id \in DOMAIN v.nodes
  <2> DEFINE current == Get(v.nodes[id].fields, "status")
  <2> DEFINE write == SetField("FormalState", id, "status", r.states[s].status, current)
  <2>1. id \in DOMAIN w.nodes
    BY <1>3, NodesAfter
  <2>2. CASE current = r.states[s].status
    BY <1>2, <1>3, <2>1, <2>2, NodesAfter
  <2>3. CASE current # r.states[s].status
    <3>1. SaysStates(v, r, scope, write)
      BY <1>3, <2>3 DEF SaysStates
    <3>2. PICK i \in DOMAIN ops : ops[i] = write
      BY <3>1, SaidOp
    <3>3. i \in Writes(ops, id, "status")
      BY <3>2, OpFields DEF Writes
    <3> HIDE DEF ops, w, id
    <3>4. PICK j \in Writes(ops, id, "status") : Get(w.nodes[id].fields, "status") = ops[j].value
      BY <1>1, <1>3, <3>3, WrittenField
    <3>5. \/ id = run /\ ops[j].value = r.disposition
          \/ \E t \in DOMAIN r.states : id = <<scope, "fs", t>> /\ ops[j].value = r.states[t].status
      BY WrittenByResult DEF ops
    <3>6. ops[j].value = r.states[s].status
      BY <1>2, <3>5
    <3>7. QED
      BY <2>1, <3>4, <3>6 DEF id, w
  <2>4. QED
    BY <2>2, <2>3
<1>4. CASE id \notin DOMAIN v.nodes
  <2> DEFINE up == UpsertNode("FormalState", id, r.states[s])
  <2>1. SaysStates(v, r, scope, up)
    BY <1>4 DEF SaysStates
  <2>2. PICK i \in DOMAIN ops : ops[i] = up
    BY <2>1, SaidOp
  <2>3. ops[i].op = "upsert_node" /\ ops[i].id = id /\ ops[i].fields = r.states[s]
    BY <2>2, OpFields
  <2>4. i \in Upserts(ops, id) /\ ops[i] \in OpsOf(ops, "upsert_node")
    BY <2>3 DEF Upserts, OpsOf
  <2> HIDE DEF id, up
  <2>5. id \in DOMAIN w.nodes
    BY <1>1, <2>3, <2>4 DEF ApplyOps
  <2>6. Get(w.nodes[id].fields, "status") = Get(ops[i].fields, "status")
    BY <1>1, <1>4, <2>4, <2>5, NewNode
  <2>7. Get(r.states[s], "status") = r.states[s].status
    BY DEF Commits, IsPayload, Get
  <2>8. QED
    BY <2>3, <2>5, <2>6, <2>7 DEF id
<1>5. QED
  BY <1>3, <1>4

\* The run is there afterwards, with the disposition reported.
LEMMA RunAfter ==
  ASSUME NEW v, NEW r, NEW run, NEW declaration, NEW scope, Commits(v, r, run, declaration, scope)
  PROVE  LET w == After(v, r, run, declaration, scope)
         IN run \in DOMAIN w.nodes /\ Get(w.nodes[run].fields, "status") = r.disposition
<1> DEFINE ops == ResultOps(v, r, run, declaration, scope)
<1> DEFINE w == After(v, r, run, declaration, scope)
<1>1. w = ApplyOps(v, ops) /\ Listed(ops) /\ Produced(v, ops)
  BY DEF After, Commits
<1>2. \A s : <<scope, "fs", s>> # run
  BY DEF Commits
<1>3. CASE run \in DOMAIN v.nodes
  <2> DEFINE current == Get(v.nodes[run].fields, "status")
  <2> DEFINE write == SetField("FormalRun", run, "status", r.disposition, current)
  <2>1. run \in DOMAIN w.nodes
    BY <1>3, NodesAfter
  <2>2. CASE current = r.disposition
    <3>1. \/ Get(w.nodes[run].fields, "status") = current
          \/ Get(w.nodes[run].fields, "status") = r.disposition
          \/ \E s \in DOMAIN r.states : run = <<scope, "fs", s>>
      BY <1>3, NodesAfter
    <3> HIDE DEF w, current
    <3>2. QED
      BY <1>2, <2>1, <2>2, <3>1 DEF w
  <2>3. CASE current # r.disposition
    <3>1. SaysRun(v, r, run, declaration, scope, write)
      BY <1>3, <2>3 DEF SaysRun
    <3>2. PICK i \in DOMAIN ops : ops[i] = write
      BY <3>1, SaidOp
    <3>3. i \in Writes(ops, run, "status")
      BY <3>2, OpFields DEF Writes
    <3> HIDE DEF ops, w
    <3>4. PICK j \in Writes(ops, run, "status") : Get(w.nodes[run].fields, "status") = ops[j].value
      BY <1>1, <1>3, <3>3, WrittenField
    <3>5. \/ run = run /\ ops[j].value = r.disposition
          \/ \E t \in DOMAIN r.states : run = <<scope, "fs", t>> /\ ops[j].value = r.states[t].status
      BY WrittenByResult DEF ops
    <3>6. QED
      BY <1>2, <2>1, <3>4, <3>5 DEF w
  <2>4. QED
    BY <2>2, <2>3
<1>4. CASE run \notin DOMAIN v.nodes
  <2> DEFINE fields == [actor |-> "formal-atp", status |-> r.disposition]
  <2> DEFINE up == UpsertNode("FormalRun", run, fields)
  <2>1. SaysRun(v, r, run, declaration, scope, up)
    BY <1>4 DEF SaysRun
  <2>2. PICK i \in DOMAIN ops : ops[i] = up
    BY <2>1, SaidOp
  <2>3. ops[i].op = "upsert_node" /\ ops[i].id = run /\ ops[i].fields = fields
    BY <2>2, OpFields
  <2>4. i \in Upserts(ops, run) /\ ops[i] \in OpsOf(ops, "upsert_node")
    BY <2>3 DEF Upserts, OpsOf
  <2>5. run \in DOMAIN w.nodes
    BY <1>1, <2>3, <2>4 DEF ApplyOps
  <2>6. Get(w.nodes[run].fields, "status") = Get(ops[i].fields, "status")
    BY <1>1, <1>4, <2>4, <2>5, NewNode
  <2>7. Get(fields, "status") = r.disposition
    BY DEF Get
  <2>8. QED
    BY <2>3, <2>5, <2>6, <2>7
<1>5. QED
  BY <1>3, <1>4

\* A run or a certificate that is new is the run that concluded, or what it proved.
LEMMA CreatedByResult ==
  ASSUME NEW v, NEW r, NEW run, NEW declaration, NEW scope, Commits(v, r, run, declaration, scope),
         NEW id \in DOMAIN After(v, r, run, declaration, scope).nodes, id \notin DOMAIN v.nodes
  PROVE  LET w == After(v, r, run, declaration, scope)
         IN /\ w.nodes[id].label = "FormalRun" => id = run
            /\ w.nodes[id].label = "Certificate" =>
                 /\ r.certificate /\ id = <<Proof, "cert", NextSerial(v, "cert")>>
                 /\ Get(w.nodes[id].fields, "producer_run_id") = run
<1> DEFINE ops == ResultOps(v, r, run, declaration, scope)
<1> DEFINE w == After(v, r, run, declaration, scope)
<1>1. w = ApplyOps(v, ops) /\ Listed(ops) /\ Produced(v, ops)
  BY DEF After, Commits
<1>2. PICK i \in Upserts(ops, id) :
        /\ w.nodes[id].label = ops[i].label
        /\ \A f : Get(w.nodes[id].fields, f) = Get(ops[i].fields, f)
        /\ DOMAIN w.nodes[id].fields = DOMAIN ops[i].fields
  BY <1>1, NewNode
<1> DEFINE op == ops[i]
<1>3. i \in DOMAIN ops /\ op.op = "upsert_node" /\ op.id = id
  BY <1>2 DEF Upserts
<1>4. \/ SaysStates(v, r, scope, op) \/ SaysRun(v, r, run, declaration, scope, op)
      \/ SaysTactics(op) \/ SaysCheckpoint(v, Proof, r, run, scope, op)
      \/ SaysCertificate(v, Proof, r, run, declaration, op) \/ SaysObstructions(op)
  BY <1>3, OpSaid
<1> HIDE DEF ops, op, w
<1>5. ~SaysTactics(op) \/ op.label = "TacticApplication"
  BY <1>3 DEF SaysTactics
<1>6. ~SaysObstructions(op) \/ op.label = "Obstruction"
  BY <1>3 DEF SaysObstructions
<1>7. SaysStates(v, r, scope, op) => op.label = "FormalState"
  BY StatesKind
<1>8. SaysRun(v, r, run, declaration, scope, op) => op.label = "FormalRun" /\ op.id = run
  BY <1>3, RunKind
<1>9. SaysCheckpoint(v, Proof, r, run, scope, op) => op.label = "FormalCheckpoint"
  BY <1>3, CheckpointKind
<1>10. SaysCertificate(v, Proof, r, run, declaration, op) =>
         /\ r.certificate /\ op.label = "Certificate"
         /\ op.id = <<Proof, "cert", NextSerial(v, "cert")>>
         /\ op.fields.producer_run_id = run /\ "producer_run_id" \in DOMAIN op.fields
  BY <1>3, CertificateKind
<1>11. w.nodes[id].label = op.label
  BY <1>2 DEF op
<1>12. SaysCertificate(v, Proof, r, run, declaration, op) =>
         Get(w.nodes[id].fields, "producer_run_id") = run
  BY <1>2, <1>10 DEF op, Get
<1>13. QED
  BY <1>3, <1>4, <1>5, <1>6, <1>7, <1>8, <1>9, <1>10, <1>11, <1>12 DEF w

\* The new edges, of the relationships that matter here.
LEMMA EdgesAfter ==
  ASSUME NEW v, NEW r, NEW run, NEW declaration, NEW scope, Commits(v, r, run, declaration, scope),
         NEW e \in DOMAIN After(v, r, run, declaration, scope).edges, e \notin DOMAIN v.edges
  PROVE  LET edge == After(v, r, run, declaration, scope).edges[e]
             cert == <<Proof, "cert", NextSerial(v, "cert")>>
         IN /\ edge.rel = "CHECKPOINT_FRONTIER" =>
                 \E i \in DOMAIN r.frontier : edge.dst = <<scope, "fs", r.frontier[i]>>
            /\ edge.rel = "HAS_ROOT" =>
                 /\ edge.src = run /\ edge.dst = <<scope, "fs", 1>>
                 /\ run \notin DOMAIN v.nodes /\ r.rooted
            /\ edge.rel = "PRODUCED_CERTIFICATE" =>
                 r.certificate /\ edge.src = run /\ edge.dst = cert
            /\ edge.rel = "CERTIFIES" =>
                 r.certificate /\ edge.src = cert /\ edge.dst = declaration /\ declaration # None
<1> DEFINE ops == ResultOps(v, r, run, declaration, scope)
<1> DEFINE w == After(v, r, run, declaration, scope)
<1>1. w = ApplyOps(v, ops) /\ Listed(ops) /\ Produced(v, ops)
  BY DEF After, Commits
<1>2. PICK i \in DOMAIN ops : ops[i].op = "add_edge" /\ w.edges[e] = EdgeRecord(ops[i])
  BY <1>1, NewEdge
<1> DEFINE op == ops[i]
<1>3. \/ SaysStates(v, r, scope, op) \/ SaysRun(v, r, run, declaration, scope, op)
      \/ SaysTactics(op) \/ SaysCheckpoint(v, Proof, r, run, scope, op)
      \/ SaysCertificate(v, Proof, r, run, declaration, op) \/ SaysObstructions(op)
  BY OpSaid
<1>4. /\ w.edges[e].rel = op.rel /\ w.edges[e].src = op.src /\ w.edges[e].dst = op.dst
      /\ op.op = "add_edge"
  BY <1>2 DEF EdgeRecord
<1> HIDE DEF ops, op, w
<1>5. SaysTactics(op) => op.rel \in {"HAS_TACTIC", "FORMAL_REQUIRES", "CLOSES_STATE"}
  BY <1>4 DEF SaysTactics
<1>6. SaysObstructions(op) => op.rel \in {"RAISED_OBSTRUCTION", "AT_STATE"}
  BY <1>4 DEF SaysObstructions
<1>7. ~SaysStates(v, r, scope, op)
  BY <1>4, StatesKind
<1>8. SaysRun(v, r, run, declaration, scope, op) =>
        \/ /\ op.rel = "HAS_ROOT" /\ op.src = run /\ op.dst = <<scope, "fs", 1>>
           /\ run \notin DOMAIN v.nodes /\ r.rooted
        \/ op.rel = "SEARCHES"
  BY <1>4, RunEdge
<1>9. SaysCheckpoint(v, Proof, r, run, scope, op) =>
        \/ op.rel = "HAS_CHECKPOINT"
        \/ /\ op.rel = "CHECKPOINT_FRONTIER"
           /\ \E k \in DOMAIN r.frontier : op.dst = <<scope, "fs", r.frontier[k]>>
  BY <1>4, CheckpointKind
<1>10. SaysCertificate(v, Proof, r, run, declaration, op) =>
         LET cert == <<Proof, "cert", NextSerial(v, "cert")>>
         IN /\ r.certificate
            /\ \/ op.rel = "PRODUCED_CERTIFICATE" /\ op.src = run /\ op.dst = cert
               \/ op.rel = "CERTIFIES" /\ op.src = cert /\ op.dst = declaration /\ declaration # None
  BY <1>4, CertificateKind
<1>11. QED
  BY <1>3, <1>4, <1>5, <1>6, <1>7, <1>8, <1>9, <1>10 DEF w

(***************************************************************************)
(* Steps, by what they leave.                                              *)
(***************************************************************************)

\* A cycle that concludes commits a result.
LEMMA ConcludedCommits ==
  ASSUME SearchInv, NEW run, NEW answer, Answered(run, answer), Concluded(run, answer)
  PROVE  /\ Commits(view, answer.result, run, answer.declaration, answer.scope)
         /\ view' = After(view, answer.result, run, answer.declaration, answer.scope)
<1> DEFINE r == answer.result
<1> DEFINE declaration == answer.declaration
<1> DEFINE scope == answer.scope
<1> DEFINE ops == ResultOps(view, r, run, declaration, scope)
<1>1. GraphInv(view) /\ Numbered(view)
  BY DEF SearchInv, GraphInv
<1>2. IsPayload(r) /\ Coherent(r)
  BY AnswersGood DEF Answered
<1>3. run \in DOMAIN view.nodes => declaration \in Searched(run) \cup {None}
  BY AnswersGood DEF Answered, Runs
<1>4. IsId(run) /\ run[2] = "fr"
  <2>1. PICK k \in 0..MaxRuns : RunsOf(view) = {Id("fr", n) : n \in 1..k}
    BY DEF SearchInv, RunsCounted
  <2>2. run \in RunsOf(view) \/ run \in RunIds
    BY DEF Answered, Runs, RunsOf
  <2>3. PICK n : run = Id("fr", n)
    BY <2>1, <2>2 DEF RunIds
  <2>4. QED
    BY <2>3 DEF Id, IsId
<1>5. ops = formal_result_to_ops(view, Proof, r, run, declaration, scope)
  BY DEF ResultOps
<1>6. Disciplined(ops, TRUE)
  BY <1>5 DEF Concluded
<1>7. Makes(view, ops, ResultIds(view, Proof, r, run, scope))
  BY <1>1, <1>2, <1>3, <1>4, <1>5, ResultMade DEF Searched
<1>8. Listed(ops)
  BY <1>7, ListFacts DEF Makes
<1>9. QED
  <2>1. /\ Produced(view, ops) /\ Accepts(view, Proposal(ops, TRUE)) /\ view' = ApplyOps(view, ops)
    BY <1>6 DEF Disciplined
  <2>2. run \in DOMAIN view.nodes => declaration \in EdgeTargets(view, <<>>, run, "SEARCHES") \cup {None}
    BY <1>3 DEF Searched
  <2> HIDE DEF r, declaration, scope
  <2>3. Commits(view, r, run, declaration, scope) /\ view' = After(view, r, run, declaration, scope)
    BY <1>1, <1>2, <1>4, <1>8, <2>1, <2>2 DEF Commits, After
  <2>4. QED
    BY <2>3 DEF r, declaration, scope

\* A bridge lemma leaves what is there, and adds a research state, a move, and an edge.
LEMMA BridgeAdds ==
  ASSUME SearchInv, Bridged
  PROVE  /\ \A id \in DOMAIN view.nodes :
              /\ id \in DOMAIN view'.nodes /\ view'.nodes[id].label = view.nodes[id].label
              /\ \A f : /\ Get(view'.nodes[id].fields, f) = Get(view.nodes[id].fields, f)
                        /\ f \in DOMAIN view'.nodes[id].fields <=> f \in DOMAIN view.nodes[id].fields
         /\ \A id \in DOMAIN view'.nodes \ DOMAIN view.nodes :
              view'.nodes[id].label \in {"ResearchState", "ResearchMove"}
         /\ \A e \in DOMAIN view.edges : e \in DOMAIN view'.edges /\ view'.edges[e] = view.edges[e]
         /\ \A e \in DOMAIN view'.edges \ DOMAIN view.edges : view'.edges[e].rel = "PROPOSES"
<1>1. PICK rs, rm, f, h :
        Disciplined(<<UpsertNode("ResearchState", rs, f), UpsertNode("ResearchMove", rm, h),
                      AddEdge("PROPOSES", rs, rm, Append(rm, "proposed"), None)>>, FALSE)
  BY DEF Bridged
<1> DEFINE a == UpsertNode("ResearchState", rs, f)
<1> DEFINE b == UpsertNode("ResearchMove", rm, h)
<1> DEFINE c == AddEdge("PROPOSES", rs, rm, Append(rm, "proposed"), None)
<1> DEFINE ops == <<a, b, c>>
<1>2. Produced(view, ops) /\ view' = ApplyOps(view, ops)
  BY <1>1 DEF Disciplined
<1>3. /\ a.op = "upsert_node" /\ a.label = "ResearchState"
      /\ b.op = "upsert_node" /\ b.label = "ResearchMove"
      /\ c.op = "add_edge" /\ c.rel = "PROPOSES"
  BY OpFields
<1> HIDE DEF a, b, c
<1>4. DOMAIN ops = 1..3 /\ ops \in Seq({a, b, c})
      /\ \A i \in DOMAIN ops : ops[i] = a \/ ops[i] = b \/ ops[i] = c
  OBVIOUS
<1>5. Listed(ops)
  BY <1>4 DEF Listed
<1> HIDE DEF ops
<1>6. ASSUME NEW id \in DOMAIN view.nodes
      PROVE  /\ id \in DOMAIN view'.nodes /\ view'.nodes[id].label = view.nodes[id].label
             /\ \A g : /\ Get(view'.nodes[id].fields, g) = Get(view.nodes[id].fields, g)
                       /\ g \in DOMAIN view'.nodes[id].fields <=> g \in DOMAIN view.nodes[id].fields
  <2>1. \A g : Writes(ops, id, g) = {}
    BY <1>3, <1>4 DEF Writes
  <2>2. QED
    BY <1>2, <1>5, <2>1, CommittedNode
<1>7. ASSUME NEW id \in DOMAIN view'.nodes \ DOMAIN view.nodes
      PROVE  view'.nodes[id].label \in {"ResearchState", "ResearchMove"}
  <2>1. PICK op \in OpsOf(ops, "upsert_node") : op.label = view'.nodes[id].label
    BY <1>2, <1>5, CreatedNode
  <2>2. QED
    BY <1>3, <1>4, <2>1 DEF OpsOf
<1>8. \A e \in DOMAIN view.edges : e \in DOMAIN view'.edges /\ view'.edges[e] = view.edges[e]
  BY <1>2, CommittedEdge
<1>9. ASSUME NEW e \in DOMAIN view'.edges \ DOMAIN view.edges
      PROVE  view'.edges[e].rel = "PROPOSES"
  <2>1. PICK i \in DOMAIN ops : ops[i].op = "add_edge" /\ view'.edges[e] = EdgeRecord(ops[i])
    BY <1>2, <1>5, NewEdge
  <2>2. ops[i] = c
    BY <1>3, <1>4, <2>1
  <2>3. QED
    BY <1>3, <2>1, <2>2 DEF EdgeRecord
<1>10. QED
  BY <1>6, <1>7, <1>8, <1>9

\* A checkpoint is committed only with a frontier of states that are open in committed
\* state (FrontiersAreOpen), for every hypergraph and payload: the states of a result are
\* written with it.
THEOREM FrontiersOpen == Spec => FrontiersAreOpen
<1> DEFINE Open ==
      \A e \in DOMAIN view'.edges \ DOMAIN view.edges :
        view'.edges[e].rel = "CHECKPOINT_FRONTIER" =>
          Get(view'.nodes[view'.edges[e].dst].fields, "status") = "open"
<1>1. ASSUME SearchInv, [Next]_vars PROVE Open
  <2>1. CASE view' = view
    BY <2>1
  <2>2. CASE Bridged
    BY <1>1, <2>2, BridgeAdds
  <2>3. ASSUME NEW run, NEW answer, Answered(run, answer), Concluded(run, answer)
        PROVE  Open
    <3> DEFINE r == answer.result
    <3> DEFINE scope == answer.scope
    <3>1. /\ Commits(view, r, run, answer.declaration, scope)
          /\ view' = After(view, r, run, answer.declaration, scope)
      BY <1>1, <2>3, ConcludedCommits
    <3>2. Coherent(r)
      BY <3>1 DEF Commits
    <3> HIDE DEF r, scope
    <3>3. ASSUME NEW e \in DOMAIN view'.edges \ DOMAIN view.edges,
                 view'.edges[e].rel = "CHECKPOINT_FRONTIER"
          PROVE  Get(view'.nodes[view'.edges[e].dst].fields, "status") = "open"
      <4>1. PICK i \in DOMAIN r.frontier : view'.edges[e].dst = <<scope, "fs", r.frontier[i]>>
        BY <3>1, <3>3, EdgesAfter
      <4>2. r.frontier[i] \in DOMAIN r.states /\ r.states[r.frontier[i]].status = "open"
        BY <3>2 DEF Coherent, Range
      <4>3. QED
        BY <3>1, <4>1, <4>2, StatesAfter
    <3>4. QED
      BY <3>3
  <2>4. QED
    BY <1>1, <2>1, <2>2, <2>3, StepKeeps
<1>2. QED
  BY <1>1, SearchesKeepInv, PTL DEF Spec, FrontiersAreOpen

(***************************************************************************)
(* Runs and their certificates.                                            *)
(***************************************************************************)

\* The neighbours of a node in a graph.
LEMMA Neighbours ==
  ASSUME NEW v, NEW id, NEW rel
  PROVE  /\ \A x : x \in EdgeTargets(v, <<>>, id, rel) <=>
                   \E e \in DOMAIN v.edges :
                     v.edges[e].src = id /\ v.edges[e].rel = rel /\ v.edges[e].dst = x
         /\ \A x : x \in EdgeSources(v, <<>>, id, rel) <=>
                   \E e \in DOMAIN v.edges :
                     v.edges[e].dst = id /\ v.edges[e].rel = rel /\ v.edges[e].src = x
<1>1. EdgeOps(<<>>, rel) = {}
  BY DEF EdgeOps
<1>2. QED
  BY <1>1 DEF EdgeTargets, EdgeSources, EdgesFrom, EdgesTo

\* What a result says is there afterwards, and what was there stays.
LEMMA EdgeSaid ==
  ASSUME NEW v, NEW r, NEW run, NEW declaration, NEW scope, Commits(v, r, run, declaration, scope),
         NEW rel, NEW src, NEW dst, NEW id, NEW index,
         \/ SaysRun(v, r, run, declaration, scope, AddEdge(rel, src, dst, id, index))
         \/ SaysCertificate(v, Proof, r, run, declaration, AddEdge(rel, src, dst, id, index))
  PROVE  LET w == After(v, r, run, declaration, scope)
         IN \E e \in DOMAIN w.edges :
              w.edges[e].rel = rel /\ w.edges[e].src = src /\ w.edges[e].dst = dst
<1> DEFINE op == AddEdge(rel, src, dst, id, index)
<1> DEFINE ops == ResultOps(v, r, run, declaration, scope)
<1> DEFINE w == After(v, r, run, declaration, scope)
<1>1. w = ApplyOps(v, ops) /\ Listed(ops) /\ Produced(v, ops)
  BY DEF After, Commits
<1>2. PICK i \in DOMAIN ops : ops[i] = op
  BY SaidOp
<1>3. op.op = "add_edge" /\ op.rel = rel /\ op.src = src /\ op.dst = dst
  BY OpFields
<1> HIDE DEF op, ops, w
<1>4. ops[i].edge_id \in DOMAIN w.edges /\ w.edges[ops[i].edge_id] = EdgeRecord(ops[i])
  BY <1>1, <1>2, <1>3, AddedEdge
<1>5. QED
  BY <1>2, <1>3, <1>4 DEF EdgeRecord, w

LEMMA EdgesStay ==
  ASSUME NEW v, NEW r, NEW run, NEW declaration, NEW scope, Commits(v, r, run, declaration, scope),
         NEW e \in DOMAIN v.edges
  PROVE  LET w == After(v, r, run, declaration, scope)
         IN e \in DOMAIN w.edges /\ w.edges[e] = v.edges[e]
BY CommittedEdge DEF After, Commits

\* A run that proved produces a certificate for what it searches.
LEMMA ProofSaid ==
  ASSUME NEW v, NEW r, NEW run, NEW declaration, NEW scope, Commits(v, r, run, declaration, scope),
         r.certificate
  PROVE  LET w == After(v, r, run, declaration, scope)
             cert == <<Proof, "cert", NextSerial(v, "cert")>>
         IN /\ run \in EdgeSources(w, <<>>, cert, "PRODUCED_CERTIFICATE")
            /\ declaration # None => declaration \in EdgeTargets(w, <<>>, run, "SEARCHES")
<1> DEFINE w == After(v, r, run, declaration, scope)
<1> DEFINE cert == <<Proof, "cert", NextSerial(v, "cert")>>
<1>1. \E id : SaysCertificate(v, Proof, r, run, declaration,
                             AddEdge("PRODUCED_CERTIFICATE", run, cert, id, None))
  BY DEF SaysCertificate
<1>2. \E e \in DOMAIN w.edges :
        w.edges[e].rel = "PRODUCED_CERTIFICATE" /\ w.edges[e].src = run /\ w.edges[e].dst = cert
  BY <1>1, EdgeSaid
<1>3. declaration # None /\ declaration \notin EdgeTargets(v, <<>>, run, "SEARCHES") =>
        \E id : SaysRun(v, r, run, declaration, scope,
                        AddEdge("SEARCHES", run, declaration, id, None))
  BY DEF SaysRun
<1>4. declaration # None /\ declaration \notin EdgeTargets(v, <<>>, run, "SEARCHES") =>
        \E e \in DOMAIN w.edges :
          w.edges[e].rel = "SEARCHES" /\ w.edges[e].src = run /\ w.edges[e].dst = declaration
  BY <1>3, EdgeSaid
<1>5. \A e \in DOMAIN v.edges : e \in DOMAIN w.edges /\ w.edges[e] = v.edges[e]
  BY EdgesStay
<1> HIDE DEF w, cert
<1>6. run \in EdgeSources(w, <<>>, cert, "PRODUCED_CERTIFICATE")
  BY <1>2, Neighbours
<1>7. declaration # None => declaration \in EdgeTargets(w, <<>>, run, "SEARCHES")
  BY <1>4, <1>5, Neighbours
<1>8. QED
  BY <1>6, <1>7 DEF w, cert

\* A result keeps runs and certificates in step: only the run that concludes changes, it was
\* searching, and only it certifies.
LEMMA ResultCertified ==
  ASSUME NEW v, NEW r, NEW run, NEW declaration, NEW scope, Commits(v, r, run, declaration, scope),
         run \in DOMAIN v.nodes => StatusIn(v, run) = "searching", Certified(v)
  PROVE  Certified(After(v, r, run, declaration, scope))
<1> DEFINE w == After(v, r, run, declaration, scope)
<1> DEFINE cert == <<Proof, "cert", NextSerial(v, "cert")>>
<1> DEFINE proved == "proved-pending-replay"
<1> DEFINE produced == "PRODUCED_CERTIFICATE"
<1>1. /\ Numbered(v) /\ Joined(v) /\ r.certificate = (r.disposition = proved)
      /\ \A id \in DOMAIN v.nodes : v.nodes[id].label = LabelOfPrefix(id[2])
  BY DEF Commits, GraphInv, Coherent
<1>2. cert \notin DOMAIN v.nodes
  BY <1>1, NextSerialIsFree
<1>3. /\ LabelOfPrefix("fs") = "FormalState" /\ LabelOfPrefix("fr") = "FormalRun"
      /\ run[2] = "fr"
  BY DEF LabelOfPrefix, Commits
<1>4. ASSUME NEW id \in DOMAIN v.nodes, v.nodes[id].label \in {"FormalRun", "Certificate"}
      PROVE  /\ id \in DOMAIN w.nodes /\ w.nodes[id].label = v.nodes[id].label
             /\ \A f : Get(w.nodes[id].fields, f) = Get(v.nodes[id].fields, f) \/ (f = "status" /\ id = run)
  <2>1. \A s : id # <<scope, "fs", s>>
    <3>1. ASSUME NEW s, id = <<scope, "fs", s>> PROVE FALSE
      <4>1. id[2] = "fs"
        BY <3>1
      <4>2. QED
        BY <1>1, <1>3, <1>4, <4>1
    <3>2. QED
      BY <3>1
  <2>2. QED
    BY <2>1, NodesAfter
<1>5. \A id \in DOMAIN w.nodes : id \notin DOMAIN v.nodes =>
        /\ w.nodes[id].label = "FormalRun" => id = run
        /\ w.nodes[id].label = "Certificate" =>
             r.certificate /\ id = cert /\ Get(w.nodes[id].fields, "producer_run_id") = run
  BY CreatedByResult
<1>6. \A e \in DOMAIN v.edges : e \in DOMAIN w.edges /\ w.edges[e] = v.edges[e]
  BY EdgesStay
<1>7. \A e \in DOMAIN w.edges : e \notin DOMAIN v.edges =>
        /\ w.edges[e].rel = produced =>
             r.certificate /\ w.edges[e].src = run /\ w.edges[e].dst = cert
        /\ w.edges[e].rel = "CERTIFIES" =>
             /\ r.certificate /\ w.edges[e].src = cert /\ w.edges[e].dst = declaration
             /\ declaration # None
  BY EdgesAfter
<1>8. run \in DOMAIN w.nodes /\ StatusIn(w, run) = r.disposition
  BY RunAfter DEF StatusIn
<1>9. r.certificate => /\ run \in EdgeSources(w, <<>>, cert, produced)
                       /\ declaration # None => declaration \in EdgeTargets(w, <<>>, run, "SEARCHES")
  BY ProofSaid
<1>10. \A e \in DOMAIN v.edges : v.edges[e].src \in DOMAIN v.nodes /\ v.edges[e].dst \in DOMAIN v.nodes
  BY <1>1 DEF Joined
<1> HIDE DEF w, cert, proved, produced
<1>11. ASSUME NEW id \in RunsOf(w)
       PROVE  StatusIn(w, id) = proved <=> EdgesFrom(w, id, produced) # {}
  <2>0. id \in DOMAIN w.nodes /\ w.nodes[id].label = "FormalRun"
    BY DEF RunsOf
  <2>1. CASE id = run
    <3>1. EdgesFrom(v, id, produced) = {}
      <4>1. CASE run \in DOMAIN v.nodes
        <5>1. run \in RunsOf(v)
          BY <1>1, <1>3, <4>1 DEF RunsOf
        <5>2. StatusIn(v, run) # proved
          BY <4>1 DEF proved
        <5>3. QED
          BY <2>1, <5>1, <5>2 DEF Certified, proved, produced
      <4>2. CASE run \notin DOMAIN v.nodes
        BY <2>1, <4>2, <1>10 DEF EdgesFrom
      <4>3. QED
        BY <4>1, <4>2
    <3>2. EdgesFrom(w, id, produced) # {} => r.certificate
      BY <3>1, <1>6, <1>7 DEF EdgesFrom
    <3>3. r.certificate => EdgesFrom(w, id, produced) # {}
      BY <2>1, <1>9, Neighbours DEF EdgesFrom
    <3>4. QED
      BY <2>1, <1>1, <1>8, <3>2, <3>3
  <2>2. CASE id # run
    <3>1. id \in DOMAIN v.nodes /\ v.nodes[id].label = "FormalRun"
      BY <2>0, <2>2, <1>5, NodesAfter DEF w
    <3>2. StatusIn(w, id) = StatusIn(v, id)
      BY <3>1, <2>2, <1>4 DEF StatusIn
    <3>3. EdgesFrom(w, id, produced) = EdgesFrom(v, id, produced)
      BY <2>2, <1>6, <1>7 DEF EdgesFrom
    <3>4. id \in RunsOf(v)
      BY <3>1 DEF RunsOf
    <3>5. QED
      BY <3>2, <3>3, <3>4 DEF Certified, proved, produced
  <2>3. QED
    BY <2>1, <2>2
<1>12. ASSUME NEW id \in DOMAIN w.nodes, w.nodes[id].label = "Certificate",
              NEW producer, producer = Get(w.nodes[id].fields, "producer_run_id")
       PROVE  /\ EdgeSources(w, <<>>, id, produced) = {producer}
              /\ EdgeTargets(w, <<>>, id, "CERTIFIES") \subseteq EdgeTargets(w, <<>>, producer, "SEARCHES")
  <2>1. CASE id \notin DOMAIN v.nodes
    <3>1. r.certificate /\ id = cert /\ Get(w.nodes[id].fields, "producer_run_id") = run
      BY <2>1, <1>5, <1>12
    <3>2. producer = run
      BY <3>1, <1>12
    <3>3. \A e \in DOMAIN w.edges :
            /\ w.edges[e].dst = cert /\ w.edges[e].rel = produced => w.edges[e].src = run
            /\ w.edges[e].src = cert /\ w.edges[e].rel = "CERTIFIES" =>
                 w.edges[e].dst = declaration /\ declaration # None
      BY <1>2, <1>6, <1>7, <1>10
    <3>4. EdgeSources(w, <<>>, cert, produced) = {run}
      <4>1. \A x : x \in EdgeSources(w, <<>>, cert, produced) => x = run
        BY <3>3, Neighbours
      <4>2. run \in EdgeSources(w, <<>>, cert, produced)
        BY <1>9, <3>1
      <4> DEFINE S == EdgeSources(w, <<>>, cert, produced)
      <4> HIDE DEF S
      <4>3. S = {run}
        BY <4>1, <4>2 DEF S
      <4>4. QED
        BY <4>3 DEF S
    <3>5. EdgeTargets(w, <<>>, cert, "CERTIFIES") \subseteq EdgeTargets(w, <<>>, run, "SEARCHES")
      <4>1. \A x : x \in EdgeTargets(w, <<>>, cert, "CERTIFIES") => x = declaration /\ declaration # None
        BY <3>3, Neighbours
      <4>2. QED
        BY <1>9, <3>1, <4>1
    <3>6. QED
      BY <3>1, <3>2, <3>4, <3>5
  <2>2. CASE id \in DOMAIN v.nodes
    <3>1. v.nodes[id].label = "Certificate" /\ producer = Get(v.nodes[id].fields, "producer_run_id")
      <4>1. w.nodes[id].label = v.nodes[id].label
        BY <2>2, NodesAfter DEF w
      <4>2. QED
        BY <2>2, <1>4, <1>12, <4>1
    <3>2. /\ EdgeSources(v, <<>>, id, produced) = {producer}
          /\ EdgeTargets(v, <<>>, id, "CERTIFIES") \subseteq EdgeTargets(v, <<>>, producer, "SEARCHES")
      BY <2>2, <3>1 DEF Certified, produced
    <3>3. id # cert
      BY <2>2, <1>2
    <3>4. EdgeSources(w, <<>>, id, produced) = EdgeSources(v, <<>>, id, produced)
      <4>1. \A x : x \in EdgeSources(w, <<>>, id, produced) <=> x \in EdgeSources(v, <<>>, id, produced)
        BY <3>3, <1>6, <1>7, Neighbours
      <4>2. QED
        BY <4>1 DEF EdgeSources
    <3>5. EdgeTargets(w, <<>>, id, "CERTIFIES") \subseteq EdgeTargets(v, <<>>, id, "CERTIFIES")
      BY <3>3, <1>6, <1>7, Neighbours
    <3>6. EdgeTargets(v, <<>>, producer, "SEARCHES") \subseteq EdgeTargets(w, <<>>, producer, "SEARCHES")
      BY <1>6, Neighbours
    <3>7. QED
      BY <3>2, <3>4, <3>5, <3>6
  <2>3. QED
    BY <2>1, <2>2
<1>13. QED
  BY <1>11, <1>12 DEF Certified, proved, produced, w

\* A bridge lemma neither searches nor certifies.
LEMMA BridgeCertified ==
  ASSUME SearchInv, Bridged, Certified(view)
  PROVE  Certified(view')
<1> DEFINE v == view
<1> DEFINE w == view'
<1>1. /\ \A id \in DOMAIN v.nodes :
           /\ id \in DOMAIN w.nodes /\ w.nodes[id].label = v.nodes[id].label
           /\ \A f : Get(w.nodes[id].fields, f) = Get(v.nodes[id].fields, f)
      /\ \A id \in DOMAIN w.nodes \ DOMAIN v.nodes :
           w.nodes[id].label \in {"ResearchState", "ResearchMove"}
      /\ \A e \in DOMAIN v.edges : e \in DOMAIN w.edges /\ w.edges[e] = v.edges[e]
      /\ \A e \in DOMAIN w.edges \ DOMAIN v.edges : w.edges[e].rel = "PROPOSES"
  BY BridgeAdds
<1>2. Certified(v)
  OBVIOUS
<1> HIDE DEF v, w
<1>3. ASSUME NEW id, NEW rel \in {"PRODUCED_CERTIFICATE", "CERTIFIES", "SEARCHES"}
      PROVE  /\ EdgesFrom(w, id, rel) = EdgesFrom(v, id, rel)
             /\ EdgeTargets(w, <<>>, id, rel) = EdgeTargets(v, <<>>, id, rel)
             /\ EdgeSources(w, <<>>, id, rel) = EdgeSources(v, <<>>, id, rel)
  <2>1. /\ EdgesFrom(w, id, rel) = EdgesFrom(v, id, rel)
        /\ \A e \in EdgesFrom(v, id, rel) : w.edges[e] = v.edges[e]
    BY <1>1 DEF EdgesFrom
  <2>2. /\ EdgesTo(w, id, rel) = EdgesTo(v, id, rel)
        /\ \A e \in EdgesTo(v, id, rel) : w.edges[e] = v.edges[e]
    BY <1>1 DEF EdgesTo
  <2>3. EdgeTargets(w, <<>>, id, rel) = EdgeTargets(v, <<>>, id, rel)
    BY <2>1 DEF EdgeTargets
  <2>4. EdgeSources(w, <<>>, id, rel) = EdgeSources(v, <<>>, id, rel)
    BY <2>2 DEF EdgeSources
  <2>5. QED
    BY <2>1, <2>3, <2>4
<1>4. ASSUME NEW id \in DOMAIN w.nodes, w.nodes[id].label \in {"FormalRun", "Certificate"}
      PROVE  /\ id \in DOMAIN v.nodes /\ v.nodes[id].label = w.nodes[id].label
             /\ \A f : Get(w.nodes[id].fields, f) = Get(v.nodes[id].fields, f)
  BY <1>1, <1>4
<1>5. ASSUME NEW id \in RunsOf(w)
      PROVE  StatusIn(w, id) = "proved-pending-replay" <=> EdgesFrom(w, id, "PRODUCED_CERTIFICATE") # {}
  <2>1. id \in RunsOf(v) /\ StatusIn(w, id) = StatusIn(v, id)
    BY <1>4 DEF RunsOf, StatusIn
  <2>2. EdgesFrom(w, id, "PRODUCED_CERTIFICATE") = EdgesFrom(v, id, "PRODUCED_CERTIFICATE")
    BY <1>3
  <2>3. QED
    BY <1>2, <2>1, <2>2 DEF Certified
<1>6. ASSUME NEW id \in DOMAIN w.nodes, w.nodes[id].label = "Certificate"
      PROVE  LET producer == Get(w.nodes[id].fields, "producer_run_id")
             IN /\ EdgeSources(w, <<>>, id, "PRODUCED_CERTIFICATE") = {producer}
                /\ EdgeTargets(w, <<>>, id, "CERTIFIES")
                     \subseteq EdgeTargets(w, <<>>, producer, "SEARCHES")
  <2>1. /\ id \in DOMAIN v.nodes /\ v.nodes[id].label = "Certificate"
        /\ Get(w.nodes[id].fields, "producer_run_id") = Get(v.nodes[id].fields, "producer_run_id")
    BY <1>4, <1>6
  <2>2. \A x : /\ EdgeSources(w, <<>>, x, "PRODUCED_CERTIFICATE")
                    = EdgeSources(v, <<>>, x, "PRODUCED_CERTIFICATE")
               /\ EdgeTargets(w, <<>>, x, "CERTIFIES") = EdgeTargets(v, <<>>, x, "CERTIFIES")
               /\ EdgeTargets(w, <<>>, x, "SEARCHES") = EdgeTargets(v, <<>>, x, "SEARCHES")
    BY <1>3
  <2>3. QED
    BY <1>2, <2>1, <2>2 DEF Certified
<1>7. QED
  BY <1>5, <1>6 DEF Certified, w

\* What is committed of a search keeps runs and certificates in step, whatever else happens.
LEMMA StepCertified ==
  ASSUME SearchInv, Certified(view), [Next]_vars
  PROVE  Certified(view)'
<1>1. CASE view' = view
  BY <1>1
<1>2. CASE Bridged
  <2>1. Certified(view')
    BY <1>2, BridgeCertified
  <2>2. QED
    BY <2>1
<1>3. ASSUME NEW run, NEW answer, Answered(run, answer), Concluded(run, answer)
      PROVE  Certified(view)'
  <2>1. /\ Commits(view, answer.result, run, answer.declaration, answer.scope)
        /\ view' = After(view, answer.result, run, answer.declaration, answer.scope)
    BY <1>3, ConcludedCommits
  <2>2. run \in DOMAIN view.nodes => StatusIn(view, run) = "searching"
    BY <1>3 DEF Answered, StatusOf
  <2>3. Certified(After(view, answer.result, run, answer.declaration, answer.scope))
    BY <2>1, <2>2, ResultCertified
  <2>4. QED
    BY <2>1, <2>3
<1>4. QED
  BY <1>1, <1>2, <1>3, StepKeeps

\* A run awaits replay exactly if it produced a certificate, which names it and certifies
\* only what it searched (ProvedRunsAreCertified), whatever the adapters answer and however
\* often a search is resumed.
THEOREM RunsCertified == Spec => []ProvedRunsAreCertified
<1>1. Init => SearchInv /\ Certified(view)
  <2>1. Init => Certified(view)
    BY HistoryAssumption DEF Init, HistoryAssumption
  <2>2. QED
    BY <2>1, InitKeeps
<1>2. SearchInv /\ Certified(view) /\ [Next]_vars => SearchInv' /\ Certified(view)'
  BY StepKeeps, StepCertified
<1>3. Certified(view) => ProvedRunsAreCertified
  BY DEF ProvedRunsAreCertified
<1>4. QED
  BY <1>1, <1>2, <1>3, PTL DEF Spec

(***************************************************************************)
(* Runs and their roots, of the reasoner's adapter.                        *)
(***************************************************************************)

\* What the adapter reports of a search: it is over, its states are open, expanded, closed
\* or failed, and the root of a proof is closed.
MathsSays(r) ==
  /\ r.disposition # "searching"
  /\ \A s \in DOMAIN r.states :
       r.states[s].status \in {"open", "expanded", "formally-closed", "failed"}
  /\ r.disposition = "proved-pending-replay" =>
       1 \in DOMAIN r.states /\ r.states[1].status = "formally-closed"

LEMMA ConvertedSays ==
  ASSUME NEW g \in Graphs, NEW d
  PROVE  MathsSays(Converted(g, d))
<1> DEFINE r == Converted(g, d)
<1>1. /\ r.states = States(d, [n \in DOMAIN g.nodes |-> StateStatus(g, n)])
      /\ r.disposition \in {"proved-pending-replay", "stagnated", "budget-exhausted"}
      /\ r.disposition = "proved-pending-replay" => Solved(g) /\ 1 \in KernelClosed(g)
  BY ConvertedParts
<1> HIDE DEF r
<1>2. /\ DOMAIN r.states = DOMAIN g.nodes
      /\ \A s \in DOMAIN g.nodes : r.states[s].status = StateStatus(g, s)
  BY <1>1 DEF States
<1>3. 1 \in DOMAIN g.nodes
      /\ \A s \in DOMAIN g.nodes : g.nodes[s] \in {"open", "expanded", "solved", "dead"}
  BY GraphAssumption DEF GraphAssumption, Range
<1>4. \A s \in DOMAIN g.nodes : StateStatus(g, s) \in {"open", "expanded", "formally-closed", "failed"}
  BY <1>3 DEF StateStatus
<1>5. Solved(g) /\ 1 \in KernelClosed(g) => StateStatus(g, 1) = "formally-closed"
  BY DEF StateStatus, Solved
<1>6. MathsSays(r)
  BY <1>1, <1>2, <1>3, <1>4, <1>5 DEF MathsSays
<1>7. QED
  BY <1>6 DEF r

LEMMA FailureSays ==
  ASSUME NEW d \in {"invalid-request", "internal-error", "cancelled"}
  PROVE  MathsSays(Result(d)) /\ Result(d).disposition # "proved-pending-replay"
BY DEF Result, MathsSays

\* Asked to resume, it has forgotten the run: it never leaves one searching.
LEMMA MathsAnswers ==
  ASSUME adapter = "maths-ai"
  PROVE  /\ \A d : \A answer \in StartAnswers(d) : MathsSays(answer.result)
         /\ known = {} => \A run : \A answer \in ResumeAnswers(run) :
              /\ MathsSays(answer.result) /\ ~answer.remembers
              /\ answer.result.disposition # "proved-pending-replay"
<1>1. \A d : \A answer \in SearchedFor(d) : MathsSays(answer.result)
  <2>1. ASSUME NEW d, NEW answer \in SearchedFor(d) PROVE MathsSays(answer.result)
    <3>1. (\E g \in Graphs : answer.result = Converted(g, d)) \/ answer.result = Result("internal-error")
      BY DEF SearchedFor, Answer
    <3>2. QED
      BY <3>1, ConvertedSays, FailureSays
  <2>2. QED
    BY <2>1
<1>2. ASSUME NEW d, NEW answer \in StartAnswers(d) PROVE MathsSays(answer.result)
  <2>1. answer \in SearchedFor(d) \/ answer = Answer(Result("invalid-request"), d, Proof, FALSE)
    BY DEF StartAnswers
  <2>2. answer \in SearchedFor(d) \/ answer.result = Result("invalid-request")
    BY <2>1 DEF Answer
  <2>3. QED
    BY <2>2, <1>1, FailureSays
<1>3. ASSUME known = {}, NEW run, NEW answer \in ResumeAnswers(run)
      PROVE  /\ MathsSays(answer.result) /\ ~answer.remembers
             /\ answer.result.disposition # "proved-pending-replay"
  <2>1. \/ answer = Answer(Result("invalid-request"), None, Proof, FALSE)
        \/ answer = Answer(Result("cancelled"), None, Proof, FALSE)
    BY <1>3 DEF ResumeAnswers
  <2>2. /\ answer.result \in {Result("invalid-request"), Result("cancelled")}
        /\ ~answer.remembers
    BY <2>1 DEF Answer
  <2>3. QED
    BY <2>2, FailureSays
<1>4. QED
  BY <1>2, <1>3

\* The transitions of a closed state.
LEMMA ClosedRow ==
  /\ STATUS_TRANSITIONS("FormalState", "status") # {}
  /\ AllowedFrom("FormalState", "status", "formally-closed")
       \cap {"open", "expanded", "formally-closed", "failed"} = {}
  /\ "formally-closed" \in Vocabulary("FormalState", "status")
<1> DEFINE T == STATUS_TRANSITIONS("FormalState", "status")
<1> DEFINE to == {"lean-verified", "tainted", "stale"}
<1>1. /\ <<"formally-closed", to>> \in T
      /\ \A row \in T : row[1] = "formally-closed" => row[2] = to
  BY DEF STATUS_TRANSITIONS
<1>2. Vocabulary("FormalState", "status") = {row[1] : row \in T}
  BY DEF Vocabulary
<1>3. \A x \in AllowedFrom("FormalState", "status", "formally-closed") : x \in to
  BY <1>1 DEF AllowedFrom
<1> HIDE DEF T
<1>4. "formally-closed" \in {row[1] : row \in T}
  BY <1>1
<1>5. QED
  BY <1>1, <1>2, <1>3, <1>4 DEF T

\* A state that was closed is not reopened by what the adapter reports.
LEMMA ClosedStays ==
  ASSUME NEW v, NEW r, NEW run, NEW declaration, NEW scope, Commits(v, r, run, declaration, scope),
         MathsSays(r), NEW id \in DOMAIN v.nodes, v.nodes[id].label = "FormalState",
         StatusIn(v, id) = "formally-closed"
  PROVE  StatusIn(After(v, r, run, declaration, scope), id) = "formally-closed"
<1> DEFINE ops == ResultOps(v, r, run, declaration, scope)
<1> DEFINE w == After(v, r, run, declaration, scope)
<1>1. /\ w = ApplyOps(v, ops) /\ Listed(ops) /\ Produced(v, ops)
      /\ CheckReferences(v, ops) /\ CheckTransitions(v, ops)
  BY DEF After, Commits, Accepts, Proposal
<1>2. id # run
  <2>1. LabelOfPrefix("fr") = "FormalRun" /\ run[2] = "fr" /\ v.nodes[id].label = LabelOfPrefix(id[2])
    BY DEF LabelOfPrefix, Commits, GraphInv
  <2>2. QED
    BY <2>1
<1>3. \/ StatusIn(w, id) = StatusIn(v, id)
      \/ \E s \in DOMAIN r.states : StatusIn(w, id) = r.states[s].status
  BY <1>2, NodesAfter DEF StatusIn
<1>4. StatusIn(w, id) \in {"open", "expanded", "formally-closed", "failed"}
  BY <1>3 DEF MathsSays
<1>5. /\ STATUS_TRANSITIONS("FormalState", "status") # {}
      /\ AllowedFrom("FormalState", "status", "formally-closed")
           \cap {"open", "expanded", "formally-closed", "failed"} = {}
      /\ "formally-closed" \in Vocabulary("FormalState", "status")
  BY ClosedRow
<1>6. "formally-closed" # None
  BY <1>5, SearchAssumption
<1> HIDE DEF ops, w
<1>7. StatusIn(w, id) # StatusIn(v, id) =>
        StatusIn(w, id) \in AllowedFrom("FormalState", "status", "formally-closed")
  BY <1>1, <1>5, <1>6, TransitionLegal DEF StatusIn, Produced
<1>8. QED
  BY <1>4, <1>5, <1>7 DEF w

\* A result leaves the roots of proved runs closed: those of other runs stay, and a run is
\* proved with its root or not at all.
LEMMA ResultRooted ==
  ASSUME NEW v, NEW r, NEW run, NEW declaration, NEW scope, Commits(v, r, run, declaration, scope),
         MathsSays(r), run \in DOMAIN v.nodes => r.disposition # "proved-pending-replay",
         RootsClosed(v)
  PROVE  RootsClosed(After(v, r, run, declaration, scope))
<1> DEFINE w == After(v, r, run, declaration, scope)
<1>1. Joined(v) /\ LabelOfPrefix("fr") = "FormalRun" /\ LabelOfPrefix("fs") = "FormalState"
      /\ \A id \in DOMAIN v.nodes : v.nodes[id].label = LabelOfPrefix(id[2])
  BY DEF Commits, GraphInv, LabelOfPrefix
<1>2. \A e \in DOMAIN v.edges : e \in DOMAIN w.edges /\ w.edges[e] = v.edges[e]
  BY EdgesStay
<1>3. \A e \in DOMAIN w.edges : e \notin DOMAIN v.edges /\ w.edges[e].rel = "HAS_ROOT" =>
        w.edges[e].src = run /\ w.edges[e].dst = <<scope, "fs", 1>>
  BY EdgesAfter
<1>4. StatusIn(w, run) = r.disposition
  BY RunAfter DEF StatusIn
<1>5. \A s \in DOMAIN r.states : StatusIn(w, <<scope, "fs", s>>) = r.states[s].status
  BY StatesAfter DEF StatusIn
<1>6. \A id \in DOMAIN v.nodes :
        v.nodes[id].label = "FormalState" /\ StatusIn(v, id) = "formally-closed" =>
          StatusIn(w, id) = "formally-closed"
  BY ClosedStays
<1>7. \A id \in DOMAIN w.nodes : w.nodes[id].label = "FormalRun" /\ id # run =>
        /\ id \in DOMAIN v.nodes /\ v.nodes[id].label = "FormalRun"
        /\ StatusIn(w, id) = StatusIn(v, id)
  <2>1. ASSUME NEW id \in DOMAIN w.nodes, w.nodes[id].label = "FormalRun", id # run
        PROVE  /\ id \in DOMAIN v.nodes /\ v.nodes[id].label = "FormalRun"
               /\ StatusIn(w, id) = StatusIn(v, id)
    <3>1. id \in DOMAIN v.nodes
      BY <2>1, CreatedByResult
    <3>2. v.nodes[id].label = "FormalRun"
      BY <2>1, <3>1, NodesAfter
    <3>3. \A s : id # <<scope, "fs", s>>
      <4>1. id[2] # "fs"
        BY <1>1, <3>1, <3>2
      <4>2. QED
        BY <4>1
    <3>4. StatusIn(w, id) = StatusIn(v, id)
      BY <2>1, <3>1, <3>3, NodesAfter DEF StatusIn
    <3>5. QED
      BY <3>1, <3>2, <3>4
  <2>2. QED
    BY <2>1
<1> HIDE DEF w
<1>8. ASSUME NEW id \in RunsOf(w), StatusIn(w, id) = "proved-pending-replay",
             NEW root \in EdgeTargets(w, <<>>, id, "HAS_ROOT")
      PROVE  StatusIn(w, root) = "formally-closed"
  <2>1. PICK e \in DOMAIN w.edges :
          w.edges[e].src = id /\ w.edges[e].rel = "HAS_ROOT" /\ w.edges[e].dst = root
    BY Neighbours
  <2>2. id \in DOMAIN w.nodes /\ w.nodes[id].label = "FormalRun"
    BY DEF RunsOf
  <2>3. CASE id = run
    <3>1. run \notin DOMAIN v.nodes /\ r.disposition = "proved-pending-replay"
      BY <1>4, <1>8, <2>3
    <3>2. e \notin DOMAIN v.edges
      BY <1>1, <1>2, <2>1, <2>3, <3>1 DEF Joined
    <3>3. root = <<scope, "fs", 1>>
      BY <1>3, <2>1, <3>2
    <3>4. QED
      BY <1>5, <3>1, <3>3 DEF MathsSays
  <2>4. CASE id # run
    <3>1. /\ id \in RunsOf(v) /\ StatusIn(v, id) = "proved-pending-replay"
      BY <1>7, <1>8, <2>2, <2>4 DEF RunsOf
    <3>2. e \in DOMAIN v.edges /\ v.edges[e] = w.edges[e]
      BY <1>2, <1>3, <2>1, <2>4
    <3>3. root \in EdgeTargets(v, <<>>, id, "HAS_ROOT")
      BY <2>1, <3>2, Neighbours
    <3>4. StatusIn(v, root) = "formally-closed"
      BY <3>1, <3>3 DEF RootsClosed
    <3>5. root \in DOMAIN v.nodes /\ v.nodes[root].label = "FormalState"
      <4>1. EDGE_ENDPOINTS("HAS_ROOT") = {<<"FormalRun", "FormalState">>}
        BY DEF EDGE_ENDPOINTS
      <4>2. /\ v.edges[e].dst \in DOMAIN v.nodes
            /\ <<v.nodes[v.edges[e].src].label, v.nodes[v.edges[e].dst].label>>
                 \in EDGE_ENDPOINTS("HAS_ROOT")
        BY <1>1, <2>1, <3>2, <4>1 DEF Joined
      <4>3. QED
        BY <2>1, <3>2, <4>1, <4>2
    <3>6. QED
      BY <1>6, <3>4, <3>5
  <2>5. QED
    BY <2>3, <2>4
<1>9. QED
  BY <1>8 DEF RootsClosed, w

\* The reasoner's adapter leaves no run searching, so it has none to remember, and the roots
\* of what it proved are closed.
RootsInv == adapter = "maths-ai" => known = {} /\ RootsClosed(view)

\* A bridge lemma neither proves nor reopens.
LEMMA BridgeRooted ==
  ASSUME SearchInv, Bridged, RootsClosed(view)
  PROVE  RootsClosed(view')
<1> DEFINE v == view
<1> DEFINE w == view'
<1>1. /\ \A id \in DOMAIN v.nodes : \A f : Get(w.nodes[id].fields, f) = Get(v.nodes[id].fields, f)
      /\ \A id \in DOMAIN v.nodes : w.nodes[id].label = v.nodes[id].label
      /\ \A id \in DOMAIN w.nodes \ DOMAIN v.nodes :
           w.nodes[id].label \in {"ResearchState", "ResearchMove"}
      /\ \A e \in DOMAIN v.edges : e \in DOMAIN w.edges /\ w.edges[e] = v.edges[e]
      /\ \A e \in DOMAIN w.edges \ DOMAIN v.edges : w.edges[e].rel = "PROPOSES"
  BY BridgeAdds
<1>2. \A e \in DOMAIN v.edges : v.edges[e].dst \in DOMAIN v.nodes
  BY DEF SearchInv, GraphInv, Joined
<1>3. RootsClosed(v)
  OBVIOUS
<1> HIDE DEF v, w
<1>4. ASSUME NEW id \in RunsOf(w), StatusIn(w, id) = "proved-pending-replay",
             NEW root \in EdgeTargets(w, <<>>, id, "HAS_ROOT")
      PROVE  StatusIn(w, root) = "formally-closed"
  <2>1. id \in RunsOf(v) /\ StatusIn(v, id) = "proved-pending-replay"
    BY <1>1, <1>4 DEF RunsOf, StatusIn
  <2>2. root \in EdgeTargets(v, <<>>, id, "HAS_ROOT") /\ root \in DOMAIN v.nodes
    BY <1>1, <1>2, Neighbours
  <2>3. StatusIn(v, root) = "formally-closed"
    BY <1>3, <2>1, <2>2 DEF RootsClosed
  <2>4. QED
    BY <1>1, <2>2, <2>3 DEF StatusIn
<1>5. QED
  BY <1>4 DEF RootsClosed, w

\* What a cycle commits of an answer of the adapter leaves the roots closed.
LEMMA ConcludedRooted ==
  ASSUME SearchInv, RootsClosed(view), NEW run, NEW answer, Answered(run, answer),
         MathsSays(answer.result),
         run \in DOMAIN view.nodes => answer.result.disposition # "proved-pending-replay",
         Concluded(run, answer)
  PROVE  /\ RootsClosed(view')
         /\ Get(view'.nodes[run].fields, "status") # "searching"
<1>1. /\ Commits(view, answer.result, run, answer.declaration, answer.scope)
      /\ view' = After(view, answer.result, run, answer.declaration, answer.scope)
  BY ConcludedCommits
<1>2. RootsClosed(After(view, answer.result, run, answer.declaration, answer.scope))
  BY <1>1, ResultRooted
<1>3. Get(view'.nodes[run].fields, "status") = answer.result.disposition
  BY <1>1, RunAfter
<1>4. QED
  BY <1>1, <1>2, <1>3 DEF MathsSays

\* A search starts: it ends at once.
LEMMA StartRooted ==
  ASSUME SearchInv, adapter = "maths-ai", RootsInv, NEW d \in Decls, Start(Id("fd", d))
  PROVE  RootsInv'
<1>1. PICK run, answer :
        /\ answer \in StartAnswers(Id("fd", d)) /\ Conclude(run, answer)
        /\ run \notin DOMAIN view.nodes /\ Answered(run, answer)
        /\ view' = view \/ Concluded(run, answer)
  BY StartConcludes
<1>2. MathsSays(answer.result)
  BY <1>1, MathsAnswers
<1>3. known = {} /\ RootsClosed(view)
  BY DEF RootsInv
<1>4. known' \subseteq Going({run}, view')
  BY <1>1, <1>3 DEF Conclude, Going
<1>5. CASE view' = view
  <2>1. Going({run}, view') = {}
    BY <1>1, <1>5 DEF Going
  <2>2. RootsClosed(view)'
    BY <1>3, <1>5
  <2>3. QED
    BY <1>4, <2>1, <2>2 DEF RootsInv
<1>6. CASE Concluded(run, answer)
  <2>1. RootsClosed(view') /\ Get(view'.nodes[run].fields, "status") # "searching"
    BY <1>1, <1>2, <1>3, <1>6, ConcludedRooted
  <2>2. Going({run}, view') = {}
    BY <2>1 DEF Going
  <2>3. RootsClosed(view)'
    BY <2>1
  <2>4. QED
    BY <1>4, <2>2, <2>3 DEF RootsInv
<1>7. QED
  BY <1>1, <1>5, <1>6

\* A run of another adapter's, found searching, is not proved.
LEMMA ResumeRooted ==
  ASSUME SearchInv, adapter = "maths-ai", RootsInv, NEW run \in Runs, Resume(run)
  PROVE  RootsInv'
<1>1. PICK answer :
        /\ answer \in ResumeAnswers(run) /\ Conclude(run, answer) /\ Answered(run, answer)
        /\ view' = view \/ Concluded(run, answer)
  BY ResumeConcludes
<1>2. known = {} /\ RootsClosed(view)
  BY DEF RootsInv
<1>3. /\ MathsSays(answer.result) /\ ~answer.remembers
      /\ answer.result.disposition # "proved-pending-replay"
  BY <1>1, <1>2, MathsAnswers
<1>4. known' = {}
  BY <1>1, <1>2, <1>3 DEF Conclude, Going
<1>5. RootsClosed(view')
  BY <1>1, <1>2, <1>3, ConcludedRooted
<1>6. RootsClosed(view)'
  BY <1>5
<1>7. QED
  BY <1>4, <1>6 DEF RootsInv

\* Every step leaves the roots of proved runs closed.
LEMMA StepRooted ==
  ASSUME SearchInv, RootsInv, [Next]_vars
  PROVE  RootsInv'
<1>1. adapter' = adapter
  BY DEF Next, vars, Start, Resume, Conclude, ProposeBridge, ReportRouting, Cancel, Restart
<1>2. CASE adapter # "maths-ai"
  BY <1>1, <1>2 DEF RootsInv
<1>3. CASE adapter = "maths-ai"
  <2>1. known = {} /\ RootsClosed(view)
    BY <1>3 DEF RootsInv
  <2>2. ASSUME view' = view, known' = {}
        PROVE  RootsInv'
    BY <2>1, <2>2 DEF RootsInv, RootsClosed, RunsOf, StatusIn
  <2>3. ASSUME NEW d \in Decls, Start(Id("fd", d))
        PROVE  RootsInv'
    BY <1>3, <2>3, StartRooted
  <2>4. ASSUME NEW run \in Runs, Resume(run)
        PROVE  RootsInv'
    BY <1>3, <2>4, ResumeRooted
  <2>5. CASE ProposeBridge
    <3>1. view' = view \/ Bridged
      BY <2>5, BridgeKeeps
    <3>2. RootsClosed(view)'
      BY <2>1, <3>1, BridgeRooted
    <3>3. known' = {}
      BY <2>1, <2>5 DEF ProposeBridge
    <3>4. QED
      BY <3>2, <3>3 DEF RootsInv
  <2>6. CASE ReportRouting
    BY <2>1, <2>2, <2>6 DEF ReportRouting
  <2>7. ASSUME NEW run \in Runs, Cancel(run)
        PROVE  RootsInv'
    BY <2>1, <2>2, <2>7 DEF Cancel
  <2>8. CASE Restart
    BY <2>2, <2>8 DEF Restart
  <2>9. CASE UNCHANGED vars
    BY <2>1, <2>2, <2>9 DEF vars
  <2>10. QED
    BY <2>3, <2>4, <2>5, <2>6, <2>7, <2>8, <2>9 DEF Next
<1>4. QED
  BY <1>2, <1>3

\* The root of a run the reasoner proved is closed, and no later search, of whatever graphs,
\* reopens it (ProvedRootsAreClosed).
THEOREM RootsStayClosed == Spec => []ProvedRootsAreClosed
<1>1. Init => RootsInv
  BY HistoryAssumption DEF Init, HistoryAssumption, RootsInv
<1>2. SearchInv /\ RootsInv /\ [Next]_vars => SearchInv' /\ RootsInv'
  BY StepKeeps, StepRooted
<1>3. RootsInv => ProvedRootsAreClosed
  BY DEF RootsInv, ProvedRootsAreClosed
<1>4. QED
  BY InitKeeps, <1>1, <1>2, <1>3, PTL DEF Spec

(***************************************************************************)
(* The projector and the committed graph.                                  *)
(***************************************************************************)

\* What is collected exists: after each op, what the one before left and the op.
LEMMA ProjectedStep ==
  ASSUME NEW m, NEW ops, Len(ops) \in Nat
  PROVE  /\ Projected(m, ops)[0] = m
         /\ \A n \in 1..Len(ops) :
              Projected(m, ops)[n] = Collect(Projected(m, ops)[n - 1], ops[n])
<1> DEFINE Are(p, n) == p = [k \in 0..n |-> IF k = 0 THEN m ELSE Collect(p[k - 1], ops[k])]
           S == {n \in Nat : \E p : Are(p, n)}
<1>1. 0 \in S
  <2>1. Are([k \in 0..0 |-> m], 0)
    OBVIOUS
  <2>2. QED
    BY <2>1
<1>2. \A n \in S : n + 1 \in S
  <2> SUFFICES ASSUME NEW n \in Nat, NEW p, Are(p, n)
               PROVE  \E q : Are(q, n + 1)
    OBVIOUS
  <2> DEFINE q == [k \in 0..n + 1 |-> IF k <= n THEN p[k] ELSE Collect(p[n], ops[k])]
  <2>1. \A k \in 0..n : p[k] = IF k = 0 THEN m ELSE Collect(p[k - 1], ops[k])
    OBVIOUS
  <2>2. \A k \in 0..n + 1 : q[k] = IF k = 0 THEN m ELSE Collect(q[k - 1], ops[k])
    BY <2>1
  <2>3. q = [k \in 0..n + 1 |-> q[k]]
    OBVIOUS
  <2> HIDE DEF q
  <2>4. Are(q, n + 1)
    BY <2>2, <2>3
  <2>5. QED
    BY <2>4
<1> HIDE DEF S
<1>3. Len(ops) \in S
  <2>1. S \in SUBSET Nat
    BY DEF S
  <2>2. QED
    BY <1>1, <1>2, <2>1, Counting
<1>4. PICK p : Are(p, Len(ops))
  BY <1>3 DEF S
<1>5. Are(Projected(m, ops), Len(ops))
  BY <1>4 DEF Projected
<1>6. QED
  BY <1>5

\* Nodes and fields of a graph are maps.
IsGraph(v) ==
  /\ IsMap(v.nodes)
  /\ \A id \in DOMAIN v.nodes :
       /\ v.nodes[id] = [label |-> v.nodes[id].label, fields |-> v.nodes[id].fields]
       /\ IsMap(v.nodes[id].fields)

EdgeAtom(e, edge) ==
  [edge_id |-> e, rel |-> edge.rel, src |-> edge.src, dst |-> edge.dst, index |-> edge.index]

\* The projector has the graph, and nothing that was removed.
Reflects(m, v) ==
  /\ DOMAIN m = {"nodes", "edges", "removed"} /\ m.removed = {}
  /\ m.nodes = v.nodes
  /\ m.edges = {EdgeAtom(e, v.edges[e]) : e \in DOMAIN v.edges}

\* What it can collect so: new nodes, writes to committed nodes, and new edges.
Collectable(v, ops) ==
  /\ Listed(ops) /\ Produced(v, ops)
  /\ \A i \in DOMAIN ops :
       /\ ops[i].op \in {"set_field", "upsert_node", "add_edge"}
       /\ ops[i].op = "upsert_node" => ops[i].id \notin DOMAIN v.nodes /\ IsMap(ops[i].fields)

\* A committed node after n ops: a field is as written last.
NodeUpTo(v, ops, n, id, node) ==
  /\ node = [label |-> v.nodes[id].label, fields |-> node.fields] /\ IsMap(node.fields)
  /\ \A f :
       /\ f \in DOMAIN node.fields <=>
            f \in DOMAIN v.nodes[id].fields \/ \E i \in Writes(ops, id, f) : i <= n
       /\ f \in DOMAIN v.nodes[id].fields /\ (\A i \in Writes(ops, id, f) : n < i) =>
            node.fields[f] = v.nodes[id].fields[f]
       /\ \A i \in Writes(ops, id, f) :
            i <= n /\ (\A j \in Writes(ops, id, f) : j <= n => j <= i) =>
              node.fields[f] = ops[i].value

\* The projector after n ops.
UpTo(m, v, ops, n, p) ==
  /\ DOMAIN p = {"nodes", "edges", "removed"} /\ p.removed = {}
  /\ p.edges = m.edges \cup {Collected(ops[i]) : i \in {j \in 1..n : ops[j].op = "add_edge"}}
  /\ IsMap(p.nodes)
  /\ \A id : id \in DOMAIN p.nodes <=>
       id \in DOMAIN v.nodes \/ \E i \in 1..n : ops[i].op = "upsert_node" /\ ops[i].id = id
  /\ \A i \in 1..n : ops[i].op = "upsert_node" =>
       p.nodes[ops[i].id] = [label |-> ops[i].label, fields |-> ops[i].fields]
  /\ \A id \in DOMAIN v.nodes : NodeUpTo(v, ops, n, id, p.nodes[id])

LEMMA UpToNone ==
  ASSUME NEW m, NEW v, IsGraph(v), Reflects(m, v), NEW ops, Collectable(v, ops)
  PROVE  UpTo(m, v, ops, 0, m)
<1>1. ASSUME NEW id \in DOMAIN v.nodes PROVE NodeUpTo(v, ops, 0, id, m.nodes[id])
  <2>1. \A f : \A i \in Writes(ops, id, f) : 0 < i /\ ~ (i <= 0)
    BY DEF Writes, Collectable, Listed
  <2> DEFINE node == v.nodes[id]
  <2>2. node = [label |-> node.label, fields |-> node.fields] /\ IsMap(node.fields)
    BY DEF IsGraph
  <2> HIDE DEF node
  <2>3. node = [label |-> v.nodes[id].label, fields |-> node.fields]
    BY <2>2 DEF node
  <2>4. \A f : /\ f \in DOMAIN node.fields <=> f \in DOMAIN v.nodes[id].fields
               /\ node.fields[f] = v.nodes[id].fields[f]
    BY DEF node
  <2>5. NodeUpTo(v, ops, 0, id, node)
    BY <2>1, <2>2, <2>3, <2>4 DEF NodeUpTo
  <2>6. QED
    BY <2>5 DEF node, Reflects
<1>2. 1..0 = {}
  OBVIOUS
<1>3. m.edges = m.edges \cup {Collected(ops[i]) : i \in {j \in 1..0 : ops[j].op = "add_edge"}}
  BY <1>2 DEF Reflects
<1>4. QED
  BY <1>1, <1>2, <1>3 DEF UpTo, Reflects, IsGraph

\* An upsert adds its node.
LEMMA UpToUpsert ==
  ASSUME NEW m, NEW v, NEW ops, Collectable(v, ops), NEW n \in Nat, n + 1 \in DOMAIN ops,
         NEW p, UpTo(m, v, ops, n, p), ops[n + 1].op = "upsert_node"
  PROVE  UpTo(m, v, ops, n + 1, Collect(p, ops[n + 1]))
<1> DEFINE op == ops[n + 1]
<1> DEFINE node == [label |-> op.label, fields |-> op.fields]
<1> DEFINE nodes == [id \in DOMAIN p.nodes \cup {op.id} |-> IF id = op.id THEN node ELSE p.nodes[id]]
<1> DEFINE q == Collect(p, op)
<1>1. q = [p EXCEPT !.nodes = nodes]
  BY DEF Collect
<1>2. /\ DOMAIN q = {"nodes", "edges", "removed"} /\ q.removed = {} /\ q.edges = p.edges
      /\ q.nodes = nodes
  BY <1>1 DEF UpTo
<1>3. op.id \notin DOMAIN v.nodes /\ \A i \in 1..n : ops[i].op = "upsert_node" => ops[i].id # op.id
  <2>1. 1..n \subseteq DOMAIN ops /\ n + 1 \notin 1..n
    BY DEF Collectable, Listed
  <2>2. QED
    BY <2>1 DEF Collectable, Produced, NewNodes
<1>4. 1..(n + 1) = 1..n \cup {n + 1}
  OBVIOUS
<1>5. {j \in 1..(n + 1) : ops[j].op = "add_edge"} = {j \in 1..n : ops[j].op = "add_edge"}
  BY <1>4
<1>6. /\ DOMAIN nodes = DOMAIN p.nodes \cup {op.id} /\ IsMap(nodes) /\ nodes[op.id] = node
      /\ \A id \in DOMAIN p.nodes : id # op.id => nodes[id] = p.nodes[id]
  BY DEF IsMap
<1> HIDE DEF nodes, node, q
<1>7. ASSUME NEW id \in DOMAIN v.nodes PROVE NodeUpTo(v, ops, n + 1, id, q.nodes[id])
  <2>1. q.nodes[id] = p.nodes[id]
    BY <1>2, <1>3, <1>6 DEF UpTo
  <2>2. \A f : \A i \in Writes(ops, id, f) : i \in Nat /\ i # n + 1
    BY DEF Writes, Collectable, Listed
  <2>3. \A f : \A i \in Writes(ops, id, f) : i <= n + 1 <=> i <= n
    BY <2>2
  <2>4. \A f : \A i \in Writes(ops, id, f) : n + 1 < i <=> n < i
    BY <2>2
  <2>5. NodeUpTo(v, ops, n, id, p.nodes[id])
    BY DEF UpTo
  <2>6. QED
    BY <2>1, <2>3, <2>4, <2>5 DEF NodeUpTo
<1>8. \A i \in 1..(n + 1) : ops[i].op = "upsert_node" =>
        q.nodes[ops[i].id] = [label |-> ops[i].label, fields |-> ops[i].fields]
  BY <1>2, <1>3, <1>4, <1>6 DEF UpTo, node
<1>9. \A id : id \in DOMAIN q.nodes <=>
        id \in DOMAIN v.nodes \/ \E i \in 1..(n + 1) : ops[i].op = "upsert_node" /\ ops[i].id = id
  BY <1>2, <1>4, <1>6 DEF UpTo
<1>10. q.edges = m.edges \cup {Collected(ops[i]) : i \in {j \in 1..(n + 1) : ops[j].op = "add_edge"}}
  BY <1>2, <1>5 DEF UpTo
<1>11. UpTo(m, v, ops, n + 1, q)
  BY <1>2, <1>6, <1>7, <1>8, <1>9, <1>10 DEF UpTo
<1>12. QED
  BY <1>11 DEF q

\* A new edge is kept.
LEMMA UpToEdge ==
  ASSUME NEW m, NEW v, NEW ops, Collectable(v, ops), NEW n \in Nat, n + 1 \in DOMAIN ops,
         NEW p, UpTo(m, v, ops, n, p), ops[n + 1].op = "add_edge"
  PROVE  UpTo(m, v, ops, n + 1, Collect(p, ops[n + 1]))
<1> DEFINE op == ops[n + 1]
<1> DEFINE q == Collect(p, op)
<1>1. q = [p EXCEPT !.edges = p.edges \cup {Collected(op)}]
  BY DEF Collect
<1>2. /\ DOMAIN q = {"nodes", "edges", "removed"} /\ q.removed = {} /\ q.nodes = p.nodes
      /\ q.edges = p.edges \cup {Collected(op)}
  BY <1>1 DEF UpTo
<1>3. 1..(n + 1) = 1..n \cup {n + 1}
  OBVIOUS
<1>4. {j \in 1..(n + 1) : ops[j].op = "add_edge"} = {j \in 1..n : ops[j].op = "add_edge"} \cup {n + 1}
  BY <1>3
<1> HIDE DEF q
<1>5. ASSUME NEW id \in DOMAIN v.nodes PROVE NodeUpTo(v, ops, n + 1, id, q.nodes[id])
  <2>1. \A f : \A i \in Writes(ops, id, f) : i \in Nat /\ i # n + 1
    BY DEF Writes, Collectable, Listed
  <2>2. \A f : \A i \in Writes(ops, id, f) : i <= n + 1 <=> i <= n
    BY <2>1
  <2>3. \A f : \A i \in Writes(ops, id, f) : n + 1 < i <=> n < i
    BY <2>1
  <2>4. NodeUpTo(v, ops, n, id, p.nodes[id])
    BY DEF UpTo
  <2>5. QED
    BY <1>2, <2>2, <2>3, <2>4 DEF NodeUpTo
<1>6. q.edges = m.edges \cup {Collected(ops[i]) : i \in {j \in 1..(n + 1) : ops[j].op = "add_edge"}}
  <2> DEFINE c(i) == Collected(ops[i])
  <2> DEFINE I == {j \in 1..n : ops[j].op = "add_edge"}
  <2>1. q.edges = m.edges \cup {c(i) : i \in I} \cup {c(n + 1)}
    BY <1>2 DEF UpTo
  <2> HIDE DEF c, I
  <2>2. q.edges = m.edges \cup {c(i) : i \in I \cup {n + 1}}
    BY <2>1
  <2>3. QED
    BY <1>4, <2>2 DEF c, I
<1>7. \A i \in 1..(n + 1) : ops[i].op = "upsert_node" =>
        q.nodes[ops[i].id] = [label |-> ops[i].label, fields |-> ops[i].fields]
  BY <1>2, <1>3 DEF UpTo
<1>8. \A id : id \in DOMAIN q.nodes <=>
        id \in DOMAIN v.nodes \/ \E i \in 1..(n + 1) : ops[i].op = "upsert_node" /\ ops[i].id = id
  BY <1>2, <1>3 DEF UpTo
<1>9. IsMap(q.nodes)
  BY <1>2 DEF UpTo
<1>10. UpTo(m, v, ops, n + 1, q)
  BY <1>2, <1>5, <1>6, <1>7, <1>8, <1>9 DEF UpTo
<1>11. QED
  BY <1>10 DEF q

\* A write to a committed node is made.
LEMMA UpToWrite ==
  ASSUME NEW m, NEW v, NEW ops, Collectable(v, ops), NEW n \in Nat, n + 1 \in DOMAIN ops,
         NEW p, UpTo(m, v, ops, n, p), ops[n + 1].op = "set_field"
  PROVE  UpTo(m, v, ops, n + 1, Collect(p, ops[n + 1]))
<1> DEFINE op == ops[n + 1]
<1> DEFINE old == p.nodes[op.id]
<1> DEFINE fields == [f \in DOMAIN old.fields \cup {op.field} |->
                        IF f = op.field THEN op.value ELSE old.fields[f]]
<1> DEFINE q == Collect(p, op)
<1>0. op.id \in DOMAIN v.nodes
  BY DEF Collectable, Produced, WritesCommitted, OpsOf
<1>1. op.id \in DOMAIN p.nodes
  BY <1>0 DEF UpTo
<1>2. q = [p EXCEPT !.nodes[op.id].fields = fields]
  BY <1>1 DEF Collect
<1>3. NodeUpTo(v, ops, n, op.id, old)
  BY <1>0 DEF UpTo
<1>4. old = [label |-> v.nodes[op.id].label, fields |-> old.fields]
  BY <1>3 DEF NodeUpTo
<1> HIDE DEF fields
<1>5. [old EXCEPT !.fields = fields] = [label |-> v.nodes[op.id].label, fields |-> fields]
  BY <1>4
<1> DEFINE nodes == [p.nodes EXCEPT ![op.id] = [old EXCEPT !.fields = fields]]
<1>6. q = [p EXCEPT !.nodes = nodes]
  BY <1>2
<1>7. /\ DOMAIN q = {"nodes", "edges", "removed"} /\ q.removed = {} /\ q.edges = p.edges
      /\ q.nodes = nodes
  BY <1>6 DEF UpTo
<1>8. /\ DOMAIN nodes = DOMAIN p.nodes /\ IsMap(nodes)
      /\ nodes[op.id] = [label |-> v.nodes[op.id].label, fields |-> fields]
      /\ \A id \in DOMAIN p.nodes : id # op.id => nodes[id] = p.nodes[id]
  BY <1>1, <1>5 DEF IsMap
<1>9. 1..(n + 1) = 1..n \cup {n + 1}
  OBVIOUS
<1>10. {j \in 1..(n + 1) : ops[j].op = "add_edge"} = {j \in 1..n : ops[j].op = "add_edge"}
  BY <1>9
<1> HIDE DEF nodes, q
<1>11. ASSUME NEW id \in DOMAIN v.nodes, id # op.id PROVE NodeUpTo(v, ops, n + 1, id, q.nodes[id])
  <2>1. q.nodes[id] = p.nodes[id]
    BY <1>7, <1>8, <1>11 DEF UpTo
  <2>2. \A f : \A i \in Writes(ops, id, f) : i \in Nat /\ i # n + 1
    BY <1>11 DEF Writes, Collectable, Listed
  <2>3. \A f : \A i \in Writes(ops, id, f) : i <= n + 1 <=> i <= n
    BY <2>2
  <2>4. \A f : \A i \in Writes(ops, id, f) : n + 1 < i <=> n < i
    BY <2>2
  <2>5. NodeUpTo(v, ops, n, id, p.nodes[id])
    BY DEF UpTo
  <2>6. QED
    BY <2>1, <2>3, <2>4, <2>5 DEF NodeUpTo
<1>12. NodeUpTo(v, ops, n + 1, op.id, q.nodes[op.id])
  <2> DEFINE node == q.nodes[op.id]
  <2>1. node = [label |-> v.nodes[op.id].label, fields |-> fields]
    BY <1>7, <1>8
  <2>2. node.fields = fields
    BY <2>1
  <2>3. /\ IsMap(fields) /\ DOMAIN fields = DOMAIN old.fields \cup {op.field}
        /\ fields[op.field] = op.value
        /\ \A f \in DOMAIN old.fields : f # op.field => fields[f] = old.fields[f]
    BY DEF fields, IsMap
  <2>4. n + 1 \in Writes(ops, op.id, op.field)
    BY DEF Writes
  <2>5. \A f : \A i \in Writes(ops, op.id, f) : i \in Nat /\ (i = n + 1 => f = op.field)
    BY DEF Writes, Collectable, Listed
  <2> HIDE DEF node, fields, old
  <2>6. ASSUME NEW f
        PROVE  /\ f \in DOMAIN fields <=>
                    f \in DOMAIN v.nodes[op.id].fields \/ \E i \in Writes(ops, op.id, f) : i <= n + 1
               /\ f \in DOMAIN v.nodes[op.id].fields /\ (\A i \in Writes(ops, op.id, f) : n + 1 < i) =>
                    fields[f] = v.nodes[op.id].fields[f]
               /\ \A i \in Writes(ops, op.id, f) :
                    i <= n + 1 /\ (\A j \in Writes(ops, op.id, f) : j <= n + 1 => j <= i) =>
                      fields[f] = ops[i].value
    <3>0. /\ f \in DOMAIN old.fields <=>
               f \in DOMAIN v.nodes[op.id].fields \/ \E i \in Writes(ops, op.id, f) : i <= n
          /\ f \in DOMAIN v.nodes[op.id].fields /\ (\A i \in Writes(ops, op.id, f) : n < i) =>
               old.fields[f] = v.nodes[op.id].fields[f]
          /\ \A i \in Writes(ops, op.id, f) :
               i <= n /\ (\A j \in Writes(ops, op.id, f) : j <= n => j <= i) =>
                 old.fields[f] = ops[i].value
      BY <1>3 DEF NodeUpTo
    <3>1. CASE f = op.field
      <4>1. f \in DOMAIN fields /\ fields[f] = op.value
        BY <2>3, <3>1
      <4>2. n + 1 \in Writes(ops, op.id, f) /\ n + 1 <= n + 1 /\ ~ (n + 1 < n + 1)
        BY <2>4, <3>1
      <4>3. \A i \in Writes(ops, op.id, f) :
              i <= n + 1 /\ (\A j \in Writes(ops, op.id, f) : j <= n + 1 => j <= i) => i = n + 1
        <5>1. ASSUME NEW i \in Writes(ops, op.id, f), i <= n + 1,
                     \A j \in Writes(ops, op.id, f) : j <= n + 1 => j <= i
              PROVE  i = n + 1
          <6>1. n + 1 <= i
            BY <5>1, <4>2
          <6>2. QED
            BY <5>1, <6>1, <2>5
        <5>2. QED
          BY <5>1
      <4>4. QED
        BY <4>1, <4>2, <4>3
    <3>2. CASE f # op.field
      <4>1. \A i \in Writes(ops, op.id, f) : i \in Nat /\ i # n + 1
        BY <2>5, <3>2
      <4>2. \A i \in Writes(ops, op.id, f) : i <= n + 1 <=> i <= n
        BY <4>1
      <4>3. \A i \in Writes(ops, op.id, f) : n + 1 < i <=> n < i
        BY <4>1
      <4>4. f \in DOMAIN fields <=> f \in DOMAIN old.fields
        BY <2>3, <3>2
      <4>5. f \in DOMAIN old.fields => fields[f] = old.fields[f]
        BY <2>3, <3>2
      <4>6. QED
        BY <3>0, <4>2, <4>3, <4>4, <4>5
    <3>3. QED
      BY <3>1, <3>2
  <2>7. node = [label |-> v.nodes[op.id].label, fields |-> node.fields]
    BY <2>1, <2>2
  <2>8. NodeUpTo(v, ops, n + 1, op.id, node)
    BY <2>2, <2>3, <2>6, <2>7 DEF NodeUpTo
  <2>9. QED
    BY <2>8 DEF node
<1>13. \A i \in 1..(n + 1) : ops[i].op = "upsert_node" =>
         q.nodes[ops[i].id] = [label |-> ops[i].label, fields |-> ops[i].fields]
  <2>1. ASSUME NEW i \in 1..(n + 1), ops[i].op = "upsert_node"
        PROVE  q.nodes[ops[i].id] = [label |-> ops[i].label, fields |-> ops[i].fields]
    <3>1. i \in 1..n /\ i \in DOMAIN ops
      BY <1>9, <2>1 DEF Collectable, Listed
    <3>2. ops[i].id \notin DOMAIN v.nodes /\ ops[i].id \in DOMAIN p.nodes
      BY <2>1, <3>1 DEF Collectable, UpTo
    <3>3. q.nodes[ops[i].id] = p.nodes[ops[i].id]
      BY <1>0, <1>7, <1>8, <3>2
    <3>4. QED
      BY <2>1, <3>1, <3>3 DEF UpTo
  <2>2. QED
    BY <2>1
<1>14. \A id : id \in DOMAIN q.nodes <=>
         id \in DOMAIN v.nodes \/ \E i \in 1..(n + 1) : ops[i].op = "upsert_node" /\ ops[i].id = id
  BY <1>7, <1>8, <1>9 DEF UpTo
<1>15. q.edges = m.edges \cup {Collected(ops[i]) : i \in {j \in 1..(n + 1) : ops[j].op = "add_edge"}}
  BY <1>7, <1>10 DEF UpTo
<1>16. UpTo(m, v, ops, n + 1, q)
  BY <1>7, <1>8, <1>11, <1>12, <1>13, <1>14, <1>15 DEF UpTo
<1>17. QED
  BY <1>16 DEF q

\* After all of them.
LEMMA ProjectUpTo ==
  ASSUME NEW m, NEW v, IsGraph(v), Reflects(m, v), NEW ops, Collectable(v, ops)
  PROVE  UpTo(m, v, ops, Len(ops), Project(m, ops))
<1>0. Len(ops) \in Nat /\ DOMAIN ops = 1..Len(ops)
  BY DEF Collectable, Listed
<1> DEFINE S == {n \in Nat : n <= Len(ops) => UpTo(m, v, ops, n, Projected(m, ops)[n])}
<1>1. 0 \in S
  BY <1>0, UpToNone, ProjectedStep
<1>2. ASSUME NEW n \in S PROVE n + 1 \in S
  <2> SUFFICES ASSUME n + 1 <= Len(ops)
               PROVE  UpTo(m, v, ops, n + 1, Projected(m, ops)[n + 1])
    OBVIOUS
  <2> DEFINE p == Projected(m, ops)[n]
  <2>1. n + 1 \in 1..Len(ops) /\ n + 1 \in DOMAIN ops /\ (n + 1) - 1 = n /\ n <= Len(ops)
    BY <1>0
  <2>2. Projected(m, ops)[n + 1] = Collect(p, ops[n + 1])
    BY <1>0, <2>1, ProjectedStep
  <2>3. UpTo(m, v, ops, n, p)
    BY <2>1
  <2>4. ops[n + 1].op \in {"set_field", "upsert_node", "add_edge"}
    BY <2>1 DEF Collectable
  <2>5. n \in Nat
    OBVIOUS
  <2> HIDE DEF p, S
  <2>6. UpTo(m, v, ops, n + 1, Collect(p, ops[n + 1]))
    BY <2>1, <2>3, <2>4, <2>5, UpToUpsert, UpToEdge, UpToWrite
  <2>7. QED
    BY <2>2, <2>6
<1>3. S \in SUBSET Nat
  OBVIOUS
<1> HIDE DEF S
<1>4. Len(ops) \in S
  BY <1>0, <1>1, <1>2, <1>3, Counting
<1>5. UpTo(m, v, ops, Len(ops), Projected(m, ops)[Len(ops)])
  BY <1>0, <1>4 DEF S
<1>6. QED
  BY <1>5 DEF Project

\* Maps are equal that agree.
LEMMA MapsEqual ==
  ASSUME NEW a, NEW b, IsMap(a), IsMap(b), DOMAIN a = DOMAIN b, \A x \in DOMAIN a : a[x] = b[x]
  PROVE  a = b
  BY DEF IsMap

\* The nodes that apply_ops leaves are the nodes that are collected.
LEMMA NodesReflected ==
  ASSUME NEW m, NEW v, IsGraph(v), Reflects(m, v), NEW ops, Collectable(v, ops)
  PROVE  /\ Project(m, ops).nodes = ApplyOps(v, ops).nodes
         /\ IsGraph(ApplyOps(v, ops))
<1> DEFINE w == ApplyOps(v, ops)
<1> DEFINE p == Project(m, ops)
<1> DEFINE N == DOMAIN v.nodes \cup {op.id : op \in OpsOf(ops, "upsert_node")}
<1>0. Listed(ops) /\ Produced(v, ops) /\ Len(ops) \in Nat /\ DOMAIN ops = 1..Len(ops)
  BY DEF Collectable, Listed
<1>1. UpTo(m, v, ops, Len(ops), p)
  BY ProjectUpTo
<1>2. w.nodes = [id \in N |-> NodeAfter(v, ops, id)]
  BY DEF ApplyOps
<1> HIDE DEF p
<1>3. DOMAIN p.nodes = N
  <2>1. \A id : id \in N <=>
          id \in DOMAIN v.nodes \/ \E i \in 1..Len(ops) : ops[i].op = "upsert_node" /\ ops[i].id = id
    BY <1>0 DEF OpsOf
  <2> HIDE DEF N
  <2>2. \A id : id \in DOMAIN p.nodes <=> id \in N
    BY <1>1, <2>1 DEF UpTo
  <2>3. QED
    BY <2>2
<1> HIDE DEF N
<1>4. IsMap(w.nodes) /\ DOMAIN w.nodes = N
  BY <1>2 DEF IsMap
<1> HIDE DEF w
<1>5. ASSUME NEW id \in DOMAIN v.nodes, id \in N
      PROVE  /\ p.nodes[id] = w.nodes[id]
             /\ w.nodes[id] = [label |-> w.nodes[id].label, fields |-> w.nodes[id].fields]
             /\ IsMap(w.nodes[id].fields)
  <2> DEFINE written == {op.field : op \in {o \in OpsOf(ops, "set_field") : o.id = id}}
  <2> DEFINE F == [f \in DOMAIN v.nodes[id].fields \cup written |->
                     IF f \in written THEN ops[Greatest(Writes(ops, id, f))].value
                     ELSE v.nodes[id].fields[f]]
  <2> DEFINE g == p.nodes[id].fields
  <2>1. w.nodes[id] = [label |-> v.nodes[id].label, fields |-> F]
    <3>1. BaseNode(v, ops, id) = v.nodes[id]
      BY DEF BaseNode
    <3>2. QED
      BY <1>2, <1>5, <3>1 DEF NodeAfter
  <2>2. NodeUpTo(v, ops, Len(ops), id, p.nodes[id])
    BY <1>1 DEF UpTo
  <2>3. p.nodes[id] = [label |-> v.nodes[id].label, fields |-> g] /\ IsMap(g)
    BY <2>2 DEF NodeUpTo
  <2>4. \A f : f \in written <=> Writes(ops, id, f) # {}
    BY DEF OpsOf, Writes
  <2>5. \A f : Writes(ops, id, f) \subseteq 1..Len(ops)
    BY <1>0 DEF Writes
  <2>6. \A f : \A i \in Writes(ops, id, f) : i <= Len(ops)
    BY <2>5, <1>0
  <2>7. /\ IsMap(F) /\ DOMAIN F = DOMAIN v.nodes[id].fields \cup written
        /\ \A f \in DOMAIN F : F[f] = IF f \in written THEN ops[Greatest(Writes(ops, id, f))].value
                                      ELSE v.nodes[id].fields[f]
    BY DEF IsMap
  <2> HIDE DEF F, g, written
  <2>8. \A f : /\ f \in DOMAIN g <=>
                    f \in DOMAIN v.nodes[id].fields \/ \E i \in Writes(ops, id, f) : i <= Len(ops)
               /\ f \in DOMAIN v.nodes[id].fields /\ (\A i \in Writes(ops, id, f) : Len(ops) < i) =>
                    g[f] = v.nodes[id].fields[f]
               /\ \A i \in Writes(ops, id, f) :
                    i <= Len(ops) /\ (\A j \in Writes(ops, id, f) : j <= Len(ops) => j <= i) =>
                      g[f] = ops[i].value
    BY <2>2 DEF NodeUpTo, g
  <2>9. DOMAIN g = DOMAIN F
    <3>1. \A f : f \in DOMAIN g <=> f \in DOMAIN F
      BY <2>4, <2>6, <2>7, <2>8
    <3>2. QED
      BY <3>1
  <2>10. ASSUME NEW f \in DOMAIN F PROVE F[f] = g[f]
    <3>1. CASE f \in written
      <4> DEFINE i == Greatest(Writes(ops, id, f))
      <4>1. i \in Writes(ops, id, f) /\ \A j \in Writes(ops, id, f) : j <= i
        <5>1. Writes(ops, id, f) # {} /\ Writes(ops, id, f) \in SUBSET (1..Len(ops))
          BY <2>4, <2>5, <3>1
        <5> DEFINE W == Writes(ops, id, f)
        <5>2. i = Greatest(W) /\ W # {} /\ W \in SUBSET (1..Len(ops))
          BY <5>1
        <5> HIDE DEF W, i
        <5>3. Greatest(W) \in W /\ \A j \in W : j <= Greatest(W)
          <6>1. IsFiniteSet(1..Len(ops)) /\ 1..Len(ops) \in SUBSET Nat
            BY <1>0, FS_Interval
          <6>2. IsFiniteSet(W) /\ W \in SUBSET Nat
            BY <5>2, <6>1, FS_Subset
          <6>3. QED
            BY <5>2, <6>2, GreatestOfFinite
        <5>4. QED
          BY <5>2, <5>3 DEF W
      <4>2. F[f] = ops[i].value
        BY <2>7, <3>1
      <4> HIDE DEF i
      <4>3. QED
        BY <2>6, <2>8, <4>1, <4>2
    <3>2. CASE f \notin written
      BY <2>4, <2>7, <2>8, <3>2
    <3>3. QED
      BY <3>1, <3>2
  <2>11. F = g
    BY <2>3, <2>7, <2>9, <2>10, MapsEqual
  <2>12. w.nodes[id].label = v.nodes[id].label /\ w.nodes[id].fields = F
    BY <2>1
  <2>13. QED
    BY <2>1, <2>3, <2>7, <2>11, <2>12
<1>6. ASSUME NEW id \in N, id \notin DOMAIN v.nodes
      PROVE  /\ p.nodes[id] = w.nodes[id]
             /\ w.nodes[id] = [label |-> w.nodes[id].label, fields |-> w.nodes[id].fields]
             /\ IsMap(w.nodes[id].fields)
  <2>1. PICK i \in Upserts(ops, id) :
          /\ w.nodes[id].label = ops[i].label /\ NodeFields(v, ops, id) = ops[i].fields
          /\ DOMAIN w.nodes[id].fields = DOMAIN ops[i].fields
          /\ \A f : Get(w.nodes[id].fields, f) = Get(ops[i].fields, f)
    BY <1>0, <1>4, <1>6, NewNode DEF w
  <2>2. i \in 1..Len(ops) /\ ops[i].op = "upsert_node" /\ ops[i].id = id /\ IsMap(ops[i].fields)
    BY <2>1, <1>0 DEF Upserts, Collectable
  <2>3. p.nodes[id] = [label |-> ops[i].label, fields |-> ops[i].fields]
    BY <1>1, <2>2 DEF UpTo
  <2>4. w.nodes[id] = [label |-> w.nodes[id].label, fields |-> w.nodes[id].fields]
        /\ IsMap(w.nodes[id].fields)
    BY <1>2 DEF NodeAfter, IsMap
  <2>5. w.nodes[id].fields = ops[i].fields
    <3> DEFINE a == w.nodes[id].fields
    <3> DEFINE b == ops[i].fields
    <3>1. IsMap(a) /\ IsMap(b) /\ DOMAIN a = DOMAIN b /\ \A f : Get(a, f) = Get(b, f)
      BY <2>1, <2>2, <2>4
    <3> HIDE DEF a, b
    <3>2. \A f \in DOMAIN a : a[f] = b[f]
      BY <3>1 DEF Get
    <3>3. a = b
      BY <3>1, <3>2, MapsEqual
    <3>4. QED
      BY <3>3 DEF a, b
  <2>6. QED
    BY <2>1, <2>3, <2>4, <2>5
<1>7. DOMAIN v.nodes \subseteq N
  BY DEF N
<1>8. p.nodes = w.nodes
  <2>1. IsMap(p.nodes) /\ \A id \in N : p.nodes[id] = w.nodes[id]
    BY <1>1, <1>5, <1>6 DEF UpTo
  <2>2. QED
    BY <1>3, <1>4, <2>1, MapsEqual
<1>9. IsGraph(w)
  BY <1>4, <1>5, <1>6 DEF IsGraph
<1>10. QED
  BY <1>8, <1>9 DEF p, w

\* So are the edges.
LEMMA EdgesReflected ==
  ASSUME NEW m, NEW v, IsGraph(v), Reflects(m, v), NEW ops, Collectable(v, ops)
  PROVE  Project(m, ops).edges =
           {EdgeAtom(e, ApplyOps(v, ops).edges[e]) : e \in DOMAIN ApplyOps(v, ops).edges}
<1> DEFINE w == ApplyOps(v, ops)
<1> DEFINE p == Project(m, ops)
<1>0. Listed(ops) /\ Produced(v, ops) /\ DOMAIN ops = 1..Len(ops)
  BY DEF Collectable, Listed
<1>1. p.edges = m.edges \cup {Collected(ops[i]) : i \in {j \in 1..Len(ops) : ops[j].op = "add_edge"}}
  BY ProjectUpTo DEF UpTo
<1>2. m.edges = {EdgeAtom(e, v.edges[e]) : e \in DOMAIN v.edges}
  BY DEF Reflects
<1>3. \A op : Collected(op) = EdgeAtom(op.edge_id, EdgeRecord(op))
  BY DEF Collected, EdgeAtom, EdgeRecord
<1>4. \A e \in DOMAIN v.edges : e \in DOMAIN w.edges /\ w.edges[e] = v.edges[e]
  BY <1>0, CommittedEdge
<1>5. \A i \in DOMAIN ops : ops[i].op = "add_edge" =>
        ops[i].edge_id \in DOMAIN w.edges /\ w.edges[ops[i].edge_id] = EdgeRecord(ops[i])
  BY <1>0, AddedEdge
<1>6. \A e \in DOMAIN w.edges : e \notin DOMAIN v.edges =>
        \E i \in DOMAIN ops : /\ ops[i].op = "add_edge" /\ ops[i].edge_id = e
                              /\ w.edges[e] = EdgeRecord(ops[i])
  BY <1>0, NewEdge
<1> DEFINE E == {EdgeAtom(e, w.edges[e]) : e \in DOMAIN w.edges}
<1> HIDE DEF w, p
<1>7. \A x : x \in p.edges <=> x \in E
  <2>1. ASSUME NEW x \in p.edges PROVE x \in E
    <3>1. CASE x \in m.edges
      BY <3>1, <1>2, <1>4
    <3>2. CASE x \in {Collected(ops[i]) : i \in {j \in 1..Len(ops) : ops[j].op = "add_edge"}}
      <4>1. PICK i \in DOMAIN ops : ops[i].op = "add_edge" /\ x = Collected(ops[i])
        BY <3>2, <1>0
      <4>2. x = EdgeAtom(ops[i].edge_id, w.edges[ops[i].edge_id])
        BY <4>1, <1>3, <1>5
      <4>3. QED
        BY <4>1, <4>2, <1>5
    <3>3. QED
      BY <1>1, <3>1, <3>2
  <2>2. ASSUME NEW x \in E PROVE x \in p.edges
    <3>1. PICK e \in DOMAIN w.edges : x = EdgeAtom(e, w.edges[e])
      OBVIOUS
    <3>2. CASE e \in DOMAIN v.edges
      BY <3>1, <3>2, <1>1, <1>2, <1>4
    <3>3. CASE e \notin DOMAIN v.edges
      <4>1. PICK i \in DOMAIN ops : /\ ops[i].op = "add_edge" /\ ops[i].edge_id = e
                                    /\ w.edges[e] = EdgeRecord(ops[i])
        BY <3>3, <1>6
      <4>2. x = Collected(ops[i])
        BY <3>1, <4>1, <1>3
      <4>3. QED
        BY <4>1, <4>2, <1>0, <1>1
    <3>4. QED
      BY <3>2, <3>3
  <2>3. QED
    BY <2>1, <2>2
<1> HIDE DEF E
<1>8. p.edges = E
  BY <1>7
<1>9. QED
  BY <1>8 DEF E, p, w

\* A projector that has the graph has the one a commit leaves.
LEMMA StillReflects ==
  ASSUME NEW m, NEW v, IsGraph(v), Reflects(m, v), NEW ops, Collectable(v, ops)
  PROVE  IsGraph(ApplyOps(v, ops)) /\ Reflects(Project(m, ops), ApplyOps(v, ops))
<1>1. DOMAIN Project(m, ops) = {"nodes", "edges", "removed"} /\ Project(m, ops).removed = {}
  BY ProjectUpTo DEF UpTo
<1>2. QED
  BY <1>1, NodesReflected, EdgesReflected DEF Reflects

\* And describes it: nothing was removed, so every edge is an atom.
LEMMA ReflectsDescribes ==
  ASSUME NEW m, NEW v, Reflects(m, v)
  PROVE  Describes(m, v)
<1>1. \A x : x \in m.edges <=> \E e \in DOMAIN v.edges : x = EdgeAtom(e, v.edges[e])
  BY DEF Reflects
<1>2. Atoms(m) = m.edges
  BY DEF Atoms, Reflects
<1>3. ASSUME NEW move PROVE StatesOf(m, move) = EdgeSources(v, <<>>, move, "PROPOSES")
  <2>1. \A x : x \in StatesOf(m, move) <=>
          \E a \in m.edges : a.rel = "PROPOSES" /\ a.dst = move /\ x = a.src
    BY DEF StatesOf
  <2>2. \A e, edge : /\ EdgeAtom(e, edge).rel = edge.rel /\ EdgeAtom(e, edge).dst = edge.dst
                     /\ EdgeAtom(e, edge).src = edge.src
    BY DEF EdgeAtom
  <2>3. \A x : x \in StatesOf(m, move) <=>
          \E e \in DOMAIN v.edges :
            v.edges[e].rel = "PROPOSES" /\ v.edges[e].dst = move /\ x = v.edges[e].src
    BY <1>1, <2>1, <2>2
  <2>4. \A x : x \in StatesOf(m, move) <=> x \in EdgeSources(v, <<>>, move, "PROPOSES")
    BY <2>3, Neighbours
  <2>5. QED
    BY <2>4, Zenon DEF StatesOf, EdgeSources
<1>4. m.nodes = v.nodes
  BY DEF Reflects
<1>5. Atoms(m) = {[edge_id |-> e, rel |-> v.edges[e].rel, src |-> v.edges[e].src,
                   dst |-> v.edges[e].dst, index |-> v.edges[e].index] : e \in DOMAIN v.edges}
  BY <1>2 DEF Reflects, EdgeAtom
<1>6. QED
  BY <1>3, <1>4, <1>5 DEF Describes

ProjectionInv == SearchInv /\ IsGraph(view) /\ Reflects(mirror, view)

\* The journal a proof starts from.
LEMMA InitReflects == Init => IsGraph(view) /\ Reflects(mirror, view)
<1> SUFFICES ASSUME Init PROVE IsGraph(view) /\ Reflects(mirror, view)
  OBVIOUS
<1>1. PICK ops \in Journals : view = ApplyOps(EmptyGraph, ops) /\ mirror = Project(Unprojected, ops)
  BY DEF Init
<1>2. Collectable(EmptyGraph, ops)
  <2>1. /\ Listed(ops) /\ Produced(EmptyGraph, ops) /\ Named(ops)
        /\ \A i \in DOMAIN ops : ops[i].op \in {"set_field", "upsert_node", "add_edge"}
    BY HistoryAssumption, ListFacts
  <2>2. \A i \in DOMAIN ops : ops[i].op = "upsert_node" => IsMap(ops[i].fields)
    BY <2>1 DEF Named, OpsOf
  <2>3. DOMAIN EmptyGraph.nodes = {}
    BY DEF EmptyGraph
  <2>4. QED
    BY <2>1, <2>2, <2>3 DEF Collectable
<1>3. IsGraph(EmptyGraph) /\ Reflects(Unprojected, EmptyGraph)
  BY DEF IsGraph, Reflects, EmptyGraph, Unprojected, IsMap
<1>4. QED
  BY <1>1, <1>2, <1>3, StillReflects

\* What a step commits is projected.
LEMMA StepReflects ==
  ASSUME ProjectionInv, [Next]_vars
  PROVE  ProjectionInv'
<1>1. SearchInv' /\ ((view' = view /\ mirror' = mirror) \/ \E ops, leased : Disciplined(ops, leased))
  BY StepKeeps DEF ProjectionInv, Concluded, Bridged
<1>2. CASE view' = view /\ mirror' = mirror
  BY <1>1, <1>2 DEF ProjectionInv, IsGraph, Reflects
<1>3. ASSUME NEW ops, NEW leased, Disciplined(ops, leased) PROVE ProjectionInv'
  <2>1. Collectable(view, ops)
    BY <1>3, ListFacts DEF Disciplined, Collectable
  <2>2. view' = ApplyOps(view, ops) /\ mirror' = Project(mirror, ops)
    BY <1>3 DEF Disciplined
  <2>3. IsGraph(view') /\ Reflects(mirror', view')
    BY <2>1, <2>2, StillReflects DEF ProjectionInv
  <2>4. QED
    BY <1>1, <2>3 DEF ProjectionInv, IsGraph, Reflects
<1>4. QED
  BY <1>1, <1>2, <1>3

\* The projected atoms describe the committed graph (ProjectionAgrees), however many
\* events the projector has read: every commit is one it collects as apply_ops applies it.
THEOREM ProjectionHolds == Spec => []ProjectionAgrees
<1>1. Init => ProjectionInv
  BY InitKeeps, InitReflects DEF ProjectionInv
<1>2. ProjectionInv /\ [Next]_vars => ProjectionInv'
  BY StepReflects
<1>3. ProjectionInv => ProjectionAgrees
  BY ReflectsDescribes DEF ProjectionInv, ProjectionAgrees
<1>4. QED
  BY <1>1, <1>2, <1>3, PTL DEF Spec

===============================================================================
