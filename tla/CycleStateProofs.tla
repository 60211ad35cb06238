--------------------------- MODULE CycleStateProofs ---------------------------
(***************************************************************************)
(* Two invariants of ProofCycle's states, for every value of the constants: *)
(* claims are promoted on review exactly (PromotedOnReview), and every      *)
(* graph, view, lease, revision and cycle has its type (TypeOK).            *)
(*                                                                         *)
(* The first is a consequence of CurrentCyclesTakeEffect's invariant.  The  *)
(* second needs that a cycle which resumes a run finds it in its view, and  *)
(* that only a follow-up commits without a lease.                           *)
(***************************************************************************)
EXTENDS ProofCycleProofs

-----------------------------------------------------------------------------
(* Promotion.                                                               *)

\* Only an accepted append changes the journal or committed state.
LEMMA OnlyAppendCommits ==
  ASSUME [Next]_vars
  PROVE  UNCHANGED <<journal, graph>> \/ \E w \in Workers : AppendAccepted(w)
<1>1. ASSUME NEW w \in Workers, Step(w)
      PROVE  UNCHANGED <<journal, graph>> \/ AppendAccepted(w)
  BY <1>1 DEF Step, RankFrontier, LeaseNext, LeaseNone, Compile, CompileRaises, Propose,
     Validate, Reject, AppendRefused, Maintain, Release, KeepLease, RouteNothing,
     RouteBridge, BridgeBase
<1>2. QED
  BY <1>1 DEF Next, Abandon, Rebuild, Lapse, vars

\* Every review edge starts at a committed attempt.
ReviewsHaveAttempts == \A e \in graph.reviews : e.attempt \in Serials(graph.attempts)

\* A proposal that takes effect promotes a claim and adds the favorable verdict about
\* it, or does neither.
LEMMA EffectReviews ==
  ASSUME NEW g, NEW p, Shaped(g), Known(p), OneWay(p), TakesEffect(g, p), NEW c \in Claims,
         \A e \in g.reviews : e.attempt \in Serials(g.attempts),
         g.claim[c] = "critic-accepted" <=> HasFavorableVerdict(g, c)
  PROVE  Applied(g, p).claim[c] = "critic-accepted" <=> HasFavorableVerdict(Applied(g, p), c)
<1> DEFINE h    == Applied(g, p)
           new  == [n |-> p.n, verdict |-> p.verdict]
           edge == [n |-> p.edge, attempt |-> p.n, about |-> p.about]
<1>1. h.claim[c] = IF Promotes(p) /\ c = p.about THEN "critic-accepted" ELSE g.claim[c]
  BY DEF Applied
<1>2. CASE p.kind = "verdict"
  <2>1. h.attempts = g.attempts \cup {new} /\ h.reviews = g.reviews \cup {edge}
    BY <1>2 DEF Applied, Added, TakesEffect, Creates
  <2>2. new.n = p.n /\ new.verdict = p.verdict /\ edge.attempt = p.n /\ edge.about = p.about
    OBVIOUS
  <2>3. \A a \in g.attempts : a.n # p.n
    BY <1>2 DEF TakesEffect, Creates, Serials
  <2>4. \A e \in g.reviews : e.attempt # p.n
    BY <2>3 DEF Serials
  <2> HIDE DEF h, new, edge
  <2>5. HasFavorableVerdict(h, c) <=>
          HasFavorableVerdict(g, c) \/ (p.about = c /\ p.verdict \in Favorable)
    BY <2>1, <2>2, <2>3, <2>4 DEF HasFavorableVerdict
  <2>6. QED
    BY <1>1, <1>2, <2>5 DEF Promotes, h
<1>3. CASE p.kind # "verdict"
  <2>1. h.attempts = g.attempts /\ h.reviews = g.reviews /\ ~Promotes(p)
    BY <1>3 DEF Applied, Promotes
  <2>2. QED
    BY <1>1, <2>1 DEF HasFavorableVerdict
<1>4. QED
  BY <1>2, <1>3

\* A commit leaves every review edge with its attempt.
LEMMA AppendKeepsAttempts ==
  ASSUME CycleInv, ReviewsHaveAttempts, NEW w \in Workers, AppendAccepted(w)
  PROVE  ReviewsHaveAttempts'
<1> DEFINE p == worker[w].proposal
           edge == [n |-> p.edge, attempt |-> p.n, about |-> p.about]
<1>1. graph' = Applied(graph, p) /\ Shaped(graph) /\ Known(p)
  BY DEF AppendAccepted, CycleInv, ShapesOK, CycleOK, StageOK, HasProposal
<1>2. Serials(graph'.attempts) =
        IF p.kind = "verdict" THEN Serials(graph.attempts) \cup {p.n} ELSE Serials(graph.attempts)
  BY <1>1, AppliedSerials
<1>3. \A e \in graph'.reviews : e \in graph.reviews \/ (p.kind = "verdict" /\ e = edge)
  BY <1>1 DEF Applied, Added
<1>4. edge.attempt = p.n
  OBVIOUS
<1> HIDE DEF edge, p
<1>5. QED
  BY <1>2, <1>3, <1>4 DEF ReviewsHaveAttempts

\* A commit leaves claims promoted on review, if every revision so far, this one
\* included, was computed on a current view and minted its review edge.
LEMMA AppendReviews ==
  ASSUME CycleInv, ReviewsHaveAttempts, PromotedOnReview, NEW w \in Workers, AppendAccepted(w)
  PROVE  PromotedOnReview'
<1> DEFINE c == worker[w]
           p == c.proposal
           e == [grant |-> c.grant, seen |-> c.seen, named |-> NamesReview(p)]
<1>1. /\ c.at = "validated" /\ journal' = Append(journal, e) /\ graph' = Applied(graph, p)
  BY DEF AppendAccepted
<1>2. PICK Entries : journal \in Seq(Entries)
  BY DEF CycleInv, ShapesOK
<1>3. /\ DOMAIN journal = 1..HeadRevision /\ HeadRevision \in Nat
      /\ DOMAIN journal' = 1..HeadRevision + 1
      /\ \A i \in 1..HeadRevision : journal'[i] = journal[i]
      /\ journal'[HeadRevision + 1] = e
  BY <1>1, <1>2 DEF HeadRevision
<1>4. CycleOK(w, c) /\ Shaped(graph)
  BY DEF CycleInv, ShapesOK
<1>5. Known(p) /\ OneWay(p)
  BY <1>1, <1>4 DEF CycleOK, StageOK, ProposalHolds, HasProposal
<1> SUFFICES ASSUME NothingNamed', \A i \in DOMAIN journal' : journal'[i].seen = i - 1,
                    NEW x \in Claims
             PROVE  graph'.claim[x] = "critic-accepted" <=> HasFavorableVerdict(graph', x)
  BY DEF PromotedOnReview
<1>6. NothingNamed /\ \A i \in DOMAIN journal : journal[i].seen = i - 1
  BY <1>3 DEF NothingNamed
<1>7. c.seen = HeadRevision
  <2>1. HeadRevision + 1 \in DOMAIN journal' /\ journal'[HeadRevision + 1].seen = c.seen
    BY <1>3
  <2>2. QED
    BY <1>3, <2>1
<1>8. CASE NamesId(p)
  <2>1. ~NamesReview(p)
    <3>1. HeadRevision + 1 \in DOMAIN journal' /\ journal'[HeadRevision + 1].named = NamesReview(p)
      BY <1>3
    <3>2. QED
      BY <3>1 DEF NothingNamed
  <2>2. p.kind = "move"
    BY <1>8, <2>1 DEF NamesId
  <2>3. /\ graph'.claim[x] = graph.claim[x]
        /\ graph'.attempts = graph.attempts /\ graph'.reviews = graph.reviews
    BY <1>1, <2>2 DEF Applied, Promotes
  <2>4. QED
    BY <1>6, <2>3 DEF PromotedOnReview, HasFavorableVerdict
<1>11. CASE ~NamesId(p)
  <2>1. TakesEffect(graph, p)
    BY <1>1, <1>4, <1>6, <1>7, <1>11 DEF CycleOK, ProposalHolds, Current, HasSeen, Minted
  <2>2. graph.claim[x] = "critic-accepted" <=> HasFavorableVerdict(graph, x)
    BY <1>6 DEF PromotedOnReview
  <2>3. \A r \in graph.reviews : r.attempt \in Serials(graph.attempts)
    BY DEF ReviewsHaveAttempts
  <2> HIDE DEF p
  <2>4. QED
    BY <1>1, <1>4, <1>5, <2>1, <2>2, <2>3, EffectReviews
<1>12. QED
  BY <1>8, <1>11

\* While every revision was computed on a current view and minted its review edge, a
\* claim is critic-accepted exactly when a favorable verdict about it is committed,
\* whatever cycles raced, failed or were followed up (critic_result_to_ops).
THEOREM PromotionsOnReview == Spec => []PromotedOnReview
<1>1. Init => PromotedOnReview /\ ReviewsHaveAttempts
  BY DEF Init, PromotedOnReview, HasFavorableVerdict, ReviewsHaveAttempts
<1>2. CycleInv /\ ReviewsHaveAttempts /\ PromotedOnReview /\ [Next]_vars
        => PromotedOnReview' /\ ReviewsHaveAttempts'
  <2> SUFFICES ASSUME CycleInv, ReviewsHaveAttempts, PromotedOnReview, [Next]_vars
               PROVE  PromotedOnReview' /\ ReviewsHaveAttempts'
    OBVIOUS
  <2>1. CASE UNCHANGED <<journal, graph>>
    BY <2>1 DEF PromotedOnReview, HasFavorableVerdict, ReviewsHaveAttempts, NothingNamed
  <2>2. QED
    BY <2>1, OnlyAppendCommits, AppendReviews, AppendKeepsAttempts
<1>3. QED
  BY <1>1, <1>2, CycleInvHolds, PTL DEF Spec

-----------------------------------------------------------------------------
(* Types: proposals and graphs.                                             *)

\* The fields of a proposal, by its kind.
LEMMA ProposalFields ==
  ASSUME NEW p \in Proposals
  PROVE  /\ p.kind \in {"verdict", "move", "run"} /\ p.n \in Nat
         /\ p.kind = "verdict" => p.about \in Targets /\ p.verdict \in Verdicts /\ p.edge \in Nat
         /\ p.kind = "move" => p.detail \in Workers \cup {"bridge"}
         /\ p.kind = "run" => p.decl \in Decls /\ p.status \in RunStatuses
BY DEF Proposals

\* The fields of a graph.
LEMMA GraphFields ==
  ASSUME NEW g \in Graphs
  PROVE  /\ g.claim \in [Claims -> {"provisional", "critic-accepted"}]
         /\ g.attempts \subseteq [n : Nat, verdict : Verdicts]
         /\ g.reviews \subseteq [n : Nat, attempt : Nat, about : Targets]
         /\ g.moves \subseteq [n : Nat, detail : Workers \cup {"initial", "bridge"}]
         /\ g.runs \subseteq [n : Nat, decl : Decls, status : RunStatuses]
BY DEF Graphs

\* Applying a proposal to a graph gives a graph.
LEMMA AppliedTyped ==
  ASSUME NEW g \in Graphs, NEW p \in Proposals
  PROVE  Applied(g, p) \in Graphs
<1> DEFINE h == Applied(g, p)
<1>1. h = [claim |-> h.claim, attempts |-> h.attempts, reviews |-> h.reviews,
           moves |-> h.moves, runs |-> h.runs]
  BY DEF Applied
<1>2. h.claim \in [Claims -> {"provisional", "critic-accepted"}]
  BY GraphFields DEF Applied
<1>3. /\ h.attempts \subseteq [n : Nat, verdict : Verdicts]
      /\ h.reviews \subseteq [n : Nat, attempt : Nat, about : Targets]
  <2>1. CASE p.kind = "verdict"
    BY <2>1, GraphFields, ProposalFields DEF Applied, Added
  <2>2. CASE p.kind # "verdict"
    BY <2>2, GraphFields DEF Applied
  <2>3. QED
    BY <2>1, <2>2
<1>4. h.moves \subseteq [n : Nat, detail : Workers \cup {"initial", "bridge"}]
  <2>1. CASE p.kind = "move"
    BY <2>1, GraphFields, ProposalFields DEF Applied, Added
  <2>2. CASE p.kind # "move"
    BY <2>2, GraphFields DEF Applied
  <2>3. QED
    BY <2>1, <2>2
<1>5. h.runs \subseteq [n : Nat, decl : Decls, status : RunStatuses]
  <2>1. CASE Starts(p)
    <3>1. p.kind = "run" /\ ~Advances(p)
      BY <2>1 DEF Starts, Advances
    <3>2. h.runs = Added(g.runs, [n |-> p.n, decl |-> p.decl, status |-> p.status])
      BY <2>1, <3>1 DEF Applied
    <3> HIDE DEF h
    <3>3. QED
      BY <3>1, <3>2, GraphFields, ProposalFields DEF Added
  <2>2. CASE Advances(p)
    <3>1. p.kind = "run" /\ ~Starts(p)
      BY <2>2 DEF Starts, Advances
    <3>2. h.runs = {IF r.n # p.n THEN r ELSE [n |-> r.n, decl |-> r.decl, status |-> p.status] :
                      r \in g.runs}
      BY <2>2, <3>1 DEF Applied
    <3> HIDE DEF h
    <3>3. QED
      BY <3>1, <3>2, GraphFields, ProposalFields
  <2>3. CASE ~Starts(p) /\ ~Advances(p)
    BY <2>3, GraphFields DEF Applied
  <2>4. QED
    BY <2>1, <2>2, <2>3
<1> HIDE DEF h
<1>6. h \in Graphs
  BY <1>1, <1>2, <1>3, <1>4, <1>5 DEF Graphs
<1>7. QED
  BY <1>6 DEF h

-----------------------------------------------------------------------------
(* Types: cycles that fit their stage.                                      *)

\* A formal cycle has a run id, and finds the run it resumes in its view; only a
\* follow-up has no lease.
CycleFits(w, c) ==
  /\ c.at = "working" /\ c.class = "formal-atp" =>
       /\ c.run \in Nat
       /\ c.grant.scope \notin Decls => c.run \in Serials(view[ViewOf[w]].runs)
  /\ c.at \in {"proposed", "validated", "committed"} /\ c.class = "follow-up"
       => c.grant = Log!NoGrant

TypeInv == TypeOK /\ \A w \in Workers : CycleFits(w, worker[w])

Grants == [token : Nat, scope : Targets]
Granted == Grants \cup {Log!NoGrant}
Marks == Nat \cup {None}

\* The fields of a cycle, by its stage.
LEMMA CycleFields ==
  ASSUME NEW c \in CycleStates
  PROVE  /\ c.at = "ranked" => c.class \in Classes /\ c.moves \subseteq Targets
         /\ c.at = "leased" => c.class \in Classes /\ c.base \in Nat /\ c.grant \in Grants
         /\ c.at = "working" => /\ c.class \in Classes /\ c.base \in Nat /\ c.grant \in Grants
                                /\ c.seen \in Marks /\ c.run \in Marks
         /\ c.at \in {"proposed", "validated"} =>
              /\ c.class \in Classes \cup {"follow-up"} /\ c.base \in Nat /\ c.grant \in Granted
              /\ c.seen \in Marks /\ c.proposal \in Proposals
         /\ c.at = "committed" =>
              /\ c.class \in Classes \cup {"follow-up"} /\ c.grant \in Granted
              /\ c.proposal \in Proposals
         /\ c.at = "maintained" => c.class \in Classes /\ c.grant \in Grants
         /\ c.at = "bridging" => c.seen \in Marks /\ c.proposal \in Proposals
<1>1. \/ c \in {Idle, [at |-> "routing"]}
      \/ c \in [at : {"ranked"}, class : Classes, moves : SUBSET Targets]
      \/ c \in [at : {"leased"}, class : Classes, base : Nat, grant : Grants]
      \/ c \in [at : {"working"}, class : Classes, base : Nat, grant : Grants,
                seen : Marks, run : Marks]
      \/ c \in [at : {"proposed", "validated"}, class : Classes \cup {"follow-up"},
                base : Nat, grant : Granted, seen : Marks, proposal : Proposals]
      \/ c \in [at : {"committed"}, class : Classes \cup {"follow-up"}, grant : Granted,
                proposal : Proposals]
      \/ c \in [at : {"maintained"}, class : Classes, grant : Grants]
      \/ c \in [at : {"bridging"}, seen : Marks, proposal : Proposals]
  BY DEF CycleStates, Grants, Granted, Marks
<1>2. QED
  BY <1>1 DEF Idle

\* What the invariants say of the views of a state.
LEMMA ViewFacts ==
  ASSUME TypeInv, CycleInv, NEW w \in Workers
  PROVE  LET v == view[ViewOf[w]]
         IN  /\ v \in Graphs
             /\ Numbered(v.attempts) /\ Numbered(v.moves) /\ Numbered(v.runs)
<1>1. ViewOf[w] \in Views
  BY CycleAssumption
<1>2. QED
  BY <1>1 DEF TypeInv, TypeOK, CycleInv, ShapesOK, Shaped

\* A step that changes one worker's stage, and perhaps the leases, keeps the types.
LEMMA StageTyped ==
  ASSUME TypeInv, UNCHANGED <<journal, graph, view>>,
         top' \in Nat, live' \subseteq [token : 1..top', scope : Targets],
         NEW w \in Workers, NEW d \in CycleStates, CycleFits(w, d), Goto(w, d)
  PROVE  TypeInv'
<1>1. TypeOK'
  BY DEF TypeInv, TypeOK, Goto
<1>3. ASSUME NEW u \in Workers
      PROVE  CycleFits(u, worker[u])'
  <2>1. CycleFits(u, worker'[u])
    BY DEF TypeInv, TypeOK, Goto
  <2>2. QED
    BY <2>1 DEF CycleFits
<1>4. QED
  BY <1>1, <1>3 DEF TypeInv

\* The state of a cycle whose commit was answered.
LEMMA AnsweredTyped ==
  ASSUME NEW w, NEW c
  PROVE  /\ AfterCommit(c) \in CycleStates /\ CycleFits(w, AfterCommit(c))
         /\ Idle \in CycleStates /\ CycleFits(w, Idle)
<1>1. \A d \in {Idle, [at |-> "routing"]} : d \in CycleStates
  BY DEF CycleStates
<1>2. \A d \in {Idle, [at |-> "routing"]} : CycleFits(w, d)
  BY DEF CycleFits, Idle
<1>3. AfterCommit(c) \in {Idle, [at |-> "routing"]}
  BY DEF AfterCommit
<1>4. QED
  BY <1>1, <1>2, <1>3

\* The leases are typed as long as they and the tokens stand.
LEMMA LeasesStand ==
  ASSUME TypeInv, UNCHANGED top, live' \subseteq live
  PROVE  top' \in Nat /\ live' \subseteq [token : 1..top', scope : Targets]
BY DEF TypeInv, TypeOK

-----------------------------------------------------------------------------
(* Types: the steps of a cycle.                                             *)

\* Ranking reads targets.
LEMMA RankTyped ==
  ASSUME TypeInv, CycleInv, NEW w \in Workers, NEW class \in Classes, RankFrontier(w, class)
  PROVE  TypeInv'
<1> DEFINE v == view[ViewOf[w]]
           ranked == {m \in Frontier(v) : \A g \in live : g.scope # m}
           d == [at |-> "ranked", class |-> class, moves |-> ranked]
<1>1. Goto(w, d) /\ UNCHANGED <<journal, live, top, graph, view>>
  BY DEF RankFrontier
<1>2. Frontier(v) \subseteq Targets
  <2>1. Serials(v.moves) \subseteq Nat /\ Serials(v.runs) \subseteq Nat
    BY ViewFacts DEF Numbered
  <2> HIDE DEF v
  <2>2. \A n \in Serials(v.moves) : MoveId(n) \in Targets
    BY <2>1 DEF Targets, MoveId
  <2>3. \A r \in v.runs : RunId(r.n) \in Targets
    BY <2>1 DEF Targets, Serials, RunId
  <2>4. QED
    BY <2>2, <2>3 DEF Frontier, Targets
<1>3. ranked \subseteq Targets
  BY <1>2
<1> HIDE DEF ranked
<1>4. d \in CycleStates
  BY <1>3 DEF CycleStates
<1>5. CycleFits(w, d)
  BY DEF CycleFits
<1>6. QED
  BY <1>1, <1>4, <1>5, LeasesStand, StageTyped

\* A granted lease has the next token and a ranked target.
LEMMA LeaseTyped ==
  ASSUME TypeInv, NEW w \in Workers, LeaseNext(w)
  PROVE  TypeInv'
<1> DEFINE c == worker[w]
<1>1. c.at = "ranked" /\ c \in CycleStates /\ top \in Nat
  BY DEF LeaseNext, TypeInv, TypeOK
<1>2. PICK m \in c.moves :
        /\ UNCHANGED <<journal, graph, view>> /\ Log!Grant(m)
        /\ Goto(w, [at |-> "leased", class |-> c.class, base |-> HeadRevision,
                    grant |-> [token |-> top + 1, scope |-> m]])
  BY DEF LeaseNext
<1>3. m \in Targets /\ c.class \in Classes
  BY <1>1, <1>2, CycleFields
<1> DEFINE d == [at |-> "leased", class |-> c.class, base |-> HeadRevision,
                 grant |-> [token |-> top + 1, scope |-> m]]
<1>4. HeadRevision \in Nat
  BY DEF TypeInv, TypeOK, HeadRevision
<1>5. d \in CycleStates
  BY <1>1, <1>3, <1>4 DEF CycleStates
<1>6. CycleFits(w, d)
  BY DEF CycleFits
<1>7. top' \in Nat /\ live' \subseteq [token : 1..top', scope : Targets]
  <2>1. top' = top + 1 /\ live' \subseteq live \cup {[token |-> top + 1, scope |-> m]}
    BY <1>2 DEF Log!Grant
  <2>2. live \subseteq [token : 1..top, scope : Targets]
    BY DEF TypeInv, TypeOK
  <2>3. [token : 1..top, scope : Targets] \subseteq [token : 1..top + 1, scope : Targets]
    BY <1>1
  <2>4. QED
    BY <1>1, <1>3, <2>1, <2>2, <2>3
<1>8. Goto(w, d)
  BY <1>2
<1> HIDE DEF d
<1>9. QED
  BY <1>2, <1>5, <1>6, <1>7, <1>8, StageTyped

\* Seen marks are revisions or None.
LEMMA SeenTyped ==
  ASSUME CycleInv, NEW w \in Workers
  PROVE  Seen(ViewOf[w]) \in Marks
BY SeenFacts, CycleAssumption DEF Marks

\* A compiled cycle has a run id in range, or none.
LEMMA CompileTyped ==
  ASSUME TypeInv, CycleInv, NEW w \in Workers, Compile(w)
  PROVE  TypeInv'
<1> DEFINE c == worker[w]
           v == view[ViewOf[w]]
           run == IF c.class # "formal-atp" THEN None
                  ELSE IF c.grant.scope \in Decls THEN NextSerial(v.runs)
                  ELSE c.grant.scope[2]
           d == [at |-> "working", class |-> c.class, base |-> c.base,
                 grant |-> c.grant, seen |-> Seen(ViewOf[w]), run |-> run]
<1>1. /\ c.at = "leased" /\ Goto(w, d) /\ UNCHANGED <<journal, live, top, graph, view>>
      /\ c.class = "formal-atp" => c.grant.scope \in FormalTargets(v)
  BY DEF Compile
<1>2. c \in CycleStates /\ c.class \in Classes /\ c.base \in Nat /\ c.grant \in Grants
  <2>1. c \in CycleStates
    BY DEF TypeInv, TypeOK
  <2> HIDE DEF c
  <2>2. QED
    BY <1>1, <2>1, CycleFields
<1>3. Numbered(v.runs)
  BY ViewFacts
<1>4. c.class = "formal-atp" =>
        /\ run \in Nat
        /\ c.grant.scope \notin Decls => run \in Serials(v.runs)
  <2>1. CASE c.class = "formal-atp" /\ c.grant.scope \in Decls
    <3>1. run = NextSerial(v.runs)
      BY <2>1
    <3> HIDE DEF run, v, c
    <3>2. QED
      BY <1>3, <2>1, <3>1, NextSerialIsNew
  <2>2. CASE c.class = "formal-atp" /\ c.grant.scope \notin Decls
    <3>1. PICK n \in Serials(v.runs) : c.grant.scope = RunId(n)
      BY <1>1, <2>2 DEF FormalTargets
    <3>2. run = n
      BY <2>2, <3>1 DEF RunId
    <3> HIDE DEF run, v, c
    <3>3. QED
      BY <1>3, <3>1, <3>2 DEF Numbered
  <2>3. QED
    BY <2>1, <2>2
<1>5. run \in Marks
  <2>1. CASE c.class = "formal-atp"
    <3> HIDE DEF run
    <3>1. QED
      BY <1>4, <2>1 DEF Marks
  <2>2. CASE c.class # "formal-atp"
    BY <2>2 DEF Marks
  <2>3. QED
    BY <2>1, <2>2
<1>6. Seen(ViewOf[w]) \in Marks
  BY SeenTyped
<1> HIDE DEF run
<1>7. d \in [at : {"working"}, class : Classes, base : Nat, grant : Grants,
             seen : Marks, run : Marks]
  BY <1>2, <1>5, <1>6
<1>8. d \in CycleStates
  BY <1>7 DEF CycleStates, Grants, Marks
<1>9. CycleFits(w, d)
  BY <1>4 DEF CycleFits
<1> HIDE DEF d
<1>10. QED
  BY <1>1, <1>8, <1>9, LeasesStand, StageTyped

\* The proposals a result becomes.
LEMMA ResultsTyped ==
  ASSUME TypeInv, CycleInv, NEW w \in Workers, worker[w].at = "working",
         NEW p \in ResultOps(w)
  PROVE  p \in Proposals
<1> DEFINE c == worker[w]
           v == view[ViewOf[w]]
<1>1. c \in CycleStates /\ CycleFits(w, c)
  BY DEF TypeInv, TypeOK
<1>2. c.class \in {"critic", "formal-atp", "llm-research"} /\ c.grant \in Grants /\ c.run \in Marks
  <2>1. c.at = "working"
    OBVIOUS
  <2> HIDE DEF c
  <2>2. QED
    BY <1>1, <2>1, CycleFields, CycleAssumption
<1>3. v \in Graphs /\ Numbered(v.attempts) /\ Numbered(v.moves) /\ Numbered(v.runs)
  BY ViewFacts
<1>4. CASE c.class = "critic"
  <2>1. PICK verdict \in Verdicts, id \in Ids(NextSerial(v.attempts)) :
          p = [kind |-> "verdict", n |-> NextSerial(v.attempts), about |-> c.grant.scope,
               verdict |-> verdict, edge |-> id[1], named |-> id[2]]
    BY <1>4 DEF ResultOps
  <2>2. NextSerial(v.attempts) \in Nat /\ c.grant.scope \in Targets
    BY <1>2, <1>3, NextSerialIsNew DEF Grants
  <2>3. id[1] \in Nat /\ id[2] \in BOOLEAN
    BY <2>2, IdFacts
  <2> HIDE DEF c, v
  <2>4. QED
    BY <2>1, <2>2, <2>3 DEF Proposals
<1>5. CASE c.class = "llm-research"
  <2>1. PICK id \in Ids(NextSerial(v.moves)) :
          p = [kind |-> "move", n |-> id[1], detail |-> w, named |-> id[2]]
    BY <1>5 DEF ResultOps
  <2>2. NextSerial(v.moves) \in Nat
    BY <1>3, NextSerialIsNew
  <2>3. id[1] \in Nat /\ id[2] \in BOOLEAN
    BY <2>2, IdFacts
  <2> HIDE DEF c, v
  <2>4. QED
    BY <2>1, <2>3 DEF Proposals
<1>6. CASE c.class = "formal-atp"
  <2> DEFINE prior == IF c.run \in Serials(v.runs) THEN RunOf(v, c.run).status ELSE None
             decl == IF c.grant.scope \in Decls THEN c.grant.scope ELSE RunOf(v, c.run).decl
  <2>1. PICK status \in RunStatuses :
          p = [kind |-> "run", n |-> c.run, decl |-> decl, status |-> status, prior |-> prior]
    BY <1>6 DEF ResultOps
  <2>2. c.run \in Nat /\ (c.grant.scope \notin Decls => c.run \in Serials(v.runs))
    BY <1>1, <1>6 DEF CycleFits
  <2>3. c.run \in Serials(v.runs) =>
          RunOf(v, c.run).decl \in Decls /\ RunOf(v, c.run).status \in RunStatuses
    <3> SUFFICES ASSUME c.run \in Serials(v.runs)
                 PROVE  RunOf(v, c.run).decl \in Decls /\ RunOf(v, c.run).status \in RunStatuses
      OBVIOUS
    <3> HIDE DEF c, v
    <3>1. RunOf(v, c.run) \in v.runs
      BY DEF RunOf, Serials
    <3>2. QED
      BY <1>3, <3>1, GraphFields
  <2>4. decl \in Decls /\ prior \in RunStatuses \cup {None}
    BY <2>2, <2>3
  <2> HIDE DEF c, v, prior, decl
  <2>5. QED
    BY <2>1, <2>2, <2>4 DEF Proposals
<1>7. QED
  BY <1>2, <1>4, <1>5, <1>6

\* A result becomes a typed proposal.
LEMMA ProposeTyped ==
  ASSUME TypeInv, CycleInv, NEW w \in Workers, Propose(w)
  PROVE  TypeInv'
<1> DEFINE c == worker[w]
<1>1. c.at = "working" /\ UNCHANGED <<journal, live, top, graph, view>>
  BY DEF Propose
<1>2. PICK p \in ResultOps(w) :
        Goto(w, [at |-> "proposed", class |-> c.class, base |-> c.base,
                 grant |-> c.grant, seen |-> c.seen, proposal |-> p])
  BY DEF Propose
<1> DEFINE d == [at |-> "proposed", class |-> c.class, base |-> c.base,
                 grant |-> c.grant, seen |-> c.seen, proposal |-> p]
<1>3. p \in Proposals
  BY <1>1, <1>2, ResultsTyped
<1>4. c \in CycleStates
  BY DEF TypeInv, TypeOK
<1>5. Goto(w, d)
  BY <1>2
<1> HIDE DEF c
<1>6. /\ c.class \in Classes /\ c.class # "follow-up" /\ c.base \in Nat /\ c.grant \in Grants
      /\ c.seen \in Marks
  BY <1>1, <1>4, CycleFields, CycleAssumption
<1>7. d \in CycleStates
  BY <1>3, <1>6 DEF CycleStates, Grants, Marks
<1>8. CycleFits(w, d)
  BY <1>3, <1>6 DEF CycleFits
<1> HIDE DEF d
<1>9. QED
  BY <1>1, <1>5, <1>7, <1>8, LeasesStand, StageTyped

\* A validated proposal is the one proposed.
LEMMA ValidateTyped ==
  ASSUME TypeInv, NEW w \in Workers, Validate(w)
  PROVE  TypeInv'
<1> DEFINE c == worker[w]
           d == [at |-> "validated", class |-> c.class, base |-> c.base,
                 grant |-> c.grant, seen |-> c.seen, proposal |-> c.proposal]
<1>1. /\ c.at = "proposed" /\ Goto(w, d)
      /\ UNCHANGED <<journal, live, top, graph, view>>
  BY DEF Validate
<1>2. c \in CycleStates /\ CycleFits(w, c)
  BY DEF TypeInv, TypeOK
<1> HIDE DEF c
<1>3. /\ c.class \in Classes \cup {"follow-up"} /\ c.base \in Nat /\ c.grant \in Granted
      /\ c.seen \in Marks /\ c.proposal \in Proposals
  BY <1>1, <1>2, CycleFields
<1>4. d \in CycleStates
  BY <1>3 DEF CycleStates, Grants, Granted, Marks
<1>5. CycleFits(w, d)
  BY <1>1, <1>2 DEF CycleFits
<1> HIDE DEF d
<1>6. QED
  BY <1>1, <1>4, <1>5, LeasesStand, StageTyped

\* Steps that only end a stage.
LEMMA EndedStageTyped ==
  ASSUME TypeInv, NEW w \in Workers,
         \/ LeaseNone(w) \/ CompileRaises(w) \/ Reject(w) \/ AppendRefused(w)
         \/ Release(w) \/ KeepLease(w) \/ RouteNothing(w) \/ Abandon(w)
  PROVE  TypeInv'
<1>1. UNCHANGED <<journal, top, graph, view>> /\ live' \subseteq live
  BY DEF LeaseNone, CompileRaises, Reject, AppendRefused, Release, KeepLease, RouteNothing,
         Abandon
<1>2. Goto(w, Idle) \/ Goto(w, AfterCommit(worker[w]))
  BY DEF LeaseNone, CompileRaises, Reject, AppendRefused, Release, KeepLease, RouteNothing,
         Abandon
<1>3. QED
  BY <1>1, <1>2, AnsweredTyped, LeasesStand, StageTyped

\* A follow-up has a minted serial and no lease.
LEMMA BridgeTyped ==
  ASSUME TypeInv, CycleInv, NEW w \in Workers, RouteBridge(w) \/ BridgeBase(w)
  PROVE  TypeInv'
<1>1. CASE RouteBridge(w)
  <2> DEFINE v == view[ViewOf[w]]
             p == [kind |-> "move", n |-> NextSerial(v.moves), detail |-> "bridge",
                   named |-> FALSE]
             d == [at |-> "bridging", seen |-> Seen(ViewOf[w]), proposal |-> p]
  <2>1. Goto(w, d) /\ UNCHANGED <<journal, live, top, graph, view>>
    BY <1>1 DEF RouteBridge
  <2>2. Numbered(v.moves)
    BY ViewFacts
  <2>3. p.n \in Nat
    <3> HIDE DEF v
    <3>1. QED
      BY <2>2, NextSerialIsNew
  <2>4. p \in Proposals
    BY <2>3 DEF Proposals
  <2> HIDE DEF p
  <2>5. d \in CycleStates
    BY <2>4, SeenTyped DEF CycleStates, Marks
  <2>6. CycleFits(w, d)
    BY <2>3 DEF CycleFits
  <2> HIDE DEF d
  <2>7. QED
    BY <2>1, <2>5, <2>6, LeasesStand, StageTyped
<1>2. CASE BridgeBase(w)
  <2> DEFINE c == worker[w]
             d == [at |-> "proposed", class |-> "follow-up", base |-> HeadRevision,
                   grant |-> Log!NoGrant, seen |-> c.seen, proposal |-> c.proposal]
  <2>1. /\ c.at = "bridging" /\ Goto(w, d) /\ UNCHANGED <<journal, live, top, graph, view>>
    BY <1>2 DEF BridgeBase
  <2>2. c \in CycleStates /\ CycleFits(w, c) /\ HeadRevision \in Nat
    BY DEF TypeInv, TypeOK, HeadRevision
  <2> HIDE DEF c
  <2>3. c.seen \in Marks /\ c.proposal \in Proposals
    BY <2>1, <2>2, CycleFields
  <2>4. d \in CycleStates
    BY <2>2, <2>3 DEF CycleStates, Marks
  <2>5. CycleFits(w, d)
    BY <2>1, <2>2 DEF CycleFits
  <2> HIDE DEF d
  <2>6. QED
    BY <2>1, <2>4, <2>5, LeasesStand, StageTyped
<1>3. QED
  BY <1>1, <1>2

\* Whether a proposal names its review edge is a Boolean.
LEMMA NamesReviewIsBoolean ==
  ASSUME NEW p \in Proposals
  PROVE  NamesReview(p) \in BOOLEAN
BY DEF Proposals, NamesReview

\* A commit adds a typed revision to the journal and its ops to committed state.
LEMMA AppendTyped ==
  ASSUME TypeInv, CycleInv, NEW w \in Workers, AppendAccepted(w)
  PROVE  TypeInv'
<1> DEFINE c == worker[w]
           p == c.proposal
           e == [grant |-> c.grant, seen |-> c.seen, named |-> NamesReview(p)]
           d == [at |-> "committed", class |-> c.class, grant |-> c.grant, proposal |-> p]
<1>1. /\ c.at = "validated" /\ Goto(w, d)
      /\ UNCHANGED <<live, top, view>>
      /\ journal' = Append(journal, e) /\ graph' = Applied(graph, p)
  BY DEF AppendAccepted
<1>2. c \in CycleStates /\ CycleFits(w, c)
  BY DEF TypeInv, TypeOK
<1>3. /\ c.class \in Classes \cup {"follow-up"} /\ c.grant \in Granted
      /\ c.seen \in Marks /\ p \in Proposals
  <2>1. c.at = "validated"
    BY <1>1
  <2> HIDE DEF c
  <2>2. QED
    BY <1>2, <2>1, CycleFields
<1>6. TypeOK'
  <2>1. graph' \in Graphs
    BY <1>1, <1>3, AppliedTyped DEF TypeInv, TypeOK
  <2>2. journal' \in Seq([grant : [token : Nat, scope : Targets] \cup {Log!NoGrant},
                          seen : Nat \cup {None}, named : BOOLEAN])
    <3>1. e \in [grant : [token : Nat, scope : Targets] \cup {Log!NoGrant},
                 seen : Nat \cup {None}, named : BOOLEAN]
      BY <1>3, NamesReviewIsBoolean DEF Granted, Grants, Marks
    <3> HIDE DEF e
    <3>2. QED
      BY <1>1, <3>1 DEF TypeInv, TypeOK
  <2>3. d \in CycleStates
    BY <1>3 DEF CycleStates, Granted, Grants
  <2> HIDE DEF d
  <2>4. worker' \in [Workers -> CycleStates]
    BY <1>1, <2>3 DEF TypeInv, TypeOK, Goto
  <2>5. QED
    BY <1>1, <2>1, <2>2, <2>4 DEF TypeInv, TypeOK
<1>8. ASSUME NEW u \in Workers
      PROVE  CycleFits(u, worker[u])'
  <2>1. CycleFits(u, worker'[u])
    <3>1. CycleFits(w, d)
      BY <1>1, <1>2 DEF CycleFits
    <3> HIDE DEF d
    <3>2. QED
      BY <1>1, <3>1 DEF TypeInv, TypeOK, Goto
  <2>2. QED
    BY <1>1, <2>1 DEF CycleFits
<1>9. QED
  BY <1>6, <1>8 DEF TypeInv

\* Maintenance adds to a view what is committed.
LEMMA MaintainTyped ==
  ASSUME TypeInv, CycleInv, NEW w \in Workers, Maintain(w)
  PROVE  TypeInv'
<1> DEFINE c == worker[w]
           p == c.proposal
           d == IF c.grant = Log!NoGrant THEN Idle
                ELSE [at |-> "maintained", class |-> c.class, grant |-> c.grant]
<1>1. /\ c.at = "committed" /\ UNCHANGED <<journal, live, top, graph>> /\ Goto(w, d)
      /\ view' = [view EXCEPT ![ViewOf[w]] = Applied(@, p)]
  BY DEF Maintain
<1>2. c \in CycleStates /\ CycleFits(w, c) /\ ViewOf[w] \in Views
  BY CycleAssumption DEF TypeInv, TypeOK
<1>3. c.class \in Classes \cup {"follow-up"} /\ c.grant \in Granted /\ p \in Proposals
  <2>1. c.at = "committed"
    BY <1>1
  <2> HIDE DEF c
  <2>2. QED
    BY <1>2, <2>1, CycleFields
<1>4. Known(p) /\ Contains(graph, p)
  BY <1>1 DEF CycleInv, CycleOK, StageOK, DueIsCommitted, HasProposal
<1>5. \A v \in Views : view'[v] = IF v = ViewOf[w] THEN Applied(view[v], p) ELSE view[v]
  BY <1>1, <1>2 DEF TypeInv, TypeOK
<1>6. d \in CycleStates /\ CycleFits(w, d)
  <2>1. CASE c.grant = Log!NoGrant
    BY <2>1, AnsweredTyped
  <2>2. CASE c.grant # Log!NoGrant
    <3>1. c.class \in Classes /\ c.grant \in Grants
      BY <1>1, <1>2, <1>3, <2>2 DEF CycleFits, Granted
    <3> DEFINE m == [at |-> "maintained", class |-> c.class, grant |-> c.grant]
    <3>2. m \in CycleStates
      BY <3>1 DEF CycleStates, Grants
    <3>3. CycleFits(w, m)
      BY DEF CycleFits
    <3>4. QED
      BY <2>2, <3>2, <3>3
  <2>3. QED
    BY <2>1, <2>2
<1> HIDE DEF d, p
<1>7. ASSUME NEW v \in Views
      PROVE  /\ view'[v] \in Graphs
             /\ Serials(view[v].runs) \subseteq Serials(view'[v].runs)
  <2>1. view[v] \in Graphs /\ Shaped(view[v])
    BY DEF TypeInv, TypeOK, CycleInv, ShapesOK
  <2>2. CASE v = ViewOf[w]
    <3>1. view'[v] = Applied(view[v], p)
      BY <1>5, <2>2
    <3>2. view'[v] \in Graphs
      BY <1>3, <2>1, <3>1, AppliedTyped
    <3>3. Serials(view[v].runs) \subseteq Serials(view'[v].runs)
      <4> DEFINE g == view[v]
      <4>1. Shaped(g) /\ Known(p) /\ view'[v] = Applied(g, p)
        BY <1>4, <2>1, <3>1
      <4> HIDE DEF g
      <4>2. Serials(g.runs) \subseteq Serials(Applied(g, p).runs)
        BY <4>1, AppliedSerials
      <4>3. QED
        BY <4>1, <4>2 DEF g
    <3>4. QED
      BY <3>2, <3>3
  <2>3. CASE v # ViewOf[w]
    BY <1>5, <2>1, <2>3
  <2>4. QED
    BY <2>2, <2>3
<1>8. TypeOK'
  BY <1>1, <1>6, <1>7 DEF TypeInv, TypeOK, Goto
<1>10. ASSUME NEW u \in Workers
       PROVE  CycleFits(u, worker[u])'
  <2>1. CycleFits(u, worker'[u]) /\ ViewOf[u] \in Views
    BY <1>1, <1>6, CycleAssumption DEF TypeInv, TypeOK, Goto
  <2>2. QED
    BY <1>1, <1>7, <2>1 DEF CycleFits
<1>11. QED
  BY <1>8, <1>10 DEF TypeInv

\* A rebuilt view is committed state.
LEMMA RebuildTyped ==
  ASSUME TypeInv, CycleInv, NEW v \in Views, Rebuild(v)
  PROVE  TypeInv'
<1>1. view' = [view EXCEPT ![v] = graph] /\ UNCHANGED <<journal, live, top, graph, worker>>
  BY DEF Rebuild
<1>2. \A u \in Views : view'[u] = IF u = v THEN graph ELSE view[u]
  BY <1>1 DEF TypeInv, TypeOK
<1>3. TypeOK'
  BY <1>1, <1>2 DEF TypeInv, TypeOK
<1>4. ASSUME NEW u \in Workers
      PROVE  CycleFits(u, worker[u])'
  <2>1. CycleFits(u, worker[u]) /\ ViewOf[u] \in Views
    BY CycleAssumption DEF TypeInv
  <2>2. Serials(view[ViewOf[u]].runs) \subseteq Serials(view'[ViewOf[u]].runs)
    BY <1>2, <2>1 DEF CycleInv, ViewsAreCommitted
  <2>3. QED
    BY <1>1, <2>1, <2>2 DEF CycleFits
<1>5. QED
  BY <1>3, <1>4 DEF TypeInv

\* A lapse ends a lease.
LEMMA LapseTyped ==
  ASSUME TypeInv, UNCHANGED <<journal, top, graph, view, worker>>, live' \subseteq live
  PROVE  TypeInv'
<1>1. TypeOK'
  BY DEF TypeInv, TypeOK
<1>2. ASSUME NEW u \in Workers
      PROVE  CycleFits(u, worker[u])'
  <2>1. CycleFits(u, worker[u])
    BY DEF TypeInv
  <2>2. QED
    BY <2>1 DEF CycleFits
<1>3. QED
  BY <1>1, <1>2 DEF TypeInv

-----------------------------------------------------------------------------
(* Types: the theorem.                                                      *)

\* The empty journal, and the moves queued at first.
LEMMA InitTyped == Init => TypeInv
<1> SUFFICES ASSUME Init PROVE TypeInv
  OBVIOUS
<1>1. OpenMoves \in Nat
  BY CycleAssumption
<1>3. graph \in Graphs
  <2>1. graph.moves \subseteq [n : Nat, detail : Workers \cup {"initial", "bridge"}]
    BY <1>1 DEF Init
  <2>2. QED
    BY <2>1 DEF Init, Graphs
<1>5. \A v \in Views : view[v] = graph
  BY DEF Init
<1>6. TypeOK
  <2>1. Idle \in CycleStates
    BY AnsweredTyped
  <2>2. worker \in [Workers -> CycleStates] /\ view \in [Views -> Graphs]
    BY <1>3, <2>1 DEF Init
  <2>3. top \in Nat /\ live \subseteq [token : 1..top, scope : Targets]
    BY DEF Init
  <2>4. journal \in Seq([grant : [token : Nat, scope : Targets] \cup {Log!NoGrant},
                        seen : Nat \cup {None}, named : BOOLEAN])
    BY DEF Init
  <2>5. QED
    BY <1>3, <2>2, <2>3, <2>4 DEF TypeOK
<1>8. \A w \in Workers : CycleFits(w, worker[w])
  BY AnsweredTyped DEF Init
<1>9. QED
  BY <1>6, <1>8 DEF TypeInv

\* Every step keeps the types.
LEMMA StepTyped ==
  ASSUME TypeInv, CycleInv, [Next]_vars
  PROVE  TypeInv'
<1>1. ASSUME NEW w \in Workers, Step(w)
      PROVE  TypeInv'
  BY <1>1, RankTyped, LeaseTyped, CompileTyped, ProposeTyped, ValidateTyped, AppendTyped,
     MaintainTyped, BridgeTyped, EndedStageTyped DEF Step
<1>2. ASSUME NEW w \in Workers, Abandon(w)
      PROVE  TypeInv'
  BY <1>2, EndedStageTyped
<1>3. ASSUME NEW v \in Views, Rebuild(v)
      PROVE  TypeInv'
  BY <1>3, RebuildTyped
<1>4. CASE Lapse \/ UNCHANGED vars
  <2>1. UNCHANGED <<journal, top, graph, view, worker>> /\ live' \subseteq live
    BY <1>4 DEF Lapse, vars
  <2>2. QED
    BY <2>1, LapseTyped
<1>5. QED
  BY <1>1, <1>2, <1>3, <1>4 DEF Next

\* Committed state, every view, every lease, every revision and every cycle keep their
\* types: in particular a cycle that resumes a run finds it in its view, whatever views
\* lag behind the journal and whatever ids results name.
THEOREM CycleTypesHold == Spec => []TypeOK
<1>1. TypeInv /\ CycleInv /\ [Next]_vars => TypeInv'
  BY StepTyped
<1>2. TypeInv => TypeOK
  BY DEF TypeInv
<1>3. QED
  BY InitTyped, <1>1, <1>2, CycleInvHolds, PTL DEF Spec
=============================================================================
