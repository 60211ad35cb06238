------------------------- MODULE ProofCycleProofs -------------------------
(***************************************************************************)
(* CurrentCyclesTakeEffect for every number of workers, views, claims and  *)
(* declarations, however views are shared, whatever lapses or fails.       *)
(*                                                                         *)
(* The argument: while the head still is the revision a cycle first saw,   *)
(* committed state has not changed, and neither has the view, because the  *)
(* maintenance other workers still owe it repeats what it already holds.   *)
(* So what the cycle read is still true when its compare-and-set passes.   *)
(* While no result has named a review edge, every review edge has the      *)
(* serial of a committed attempt, so the one minted with a new attempt is  *)
(* new too.                                                                *)
(***************************************************************************)
EXTENDS ProofCycle, SequenceTheorems, TLAPS

\* Serials are natural numbers and one of them is the largest, so NextSerial
\* exists.
Numbered(records) ==
  /\ Serials(records) \subseteq Nat
  /\ \E n \in Serials(records) \cup {0} : \A m \in Serials(records) : m <= n

Shaped(g) ==
  /\ g = [claim |-> g.claim, attempts |-> g.attempts, reviews |-> g.reviews,
          moves |-> g.moves, runs |-> g.runs]
  /\ g.claim = [c \in Claims |-> g.claim[c]]
  /\ Numbered(g.attempts) /\ Numbered(g.reviews) /\ Numbered(g.moves) /\ Numbered(g.runs)
  /\ \A r \in g.runs : /\ r = [n |-> r.n, decl |-> r.decl, status |-> r.status]
                       /\ r.status \in RunStatuses

Known(p) ==
  /\ p.kind \in {"verdict", "move", "run"}
  /\ p.n \in Nat
  /\ p.kind = "run" => p.status \in RunStatuses
  /\ p.kind = "verdict" => p.edge \in Nat /\ (NamesReview(p) \/ p.edge = p.n)

\* What validation establishes of p for good: its writes go one way.
OneWay(p) ==
  /\ Advances(p) => p.prior = "searching"
  /\ Promotes(p) => p.about \in Claims

\* g already holds everything p says.
Contains(g, p) ==
  /\ Promotes(p) => g.claim[p.about] = "critic-accepted"
  /\ p.kind = "verdict" => p.n \in Serials(g.attempts) /\ p.edge \in Serials(g.reviews)
  /\ p.kind = "move" => p.n \in Serials(g.moves)
  /\ Starts(p) => p.n \in Serials(g.runs)
  /\ Advances(p) => /\ p.n \in Serials(g.runs)
                    /\ \A r \in g.runs : r.n = p.n => r.status = p.status

HasSeen(c)     == c.at \in {"working", "proposed", "validated", "bridging"}
HasProposal(c) == c.at \in {"proposed", "validated", "bridging", "committed"}

\* The head has not moved since the cycle first read its view, which held it.
Current(c) == HasSeen(c) /\ c.seen = HeadRevision

-----------------------------------------------------------------------------
(* The inductive invariant, one worker at a time.                           *)

ShapesOK ==
  /\ \E Entries : journal \in Seq(Entries)
  /\ Shaped(graph)
  /\ view = [v \in Views |-> view[v]]
  /\ \A v \in Views : Shaped(view[v])
  /\ worker = [w \in Workers |-> worker[w]]

\* No view holds a run that is not committed.
ViewsAreCommitted == \A v \in Views : Serials(view[v].runs) \subseteq Serials(graph.runs)

\* While no result has named a review edge, every one has an attempt's serial.
ReviewsAreMinted == NothingNamed => Serials(graph.reviews) \subseteq Serials(graph.attempts)

\* The ids of proposal p are minted, and nothing committed has taken them.
Minted(p) == NothingNamed /\ ~NamesId(p)

\* A cycle's fields are what its stage needs, and it has not seen the future.
StageOK(c) ==
  /\ HasSeen(c) => c.seen \in (0..HeadRevision) \cup {None}
  /\ c.at \in {"ranked", "leased", "working"} => c.class \in Classes
  /\ c.at = "working" /\ c.class = "formal-atp" => c.run \in Nat
  /\ HasProposal(c) => Known(c.proposal)

\* A current formal cycle's run id is new, or names the committed run it resumes.
RunIsKnown(c) ==
  Current(c) /\ c.at = "working" /\ c.class = "formal-atp" =>
    IF c.grant.scope \in Decls THEN c.run \notin Serials(graph.runs)
    ELSE c.run \in Serials(graph.runs)

\* A current cycle's minted proposal still says something new, and a validated
\* one writes over what it expects.
ProposalHolds(c) ==
  /\ Current(c) /\ HasProposal(c) /\ Minted(c.proposal) => Creates(graph, c.proposal)
  /\ Current(c) /\ c.at = "validated" /\ Minted(c.proposal) => TakesEffect(graph, c.proposal)
  /\ c.at = "validated" =>
       /\ OneWay(c.proposal)
       /\ Advances(c.proposal) => c.proposal.n \in Serials(graph.runs)

\* Committed state holds every proposal whose maintenance is still due.
DueIsCommitted(c) ==
  c.at = "committed" => OneWay(c.proposal) /\ Contains(graph, c.proposal)

CycleOK(w, c) ==
  /\ StageOK(c)
  /\ RunIsKnown(c)
  /\ ProposalHolds(c)
  /\ DueIsCommitted(c)
  /\ Current(c) => view[ViewOf[w]] = graph

CycleInv ==
  /\ ShapesOK
  /\ ViewsAreCommitted
  /\ ReviewsAreMinted
  /\ \A w \in Workers : CycleOK(w, worker[w])

-----------------------------------------------------------------------------
(* Serials and graphs.                                                      *)

\* A minted serial is new to the view it is read from.
LEMMA NextSerialIsNew ==
  ASSUME NEW records, Numbered(records)
  PROVE  NextSerial(records) \in Nat /\ NextSerial(records) \notin Serials(records)
<1> DEFINE largest == CHOOSE n \in Serials(records) \cup {0} : \A m \in Serials(records) : m <= n
<1>1. largest \in Serials(records) \cup {0} /\ \A m \in Serials(records) : m <= largest
  BY DEF Numbered
<1>2. largest \in Nat
  BY <1>1 DEF Numbered
<1>3. NextSerial(records) = 1 + largest
  BY DEF NextSerial
<1> HIDE DEF largest
<1>4. QED
  BY <1>1, <1>2, <1>3 DEF Numbered

\* Adding a record keeps serials numbered and adds at most its own serial.
LEMMA AddedSerials ==
  ASSUME NEW records, NEW new, Numbered(records), new.n \in Nat
  PROVE  /\ Serials(Added(records, new)) = Serials(records) \cup {new.n}
         /\ Numbered(Added(records, new))
<1>1. Serials(Added(records, new)) = Serials(records) \cup {new.n}
  BY DEF Added, Serials
<1>2. PICK n \in Serials(records) \cup {0} : \A m \in Serials(records) : m <= n
  BY DEF Numbered
<1>3. n \in Nat
  BY <1>2 DEF Numbered
<1>4. CASE new.n <= n
  BY <1>1, <1>2, <1>3, <1>4 DEF Numbered
<1>5. CASE ~(new.n <= n)
  <2>1. \A m \in Serials(records) \cup {new.n} : m <= new.n
    BY <1>2, <1>3, <1>5 DEF Numbered
  <2>2. QED
    BY <1>1, <2>1 DEF Numbered
<1>6. QED
  BY <1>1, <1>4, <1>5

\* What applying a proposal does to each class of serials.
LEMMA AppliedSerials ==
  ASSUME NEW g, NEW p, Shaped(g), Known(p)
  PROVE  /\ Serials(Applied(g, p).attempts) =
              IF p.kind = "verdict" THEN Serials(g.attempts) \cup {p.n} ELSE Serials(g.attempts)
         /\ Serials(Applied(g, p).reviews) =
              IF p.kind = "verdict" THEN Serials(g.reviews) \cup {p.edge} ELSE Serials(g.reviews)
         /\ Serials(Applied(g, p).moves) =
              IF p.kind = "move" THEN Serials(g.moves) \cup {p.n} ELSE Serials(g.moves)
         /\ Serials(Applied(g, p).runs) =
              IF Starts(p) THEN Serials(g.runs) \cup {p.n} ELSE Serials(g.runs)
         /\ Numbered(Applied(g, p).attempts)
         /\ Numbered(Applied(g, p).reviews)
         /\ Numbered(Applied(g, p).moves)
         /\ Numbered(Applied(g, p).runs)
<1>1. /\ Serials(Applied(g, p).attempts) =
           IF p.kind = "verdict" THEN Serials(g.attempts) \cup {p.n} ELSE Serials(g.attempts)
      /\ Numbered(Applied(g, p).attempts)
  <2> DEFINE new == [n |-> p.n, verdict |-> p.verdict]
  <2>1. Numbered(g.attempts) /\ new.n = p.n /\ new.n \in Nat
    BY DEF Shaped, Known
  <2>2. Applied(g, p).attempts =
          IF p.kind # "verdict" THEN g.attempts ELSE Added(g.attempts, new)
    BY DEF Applied
  <2> HIDE DEF new
  <2>3. QED
    BY <2>1, <2>2, AddedSerials
<1>5. /\ Serials(Applied(g, p).reviews) =
           IF p.kind = "verdict" THEN Serials(g.reviews) \cup {p.edge} ELSE Serials(g.reviews)
      /\ Numbered(Applied(g, p).reviews)
  <2> DEFINE new == [n |-> p.edge, attempt |-> p.n, about |-> p.about]
  <2>1. Numbered(g.reviews) /\ new.n = p.edge /\ (p.kind = "verdict" => new.n \in Nat)
    BY DEF Shaped, Known
  <2>2. Applied(g, p).reviews =
          IF p.kind # "verdict" THEN g.reviews ELSE Added(g.reviews, new)
    BY DEF Applied
  <2> HIDE DEF new
  <2>3. QED
    BY <2>1, <2>2, AddedSerials
<1>2. /\ Serials(Applied(g, p).moves) =
           IF p.kind = "move" THEN Serials(g.moves) \cup {p.n} ELSE Serials(g.moves)
      /\ Numbered(Applied(g, p).moves)
  <2> DEFINE new == [n |-> p.n, detail |-> p.detail]
  <2>1. Numbered(g.moves) /\ new.n = p.n /\ new.n \in Nat
    BY DEF Shaped, Known
  <2>2. Applied(g, p).moves = IF p.kind # "move" THEN g.moves ELSE Added(g.moves, new)
    BY DEF Applied
  <2> HIDE DEF new
  <2>3. QED
    BY <2>1, <2>2, AddedSerials
<1>3. /\ Serials(Applied(g, p).runs) =
           IF Starts(p) THEN Serials(g.runs) \cup {p.n} ELSE Serials(g.runs)
      /\ Numbered(Applied(g, p).runs)
  <2> DEFINE new == [n |-> p.n, decl |-> p.decl, status |-> p.status]
  <2>1. Numbered(g.runs) /\ new.n = p.n /\ new.n \in Nat
    BY DEF Shaped, Known
  <2>2. CASE Starts(p)
    <3>1. ~Advances(p)
      BY <2>2 DEF Starts, Advances
    <3>2. Applied(g, p).runs = Added(g.runs, new)
      BY <2>2, <3>1 DEF Applied
    <3> HIDE DEF new
    <3>3. QED
      BY <2>1, <2>2, <3>2, AddedSerials
  <2>3. CASE Advances(p)
    <3>1. ~Starts(p)
      BY <2>3 DEF Starts, Advances
    <3>2. Applied(g, p).runs =
            {IF r.n # p.n THEN r ELSE [n |-> r.n, decl |-> r.decl, status |-> p.status] :
               r \in g.runs}
      BY <2>3, <3>1 DEF Applied
    <3>3. Serials(Applied(g, p).runs) = Serials(g.runs)
      <4>1. ASSUME NEW n \in Serials(g.runs)
            PROVE  n \in Serials(Applied(g, p).runs)
        <5>1. PICK r \in g.runs : r.n = n
          BY DEF Serials
        <5> DEFINE q == IF r.n # p.n THEN r
                        ELSE [n |-> r.n, decl |-> r.decl, status |-> p.status]
        <5>2. q \in Applied(g, p).runs
          BY <3>2
        <5>3. q.n = n
          BY <5>1
        <5>4. QED
          BY <5>2, <5>3 DEF Serials
      <4>2. ASSUME NEW n \in Serials(Applied(g, p).runs)
            PROVE  n \in Serials(g.runs)
        BY <3>2 DEF Serials
      <4>3. QED
        BY <4>1, <4>2
    <3>4. QED
      BY <2>1, <3>1, <3>3 DEF Numbered
  <2>4. CASE ~Starts(p) /\ ~Advances(p)
    <3>1. Applied(g, p).runs = g.runs
      BY <2>4 DEF Applied
    <3>2. QED
      BY <2>1, <2>4, <3>1
  <2>5. QED
    BY <2>2, <2>3, <2>4
<1>4. QED
  BY <1>1, <1>2, <1>3, <1>5

\* The runs a proposal leaves: old ones, advanced ones, a started one.
LEMMA AppliedRuns ==
  ASSUME NEW g, NEW p, Shaped(g), Known(p), NEW r \in Applied(g, p).runs
  PROVE  /\ r = [n |-> r.n, decl |-> r.decl, status |-> r.status]
         /\ r.status \in RunStatuses
         /\ \/ r \in g.runs /\ ~(Advances(p) /\ r.n = p.n)
            \/ Advances(p) /\ r.n = p.n /\ r.status = p.status
            \/ Starts(p) /\ r.n = p.n /\ p.n \notin Serials(g.runs)
<1>1. CASE Starts(p)
  BY <1>1 DEF Applied, Starts, Advances, Added, Shaped, Known
<1>2. CASE Advances(p)
  <2>1. ~Starts(p) /\ p.kind = "run"
    BY <1>2 DEF Starts, Advances
  <2>2. Applied(g, p).runs =
          {IF q.n # p.n THEN q ELSE [n |-> q.n, decl |-> q.decl, status |-> p.status] :
             q \in g.runs}
    BY <1>2, <2>1 DEF Applied
  <2>3. QED
    BY <1>2, <2>1, <2>2 DEF Shaped, Known
<1>3. CASE ~Starts(p) /\ ~Advances(p)
  BY <1>3 DEF Applied, Shaped
<1>4. QED
  BY <1>1, <1>2, <1>3

LEMMA AppliedShaped ==
  ASSUME NEW g, NEW p, Shaped(g), Known(p)
  PROVE  Shaped(Applied(g, p))
<1> DEFINE h == Applied(g, p)
<1>1. h = [claim |-> h.claim, attempts |-> h.attempts, reviews |-> h.reviews,
           moves |-> h.moves, runs |-> h.runs]
  BY DEF Applied
<1>2. h.claim = [c \in Claims |-> h.claim[c]]
  BY DEF Applied
<1>3. Numbered(h.attempts) /\ Numbered(h.reviews) /\ Numbered(h.moves) /\ Numbered(h.runs)
  BY AppliedSerials
<1>4. \A r \in h.runs : /\ r = [n |-> r.n, decl |-> r.decl, status |-> r.status]
                        /\ r.status \in RunStatuses
  BY AppliedRuns
<1> HIDE DEF h
<1>5. Shaped(h)
  BY <1>1, <1>2, <1>3, <1>4 DEF Shaped
<1>6. QED
  BY <1>5 DEF h

\* Applying again what a graph already holds changes nothing.
LEMMA RepeatedIsIdle ==
  ASSUME NEW g, NEW p, Shaped(g), Known(p), Contains(g, p)
  PROVE  Applied(g, p) = g
<1> DEFINE h == Applied(g, p)
<1>1. h = [claim |-> h.claim, attempts |-> h.attempts, reviews |-> h.reviews,
           moves |-> h.moves, runs |-> h.runs]
  BY DEF Applied
<1>2. h.claim = g.claim
  <2>1. \A c \in Claims : (IF Promotes(p) /\ c = p.about THEN "critic-accepted"
                           ELSE g.claim[c]) = g.claim[c]
    BY DEF Contains
  <2>2. h.claim = [c \in Claims |-> g.claim[c]]
    BY <2>1 DEF Applied
  <2>3. QED
    BY <2>2 DEF Shaped
<1>3. h.attempts = g.attempts /\ h.reviews = g.reviews
  BY DEF Applied, Added, Contains
<1>4. h.moves = g.moves
  BY DEF Applied, Added, Contains
<1>5. h.runs = g.runs
  <2>1. CASE Starts(p)
    BY <2>1 DEF Applied, Added, Contains, Starts, Advances
  <2>2. CASE Advances(p)
    <3>1. h.runs = {IF r.n # p.n THEN r ELSE [n |-> r.n, decl |-> r.decl, status |-> p.status] :
                      r \in g.runs}
      BY <2>2 DEF Applied, Starts, Advances
    <3>2. \A r \in g.runs :
            (IF r.n # p.n THEN r ELSE [n |-> r.n, decl |-> r.decl, status |-> p.status]) = r
      BY <2>2 DEF Contains, Shaped
    <3> HIDE DEF h
    <3>3. QED
      BY <3>1, <3>2
  <2>3. CASE ~Starts(p) /\ ~Advances(p)
    BY <2>3 DEF Applied
  <2>4. QED
    BY <2>1, <2>2, <2>3
<1> HIDE DEF h
<1>6. h = g
  BY <1>1, <1>2, <1>3, <1>4, <1>5 DEF Shaped
<1>7. QED
  BY <1>6 DEF h

\* A proposal whose run exists, if it advances one, is held once applied.
LEMMA AppliedIsContained ==
  ASSUME NEW g, NEW p, Shaped(g), Known(p), OneWay(p),
         Advances(p) => p.n \in Serials(g.runs)
  PROVE  Contains(Applied(g, p), p)
<1>1. Promotes(p) => Applied(g, p).claim[p.about] = "critic-accepted"
  BY DEF Applied, OneWay
<1>2. \A r \in Applied(g, p).runs : Advances(p) /\ r.n = p.n => r.status = p.status
  BY AppliedRuns DEF Starts, Advances
<1>3. QED
  BY <1>1, <1>2, AppliedSerials DEF Contains

\* What a graph holds it goes on holding: nothing is taken back.
LEMMA ContainedStays ==
  ASSUME NEW g, NEW p, NEW q, Shaped(g), Known(p), Known(q), OneWay(p), OneWay(q),
         Contains(g, p)
  PROVE  Contains(Applied(g, q), p)
<1>1. Promotes(p) => Applied(g, q).claim[p.about] = "critic-accepted"
  BY DEF Applied, OneWay, Contains
<1>2. ASSUME Advances(p), NEW r \in Applied(g, q).runs, r.n = p.n
      PROVE  r.status = p.status
  <2>1. p.n \in Serials(g.runs) /\ \A s \in g.runs : s.n = p.n => s.status = p.status
    BY <1>2 DEF Contains
  <2>2. CASE r \in g.runs
    BY <1>2, <2>1, <2>2
  <2>3. CASE Advances(q) /\ r.status = q.status
    BY <1>2, <2>3 DEF Advances, OneWay, Known, RunStatuses
  <2>4. CASE Starts(q) /\ r.n = q.n /\ q.n \notin Serials(g.runs)
    BY <1>2, <2>1, <2>4
  <2>5. QED
    BY <2>2, <2>3, <2>4, AppliedRuns
<1>3. QED
  BY <1>1, <1>2, AppliedSerials DEF Contains

-----------------------------------------------------------------------------
(* The steps.                                                               *)

LEMMA InitHolds ==
  Init => CycleInv
<1> SUFFICES ASSUME Init
             PROVE  CycleInv
  OBVIOUS
<1>1. Shaped(graph)
  <2>1. Numbered({})
    BY DEF Numbered, Serials
  <2>2. Numbered(graph.moves)
    <3>1. graph.moves = {[n |-> n, detail |-> "initial"] : n \in 1..OpenMoves}
      BY DEF Init
    <3>2. Serials(graph.moves) = 1..OpenMoves
      <4>1. \A n \in 1..OpenMoves : n \in Serials(graph.moves)
        <5> SUFFICES ASSUME NEW n \in 1..OpenMoves
                     PROVE  n \in Serials(graph.moves)
          OBVIOUS
        <5>1. [n |-> n, detail |-> "initial"] \in graph.moves
          BY <3>1
        <5>2. QED
          BY <5>1 DEF Serials
      <4>2. \A n \in Serials(graph.moves) : n \in 1..OpenMoves
        BY <3>1 DEF Serials
      <4>3. QED
        BY <4>1, <4>2
    <3>3. OpenMoves \in Nat
      BY CycleAssumption
    <3>4. \E n \in (1..OpenMoves) \cup {0} : \A m \in 1..OpenMoves : m <= n
      <4>1. OpenMoves \in (1..OpenMoves) \cup {0} /\ \A m \in 1..OpenMoves : m <= OpenMoves
        BY <3>3
      <4>2. QED
        BY <4>1
    <3>5. QED
      BY <3>2, <3>3, <3>4 DEF Numbered
  <2>3. QED
    BY <2>1, <2>2 DEF Init, Shaped
<1>2. ShapesOK
  <2>1. view = [v \in Views |-> view[v]] /\ \A v \in Views : view[v] = graph
    BY DEF Init
  <2>2. worker = [w \in Workers |-> worker[w]]
    BY DEF Init
  <2>3. journal \in Seq({})
    BY DEF Init
  <2>4. QED
    BY <1>1, <2>1, <2>2, <2>3 DEF ShapesOK
<1>3. \A w \in Workers : CycleOK(w, worker[w])
  BY DEF Init, Idle, CycleOK, StageOK, RunIsKnown, ProposalHolds, DueIsCommitted, Current,
         HasSeen, HasProposal
<1>4. ReviewsAreMinted
  BY DEF Init, ReviewsAreMinted, Serials
<1>5. QED
  BY <1>2, <1>3, <1>4 DEF Init, CycleInv, ViewsAreCommitted

\* What holds of a cycle goes on holding while the journal and committed state
\* stand, and its view, if it is current.
LEMMA CycleStands ==
  ASSUME UNCHANGED <<journal, graph>>, NEW w, NEW c, CycleOK(w, c),
         view[ViewOf[w]] = graph => view'[ViewOf[w]] = graph
  PROVE  CycleOK(w, c)'
<1>1. HeadRevision' = HeadRevision /\ (NothingNamed' <=> NothingNamed)
  BY DEF HeadRevision, NothingNamed
<1>2. (Current(c)' <=> Current(c)) /\ (Minted(c.proposal)' <=> Minted(c.proposal))
  BY <1>1 DEF Current, Minted
<1>3. StageOK(c)' /\ RunIsKnown(c)' /\ DueIsCommitted(c)'
  BY <1>1, <1>2 DEF CycleOK, StageOK, RunIsKnown, DueIsCommitted, Contains
<1>4. ProposalHolds(c)'
  BY <1>2 DEF CycleOK, ProposalHolds
<1>5. QED
  BY <1>2, <1>3, <1>4 DEF CycleOK

\* A step that changes one worker's stage only.
LEMMA StageStep ==
  ASSUME CycleInv, UNCHANGED <<journal, graph, view>>,
         NEW w \in Workers, NEW c, Goto(w, c), CycleOK(w, c)
  PROVE  CycleInv'
<1>1. ShapesOK'
  BY DEF CycleInv, ShapesOK, Goto, Shaped
<1>2. ViewsAreCommitted' /\ ReviewsAreMinted'
  BY DEF CycleInv, ViewsAreCommitted, ReviewsAreMinted, NothingNamed
<1>3. ASSUME NEW u \in Workers
      PROVE  CycleOK(u, worker[u])'
  <2>1. CycleOK(u, worker'[u])
    BY DEF CycleInv, ShapesOK, Goto
  <2>2. QED
    BY <2>1, CycleStands
<1>4. QED
  BY <1>1, <1>2, <1>3 DEF CycleInv

\* A stage that neither remembers the view nor carries a proposal.
LEMMA PlainStage ==
  ASSUME NEW w, NEW c, c.at \notin {"working", "proposed", "validated", "bridging", "committed"},
         c.at \in {"ranked", "leased"} => c.class \in Classes
  PROVE  CycleOK(w, c)
BY DEF CycleOK, StageOK, RunIsKnown, ProposalHolds, DueIsCommitted, Current, HasSeen, HasProposal

LEMMA AfterCommitIsPlain ==
  ASSUME NEW w, NEW c
  PROVE  CycleOK(w, AfterCommit(c)) /\ CycleOK(w, Idle)
BY PlainStage DEF AfterCommit, Idle

\* Seen(v) is the head exactly when view v is committed state.
LEMMA SeenFacts ==
  ASSUME CycleInv, NEW v \in Views
  PROVE  /\ HeadRevision \in Nat
         /\ Seen(v) \in (0..HeadRevision) \cup {None}
         /\ Seen(v) = HeadRevision => view[v] = graph
<1>1. HeadRevision \in Nat
  BY DEF CycleInv, ShapesOK, HeadRevision
<1>2. None \notin Nat
  BY CycleAssumption
<1>3. QED
  BY <1>1, <1>2 DEF Seen

LEMMA CompileHolds ==
  ASSUME CycleInv, NEW w \in Workers, Compile(w)
  PROVE  CycleInv'
<1> DEFINE c == worker[w]
           v == view[ViewOf[w]]
           run == IF c.class # "formal-atp" THEN None
                  ELSE IF c.grant.scope \in Decls THEN NextSerial(v.runs)
                  ELSE c.grant.scope[2]
           d == [at |-> "working", class |-> c.class, base |-> c.base,
                 grant |-> c.grant, seen |-> Seen(ViewOf[w]), run |-> run]
<1>1. ViewOf[w] \in Views
  BY CycleAssumption
<1>2. /\ c.at = "leased" /\ Goto(w, d) /\ UNCHANGED <<journal, graph, view>>
      /\ c.class = "formal-atp" => c.grant.scope \in FormalTargets(v)
  BY DEF Compile
<1>3. Shaped(v) /\ c.class \in Classes /\ Classes \subseteq {"critic", "formal-atp", "llm-research"}
  BY <1>1, <1>2, CycleAssumption DEF CycleInv, ShapesOK, CycleOK, StageOK
<1>4. c.class = "formal-atp" =>
        /\ run \in Nat
        /\ IF c.grant.scope \in Decls THEN run \notin Serials(v.runs) ELSE run \in Serials(v.runs)
  <2> SUFFICES ASSUME c.class = "formal-atp"
               PROVE  /\ run \in Nat
                      /\ IF c.grant.scope \in Decls THEN run \notin Serials(v.runs)
                         ELSE run \in Serials(v.runs)
    OBVIOUS
  <2>1. CASE c.grant.scope \in Decls
    <3>1. run = NextSerial(v.runs)
      BY <2>1
    <3>2. Numbered(v.runs)
      BY <1>3 DEF Shaped
    <3> HIDE DEF run
    <3>3. QED
      BY <2>1, <3>1, <3>2, NextSerialIsNew
  <2>2. CASE c.grant.scope \notin Decls
    <3>1. PICK n \in Serials(v.runs) : c.grant.scope = RunId(n)
      BY <1>2, <2>2 DEF FormalTargets
    <3>2. run = n
      BY <2>2, <3>1 DEF RunId
    <3>3. Serials(v.runs) \subseteq Nat
      BY <1>3 DEF Shaped, Numbered
    <3> HIDE DEF run
    <3>4. QED
      BY <2>2, <3>1, <3>2, <3>3
  <2>3. QED
    BY <2>1, <2>2
<1> HIDE DEF run
<1>5. /\ d.at = "working" /\ d.class = c.class /\ d.seen = Seen(ViewOf[w])
      /\ d.run = run /\ d.grant = c.grant
  OBVIOUS
<1> HIDE DEF d, c, v
<1>6. CycleOK(w, d)
  <2>1. StageOK(d)
    BY <1>1, <1>3, <1>4, <1>5, SeenFacts DEF StageOK, HasSeen, HasProposal
  <2>2. Current(d) => v = graph
    BY <1>1, <1>5, SeenFacts DEF Current, v
  <2>3. RunIsKnown(d)
    BY <1>4, <1>5, <2>2 DEF RunIsKnown
  <2>4. ProposalHolds(d) /\ DueIsCommitted(d)
    BY <1>5 DEF ProposalHolds, DueIsCommitted, HasProposal
  <2>5. QED
    BY <2>1, <2>2, <2>3, <2>4 DEF CycleOK, v
<1>7. QED
  BY <1>2, <1>6, StageStep

\* An id is the minted one unless the result named it.
LEMMA IdFacts ==
  ASSUME NEW minted \in Nat, NEW id \in Ids(minted)
  PROVE  id[1] \in Nat /\ (id[2] = TRUE \/ (id[1] = minted /\ id[2] = FALSE))
<1>1. CASE id = <<minted, FALSE>>
  BY <1>1
<1>2. CASE id \in NamedIds \X {TRUE}
  BY <1>2, CycleAssumption
<1>3. QED
  BY <1>1, <1>2 DEF Ids

LEMMA ProposeHolds ==
  ASSUME CycleInv, NEW w \in Workers, Propose(w)
  PROVE  CycleInv'
<1> DEFINE c == worker[w]
           v == view[ViewOf[w]]
<1>1. PICK p \in ResultOps(w) :
        Goto(w, [at |-> "proposed", class |-> c.class, base |-> c.base,
                 grant |-> c.grant, seen |-> c.seen, proposal |-> p])
  BY DEF Propose
<1> DEFINE d == [at |-> "proposed", class |-> c.class, base |-> c.base,
                 grant |-> c.grant, seen |-> c.seen, proposal |-> p]
<1>2. c.at = "working" /\ UNCHANGED <<journal, graph, view>>
  BY DEF Propose
<1>3. ViewOf[w] \in Views /\ CycleOK(w, c) /\ Shaped(v)
  BY CycleAssumption DEF CycleInv, ShapesOK
<1>4. c.class \in {"critic", "formal-atp", "llm-research"}
  BY <1>2, <1>3, CycleAssumption DEF CycleOK, StageOK
<1>5. Current(d) <=> Current(c)
  BY <1>2 DEF Current, HasSeen
<1>6. Known(p) /\ (Current(c) /\ Minted(p) => Creates(v, p))
  <2>1. CASE c.class = "critic"
    <3>1. PICK verdict \in Verdicts, id \in Ids(NextSerial(v.attempts)) :
            p = [kind |-> "verdict", n |-> NextSerial(v.attempts), about |-> c.grant.scope,
                 verdict |-> verdict, edge |-> id[1], named |-> id[2]]
      BY <1>1, <2>1 DEF ResultOps
    <3>2. /\ p.kind = "verdict" /\ p.n = NextSerial(v.attempts)
          /\ p.edge = id[1] /\ p.named = id[2]
      BY <3>1
    <3>3. p.n \in Nat /\ p.n \notin Serials(v.attempts)
      BY <1>3, <3>2, NextSerialIsNew DEF Shaped
    <3>4. p.edge \in Nat /\ (NamesReview(p) \/ p.edge = p.n)
      BY <3>2, <3>3, IdFacts DEF NamesReview
    <3>5. ASSUME Current(c), Minted(p)
          PROVE  Creates(v, p)
      <4>1. v = graph /\ ReviewsAreMinted
        BY <1>3, <3>5 DEF CycleOK, CycleInv
      <4>2. Serials(v.reviews) \subseteq Serials(v.attempts) /\ p.edge = p.n
        BY <3>4, <3>5, <4>1 DEF ReviewsAreMinted, Minted, NamesId
      <4>3. QED
        BY <3>2, <3>3, <4>2 DEF Creates
    <3>6. QED
      BY <3>2, <3>3, <3>4, <3>5 DEF Known
  <2>2. CASE c.class = "llm-research"
    <3>1. PICK id \in Ids(NextSerial(v.moves)) :
            p = [kind |-> "move", n |-> id[1], detail |-> w, named |-> id[2]]
      BY <1>1, <2>2 DEF ResultOps
    <3>2. p.kind = "move" /\ p.n = id[1] /\ p.named = id[2]
      BY <3>1
    <3>3. NextSerial(v.moves) \in Nat /\ NextSerial(v.moves) \notin Serials(v.moves)
      BY <1>3, NextSerialIsNew DEF Shaped
    <3>4. p.n \in Nat /\ (NamesId(p) \/ p.n \notin Serials(v.moves))
      BY <3>2, <3>3, IdFacts DEF NamesId
    <3>5. QED
      BY <3>2, <3>4 DEF Known, Creates, Minted
  <2>3. CASE c.class = "formal-atp"
    <3> DEFINE prior == IF c.run \in Serials(v.runs) THEN RunOf(v, c.run).status ELSE None
               decl == IF c.grant.scope \in Decls THEN c.grant.scope ELSE RunOf(v, c.run).decl
    <3>1. PICK status \in RunStatuses :
            p = [kind |-> "run", n |-> c.run, decl |-> decl, status |-> status, prior |-> prior]
      BY <1>1, <2>3 DEF ResultOps
    <3>2. p.kind = "run" /\ p.n = c.run /\ p.decl = decl /\ p.status \in RunStatuses
          /\ p.prior = prior
      BY <3>1
    <3>3. c.run \in Nat
      BY <1>2, <1>3, <2>3 DEF CycleOK, StageOK
    <3>4. ASSUME Current(c)
          PROVE  Creates(v, p)
      <4>1. v = graph
        BY <1>3, <3>4 DEF CycleOK
      <4>2. IF c.grant.scope \in Decls THEN c.run \notin Serials(v.runs)
            ELSE c.run \in Serials(v.runs)
        BY <1>2, <1>3, <2>3, <3>4, <4>1 DEF CycleOK, RunIsKnown
      <4>3. CASE c.grant.scope \in Decls
        BY <3>2, <4>2, <4>3 DEF Creates, Starts
      <4>4. CASE c.grant.scope \notin Decls
        <5>1. RunOf(v, c.run) \in v.runs /\ RunOf(v, c.run).n = c.run
          BY <4>2, <4>4 DEF RunOf, Serials
        <5>2. RunOf(v, c.run).status \in RunStatuses
          BY <1>3, <5>1 DEF Shaped
        <5>3. p.prior # None
          BY <3>2, <4>2, <4>4, <5>2, CycleAssumption
        <5>4. QED
          BY <3>2, <4>2, <4>4, <5>1, <5>3 DEF Creates, Starts
      <4>5. QED
        BY <4>3, <4>4
    <3> HIDE DEF prior, decl
    <3>5. QED
      BY <3>2, <3>3, <3>4 DEF Known
  <2>4. QED
    BY <1>4, <2>1, <2>2, <2>3
<1>7. d.at = "proposed" /\ d.seen = c.seen /\ d.proposal = p
  OBVIOUS
<1>8. Goto(w, d)
  BY <1>1
<1> HIDE DEF d
<1>9. CycleOK(w, d)
  <2>1. StageOK(d)
    BY <1>2, <1>3, <1>6, <1>7 DEF CycleOK, StageOK, HasSeen, HasProposal
  <2>2. RunIsKnown(d) /\ DueIsCommitted(d)
    BY <1>7 DEF RunIsKnown, DueIsCommitted
  <2>3. Current(d) => v = graph
    BY <1>3, <1>5 DEF CycleOK
  <2>4. ProposalHolds(d)
    BY <1>5, <1>6, <1>7, <2>3 DEF ProposalHolds
  <2>5. QED
    BY <2>1, <2>2, <2>3, <2>4 DEF CycleOK
<1>10. QED
  BY <1>2, <1>8, <1>9, StageStep

\* What the gate checked of a current proposal is true of committed state.
LEMMA ValidateHolds ==
  ASSUME CycleInv, NEW w \in Workers, Validate(w)
  PROVE  CycleInv'
<1> DEFINE c == worker[w]
           v == view[ViewOf[w]]
           p == c.proposal
           d == [at |-> "validated", class |-> c.class, base |-> c.base,
                 grant |-> c.grant, seen |-> c.seen, proposal |-> c.proposal]
<1>1. /\ c.at = "proposed" /\ Valid(v, p) /\ Goto(w, d)
      /\ UNCHANGED <<journal, graph, view>>
  BY DEF Validate
<1>2. ViewOf[w] \in Views /\ CycleOK(w, c) /\ Serials(v.runs) \subseteq Serials(graph.runs)
  BY CycleAssumption DEF CycleInv, ShapesOK, ViewsAreCommitted
<1>3. d.at = "validated" /\ d.seen = c.seen /\ d.proposal = p
  OBVIOUS
<1> HIDE DEF d
<1>4. Current(d) <=> Current(c)
  BY <1>1, <1>3 DEF Current, HasSeen
<1>5. Current(d) => v = graph
  BY <1>2, <1>4 DEF CycleOK
<1>6. /\ Promotes(p) => p.about \in Claims /\ v.claim[p.about] = "provisional"
      /\ Advances(p) => p.prior = "searching" /\ p.n \in Serials(v.runs)
  BY <1>1 DEF Valid, WriteIsLegal, Serials
<1>7. Current(d) /\ Minted(p) => Creates(graph, p)
  BY <1>1, <1>2, <1>4 DEF CycleOK, ProposalHolds, HasProposal
<1>8. CycleOK(w, d)
  <2>1. StageOK(d)
    BY <1>1, <1>2, <1>3 DEF CycleOK, StageOK, HasSeen, HasProposal
  <2>2. RunIsKnown(d) /\ DueIsCommitted(d)
    BY <1>3 DEF RunIsKnown, DueIsCommitted
  <2>3. ProposalHolds(d)
    BY <1>2, <1>3, <1>5, <1>6, <1>7 DEF ProposalHolds, OneWay, TakesEffect
  <2>4. QED
    BY <1>5, <2>1, <2>2, <2>3 DEF CycleOK
<1>9. QED
  BY <1>1, <1>8, StageStep

LEMMA RouteBridgeHolds ==
  ASSUME CycleInv, NEW w \in Workers, RouteBridge(w)
  PROVE  CycleInv'
<1> DEFINE v == view[ViewOf[w]]
           p == [kind |-> "move", n |-> NextSerial(v.moves), detail |-> "bridge",
                 named |-> FALSE]
           d == [at |-> "bridging", seen |-> Seen(ViewOf[w]), proposal |-> p]
<1>1. Goto(w, d) /\ UNCHANGED <<journal, graph, view>>
  BY DEF RouteBridge
<1>2. ViewOf[w] \in Views /\ Shaped(v)
  BY CycleAssumption DEF CycleInv, ShapesOK
<1>3. p.n \in Nat /\ p.n \notin Serials(v.moves)
  BY <1>2, NextSerialIsNew DEF Shaped
<1>4. /\ p.kind = "move" /\ d.at = "bridging" /\ d.seen = Seen(ViewOf[w])
      /\ d.proposal = p
  OBVIOUS
<1> HIDE DEF d, p
<1>5. Current(d) => v = graph
  BY <1>2, <1>4, SeenFacts DEF Current
<1>6. CycleOK(w, d)
  <2>1. StageOK(d)
    BY <1>2, <1>3, <1>4, SeenFacts DEF StageOK, HasSeen, HasProposal, Known
  <2>2. RunIsKnown(d) /\ DueIsCommitted(d)
    BY <1>4 DEF RunIsKnown, DueIsCommitted
  <2>3. ProposalHolds(d)
    BY <1>3, <1>4, <1>5 DEF ProposalHolds, Creates
  <2>4. QED
    BY <1>5, <2>1, <2>2, <2>3 DEF CycleOK
<1>7. QED
  BY <1>1, <1>6, StageStep

LEMMA BridgeBaseHolds ==
  ASSUME CycleInv, NEW w \in Workers, BridgeBase(w)
  PROVE  CycleInv'
<1> DEFINE c == worker[w]
           d == [at |-> "proposed", class |-> "follow-up", base |-> HeadRevision,
                 grant |-> Log!NoGrant, seen |-> c.seen, proposal |-> c.proposal]
<1>1. c.at = "bridging" /\ Goto(w, d) /\ UNCHANGED <<journal, graph, view>>
  BY DEF BridgeBase
<1>2. CycleOK(w, c)
  BY DEF CycleInv
<1>3. d.at = "proposed" /\ d.seen = c.seen /\ d.proposal = c.proposal
  OBVIOUS
<1> HIDE DEF d
<1>4. CycleOK(w, d)
  BY <1>1, <1>2, <1>3 DEF CycleOK, StageOK, RunIsKnown, ProposalHolds, DueIsCommitted,
     Current, HasSeen, HasProposal
<1>5. QED
  BY <1>1, <1>4, StageStep

\* A view catches up: what its workers are current with is what it now holds.
LEMMA RebuildHolds ==
  ASSUME CycleInv, NEW v \in Views, Rebuild(v)
  PROVE  CycleInv'
<1>1. view' = [view EXCEPT ![v] = graph] /\ UNCHANGED <<journal, graph, worker>>
  BY DEF Rebuild
<1>2. \A u \in Views : view'[u] = IF u = v THEN graph ELSE view[u]
  BY <1>1 DEF CycleInv, ShapesOK
<1>3. ShapesOK' /\ ViewsAreCommitted' /\ ReviewsAreMinted'
  BY <1>1, <1>2 DEF CycleInv, ShapesOK, ViewsAreCommitted, Shaped, ReviewsAreMinted, NothingNamed
<1>4. ASSUME NEW w \in Workers
      PROVE  CycleOK(w, worker[w])'
  <2>1. CycleOK(w, worker'[w]) /\ ViewOf[w] \in Views
    BY <1>1, CycleAssumption DEF CycleInv
  <2>2. \A u \in Views : view[u] = graph => view'[u] = graph
    BY <1>2
  <2>3. QED
    BY <1>1, <2>1, <2>2, CycleStands
<1>5. QED
  BY <1>3, <1>4 DEF CycleInv

\* Maintenance applies what committed state already holds, so it cannot move a
\* current view.
LEMMA MaintainHolds ==
  ASSUME CycleInv, NEW w \in Workers, Maintain(w)
  PROVE  CycleInv'
<1> DEFINE c == worker[w]
           p == c.proposal
           d == IF c.grant = Log!NoGrant THEN Idle
                ELSE [at |-> "maintained", class |-> c.class, grant |-> c.grant]
<1>1. /\ c.at = "committed" /\ UNCHANGED <<journal, graph>> /\ Goto(w, d)
      /\ view' = [view EXCEPT ![ViewOf[w]] = Applied(@, p)]
  BY DEF Maintain
<1>2. ViewOf[w] \in Views /\ CycleOK(w, c)
  BY CycleAssumption DEF CycleInv
<1>3. Known(p) /\ Contains(graph, p)
  BY <1>1, <1>2 DEF CycleOK, StageOK, DueIsCommitted, HasProposal
<1>4. \A v \in Views : view'[v] = IF v = ViewOf[w] THEN Applied(view[v], p) ELSE view[v]
  BY <1>1, <1>2 DEF CycleInv, ShapesOK
<1>5. \A v \in Views : view[v] = graph => view'[v] = graph
  BY <1>3, <1>4, RepeatedIsIdle DEF CycleInv, ShapesOK
<1>6. \A u \in Workers : worker'[u] = IF u = w THEN d ELSE worker[u]
  BY <1>1 DEF CycleInv, ShapesOK, Goto
<1>7. CycleOK(w, d)
  BY PlainStage, AfterCommitIsPlain
<1> HIDE DEF c, d
<1>8. ShapesOK'
  <2>1. ASSUME NEW v \in Views
        PROVE  Shaped(view'[v])
    BY <1>3, <1>4, AppliedShaped DEF CycleInv, ShapesOK
  <2>2. view' = [v \in Views |-> view'[v]] /\ worker' = [u \in Workers |-> worker'[u]]
    BY <1>1 DEF CycleInv, ShapesOK, Goto
  <2>3. QED
    BY <1>1, <2>1, <2>2 DEF CycleInv, ShapesOK, Shaped
<1>9. ViewsAreCommitted'
  <2> SUFFICES ASSUME NEW v \in Views
               PROVE  Serials(view'[v].runs) \subseteq Serials(graph.runs)
    BY <1>1 DEF ViewsAreCommitted
  <2>1. Serials(view[v].runs) \subseteq Serials(graph.runs) /\ Shaped(view[v])
    BY DEF CycleInv, ViewsAreCommitted, ShapesOK
  <2>2. Starts(p) => p.n \in Serials(graph.runs)
    BY <1>3 DEF Contains
  <2>3. Serials(Applied(view[v], p).runs) =
          IF Starts(p) THEN Serials(view[v].runs) \cup {p.n} ELSE Serials(view[v].runs)
    BY <1>3, <2>1, AppliedSerials
  <2>4. Serials(Applied(view[v], p).runs) \subseteq Serials(graph.runs)
    BY <2>1, <2>2, <2>3
  <2>5. QED
    BY <1>4, <2>1, <2>4
<1>10. ASSUME NEW u \in Workers
       PROVE  CycleOK(u, worker[u])'
  <2>1. CycleOK(u, worker'[u]) /\ ViewOf[u] \in Views
    BY <1>6, <1>7, CycleAssumption DEF CycleInv
  <2>2. QED
    BY <1>1, <1>5, <2>1, CycleStands
<1>11. ReviewsAreMinted'
  BY <1>1 DEF CycleInv, ReviewsAreMinted, NothingNamed
<1>12. QED
  BY <1>8, <1>9, <1>10, <1>11 DEF CycleInv

\* A commit makes every current cycle stale, and keeps what was committed.
LEMMA AppendHolds ==
  ASSUME CycleInv, NEW w \in Workers, AppendAccepted(w)
  PROVE  CycleInv'
<1> DEFINE c == worker[w]
           p == c.proposal
           d == [at |-> "committed", class |-> c.class, grant |-> c.grant, proposal |-> p]
<1>1. /\ c.at = "validated" /\ Goto(w, d) /\ UNCHANGED view
      /\ journal' = Append(journal, [grant |-> c.grant, seen |-> c.seen,
                                     named |-> NamesReview(p)])
      /\ graph' = Applied(graph, p)
  BY DEF AppendAccepted
<1>2. CycleOK(w, c) /\ Shaped(graph)
  BY DEF CycleInv, ShapesOK
<1>3. Known(p) /\ OneWay(p) /\ (Advances(p) => p.n \in Serials(graph.runs))
  BY <1>1, <1>2 DEF CycleOK, StageOK, ProposalHolds, HasProposal
<1>4. Shaped(graph') /\ Contains(graph', p)
  BY <1>1, <1>2, <1>3, AppliedShaped, AppliedIsContained
<1>5. Serials(graph.runs) \subseteq Serials(graph'.runs)
  BY <1>1, <1>2, <1>3, AppliedSerials
<1>6. HeadRevision \in Nat /\ HeadRevision' = HeadRevision + 1
  BY <1>1 DEF CycleInv, ShapesOK, HeadRevision
<1>7. d.at = "committed" /\ d.proposal = p
  OBVIOUS
<1>8. \A u \in Workers : worker'[u] = IF u = w THEN d ELSE worker[u]
  BY <1>1 DEF CycleInv, ShapesOK, Goto
<1>9. worker' = [u \in Workers |-> worker'[u]]
  BY <1>1 DEF CycleInv, ShapesOK, Goto
<1>10. \E Entries : journal' \in Seq(Entries)
  <2>1. PICK Entries : journal \in Seq(Entries)
    BY DEF CycleInv, ShapesOK
  <2> DEFINE new == [grant |-> c.grant, seen |-> c.seen, named |-> NamesReview(p)]
             More == Entries \cup {new}
  <2> HIDE DEF new
  <2>2. journal \in Seq(More)
    BY <2>1, SeqDef
  <2>3. Append(journal, new) \in Seq(More)
    BY <2>2, AppendProperties
  <2>4. QED
    BY <1>1, <2>3 DEF new
<1>15. ReviewsAreMinted'
  <2> SUFFICES ASSUME NothingNamed'
               PROVE  Serials(graph'.reviews) \subseteq Serials(graph'.attempts)
    BY DEF ReviewsAreMinted
  <2>1. NothingNamed /\ ~NamesReview(p)
    <3> DEFINE new == [grant |-> c.grant, seen |-> c.seen, named |-> NamesReview(p)]
    <3>1. journal' = Append(journal, new) /\ new.named = NamesReview(p)
      BY <1>1
    <3>2. PICK Entries : journal \in Seq(Entries)
      BY DEF CycleInv, ShapesOK
    <3> HIDE DEF new
    <3>3. /\ \A i \in DOMAIN journal : i \in DOMAIN journal' /\ journal'[i] = journal[i]
          /\ Len(journal) + 1 \in DOMAIN journal' /\ journal'[Len(journal) + 1] = new
      BY <3>1, <3>2
    <3>4. QED
      BY <3>1, <3>3 DEF NothingNamed
  <2>2. Serials(graph.reviews) \subseteq Serials(graph.attempts)
    BY <2>1 DEF CycleInv, ReviewsAreMinted
  <2>3. p.kind = "verdict" => p.edge = p.n
    BY <1>3, <2>1 DEF Known
  <2>4. QED
    BY <1>1, <1>2, <1>3, <2>2, <2>3, AppliedSerials
<1> HIDE DEF c, d
<1>11. ShapesOK'
  BY <1>1, <1>4, <1>9, <1>10 DEF CycleInv, ShapesOK, Shaped
<1>12. ViewsAreCommitted'
  BY <1>1, <1>5 DEF CycleInv, ViewsAreCommitted
<1>13. ASSUME NEW u \in Workers
       PROVE  CycleOK(u, worker[u])'
  <2>1. CASE u = w
    <3>1. worker'[u] = d
      BY <1>8, <2>1
    <3>2. QED
      BY <1>3, <1>4, <1>7, <3>1 DEF CycleOK, StageOK, RunIsKnown, ProposalHolds,
         DueIsCommitted, Current, HasSeen, HasProposal
  <2>2. CASE u # w
    <3> DEFINE e == worker[u]
    <3>1. e' = e /\ CycleOK(u, e)
      BY <1>8, <2>2 DEF CycleInv
    <3> HIDE DEF e
    <3>2. HasSeen(e) => e.seen \in (0..HeadRevision') \cup {None} /\ e.seen # HeadRevision'
      <4>1. HasSeen(e) => e.seen \in (0..HeadRevision) \cup {None}
        BY <3>1 DEF CycleOK, StageOK
      <4>2. QED
        BY <1>6, <4>1, CycleAssumption
    <3>3. e.at = "committed" => OneWay(e.proposal) /\ Contains(graph', e.proposal)
      BY <1>1, <1>2, <1>3, <3>1, ContainedStays
         DEF CycleOK, DueIsCommitted, StageOK, HasProposal
    <3>4. StageOK(e)'
      BY <3>1, <3>2 DEF CycleOK, StageOK, HasSeen, HasProposal, Known
    <3>5. ~Current(e)'
      BY <3>1, <3>2 DEF Current, HasSeen
    <3>6. ProposalHolds(e)'
      BY <1>5, <3>1, <3>5 DEF CycleOK, ProposalHolds, OneWay, Advances, Promotes
    <3>7. RunIsKnown(e)' /\ DueIsCommitted(e)'
      BY <3>1, <3>3, <3>5 DEF RunIsKnown, DueIsCommitted, OneWay, Advances, Promotes, Contains, Starts
    <3>8. CycleOK(u, e)'
      BY <3>4, <3>5, <3>6, <3>7 DEF CycleOK
    <3>9. QED
      BY <3>8 DEF e
  <2>3. QED
    BY <2>1, <2>2
<1>14. QED
  BY <1>11, <1>12, <1>13, <1>15 DEF CycleInv

\* Steps that only end a stage, and lapses.
LEMMA PlainStepHolds ==
  ASSUME CycleInv, NEW w \in Workers,
         \/ \E class \in Classes : RankFrontier(w, class)
         \/ LeaseNext(w) \/ LeaseNone(w) \/ CompileRaises(w) \/ Reject(w)
         \/ AppendRefused(w) \/ Release(w) \/ KeepLease(w) \/ RouteNothing(w) \/ Abandon(w)
  PROVE  CycleInv'
<1>1. UNCHANGED <<journal, graph, view>>
  BY DEF RankFrontier, LeaseNext, LeaseNone, CompileRaises, Reject, AppendRefused, Release,
         KeepLease, RouteNothing, Abandon
<1>2. CASE \E class \in Classes : RankFrontier(w, class)
  <2>1. PICK class \in Classes : RankFrontier(w, class)
    BY <1>2
  <2>2. PICK ranked : Goto(w, [at |-> "ranked", class |-> class, moves |-> ranked])
    BY <2>1 DEF RankFrontier
  <2>3. CycleOK(w, [at |-> "ranked", class |-> class, moves |-> ranked])
    BY PlainStage
  <2>4. QED
    BY <1>1, <2>2, <2>3, StageStep
<1>3. CASE LeaseNext(w)
  <2> DEFINE d(m) == [at |-> "leased", class |-> worker[w].class, base |-> HeadRevision,
                      grant |-> [token |-> top + 1, scope |-> m]]
  <2>1. PICK m : Goto(w, d(m))
    BY <1>3 DEF LeaseNext
  <2>2. worker[w].class \in Classes
    BY <1>3 DEF LeaseNext, CycleInv, CycleOK, StageOK
  <2>3. CycleOK(w, d(m))
    BY <2>2, PlainStage
  <2>4. QED
    BY <1>1, <2>1, <2>3, StageStep
<1>4. CASE \/ LeaseNone(w) \/ CompileRaises(w) \/ RouteNothing(w) \/ Abandon(w)
  <2>1. Goto(w, Idle)
    BY <1>4 DEF LeaseNone, CompileRaises, RouteNothing, Abandon
  <2>2. QED
    BY <1>1, <2>1, AfterCommitIsPlain, StageStep
<1>5. CASE Reject(w) \/ AppendRefused(w) \/ Release(w) \/ KeepLease(w)
  <2>1. Goto(w, AfterCommit(worker[w]))
    BY <1>5 DEF Reject, AppendRefused, Release, KeepLease
  <2>2. QED
    BY <1>1, <2>1, AfterCommitIsPlain, StageStep
<1>6. QED
  BY <1>2, <1>3, <1>4, <1>5

\* A step that touches neither the journal, nor a graph, nor a worker.
LEMMA IdleStepHolds ==
  ASSUME CycleInv, UNCHANGED <<journal, graph, view, worker>>
  PROVE  CycleInv'
<1>1. ShapesOK' /\ ViewsAreCommitted' /\ ReviewsAreMinted'
  BY DEF CycleInv, ShapesOK, ViewsAreCommitted, Shaped, ReviewsAreMinted, NothingNamed
<1>2. ASSUME NEW w \in Workers
      PROVE  CycleOK(w, worker[w])'
  <2>1. CycleOK(w, worker'[w])
    BY DEF CycleInv
  <2>2. QED
    BY <2>1, CycleStands
<1>3. QED
  BY <1>1, <1>2 DEF CycleInv

LEMMA StepHolds ==
  CycleInv /\ [Next]_vars => CycleInv'
<1> SUFFICES ASSUME CycleInv, [Next]_vars
             PROVE  CycleInv'
  OBVIOUS
<1>1. ASSUME NEW w \in Workers, Step(w)
      PROVE  CycleInv'
  BY <1>1, CompileHolds, ProposeHolds, ValidateHolds, AppendHolds, MaintainHolds,
     RouteBridgeHolds, BridgeBaseHolds, PlainStepHolds DEF Step
<1>2. ASSUME NEW w \in Workers, Abandon(w)
      PROVE  CycleInv'
  BY <1>2, PlainStepHolds
<1>3. ASSUME NEW v \in Views, Rebuild(v)
      PROVE  CycleInv'
  BY <1>3, RebuildHolds
<1>4. CASE Lapse \/ UNCHANGED vars
  BY <1>4, IdleStepHolds DEF Lapse, vars
<1>5. QED
  BY <1>1, <1>2, <1>3, <1>4 DEF Next

\* What a current cycle read is still true of committed state, at every stage.
THEOREM CycleInvHolds ==
  Spec => []CycleInv
<1>1. Init => CycleInv
  BY InitHolds
<1>2. CycleInv /\ [Next]_vars => CycleInv'
  BY StepHolds
<1>3. QED
  BY <1>1, <1>2, PTL DEF Spec

\* Only append moves a worker from validated to committed, and only at its base.
LEMMA CommitsAtBase ==
  ASSUME CycleInv, NEW w \in Workers, Next, Commits(w)
  PROVE  worker[w].base = HeadRevision
<1>1. worker = [u \in Workers |-> worker[u]]
  BY DEF CycleInv, ShapesOK
<1>2. PICK u \in Workers : Step(u) \/ Abandon(u)
  BY DEF Commits, Next, Rebuild, Lapse
<1>3. PICK c : Goto(u, c)
  BY <1>2 DEF Step, Abandon, RankFrontier, LeaseNext, LeaseNone, Compile, CompileRaises,
     Propose, Validate, Reject, AppendAccepted, AppendRefused, Maintain, Release, KeepLease,
     RouteNothing, RouteBridge, BridgeBase
<1>4. u = w /\ worker[w].at = "validated" /\ worker'[w].at = "committed"
  BY <1>1, <1>3 DEF Goto, Commits
<1>5. ~Goto(w, Idle) /\ ~Goto(w, AfterCommit(worker[w]))
  BY <1>1, <1>4 DEF Goto, AfterCommit, Idle
<1>6. AppendAccepted(w)
  <2>1. ~\E class \in Classes : RankFrontier(w, class)
    <3>1. worker[w] # Idle
      BY <1>4 DEF Idle
    <3>2. QED
      BY <3>1 DEF RankFrontier
  <2>2. ~(AppendRefused(w) \/ Abandon(w))
    BY <1>5 DEF AppendRefused, Abandon
  <2>3. ~(LeaseNext(w) \/ LeaseNone(w) \/ Compile(w) \/ CompileRaises(w) \/ Propose(w))
    BY <1>4 DEF LeaseNext, LeaseNone, Compile, CompileRaises, Propose
  <2>4. ~(Validate(w) \/ Reject(w) \/ Maintain(w) \/ Release(w) \/ KeepLease(w))
    BY <1>4 DEF Validate, Reject, Maintain, Release, KeepLease
  <2>5. ~(RouteNothing(w) \/ RouteBridge(w) \/ BridgeBase(w))
    BY <1>4 DEF RouteNothing, RouteBridge, BridgeBase
  <2>6. QED
    BY <1>2, <1>4, <2>1, <2>2, <2>3, <2>4, <2>5 DEF Step
<1>7. QED
  BY <1>6 DEF AppendAccepted, BaseIsHead

\* A proposal whose cycle first read the view when it held everything up to the
\* proposal's base revision takes effect when it commits, when its ids are
\* minted: the compare-and-set of append (store.py) protects what the gate
\* validated without a lock.
THEOREM CurrentProposalsTakeEffect ==
  Spec => CurrentCyclesTakeEffect
<1> DEFINE A == \A w \in Workers :
                  /\ Commits(w) /\ worker[w].seen = worker[w].base
                  /\ NothingNamed /\ ~NamesId(worker[w].proposal)
                  => TakesEffect(graph, worker[w].proposal)
<1>1. CycleInv /\ [Next]_vars => [A]_vars
  <2> SUFFICES ASSUME CycleInv, Next, NEW w \in Workers, Commits(w),
                      worker[w].seen = worker[w].base,
                      NothingNamed, ~NamesId(worker[w].proposal)
               PROVE  TakesEffect(graph, worker[w].proposal)
    OBVIOUS
  <2>1. worker[w].at = "validated" /\ worker[w].seen = HeadRevision
    BY CommitsAtBase DEF Commits
  <2>2. QED
    BY <2>1 DEF CycleInv, CycleOK, ProposalHolds, Current, HasSeen, Minted
<1>2. QED
  BY <1>1, CycleInvHolds, PTL DEF Spec, CurrentCyclesTakeEffect
=============================================================================
