------------------------- MODULE JournalStoreProofs -------------------------
(***************************************************************************)
(* The safety of JournalStore for every set of moves, processes, external  *)
(* ids and times to live, and every bound.                                 *)
(*                                                                         *)
(* A step of the store changes the lease table in one of two ways: some    *)
(* active rows end (Ended), or, after some rows ended, one row is written  *)
(* with a token above every token so far (NewLease).  The invariant is     *)
(* preserved by each of the two, and the actions are shown to be one or    *)
(* the other.                                                              *)
(*                                                                         *)
(* Seen through the mapping of JournalRefinement a step of the store is one *)
(* of four: leases end, one lease is granted, a proposal without a lease is *)
(* committed, or one with a lease that is still active after the lapse.     *)
(***************************************************************************)
EXTENDS JournalRefinement, TLAPS

\* Some row carries the largest token, so MAX(fencing_token) exists.
TokenBound ==
  \E top \in Nat :
    /\ top = 0 \/ \E l \in DOMAIN leases : leases[l].token = top
    /\ \A l \in DOMAIN leases : leases[l].token <= top

\* A proof-level lease is older than every lease active beside it.
WindowIsOldest ==
  \A a, b \in DOMAIN leases :
    Active(a) /\ Active(b) /\ leases[a].move = WholeProof
      => leases[a].token <= leases[b].token

\* Does a revision committed under move m fence leases on move n?
FencesMove(m, n) == m = WholeProof \/ (m \in Moves /\ m = n)

\* No active lease is older than a journalled revision that fences its move.
NoActiveStraggler ==
  \A i \in DOMAIN journal, id \in DOMAIN leases :
    journal[i].token # None /\ Active(id)
      /\ FencesMove(journal[i].move, leases[id].move)
      => journal[i].token <= leases[id].token

\* Journalled tokens were issued: the table still holds a token as large.
JournalTokensIssued ==
  \A i \in DOMAIN journal :
    journal[i].token # None
      => \E id \in DOMAIN leases : journal[i].token <= leases[id].token

-----------------------------------------------------------------------------
(* The largest token.                                                       *)

\* MAX(fencing_token) is a natural number no row's token exceeds.
LEMMA TopTokenIsMax ==
  ASSUME TypeOK, TokenBound
  PROVE  /\ TopToken \in Nat
         /\ \A l \in DOMAIN leases : leases[l].token \in Nat /\ leases[l].token <= TopToken
<1> DEFINE tokens == {leases[l].token : l \in DOMAIN leases} \cup {0}
<1>1. \A l \in DOMAIN leases : leases[l].token \in Nat
  BY DEF TypeOK, LeaseRow
<1>2. PICK top \in Nat :
        /\ top = 0 \/ \E l \in DOMAIN leases : leases[l].token = top
        /\ \A l \in DOMAIN leases : leases[l].token <= top
  BY DEF TokenBound
<1>3. top \in tokens /\ \A u \in tokens : u <= top
  BY <1>1, <1>2
<1>4. TopToken \in tokens /\ \A u \in tokens : u <= TopToken
  BY <1>3 DEF TopToken
<1>5. QED
  BY <1>1, <1>4

-----------------------------------------------------------------------------
(* The two ways the table changes.                                          *)

\* `rows` is the table after some active rows ended: nothing else changed.
Ended(rows) ==
  /\ DOMAIN rows = DOMAIN leases
  /\ rows \in [DOMAIN leases -> LeaseRow]
  /\ \A l \in DOMAIN leases :
       /\ rows[l].move = leases[l].move
       /\ rows[l].token = leases[l].token
       /\ rows[l].status = "active" => leases[l].status = "active"

\* A statement that gives some rows a final status ends leases.
LEMMA MarkedEnds ==
  ASSUME NEW rows, Ended(rows), NEW S, NEW status \in Statuses \ {"active"}
  PROVE  Ended(Marked(rows, S, status))
BY DEF Ended, Marked, LeaseRow

\* The lazy lapse ends leases.
LEMMA LapseEnds ==
  ASSUME TypeOK
  PROVE  Ended(Lapsed)
<1>1. Ended(leases)
  BY DEF Ended, TypeOK
<1>2. QED
  BY <1>1, MarkedEnds DEF Lapsed, Statuses

\* The table with `id` holding a new lease of `move`: the leases that conflict
\* with it, other than the row it overwrites, have ended first.
NewLease(id, move) ==
  \E rows, expires :
    /\ Ended(rows)
    /\ expires \in Nat \cup {Never}
    /\ \A l \in DOMAIN rows \ {id} :
         rows[l].status = "active" /\ FencesMove(move, rows[l].move) => FALSE
    /\ leases' = Upserted(rows, id, NewRow(move, NextToken, expires))

-----------------------------------------------------------------------------
(* Both kinds of change preserve the invariant while the journal stands.    *)

\* What the inductive invariant says of the lease table and the journal.
TableInv ==
  /\ TokenBound
  /\ TokensUnique
  /\ MoveExclusive
  /\ WindowIsOldest
  /\ JournalTokensIssued
  /\ NoActiveStraggler
  /\ FencedOrder

\* Ending leases preserves every relation among tokens, moves and revisions.
LEMMA EndedPreserves ==
  ASSUME TypeOK, TableInv, Ended(leases'), UNCHANGED journal
  PROVE  TableInv'
<1>1. /\ DOMAIN leases' = DOMAIN leases
      /\ \A l \in DOMAIN leases :
           /\ leases'[l].move = leases[l].move
           /\ leases'[l].token = leases[l].token
           /\ Active(l)' => Active(l)
  BY DEF Ended, Active
<1>2. TokenBound'
  BY <1>1 DEF TableInv, TokenBound
<1>3. TokensUnique'
  BY <1>1 DEF TableInv, TokensUnique
<1>4. MoveExclusive'
  BY <1>1 DEF TableInv, MoveExclusive
<1>5. WindowIsOldest'
  BY <1>1 DEF TableInv, WindowIsOldest
<1>6. NoActiveStraggler' /\ JournalTokensIssued'
  BY <1>1 DEF TableInv, NoActiveStraggler, JournalTokensIssued
<1>7. FencedOrder'
  BY DEF TableInv, FencedOrder
<1>8. QED
  BY <1>2, <1>3, <1>4, <1>5, <1>6, <1>7 DEF TableInv

\* What one new lease does to the table: its row is active with the next token,
\* and every other row has ended or is older, active and not in conflict.
LEMMA NewLeaseFacts ==
  ASSUME TypeOK, TokenBound, NEW id \in LeaseIds, NEW move \in Scopes,
         NewLease(id, move)
  PROVE  /\ DOMAIN leases' = DOMAIN leases \cup {id}
         /\ leases' \in [DOMAIN leases' -> LeaseRow]
         /\ leases'[id].move = move
         /\ leases'[id].token = NextToken
         /\ leases'[id].status = "active"
         /\ \A l \in DOMAIN leases' \ {id} :
              /\ l \in DOMAIN leases
              /\ leases'[l].move = leases[l].move
              /\ leases'[l].token = leases[l].token
              /\ Active(l)' => Active(l) /\ ~FencesMove(move, leases[l].move)
<1>1. PICK rows, expires :
        /\ Ended(rows)
        /\ expires \in Nat \cup {Never}
        /\ \A l \in DOMAIN rows \ {id} :
             rows[l].status = "active" /\ FencesMove(move, rows[l].move) => FALSE
        /\ leases' = Upserted(rows, id, NewRow(move, NextToken, expires))
  BY DEF NewLease
<1>2. NextToken \in Nat
  BY TopTokenIsMax DEF NextToken
<1>3. NewRow(move, NextToken, expires) \in LeaseRow
  BY <1>1, <1>2 DEF NewRow, LeaseRow, Statuses
<1>4. DOMAIN leases' = DOMAIN leases \cup {id}
  BY <1>1 DEF Upserted, Ended
<1>5. leases' \in [DOMAIN leases' -> LeaseRow]
  BY <1>1, <1>3 DEF Upserted, Ended
<1>6. leases'[id] = NewRow(move, NextToken, expires)
  BY <1>1 DEF Upserted
<1>7. \A l \in DOMAIN leases' \ {id} : l \in DOMAIN leases /\ leases'[l] = rows[l]
  BY <1>1 DEF Upserted, Ended
<1>8. QED
  BY <1>1, <1>4, <1>5, <1>6, <1>7 DEF NewRow, Ended, Active

\* A new lease preserves them too, because its token is above all others and
\* the leases it conflicts with are over.
LEMMA NewLeasePreserves ==
  ASSUME TypeOK, TableInv, NEW id \in LeaseIds, NEW move \in Scopes,
         NewLease(id, move), UNCHANGED journal
  PROVE  TableInv'
<1>1. TokenBound
  BY DEF TableInv
<1>2. /\ DOMAIN leases' = DOMAIN leases \cup {id}
      /\ leases'[id].move = move
      /\ leases'[id].token = NextToken
      /\ leases'[id].status = "active"
      /\ \A l \in DOMAIN leases' \ {id} :
           /\ l \in DOMAIN leases
           /\ leases'[l].move = leases[l].move
           /\ leases'[l].token = leases[l].token
           /\ Active(l)' => Active(l) /\ ~FencesMove(move, leases[l].move)
  BY <1>1, NewLeaseFacts
<1>3. /\ NextToken \in Nat
      /\ \A l \in DOMAIN leases : leases[l].token \in Nat /\ leases[l].token < NextToken
  BY <1>1, TopTokenIsMax DEF NextToken
<1>4. TokenBound'
  BY <1>2, <1>3 DEF TokenBound
<1>5. TokensUnique'
  BY <1>2, <1>3 DEF TableInv, TokensUnique
<1>6. MoveExclusive'
  BY <1>2 DEF TableInv, MoveExclusive, FencesMove, Active
<1>7. WindowIsOldest'
  BY <1>2, <1>3 DEF TableInv, WindowIsOldest, FencesMove, Active
<1>8. NoActiveStraggler' /\ JournalTokensIssued'
  <2>1. \A i \in DOMAIN journal :
          journal[i].token # None => journal[i].token \in Nat /\ journal[i].token < NextToken
    <3> SUFFICES ASSUME NEW i \in DOMAIN journal, journal[i].token # None
                 PROVE  journal[i].token \in Nat /\ journal[i].token < NextToken
      OBVIOUS
    <3>1. journal[i].token \in Nat
      <4>1. journal[i] \in Entry
        BY DEF TypeOK
      <4>2. QED
        BY <4>1 DEF Entry
    <3>2. PICK l \in DOMAIN leases : journal[i].token <= leases[l].token
      BY DEF TableInv, JournalTokensIssued
    <3>3. QED
      BY <1>3, <3>1, <3>2
  <2>2. NoActiveStraggler'
    BY <1>2, <1>3, <2>1 DEF TableInv, NoActiveStraggler
  <2>3. JournalTokensIssued'
    BY <1>2, <1>3, <2>1 DEF TableInv, JournalTokensIssued
  <2>4. QED
    BY <2>2, <2>3
<1>9. FencedOrder'
  BY DEF TableInv, FencedOrder
<1>10. QED
  BY <1>4, <1>5, <1>6, <1>7, <1>8, <1>9 DEF TableInv

\* A commit preserves them: its token is that of a lease still active once due
\* leases have lapsed, and no older revision fences that lease's move.
LEMMA CommitPreserves ==
  ASSUME TypeOK, TableInv, Ended(leases'),
         NEW e \in Entry, journal' = Append(journal, e),
         e.token # None =>
           \E id \in DOMAIN leases : /\ Active(id)'
                                     /\ e.token = leases[id].token
                                     /\ e.move = leases[id].move
  PROVE  TableInv'
<1>1. /\ DOMAIN leases' = DOMAIN leases
      /\ \A l \in DOMAIN leases :
           /\ leases'[l].move = leases[l].move
           /\ leases'[l].token = leases[l].token
           /\ leases[l].token \in Nat
           /\ Active(l)' => Active(l)
  BY DEF Ended, Active, TypeOK, LeaseRow
<1>2. /\ DOMAIN journal' = DOMAIN journal \cup {Len(journal) + 1}
      /\ \A i \in DOMAIN journal : journal'[i] = journal[i] /\ i < Len(journal) + 1
      /\ journal'[Len(journal) + 1] = e
  BY DEF TypeOK
<1>3. TokenBound' /\ TokensUnique' /\ MoveExclusive' /\ WindowIsOldest'
  BY <1>1 DEF TableInv, TokenBound, TokensUnique, MoveExclusive, WindowIsOldest
<1>4. JournalTokensIssued'
  BY <1>1, <1>2 DEF TableInv, JournalTokensIssued
<1>5. NoActiveStraggler'
  <2> SUFFICES ASSUME NEW i \in DOMAIN journal', NEW id \in DOMAIN leases',
                      journal'[i].token # None, Active(id)',
                      FencesMove(journal'[i].move, leases'[id].move)
               PROVE  journal'[i].token <= leases'[id].token
    BY DEF NoActiveStraggler
  <2>1. CASE i \in DOMAIN journal
    BY <2>1, <1>1, <1>2 DEF TableInv, NoActiveStraggler
  <2>2. CASE i = Len(journal) + 1
    <3>1. PICK own \in DOMAIN leases :
            Active(own)' /\ e.token = leases[own].token /\ e.move = leases[own].move
      BY <2>2, <1>2
    <3>2. CASE e.move = WholeProof
      BY <2>2, <1>1, <1>2, <3>1, <3>2 DEF TableInv, WindowIsOldest
    <3>3. CASE e.move \in Moves /\ e.move = leases[id].move
      <4>1. own = id
        BY <1>1, <3>1, <3>3 DEF TableInv, MoveExclusive
      <4>2. QED
        BY <4>1, <2>2, <1>1, <1>2, <3>1
    <3>4. QED
      BY <2>2, <1>1, <1>2, <3>2, <3>3 DEF FencesMove
  <2>3. QED
    BY <1>2, <2>1, <2>2
<1>6. FencedOrder'
  <2> SUFFICES ASSUME NEW i \in DOMAIN journal', NEW j \in DOMAIN journal', i < j,
                      journal'[i].token # None, journal'[j].token # None,
                      FencesMove(journal'[i].move, journal'[j].move)
               PROVE  journal'[i].token <= journal'[j].token
    BY DEF FencedOrder, FencesMove
  <2>1. CASE j \in DOMAIN journal
    <3>1. i \in DOMAIN journal
      BY <2>1, <1>2
    <3>2. QED
      BY <2>1, <3>1, <1>2 DEF TableInv, FencedOrder, FencesMove
  <2>2. CASE j = Len(journal) + 1
    <3>1. PICK own \in DOMAIN leases :
            Active(own)' /\ e.token = leases[own].token /\ e.move = leases[own].move
      BY <2>2, <1>2
    <3>2. i \in DOMAIN journal
      BY <2>2, <1>2
    <3>3. Active(own) /\ FencesMove(journal[i].move, leases[own].move)
      BY <2>2, <3>1, <3>2, <1>1, <1>2
    <3>4. QED
      BY <2>2, <3>1, <3>2, <3>3, <1>2 DEF TableInv, NoActiveStraggler
  <2>3. QED
    BY <1>2, <2>1, <2>2
<1>7. QED
  BY <1>3, <1>4, <1>5, <1>6 DEF TableInv

-----------------------------------------------------------------------------
(* The audit trail keeps its type.                                          *)

\* Recording an event of some leases extends the trail by audit rows.
LEMMA RecordedType ==
  ASSUME NEW trailed \in Seq(SUBSET LeaseEvent), NEW ids \in SUBSET LeaseIds,
         NEW event \in Statuses \ {"active"}
  PROVE  Recorded(trailed, ids, event) \in Seq(SUBSET LeaseEvent)
<1>1. {[lease |-> l, event |-> event] : l \in ids} \in SUBSET LeaseEvent
  BY DEF LeaseEvent
<1>2. QED
  BY <1>1 DEF Recorded

\* So does recording an issue.
LEMMA IssuedType ==
  ASSUME NEW trailed \in Seq(SUBSET LeaseEvent), NEW id \in LeaseIds,
         NEW token \in Nat, NEW move \in Scopes
  PROVE  Issued(trailed, id, token, move) \in Seq(SUBSET LeaseEvent)
<1>1. {[lease |-> id, event |-> "issued", token |-> token, move |-> move]}
        \in SUBSET LeaseEvent
  BY DEF LeaseEvent
<1>2. QED
  BY <1>1 DEF Issued

\* The trail after a lapse.
LEMMA LapsedTrailType ==
  ASSUME TypeOK
  PROVE  LapsedTrail \in Seq(SUBSET LeaseEvent)
<1>1. trail \in Seq(SUBSET LeaseEvent) /\ DueLeases \in SUBSET LeaseIds
  BY DEF TypeOK, DueLeases
<1>2. "expired" \in Statuses \ {"active"}
  BY DEF Statuses
<1>3. QED
  BY <1>1, <1>2, RecordedType DEF LapsedTrail

-----------------------------------------------------------------------------
(* Every action changes the table in one of the two ways.                   *)

\* acquire_lease writes a proof-level lease after ending every other.
LEMMA AcquireLeaseStep ==
  ASSUME TypeOK, TokenBound, NEW id \in KnownIds, NEW ttl \in TTLs \cup {None},
         AcquireLease(id, ttl)
  PROVE  TypeOK' /\ NewLease(id, WholeProof) /\ id \in LeaseIds /\ UNCHANGED journal
<1> DEFINE others == {l \in DOMAIN leases \ {id} : Lapsed[l].status = "active"}
           swept  == Marked(Lapsed, others, "superseded")
           dead   == {l \in DOMAIN swept : swept[l].status = "superseded"}
           expires == IF ttl = None THEN Never ELSE clock + ttl
<1>1. /\ leases' = Upserted(swept, id, NewRow(WholeProof, NextToken, expires))
      /\ trail' = Issued(Recorded(LapsedTrail, dead, "superseded"),
                         id, NextToken, WholeProof)
      /\ UNCHANGED <<clock, serial, journal, call>>
  BY DEF AcquireLease
<1>2. id \in LeaseIds
  BY ConstantsAssumption DEF KnownIds, LeaseIds, TypeOK
<1>3. Ended(Lapsed)
  BY LapseEnds
<1>4. Ended(swept)
  BY <1>3, MarkedEnds DEF Statuses
<1>5. \A l \in DOMAIN swept \ {id} : swept[l].status # "active"
  BY <1>3 DEF Marked, Ended
<1>6. expires \in Nat \cup {Never}
  BY ConstantsAssumption DEF TypeOK
<1>7. WholeProof \in Scopes /\ NextToken \in Nat
  BY TopTokenIsMax DEF Scopes, NextToken
<1>8. NewLease(id, WholeProof)
  BY <1>1, <1>4, <1>5, <1>6 DEF NewLease
<1>9. DOMAIN leases' \subseteq LeaseIds /\ leases' \in [DOMAIN leases' -> LeaseRow]
  BY <1>2, <1>7, <1>8, NewLeaseFacts DEF TypeOK
<1>10. trail' \in Seq(SUBSET LeaseEvent)
  <2>1. dead \in SUBSET LeaseIds /\ "superseded" \in Statuses \ {"active"}
    BY <1>4 DEF Ended, TypeOK, Statuses
  <2>2. Recorded(LapsedTrail, dead, "superseded") \in Seq(SUBSET LeaseEvent)
    BY <2>1, LapsedTrailType, RecordedType
  <2>3. QED
    BY <1>1, <1>2, <1>7, <2>2, IssuedType
<1>11. QED
  BY <1>1, <1>2, <1>8, <1>9, <1>10 DEF TypeOK

\* issue_lease writes a worker's lease after ending any other on its move.
LEMMA IssueLeaseStep ==
  ASSUME TypeOK, TokenBound, NEW idOrNone \in KnownIds \cup {None},
         NEW move \in Moves \cup {NoMove}, NEW ttl \in TTLs,
         IssueLease(idOrNone, move, ttl)
  PROVE  \E id \in LeaseIds : TypeOK' /\ NewLease(id, move) /\ UNCHANGED journal
<1> DEFINE id     == IF idOrNone = None THEN serial + 1 ELSE idOrNone
           rivals == Rivals(id, move)
           ended  == {l \in rivals : Lapsed[l].status = "active"}
           swept  == Marked(Lapsed, ended, "superseded")
           dead   == {l \in rivals : swept[l].status = "superseded"}
<1>1. /\ leases' = Upserted(swept, id, NewRow(move, NextToken, clock + ttl))
      /\ serial' = LastSerial(idOrNone)
      /\ trail' = Issued(Recorded(LapsedTrail, dead, "superseded"), id, NextToken, move)
      /\ UNCHANGED <<clock, journal, call>>
  BY DEF IssueLease
<1>2. id \in LeaseIds /\ serial' \in Nat
  BY <1>1, ConstantsAssumption DEF KnownIds, LeaseIds, LastSerial, TypeOK
<1>3. Ended(Lapsed)
  BY LapseEnds
<1>4. Ended(swept)
  BY <1>3, MarkedEnds DEF Statuses
<1>5. \A l \in DOMAIN swept \ {id} :
        swept[l].status = "active" /\ FencesMove(move, swept[l].move) => FALSE
  <2> SUFFICES ASSUME NEW l \in DOMAIN swept \ {id}, swept[l].status = "active",
                      FencesMove(move, swept[l].move)
               PROVE  FALSE
    OBVIOUS
  <2>1. l \in DOMAIN leases \ {id} /\ swept[l].move = Lapsed[l].move
    BY <1>3, <1>4 DEF Ended
  <2>2. move # NoMove /\ Lapsed[l].move = move
    BY <2>1, ConstantsAssumption DEF FencesMove
  <2>3. l \in rivals
    BY <2>1, <2>2 DEF Rivals
  <2>4. QED
    BY <1>3, <2>1, <2>3 DEF Marked, Ended
<1>6. clock + ttl \in Nat \cup {Never}
  BY ConstantsAssumption DEF TypeOK
<1>7. move \in Scopes /\ NextToken \in Nat
  BY TopTokenIsMax DEF Scopes, NextToken
<1>8. NewLease(id, move)
  BY <1>1, <1>4, <1>5, <1>6 DEF NewLease
<1>9. DOMAIN leases' \subseteq LeaseIds /\ leases' \in [DOMAIN leases' -> LeaseRow]
  BY <1>2, <1>7, <1>8, NewLeaseFacts DEF TypeOK
<1>10. trail' \in Seq(SUBSET LeaseEvent)
  <2>1. dead \in SUBSET LeaseIds /\ "superseded" \in Statuses \ {"active"}
    BY DEF Rivals, TypeOK, Statuses
  <2>2. Recorded(LapsedTrail, dead, "superseded") \in Seq(SUBSET LeaseEvent)
    BY <2>1, LapsedTrailType, RecordedType
  <2>3. QED
    BY <1>1, <1>2, <1>7, <2>2, IssuedType
<1>11. QED
  BY <1>1, <1>2, <1>8, <1>9, <1>10 DEF TypeOK

\* dispatch_lease writes a worker's lease on a move no active lease covers.
LEMMA DispatchLeaseStep ==
  ASSUME TypeOK, TokenBound, NEW n \in 1..2, NEW ranked \in [1..n -> Moves],
         NEW ttl \in TTLs, DispatchLease(ranked, ttl)
  PROVE  \E id \in LeaseIds, move \in Moves :
           TypeOK' /\ NewLease(id, move) /\ UNCHANGED journal
<1> DEFINE free  == {i \in DOMAIN ranked : ranked[i] \notin Taken}
           id    == serial + 1
           first == CHOOSE i \in free : \A j \in free : i <= j
           move  == ranked[first]
<1>1. /\ free # {}
      /\ leases' = Upserted(Lapsed, id, NewRow(move, NextToken, clock + ttl))
      /\ trail' = Issued(LapsedTrail, id, NextToken, move)
      /\ serial' = id
      /\ UNCHANGED <<clock, journal, call>>
  BY DEF DispatchLease
<1>2. first \in free
  <2>1. free \subseteq 1..2
    OBVIOUS
  <2>2. \E i \in free : \A j \in free : i <= j
    BY <1>1, <2>1
  <2>3. QED
    BY <2>2
<1>3. move \in Moves /\ move \notin Taken
  BY <1>2
<1>4. id \in LeaseIds /\ serial' \in Nat
  BY <1>1 DEF LeaseIds, TypeOK
<1>5. Ended(Lapsed)
  BY LapseEnds
<1>6. \A l \in DOMAIN Lapsed \ {id} :
        Lapsed[l].status = "active" /\ FencesMove(move, Lapsed[l].move) => FALSE
  BY <1>3, <1>5, ConstantsAssumption DEF Taken, FencesMove, Ended
<1>7. clock + ttl \in Nat \cup {Never}
  BY ConstantsAssumption DEF TypeOK
<1>8. move \in Scopes /\ NextToken \in Nat
  BY <1>3, TopTokenIsMax DEF Scopes, NextToken
<1>9. NewLease(id, move)
  BY <1>1, <1>5, <1>6, <1>7 DEF NewLease
<1>10. DOMAIN leases' \subseteq LeaseIds /\ leases' \in [DOMAIN leases' -> LeaseRow]
  BY <1>4, <1>8, <1>9, NewLeaseFacts DEF TypeOK
<1>11. trail' \in Seq(SUBSET LeaseEvent)
  BY <1>1, <1>4, <1>8, LapsedTrailType, IssuedType
<1>12. QED
  BY <1>1, <1>3, <1>4, <1>9, <1>10, <1>11 DEF TypeOK

\* A committed lapse only ends leases.
LEMMA LapseStep ==
  ASSUME TypeOK, leases' = Lapsed, trail' = LapsedTrail
  PROVE  /\ Ended(leases')
         /\ DOMAIN leases' \subseteq LeaseIds
         /\ leases' \in [DOMAIN leases' -> LeaseRow]
         /\ trail' \in Seq(SUBSET LeaseEvent)
<1>1. Ended(Lapsed)
  BY LapseEnds
<1>2. QED
  BY <1>1, LapsedTrailType DEF Ended, TypeOK

\* release_lease ends one lease.
LEMMA ReleaseLeaseStep ==
  ASSUME TypeOK, NEW id \in DOMAIN leases, ReleaseLease(id)
  PROVE  TypeOK' /\ Ended(leases') /\ UNCHANGED journal
<1>1. Ended(leases)
  BY DEF Ended, TypeOK
<1>2. "released" \in Statuses \ {"active"} /\ {id} \in SUBSET LeaseIds
  BY DEF Statuses, TypeOK
<1>3. Ended(leases')
  BY <1>1, <1>2, MarkedEnds DEF ReleaseLease
<1>4. trail' \in Seq(SUBSET LeaseEvent)
  BY <1>2, RecordedType DEF ReleaseLease, TypeOK
<1>5. QED
  BY <1>3, <1>4 DEF ReleaseLease, TypeOK, Ended

\* A step that leaves the table alone ends nothing.
LEMMA UnchangedEnds ==
  ASSUME TypeOK, UNCHANGED leases
  PROVE  Ended(leases')
BY DEF Ended, TypeOK

\* A commit without a lease.
LEMMA AppendUnleasedStep ==
  ASSUME TypeOK, TableInv, NEW p \in Procs, NEW base, AppendUnleased(p, base)
  PROVE  TypeOK' /\ TableInv' /\ UNCHANGED leases
<1> DEFINE e == [lease |-> None, token |-> None, move |-> NoMove]
<1>1. /\ journal' = Append(journal, e)
      /\ call' = [call EXCEPT ![p] = Idle]
      /\ UNCHANGED <<clock, leases, serial, trail>>
  BY DEF AppendUnleased
<1>2. e \in Entry /\ e.token = None
  BY DEF Entry, Scopes
<1>3. TypeOK'
  BY <1>1, <1>2 DEF TypeOK, Calls
<1>4. Ended(leases')
  BY <1>1, UnchangedEnds
<1>5. TableInv'
  BY <1>1, <1>2, <1>4, CommitPreserves
<1>6. QED
  BY <1>1, <1>3, <1>5

\* A commit under a lease.
LEMMA AppendLeasedStep ==
  ASSUME TypeOK, TableInv, NEW p \in Procs, NEW base,
         NEW lease \in KnownIds \cup {None}, NEW token \in (1..TopToken) \cup {None},
         AppendLeased(p, base, lease, token)
  PROVE  TypeOK' /\ TableInv' /\ Ended(leases')
<1> DEFINE e == [lease |-> lease, token |-> token, move |-> leases[lease].move]
<1>1. /\ HoldsLease(lease, token)
      /\ journal' = Append(journal, e)
      /\ leases' = Lapsed
      /\ trail' = LapsedTrail
      /\ call' = [call EXCEPT ![p] = Idle]
      /\ UNCHANGED <<clock, serial>>
  BY DEF AppendLeased
<1>2. /\ Ended(leases')
      /\ DOMAIN leases' \subseteq LeaseIds
      /\ leases' \in [DOMAIN leases' -> LeaseRow]
      /\ trail' \in Seq(SUBSET LeaseEvent)
  BY <1>1, LapseStep
<1>3. /\ lease \in DOMAIN leases
      /\ leases'[lease].status = "active"
      /\ leases'[lease].token = token
  BY <1>1 DEF HoldsLease, LeaseNotHeld
<1>4. /\ Active(lease)'
      /\ token = leases[lease].token
  BY <1>2, <1>3 DEF Active, Ended
<1>5. e \in Entry
  BY <1>3, <1>4 DEF Entry, TypeOK, LeaseRow
<1>6. TypeOK'
  BY <1>1, <1>2, <1>5 DEF TypeOK, Calls
<1>7. TableInv'
  BY <1>1, <1>2, <1>3, <1>4, <1>5, CommitPreserves
<1>8. QED
  BY <1>2, <1>6, <1>7

\* A refused append, and the second transaction it owes.
LEMMA RefusalStep ==
  ASSUME TypeOK, NEW p \in Procs,
         \/ Relapse(p) \/ RelapseLost(p)
         \/ \E base \in (0..HeadRevision) \cup {None}, lease \in KnownIds \cup {None},
               token \in (1..TopToken) \cup {None} :
              AppendRefused(p, base, lease, token)
  PROVE  TypeOK' /\ Ended(leases') /\ UNCHANGED journal
<1>1. CASE Relapse(p)
  <2>1. call' \in [Procs -> Calls]
    <3>1. call[p] \in [at : {"relapse", "refused"},
                       lease : LeaseIds \cup {None}, token : Nat \cup {None}]
      BY <1>1 DEF Relapse, TypeOK, Calls, Idle
    <3>2. [call[p] EXCEPT !.at = "refused"] \in Calls
      BY <3>1 DEF Calls
    <3>3. QED
      BY <1>1, <3>2 DEF Relapse, TypeOK
  <2>2. QED
    BY <1>1, <2>1, LapseStep DEF Relapse, TypeOK
<1>2. CASE RelapseLost(p)
  BY <1>2, UnchangedEnds DEF RelapseLost, TypeOK, Calls
<1>3. ASSUME NEW base \in (0..HeadRevision) \cup {None}, NEW lease \in KnownIds \cup {None},
             NEW token \in (1..TopToken) \cup {None},
             AppendRefused(p, base, lease, token)
      PROVE  TypeOK' /\ Ended(leases') /\ UNCHANGED journal
  <2>1. lease \in LeaseIds \cup {None}
    BY ConstantsAssumption DEF KnownIds, LeaseIds, TypeOK
  <2>2. token \in Nat \cup {None}
    OBVIOUS
  <2>3. [at |-> "relapse", lease |-> lease, token |-> token] \in Calls
    BY <2>1, <2>2 DEF Calls
  <2>4. QED
    BY <1>3, <2>3, UnchangedEnds DEF AppendRefused, TypeOK
<1>4. QED
  BY <1>1, <1>2, <1>3

-----------------------------------------------------------------------------
(* The invariant, and what it gives.                                        *)

Inv == TypeOK /\ TableInv

\* The empty tables satisfy the invariant.
LEMMA InitInv == Init => Inv
<1> SUFFICES ASSUME Init PROVE Inv
  OBVIOUS
<1>1. DOMAIN leases = {} /\ DOMAIN journal = {}
  BY DEF Init
<1>2. TypeOK
  BY <1>1 DEF Init, TypeOK, Calls
<1>3. TableInv
  BY <1>1 DEF TableInv, TokenBound, TokensUnique, MoveExclusive, WindowIsOldest,
             JournalTokensIssued, NoActiveStraggler, FencedOrder
<1>4. QED
  BY <1>2, <1>3 DEF Inv

\* Every step ends leases or writes one new lease.
TableStep ==
  \/ Ended(leases')
  \/ \E id \in LeaseIds, move \in Scopes : NewLease(id, move)

\* Every step preserves the invariant and changes the table in one of the two
\* ways.
LEMMA StepInv ==
  ASSUME Inv, [Next]_vars
  PROVE  Inv' /\ TableStep
<1>1. TypeOK /\ TableInv /\ TokenBound
  BY DEF Inv, TableInv
<1>2. ASSUME TypeOK', Ended(leases'), UNCHANGED journal
      PROVE  Inv' /\ TableStep
  BY <1>1, <1>2, EndedPreserves DEF Inv, TableStep
<1>3. ASSUME NEW id \in LeaseIds, NEW move \in Scopes,
             TypeOK', NewLease(id, move), UNCHANGED journal
      PROVE  Inv' /\ TableStep
  BY <1>1, <1>3, NewLeasePreserves DEF Inv, TableStep
<1>4. ASSUME NEW id \in KnownIds, NEW ttl \in TTLs \cup {None}, AcquireLease(id, ttl)
      PROVE  Inv' /\ TableStep
  <2>1. TypeOK' /\ NewLease(id, WholeProof) /\ id \in LeaseIds /\ UNCHANGED journal
    BY <1>1, <1>4, AcquireLeaseStep
  <2>2. WholeProof \in Scopes
    BY DEF Scopes
  <2>3. QED
    BY <2>1, <2>2, <1>3
<1>5. ASSUME NEW idOrNone \in KnownIds \cup {None}, NEW move \in Moves \cup {NoMove},
             NEW ttl \in TTLs, IssueLease(idOrNone, move, ttl)
      PROVE  Inv' /\ TableStep
  <2>1. PICK id \in LeaseIds : TypeOK' /\ NewLease(id, move) /\ UNCHANGED journal
    BY <1>1, <1>5, IssueLeaseStep
  <2>2. move \in Scopes
    BY DEF Scopes
  <2>3. QED
    BY <2>1, <2>2, <1>3
<1>6. ASSUME NEW n \in 1..2, NEW ranked \in [1..n -> Moves], NEW ttl \in TTLs,
             DispatchLease(ranked, ttl)
      PROVE  Inv' /\ TableStep
  <2>1. PICK id \in LeaseIds, move \in Moves :
          TypeOK' /\ NewLease(id, move) /\ UNCHANGED journal
    BY <1>1, <1>6, DispatchLeaseStep
  <2>2. move \in Scopes
    BY DEF Scopes
  <2>3. QED
    BY <2>1, <2>2, <1>3
<1>7. ASSUME NEW id \in DOMAIN leases, ReleaseLease(id)
      PROVE  Inv' /\ TableStep
  BY <1>1, <1>2, <1>7, ReleaseLeaseStep
<1>8. CASE ActiveLeases
  <2>1. TypeOK' /\ Ended(leases') /\ UNCHANGED journal
    BY <1>1, <1>8, LapseStep DEF ActiveLeases, TypeOK
  <2>2. QED
    BY <2>1, <1>2
<1>9. ASSUME NEW p \in Procs, NEW base, AppendUnleased(p, base)
      PROVE  Inv' /\ TableStep
  BY <1>1, <1>9, AppendUnleasedStep, UnchangedEnds DEF Inv, TableStep
<1>10. ASSUME NEW p \in Procs, NEW base, NEW lease \in KnownIds \cup {None},
              NEW token \in (1..TopToken) \cup {None},
              AppendLeased(p, base, lease, token)
       PROVE  Inv' /\ TableStep
  BY <1>1, <1>10, AppendLeasedStep DEF Inv, TableStep
<1>11. ASSUME NEW p \in Procs,
              \/ Relapse(p) \/ RelapseLost(p)
              \/ \E base \in (0..HeadRevision) \cup {None}, lease \in KnownIds \cup {None},
                    token \in (1..TopToken) \cup {None} :
                   AppendRefused(p, base, lease, token)
       PROVE  Inv' /\ TableStep
  BY <1>1, <1>2, <1>11, RefusalStep
<1>12. CASE Tick \/ SetClockBack \/ UNCHANGED vars
  <2>1. TypeOK' /\ UNCHANGED <<leases, journal>>
    BY <1>1, <1>12 DEF Tick, SetClockBack, vars, TypeOK
  <2>2. Ended(leases')
    BY <1>1, <2>1, UnchangedEnds
  <2>3. QED
    BY <2>1, <2>2, <1>2
<1>13. CASE LeaseOp
  BY <1>13, <1>4, <1>5, <1>6, <1>7, <1>8 DEF LeaseOp
<1>14. CASE AppendOp
  BY <1>14, <1>9, <1>10, <1>11 DEF AppendOp
<1>15. QED
  BY <1>12, <1>13, <1>14 DEF Next

\* The invariant holds throughout.
THEOREM InvHolds == Spec => []Inv
<1>1. Inv /\ [Next]_vars => Inv'
  BY StepInv
<1>2. QED
  BY InitInv, <1>1, PTL DEF Spec

\* Every table keeps its type under every operation.
THEOREM TypeCorrect == Spec => []TypeOK
<1>1. Inv => TypeOK
  BY DEF Inv
<1>2. QED
  BY <1>1, InvHolds, PTL

\* No two active leases ever cover one move, whatever the order of dispatches,
\* issues, acquisitions, lapses and releases and however the clock moves.
THEOREM MoveIsExclusive == Spec => []MoveExclusive
<1>1. Inv => MoveExclusive
  BY DEF Inv, TableInv
<1>2. QED
  BY <1>1, InvHolds, PTL

\* A fencing token identifies one row.
THEOREM TokensAreUnique == Spec => []TokensUnique
<1>1. Inv => TokensUnique
  BY DEF Inv, TableInv
<1>2. QED
  BY <1>1, InvHolds, PTL

\* Revisions under conflicting leases are journalled in token order.
THEOREM JournalIsFenced == Spec => []FencedOrder
<1>1. Inv => FencedOrder
  BY DEF Inv, TableInv
<1>2. QED
  BY <1>1, InvHolds, PTL

\* An issued token that is not live never becomes live again.
THEOREM DeadForever == Spec => DeadTokenStaysDead
<1>1. ASSUME Inv, [Next]_vars
      PROVE  [\A t \in 1..TopToken : ~LiveToken(t) => ~LiveToken(t)']_vars
  <2> SUFFICES ASSUME NEW t \in 1..TopToken, ~LiveToken(t), LiveToken(t)'
               PROVE  FALSE
    OBVIOUS
  <2>1. PICK id \in DOMAIN leases' : Active(id)' /\ leases'[id].token = t
    BY DEF LiveToken
  <2>2. TableStep /\ TypeOK /\ TokenBound
    BY <1>1, StepInv DEF Inv, TableInv
  <2>3. CASE Ended(leases')
    BY <2>1, <2>3 DEF Ended, Active, LiveToken
  <2>4. ASSUME NEW new \in LeaseIds, NEW move \in Scopes, NewLease(new, move)
        PROVE  FALSE
    <3>1. /\ leases'[new].token = NextToken
          /\ \A l \in DOMAIN leases' \ {new} :
               /\ l \in DOMAIN leases
               /\ leases'[l].token = leases[l].token
               /\ Active(l)' => Active(l)
      BY <2>2, <2>4, NewLeaseFacts
    <3>2. TopToken \in Nat
      BY <2>2, TopTokenIsMax
    <3>3. id # new
      BY <2>1, <3>1, <3>2 DEF NextToken
    <3>4. QED
      BY <2>1, <3>1, <3>3 DEF LiveToken
  <2>5. QED
    BY <2>2, <2>3, <2>4 DEF TableStep
<1>2. QED
  BY <1>1, InvHolds, PTL DEF Spec, DeadTokenStaysDead

-----------------------------------------------------------------------------
(* The store implements the fenced log: what the mapping of JournalRefinement *)
(* makes of the two ways the table changes.                                  *)

\* What MAX(fencing_token) is: a natural number that is a row's token, or 0 on an
\* empty table, and that no row's token exceeds.
TopIsMax ==
  /\ TopToken \in Nat
  /\ TopToken = 0 \/ \E l \in DOMAIN leases : leases[l].token = TopToken
  /\ \A l \in DOMAIN leases : leases[l].token <= TopToken

\* The table of every state that satisfies the invariant has such a maximum.
LEMMA TopTokenIsHeld == TypeOK /\ TokenBound => TopIsMax
<1> SUFFICES ASSUME TypeOK, TokenBound PROVE TopIsMax
  OBVIOUS
<1> DEFINE tokens == {leases[l].token : l \in DOMAIN leases} \cup {0}
<1>1. PICK top \in Nat :
        /\ top = 0 \/ \E l \in DOMAIN leases : leases[l].token = top
        /\ \A l \in DOMAIN leases : leases[l].token <= top
  BY DEF TokenBound
<1>2. \A l \in DOMAIN leases : leases[l].token \in Nat
  BY DEF TypeOK, LeaseRow
<1>3. top \in tokens /\ \A u \in tokens : u <= top
  BY <1>1, <1>2
<1>4. TopToken \in tokens /\ \A u \in tokens : u <= TopToken
  BY <1>3 DEF TopToken
<1>5. QED
  BY <1>2, <1>4 DEF TopIsMax

\* Ending leases ends grants and makes none.
LEMMA EndedGrants ==
  ASSUME TypeOK, TokenBound, TypeOK', TokenBound', Ended(leases')
  PROVE  LiveGrants' \in SUBSET LiveGrants /\ TopToken' = TopToken
<1>1. /\ DOMAIN leases' = DOMAIN leases
      /\ \A l \in DOMAIN leases :
           /\ leases'[l].move = leases[l].move
           /\ leases'[l].token = leases[l].token
           /\ leases'[l].status = "active" => leases[l].status = "active"
  BY DEF Ended
<1>2. LiveGrants' \in SUBSET LiveGrants
  <2> SUFFICES ASSUME NEW g \in LiveGrants' PROVE g \in LiveGrants
    OBVIOUS
  <2>1. PICK id \in DOMAIN leases' :
          /\ leases'[id].status = "active"
          /\ g = [token |-> leases'[id].token, scope |-> leases'[id].move]
    BY DEF LiveGrants
  <2>2. QED
    BY <1>1, <2>1 DEF LiveGrants
<1>3. TopIsMax
  BY TopTokenIsHeld
<1>4. TopIsMax'
  BY TopTokenIsHeld, PTL
<1>5. TopToken' = TopToken
  BY <1>1, <1>3, <1>4 DEF TopIsMax
<1>6. QED
  BY <1>2, <1>5

\* Writing a new lease makes one grant and ends those it displaces.
LEMMA NewLeaseGrants ==
  ASSUME TypeOK, TokenBound, TypeOK', TokenBound', UNCHANGED journal,
         NEW id \in LeaseIds, NEW move \in Scopes, NewLease(id, move)
  PROVE  Promise!Grant(move)
<1> DEFINE grant == [token |-> TopToken + 1, scope |-> move]
           kept  == {g \in LiveGrants' : g # grant}
<1>1. /\ DOMAIN leases' = DOMAIN leases \cup {id}
      /\ leases'[id].move = move
      /\ leases'[id].token = TopToken + 1
      /\ leases'[id].status = "active"
      /\ \A l \in DOMAIN leases' \ {id} :
           /\ l \in DOMAIN leases
           /\ leases'[l].move = leases[l].move
           /\ leases'[l].token = leases[l].token
           /\ Active(l)' => Active(l) /\ ~FencesMove(move, leases[l].move)
  BY NewLeaseFacts DEF NextToken
<1>2. TopIsMax /\ TopIsMax'
  <2>1. TopIsMax
    BY TopTokenIsHeld
  <2>2. TopIsMax'
    BY TopTokenIsHeld, PTL
  <2>3. QED
    BY <2>1, <2>2
<1>3. TopToken' = TopToken + 1
  BY <1>1, <1>2 DEF TopIsMax
<1>4. grant \in LiveGrants'
  BY <1>1 DEF LiveGrants
<1>5. \A g \in kept : g \in LiveGrants /\ ~Promise!Displaces(move, g)
  <2> SUFFICES ASSUME NEW g \in LiveGrants', g # grant
               PROVE  g \in LiveGrants /\ ~Promise!Displaces(move, g)
    OBVIOUS
  <2>1. PICK l \in DOMAIN leases' :
          /\ leases'[l].status = "active"
          /\ g = [token |-> leases'[l].token, scope |-> leases'[l].move]
    BY DEF LiveGrants
  <2>2. l # id
    BY <1>1, <2>1
  <2>3. /\ l \in DOMAIN leases /\ Active(l) /\ ~FencesMove(move, leases[l].move)
        /\ g = [token |-> leases[l].token, scope |-> leases[l].move]
    BY <1>1, <2>1, <2>2 DEF Active
  <2>4. g \in LiveGrants
    BY <2>3 DEF LiveGrants, Active
  <2>5. g.scope = leases[l].move
    BY <2>3
  <2>6. QED
    BY <2>3, <2>4, <2>5 DEF Promise!Displaces, FencesMove
<1>6. kept \in SUBSET {g \in LiveGrants : ~Promise!Displaces(move, g)}
  BY <1>5
<1>7. LiveGrants' = kept \cup {grant}
  BY <1>4
<1>8. CommittedGrants' = CommittedGrants
  BY DEF CommittedGrants
<1> HIDE DEF kept
<1>9. QED
  BY <1>3, <1>6, <1>7, <1>8 DEF Promise!Grant

-----------------------------------------------------------------------------
(* What the mapping makes of a commit.                                      *)

\* Appending a revision appends the grant it was committed under.
LEMMA AppendedGrant ==
  ASSUME journal \in Seq(Entry), NEW e \in Entry, journal' = Append(journal, e)
  PROVE  CommittedGrants' = Append(CommittedGrants, [token |-> e.token, scope |-> e.move])
<1> DEFINE g == [token |-> e.token, scope |-> e.move]
<1>1. /\ DOMAIN journal = 1..Len(journal) /\ Len(journal) \in Nat
      /\ DOMAIN journal' = 1..Len(journal) + 1
      /\ \A i \in DOMAIN journal : journal'[i] = journal[i]
      /\ journal'[Len(journal) + 1] = e
  OBVIOUS
<1>2. CommittedGrants \in Seq({[token |-> x.token, scope |-> x.move] : x \in Entry})
  BY <1>1 DEF CommittedGrants
<1>3. Len(CommittedGrants) = Len(journal)
  BY <1>1 DEF CommittedGrants
<1>4. /\ DOMAIN Append(CommittedGrants, g) = 1..Len(journal) + 1
      /\ \A i \in 1..Len(journal) : Append(CommittedGrants, g)[i] = CommittedGrants[i]
      /\ Append(CommittedGrants, g)[Len(journal) + 1] = g
  BY <1>2, <1>3, <1>1
<1>5. QED
  BY <1>1, <1>4 DEF CommittedGrants

\* A proposal without a lease extends the log under no grant.
LEMMA UnleasedCommits ==
  ASSUME TypeOK, TypeOK', TableInv, TableInv', NEW p \in Procs, NEW base,
         AppendUnleased(p, base)
  PROVE  Promise!Commit(Promise!NoGrant)
<1> DEFINE e == [lease |-> None, token |-> None, move |-> NoMove]
<1>1. journal' = Append(journal, e) /\ UNCHANGED leases
  BY DEF AppendUnleased
<1>2. e \in Entry /\ Promise!NoGrant = [token |-> e.token, scope |-> e.move]
  BY DEF Entry, Scopes, Promise!NoGrant
<1>3. CommittedGrants' = Append(CommittedGrants, Promise!NoGrant)
  BY <1>1, <1>2, AppendedGrant DEF TypeOK
<1>4. LiveGrants' \in SUBSET LiveGrants /\ TopToken' = TopToken
  BY <1>1 DEF LiveGrants, TopToken
<1>5. QED
  BY <1>3, <1>4 DEF Promise!Commit

\* A proposal with a lease extends the log under that lease's grant, which is still
\* in force once due leases have lapsed.
LEMMA LeasedCommits ==
  ASSUME TypeOK, TypeOK', TableInv, TableInv', NEW p \in Procs, NEW base,
         NEW lease \in KnownIds \cup {None}, NEW token \in (1..TopToken) \cup {None},
         AppendLeased(p, base, lease, token)
  PROVE  \E g \in LiveGrants : Promise!Commit(g)
<1> DEFINE e == [lease |-> lease, token |-> token, move |-> leases[lease].move]
           g == [token |-> e.token, scope |-> e.move]
<1>1. journal' = Append(journal, e) /\ leases' = Lapsed /\ HoldsLease(lease, token)
  BY DEF AppendLeased
<1>2. Ended(leases')
  BY <1>1, LapseEnds
<1>3. LiveGrants' \in SUBSET LiveGrants /\ TopToken' = TopToken
  BY <1>2, EndedGrants DEF TableInv
<1>4. /\ lease \in DOMAIN leases'
      /\ leases'[lease].status = "active"
      /\ leases'[lease].token = token
      /\ leases'[lease].move = leases[lease].move
      /\ lease \in DOMAIN leases
  BY <1>1, <1>2 DEF HoldsLease, LeaseNotHeld, Ended
<1>5. g \in LiveGrants'
  BY <1>4 DEF LiveGrants
<1>6. e \in Entry
  BY <1>2, <1>4 DEF Ended, Entry, TypeOK, LeaseRow
<1>7. CommittedGrants' = Append(CommittedGrants, g)
  BY <1>1, <1>6, AppendedGrant DEF TypeOK
<1> HIDE DEF g
<1>8. Promise!Commit(g) /\ g \in LiveGrants
  BY <1>3, <1>5, <1>7 DEF Promise!Commit
<1>9. QED
  BY <1>8

-----------------------------------------------------------------------------
(* Every step.                                                              *)

\* A step of the store is a step of the fenced log, or invisible to it.
LEMMA StepRefines ==
  ASSUME Inv, [Next]_vars
  PROVE  [Promise!Next]_(Promise!vars)
<1>1. TypeOK /\ TableInv /\ TokenBound /\ TypeOK' /\ TableInv' /\ TokenBound'
  BY StepInv DEF Inv, TableInv
<1>2. ASSUME Ended(leases'), UNCHANGED journal
      PROVE  Promise!End
  <2>1. CommittedGrants' = CommittedGrants
    BY <1>2 DEF CommittedGrants
  <2>2. QED
    BY <1>1, <1>2, <2>1, EndedGrants DEF Promise!End
<1>3. ASSUME NEW id \in LeaseIds, NEW move \in Scopes, NewLease(id, move),
             UNCHANGED journal
      PROVE  Promise!Next
  <2>1. Promise!Grant(move)
    BY <1>1, <1>3, NewLeaseGrants
  <2>2. move \in Promise!Scopes
    BY DEF Scopes, Promise!Scopes
  <2>3. QED
    BY <2>1, <2>2 DEF Promise!Next
<1>4. ASSUME NEW id \in KnownIds, NEW ttl \in TTLs \cup {None}, AcquireLease(id, ttl)
      PROVE  Promise!Next
  <2>1. NewLease(id, WholeProof) /\ id \in LeaseIds /\ UNCHANGED journal
    BY <1>1, <1>4, AcquireLeaseStep
  <2>2. WholeProof \in Scopes
    BY DEF Scopes
  <2>3. QED
    BY <2>1, <2>2, <1>3
<1>5. ASSUME NEW idOrNone \in KnownIds \cup {None}, NEW move \in Moves \cup {NoMove},
             NEW ttl \in TTLs, IssueLease(idOrNone, move, ttl)
      PROVE  Promise!Next
  <2>1. PICK id \in LeaseIds : NewLease(id, move) /\ UNCHANGED journal
    BY <1>1, <1>5, IssueLeaseStep
  <2>2. move \in Scopes
    BY DEF Scopes
  <2>3. QED
    BY <2>1, <2>2, <1>3
<1>6. ASSUME NEW n \in 1..2, NEW ranked \in [1..n -> Moves], NEW ttl \in TTLs,
             DispatchLease(ranked, ttl)
      PROVE  Promise!Next
  <2>1. PICK id \in LeaseIds, move \in Moves : NewLease(id, move) /\ UNCHANGED journal
    BY <1>1, <1>6, DispatchLeaseStep
  <2>2. move \in Scopes
    BY DEF Scopes
  <2>3. QED
    BY <2>1, <2>2, <1>3
<1>7. ASSUME NEW id \in DOMAIN leases, ReleaseLease(id)
      PROVE  Promise!End
  BY <1>1, <1>2, <1>7, ReleaseLeaseStep
<1>8. CASE ActiveLeases
  <2>1. Ended(leases') /\ UNCHANGED journal
    BY <1>1, <1>8, LapseStep DEF ActiveLeases, TypeOK
  <2>2. QED
    BY <2>1, <1>2 DEF Promise!Next
<1>9. ASSUME NEW p \in Procs, NEW base, AppendUnleased(p, base)
      PROVE  Promise!Next
  BY <1>1, <1>9, UnleasedCommits DEF Promise!Next
<1>10. ASSUME NEW p \in Procs, NEW base, NEW lease \in KnownIds \cup {None},
              NEW token \in (1..TopToken) \cup {None},
              AppendLeased(p, base, lease, token)
       PROVE  Promise!Next
  BY <1>1, <1>10, LeasedCommits DEF Promise!Next
<1>11. ASSUME NEW p \in Procs,
              \/ Relapse(p) \/ RelapseLost(p)
              \/ \E base \in (0..HeadRevision) \cup {None}, lease \in KnownIds \cup {None},
                    token \in (1..TopToken) \cup {None} :
                   AppendRefused(p, base, lease, token)
       PROVE  Promise!Next
  BY <1>1, <1>2, <1>11, RefusalStep DEF Promise!Next
<1>12. CASE Tick \/ SetClockBack \/ UNCHANGED vars
  <2>1. UNCHANGED <<leases, journal>>
    BY <1>12 DEF Tick, SetClockBack, vars
  <2>2. QED
    BY <2>1 DEF Promise!vars, LiveGrants, TopToken, CommittedGrants
<1>13. CASE LeaseOp
  BY <1>13, <1>4, <1>5, <1>6, <1>7, <1>8 DEF LeaseOp, Promise!Next
<1>14. CASE AppendOp
  BY <1>14, <1>9, <1>10, <1>11 DEF AppendOp
<1>15. QED
  BY <1>12, <1>13, <1>14 DEF Next

\* The empty journal and lease table are the fenced log's initial state.
LEMMA InitRefines == Init => Promise!Init
<1> SUFFICES ASSUME Init PROVE Promise!Init
  OBVIOUS
<1>1. DOMAIN leases = {} /\ journal = <<>>
  BY DEF Init
<1>2. LiveGrants = {}
  BY <1>1 DEF LiveGrants
<1>3. TopToken = 0
  BY <1>1 DEF TopToken
<1>4. CommittedGrants = <<>>
  BY <1>1 DEF CommittedGrants
<1>5. QED
  BY <1>2, <1>3, <1>4 DEF Promise!Init

\* Every behaviour of the store, however its transactions, lapses and refusals
\* interleave, is a behaviour of the fenced log: grants are numbered in order, a
\* displaced grant never returns, and only a live grant extends the log.
THEOREM StoreImplementsFencedLog == Spec => ImplementsFencedLog
<1>1. Inv /\ [Next]_vars => [Promise!Next]_(Promise!vars)
  BY StepRefines
<1>2. QED
  BY InitRefines, InvHolds, <1>1, PTL DEF Spec, ImplementsFencedLog, Promise!Spec

=============================================================================
