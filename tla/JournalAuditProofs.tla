-------------------------- MODULE JournalAuditProofs --------------------------
(***************************************************************************)
(* The audit trail and the minted ids of JournalStore, for every value of   *)
(* its constants.                                                          *)
(*                                                                         *)
(* A method changes the lease table and the trail together, statement by    *)
(* statement: it gives rows a final status and records it, or it writes a   *)
(* lease and records the issue.  What the trail says of the table (Audited) *)
(* is carried through each statement, and so through the methods, which are *)
(* chains of them.                                                         *)
(***************************************************************************)
EXTENDS JournalStoreProofs

IssueOf(id, row) ==
  [lease |-> id, event |-> "issued", token |-> row.token, move |-> row.move]

\* The trail accounts for a row: for an active one, by its issue, with nothing
\* after it that fences it; for another, by the event that ended it, with nothing
\* after it about the same lease.
Accounted(tr, id, row) ==
  \E i \in DOMAIN tr : \E v \in tr[i] :
    IF row.status = "active"
    THEN /\ v = IssueOf(id, row)
         /\ \A j \in i + 1..Len(tr) : \A w \in tr[j] : ~Fences(w, v)
    ELSE /\ v = [lease |-> id, event |-> row.status]
         /\ \A j \in i + 1..Len(tr) : \A w \in tr[j] : w.lease # id

\* No statement records two events of one lease.
OneEventEach(tr) ==
  \A i \in DOMAIN tr : \A v, w \in tr[i] : v.lease = w.lease => v = w

\* The trail is about leases of the table, and explains every row of it.
Audited(rows, tr) ==
  /\ OneEventEach(tr)
  /\ \A i \in DOMAIN tr : \A v \in tr[i] : v.lease \in DOMAIN rows
  /\ \A id \in DOMAIN rows : Accounted(tr, id, rows[id])

-----------------------------------------------------------------------------
(* The two statements.                                                      *)

Trail == Seq(SUBSET LeaseEvent)

\* Appending events that do not fence a row's issue, nor name an ended row's lease,
\* leaves the row accounted for.
LEMMA AppendedAccounts ==
  ASSUME NEW tr \in Trail, NEW E \in SUBSET LeaseEvent, NEW id, NEW row,
         Accounted(tr, id, row),
         \A w \in E : IF row.status = "active" THEN ~Fences(w, IssueOf(id, row))
                      ELSE w.lease # id
  PROVE  Accounted(Append(tr, E), id, row)
<1> DEFINE new == Append(tr, E)
<1>1. /\ Len(new) = Len(tr) + 1
      /\ DOMAIN new = 1..Len(tr) + 1 /\ DOMAIN tr = 1..Len(tr) /\ Len(tr) \in Nat
      /\ \A i \in DOMAIN tr : new[i] = tr[i]
      /\ new[Len(tr) + 1] = E
  BY DEF Trail
<1>2. CASE row.status = "active"
  <2>1. PICK i \in DOMAIN tr : \E v \in tr[i] :
          /\ v = IssueOf(id, row)
          /\ \A j \in i + 1..Len(tr) : \A w \in tr[j] : ~Fences(w, v)
    BY <1>2 DEF Accounted
  <2>2. i \in DOMAIN new /\ IssueOf(id, row) \in new[i]
    BY <1>1, <2>1
  <2>3. \A j \in i + 1..Len(new) : \A w \in new[j] : ~Fences(w, IssueOf(id, row))
    <3> SUFFICES ASSUME NEW j \in i + 1..Len(new), NEW w \in new[j]
                 PROVE  ~Fences(w, IssueOf(id, row))
      OBVIOUS
    <3>1. CASE j = Len(tr) + 1
      BY <3>1, <1>1, <1>2
    <3>2. CASE j \in i + 1..Len(tr)
      BY <3>2, <1>1, <2>1
    <3>3. QED
      BY <3>1, <3>2, <1>1, <2>1
  <2>4. QED
    BY <1>2, <2>2, <2>3 DEF Accounted
<1>3. CASE row.status # "active"
  <2>1. PICK i \in DOMAIN tr :
          /\ [lease |-> id, event |-> row.status] \in tr[i]
          /\ \A j \in i + 1..Len(tr) : \A w \in tr[j] : w.lease # id
    BY <1>3 DEF Accounted
  <2>2. i \in DOMAIN new /\ [lease |-> id, event |-> row.status] \in new[i]
    BY <1>1, <2>1
  <2>3. \A j \in i + 1..Len(new) : \A w \in new[j] : w.lease # id
    <3> SUFFICES ASSUME NEW j \in i + 1..Len(new), NEW w \in new[j]
                 PROVE  w.lease # id
      OBVIOUS
    <3>1. CASE j = Len(tr) + 1
      BY <3>1, <1>1, <1>3
    <3>2. CASE j \in i + 1..Len(tr)
      BY <3>2, <1>1, <2>1
    <3>3. QED
      BY <3>1, <3>2, <1>1, <2>1
  <2>4. QED
    BY <1>3, <2>2, <2>3 DEF Accounted
<1>4. QED
  BY <1>2, <1>3

\* Giving leases a final status and recording it keeps the table audited.  Rows that
\* had the status before may be recorded again.
LEMMA RecordedAudits ==
  ASSUME NEW tr \in Trail, NEW rows, NEW after, NEW ids \in SUBSET LeaseIds,
         NEW event \in Statuses \ {"active"},
         Audited(rows, tr), DOMAIN after = DOMAIN rows, ids \subseteq DOMAIN rows,
         \A l \in ids : after[l].status = event,
         \A l \in DOMAIN rows \ ids : after[l] = rows[l]
  PROVE  Audited(after, Recorded(tr, ids, event))
<1> DEFINE E == {[lease |-> l, event |-> event] : l \in ids}
<1>1. CASE ids = {}
  <2>1. Recorded(tr, ids, event) = tr /\ \A l \in DOMAIN rows : after[l] = rows[l]
    BY <1>1 DEF Recorded
  <2>2. QED
    BY <2>1 DEF Audited
<1>2. CASE ids # {}
  <2> DEFINE new == Append(tr, E)
  <2>1. Recorded(tr, ids, event) = new
    BY <1>2 DEF Recorded
  <2>2. E \in SUBSET LeaseEvent /\ event # "issued"
    BY DEF LeaseEvent, Statuses
  <2>3. /\ Len(new) = Len(tr) + 1
        /\ DOMAIN new = 1..Len(tr) + 1 /\ DOMAIN tr = 1..Len(tr) /\ Len(tr) \in Nat
        /\ \A i \in DOMAIN tr : new[i] = tr[i]
        /\ new[Len(tr) + 1] = E
    BY <2>2 DEF Trail
  <2>4. OneEventEach(new)
    <3> SUFFICES ASSUME NEW i \in DOMAIN new, NEW v \in new[i], NEW w \in new[i],
                        v.lease = w.lease
                 PROVE  v = w
      BY DEF OneEventEach
    <3>1. CASE i = Len(tr) + 1
      BY <3>1, <2>3
    <3>2. CASE i \in DOMAIN tr
      BY <3>2, <2>3 DEF Audited, OneEventEach
    <3>3. QED
      BY <3>1, <3>2, <2>3
  <2>5. \A i \in DOMAIN new : \A v \in new[i] : v.lease \in DOMAIN after
    <3> SUFFICES ASSUME NEW i \in DOMAIN new, NEW v \in new[i]
                 PROVE  v.lease \in DOMAIN rows
      OBVIOUS
    <3>1. CASE i = Len(tr) + 1
      BY <3>1, <2>3
    <3>2. CASE i \in DOMAIN tr
      BY <3>2, <2>3 DEF Audited
    <3>3. QED
      BY <3>1, <3>2, <2>3
  <2>6. ASSUME NEW id \in DOMAIN after
        PROVE  Accounted(new, id, after[id])
    <3>1. CASE id \in ids
      <4>1. after[id].status = event /\ event # "active"
        BY <3>1
      <4>2. [lease |-> id, event |-> event] \in new[Len(tr) + 1]
        BY <3>1, <2>3
      <4>3. Len(tr) + 1 \in DOMAIN new /\ (Len(tr) + 1) + 1..Len(new) = {}
        BY <2>3
      <4>4. QED
        BY <4>1, <4>2, <4>3 DEF Accounted
    <3>2. CASE id \notin ids
      <4>1. after[id] = rows[id] /\ Accounted(tr, id, rows[id])
        BY <3>2, <2>6 DEF Audited
      <4>2. \A w \in E : w.lease # id /\ w.event # "issued"
        BY <3>2, <2>2
      <4>3. \A w \in E : ~Fences(w, IssueOf(id, rows[id]))
        BY <4>2 DEF Fences, IssueOf
      <4>4. QED
        BY <4>1, <4>2, <4>3, <2>2, AppendedAccounts
    <3>3. QED
      BY <3>1, <3>2
  <2>7. QED
    BY <2>1, <2>4, <2>5, <2>6 DEF Audited
<1>3. QED
  BY <1>1, <1>2

\* Writing a lease and recording its issue keeps the table audited, provided that no
\* other active row is in conflict with it.
LEMMA IssuedAudits ==
  ASSUME NEW tr \in Trail, NEW rows, NEW id \in LeaseIds, NEW move \in Scopes,
         NEW token \in Nat, NEW expires, Audited(rows, tr),
         \A l \in DOMAIN rows \ {id} :
           rows[l].status = "active" /\ FencesMove(move, rows[l].move) => FALSE
  PROVE  Audited(Upserted(rows, id, NewRow(move, token, expires)),
                 Issued(tr, id, token, move))
<1> DEFINE after == Upserted(rows, id, NewRow(move, token, expires))
           issue == [lease |-> id, event |-> "issued", token |-> token, move |-> move]
           E == {issue}
           new == Append(tr, E)
<1>1. Issued(tr, id, token, move) = new
  BY DEF Issued
<1>2. E \in SUBSET LeaseEvent
  BY DEF LeaseEvent
<1>3. /\ Len(new) = Len(tr) + 1
      /\ DOMAIN new = 1..Len(tr) + 1 /\ DOMAIN tr = 1..Len(tr) /\ Len(tr) \in Nat
      /\ \A i \in DOMAIN tr : new[i] = tr[i]
      /\ new[Len(tr) + 1] = E
  BY <1>2 DEF Trail
<1>4. /\ DOMAIN after = DOMAIN rows \cup {id}
      /\ after[id] = NewRow(move, token, expires)
      /\ \A l \in DOMAIN rows \ {id} : after[l] = rows[l]
  BY DEF Upserted
<1>5. OneEventEach(new)
  <2> SUFFICES ASSUME NEW i \in DOMAIN new, NEW v \in new[i], NEW w \in new[i],
                      v.lease = w.lease
               PROVE  v = w
    BY DEF OneEventEach
  <2>1. CASE i = Len(tr) + 1
    BY <2>1, <1>3
  <2>2. CASE i \in DOMAIN tr
    BY <2>2, <1>3 DEF Audited, OneEventEach
  <2>3. QED
    BY <2>1, <2>2, <1>3
<1>6. \A i \in DOMAIN new : \A v \in new[i] : v.lease \in DOMAIN after
  <2> SUFFICES ASSUME NEW i \in DOMAIN new, NEW v \in new[i]
               PROVE  v.lease \in DOMAIN rows \cup {id}
    BY <1>4
  <2>1. CASE i = Len(tr) + 1
    BY <2>1, <1>3
  <2>2. CASE i \in DOMAIN tr
    BY <2>2, <1>3 DEF Audited
  <2>3. QED
    BY <2>1, <2>2, <1>3
<1>7. Accounted(new, id, after[id])
  <2>1. after[id].status = "active" /\ IssueOf(id, after[id]) = issue
    BY <1>4 DEF NewRow, IssueOf
  <2>2. Len(tr) + 1 \in DOMAIN new /\ issue \in new[Len(tr) + 1]
        /\ (Len(tr) + 1) + 1..Len(new) = {}
    BY <1>3
  <2>3. QED
    BY <2>1, <2>2 DEF Accounted
<1>8. ASSUME NEW l \in DOMAIN rows \ {id}
      PROVE  Accounted(new, l, after[l])
  <2>1. after[l] = rows[l] /\ Accounted(tr, l, rows[l])
    BY <1>4 DEF Audited
  <2>2. rows[l].status = "active" => ~Fences(issue, IssueOf(l, rows[l]))
    BY DEF Fences, IssueOf, FencesMove
  <2>3. issue.lease # l
    OBVIOUS
  <2>4. QED
    BY <2>1, <2>2, <2>3, <1>2, AppendedAccounts
<1>9. QED
  BY <1>1, <1>4, <1>5, <1>6, <1>7, <1>8 DEF Audited

-----------------------------------------------------------------------------
(* The methods.                                                             *)

AuditInv == Audited(leases, trail)

\* The lapse of due leases keeps the table audited.
LEMMA LapseAudits ==
  ASSUME TypeOK, AuditInv
  PROVE  Audited(Lapsed, LapsedTrail)
<1>1. /\ DOMAIN Lapsed = DOMAIN leases
      /\ DueLeases \subseteq DOMAIN leases
      /\ \A l \in DueLeases : Lapsed[l].status = "expired"
      /\ \A l \in DOMAIN leases \ DueLeases : Lapsed[l] = leases[l]
  <2>1. \A l \in DOMAIN leases : leases[l] \in LeaseRow
    BY DEF TypeOK
  <2>2. \A l \in DOMAIN leases : [leases[l] EXCEPT !.status = "expired"].status = "expired"
    BY <2>1 DEF LeaseRow
  <2>3. QED
    BY <2>2 DEF Lapsed, Marked, DueLeases
<1>2. "expired" \in Statuses \ {"active"} /\ DueLeases \in SUBSET LeaseIds
  BY <1>1 DEF Statuses, TypeOK
<1>3. trail \in Trail
  BY DEF TypeOK, Trail
<1>4. QED
  BY <1>1, <1>2, <1>3, RecordedAudits DEF AuditInv, LapsedTrail

\* A row given a status has it.
LEMMA SweptAreDead ==
  ASSUME NEW rows, rows \in [DOMAIN rows -> LeaseRow], NEW S, NEW l \in DOMAIN rows, l \in S
  PROVE  Marked(rows, S, "superseded")[l].status = "superseded"
<1>1. [rows[l] EXCEPT !.status = "superseded"].status = "superseded"
  BY DEF LeaseRow
<1>2. QED
  BY <1>1 DEF Marked

\* Superseding some active rows, and recording every row of a larger set that is
\* superseded by now, keeps an audited table audited.
LEMMA SweepAudits ==
  ASSUME NEW rows, NEW tr \in Trail, Audited(rows, tr), DOMAIN rows \subseteq LeaseIds,
         rows \in [DOMAIN rows -> LeaseRow],
         NEW live \in SUBSET DOMAIN rows, NEW swept, swept = Marked(rows, live, "superseded"),
         NEW dead \in SUBSET DOMAIN rows, live \subseteq dead,
         \A l \in dead : swept[l].status = "superseded"
  PROVE  Audited(swept, Recorded(tr, dead, "superseded"))
<1>1. \A l \in DOMAIN rows : [rows[l] EXCEPT !.status = "superseded"].status = "superseded"
  BY DEF LeaseRow
<1>2. /\ DOMAIN swept = DOMAIN rows
      /\ \A l \in DOMAIN rows \ dead : swept[l] = rows[l]
  BY <1>1 DEF Marked
<1>3. "superseded" \in Statuses \ {"active"} /\ dead \in SUBSET LeaseIds
  BY DEF Statuses
<1>4. QED
  BY <1>2, <1>3, RecordedAudits

\* acquire_lease.
LEMMA AcquireAudits ==
  ASSUME TypeOK, TokenBound, AuditInv, NEW id \in KnownIds, NEW ttl \in TTLs \cup {None},
         AcquireLease(id, ttl)
  PROVE  AuditInv'
<1> DEFINE others == {l \in DOMAIN leases \ {id} : Lapsed[l].status = "active"}
           swept  == Marked(Lapsed, others, "superseded")
           dead   == {l \in DOMAIN swept : swept[l].status = "superseded"}
           expires == IF ttl = None THEN Never ELSE clock + ttl
           tr == Recorded(LapsedTrail, dead, "superseded")
<1>1. /\ leases' = Upserted(swept, id, NewRow(WholeProof, NextToken, expires))
      /\ trail' = Issued(tr, id, NextToken, WholeProof)
  BY DEF AcquireLease
<1>2. id \in LeaseIds /\ WholeProof \in Scopes /\ NextToken \in Nat
  BY ConstantsAssumption, TopTokenIsMax DEF KnownIds, LeaseIds, TypeOK, Scopes, NextToken
<1>3. Ended(Lapsed) /\ Audited(Lapsed, LapsedTrail) /\ LapsedTrail \in Trail
  BY LapseEnds, LapseAudits, LapsedTrailType DEF Trail
<1>4. /\ DOMAIN Lapsed = DOMAIN leases /\ DOMAIN Lapsed \subseteq LeaseIds
      /\ Lapsed \in [DOMAIN Lapsed -> LeaseRow]
      /\ DOMAIN swept = DOMAIN Lapsed
  BY <1>3 DEF Ended, TypeOK, Marked
<1>5. Audited(swept, tr)
  <2>1. others \in SUBSET DOMAIN Lapsed /\ dead \in SUBSET DOMAIN Lapsed
    BY <1>4
  <2>2. others \subseteq dead
    BY <1>3, <1>4, SweptAreDead
  <2>3. QED
    BY <1>3, <1>4, <2>1, <2>2, SweepAudits
<1>6. tr \in Trail
  <2>1. "superseded" \in Statuses \ {"active"} /\ dead \in SUBSET LeaseIds
    BY <1>4 DEF Statuses
  <2>2. QED
    BY <1>3, <2>1, RecordedType DEF Trail
<1>7. \A l \in DOMAIN swept \ {id} : swept[l].status # "active"
  BY <1>3 DEF Marked, Ended
<1> HIDE DEF swept, tr, expires
<1>8. Audited(Upserted(swept, id, NewRow(WholeProof, NextToken, expires)),
              Issued(tr, id, NextToken, WholeProof))
  BY <1>2, <1>5, <1>6, <1>7, IssuedAudits
<1>9. QED
  BY <1>1, <1>8 DEF AuditInv

\* issue_lease.
LEMMA IssueAudits ==
  ASSUME TypeOK, TokenBound, AuditInv, NEW idOrNone \in KnownIds \cup {None},
         NEW move \in Moves \cup {NoMove}, NEW ttl \in TTLs, IssueLease(idOrNone, move, ttl)
  PROVE  AuditInv'
<1> DEFINE id     == IF idOrNone = None THEN serial + 1 ELSE idOrNone
           rivals == Rivals(id, move)
           ended  == {l \in rivals : Lapsed[l].status = "active"}
           swept  == Marked(Lapsed, ended, "superseded")
           dead   == {l \in rivals : swept[l].status = "superseded"}
           tr     == Recorded(LapsedTrail, dead, "superseded")
<1>1. /\ leases' = Upserted(swept, id, NewRow(move, NextToken, clock + ttl))
      /\ trail' = Issued(tr, id, NextToken, move)
  BY DEF IssueLease
<1>2. id \in LeaseIds /\ move \in Scopes /\ NextToken \in Nat
  BY ConstantsAssumption, TopTokenIsMax DEF KnownIds, LeaseIds, TypeOK, Scopes, NextToken
<1>3. Ended(Lapsed) /\ Audited(Lapsed, LapsedTrail) /\ LapsedTrail \in Trail
  BY LapseEnds, LapseAudits, LapsedTrailType DEF Trail
<1>4. /\ DOMAIN Lapsed = DOMAIN leases /\ DOMAIN Lapsed \subseteq LeaseIds
      /\ Lapsed \in [DOMAIN Lapsed -> LeaseRow]
      /\ DOMAIN swept = DOMAIN Lapsed
  BY <1>3 DEF Ended, TypeOK, Marked
<1>5. rivals \subseteq DOMAIN Lapsed /\ ended \subseteq rivals
  BY <1>4 DEF Rivals
<1> HIDE DEF rivals
<1>6. Audited(swept, tr)
  <2>1. ended \in SUBSET DOMAIN Lapsed /\ dead \in SUBSET DOMAIN Lapsed
    BY <1>5
  <2>2. ended \subseteq dead
    BY <1>4, <1>5, SweptAreDead
  <2>3. QED
    BY <1>3, <1>4, <2>1, <2>2, SweepAudits
<1>7. tr \in Trail
  <2>1. "superseded" \in Statuses \ {"active"} /\ dead \in SUBSET LeaseIds
    BY <1>4, <1>5 DEF Statuses
  <2>2. QED
    BY <1>3, <2>1, RecordedType DEF Trail
<1>8. \A l \in DOMAIN swept \ {id} :
        swept[l].status = "active" /\ FencesMove(move, swept[l].move) => FALSE
  <2> SUFFICES ASSUME NEW l \in DOMAIN swept \ {id}, swept[l].status = "active",
                      FencesMove(move, swept[l].move)
               PROVE  FALSE
    OBVIOUS
  <2>1. l \in DOMAIN leases \ {id} /\ swept[l].move = Lapsed[l].move
    BY <1>4 DEF Marked, LeaseRow
  <2>2. move # NoMove /\ Lapsed[l].move = move
    BY <2>1, ConstantsAssumption DEF FencesMove
  <2>3. l \in rivals
    BY <2>1, <2>2 DEF rivals, Rivals
  <2>4. Lapsed[l].status = "active"
    BY <1>4, <2>1 DEF Marked, LeaseRow
  <2>5. swept[l].status = "superseded"
    BY <1>4, <2>1, <2>3, <2>4 DEF Marked, LeaseRow
  <2>6. QED
    BY <2>5
<1> HIDE DEF swept, tr, id
<1>9. Audited(Upserted(swept, id, NewRow(move, NextToken, clock + ttl)),
              Issued(tr, id, NextToken, move))
  BY <1>2, <1>6, <1>7, <1>8, IssuedAudits
<1>10. QED
  BY <1>1, <1>9 DEF AuditInv

\* dispatch_lease.
LEMMA DispatchAudits ==
  ASSUME TypeOK, TokenBound, AuditInv, NEW n \in 1..2, NEW ranked \in [1..n -> Moves],
         NEW ttl \in TTLs, DispatchLease(ranked, ttl)
  PROVE  AuditInv'
<1> DEFINE free  == {i \in DOMAIN ranked : ranked[i] \notin Taken}
           id    == serial + 1
           first == CHOOSE i \in free : \A j \in free : i <= j
           move  == ranked[first]
<1>1. /\ free # {}
      /\ leases' = Upserted(Lapsed, id, NewRow(move, NextToken, clock + ttl))
      /\ trail' = Issued(LapsedTrail, id, NextToken, move)
  BY DEF DispatchLease
<1>2. first \in free
  <2>1. free \subseteq 1..2
    OBVIOUS
  <2>2. \E i \in free : \A j \in free : i <= j
    BY <1>1, <2>1
  <2>3. QED
    BY <2>2
<1>3. move \in Moves /\ move \notin Taken
  BY <1>2
<1>4. id \in LeaseIds /\ move \in Scopes /\ NextToken \in Nat
  BY <1>3, TopTokenIsMax DEF LeaseIds, TypeOK, Scopes, NextToken
<1>5. Ended(Lapsed) /\ Audited(Lapsed, LapsedTrail) /\ LapsedTrail \in Trail
  BY LapseEnds, LapseAudits, LapsedTrailType DEF Trail
<1>6. \A l \in DOMAIN Lapsed \ {id} :
        Lapsed[l].status = "active" /\ FencesMove(move, Lapsed[l].move) => FALSE
  BY <1>3, <1>5, ConstantsAssumption DEF Taken, FencesMove, Ended
<1> HIDE DEF id, move
<1>7. Audited(Upserted(Lapsed, id, NewRow(move, NextToken, clock + ttl)),
              Issued(LapsedTrail, id, NextToken, move))
  BY <1>4, <1>5, <1>6, IssuedAudits
<1>8. QED
  BY <1>1, <1>7 DEF AuditInv

\* release_lease.
LEMMA ReleaseAudits ==
  ASSUME TypeOK, AuditInv, NEW id \in DOMAIN leases, ReleaseLease(id)
  PROVE  AuditInv'
<1>1. leases' = Marked(leases, {id}, "released") /\ trail' = Recorded(trail, {id}, "released")
  BY DEF ReleaseLease
<1>2. leases[id] \in LeaseRow /\ trail \in Trail
  BY DEF TypeOK, Trail
<1>3. /\ DOMAIN leases' = DOMAIN leases
      /\ leases'[id].status = "released"
      /\ \A l \in DOMAIN leases \ {id} : leases'[l] = leases[l]
  BY <1>1, <1>2 DEF Marked, LeaseRow
<1>4. "released" \in Statuses \ {"active"} /\ {id} \in SUBSET LeaseIds
  BY DEF Statuses, TypeOK
<1>5. Audited(leases', Recorded(trail, {id}, "released"))
  BY <1>2, <1>3, <1>4, RecordedAudits DEF AuditInv
<1>6. QED
  BY <1>1, <1>5 DEF AuditInv

\* Every step: the methods above, a lapse that is committed, or no table at all.
LEMMA StepAudits ==
  ASSUME Inv, AuditInv, [Next]_vars
  PROVE  AuditInv'
<1>1. TypeOK /\ TokenBound
  BY DEF Inv, TableInv
<1>2. CASE leases' = Lapsed /\ trail' = LapsedTrail
  BY <1>1, <1>2, LapseAudits DEF AuditInv
<1>3. CASE UNCHANGED <<leases, trail>>
  BY <1>3 DEF AuditInv
<1>4. CASE LeaseOp
  BY <1>4, <1>1, <1>2, AcquireAudits, IssueAudits, DispatchAudits, ReleaseAudits
     DEF LeaseOp, ActiveLeases
<1>5. CASE AppendOp
  BY <1>5, <1>2, <1>3 DEF AppendOp, AppendUnleased, AppendLeased, AppendRefused, Relapse,
                          RelapseLost
<1>6. CASE Tick \/ SetClockBack \/ UNCHANGED vars
  BY <1>6, <1>3 DEF Tick, SetClockBack, vars
<1>7. QED
  BY <1>4, <1>5, <1>6 DEF Next

\* The trail explains the table throughout.
THEOREM AuditHolds == Spec => []AuditInv
<1>1. Init => AuditInv
  BY DEF Init, AuditInv, Audited, OneEventEach
<1>2. Inv /\ AuditInv /\ [Next]_vars => AuditInv'
  BY StepAudits
<1>3. QED
  BY <1>1, <1>2, InvHolds, PTL DEF Spec

\* The last event recorded of a lease is the one that accounts for its row.
LEMMA LastEventAccounts ==
  ASSUME TypeOK, AuditInv, NEW id \in DOMAIN leases
  PROVE  LastEvent(id) = IF leases[id].status = "active" THEN IssueOf(id, leases[id])
                         ELSE [lease |-> id, event |-> leases[id].status]
<1> DEFINE v == IF leases[id].status = "active" THEN IssueOf(id, leases[id])
                ELSE [lease |-> id, event |-> leases[id].status]
           at == {i \in DOMAIN trail : \E w \in trail[i] : w.lease = id}
<1>1. v.lease = id
  BY DEF IssueOf
<1>2. PICK i \in DOMAIN trail :
        v \in trail[i] /\ \A j \in i + 1..Len(trail) : \A w \in trail[j] : w.lease # id
  <2>1. Accounted(trail, id, leases[id])
    BY DEF AuditInv, Audited
  <2>2. CASE leases[id].status = "active"
    BY <2>1, <2>2, <1>1 DEF Accounted, Fences
  <2>3. CASE leases[id].status # "active"
    BY <2>1, <2>3 DEF Accounted
  <2>4. QED
    BY <2>2, <2>3
<1>3. DOMAIN trail = 1..Len(trail) /\ Len(trail) \in Nat
  BY DEF TypeOK
<1>4. i \in at /\ \A j \in at : j <= i
  BY <1>1, <1>2, <1>3
<1>5. (CHOOSE k \in at : \A j \in at : j <= k) = i
  BY <1>3, <1>4
<1>6. \A w \in trail[i] : w.lease = id => w = v
  BY <1>1, <1>2 DEF AuditInv, Audited, OneEventEach
<1>7. (CHOOSE w \in trail[i] : w.lease = id) = v
  BY <1>1, <1>2, <1>6
<1>8. QED
  BY <1>5, <1>7 DEF LastEvent

\* Every status a row has is the last transition the trail records of its lease,
\* whatever mix of lapses, supersessions, re-issues and releases has run.
THEOREM TableIsAudited == Spec => []AuditMatchesTable
<1>1. TypeOK /\ AuditInv => AuditMatchesTable
  BY LastEventAccounts DEF AuditMatchesTable, IssueOf
<1>2. QED
  BY <1>1, AuditHolds, TypeCorrect, PTL

-----------------------------------------------------------------------------
(* Commits, refusals and minted ids.                                        *)

\* An issue the trail holds at position i.
LEMMA IssueFound ==
  ASSUME NEW log \in Trail, NEW i \in DOMAIN log, NEW v \in log[i], v.event = "issued"
  PROVE  <<i, v>> \in IssuesOf(log, v.lease, v.token)
<1>1. <<i, v>> \in UNION {{j} \X log[j] : j \in DOMAIN log}
  OBVIOUS
<1>2. QED
  BY <1>1 DEF IssuesOf

\* A revision committed under a lease is committed by the latest acquisition: the trail
\* shows its issue, and nothing after it that fences it out.
THEOREM RevisionsAreFenced == Spec => CommitsAreFenced
<1> DEFINE A == Len(journal') > Len(journal) /\ journal'[Len(journal')].lease # None =>
                  LET e == journal'[Len(journal')] IN
                  \E iv \in IssuesOf(trail', e.lease, e.token) :
                    \A j \in iv[1] + 1..Len(trail') :
                      \A w \in trail'[j] : ~Fences(w, iv[2])
<1>1. Inv /\ AuditInv /\ AuditInv' /\ TypeOK' /\ [Next]_vars => [A]_vars
  <2> SUFFICES ASSUME Inv, AuditInv', TypeOK', Next, Len(journal') > Len(journal),
                      journal'[Len(journal')].lease # None
               PROVE  LET e == journal'[Len(journal')] IN
                      \E iv \in IssuesOf(trail', e.lease, e.token) :
                        \A j \in iv[1] + 1..Len(trail') :
                          \A w \in trail'[j] : ~Fences(w, iv[2])
    OBVIOUS
  <2>1. Len(journal) \in Nat /\ journal \in Seq(Entry)
    BY DEF Inv, TypeOK
  <2>2. journal' # journal
    BY <2>1
  <2>3. AppendOp
    BY <2>2 DEF Next, LeaseOp, AcquireLease, IssueLease, DispatchLease, ReleaseLease,
                ActiveLeases, Tick, SetClockBack
  <2>4. PICK p \in Procs :
          \/ \E base : AppendUnleased(p, base)
          \/ \E base, lease, token : AppendLeased(p, base, lease, token)
    BY <2>2, <2>3 DEF AppendOp, AppendRefused, Relapse, RelapseLost
  <2>5. ASSUME NEW base, AppendUnleased(p, base)
        PROVE  FALSE
    <3> DEFINE e == [lease |-> None, token |-> None, move |-> NoMove]
    <3>1. journal' = Append(journal, e)
      BY <2>5 DEF AppendUnleased
    <3>2. e \in Entry
      BY DEF Entry, Scopes
    <3>3. journal'[Len(journal')] = e
      BY <2>1, <3>1, <3>2
    <3>4. QED
      BY <3>3
  <2>6. ASSUME NEW base, NEW lease, NEW token, AppendLeased(p, base, lease, token)
        PROVE  \E iv \in IssuesOf(trail', lease, token) :
                 \A j \in iv[1] + 1..Len(trail') : \A w \in trail'[j] : ~Fences(w, iv[2])
    <3>1. leases' = Lapsed /\ HoldsLease(lease, token)
      BY <2>6 DEF AppendLeased
    <3>2. /\ lease \in DOMAIN leases' /\ leases'[lease].status = "active"
          /\ leases'[lease].token = token
      BY <3>1 DEF HoldsLease, LeaseNotHeld, Lapsed, Marked
    <3>3. Accounted(trail', lease, leases'[lease])
      BY <3>2 DEF AuditInv, Audited
    <3>4. PICK i \in DOMAIN trail' :
            /\ IssueOf(lease, leases'[lease]) \in trail'[i]
            /\ \A j \in i + 1..Len(trail') :
                 \A w \in trail'[j] : ~Fences(w, IssueOf(lease, leases'[lease]))
      BY <3>2, <3>3 DEF Accounted
    <3> DEFINE v == IssueOf(lease, leases'[lease])
    <3>5. v.lease = lease /\ v.token = token /\ v.event = "issued"
      BY <3>2 DEF IssueOf
    <3>6. trail' \in Trail
      BY DEF TypeOK, Trail
    <3>7. <<i, v>> \in IssuesOf(trail', lease, token)
      BY <3>4, <3>5, <3>6, IssueFound
    <3>8. QED
      BY <3>4, <3>7
  <2>7. ASSUME NEW base, NEW lease, NEW token, AppendLeased(p, base, lease, token)
        PROVE  journal'[Len(journal')].lease = lease /\ journal'[Len(journal')].token = token
    <3> DEFINE e == [lease |-> lease, token |-> token, move |-> leases[lease].move]
    <3>1. journal' = Append(journal, e)
      BY <2>7 DEF AppendLeased
    <3>2. journal'[Len(journal')] = e
      BY <2>1, <3>1
    <3>3. QED
      BY <3>2
  <2>8. QED
    BY <2>4, <2>5, <2>6, <2>7
<1>2. QED
  BY <1>1, InvHolds, AuditHolds, TypeCorrect, PTL DEF Spec, CommitsAreFenced

\* A serial only grows, and an id above it has a row only if a caller chose it.
LEMMA MintedStep ==
  ASSUME Inv, MintedIdsMeetOnlyCallers, [Next]_vars
  PROVE  MintedIdsMeetOnlyCallers'
<1>1. serial \in Nat
      /\ \A n \in DOMAIN leases : n \in Int /\ (n <= serial \/ n \in ExternalIds)
  BY DEF Inv, TypeOK, LeaseIds, MintedIdsMeetOnlyCallers
<1>2. DOMAIN Lapsed = DOMAIN leases
  BY DEF Lapsed, Marked
<1>3. \A id \in KnownIds : id \in Int /\ (id <= serial \/ id \in ExternalIds)
  BY <1>1, ConstantsAssumption DEF KnownIds
<1>4. ASSUME UNCHANGED serial, DOMAIN leases' = DOMAIN leases
      PROVE  MintedIdsMeetOnlyCallers'
  BY <1>4 DEF MintedIdsMeetOnlyCallers
<1>5. ASSUME NEW id \in KnownIds, NEW ttl, AcquireLease(id, ttl)
      PROVE  MintedIdsMeetOnlyCallers'
  <2>1. DOMAIN leases' = DOMAIN leases \cup {id} /\ UNCHANGED serial
    BY <1>5, <1>2 DEF AcquireLease, Upserted, Marked
  <2>2. QED
    BY <1>1, <1>3, <2>1 DEF MintedIdsMeetOnlyCallers
<1>6. ASSUME NEW idOrNone \in KnownIds \cup {None}, NEW move, NEW ttl,
             IssueLease(idOrNone, move, ttl)
      PROVE  MintedIdsMeetOnlyCallers'
  <2> DEFINE id == IF idOrNone = None THEN serial + 1 ELSE idOrNone
  <2>1. DOMAIN leases' = DOMAIN leases \cup {id} /\ serial' = LastSerial(idOrNone)
    BY <1>6, <1>2 DEF IssueLease, Upserted, Marked
  <2>2. QED
    BY <1>1, <1>3, <2>1 DEF MintedIdsMeetOnlyCallers, LastSerial
<1>7. ASSUME NEW ranked, NEW ttl, DispatchLease(ranked, ttl)
      PROVE  MintedIdsMeetOnlyCallers'
  <2>1. DOMAIN leases' = DOMAIN leases \cup {serial + 1} /\ serial' = serial + 1
    BY <1>7, <1>2 DEF DispatchLease, Upserted
  <2>2. QED
    BY <1>1, <2>1 DEF MintedIdsMeetOnlyCallers
<1>8. ASSUME \/ ActiveLeases \/ Tick \/ SetClockBack \/ UNCHANGED vars
             \/ \E id \in DOMAIN leases : ReleaseLease(id)
             \/ AppendOp
      PROVE  MintedIdsMeetOnlyCallers'
  <2>1. UNCHANGED serial /\ DOMAIN leases' = DOMAIN leases
    BY <1>8, <1>2 DEF ActiveLeases, Tick, SetClockBack, vars, ReleaseLease, Marked, AppendOp,
                      AppendUnleased, AppendLeased, AppendRefused, Relapse, RelapseLost
  <2>2. QED
    BY <1>4, <2>1
<1>9. QED
  BY <1>5, <1>6, <1>7, <1>8 DEF Next, LeaseOp

\* No id is minted twice, whatever ids callers choose: a row with the id that
\* issue_lease or dispatch_lease mints next was put there by a caller's own id.
THEOREM MintedIdsAreNew == Spec => []MintedIdsMeetOnlyCallers
<1>1. Init => MintedIdsMeetOnlyCallers
  BY DEF Init, MintedIdsMeetOnlyCallers
<1>2. Inv /\ MintedIdsMeetOnlyCallers /\ [Next]_vars => MintedIdsMeetOnlyCallers'
  BY MintedStep
<1>3. QED
  BY <1>1, <1>2, InvHolds, PTL DEF Spec

\* dispatch_lease answers as its docstring says, for callers that stay outside
\* the grammar of minted ids (JournalDispatch.cfg shows one that does not).
THEOREM DispatchesAnswer ==
  ASSUME ExternalIds \cap Nat \subseteq {0}
  PROVE  Spec => []DispatchAnswers
<1>1. Inv /\ MintedIdsMeetOnlyCallers => DispatchAnswers
  BY ConstantsAssumption DEF Inv, TypeOK, MintedIdsMeetOnlyCallers, DispatchAnswers
<1>2. QED
  BY <1>1, InvHolds, MintedIdsAreNew, PTL

-----------------------------------------------------------------------------
(* Refusals.  Between the two transactions of a refusal other callers run;  *)
(* what is owed to the refused process is either recorded already, or the   *)
(* lease it named is due and the next statement that touches it records it. *)

\* tr1 continues tr0, and whatever was issued meanwhile had the given token.
Continues(tr0, tr1, token) ==
  /\ Len(tr0) <= Len(tr1)
  /\ \A i \in DOMAIN tr0 : tr1[i] = tr0[i]
  /\ \A i \in Len(tr0) + 1..Len(tr1) : \A v \in tr1[i] :
       v.event = "issued" => v.token = token

\* The part of tr beyond position i names the lease.
NamedAfter(tr, i, lease) == \E j \in i + 1..Len(tr) : \E w \in tr[j] : w.lease = lease

\* Each acquisition of `lease` with this token has been followed by another event of it.
Overtaken(tr, lease, token) == \A iv \in IssuesOf(tr, lease, token) : NamedAfter(tr, iv[1], lease)

\* What holds of a process between the two transactions of its refusal.
RefusalInv ==
  \A p \in Procs : call[p].at = "relapse" =>
    /\ call[p].token # None =>
         /\ call[p].token \in Nat
         /\ \E id \in DOMAIN leases : call[p].token <= leases[id].token
    /\ Overtaken(trail, call[p].lease, call[p].token) \/ call[p].lease \in DueLeases

\* Two extensions of the trail are one, and what the first names stays named.
LEMMA ContinuesOnward ==
  ASSUME NEW tr0 \in Trail, NEW tr1 \in Trail, NEW tr2 \in Trail, NEW token,
         Continues(tr0, tr1, token), Continues(tr1, tr2, token)
  PROVE  /\ Continues(tr0, tr2, token)
         /\ \A lease : NamedAfter(tr1, Len(tr0), lease) => NamedAfter(tr2, Len(tr0), lease)
<1>1. /\ Len(tr0) \in Nat /\ Len(tr1) \in Nat /\ Len(tr2) \in Nat
      /\ DOMAIN tr0 = 1..Len(tr0) /\ DOMAIN tr1 = 1..Len(tr1)
  BY DEF Trail
<1>2. Len(tr0) <= Len(tr2) /\ \A i \in DOMAIN tr0 : tr2[i] = tr0[i]
  BY <1>1 DEF Continues
<1>3. ASSUME NEW i \in Len(tr0) + 1..Len(tr2), NEW v \in tr2[i], v.event = "issued"
      PROVE  v.token = token
  <2>1. CASE i \in Len(tr1) + 1..Len(tr2)
    BY <2>1, <1>3 DEF Continues
  <2>2. CASE i \in Len(tr0) + 1..Len(tr1)
    BY <2>2, <1>1, <1>3 DEF Continues
  <2>3. QED
    BY <2>1, <2>2, <1>1
<1>4. ASSUME NEW lease, NamedAfter(tr1, Len(tr0), lease)
      PROVE  NamedAfter(tr2, Len(tr0), lease)
  BY <1>1, <1>4 DEF NamedAfter, Continues
<1>5. QED
  BY <1>2, <1>3, <1>4 DEF Continues

\* Recording an ending continues the trail and names the leases that ended.
LEMMA RecordedContinues ==
  ASSUME NEW tr \in Trail, NEW ids \in SUBSET LeaseIds, NEW event \in Statuses \ {"active"},
         NEW token
  PROVE  /\ Continues(tr, Recorded(tr, ids, event), token)
         /\ \A l \in ids : NamedAfter(Recorded(tr, ids, event), Len(tr), l)
<1> DEFINE E == {[lease |-> l, event |-> event] : l \in ids}
           new == Append(tr, E)
<1>1. CASE ids = {}
  BY <1>1 DEF Recorded, Continues, Trail
<1>2. CASE ids # {}
  <2>1. Recorded(tr, ids, event) = new
    BY <1>2 DEF Recorded
  <2>2. E \in SUBSET LeaseEvent /\ event # "issued"
    BY DEF LeaseEvent, Statuses
  <2>3. /\ Len(new) = Len(tr) + 1 /\ Len(tr) \in Nat /\ DOMAIN tr = 1..Len(tr)
        /\ \A i \in DOMAIN tr : new[i] = tr[i]
        /\ new[Len(tr) + 1] = E
    BY <2>2 DEF Trail
  <2>4. \A v \in E : v.event # "issued"
    BY <2>2
  <2>5. Continues(tr, new, token)
    BY <2>3, <2>4 DEF Continues
  <2>6. \A l \in ids : NamedAfter(new, Len(tr), l)
    <3> SUFFICES ASSUME NEW l \in ids PROVE NamedAfter(new, Len(tr), l)
      OBVIOUS
    <3>1. [lease |-> l, event |-> event] \in new[Len(tr) + 1]
      BY <2>3
    <3>2. QED
      BY <2>3, <3>1 DEF NamedAfter
  <2>7. QED
    BY <2>1, <2>5, <2>6
<1>3. QED
  BY <1>1, <1>2

\* So does recording an issue, of the token issued.
LEMMA IssuedContinues ==
  ASSUME NEW tr \in Trail, NEW id \in LeaseIds, NEW token \in Nat, NEW move \in Scopes
  PROVE  Continues(tr, Issued(tr, id, token, move), token)
<1> DEFINE E == {[lease |-> id, event |-> "issued", token |-> token, move |-> move]}
           new == Append(tr, E)
<1>1. Issued(tr, id, token, move) = new
  BY DEF Issued
<1>2. E \in SUBSET LeaseEvent
  BY DEF LeaseEvent
<1>3. /\ Len(new) = Len(tr) + 1 /\ Len(tr) \in Nat /\ DOMAIN tr = 1..Len(tr)
      /\ \A i \in DOMAIN tr : new[i] = tr[i]
      /\ new[Len(tr) + 1] = E
  BY <1>2 DEF Trail
<1>4. QED
  BY <1>1, <1>3 DEF Continues

\* A method that lapses due leases first, whatever it records after, continues the trail
\* and names every due lease.
LEMMA LapseFirst ==
  ASSUME TypeOK, NEW tr \in Trail, NEW token, Continues(LapsedTrail, tr, token)
  PROVE  Continues(trail, tr, token) /\ \A l \in DueLeases : NamedAfter(tr, Len(trail), l)
<1>1. trail \in Trail /\ LapsedTrail \in Trail
  BY LapsedTrailType DEF TypeOK, Trail
<1>2. DueLeases \in SUBSET LeaseIds /\ "expired" \in Statuses \ {"active"}
  BY DEF TypeOK, DueLeases, Statuses
<1>3. /\ Continues(trail, LapsedTrail, token)
      /\ \A l \in DueLeases : NamedAfter(LapsedTrail, Len(trail), l)
  BY <1>1, <1>2, RecordedContinues DEF LapsedTrail
<1>4. QED
  BY <1>1, <1>3, ContinuesOnward

\* The trail's part of a step, and what becomes of a due lease in it.
TrailStep ==
  /\ Continues(trail, trail', NextToken)
  /\ \A l \in DueLeases : l \in DueLeases' \/ NamedAfter(trail', Len(trail), l)

\* Every step of the store, while the clock goes forward, only extends the trail, and a
\* lease that was due is due still or named by what was added.
LEMMA EveryTrailStep ==
  ASSUME Inv, TypeOK', ~StepsBack, [Next]_vars
  PROVE  TrailStep
<1>1. TypeOK /\ TokenBound /\ trail \in Trail /\ trail' \in Trail /\ LapsedTrail \in Trail
      /\ clock \in Nat
  BY LapsedTrailType DEF Inv, TableInv, TypeOK, Trail
<1>2. NextToken \in Nat
  BY <1>1, TopTokenIsMax DEF NextToken
<1>3. ASSUME Continues(LapsedTrail, trail', NextToken)
      PROVE  TrailStep
  BY <1>1, <1>3, LapseFirst DEF TrailStep
<1>4. DOMAIN Lapsed = DOMAIN leases /\ DOMAIN leases \subseteq LeaseIds
  BY <1>1 DEF Lapsed, Marked, TypeOK
<1>5. \A id \in KnownIds : id \in LeaseIds
  BY <1>4, ConstantsAssumption DEF KnownIds, LeaseIds
<1>6. ASSUME NEW dead \in SUBSET LeaseIds, NEW id \in LeaseIds, NEW move \in Scopes,
             trail' = Issued(Recorded(LapsedTrail, dead, "superseded"), id, NextToken, move)
      PROVE  TrailStep
  <2> DEFINE tr == Recorded(LapsedTrail, dead, "superseded")
  <2>1. "superseded" \in Statuses \ {"active"}
    BY DEF Statuses
  <2>2. tr \in Trail /\ Continues(LapsedTrail, tr, NextToken)
    BY <1>1, <2>1, RecordedType, RecordedContinues DEF Trail
  <2>3. Continues(tr, trail', NextToken)
    BY <1>2, <1>6, <2>2, IssuedContinues
  <2>4. QED
    BY <1>1, <1>3, <2>2, <2>3, ContinuesOnward
<1>7. ASSUME NEW id \in KnownIds, NEW ttl, AcquireLease(id, ttl)
      PROVE  TrailStep
  <2> DEFINE others == {l \in DOMAIN leases \ {id} : Lapsed[l].status = "active"}
             swept  == Marked(Lapsed, others, "superseded")
             dead   == {l \in DOMAIN swept : swept[l].status = "superseded"}
  <2>1. dead \in SUBSET LeaseIds /\ WholeProof \in Scopes
    BY <1>4 DEF Marked, Scopes
  <2>2. trail' = Issued(Recorded(LapsedTrail, dead, "superseded"), id, NextToken, WholeProof)
    BY <1>7 DEF AcquireLease
  <2> HIDE DEF dead
  <2>3. QED
    BY <1>5, <1>6, <2>1, <2>2
<1>8. ASSUME NEW idOrNone \in KnownIds \cup {None}, NEW move \in Moves \cup {NoMove}, NEW ttl,
             IssueLease(idOrNone, move, ttl)
      PROVE  TrailStep
  <2> DEFINE id     == IF idOrNone = None THEN serial + 1 ELSE idOrNone
             rivals == Rivals(id, move)
             swept  == Marked(Lapsed, {l \in rivals : Lapsed[l].status = "active"}, "superseded")
             dead   == {l \in rivals : swept[l].status = "superseded"}
  <2>1. dead \in SUBSET LeaseIds
    BY <1>4 DEF Rivals
  <2>2. id \in LeaseIds /\ move \in Scopes
    BY <1>1, <1>5 DEF LeaseIds, TypeOK, Scopes
  <2>3. trail' = Issued(Recorded(LapsedTrail, dead, "superseded"), id, NextToken, move)
    BY <1>8 DEF IssueLease
  <2> HIDE DEF dead, id
  <2>4. QED
    BY <1>6, <2>1, <2>2, <2>3
<1>9. ASSUME NEW n \in 1..2, NEW ranked \in [1..n -> Moves], NEW ttl, DispatchLease(ranked, ttl)
      PROVE  TrailStep
  <2> DEFINE free  == {i \in DOMAIN ranked : ranked[i] \notin Taken}
             first == CHOOSE i \in free : \A j \in free : i <= j
             move  == ranked[first]
  <2>1. free # {} /\ trail' = Issued(LapsedTrail, serial + 1, NextToken, move)
    BY <1>9 DEF DispatchLease
  <2>2. move \in Moves
    <3>1. free \subseteq 1..2
      OBVIOUS
    <3>2. \E i \in free : \A j \in free : i <= j
      BY <2>1, <3>1
    <3>3. QED
      BY <3>2
  <2>3. serial + 1 \in LeaseIds /\ move \in Scopes
    BY <1>1, <2>2 DEF LeaseIds, TypeOK, Scopes
  <2> HIDE DEF move
  <2>4. QED
    BY <1>1, <1>2, <1>3, <2>1, <2>3, IssuedContinues
<1>10. ASSUME NEW id \in DOMAIN leases, ReleaseLease(id)
       PROVE  TrailStep
  <2>1. {id} \in SUBSET LeaseIds /\ "released" \in Statuses \ {"active"}
    BY <1>4 DEF Statuses
  <2>2. trail' = Recorded(trail, {id}, "released")
    BY <1>10 DEF ReleaseLease
  <2>3. Continues(trail, trail', NextToken) /\ NamedAfter(trail', Len(trail), id)
    BY <1>1, <2>1, <2>2, RecordedContinues
  <2>4. \A l \in DueLeases \ {id} : l \in DueLeases'
    BY <1>10 DEF ReleaseLease, Marked, DueLeases, IsDue
  <2>5. QED
    BY <2>3, <2>4 DEF TrailStep
<1>11. CASE trail' = LapsedTrail
  <2>1. Continues(LapsedTrail, trail', NextToken)
    BY <1>1, <1>11 DEF Continues, Trail
  <2>2. QED
    BY <1>3, <2>1
<1>12. CASE UNCHANGED <<leases, trail>> /\ clock <= clock'
  <2>1. Continues(trail, trail', NextToken)
    BY <1>1, <1>12 DEF Continues, Trail
  <2>2. ASSUME NEW l \in DueLeases
        PROVE  l \in DueLeases'
    <3>1. leases[l].expires \in Nat
      BY <1>1 DEF TypeOK, LeaseRow, DueLeases, IsDue
    <3>2. clock' \in Nat
      BY DEF TypeOK
    <3>3. QED
      BY <1>1, <1>12, <3>1, <3>2 DEF DueLeases, IsDue
  <2>3. QED
    BY <2>1, <2>2 DEF TrailStep
<1>13. CASE Tick \/ SetClockBack \/ UNCHANGED vars
  BY <1>1, <1>12, <1>13 DEF Tick, SetClockBack, vars
<1>14. CASE AppendOp
  <2>1. trail' = LapsedTrail \/ UNCHANGED <<leases, trail, clock>>
    BY <1>14 DEF AppendOp, AppendUnleased, AppendLeased, AppendRefused, Relapse, RelapseLost
  <2>2. QED
    BY <1>1, <1>11, <1>12, <2>1
<1>15. QED
  BY <1>7, <1>8, <1>9, <1>10, <1>11, <1>13, <1>14 DEF Next, LeaseOp, ActiveLeases


\* What was owed stays owed or is recorded.
LEMMA OwedStays ==
  ASSUME Inv, TypeOK', TrailStep, NEW lease, NEW token,
         token # None => token \in Nat /\ \E id \in DOMAIN leases : token <= leases[id].token
  PROVE  /\ Overtaken(trail, lease, token) => Overtaken(trail', lease, token)
         /\ NamedAfter(trail', Len(trail), lease) => Overtaken(trail', lease, token)
<1>1. /\ trail \in Trail /\ trail' \in Trail
      /\ Len(trail) \in Nat /\ Len(trail') \in Nat
      /\ DOMAIN trail = 1..Len(trail) /\ DOMAIN trail' = 1..Len(trail')
  BY DEF Inv, TypeOK, Trail
<1>2. token # NextToken
  <2>1. TypeOK /\ TokenBound
    BY DEF Inv, TableInv
  <2>2. /\ TopToken \in Nat /\ NextToken = TopToken + 1
        /\ \A l \in DOMAIN leases : leases[l].token \in Nat /\ leases[l].token <= TopToken
    BY <2>1, TopTokenIsMax DEF NextToken
  <2>3. None \notin Int
    BY ConstantsAssumption
  <2>4. QED
    BY <2>2, <2>3
<1>3. ASSUME NEW iv \in IssuesOf(trail', lease, token)
      PROVE  iv \in IssuesOf(trail, lease, token) /\ iv[1] \in 1..Len(trail)
  <2>1. PICK i \in DOMAIN trail' : iv \in {i} \X trail'[i]
    BY <1>3 DEF IssuesOf
  <2>2. PICK v \in trail'[i] : iv = <<i, v>>
    BY <2>1
  <2>3. v.event = "issued" /\ v.lease = lease /\ v.token = token
    BY <1>3, <2>2 DEF IssuesOf
  <2>4. i \in 1..Len(trail)
    BY <1>1, <1>2, <2>2, <2>3 DEF TrailStep, Continues
  <2>5. v \in trail[i]
    BY <1>1, <2>2, <2>4 DEF TrailStep, Continues
  <2>6. QED
    BY <1>1, <2>2, <2>3, <2>4, <2>5, IssueFound
<1>4. CASE Overtaken(trail, lease, token)
  <2>1. ASSUME NEW iv \in IssuesOf(trail', lease, token)
        PROVE  NamedAfter(trail', iv[1], lease)
    <3>1. NamedAfter(trail, iv[1], lease) /\ iv[1] \in 1..Len(trail)
      BY <1>3, <1>4, <2>1 DEF Overtaken
    <3>2. QED
      BY <1>1, <3>1 DEF NamedAfter, TrailStep, Continues
  <2>2. QED
    BY <2>1 DEF Overtaken
<1>5. CASE NamedAfter(trail', Len(trail), lease)
  <2>1. ASSUME NEW iv \in IssuesOf(trail', lease, token)
        PROVE  NamedAfter(trail', iv[1], lease)
    <3>1. iv[1] \in 1..Len(trail)
      BY <1>3, <2>1
    <3>2. QED
      BY <1>1, <1>5, <3>1 DEF NamedAfter
  <2>2. QED
    BY <2>1 DEF Overtaken
<1>6. QED
  BY <1>4, <1>5

\* A lease with no active row, once due leases have lapsed, is due or has been
\* overtaken under every token.
LEMMA RefusedIsOwed ==
  ASSUME TypeOK, AuditInv, NEW lease, NEW token, LeaseNotHeld(lease)
  PROVE  Overtaken(trail, lease, token) \/ lease \in DueLeases
<1> SUFFICES ASSUME lease \notin DueLeases, NEW iv \in IssuesOf(trail, lease, token)
             PROVE  NamedAfter(trail, iv[1], lease)
  BY DEF Overtaken
<1>1. PICK i \in DOMAIN trail : iv \in {i} \X trail[i]
  BY DEF IssuesOf
<1>2. PICK v \in trail[i] : iv = <<i, v>>
  BY <1>1
<1>3. v.event = "issued" /\ v.lease = lease
  BY <1>2 DEF IssuesOf
<1>4. lease \in DOMAIN leases
  BY <1>3 DEF AuditInv, Audited
<1>5. leases[lease].status \in Statuses \ {"active"}
  <2>1. leases[lease] \in LeaseRow
    BY <1>4 DEF TypeOK
  <2>2. Lapsed[lease] = leases[lease]
    BY <1>4 DEF Lapsed, Marked
  <2>3. QED
    BY <1>4, <2>1, <2>2 DEF LeaseNotHeld, LeaseRow
<1>6. Accounted(trail, lease, leases[lease])
  BY <1>4 DEF AuditInv, Audited
<1> DEFINE end == [lease |-> lease, event |-> leases[lease].status]
<1>7. PICK k \in DOMAIN trail :
        end \in trail[k] /\ \A j \in k + 1..Len(trail) : \A w \in trail[j] : w.lease # lease
  BY <1>5, <1>6 DEF Accounted
<1>8. i # k
  <2>1. end # v
    BY <1>3, <1>5 DEF Statuses
  <2>2. QED
    BY <1>2, <1>3, <1>7, <2>1 DEF AuditInv, Audited, OneEventEach
<1>9. DOMAIN trail = 1..Len(trail) /\ Len(trail) \in Nat
  BY DEF TypeOK
<1>10. i < k
  BY <1>2, <1>3, <1>7, <1>8, <1>9
<1>11. QED
  BY <1>2, <1>7, <1>9, <1>10 DEF NamedAfter

\* No token of the table is lost to a smaller one.
LEMMA TokensStayBounded ==
  ASSUME Inv, TableStep, NEW t \in Nat, \E id \in DOMAIN leases : t <= leases[id].token
  PROVE  \E id \in DOMAIN leases' : t <= leases'[id].token
<1>1. TypeOK /\ TokenBound
  BY DEF Inv, TableInv
<1>2. CASE Ended(leases')
  BY <1>2 DEF Ended
<1>3. ASSUME NEW id \in LeaseIds, NEW move \in Scopes, NewLease(id, move)
      PROVE  \E l \in DOMAIN leases' : t <= leases'[l].token
  <2>1. id \in DOMAIN leases' /\ leases'[id].token = NextToken
    BY <1>1, <1>3, NewLeaseFacts
  <2>2. /\ TopToken \in Nat
        /\ \A l \in DOMAIN leases : leases[l].token \in Nat /\ leases[l].token <= TopToken
    BY <1>1, TopTokenIsMax
  <2>3. t <= NextToken
    BY <2>2 DEF NextToken
  <2>4. QED
    BY <2>1, <2>3
<1>4. QED
  BY <1>2, <1>3 DEF TableStep

\* What a refusal still owes the trail stays owed, or is paid by whoever runs first.
LEMMA StepRefusals ==
  ASSUME Inv, AuditInv, RefusalInv, TypeOK', TrailStep, TableStep, [Next]_vars
  PROVE  RefusalInv'
<1>1. TypeOK /\ TokenBound
  BY DEF Inv, TableInv
<1> SUFFICES ASSUME NEW p \in Procs, call'[p].at = "relapse"
             PROVE  /\ call'[p].token # None =>
                         /\ call'[p].token \in Nat
                         /\ \E id \in DOMAIN leases' : call'[p].token <= leases'[id].token
                    /\ Overtaken(trail', call'[p].lease, call'[p].token)
                         \/ call'[p].lease \in DueLeases'
  BY DEF RefusalInv
<1>2. CASE call'[p] = call[p]
  <2>1. /\ call[p].token # None =>
             /\ call[p].token \in Nat
             /\ \E id \in DOMAIN leases : call[p].token <= leases[id].token
        /\ Overtaken(trail, call[p].lease, call[p].token) \/ call[p].lease \in DueLeases
    BY <1>2 DEF RefusalInv
  <2>2. /\ Overtaken(trail, call[p].lease, call[p].token)
             => Overtaken(trail', call[p].lease, call[p].token)
        /\ NamedAfter(trail', Len(trail), call[p].lease)
             => Overtaken(trail', call[p].lease, call[p].token)
    BY <2>1, OwedStays
  <2>3. call[p].lease \in DueLeases =>
          \/ call[p].lease \in DueLeases'
          \/ NamedAfter(trail', Len(trail), call[p].lease)
    BY DEF TrailStep
  <2>4. QED
    BY <1>2, <2>1, <2>2, <2>3, TokensStayBounded
<1>3. CASE call'[p] # call[p]
  <2>1. AppendOp
    BY <1>3 DEF Next, vars, LeaseOp, AcquireLease, IssueLease, DispatchLease, ReleaseLease,
                ActiveLeases, Tick, SetClockBack
  <2>2. PICK q \in Procs, base \in (0..HeadRevision) \cup {None},
             lease \in KnownIds \cup {None}, token \in (1..TopToken) \cup {None} : AppendRefused(q, base, lease, token)
    <3>1. call = [u \in Procs |-> call[u]]
      BY <1>1 DEF TypeOK
    <3>2. ASSUME NEW q \in Procs, NEW base, AppendUnleased(q, base)
          PROVE  FALSE
      BY <1>3, <3>1, <3>2 DEF AppendUnleased, Idle
    <3>3. ASSUME NEW q \in Procs, NEW base, NEW lease, NEW token,
                 AppendLeased(q, base, lease, token)
          PROVE  FALSE
      BY <1>3, <3>1, <3>3 DEF AppendLeased, Idle
    <3>4. ASSUME NEW q \in Procs, Relapse(q)
          PROVE  FALSE
      <4>1. call[q] \in [at : {"relapse", "refused"},
                         lease : LeaseIds \cup {None}, token : Nat \cup {None}]
        BY <1>1, <3>4 DEF Relapse, TypeOK, Calls, Idle
      <4>2. [call[q] EXCEPT !.at = "refused"].at = "refused"
        BY <4>1
      <4>3. QED
        BY <1>3, <3>1, <3>4, <4>2 DEF Relapse
    <3>5. ASSUME NEW q \in Procs, RelapseLost(q)
          PROVE  FALSE
      BY <1>3, <3>1, <3>5 DEF RelapseLost, Idle
    <3>6. PICK q \in Procs :
            \E base \in (0..HeadRevision) \cup {None}, lease \in KnownIds \cup {None},
               token \in (1..TopToken) \cup {None} : AppendRefused(q, base, lease, token)
      BY <2>1, <3>2, <3>3, <3>4, <3>5 DEF AppendOp
    <3>7. QED
      BY <3>6
  <2>3. /\ call' = [call EXCEPT ![q] = [at |-> "relapse", lease |-> lease, token |-> token]]
        /\ LeaseNotHeld(lease) /\ UNCHANGED <<clock, leases, trail>>
    BY <2>2 DEF AppendRefused
  <2>4. call'[p].lease = lease /\ call'[p].token = token
    BY <1>1, <1>3, <2>3 DEF TypeOK
  <2>5. Overtaken(trail, lease, token) \/ lease \in DueLeases
    BY <1>1, <2>3, RefusedIsOwed
  <2>6. DueLeases' = DueLeases
    BY <2>3 DEF DueLeases, IsDue
  <2>7. token # None => token \in Nat /\ \E id \in DOMAIN leases : token <= leases[id].token
    <3> SUFFICES ASSUME token # None
                 PROVE  token \in Nat /\ \E id \in DOMAIN leases : token <= leases[id].token
      OBVIOUS
    <3>1. token \in 1..TopToken /\ TopToken \in Nat
      BY <1>1, TopTokenIsMax
    <3>2. PICK top \in Nat :
            /\ top = 0 \/ \E l \in DOMAIN leases : leases[l].token = top
            /\ \A l \in DOMAIN leases : leases[l].token <= top
      BY <1>1 DEF TokenBound
    <3>3. TopToken = 0 \/ \E l \in DOMAIN leases : leases[l].token = TopToken
      <4> DEFINE tokens == {leases[l].token : l \in DOMAIN leases} \cup {0}
      <4>1. \A l \in DOMAIN leases : leases[l].token \in Nat
        BY <1>1, TopTokenIsMax
      <4>2. top \in tokens /\ \A u \in tokens : u <= top
        BY <3>2, <4>1
      <4>3. TopToken \in tokens
        BY <4>2 DEF TopToken
      <4>4. QED
        BY <4>3
    <3>4. QED
      BY <3>1, <3>3
  <2>8. QED
    BY <2>3, <2>4, <2>5, <2>6, <2>7
<1>4. QED
  BY <1>2, <1>3

\* While the wall clock is not set back, LEASE_NOT_HELD reaches a process that named a
\* token really issued to that lease only once the trail tells why: although the refusing
\* transaction was rolled back, with the lapse inside it, and other callers ran since.
THEOREM RefusalsAreAudited ==
  ASSUME ~StepsBack
  PROVE  Spec => RefusalIsAudited
<1> DEFINE A == \A p \in Procs :
                  call[p].at = "relapse" /\ call'[p].at = "refused" =>
                    \A iv \in IssuesOf(trail', call[p].lease, call[p].token) :
                      \E j \in iv[1] + 1..Len(trail') :
                        \E w \in trail'[j] : w.lease = call[p].lease
<1>1. Init => RefusalInv
  BY DEF Init, RefusalInv, Idle
<1>2. Inv /\ AuditInv /\ RefusalInv /\ TypeOK' /\ [Next]_vars => RefusalInv'
  BY EveryTrailStep, StepInv, StepRefusals
<1>3. Inv /\ RefusalInv /\ TypeOK' /\ [Next]_vars => [A]_vars
  <2> SUFFICES ASSUME Inv, RefusalInv, TypeOK', Next, NEW p \in Procs,
                      call[p].at = "relapse", call'[p].at = "refused"
               PROVE  Overtaken(trail', call[p].lease, call[p].token)
    BY DEF Overtaken, NamedAfter
  <2>1. TypeOK /\ TrailStep
    BY EveryTrailStep DEF Inv
  <2>2. trail' = LapsedTrail
    <3>1. call = [u \in Procs |-> call[u]]
      BY <2>1 DEF TypeOK
    <3>2. call' # call
      OBVIOUS
    <3>3. AppendOp
      BY <3>2 DEF Next, LeaseOp, AcquireLease, IssueLease, DispatchLease, ReleaseLease,
                  ActiveLeases, Tick, SetClockBack
    <3>4. ASSUME NEW q \in Procs, NEW c, call' = [call EXCEPT ![q] = c], c.at # "refused"
          PROVE  FALSE
      BY <3>1, <3>4
    <3>5. ASSUME NEW q \in Procs, NEW base, NEW lease, NEW token,
                 \/ AppendUnleased(q, base)
                 \/ AppendLeased(q, base, lease, token)
                 \/ AppendRefused(q, base, lease, token)
                 \/ RelapseLost(q)
          PROVE  FALSE
      BY <3>4, <3>5 DEF AppendUnleased, AppendLeased, AppendRefused, RelapseLost, Idle
    <3>6. \E q \in Procs : Relapse(q)
      BY <3>3, <3>5 DEF AppendOp
    <3>7. QED
      BY <3>6 DEF Relapse
  <2>3. LapsedTrail \in Trail
    BY <2>1, LapsedTrailType DEF Trail
  <2>4. Continues(LapsedTrail, trail', NextToken)
    BY <2>2, <2>3 DEF Continues, Trail
  <2>5. \A l \in DueLeases : NamedAfter(trail', Len(trail), l)
    <3>1. trail' \in Trail
      BY DEF TypeOK, Trail
    <3>2. QED
      BY <2>1, <2>4, <3>1, LapseFirst
  <2>6. QED
    BY <2>1, <2>5, OwedStays DEF RefusalInv
<1>4. QED
  BY <1>1, <1>2, <1>3, InvHolds, AuditHolds, TypeCorrect, PTL DEF Spec, RefusalIsAudited

=============================================================================
