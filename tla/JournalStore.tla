---------------------------- MODULE JournalStore ----------------------------
(***************************************************************************)
(* One proof's rows of the SQLite commit journal: the revision log, the    *)
(* lease table with its fencing tokens, the serial of minted lease ids and *)
(* the append-only audit trail of lease transitions.                       *)
(*                                                                         *)
(* Every public method runs inside one BEGIN IMMEDIATE transaction, so one *)
(* method is one atomic action; the callers are any number of processes    *)
(* holding whatever revision, lease id or token they saw earlier, so the   *)
(* arguments are chosen freely among those values.  A call that raises     *)
(* after ROLLBACK with nothing left to do (JOURNAL_BUSY,                   *)
(* STALE_BASE_REVISION, FENCING_TOKEN_SUPERSEDED, a primary-key clash)     *)
(* leaves every table as it was: it is a stuttering step.  The one refusal *)
(* that is not atomic is LEASE_NOT_HELD, which rolls back and then lapses  *)
(* due leases in a second transaction; other callers may run in between.   *)
(***************************************************************************)
EXTENDS Integers, Sequences

CONSTANTS
  Moves,        \* research moves a lease may cover (selected_move_id)
  NoMove,       \* selected_move_id NULL on a worker's lease
  WholeProof,   \* a proof-level lease: worker_class '' and no move
  ExternalIds,  \* lease ids callers choose themselves
  Never,        \* expires_at NULL
  None,         \* an argument left out
  Procs,        \* processes calling append
  TTLs,         \* positive ttl_seconds values callers pass
  MaxToken,     \* bound on fencing tokens issued
  MaxRevision,  \* bound on the length of the journal
  MaxClock,     \* bound on the wall clock
  StepsBack     \* may the wall clock be set back?

(* The id "<proof>/ls-N" is the number N, whoever wrote it: a caller may     *)
(* pass an id that the store has yet to mint.  Ids outside that grammar are  *)
(* not positive.                                                             *)
ASSUME ConstantsAssumption ==
  /\ NoMove \notin Moves /\ WholeProof \notin Moves /\ NoMove # WholeProof
  /\ ExternalIds \subseteq Int
  /\ Never \notin Nat /\ None \notin Int
  /\ TTLs \subseteq Nat \ {0}
  /\ MaxToken \in Nat /\ MaxRevision \in Nat /\ MaxClock \in Nat
  /\ StepsBack \in BOOLEAN

VARIABLES
  clock,    \* the injected wall clock, time.time
  leases,   \* table leases: a partial function from lease id to row
  serial,   \* table lease_serials: the last minted serial
  trail,    \* table lease_events: what each statement recorded, in order
  journal,  \* table journal: one entry per revision
  call      \* per process: is a refused append still due its second lapse?

vars == <<clock, leases, serial, trail, journal, call>>

LeaseIds == Int
Scopes   == Moves \cup {NoMove, WholeProof}
Statuses == {"active", "expired", "superseded", "released"}

LeaseRow   == [move : Scopes, token : Nat, expires : Nat \cup {Never},
               status : Statuses]
LeaseEvent == [lease : LeaseIds, event : {"issued"}, token : Nat, move : Scopes]
              \cup [lease : LeaseIds, event : Statuses \ {"active"}]

\* A revision, by the lease its proposal names.  `move` is history: what that
\* lease covered when the revision was committed.
Entry      == [lease : LeaseIds \cup {None}, token : Nat \cup {None}, move : Scopes]

Idle       == [at |-> "idle"]
Calls      == {Idle} \cup [at : {"relapse", "refused"},
                           lease : LeaseIds \cup {None}, token : Nat \cup {None}]

HeadRevision == Len(journal)

-----------------------------------------------------------------------------
(* Statements the methods are built from.                                   *)

\* SELECT MAX(fencing_token), or 0 on an empty table.
TopToken ==
  LET tokens == {leases[l].token : l \in DOMAIN leases} \cup {0}
  IN  CHOOSE t \in tokens : \A u \in tokens : u <= t

\* Mutant: MAX over active rows only, as if finished leases were deleted.
NextTokenOfActive ==
  LET tokens == {leases[l].token :
                   l \in {k \in DOMAIN leases : leases[k].status = "active"}} \cup {0}
  IN  1 + CHOOSE t \in tokens : \A u \in tokens : u <= t

NextToken == TopToken + 1

\* Mutant: only leases on a move lapse.
IsDueDispatch(row) ==
  /\ row.status = "active"
  /\ row.move # WholeProof
  /\ row.expires <= clock

IsDue(row) ==
  /\ row.status = "active"
  /\ row.expires # Never
  /\ row.expires <= clock

DueLeases == {l \in DOMAIN leases : IsDue(leases[l])}

Marked(rows, S, status) ==
  [l \in DOMAIN rows |->
     IF l \in S THEN [rows[l] EXCEPT !.status = status] ELSE rows[l]]

\* Mutant: the conflict clause forgets fencing_token.
UpsertedKeepingToken(rows, id, row) ==
  [l \in DOMAIN rows \cup {id} |->
     IF l # id THEN rows[l]
     ELSE IF id \in DOMAIN rows THEN [row EXCEPT !.token = rows[id].token] ELSE row]

\* INSERT ... ON CONFLICT DO UPDATE.
Upserted(rows, id, row) ==
  [l \in DOMAIN rows \cup {id} |-> IF l = id THEN row ELSE rows[l]]

\* The table once _expire_due_leases has run.
Lapsed == Marked(leases, DueLeases, "expired")

\* The audit rows one statement inserts; their order inside it is immaterial.
Recorded(log, ids, event) ==
  IF ids = {} THEN log
  ELSE Append(log, {[lease |-> l, event |-> event] : l \in ids})

\* Mutant: a lapse is not audited.
LapsedTrailUnaudited == trail

LapsedTrail == Recorded(trail, DueLeases, "expired")

Issued(log, id, token, move) ==
  Append(log, {[lease |-> id, event |-> "issued", token |-> token, move |-> move]})

NewRow(move, token, expires) ==
  [move |-> move, token |-> token, expires |-> expires, status |-> "active"]

\* Bounds of the model: no token above MaxToken, no expiry beyond MaxClock.
CanIssue(expires) ==
  /\ NextToken <= MaxToken
  /\ expires # Never => expires <= MaxClock

\* Ids a caller can name: its own, or one that already has a row.
KnownIds == ExternalIds \cup DOMAIN leases

-----------------------------------------------------------------------------
Init ==
  /\ clock = 0
  /\ leases = [l \in {} |-> NewRow(NoMove, 0, Never)]
  /\ serial = 0
  /\ trail = <<>>
  /\ journal = <<>>
  /\ call = [p \in Procs |-> Idle]

\* acquire_lease: supersede every other active lease, then issue to `id`.
\* The audit loop selects every row that is superseded by now, whenever it
\* became so, and so may name a lease again.
AcquireLease(id, ttl) ==
  LET others == {l \in DOMAIN leases \ {id} : Lapsed[l].status = "active"}
      swept  == Marked(Lapsed, others, "superseded")
      dead   == {l \in DOMAIN swept : swept[l].status = "superseded"}
      expires == IF ttl = None THEN Never ELSE clock + ttl
  IN /\ CanIssue(expires)
     /\ leases' = Upserted(swept, id, NewRow(WholeProof, NextToken, expires))
     /\ trail' = Issued(Recorded(LapsedTrail, dead, "superseded"),
                        id, NextToken, WholeProof)
     /\ UNCHANGED <<clock, serial, journal, call>>

\* Mutants: issue_lease does not look for rivals; the serial is not persisted.
RivalsNone(id, move) == {}
LastSerialUnsaved(idOrNone) == serial

\* The other rows on the move issue_lease issues; a move left out has none.
Rivals(id, move) ==
  IF move = NoMove THEN {} ELSE {l \in DOMAIN leases \ {id} : Lapsed[l].move = move}

\* lease_serials once issue_lease has minted, or not minted, an id.
LastSerial(idOrNone) == IF idOrNone = None THEN serial + 1 ELSE serial

\* issue_lease: supersede an active lease of another id on the same move, then
\* issue; id None mints the next serial.  The INSERT is an upsert: a minted id
\* that a caller had chosen takes over the caller's row.
IssueLease(idOrNone, move, ttl) ==
  LET id     == IF idOrNone = None THEN serial + 1 ELSE idOrNone
      rivals == Rivals(id, move)
      swept  == Marked(Lapsed, {l \in rivals : Lapsed[l].status = "active"},
                       "superseded")
      dead   == {l \in rivals : swept[l].status = "superseded"}
  IN /\ CanIssue(clock + ttl)
     /\ leases' = Upserted(swept, id, NewRow(move, NextToken, clock + ttl))
     /\ serial' = LastSerial(idOrNone)
     /\ trail' = Issued(Recorded(LapsedTrail, dead, "superseded"),
                        id, NextToken, move)
     /\ UNCHANGED <<clock, journal, call>>

\* Mutant: dispatch looks only at leases whose id the serial has reached.
TakenByMinted ==
  {Lapsed[l].move : l \in {k \in DOMAIN leases : k \in 1..serial /\ Lapsed[k].status = "active"}}
  \cap Moves

\* Moves an active lease covers after the lapse.
Taken == {Lapsed[l].move : l \in {k \in DOMAIN leases : Lapsed[k].status = "active"}}
         \cap Moves

\* dispatch_lease: the first of the caller's ranked moves that no active lease
\* covers gets a minted id.  The INSERT is plain: an id that already has a row
\* fails the primary key and rolls everything back, the serial included, so the
\* next call meets the same row.
DispatchLease(ranked, ttl) ==
  LET free == {i \in DOMAIN ranked : ranked[i] \notin Taken}
      id   == serial + 1
  IN /\ free # {}
     /\ CanIssue(clock + ttl)
     /\ id \notin DOMAIN leases
     /\ LET first == CHOOSE i \in free : \A j \in free : i <= j
            move  == ranked[first]
        IN /\ leases' = Upserted(Lapsed, id, NewRow(move, NextToken, clock + ttl))
           /\ trail' = Issued(LapsedTrail, id, NextToken, move)
     /\ serial' = id
     /\ UNCHANGED <<clock, journal, call>>

\* active_leases, and dispatch_lease when every candidate is covered: only the
\* lapse of due leases is committed.
ActiveLeases ==
  /\ DueLeases # {}
  /\ leases' = Lapsed
  /\ trail' = LapsedTrail
  /\ UNCHANGED <<clock, serial, journal, call>>

\* Mutant: a status outside the table's vocabulary.
ReleaseLeaseFinished(id) ==
  /\ id \in DOMAIN leases
  /\ leases' = [leases EXCEPT ![id].status = "finished"]
  /\ UNCHANGED <<clock, serial, trail, journal, call>>

\* release_lease: by id alone, and without lapsing due leases first.
ReleaseLease(id) ==
  /\ id \in DOMAIN leases
  /\ leases[id].status = "active"
  /\ leases' = Marked(leases, {id}, "released")
  /\ trail' = Recorded(trail, {id}, "released")
  /\ UNCHANGED <<clock, serial, journal, call>>

-----------------------------------------------------------------------------
(* append                                                                   *)

BaseIsCurrent(base) == base \in {None, HeadRevision}

\* append names no lease: _check_lease is not called.
Unleased(lease, token) == lease = None /\ token = None

\* Mutants: a superseded lease still commits; any lease with a row commits.
LeaseReleased(lease) ==
  lease \in DOMAIN leases => Lapsed[lease].status \notin {"active", "superseded"}
\* _check_lease finds no active row once due leases have lapsed.
LeaseNotHeld(lease) ==
  lease \in DOMAIN leases => Lapsed[lease].status # "active"

\* Mutant: the token is not compared.
HoldsLeaseAnyToken(lease, token) == ~LeaseNotHeld(lease)

HoldsLease(lease, token) ==
  /\ ~LeaseNotHeld(lease)
  /\ Lapsed[lease].token = token

CanCall(p) == call[p].at # "relapse"

\* A committed append without a lease touches the journal alone.
AppendUnleased(p, base) ==
  /\ CanCall(p)
  /\ HeadRevision < MaxRevision
  /\ BaseIsCurrent(base)
  /\ journal' = Append(journal, [lease |-> None, token |-> None, move |-> NoMove])
  /\ call' = [call EXCEPT ![p] = Idle]
  /\ UNCHANGED <<clock, leases, serial, trail>>

\* A committed append under a lease also commits the lapse of due leases.
AppendLeased(p, base, lease, token) ==
  /\ CanCall(p)
  /\ HeadRevision < MaxRevision
  /\ BaseIsCurrent(base)
  /\ ~Unleased(lease, token)
  /\ HoldsLease(lease, token)
  /\ journal' = Append(journal, [lease |-> lease, token |-> token,
                                 move |-> leases[lease].move])
  /\ leases' = Lapsed
  /\ trail' = LapsedTrail
  /\ call' = [call EXCEPT ![p] = Idle]
  /\ UNCHANGED <<clock, serial>>

\* LEASE_NOT_HELD: the transaction and the lapse inside it roll back; the
\* caller has yet to lapse due leases in a transaction of its own.
AppendRefused(p, base, lease, token) ==
  /\ CanCall(p)
  /\ BaseIsCurrent(base)
  /\ ~Unleased(lease, token)
  /\ LeaseNotHeld(lease)
  /\ call' = [call EXCEPT ![p] = [at |-> "relapse", lease |-> lease, token |-> token]]
  /\ UNCHANGED <<clock, leases, serial, trail, journal>>

\* Mutant: the refusal is answered without the second transaction.
RelapseSkipped(p) ==
  /\ call[p].at = "relapse"
  /\ call' = [call EXCEPT ![p].at = "refused"]
  /\ UNCHANGED <<clock, leases, serial, trail, journal>>

\* The second transaction commits and LEASE_NOT_HELD reaches the caller.
Relapse(p) ==
  /\ call[p].at = "relapse"
  /\ leases' = Lapsed
  /\ trail' = LapsedTrail
  /\ call' = [call EXCEPT ![p].at = "refused"]
  /\ UNCHANGED <<clock, serial, journal>>

\* The second transaction is refused the write lock (the caller sees
\* JOURNAL_BUSY instead), or the process dies before it.
RelapseLost(p) ==
  /\ call[p].at = "relapse"
  /\ call' = [call EXCEPT ![p] = Idle]
  /\ UNCHANGED <<clock, leases, serial, trail, journal>>

Tick ==
  /\ clock < MaxClock
  /\ clock' = clock + 1
  /\ UNCHANGED <<leases, serial, trail, journal, call>>

\* time.time is not monotonic: the clock may be set to an earlier time.
SetClockBack ==
  /\ StepsBack
  /\ clock' \in 0..clock - 1
  /\ UNCHANGED <<leases, serial, trail, journal, call>>

-----------------------------------------------------------------------------
LeaseOp ==
  \/ \E id \in KnownIds, ttl \in TTLs \cup {None} : AcquireLease(id, ttl)
  \/ \E id \in KnownIds \cup {None}, move \in Moves \cup {NoMove}, ttl \in TTLs :
       IssueLease(id, move, ttl)
  \/ \E ranked \in UNION {[1..n -> Moves] : n \in 1..2}, ttl \in TTLs :
       DispatchLease(ranked, ttl)
  \/ \E id \in DOMAIN leases : ReleaseLease(id)
  \/ ActiveLeases

AppendOp ==
  \E p \in Procs :
    \/ \E base \in (0..HeadRevision) \cup {None} :
         \/ AppendUnleased(p, base)
         \/ \E lease \in KnownIds \cup {None}, token \in (1..TopToken) \cup {None} :
              \/ AppendLeased(p, base, lease, token)
              \/ AppendRefused(p, base, lease, token)
    \/ Relapse(p)
    \/ RelapseLost(p)

Next == LeaseOp \/ AppendOp \/ Tick \/ SetClockBack

Spec == Init /\ [][Next]_vars

\* Time passes, and the scheduler loop keeps polling active_leases.
FairSpec == Spec /\ WF_vars(Tick) /\ WF_vars(ActiveLeases)

-----------------------------------------------------------------------------
(* Properties                                                               *)

\* Every table holds rows of its own shape, ids and tokens in range.
TypeOK ==
  /\ clock \in Nat
  /\ serial \in Nat
  /\ DOMAIN leases \subseteq LeaseIds
  /\ leases \in [DOMAIN leases -> LeaseRow]
  /\ trail \in Seq(SUBSET LeaseEvent)
  /\ journal \in Seq(Entry)
  /\ call \in [Procs -> Calls]

Active(id) == id \in DOMAIN leases /\ leases[id].status = "active"

\* A move is never double-dispatched: whatever mix of dispatch, external issue,
\* re-issue of a known id and proof-level acquisition has run, two different
\* leases are never active on one move.
MoveExclusive ==
  \A a, b \in DOMAIN leases :
    Active(a) /\ Active(b) /\ leases[a].move = leases[b].move
      /\ leases[a].move \in Moves => a = b

\* Fencing tokens identify an acquisition: no two rows share one, although ids
\* are re-issued and rows overwritten.
TokensUnique ==
  \A a, b \in DOMAIN leases : leases[a].token = leases[b].token => a = b

\* The store never mints an id it has granted before: a row whose id the serial
\* has yet to reach was put there by a caller who chose that id.
MintedIdsMeetOnlyCallers == \A n \in DOMAIN leases : n <= serial \/ n \in ExternalIds

\* What dispatch_lease's docstring promises: "Returns the granted LeaseRow, or
\* None when every candidate was already covered."  While a move is free, the id
\* its grant would mint has no row for the plain INSERT to clash with.
DispatchAnswers == Moves \ Taken # {} => serial + 1 \notin DOMAIN leases

LiveToken(t) == \E id \in DOMAIN leases : Active(id) /\ leases[id].token = t

\* "Dead forever": a token that was issued and is not the token of an active
\* row is never again the token of an active row.
DeadTokenStaysDead ==
  [][\A t \in 1..TopToken : ~LiveToken(t) => ~LiveToken(t)']_vars

LastEvent(id) ==
  LET at == {i \in DOMAIN trail : \E v \in trail[i] : v.lease = id}
  IN  CHOOSE v \in trail[CHOOSE i \in at : \A j \in at : j <= i] : v.lease = id

\* The audit trail explains the table: the last event recorded for a lease is
\* the transition that gave its row the status it has now, and an active row's
\* token is the one its last "issued" event recorded.
AuditMatchesTable ==
  \A id \in DOMAIN leases :
    LET row == leases[id] IN
    IF row.status = "active"
    THEN LastEvent(id) = [lease |-> id, event |-> "issued",
                          token |-> row.token, move |-> row.move]
    ELSE LastEvent(id) = [lease |-> id, event |-> row.status]

\* The events of a trail that issued token t to lease id, each with its position.
IssuesOf(log, id, t) ==
  {iv \in UNION {{i} \X log[i] : i \in DOMAIN log} :
     iv[2].event = "issued" /\ iv[2].lease = id /\ iv[2].token = t}

\* What fences an acquisition `v` out: an event of its own lease, a later
\* acquisition of its move, or a later proof-level acquisition.
Fences(w, v) ==
  \/ w.lease = v.lease
  \/ w.event = "issued" /\ w.move = WholeProof
  \/ w.event = "issued" /\ w.move = v.move /\ v.move \in Moves

\* Fencing orders the journal: among revisions committed under leases of one
\* move, and after a revision committed under a proof-level lease, the token
\* never decreases.  No holder of an older acquisition slips a late result in
\* behind a newer one, whatever expired, was released, stolen or re-issued.
FencedOrder ==
  \A i, j \in DOMAIN journal :
    /\ i < j
    /\ journal[i].token # None /\ journal[j].token # None
    /\ \/ journal[i].move = WholeProof
       \/ journal[i].move \in Moves /\ journal[i].move = journal[j].move
    => journal[i].token <= journal[j].token

\* A revision committed under a lease was committed by the latest acquisition:
\* the trail shows the token issued to that lease, and nothing after it that
\* fences it.  (A worker that lost its lease while it was computing can never
\* journal its late result.)
CommitsAreFenced ==
  [][Len(journal') > Len(journal) /\ journal'[Len(journal')].lease # None =>
       LET e == journal'[Len(journal')] IN
       \E iv \in IssuesOf(trail', e.lease, e.token) :
         \A j \in iv[1] + 1..Len(trail') :
           \A w \in trail'[j] : ~Fences(w, iv[2])]_vars

\* The lapse is audited before a refusal is answered: when LEASE_NOT_HELD
\* reaches a process that named a token really issued to that lease, the trail
\* holds a later event of that lease, although the refusing transaction rolled
\* back and other callers ran before the second one.
RefusalIsAudited ==
  [][\A p \in Procs :
       call[p].at = "relapse" /\ call'[p].at = "refused" =>
         \A iv \in IssuesOf(trail', call[p].lease, call[p].token) :
           \E j \in iv[1] + 1..Len(trail') :
             \E w \in trail'[j] : w.lease = call[p].lease]_vars

\* Under the polling loop a lease with a time to live never outlives it: its
\* token stops being live, however often ids are re-issued.
TimedToken(t) ==
  \E id \in DOMAIN leases :
    Active(id) /\ leases[id].token = t /\ leases[id].expires # Never
TimedLeasesEnd == \A t \in 1..MaxToken : TimedToken(t) ~> ~LiveToken(t)

=============================================================================
