------------------------- MODULE JournalRefinement -------------------------
(* The journal store implements the fenced log.                             *)
EXTENDS JournalStore

\* The grants in force are the rows whose status is active, due or not: a due
\* lease is only lapsed when the next operation touches the table.
LiveGrants ==
  {[token |-> leases[id].token, scope |-> leases[id].move] :
     id \in {l \in DOMAIN leases : leases[l].status = "active"}}

CommittedGrants ==
  [i \in DOMAIN journal |-> [token |-> journal[i].token, scope |-> journal[i].move]]

Promise == INSTANCE FencedLog WITH
  live <- LiveGrants, top <- TopToken, log <- CommittedGrants

\* Every operation of the store, with its lapses, supersessions, upserts and
\* rolled-back refusals, is one step of the fenced log or invisible to it.
ImplementsFencedLog == Promise!Spec
=============================================================================
