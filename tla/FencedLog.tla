------------------------------ MODULE FencedLog ------------------------------
(***************************************************************************)
(* What the commit journal promises, without tables, clocks or ids: grants *)
(* are numbered in the order they are made, a grant displaces the grants   *)
(* it conflicts with, a grant may end at any time and never comes back,    *)
(* and only a live grant (or a proposal that claims none) extends the log. *)
(***************************************************************************)
EXTENDS Integers, Sequences

CONSTANTS Moves, NoMove, WholeProof, None

Scopes == Moves \cup {NoMove, WholeProof}
Grants == [token : Nat, scope : Scopes]
NoGrant == [token |-> None, scope |-> NoMove]

VARIABLES
  live,  \* the grants in force
  top,   \* how many grants were ever made
  log    \* the grant each revision was committed under

vars == <<live, top, log>>

\* Making a grant of `scope` ends the live grant g.
Displaces(scope, g) ==
  \/ scope = WholeProof
  \/ scope \in Moves /\ g.scope = scope

Init == live = {} /\ top = 0 /\ log = <<>>

Grant(scope) ==
  \E kept \in SUBSET {g \in live : ~Displaces(scope, g)} :
    /\ top' = top + 1
    /\ live' = kept \cup {[token |-> top + 1, scope |-> scope]}
    /\ UNCHANGED log

End ==
  /\ live' \in SUBSET live
  /\ UNCHANGED <<top, log>>

Commit(g) ==
  /\ log' = Append(log, g)
  /\ live' \in SUBSET live
  /\ g \in live' \cup {NoGrant}
  /\ UNCHANGED top

Next ==
  \/ \E scope \in Scopes : Grant(scope)
  \/ End
  \/ \E g \in live \cup {NoGrant} : Commit(g)

Spec == Init /\ [][Next]_vars
=============================================================================
