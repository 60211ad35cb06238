SPECIFICATION Spec
CONSTANTS
  None = None
  Unset = Unset
  Proofs = {"claims"}
  Proposals <- MCProposals
  Discipline <- WithoutWrites
INVARIANTS JournalReplays
CHECK_DEADLOCK FALSE
