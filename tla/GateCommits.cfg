SPECIFICATION Spec
CONSTANTS
  None = None
  Unset = Unset
  Proofs = {"claims", "links", "search"}
  Proposals <- MCProposals
  Discipline <- MCDiscipline
INVARIANTS TypeOK ArityFixed ClosuresAreAccepted OnlyOrderStopsReplay
PROPERTIES PromotedWhenAligned StatusesFollowTables OnlyLinksLoseEvidence
CHECK_DEADLOCK FALSE
