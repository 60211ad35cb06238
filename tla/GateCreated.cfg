SPECIFICATION Spec
CONSTANTS
  None = None
  Unset = Unset
  Proofs = {"claims"}
  Proposals <- MCProposals
  Discipline <- WithoutClaims
INVARIANTS EvidenceStands
CHECK_DEADLOCK FALSE
