SPECIFICATION Spec
CONSTANTS
  None = None
  Unset = Unset
  Proofs = {"claims"}
  Proposals <- MCProposals
  Discipline <- WithoutEdges
INVARIANTS EvidenceStands
CHECK_DEADLOCK FALSE
