SPECIFICATION Spec
CONSTANTS
  w1 = w1
  w2 = w2
  viewA = viewA
  viewB = viewB
  Workers = {w1}
  Views = {viewA}
  ViewOf <- SharedView
  Classes = {"critic"}
  Claims = {c1}
  Decls = {}
  OpenMoves = 0
  Verdicts = {"supported", "refuted"}
  NamedIds = {1}
  NoMove = NoMove
  WholeProof = WholeProof
  None = None
  Faults = FALSE
  EarlyLapse = FALSE
  MaxGrants = 2
  MaxRevision = 2
INVARIANTS PromotionsAreReviewed
CHECK_DEADLOCK FALSE
