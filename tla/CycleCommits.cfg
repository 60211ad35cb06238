SPECIFICATION Spec
CONSTANTS
  w1 = w1
  w2 = w2
  viewA = viewA
  viewB = viewB
  Workers = {w1, w2}
  Views = {viewA, viewB}
  ViewOf <- OwnViews
  Classes = {"critic", "formal-atp", "llm-research"}
  Claims = {c1}
  Decls = {d1}
  OpenMoves = 0
  Verdicts = {"supported", "refuted"}
  NamedIds = {1}
  NoMove = NoMove
  WholeProof = WholeProof
  None = None
  Faults = TRUE
  EarlyLapse = TRUE
  MaxGrants = 2
  MaxRevision = 3
INVARIANTS TypeOK PromotedOnReview
PROPERTIES CurrentCyclesTakeEffect
CHECK_DEADLOCK FALSE
