SPECIFICATION FairSpec
CONSTANTS
  w1 = w1
  w2 = w2
  viewA = viewA
  viewB = viewB
  Workers = {w1, w2}
  Views = {viewA}
  ViewOf <- SharedView
  Classes = {"critic"}
  Claims = {c1, c2}
  Decls = {}
  OpenMoves = 0
  Verdicts = {"supported"}
  NamedIds = {1, 2}
  NoMove = NoMove
  WholeProof = WholeProof
  None = None
  Faults = FALSE
  EarlyLapse = FALSE
  MaxGrants = 6
  MaxRevision = 4
PROPERTIES ClaimsSettle
CHECK_DEADLOCK FALSE
