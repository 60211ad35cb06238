SPECIFICATION Spec
CONSTANTS
  w1 = w1
  w2 = w2
  viewA = viewA
  viewB = viewB
  Workers = {w1, w2}
  Views = {viewA}
  ViewOf <- SharedView
  Classes = {"critic"}
  Claims = {c1, c2}
  Decls = {}
  OpenMoves = 0
  Verdicts = {"supported"}
  NamedIds = {}
  NoMove = NoMove
  WholeProof = WholeProof
  None = None
  Faults = FALSE
  EarlyLapse = FALSE
  MaxGrants = 2
  MaxRevision = 2
PROPERTIES CommitsTakeEffect
CHECK_DEADLOCK FALSE
