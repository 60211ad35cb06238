SPECIFICATION Spec
CONSTANTS
  Moves = {m1, m2}
  NoMove = NoMove
  WholeProof = WholeProof
  ExternalIds = {0, 1}
  Never = Never
  None = None
  Procs = {}
  TTLs = {1, 2}
  MaxToken = 3
  MaxRevision = 0
  MaxClock = 2
  StepsBack = FALSE
SYMMETRY Symmetry
INVARIANTS DispatchAnswers
CHECK_DEADLOCK FALSE
