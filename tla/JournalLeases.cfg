SPECIFICATION Spec
CONSTANTS
  Moves = {m1, m2}
  NoMove = NoMove
  WholeProof = WholeProof
  ExternalIds = {0, 2}
  Never = Never
  None = None
  Procs = {}
  TTLs = {1, 2}
  MaxToken = 3
  MaxRevision = 0
  MaxClock = 2
  StepsBack = TRUE
SYMMETRY Symmetry
INVARIANTS MoveExclusive TokensUnique MintedIdsMeetOnlyCallers AuditMatchesTable
PROPERTIES DeadTokenStaysDead
CHECK_DEADLOCK FALSE
