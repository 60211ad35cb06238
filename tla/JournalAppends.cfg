SPECIFICATION FairSpec
CONSTANTS
  Moves = {m1, m2}
  NoMove = NoMove
  WholeProof = WholeProof
  ExternalIds = {1}
  Never = Never
  None = None
  Procs = {p1}
  TTLs = {1}
  MaxToken = 2
  MaxRevision = 2
  MaxClock = 2
  StepsBack = FALSE
INVARIANTS TypeOK FencedOrder
PROPERTIES CommitsAreFenced RefusalIsAudited ImplementsFencedLog TimedLeasesEnd
CHECK_DEADLOCK FALSE
