SPECIFICATION Spec
CONSTANTS
  s1 = s1
  s2 = s2
  s3 = s3
  s4 = s4
  m1 = m1
  m2 = m2
  m3 = m3
  c1 = c1
  c2 = c2
  c3 = c3
  w1 = w1
  w2 = w2
  None = None
  Raised = Raised
  States = {s1, s2, s3, s4}
  Moves = {m1, m2, m3}
  Claims = {c1, c2, c3}
  Calls <- MCCalls
  Writers = {w1, w2}
  Links <- MCLinks
  Unscoped <- BareLinks
  Histories <- StartingJournals
  MaxEvents = 10
  MaxIter = 2
SYMMETRY Symmetry
INVARIANTS TypeOK RebuildConverges CyclesEvadeTheCheck
PROPERTIES ClosingsSettle ClosingsAreEarned TaintFollowsQueries
