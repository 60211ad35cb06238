SPECIFICATION Spec
CONSTANTS
  s1 = s1
  s2 = s2
  s3 = s3
  s4 = s4
  m1 = m1
  m2 = m2
  m3 = m3
  c1 = c1
  c2 = c2
  c3 = c3
  w1 = w1
  w2 = w2
  None = None
  Raised = Raised
  States = {s1}
  Moves = {m1}
  Claims = {c1, c2}
  Calls = {}
  Writers = {w1}
  Links <- PairLinks
  Unscoped <- PairLinks
  Histories <- PairJournal
  MaxEvents = 6
  MaxIter = 4
PROPERTIES CyclesAreRefused
