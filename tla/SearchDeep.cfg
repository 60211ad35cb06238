SPECIFICATION Spec
CONSTANTS
  s1 = s1
  s2 = s2
  s3 = s3
  s4 = s4
  m1 = m1
  m2 = m2
  m3 = m3
  c1 = c1
  c2 = c2
  c3 = c3
  w1 = w1
  w2 = w2
  None = None
  Raised = Raised
  States <- Depth
  Moves <- Steps
  Claims = {}
  Calls <- DeepClosing
  Writers = {}
  Links = {}
  Unscoped = {}
  Histories <- DeepJournal
  MaxEvents = 133
  MaxIter = 64
PROPERTIES ClosingsPropagate
