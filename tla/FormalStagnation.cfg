SPECIFICATION Spec
CONSTANTS
  None = None
  Unset = Unset
  Proof = "p"
  Decls = {1, 2}
  Stated = {1}
  Adapters = {"maths-ai"}
  Graphs <- MCGraphs
  Payloads = {}
  Journals <- MCJournals
  MaxRuns = 3
  MaxCheckpoints = 4
INVARIANT StagnationIsExplained
