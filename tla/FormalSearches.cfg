SPECIFICATION FairSpec
CONSTANTS
  None = None
  Unset = Unset
  Proof = "p"
  Decls = {1, 2}
  Stated = {1}
  Adapters = {"maths-ai", "fake"}
  Graphs <- MCGraphs
  Payloads <- MCPayloads
  Journals <- MCJournals
  MaxRuns = 2
  MaxCheckpoints = 4
INVARIANTS TypeOK ProjectionAgrees ProvedRunsAreCertified ProvedRootsAreClosed
           AnswersAreSound
PROPERTIES CommitsAreDisciplined FrontiersAreOpen ResumableRunsSettle
