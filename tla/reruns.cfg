\* A folder that starts over whatever sessions the folders before it left, and
\* a new run after it in which nothing fails.
CONSTANTS
  Uids = {1, 2}
  m1 = m1
  m2 = m2
  MessageIds <- MCMessageIds
  NoId = NoId
  Kinds <- RerunKinds
  Blank = Blank
  Garbled = Garbled
  NoBody = NoBody
  Faults <- RerunFaults
  BatchSize = 1
  DryRuns = {TRUE, FALSE}
  FirstFolder = FALSE
  MaxRuns = 2
  FaultyRuns = 1
SPECIFICATION FairSpec
INVARIANTS
  IndexedNeverAppended
  CleanRunCopiesFaithfully
  RerunCopiesOnlyUnidentified
  DryRunPredicts
PROPERTIES
  FolderEnds
  KeepsPromise
  Resumes
