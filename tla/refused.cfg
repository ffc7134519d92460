\* Commands that the server may refuse.
CONSTANTS
  Uids = {1, 2}
  m1 = m1
  m2 = m2
  MessageIds <- MCMessageIds
  NoId = NoId
  Kinds <- BasicKinds
  Blank = Blank
  Garbled = Garbled
  NoBody = NoBody
  Faults <- Refusals
  BatchSize = 2
  DryRuns = {FALSE}
  FirstFolder = TRUE
  MaxRuns = 1
  FaultyRuns = 1
SPECIFICATION Spec
INVARIANTS
  CleanFolderIsSynced
