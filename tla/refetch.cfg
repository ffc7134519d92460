\* A connection lost once, and the second try of a FETCH.
CONSTANTS
  Uids = {1, 2}
  m1 = m1
  m2 = m2
  MessageIds <- MCMessageIds
  NoId = NoId
  Kinds <- BasicKinds
  Blank = Blank
  Garbled = Garbled
  NoBody = NoBody
  Faults <- OneDrop
  BatchSize = 2
  DryRuns = {FALSE}
  FirstFolder = TRUE
  MaxRuns = 1
  FaultyRuns = 1
SPECIFICATION Spec
INVARIANTS
  RetriedFetchIsSelected
