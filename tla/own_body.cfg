\* Calls that time out, and servers that cannot be reached for a while.
CONSTANTS
  Uids = {1, 2}
  m1 = m1
  m2 = m2
  MessageIds <- MCMessageIds
  NoId = NoId
  Kinds <- BasicKinds
  Blank = Blank
  Garbled = Garbled
  NoBody = NoBody
  Faults <- Slowness
  BatchSize = 2
  DryRuns = {FALSE}
  FirstFolder = TRUE
  MaxRuns = 1
  FaultyRuns = 1
SPECIFICATION Spec
INVARIANTS
  OwnBodyIsAppended
