\* Two runs in which nothing fails.
CONSTANTS
  Uids = {1, 2}
  m1 = m1
  m2 = m2
  MessageIds <- MCMessageIds
  NoId = NoId
  Kinds <- IdKinds
  Blank = Blank
  Garbled = Garbled
  NoBody = NoBody
  Faults <- NoFaults
  BatchSize = 2
  DryRuns = {FALSE}
  FirstFolder = TRUE
  MaxRuns = 2
  FaultyRuns = 2
SPECIFICATION Spec
INVARIANTS
  SecondRunCopiesNothing
