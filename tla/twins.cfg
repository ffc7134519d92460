\* A folder of two messages with one Message-Id; nothing fails.
CONSTANTS
  Uids = {1, 2}
  m1 = m1
  m2 = m2
  MessageIds <- MCMessageIds
  NoId = NoId
  Kinds <- BasicKinds
  Blank = Blank
  Garbled = Garbled
  NoBody = NoBody
  Faults <- NoFaults
  BatchSize = 2
  DryRuns = {FALSE}
  FirstFolder = TRUE
  MaxRuns = 1
  FaultyRuns = 1
SPECIFICATION Spec
INVARIANTS
  TwinsHeldBack
