\* One run of one folder over fresh connections; anything may fail.
CONSTANTS
  Uids = {1, 2}
  m1 = m1
  m2 = m2
  MessageIds <- MCMessageIds
  NoId = NoId
  Kinds <- EveryKind
  Blank = Blank
  Garbled = Garbled
  NoBody = NoBody
  Faults <- ServerFaults
  BatchSize = 1
  DryRuns = {TRUE, FALSE}
  FirstFolder = TRUE
  MaxRuns = 1
  FaultyRuns = 1
SPECIFICATION Spec
INVARIANTS
  TypeOK
  EveryMessageAccountedOnce
  AckedCopiesExist
  AtMostTwice
  IndexedNeverAppended
  FailedFolderCopiedNothing
  CleanRunCopiesFaithfully
  CleanRunDelivers
PROPERTIES
  DryRunAddsNothing
  KeepsPromise
  BoundedPass
