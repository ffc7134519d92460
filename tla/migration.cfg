\* One process over two folders of two messages; any stage may fail.
CONSTANTS
  Mailboxes = {inbox, sent}
  Uids = {1, 2}
  Bodies = {body}
  DryRuns = {TRUE, FALSE}
SPECIFICATION FairSpec
INVARIANTS
  TypeOK
  ExitZeroMeansComplete
  SummaryIsTrue
  EarlyExitWroteNothing
PROPERTIES
  EveryFolderHasItsTurn
