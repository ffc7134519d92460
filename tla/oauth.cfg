CONSTANTS
  Accounts = {"ann", "bob"}
  CustomServers = {"one", "two"}
  Commands <- MCCommands
  Stores = {"mock", "platform"}
  Faults = {"locked", "offline", "revoke", "local", "deny", "stray", "silent", "stranger", "withhold", "crash"}
  MaxRuns = 3
  FaultyRuns = 2
SPECIFICATION FairSpec
INVARIANTS
  TypeOK
  CredsFit
  SecondRunNeedsNoBrowser
PROPERTIES
  FlowEnds
  Recovers
  StagesOfMigration
