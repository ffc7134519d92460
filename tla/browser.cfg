\* Two runs with the store that Cargo.toml builds; nothing goes wrong.
CONSTANTS
  Accounts = {"ann", "bob"}
  CustomServers = {"one"}
  Commands <- UsualMove
  Stores = {"mock"}
  Faults = {}
  MaxRuns = 2
  FaultyRuns = 2
SPECIFICATION Spec
INVARIANTS
  SubsequentRunsSkipBrowser
