CONSTANTS
  Atoms <- MCAtoms
  MaxU32 = 8
  Limits = {0, 1, 2, 7, 8}
SPECIFICATION MCSpec
INVARIANTS
  TypeOK
  CallsAreCounted
  ReportIsTrue
  FindsTheId
  WholeMessageAgrees
PROPERTIES
  Returns
