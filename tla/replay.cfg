SPECIFICATION FairSpec
CONSTANTS
  Absent = Absent
  None = None
  Huge = Huge
  Files <- MCFiles
INVARIANTS
  TypeOK
  EmittedInOrder
  PacingIsExact
  EndsAsTheFileSays
PROPERTIES
  ReplayEnds
CHECK_DEADLOCK FALSE
