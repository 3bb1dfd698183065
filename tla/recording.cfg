SPECIFICATION FairSpec
CONSTANTS
  MaxMessages = 3
  MaxRuns = 3
INVARIANTS
  TypeOK
  RecordedInOrder
  FinishedMeansFlushed
  LossIsBounded
PROPERTIES
  FileOnlyGrows
  CloseReports
  AcceptedIsWritten
  CloseCompletes
CHECK_DEADLOCK FALSE
