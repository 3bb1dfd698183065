SPECIFICATION Spec
CONSTANTS
  MaxMessages = 1
  MaxRuns = 1
INVARIANTS
  NoAppendAfterClose
CHECK_DEADLOCK FALSE
