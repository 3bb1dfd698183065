SPECIFICATION SessionSpec
CONSTANTS
  a = a
  b = b
  None = None
  Huge = Huge
  Values = {a, b}
  Messages <- MCMessages
  Scripts <- MCScripts
  MaxMessages = 2
  MaxRuns = 2
  Times = {1, 2}
INVARIANTS
  SessionTypeOK
  LeavingTellsLoss
  OfflineIsLive
  OnlyASuffixIsLost
CHECK_DEADLOCK FALSE
