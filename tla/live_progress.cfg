\* Limited attempts, so that the loop may give up; one life.
SPECIFICATION HistoryFairSpec
CONSTANTS
  m = m
  t = t
  e = e
  Consumers = {m, e}
  StreamOf <- AllStreams
  Policy <- DefaultPolicy
  Limited = TRUE
  MaxAttempts = 1
  OverflowAt = 2
  IdleTimeout = TRUE
  FrameKinds = {"bad_json", "skipped", "time", "lts", "results"}
  MaxFrames = 2
  MaxLives = 1
INVARIANTS
  TypeOK
  NoForgottenReceiver
  GivesUpExactly
PROPERTIES
  CloseCompletes
  CloseUnblocks
  LossIsRetriedOrReported
CHECK_DEADLOCK FALSE
