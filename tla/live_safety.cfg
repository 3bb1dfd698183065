\* Unlimited attempts, so that the delay may overflow; two lives.
SPECIFICATION Spec
CONSTANTS
  m = m
  t = t
  e = e
  Consumers = {m, t}
  StreamOf <- AllStreams
  Policy <- DefaultPolicy
  Limited = FALSE
  MaxAttempts = 0
  OverflowAt = 1
  IdleTimeout = TRUE
  FrameKinds = {"bad_json", "skipped", "time", "lts", "race_end"}
  MaxFrames = 2
  MaxLives = 2
INVARIANTS
  ErrorIsReported
  CloseLeavesNothing
PROPERTIES
  CancelledNeverReconnects
  ImplementsStream
CHECK_DEADLOCK FALSE
