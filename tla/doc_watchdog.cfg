SPECIFICATION FairSpec
CONSTANTS
  m = m
  t = t
  e = e
  Consumers = {m}
  StreamOf <- AllStreams
  Policy <- DefaultPolicy
  Limited = TRUE
  MaxAttempts = 1
  OverflowAt = 2
  IdleTimeout = TRUE
  FrameKinds = {"other"}
  MaxFrames = 1
  MaxLives = 1
PROPERTIES
  WatchdogForcesReconnect
CHECK_DEADLOCK FALSE
