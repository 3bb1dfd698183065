SPECIFICATION ToolsSpec
CONSTANTS
  Absent = Absent
  None = None
  Huge = Huge
  Files = {}
  Options <- MCOptions
  Feeds <- MCFeeds
  Befores <- MCBefores
  Deadlines = {None, 1}
  MaxTime = 1
  WallTimes = {1, 2}
INVARIANTS
  PrintsTheBeginning
  StrictIsStrict
  CapturedIsPlayed
PROPERTIES
  CaptureEnds
CHECK_DEADLOCK FALSE
