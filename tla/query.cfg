SPECIFICATION QuerySpec
CONSTANTS
  None = None
  Values = {}
  Messages = {}
  Includes <- MCIncludes
  Frames <- MCFrames
  Snapshots <- MCSnapshots
  Calls <- MCCalls
  MaxHeard = 2
  MaxCalls = 3
INVARIANTS
  CarsAreOfTheRows
  CarsAsAsked
