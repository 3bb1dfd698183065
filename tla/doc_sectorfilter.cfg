SPECIFICATION Spec
CONSTANTS
  None = None
  Values <- MCValues
  Messages <- AllMessages
  Labels <- MCLabels
  Damages <- SomeDamage
  MaxLog = 2
INVARIANTS
  SectorFilterFinds
