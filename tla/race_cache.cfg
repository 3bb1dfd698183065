SPECIFICATION Spec
CONSTANTS
  None = None
  Values <- MCValues
  Messages <- AllMessages
  Labels <- MCLabels
  Damages <- SomeDamage
  MaxLog = 3
INVARIANTS
  TypeOK
  MessagesOnce
  LapsAreLatest
  BestsAreMinima
  Idempotent
  RoundTrip
  CatchesUp
