SPECIFICATION FairSpec
CONSTANTS
  Simulate = {TRUE, FALSE}
  Capacity = 2
  ReadMax = 1
  Fresh = 1
  ReconnectDelay = 1
  MaxAge = 5
INVARIANTS
  TypeOK
  RespondingIsRecent
  NothingFromBefore
  FaultReachesDiagnostics
PROPERTIES
  KeepsTrying
