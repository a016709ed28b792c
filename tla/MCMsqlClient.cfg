SPECIFICATION FairSpec
CONSTANTS
  MaxCalls = 3
  CONNECTION_RETRY_COUNT_MAX = 1
  MaxConnects = 2
  Segmented = TRUE
INVARIANTS
  TypeOK
  ValueTellsOutcome
  CallsLeaveNothing
  SocketsOwned
PROPERTY
  CallsReturn
CHECK_DEADLOCK FALSE
