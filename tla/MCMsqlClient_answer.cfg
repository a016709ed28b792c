SPECIFICATION Spec
CONSTANTS
  MaxCalls = 3
  CONNECTION_RETRY_COUNT_MAX = 1
  MaxConnects = 1
  Segmented = TRUE
INVARIANT
  ValueIsOwn
CHECK_DEADLOCK FALSE
