SPECIFICATION FairSpec
CONSTANTS
  Threads = {"t1", "t2"}
  Dests = {"d1", "d2"}
  MaxFd = 3
  THREAD_TIMEOUT_TICKS = 1
  AskMsql = {"t1"}
  Override = TRUE
INVARIANTS TypeOK MisuseHasCause NothingLeaks RightDestination
PROPERTY ThreadsComeBack
CONSTRAINTS FirstMisuse OneAtATime OneVaries
