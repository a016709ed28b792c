SPECIFICATION FairSpec
CONSTANTS
  Tasks = {t1, t2, t3}
  MaxCount = 2
  DEFAULT_THREAD_COUNT = 2
  None = None
PROPERTY
  ShutdownTerminates
CHECK_DEADLOCK FALSE
