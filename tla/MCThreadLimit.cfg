SPECIFICATION Spec
CONSTANTS
  Tasks = {t1, t2, t3, t4}
  Limit = 2
INVARIANTS
  TypeOK
  CounterIsExact
  OvershootAtMostOne
  DestroyedIsQuiet
PROPERTY
  ServiceSpec
CHECK_DEADLOCK FALSE
