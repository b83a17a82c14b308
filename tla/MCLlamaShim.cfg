SPECIFICATION Spec
CONSTANTS
  Threads = {t1, t2, t3}
  MaxLoads = 2
INVARIANTS
  InitOnce
  NothingLeaks
  ContextWithinModel
CHECK_DEADLOCK FALSE
