SPECIFICATION FairSpec
CONSTANTS
  t1 = t1
  t2 = t2
  t3 = t3
  Tasks = {t1, t2, t3}
  Drains = 2
INVARIANTS NeverAsleep
PROPERTIES WorkIsDone RequestsSettle
CHECK_DEADLOCK FALSE
