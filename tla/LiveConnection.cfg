SPECIFICATION LiveSpec
CONSTANTS
  Tasks = {t1, t2, t3}
  UserTasks = {t1}
  Retryable = {t1, t3}
  OtherTasks = {t2, t3}
  Idlers = {i1, i2}
  Sockets = {s1, s2, s3}
  None = None
  MaxDrops = 1
  MaxReopens = 1
INVARIANTS
  StartsAsAllowed
  ClosedUnlessReopened
  RunsInItsFolder
PROPERTIES
  EveryTaskSettles
CHECK_DEADLOCK FALSE
