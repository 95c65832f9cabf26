SPECIFICATION Spec
CONSTANTS
  Tasks = {t1}
  Workers = {w1, w2}
  NoTask = NoTask
  Lease = 1
  QueueLease = 1
  MaxAttempts = 2
PROPERTIES
  OwnFailuresOnly
CHECK_DEADLOCK FALSE
