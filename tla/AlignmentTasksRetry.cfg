SPECIFICATION FairSpec
CONSTANTS
  Tasks = {t1}
  Workers = {w1, w2}
  NoTask = NoTask
  Lease = 1
  QueueLease = 2
  MaxAttempts = 3
INVARIANTS
  TypeOK
  HeldWhileActive
  ChargedIffCompleted
  OneWorkerPerAttempt
  LostAttemptsNeverComplete
PROPERTIES
  CompletedUntilRealigned
  EveryHoldEnds
CHECK_DEADLOCK FALSE
