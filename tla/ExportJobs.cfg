SPECIFICATION MCSpec
CONSTANTS
  t1 = t1
  j1 = j1
  j2 = j2
  Jobs = {j1, j2}
  Tasks = {t1}
  TaskOf <- OneVersion
  MaxRenders = 1
  Lease = 1
  MaxAttempts = 2
INVARIANTS
  TypeOK
  HeldWhileActive
  ChargedIffDelivered
  ReadyFilesExist
  LostRunsNeverPublish
  Fencing
  Uploads
  CapRespected
PROPERTIES
  EveryHoldEnds
  CompletedIsFinal
  DeliversAsPromised
CHECK_DEADLOCK FALSE
