SPECIFICATION LiveSpec
CONSTANTS
  Requests = {r1, r2}
  Policy = "single"
  MaxBatchSize = 2
  PendingCapacity = 1
  CollectionDelay = 0
  Deadline = 2
  Grace = 2
  Watchdog = 1
  Ages = {0, 2}
  MaxTime = 1
INVARIANTS
  OpenDoorIsServed
  CallBelongsToBatch
  ReplyMatchesOutcome
PROPERTIES
  ReadinessIsNotRegained
  KeepsSubmitContract
  EveryCallerAnswered
  ShutdownEnds
  HungWorkerUnready
