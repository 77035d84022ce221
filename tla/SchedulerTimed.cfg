SPECIFICATION Spec
CONSTANTS
  Requests = {r1, r2, r3}
  Policy = "timed"
  MaxBatchSize = 2
  PendingCapacity = 2
  CollectionDelay = 1
  Deadline = 2
  Grace = 1
  Watchdog = 2
  Ages = {0}
  MaxTime = 2
SYMMETRY Symmetry
INVARIANTS
  QueueAgreement
  BoundedWork
  SleepingDriverWakes
  ExpiredIsOverdue
  OwnPrediction
  NothingLeftBehind
  OutcomeRecordedOnce
PROPERTIES
  NoOvertaking
  OnlyLiveWorkStarts
  ImplementsLifecycle
