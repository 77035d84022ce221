SPECIFICATION Spec
CONSTANTS
  Requests = {r1, r2}
  Policy = "timed"
  MaxBatchSize = 2
  PendingCapacity = 2
  CollectionDelay = 3
  Deadline = 4
  Grace = 1
  Watchdog = 2
  Ages = {0}
  MaxTime = 1
SYMMETRY Symmetry
INVARIANTS
  DrainNeverSleepsOnWork
