SPECIFICATION FairSpec
\* A run ends.
CHECK_DEADLOCK FALSE
CONSTANTS
  Arrivals = 4
  Interval = 2
  Half = 5
  Duration = 8
  LagLimit = 1
  MaxOutstanding = 2
  PollLimit = 1
  Responses <- AllResponses
  Settled = {"200"}
INVARIANTS
  ReportedRunsPassAudit
  NothingLeftToTheNextRun
PROPERTY RunEnds
