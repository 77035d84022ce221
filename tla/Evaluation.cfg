SPECIFICATION SpecEvaluation
\* A training that gave up leaves a directory nobody may write to again, and an
\* evaluated artifact is not evaluated again.
CHECK_DEADLOCK FALSE
CONSTANTS
  Writers = {"first", "second"}
  Readers = {1, 2, 3}
  Kinds <- BothKinds
  Files <- FilesOfKind
  Content <- ContentOfKind
  Evaluators = {1, 2}
  Datasets = {"uci", "other"}
  Outputs = {"default", "other"}
  TrainedOn = "uci"
  MaxRuns <- RunsOfEach
INVARIANTS
  ReadersGetWholeWork
  OnlyOverlapReplaces
  ReportsAreTheRecord
PROPERTIES
  ImplementsAtomicPublication
