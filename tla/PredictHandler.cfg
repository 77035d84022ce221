SPECIFICATION LoopSpec
CONSTANTS
  Requests = {r1, r2}
  MaxBody = 2
  ChunkSizes = {0, 1, 2}
INVARIANTS
  TypeOK
  NothingOutlivesTheHandler
  FinishedPredictionIsAnswered
  StatusTellsFate
PROPERTIES
  AbsenceIsNoticed
