SPECIFICATION Spec
\* The rows are fitted once.
CHECK_DEADLOCK FALSE
CONSTANTS
  RowSequences <- Corpora
  MaxLength = 2
  MaxWords = 2
  Sample = 1
INVARIANTS
  SplitIsSound
  EveryStratumIsTested
  TextIsSound
