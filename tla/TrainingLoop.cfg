SPECIFICATION Spec
\* Training ends.
CHECK_DEADLOCK FALSE
CONSTANTS
  Outcomes <- Predictions
  Score <- Macro
  Hits <- Accurate
  Baselines <- MajorityHits
  Labels <- ThreeLabels
  Rows = 3
  Scale = 60
  Epochs = 5
  Patience = 3
INVARIANTS
  SelectionIsSound
  ScoresMatchDefinition
