--------------------------- MODULE ScoredTraining ---------------------------
(***************************************************************************)
(* train() with its metrics: the outcome of an epoch is the predictions of *)
(* the validation rows, its score their macro F1, its hits those of the    *)
(* accuracy.                                                               *)
(***************************************************************************)
EXTENDS TrainingLoop, ClassificationMetrics

CONSTANT Labels  \* of the validation rows

Predictions == [1..Rows -> Classes]

ASSUME PredictionAssumption ==
  /\ Labels \in Predictions /\ Outcomes = Predictions
  /\ \A o \in Outcomes : Score(o) = MacroF1(Labels, o) /\ Hits(o) = Correct(Labels, o)

-----------------------------------------------------------------------------
(* Properties                                                              *)

\* The scores that select a checkpoint, and those an evaluation reports of it on rows
\* with any labels, are F1 scores: harmonic means of precision and recall, also for a
\* class that no row has or that is never predicted, and 0 for a class that is neither.
ScoresMatchDefinition ==
  \A e \in DOMAIN history : \A labels \in Predictions : F1IsHarmonicMean(labels, history[e])
=============================================================================
