--------------------------- MODULE MCTrainingLoop ---------------------------
EXTENDS ScoredTraining

\* Three validation rows, of both classes: 8 outcomes, with ties. The rows an evaluation
\* measures have any labels, so that a class may be neither present nor predicted.
ThreeLabels == <<0, 0, 1>>

Macro(o) == MacroF1(Labels, o)
Accurate(o) == Correct(Labels, o)

MajorityHits == {Accurate([i \in DOMAIN Labels |-> MajorityLabel(t)]) : t \in Predictions}
=============================================================================
