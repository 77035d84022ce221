------------------------ MODULE ClassificationMetrics ------------------------
(***************************************************************************)
(* classification_metrics(): the confusion matrix of binary predictions,   *)
(* its accuracy and its macro F1. A ratio is the integer it is of Scale,   *)
(* a common multiple of the denominators, so that values compare exactly.  *)
(***************************************************************************)
EXTENDS Integers, FiniteSets

CONSTANTS Rows,  \* how many rows are measured
          Scale

ASSUME ScaleAssumption ==
  /\ Rows \in Nat \ {0} /\ Scale \in Nat \ {0}
  /\ \A d \in 1..(2 * Rows) : Scale % d = 0

Classes == {0, 1}

Matrix(labels, predictions) ==
  [l \in Classes |-> [p \in Classes |->
     Cardinality({i \in DOMAIN labels : labels[i] = l /\ predictions[i] = p})]]

Correct(labels, predictions) ==
  LET m == Matrix(labels, predictions) IN m[0][0] + m[1][1]

\* Fault: the errors of one kind are counted twice.
OneSidedDenominator(m, l) == 2 * m[l][l] + 2 * m[1 - l][l]

Denominator(m, l) == 2 * m[l][l] + m[1 - l][l] + m[l][1 - l]

\* Fault: nothing was missed.
PerfectIfEmpty == Scale

\* Of a class that is neither present nor predicted.
EmptyRatio == 0

F1(labels, predictions, l) ==
  LET m == Matrix(labels, predictions) IN
  IF Denominator(m, l) = 0 THEN EmptyRatio
  ELSE (2 * m[l][l] * Scale) \div Denominator(m, l)

\* Twice the mean of the two, which orders predictions as the mean does.
MacroF1(labels, predictions) == F1(labels, predictions, 0) + F1(labels, predictions, 1)

\* The label that train() compares with: a tie is negative.
MajorityLabel(labels) ==
  IF 2 * Cardinality({i \in DOMAIN labels : labels[i] = 1}) > Cardinality(DOMAIN labels)
  THEN 1 ELSE 0

\* F1 is the harmonic mean of precision and recall, 0 without a hit, and 0 too for a
\* class that is neither present nor predicted, where neither mean nor ratio is defined.
F1IsHarmonicMean(labels, predictions) ==
  \A l \in Classes :
    LET predicted == {i \in DOMAIN labels : predictions[i] = l}
        actual    == {i \in DOMAIN labels : labels[i] = l}
        hits      == Cardinality(predicted \cap actual)
    IN /\ predicted \cup actual = {} => F1(labels, predictions, l) = 0
       /\ F1(labels, predictions, l) * (Cardinality(predicted) + Cardinality(actual))
            = 2 * hits * Scale
=============================================================================
