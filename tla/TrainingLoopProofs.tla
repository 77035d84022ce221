-------------------------- MODULE TrainingLoopProofs --------------------------
(***************************************************************************)
(* Whatever the optimizer makes of each epoch, for every number of epochs  *)
(* and every patience: train() exports the earliest best checkpoint. The   *)
(* scores it compares are F1 scores, for any number of rows.               *)
(***************************************************************************)
EXTENDS ScoredTraining, FiniteSetTheorems, TLAPS

\* What the variables of the selection say of the history, at every epoch.
BestSoFar ==
  /\ best_weights = best_epoch
  /\ epoch # 0 => best_epoch # 0 /\ best_score = ScoreAt(best_epoch)
  /\ epoch = 0 => best_score = -1
  /\ \A e \in 1..epoch : /\ ScoreAt(e) <= best_score
                         /\ e < best_epoch => ScoreAt(e) < best_score

\* What the phase says of them.
PhaseSound ==
  /\ phase = "training" => epoch < Epochs /\ (epoch # 0 => epoch - best_epoch < Patience)
  /\ phase # "training" => epoch # 0 /\ (epoch = Epochs \/ epoch - best_epoch >= Patience)
  /\ phase = "exported" => exported = best_epoch /\ Hits(history[exported]) > baseline
  /\ phase # "exported" => exported = 0

SelectionInv == TypeOK /\ BestSoFar /\ PhaseSound /\ PatienceIsKept

USE OutcomesAssumption, BoundsAssumption

\* Before the first epoch nothing is selected.
LEMMA SelectionInit == Init => SelectionInv
<1> SUFFICES ASSUME Init PROVE SelectionInv
  OBVIOUS
<1>1. history = << >> /\ epoch = 0
  BY DEF Init, epoch
<1>2. TypeOK
  BY <1>1 DEF Init, TypeOK, CopyOf
<1>3. BestSoFar /\ PhaseSound /\ PatienceIsKept
  BY <1>1 DEF Init, BestSoFar, PhaseSound, PatienceIsKept, CopyOf
<1> QED BY <1>2, <1>3 DEF SelectionInv

\* A new epoch leaves the scores of the earlier ones alone.
LEMMA OldScores ==
  ASSUME history \in Seq(Outcomes), NEW o \in Outcomes, history' = Append(history, o)
  PROVE  /\ history' \in Seq(Outcomes) /\ epoch \in Nat /\ epoch' = epoch + 1
         /\ \A e \in 1..epoch : history'[e] = history[e] /\ ScoreAt(e) \in Nat
         /\ history'[epoch + 1] = o /\ Score(o) \in Nat
<1>1. history' \in Seq(Outcomes) /\ epoch \in Nat /\ epoch' = epoch + 1
  BY DEF epoch
<1>2. ASSUME NEW e \in 1..epoch
      PROVE  history'[e] = history[e] /\ history[e] \in Outcomes
  BY DEF epoch
<1>3. history'[epoch + 1] = o
  BY DEF epoch
<1> QED BY <1>1, <1>2, <1>3 DEF ScoreAt

\* An epoch that is not better leaves the best alone, a better one is the best.
LEMMA EpochStep == SelectionInv /\ TrainEpoch => SelectionInv'
<1> SUFFICES ASSUME SelectionInv, TrainEpoch PROVE SelectionInv'
  OBVIOUS
<1>1. PICK o \in Outcomes :
        /\ history' = Append(history, o) /\ model' = epoch + 1
        /\ IF Improves(Score(o))
           THEN best_score' = Score(o) /\ best_epoch' = epoch + 1 /\ best_weights' = epoch + 1
           ELSE UNCHANGED best
        /\ phase' = IF OutOfPatience(epoch + 1, best_epoch') \/ epoch + 1 = Epochs
                    THEN "selecting" ELSE "training"
  BY DEF TrainEpoch, CopyOf
<1>2. phase = "training" /\ epoch < Epochs /\ UNCHANGED <<baseline, exported>>
  BY DEF TrainEpoch
<1>3. /\ history' \in Seq(Outcomes) /\ epoch \in Nat /\ epoch' = epoch + 1
      /\ \A e \in 1..epoch : history'[e] = history[e] /\ ScoreAt(e) \in Nat
      /\ history'[epoch + 1] = o /\ Score(o) \in Nat
  BY <1>1, OldScores DEF SelectionInv, TypeOK
<1>4. /\ best_score \in Nat \cup {-1} /\ baseline \in Baselines
      /\ best_epoch \in 0..epoch /\ best_weights \in 0..epoch /\ exported \in 0..epoch
  BY DEF SelectionInv, TypeOK, BestSoFar
\* Either the new epoch is the best, or an earlier one stays it.
<1>7. /\ BestSoFar'
      /\ best_score' \in Nat \cup {-1} /\ best_epoch' \in 0..epoch' /\ best_weights' \in 0..epoch'
  <2>1. CASE Improves(Score(o))
    <3>1. best_epoch' = epoch + 1 /\ best_weights' = epoch + 1 /\ best_score' = Score(o)
      BY <1>1, <2>1
    <3>2. \A e \in 1..epoch : ScoreAt(e) < Score(o)
      BY <1>3, <1>4, <2>1 DEF SelectionInv, BestSoFar, Improves
    <3>3. BestSoFar'
      <4>1. \A e \in 1..(epoch + 1) :
               /\ Score(history'[e]) <= Score(o)
               /\ e < epoch + 1 => Score(history'[e]) < Score(o)
        <5> SUFFICES ASSUME NEW e \in 1..(epoch + 1)
                     PROVE  /\ Score(history'[e]) <= Score(o)
                            /\ e < epoch + 1 => Score(history'[e]) < Score(o)
          OBVIOUS
        <5>1. CASE e \in 1..epoch
          <6>1. Score(history'[e]) = ScoreAt(e) /\ ScoreAt(e) \in Nat /\ ScoreAt(e) < Score(o)
            BY <1>3, <3>2, <5>1 DEF ScoreAt
          <6> QED BY <1>3, <6>1
        <5>2. CASE e = epoch + 1
          BY <1>3, <5>2
        <5> QED BY <1>3, <5>1, <5>2
      <4>2. epoch' # 0 /\ best_epoch' # 0 /\ best_score' = Score(history'[best_epoch'])
        BY <1>3, <3>1
      <4>3. \A e \in 1..epoch' : /\ Score(history'[e]) <= best_score'
                                 /\ e < best_epoch' => Score(history'[e]) < best_score'
        BY <1>3, <3>1, <4>1
      <4> QED BY <3>1, <4>2, <4>3 DEF BestSoFar, ScoreAt
    <3>4. /\ best_score' \in Nat \cup {-1} /\ best_epoch' \in 0..epoch'
          /\ best_weights' \in 0..epoch'
      BY <1>3, <3>1
    <3> QED BY <3>3, <3>4
  <2>2. CASE ~Improves(Score(o))
    <3>1. best_epoch' = best_epoch /\ best_score' = best_score /\ best_weights' = best_weights
      BY <1>1, <2>2 DEF best
    <3>2. epoch # 0 /\ Score(o) <= best_score
      BY <1>3, <1>4, <2>2 DEF SelectionInv, BestSoFar, Improves
    <3>3. best_epoch \in 1..epoch
      BY <1>3, <1>4, <3>2 DEF SelectionInv, BestSoFar
    <3>4. \A e \in 1..epoch : /\ ScoreAt(e) <= best_score
                              /\ e < best_epoch => ScoreAt(e) < best_score
      BY DEF SelectionInv, BestSoFar
    <3>5. \A e \in 1..(epoch + 1) :
             /\ Score(history'[e]) <= best_score
             /\ e < best_epoch => Score(history'[e]) < best_score
      <4> SUFFICES ASSUME NEW e \in 1..(epoch + 1)
                   PROVE  /\ Score(history'[e]) <= best_score
                          /\ e < best_epoch => Score(history'[e]) < best_score
        OBVIOUS
      <4>1. CASE e \in 1..epoch
        BY <1>3, <3>4, <4>1 DEF ScoreAt
      <4>2. CASE e = epoch + 1
        BY <1>3, <3>2, <3>3, <4>2
      <4> QED BY <1>3, <4>1, <4>2
    <3>6. best_score = Score(history'[best_epoch]) /\ best_weights = best_epoch
      BY <1>3, <3>2, <3>3 DEF SelectionInv, BestSoFar, ScoreAt
    <3>7. BestSoFar'
      <4>1. epoch' = epoch + 1 /\ epoch' # 0 /\ best_epoch' # 0
        BY <1>3, <3>1, <3>3
      <4>2. \A e \in 1..epoch' : /\ Score(history'[e]) <= best_score'
                                 /\ e < best_epoch' => Score(history'[e]) < best_score'
        BY <3>1, <3>5, <4>1
      <4> QED BY <3>1, <3>6, <4>1, <4>2 DEF BestSoFar, ScoreAt
    <3>8. /\ best_score' \in Nat \cup {-1} /\ best_epoch' \in 0..epoch'
          /\ best_weights' \in 0..epoch'
      BY <1>3, <1>4, <3>1
    <3> QED BY <3>7, <3>8
  <2> QED BY <2>1, <2>2
<1>8. TypeOK'
  <2>1. model' \in 0..epoch' /\ exported' \in 0..epoch' /\ epoch' <= Epochs
    BY <1>1, <1>2, <1>3, <1>4
  <2> QED BY <1>1, <1>2, <1>3, <1>4, <1>7, <2>1 DEF TypeOK
<1>9. PhaseSound'
  <2>1. phase' \in {"training", "selecting"} /\ exported' = 0
    BY <1>1, <1>2 DEF SelectionInv, PhaseSound
  <2>2. phase' = "training" => epoch + 1 # Epochs /\ ~((epoch + 1) - best_epoch' >= Patience)
    <3>1. phase' = IF OutOfPatience(epoch + 1, best_epoch') \/ epoch + 1 = Epochs
                   THEN "selecting" ELSE "training"
      BY <1>1
    <3> QED BY <3>1, Zenon DEF OutOfPatience
  <2>3. phase' = "training" => epoch' < Epochs /\ epoch' - best_epoch' < Patience
    <3>1. Epochs \in Nat /\ Patience \in Nat /\ epoch < Epochs /\ epoch \in Nat
      BY <1>2, <1>3
    <3>2. epoch' = epoch + 1 /\ best_epoch' \in 0..(epoch + 1)
      BY <1>3, <1>7
    <3>3. phase' = "training" => /\ epoch + 1 < Epochs
                                /\ (epoch + 1) - best_epoch' < Patience
      <4>1. best_epoch' \in Nat
        BY <3>1, <3>2
      <4>2. \A b \in Nat : ~((epoch + 1) - b >= Patience) => (epoch + 1) - b < Patience
        BY <3>1
      <4>3. epoch + 1 # Epochs => epoch + 1 < Epochs
        BY <3>1
      <4> QED BY <2>2, <4>1, <4>2, <4>3
    <3> QED BY <3>2, <3>3
  <2>4. phase' # "training" => epoch' = Epochs \/ epoch' - best_epoch' >= Patience
    <3>1. phase' # "training" => epoch + 1 = Epochs \/ (epoch + 1) - best_epoch' >= Patience
      <4>1. phase' = IF OutOfPatience(epoch + 1, best_epoch') \/ epoch + 1 = Epochs
                     THEN "selecting" ELSE "training"
        BY <1>1
      <4> QED BY <4>1, Zenon DEF OutOfPatience
    <3>2. epoch' = epoch + 1
      BY <1>3
    <3> QED BY <3>1, <3>2
  <2> QED BY <1>3, <2>1, <2>3, <2>4 DEF PhaseSound
<1>10. PatienceIsKept'
  <2>1. ASSUME NEW e \in 1..epoch
        PROVE  \E b \in 1..e : b > e - Patience /\ \A d \in 1..(b - 1) : ScoreAt(d) < ScoreAt(b)
    <3>1. CASE e < epoch
      <4>1. e \in 1..(epoch - 1)
        BY <1>3, <3>1
      <4> QED BY <4>1 DEF SelectionInv, PatienceIsKept
    <3>2. CASE e = epoch
      <4>1. best_epoch \in 1..epoch /\ best_epoch > epoch - Patience
        BY <1>2, <1>3, <1>4, <3>2 DEF SelectionInv, BestSoFar, PhaseSound
      <4>2. \A d \in 1..(best_epoch - 1) : ScoreAt(d) < ScoreAt(best_epoch)
        <5>1. /\ best_score = ScoreAt(best_epoch)
              /\ \A e1 \in 1..epoch : e1 < best_epoch => ScoreAt(e1) < best_score
          <6>1. BestSoFar /\ epoch # 0
            BY <1>3, <4>1 DEF SelectionInv
          <6> QED BY <6>1 DEF BestSoFar
        <5> QED BY <1>3, <4>1, <5>1
      <4> QED BY <3>2, <4>1, <4>2
    <3> QED BY <1>3, <3>1, <3>2
  <2>2. ASSUME NEW e \in 1..epoch
        PROVE  \E b \in 1..e : /\ b > e - Patience
                               /\ \A d \in 1..(b - 1) : Score(history'[d]) < Score(history'[b])
    <3>1. PICK b \in 1..e : b > e - Patience /\ \A d \in 1..(b - 1) : ScoreAt(d) < ScoreAt(b)
      BY <2>1
    <3>2. history'[b] = history[b] /\ \A d \in 1..(b - 1) : history'[d] = history[d]
      <4>1. epoch \in Nat /\ \A d \in 1..epoch : history'[d] = history[d]
        BY <1>3
      <4>2. b \in 1..epoch /\ \A d \in 1..(b - 1) : d \in 1..epoch
        BY <4>1
      <4> QED BY <4>1, <4>2
    <3>3. \A d \in 1..(b - 1) : Score(history'[d]) < Score(history'[b])
      BY <3>1, <3>2 DEF ScoreAt
    <3> QED BY <3>1, <3>3
  <2>3. (epoch' - 1) = epoch
    BY <1>3
  <2> QED BY <2>2, <2>3 DEF PatienceIsKept, ScoreAt
<1> QED BY <1>7, <1>8, <1>9, <1>10 DEF SelectionInv

\* Selecting exports the best epoch, if it beats the majority.
LEMMA SelectStep == SelectionInv /\ Select => SelectionInv'
<1> SUFFICES ASSUME SelectionInv, Select PROVE SelectionInv'
  OBVIOUS
<1>1. /\ best_epoch \in 1..epoch /\ Saved = best_epoch /\ epoch \in Nat
  BY DEF SelectionInv, TypeOK, BestSoFar, PhaseSound, Select, Saved, Shared, epoch
<1>2. /\ UNCHANGED <<history, best_score, best_epoch, best_weights, baseline, epoch>>
      /\ model' = best_epoch
  BY <1>1 DEF Select, best, epoch
<1>3. \/ phase' = "exported" /\ exported' = best_epoch /\ Hits(history[best_epoch]) > baseline
      \/ phase' = "refused" /\ exported' = exported
  BY <1>1, <1>2 DEF Select, BeatsBaseline
<1>4. TypeOK'
  BY <1>1, <1>2, <1>3 DEF SelectionInv, TypeOK
<1>5. BestSoFar' /\ PatienceIsKept'
  BY <1>2 DEF SelectionInv, BestSoFar, PatienceIsKept, ScoreAt
<1>6. PhaseSound'
  BY <1>1, <1>2, <1>3 DEF SelectionInv, PhaseSound, Select
<1> QED BY <1>4, <1>5, <1>6 DEF SelectionInv

\* SelectionInv is an invariant.
LEMMA SelectionInvariance == Spec => []SelectionInv
<1>1. SelectionInv /\ UNCHANGED vars => SelectionInv'
  BY DEF SelectionInv, TypeOK, BestSoFar, PhaseSound, PatienceIsKept, ScoreAt, vars, best, epoch
<1> QED BY SelectionInit, EpochStep, SelectStep, <1>1, PTL DEF Spec, Next

\* Of every training that exports, the weights are those of the earliest epoch with the
\* highest score, they beat the majority label, and no epoch ran out of patience. None
\* stops before it has.
THEOREM SelectsEarliestBest == Spec => []SelectionIsSound
<1>1. SelectionInv => TypeOK /\ ExportIsEarliestMaximum /\ ExportBeatsMajority /\ PatienceIsKept
  BY DEF SelectionInv, BestSoFar, PhaseSound, TypeOK,
         ExportIsEarliestMaximum, ExportBeatsMajority
<1>2. SelectionInv => PatienceIsUsedUp
  <2> SUFFICES ASSUME SelectionInv, phase # "training", epoch # Epochs
               PROVE  \E b \in 1..(epoch - Patience) : \A e \in 1..epoch : ScoreAt(e) <= ScoreAt(b)
    BY DEF PatienceIsUsedUp
  <2>1. /\ epoch \in Nat /\ epoch # 0 /\ best_epoch \in 0..epoch
        /\ epoch - best_epoch >= Patience
    BY DEF SelectionInv, TypeOK, PhaseSound, epoch
  <2>2. best_epoch # 0 /\ \A e \in 1..epoch : ScoreAt(e) <= ScoreAt(best_epoch)
    BY <2>1 DEF SelectionInv, BestSoFar
  <2>3. best_epoch \in 1..(epoch - Patience)
    BY <2>1, <2>2
  <2> QED BY <2>2, <2>3
<1> QED BY <1>1, <1>2, SelectionInvariance, PTL DEF SelectionIsSound

-----------------------------------------------------------------------------
(* The scores of classification_metrics()                                  *)

\* The rows that a label is predicted for, and those it belongs to.
Predicted(labels, predictions, l) == {i \in DOMAIN labels : predictions[i] = l}
Actual(labels, l) == {i \in DOMAIN labels : labels[i] = l}

\* The denominator counts the predicted and the actual rows, hits twice.
LEMMA DenominatorCounts ==
  ASSUME NEW n \in Nat, NEW labels \in [1..n -> Classes],
         NEW predictions \in [1..n -> Classes], NEW l \in Classes
  PROVE  LET P == Predicted(labels, predictions, l)
             A == Actual(labels, l)
             m == Matrix(labels, predictions)
         IN /\ Cardinality(P) \in 0..n /\ Cardinality(A) \in 0..n
            /\ Cardinality(P \cap A) \in 0..n /\ m[l][l] = Cardinality(P \cap A)
            /\ Denominator(m, l) = Cardinality(P) + Cardinality(A)
<1> DEFINE P == Predicted(labels, predictions, l)
           A == Actual(labels, l)
           m == Matrix(labels, predictions)
           Cell(a, b) == {i \in DOMAIN labels : labels[i] = a /\ predictions[i] = b}
<1>1. 1 - l \in Classes /\ l # 1 - l
  BY DEF Classes
<1>2. /\ m[l][l] = Cardinality(Cell(l, l))
      /\ m[1 - l][l] = Cardinality(Cell(1 - l, l))
      /\ m[l][1 - l] = Cardinality(Cell(l, 1 - l))
  BY <1>1 DEF Matrix
<1>3. IsFiniteSet(1..n) /\ Cardinality(1..n) = n /\ DOMAIN labels = 1..n
  BY FS_Interval
<1>4. ASSUME NEW S \in SUBSET (1..n)
      PROVE  IsFiniteSet(S) /\ Cardinality(S) \in 0..n
  <2>1. IsFiniteSet(S) /\ Cardinality(S) <= Cardinality(1..n)
    <3> DEFINE whole == 1..n
    <3>1. IsFiniteSet(whole) /\ S \in SUBSET whole
      BY <1>3
    <3> HIDE DEF whole
    <3>2. IsFiniteSet(S) /\ Cardinality(S) <= Cardinality(whole)
      BY <3>1, FS_Subset
    <3> QED BY <3>2 DEF whole
  <2>2. Cardinality(S) \in Nat
    BY <2>1, FS_CardinalityType
  <2> QED BY <1>3, <2>1, <2>2
<1>5. /\ P \cap A = Cell(l, l) /\ P = Cell(l, l) \cup Cell(1 - l, l)
      /\ A = Cell(l, l) \cup Cell(l, 1 - l)
      /\ Cell(l, l) \cap Cell(1 - l, l) = {} /\ Cell(l, l) \cap Cell(l, 1 - l) = {}
  BY <1>1, <1>3 DEF Predicted, Actual, Classes
<1>6. /\ P \in SUBSET (1..n) /\ A \in SUBSET (1..n) /\ P \cap A \in SUBSET (1..n)
      /\ \A a, b \in Classes : Cell(a, b) \in SUBSET (1..n)
  BY <1>3 DEF Predicted, Actual
<1> HIDE DEF P, A, Cell
<1>7. ASSUME NEW S \in SUBSET (1..n), NEW T \in SUBSET (1..n), S \cap T = {}
      PROVE  Cardinality(S \cup T) = Cardinality(S) + Cardinality(T)
  <2>1. /\ IsFiniteSet(S) /\ IsFiniteSet(T)
        /\ Cardinality(S) \in Nat /\ Cardinality(T) \in Nat
    BY <1>4
  <2>2. Cardinality(S \cup T) = Cardinality(S) + Cardinality(T) - Cardinality(S \cap T)
    BY <2>1, FS_Union
  <2>3. Cardinality(S \cap T) = 0
    BY <1>7, FS_EmptySet
  <2> QED BY <2>1, <2>2, <2>3
<1> DEFINE x == Cardinality(Cell(l, l))
           y == Cardinality(Cell(1 - l, l))
           z == Cardinality(Cell(l, 1 - l))
<1>8. Cardinality(P) = x + y /\ Cardinality(A) = x + z
  BY <1>1, <1>5, <1>6, <1>7
<1>9. /\ Cardinality(P) \in 0..n /\ Cardinality(A) \in 0..n /\ Cardinality(P \cap A) \in 0..n
  BY <1>4, <1>6
<1>10. x \in Nat /\ y \in Nat /\ z \in Nat
  <2>1. /\ Cell(l, l) \in SUBSET (1..n) /\ Cell(1 - l, l) \in SUBSET (1..n)
        /\ Cell(l, 1 - l) \in SUBSET (1..n)
    BY <1>1, <1>6
  <2> QED BY <1>4, <2>1
<1>11. x = Cardinality(P \cap A)
  BY <1>5
<1> HIDE DEF x, y, z
<1>12. m[l][l] = x /\ m[1 - l][l] = y /\ m[l][1 - l] = z
  BY <1>2 DEF x, y, z
<1> HIDE DEF m
<1>13. Denominator(m, l) = 2 * x + y + z
  BY <1>12 DEF Denominator
<1>14. Denominator(m, l) = Cardinality(P) + Cardinality(A)
  BY <1>8, <1>10, <1>13
<1> QED BY <1>9, <1>11, <1>12, <1>14 DEF P, A, m

\* Division by what was multiplied with.
LEMMA ExactQuotient ==
  ASSUME NEW q \in Nat, NEW d \in Nat \ {0}
  PROVE  (q * d) \div d = q
OBVIOUS

\* Scale is a multiple of what divides it.
LEMMA Multiple ==
  ASSUME NEW s \in Nat, NEW d \in Nat \ {0}, s % d = 0
  PROVE  \E k \in Nat : s = k * d
<1>1. s = d * (s \div d) + (s % d) /\ s \div d \in Nat
  OBVIOUS
<1> QED BY <1>1

\* F1 is the harmonic mean of precision and recall, its ratio being taken of a multiple
\* of every denominator it may have.
LEMMA F1OfMultiples ==
  ASSUME NEW n \in Nat \ {0}, NEW labels \in [1..n -> Classes],
         NEW predictions \in [1..n -> Classes],
         \A d \in 1..(2 * n) : \E k \in Nat : Scale = k * d
  PROVE  F1IsHarmonicMean(labels, predictions)
<1> SUFFICES ASSUME NEW l \in Classes
             PROVE  /\ Predicted(labels, predictions, l) \cup Actual(labels, l) = {}
                         => F1(labels, predictions, l) = 0
                    /\ F1(labels, predictions, l)
                         * (Cardinality(Predicted(labels, predictions, l))
                            + Cardinality(Actual(labels, l)))
                       = 2 * Cardinality(Predicted(labels, predictions, l) \cap Actual(labels, l))
                           * Scale
  BY DEF F1IsHarmonicMean, Predicted, Actual
<1> DEFINE h == Cardinality(Predicted(labels, predictions, l) \cap Actual(labels, l))
           p == Cardinality(Predicted(labels, predictions, l))
           a == Cardinality(Actual(labels, l))
           d == Denominator(Matrix(labels, predictions), l)
           s == Scale
<1>0. /\ p \in 0..n /\ a \in 0..n /\ h \in 0..n
      /\ Matrix(labels, predictions)[l][l] = h /\ d = p + a
  <2>1. n \in Nat
    OBVIOUS
  <2> HIDE DEF Classes
  <2> QED BY <2>1, DenominatorCounts
<1>1. p \in 0..n /\ a \in 0..n /\ h \in 0..n /\ d = p + a
  BY <1>0
<1>2. F1(labels, predictions, l) = IF d = 0 THEN 0 ELSE (2 * h * s) \div d
  BY <1>0 DEF F1, EmptyRatio
<1>3. s \in Nat
  <2>1. PICK k \in Nat : s = k * 1
    OBVIOUS
  <2> QED BY <2>1
<1>4. d = 0 => h = 0
  <2>1. IsFiniteSet(Predicted(labels, predictions, l))
    BY FS_Interval, FS_Subset DEF Predicted
  <2>2. h <= p
    BY <2>1, FS_Subset
  <2> QED BY <1>1, <2>2
<1>5. Predicted(labels, predictions, l) \cup Actual(labels, l) = {} => d = 0
  <2>1. Predicted(labels, predictions, l) \cup Actual(labels, l) = {} => p = 0 /\ a = 0
    BY FS_EmptySet
  <2> QED BY <1>1, <2>1
<1>6. Predicted(labels, predictions, l) \cup Actual(labels, l) = {}
        => F1(labels, predictions, l) = 0
  BY <1>2, <1>5
<1> HIDE DEF h, p, a, d, s
<1>7. CASE d = 0
  BY <1>1, <1>2, <1>3, <1>4, <1>7 DEF h, p, a, s
<1>8. CASE d # 0
  <2>1. d \in 1..(2 * n)
    BY <1>1, <1>8
  <2>2. PICK k \in Nat : s = k * d
    BY <2>1 DEF s
  <2> DEFINE q == 2 * h * k
  <2>3. q \in Nat /\ 2 * h * s = q * d
    BY <1>1, <2>1, <2>2
  <2> HIDE DEF q
  <2>4. (2 * h * s) \div d = q
    BY <2>1, <2>3, ExactQuotient
  <2>5. F1(labels, predictions, l) * d = 2 * h * s
    BY <1>2, <1>8, <2>3, <2>4
  <2> QED BY <1>1, <1>6, <2>5 DEF h, p, a, s
<1> QED BY <1>7, <1>8

\* Whatever the network predicts in each epoch, the scores that train() selects by and
\* the evaluation reports (classification_metrics()) are harmonic means of precision and
\* recall, for any number of rows with any labels; a class that is neither present nor
\* predicted, whose ratio is empty, scores 0.
THEOREM ScoresAreHarmonicMeans == Spec => []ScoresMatchDefinition
<1>1. ASSUME NEW d \in 1..(2 * Rows) PROVE \E k \in Nat : Scale = k * d
  <2>1. Scale \in Nat /\ Scale % d = 0
    BY ScaleAssumption
  <2>2. d \in Nat \ {0}
    BY ScaleAssumption
  <2> QED BY <2>1, <2>2, Multiple
<1>2. ASSUME NEW o \in Outcomes, NEW labels \in Predictions PROVE F1IsHarmonicMean(labels, o)
  <2>1. /\ Rows \in Nat \ {0} /\ labels \in [1..Rows -> Classes] /\ o \in [1..Rows -> Classes]
    BY ScaleAssumption, PredictionAssumption DEF Predictions
  <2> QED BY <1>1, <2>1, F1OfMultiples
<1>3. SelectionInv => ScoresMatchDefinition
  <2>1. ASSUME TypeOK, NEW e \in DOMAIN history PROVE history[e] \in Outcomes
    BY <2>1 DEF TypeOK
  <2> QED BY <1>2, <2>1 DEF SelectionInv, ScoresMatchDefinition
<1> QED BY <1>3, SelectionInvariance, PTL
=============================================================================
