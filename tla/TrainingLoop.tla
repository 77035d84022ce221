---------------------------- MODULE TrainingLoop ----------------------------
(***************************************************************************)
(* The epochs of train(): early stopping, the selection of a checkpoint,   *)
(* the comparison with the majority baseline and the export.               *)
(*                                                                         *)
(* Weights are named by the epoch that produced them (0 is initialization). *)
(* What an epoch makes of them is the optimizer's: any outcome, an element *)
(* of Outcomes with a Score (macro F1) and Hits (accuracy).                *)
(***************************************************************************)
EXTENDS Integers, Sequences

CONSTANTS Outcomes, Score(_), Hits(_),
          Baselines,  \* the hits the majority label may have on validation rows
          Epochs, Patience

ASSUME OutcomesAssumption == \A o \in Outcomes : Score(o) \in Nat /\ Hits(o) \in Nat
ASSUME BoundsAssumption ==
  /\ Epochs \in Nat \ {0} /\ Patience \in Nat \ {0} /\ Baselines \subseteq Nat

VARIABLES
  history,       \* the validation outcome of each epoch so far
  best_score, best_epoch,
  best_weights,  \* a copy of some weights
  model,         \* the weights of the network now
  baseline,
  phase,         \* training, selecting, exported or refused
  exported       \* the weights in the artifact

best == <<best_score, best_epoch, best_weights>>
vars == <<history, best, model, baseline, phase, exported>>

epoch == Len(history)

\* Fault: state_dict() without deepcopy() goes on referring to the network.
Shared == -1
ReferTo(weights) == Shared

CopyOf(weights) == weights

Saved == IF best_weights = Shared THEN model ELSE best_weights

Init ==
  /\ history = << >> /\ best_score = -1 /\ best_epoch = 0
  /\ best_weights = CopyOf(0) /\ model = 0
  /\ baseline \in Baselines /\ phase = "training" /\ exported = 0

Improves(score)   == score > best_score
OutOfPatience(e, b) == e - b >= Patience

\* One pass over the shuffled batches, and the validation of what came of it.
TrainEpoch ==
  /\ phase = "training" /\ epoch < Epochs
  /\ \E o \in Outcomes :
       /\ history' = Append(history, o) /\ model' = epoch + 1
       /\ IF Improves(Score(o))
          THEN /\ best_score' = Score(o) /\ best_epoch' = epoch + 1
               /\ best_weights' = CopyOf(model')
          ELSE UNCHANGED best
       /\ phase' = IF OutOfPatience(epoch + 1, best_epoch') \/ epoch + 1 = Epochs
                   THEN "selecting" ELSE "training"
  /\ UNCHANGED <<baseline, exported>>

BeatsBaseline(hits) == hits > baseline

\* The network is given the best weights back, measured again and exported.
Select ==
  /\ phase = "selecting"
  /\ model' = Saved
  /\ IF BeatsBaseline(Hits(history[model']))
     THEN phase' = "exported" /\ exported' = Saved
     ELSE phase' = "refused" /\ UNCHANGED exported
  /\ UNCHANGED <<history, best, baseline>>

Next == TrainEpoch \/ Select

Spec == Init /\ [][Next]_vars

-----------------------------------------------------------------------------
(* Properties                                                              *)

\* Type correctness: weights are named by an epoch that was run.
TypeOK ==
  /\ history \in Seq(Outcomes) /\ epoch <= Epochs
  /\ best_score \in Nat \cup {-1}
  /\ {best_epoch, model, exported} \subseteq 0..epoch
  /\ best_weights \in 0..epoch \cup {Shared}
  /\ baseline \in Baselines
  /\ phase \in {"training", "selecting", "exported", "refused"}

ScoreAt(e) == Score(history[e])

\* The artifact holds the weights of the earliest epoch with the highest score,
\* though the network was trained on after it.
ExportIsEarliestMaximum ==
  phase = "exported" =>
    /\ exported \in 1..epoch
    /\ \A e \in 1..epoch : /\ ScoreAt(e) <= ScoreAt(exported)
                           /\ e < exported => ScoreAt(e) < ScoreAt(exported)

\* Selection is by macro F1: what it selects is nevertheless more accurate than
\* the majority label, or nothing is exported.
ExportBeatsMajority ==
  /\ phase = "exported" => Hits(history[exported]) > baseline
  /\ phase # "exported" => exported = 0

\* An epoch is run only if one of the Patience epochs before it was the best so far.
PatienceIsKept ==
  \A e \in 1..(epoch - 1) :
    \E b \in 1..e : b > e - Patience /\ \A d \in 1..(b - 1) : ScoreAt(d) < ScoreAt(b)

\* Training stops before its last epoch only if the best is Patience epochs back.
PatienceIsUsedUp ==
  phase # "training" =>
    \/ epoch = Epochs
    \/ \E b \in 1..(epoch - Patience) : \A e \in 1..epoch : ScoreAt(e) <= ScoreAt(b)

\* What a training leaves is the earliest best checkpoint, accepted against the
\* majority label, after as many epochs as patience allows and no more.
SelectionIsSound ==
  TypeOK /\ ExportIsEarliestMaximum /\ ExportBeatsMajority /\ PatienceIsKept /\ PatienceIsUsedUp
=============================================================================
