---------------------------- MODULE MCEvaluation ----------------------------
EXTENDS Evaluation

BothKinds == {"artifact", "snapshot"}

\* Of the artifact's four files the configuration stands for the vocabulary too.
FilesOfKind ==
  [artifact |-> <<"config.json", "weights.safetensors", "training.json">>,
   snapshot |-> <<"config.json", "model.safetensors", "vocab.txt">>]

\* Each training writes an artifact of its own; a snapshot is pinned.
ContentOfKind ==
  [artifact |-> [w \in Writers |-> w], snapshot |-> [w \in Writers |-> "pinned"]]

\* One evaluation is run again, when it has ended or crashed; the other may overlap both.
RunsOfEach == [e \in {1, 2} |-> <<2, 1>>[e]]
=============================================================================
