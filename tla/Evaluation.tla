----------------------------- MODULE Evaluation -----------------------------
(***************************************************************************)
(* evaluate(): one measurement of a published artifact on the test rows of *)
(* the dataset it was trained on, recorded beside the model and in a       *)
(* report. An evaluator is a process that loads the artifact as a reader,  *)
(* with others reading, training and writing; it may be killed and run     *)
(* again, and nothing keeps two of them from overlapping.                  *)
(***************************************************************************)
EXTENDS PublishedDirectory, FiniteSets

CONSTANTS Evaluators,  \* readers that run evaluate()
          Datasets,    \* that may be given
          Outputs,     \* paths of reports
          TrainedOn,   \* the dataset the artifact names
          MaxRuns      \* bound: how often each of them is run

ASSUME EvaluationAssumption == Evaluators \subseteq Readers /\ MaxRuns \in [Evaluators -> Nat]

VARIABLES
  pc,         \* idle, checked, measured, recording, recorded, reporting
  begun,      \* how often each was run
  given,      \* the arguments of the run: its dataset and its output
  record,     \* evaluation.json: absent, partial, or a measurement
  report,     \* at each output: absent, partial, or a measurement
  records,    \* history: the measurements that were written as the record, in a set
  overlapped  \* history: one was begun while another had checked and not recorded

evaluation == <<pc, begun, given, record, report, records, overlapped>>
allVars    == <<vars, evaluation>>

None    == <<"absent">>
Partial == <<"partial">>
NoRun   == [dataset |-> "none", output |-> "none"]

\* A measurement is told by who made it, when, on which rows and of which weights.
Measurement(e) == <<e, begun[e], given[e].dataset, got[e]>>

InitEvaluation ==
  /\ Init
  /\ pc = [e \in Evaluators |-> "idle"] /\ begun = [e \in Evaluators |-> 0]
  /\ given = [e \in Evaluators |-> NoRun]
  /\ record = None /\ report = [o \in Outputs |-> None] /\ records = {}
  /\ overlapped = FALSE

Goto(e, label) == pc' = [pc EXCEPT ![e] = label]

\* Fault: only the report is looked for.
UnreportedOnly(o) == report[o] = None

Unevaluated(o) == report[o] = None /\ record = None

BeginEvaluation(e, d, o) ==
  /\ pc[e] = "idle" /\ Exclusive /\ begun[e] < MaxRuns[e]
  /\ Unevaluated(o)
  /\ begun' = [begun EXCEPT ![e] = @ + 1]
  /\ given' = [given EXCEPT ![e] = [dataset |-> d, output |-> o]]
  /\ overlapped' = (overlapped \/ \E f \in Evaluators : pc[f] \in {"checked", "measured"})
  /\ Goto(e, "checked")
  /\ UNCHANGED <<vars, record, report, records>>

\* Constructor and load() of the adapter.
LoadArtifact(e) ==
  /\ pc[e] = "checked"
  /\ ReadManifest(e) \/ Verify(e) \/ Verified(e) \/ ReadFile(e) \/ Loaded(e)
  /\ UNCHANGED evaluation

\* Fault: the dataset is not compared with the one of the training.
AnyDataset(e) == TRUE

Provenance(e) == given[e].dataset = TrainedOn

\* training.json is read again; the dataset's hash, its test split and its ids are checked.
Accept(e) ==
  /\ pc[e] = "checked" /\ reader[e] = "loaded" /\ Provenance(e)
  /\ Goto(e, "measured")
  /\ UNCHANGED <<vars, begun, given, record, report, records, overlapped>>

\* write_json(): truncated, then written, over what another has written since.
Written(e, before) == {Measurement(e)} \cup (IF before = Partial THEN {} ELSE {Partial})

OpenRecord(e) ==
  /\ pc[e] = "measured" /\ record' = Partial /\ Goto(e, "recording")
  /\ UNCHANGED <<vars, begun, given, report, records, overlapped>>

WriteRecord(e) ==
  /\ pc[e] = "recording"
  /\ record' \in Written(e, record) /\ records' = records \cup {Measurement(e)}
  /\ Goto(e, "recorded")
  /\ UNCHANGED <<vars, begun, given, report, overlapped>>

OpenReport(e) ==
  /\ pc[e] = "recorded" /\ report' = [report EXCEPT ![given[e].output] = Partial]
  /\ Goto(e, "reporting")
  /\ UNCHANGED <<vars, begun, given, record, records, overlapped>>

\* The process ends, and its reader with it.
Leave(e) ==
  /\ Goto(e, "idle") /\ given' = [given EXCEPT ![e] = NoRun]
  /\ EndReader(e) \/ (reader[e] = "idle" /\ UNCHANGED vars)

\* The gate that is checked last fails the command, not what it wrote. close() follows.
WriteReport(e) ==
  /\ pc[e] = "reporting"
  /\ \E m \in Written(e, report[given[e].output]) : report' = [report EXCEPT ![given[e].output] = m]
  /\ Leave(e)
  /\ UNCHANGED <<begun, record, records, overlapped>>

\* A failed check, or a crash.
AbortEvaluation(e) ==
  /\ pc[e] # "idle" /\ Leave(e)
  /\ UNCHANGED <<begun, record, report, records, overlapped>>

Evaluate(e) ==
  \/ \E d \in Datasets, o \in Outputs : BeginEvaluation(e, d, o)
  \/ LoadArtifact(e) \/ Accept(e) \/ OpenRecord(e) \/ WriteRecord(e)
  \/ OpenReport(e) \/ WriteReport(e) \/ AbortEvaluation(e)

\* An evaluator reads training.json again, after its load.
ReadsAgain(e, f) == pc[e] = "checked" /\ reader[e] = "loaded" /\ f = "training.json"

\* What the directory does meanwhile.
DirectoryStep ==
  /\ \/ \E w \in Writers : WriterStep(w)
     \/ \E f \in Names : DamageFile(f) /\ \A e \in Evaluators : ~ReadsAgain(e, f)
     \/ \E r \in Readers \ Evaluators : ReaderStep(r)
  /\ UNCHANGED evaluation

NextEvaluation == DirectoryStep \/ \E e \in Evaluators : Evaluate(e)

SpecEvaluation == InitEvaluation /\ [][NextEvaluation]_allVars

-----------------------------------------------------------------------------
(* Properties                                                              *)

\* README.md: "evaluation refuses to replace an existing evaluation". At most one
\* measurement is ever written as the record.
NeverReplaced == Cardinality(records) <= 1

\* The same of what the check at the start can keep, whichever processes crash and
\* are run again: a record is replaced by an evaluation only that began before it,
\* while the one that wrote it was under way.
OnlyOverlapReplaces == ~overlapped => NeverReplaced

\* A whole report repeats a measurement that was written as the record before, on
\* the dataset of the training, with the weights that the manifest still names; so
\* is the record, and where evaluations did not overlap the report is the record.
ReportsAreTheRecord ==
  /\ \A m \in records : m[3] = TrainedOn /\ m[4] = digests
  /\ record \in {None, Partial} \cup records
  /\ \A o \in Outputs :
       report[o] \notin {None, Partial} =>
         report[o] \in records /\ (~overlapped => report[o] = record)
=============================================================================
