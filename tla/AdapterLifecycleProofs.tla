------------------------ MODULE AdapterLifecycleProofs ------------------------
(***************************************************************************)
(* Theorems of AdapterLifecycle, for every choice of adapters, devices and *)
(* text limits and every batch size the adapters accept.                   *)
(***************************************************************************)
EXTENDS AdapterLifecycle, TLAPS

-----------------------------------------------------------------------------
(* The inductive invariant.                                                *)

\* The worker's call and the life of the service go together.
CallSound ==
  /\ call = "load" <=> life = "loading"
  /\ call = "close" <=> life = "closing"
  /\ call = "predict" => life \in {"serving", "draining"} \/ (life = "stopped" /\ abandoned)
  /\ abandoned => life = "stopped" /\ call = "predict"
  /\ call = "none" => returned = "none"
  /\ call = "load" => size = 1 /\ longest = WarmupLength
  /\ call = "predict" => size \in 1..MaxBatchSize /\ Validates(longest)

\* The step at which load() assigns the adapter's attributes.
AssignAt == IF adapter = "fake" THEN 1 ELSE 8

\* Which attributes are set depends on how far the call is.
AttrsSound ==
  /\ life = "new" => attrs = {}
  /\ call = "load" => attrs \subseteq Assigned
  /\ call = "load" /\ (at > AssignAt \/ returned = "value") => attrs = Assigned
  /\ life \in {"serving", "draining"} \/ call = "predict" => attrs = Assigned
  /\ call = "close" /\ at = 1 => attrs = Assigned
  /\ call = "close" /\ at > 1 => attrs = {"torch"}
  /\ call = "close" /\ returned = "value" => attrs = {}
  /\ life = "stopped" /\ ~abandoned => attrs = {}

\* A load that ended with a value took all its steps, its warmup got past the guards, and
\* the service opens its door after such a load only.
LoadSound ==
  /\ life = "new" => loaded = 0
  /\ call = "load" /\ returned = "none" => loaded + 1 = at
  /\ (call = "load" /\ returned = "value") \/ life \in {"serving", "draining"} =>
       loaded = Len(LoadSteps) /\ (adapter # "fake" => limit >= WarmupLength)
  /\ call = "load" /\ at > AssignAt + 1 => limit >= WarmupLength

\* So does who holds the device memory.
MemorySound ==
  /\ adapter = "fake" => memory = "free"
  /\ call = "close" /\ at = 2 => memory # "used"
  /\ call = "close" /\ (at = 3 \/ returned = "value") => memory = "free"
  /\ life = "stopped" /\ ~abandoned => memory = "free"

\* The scheduler knows of a lost device, or is about to be told.
Lost == oom # {} /\ (adapter = "huggingface" => "forward" \in oom)

LossSound ==
  /\ adapter = "fake" => oom = {}
  /\ call = "predict" /\ returned = "none" => ~failed
  /\ Lost => failed \/ (call = "predict" /\ returned = "fatal")

\* The inductive invariant the theorems rest on.
IInv == TypeOK /\ CallSound /\ AttrsSound /\ LoadSound /\ MemorySound /\ LossSound

-----------------------------------------------------------------------------
(* The steps of the three calls.                                           *)

\* A load of a real adapter has eight steps, the last of which assigns, and then its warmup.
LEMMA HuggingFaceLoad ==
  ASSUME adapter = "huggingface"
  PROVE  /\ Len(LoadSteps) = 13
         /\ \A k \in 1..13 :
              /\ LoadSteps[k] = "assign" <=> k = 8
              /\ LoadSteps[k] = "guards" <=> k = 9
              /\ LoadSteps[k] \notin {"vocabulary", "drop_model", "drop_torch", "empty_cache"}
<1> SUFFICES
      ASSUME NEW steps,
             steps = <<"verify", "import", "device", "tokenizer", "model", "labels", "move", "assign">>
                       \o <<"guards", "tokenize", "transfer", "forward", "scores">>
      PROVE  /\ Len(steps) = 13
             /\ \A k \in 1..13 :
                  /\ steps[k] = "assign" <=> k = 8
                  /\ steps[k] = "guards" <=> k = 9
                  /\ steps[k] \notin {"vocabulary", "drop_model", "drop_torch", "empty_cache"}
  <2>1. PredictSteps = <<"guards", "tokenize", "transfer", "forward", "scores">>
    BY DEF PredictSteps
  <2> QED BY <2>1 DEF LoadSteps
<1>1. Len(steps) = 13
  OBVIOUS
<1>2. ASSUME NEW k \in 1..8
      PROVE  steps[k] = <<"verify", "import", "device", "tokenizer", "model", "labels", "move", "assign">>[k]
  OBVIOUS
<1>3. ASSUME NEW k \in 9..13
      PROVE  steps[k] = <<"guards", "tokenize", "transfer", "forward", "scores">>[k - 8]
  OBVIOUS
<1>4. ASSUME NEW k \in 1..8
      PROVE  /\ steps[k] = "assign" <=> k = 8
             /\ steps[k] \notin {"guards", "vocabulary", "drop_model", "drop_torch", "empty_cache"}
  BY <1>2
<1>5. ASSUME NEW k \in 9..13
      PROVE  /\ steps[k] = "guards" <=> k = 9
             /\ steps[k] \notin {"assign", "vocabulary", "drop_model", "drop_torch", "empty_cache"}
  BY <1>3
<1> QED BY <1>1, <1>4, <1>5

\* The same of the custom adapter, which reads its vocabulary as well.
LEMMA CustomLoad ==
  ASSUME adapter = "custom"
  PROVE  /\ Len(LoadSteps) = 12
         /\ \A k \in 1..12 :
              /\ LoadSteps[k] = "assign" <=> k = 8
              /\ LoadSteps[k] = "guards" <=> k = 9
              /\ LoadSteps[k] \notin {"drop_model", "drop_torch", "empty_cache"}
<1> SUFFICES
      ASSUME NEW steps,
             steps = <<"verify", "import", "device", "config", "vocabulary", "model", "move", "assign">>
                       \o <<"guards", "transfer", "forward", "scores">>
      PROVE  /\ Len(steps) = 12
             /\ \A k \in 1..12 :
                  /\ steps[k] = "assign" <=> k = 8
                  /\ steps[k] = "guards" <=> k = 9
                  /\ steps[k] \notin {"drop_model", "drop_torch", "empty_cache"}
  <2>1. PredictSteps = <<"guards", "transfer", "forward", "scores">>
    BY DEF PredictSteps
  <2> QED BY <2>1 DEF LoadSteps
<1>1. Len(steps) = 12
  OBVIOUS
<1>2. ASSUME NEW k \in 1..8
      PROVE  steps[k] = <<"verify", "import", "device", "config", "vocabulary", "model", "move", "assign">>[k]
  OBVIOUS
<1>3. ASSUME NEW k \in 9..12
      PROVE  steps[k] = <<"guards", "transfer", "forward", "scores">>[k - 8]
  OBVIOUS
<1>4. ASSUME NEW k \in 1..8
      PROVE  /\ steps[k] = "assign" <=> k = 8
             /\ steps[k] \notin {"guards", "drop_model", "drop_torch", "empty_cache"}
  BY <1>2
<1>5. ASSUME NEW k \in 9..12
      PROVE  steps[k] \notin {"assign", "drop_model", "drop_torch", "empty_cache"}
  BY <1>3
<1> QED BY <1>1, <1>4, <1>5

\* A load assigns the attributes once, and predicts after that only.
LEMMA LoadTable ==
  ASSUME TypeOK, call = "load", returned = "none"
  PROVE  /\ at \in 1..Len(LoadSteps) /\ Here = LoadSteps[at] /\ Len(LoadSteps) \in Nat
         /\ AssignAt \in 1..Len(LoadSteps)
         /\ Here = "assign" <=> at = AssignAt
         /\ Here = "guards" <=> adapter # "fake" /\ at = AssignAt + 1
         /\ adapter # "fake" => Len(LoadSteps) > AssignAt + 1
         /\ Here = "vocabulary" => adapter = "custom"
         /\ Here = "move" => adapter # "fake"
         /\ Here \notin {"drop_model", "drop_torch", "empty_cache"}
<1>1. /\ at \in 0..Len(LoadSteps) /\ at # 0 /\ Here = LoadSteps[at]
      /\ adapter \in {"fake", "huggingface", "custom"}
  BY AdapterAssumption DEF TypeOK, Here, Steps
<1>2. CASE adapter = "fake"
  <2>1. LoadSteps = <<"assign">>
    BY <1>2 DEF LoadSteps
  <2> QED BY <1>1, <1>2, <2>1 DEF AssignAt
<1>3. CASE adapter = "huggingface"
  <2>1. /\ Len(LoadSteps) = 13
        /\ \A k \in 1..13 :
             /\ LoadSteps[k] = "assign" <=> k = 8
             /\ LoadSteps[k] = "guards" <=> k = 9
             /\ LoadSteps[k] \notin {"vocabulary", "drop_model", "drop_torch", "empty_cache"}
    BY <1>3, HuggingFaceLoad
  <2>2. at \in 1..13 /\ AssignAt = 8
    BY <1>1, <1>3, <2>1 DEF AssignAt
  <2> QED BY <1>1, <1>3, <2>1, <2>2
<1>4. CASE adapter = "custom"
  <2>1. /\ Len(LoadSteps) = 12
        /\ \A k \in 1..12 :
             /\ LoadSteps[k] = "assign" <=> k = 8
             /\ LoadSteps[k] = "guards" <=> k = 9
             /\ LoadSteps[k] \notin {"drop_model", "drop_torch", "empty_cache"}
    BY <1>4, CustomLoad
  <2>2. at \in 1..12 /\ AssignAt = 8
    BY <1>1, <1>4, <2>1 DEF AssignAt
  <2> QED BY <1>1, <1>4, <2>1, <2>2
<1> QED BY <1>1, <1>2, <1>3, <1>4

\* A prediction changes neither attributes nor memory for good, and fails fatally wherever
\* the except clause is.
LEMMA PredictTable ==
  ASSUME TypeOK, call = "predict", returned = "none"
  PROVE  /\ at \in 1..Len(PredictSteps) /\ Here = PredictSteps[at] /\ Len(PredictSteps) \in Nat
         /\ Here \notin {"vocabulary", "assign", "move", "drop_model", "drop_torch", "empty_cache"}
         /\ Here \in DeviceSteps =>
              /\ adapter # "fake"
              /\ adapter = "custom" \/ Here = "forward" => Here \in FatalSteps
<1>1. /\ at \in 0..Len(PredictSteps) /\ at # 0 /\ Here = PredictSteps[at]
      /\ adapter \in {"fake", "huggingface", "custom"}
  BY AdapterAssumption DEF TypeOK, Here, Steps
<1>2. CASE adapter = "fake"
  <2>1. PredictSteps = <<"guards", "score">>
    BY <1>2 DEF PredictSteps
  <2> QED BY <1>1, <1>2, <2>1 DEF DeviceSteps
<1>3. CASE adapter = "huggingface"
  <2>1. PredictSteps = <<"guards", "tokenize", "transfer", "forward", "scores">>
    BY <1>3 DEF PredictSteps
  <2>2. at \in 1..5
    BY <1>1, <2>1
  <2> QED BY <1>1, <1>3, <2>1, <2>2 DEF DeviceSteps, FatalSteps
<1>4. CASE adapter = "custom"
  <2>1. PredictSteps = <<"guards", "transfer", "forward", "scores">>
    BY <1>4 DEF PredictSteps
  <2>2. at \in 1..4
    BY <1>1, <2>1
  <2> QED BY <1>1, <1>4, <2>1, <2>2 DEF DeviceSteps, FatalSteps
<1> QED BY <1>1, <1>2, <1>3, <1>4

\* A close drops the model, then the allocator's memory, then the library.
LEMMA CloseTable ==
  ASSUME TypeOK, call = "close", returned = "none"
  PROVE  /\ at \in 1..Len(CloseSteps) /\ Here = CloseSteps[at]
         /\ Len(CloseSteps) = IF adapter = "fake" THEN 1 ELSE 3
         /\ Here = IF at = 1 THEN "drop_model" ELSE IF at = 2 THEN "empty_cache" ELSE "drop_torch"
<1>1. at \in 0..Len(CloseSteps) /\ at # 0 /\ Here = CloseSteps[at]
  BY DEF TypeOK, Here, Steps
<1>2. CASE adapter = "fake"
  <2>1. CloseSteps = <<"drop_model">>
    BY <1>2 DEF CloseSteps
  <2> QED BY <1>1, <1>2, <2>1
<1>3. CASE adapter # "fake"
  <2>1. CloseSteps = <<"drop_model", "empty_cache", "drop_torch">>
    BY <1>3 DEF CloseSteps
  <2>2. at \in 1..3
    BY <1>1, <2>1
  <2> QED BY <1>1, <1>3, <2>1, <2>2
<1> QED BY <1>2, <1>3

\* What load() sets, by adapter.
LEMMA AssignedIs ==
  ASSUME TypeOK
  PROVE  /\ Assigned \subseteq {"torch", "tokenizer", "indices", "model"}
         /\ Guarded \subseteq Assigned
         /\ adapter = "custom" => "indices" \in Assigned
         /\ Assigned \ {"model", "tokenizer", "indices"} = IF adapter = "fake" THEN {} ELSE {"torch"}
<1>1. adapter \in {"fake", "huggingface", "custom"}
  BY AdapterAssumption DEF TypeOK
<1> QED BY <1>1 DEF Assigned, Guarded

\* The settings do not change, and what depends on nothing else does not either.
LEMMA SettingsKept ==
  ASSUME UNCHANGED settings
  PROVE  /\ LoadSteps' = LoadSteps /\ PredictSteps' = PredictSteps /\ CloseSteps' = CloseSteps
         /\ Assigned' = Assigned /\ DeviceSteps' = DeviceSteps /\ AssignAt' = AssignAt
         /\ adapter' = adapter /\ device' = device /\ limit' = limit
<1>1. adapter' = adapter /\ device' = device /\ limit' = limit
  BY DEF settings
<1>2. PredictSteps' = PredictSteps
  BY <1>1 DEF PredictSteps
<1>3. LoadSteps' = LoadSteps
  BY <1>1, <1>2 DEF LoadSteps
<1> QED BY <1>1, <1>2, <1>3 DEF CloseSteps, Assigned, DeviceSteps, AssignAt

-----------------------------------------------------------------------------
(* Every step keeps the inductive invariant, part by part.                 *)

\* Every call has a first step.
LEMMA StepCounts ==
  ASSUME TypeOK, NEW c \in {"load", "predict", "close"}
  PROVE  Len(Steps(c)) \in Nat /\ Len(Steps(c)) >= 1
<1>1. adapter \in {"fake", "huggingface", "custom"}
  BY AdapterAssumption DEF TypeOK
<1>2. CASE c = "load"
  <2>1. adapter = "fake" => LoadSteps = <<"assign">>
    BY DEF LoadSteps
  <2>2. adapter = "fake" => Len(LoadSteps) = 1
    BY <2>1
  <2>3. Len(LoadSteps) \in {1, 12, 13}
    BY <1>1, <2>2, HuggingFaceLoad, CustomLoad
  <2> QED BY <1>2, <2>3 DEF Steps
<1>3. CASE c = "predict"
  <2>1. /\ adapter = "fake" => PredictSteps = <<"guards", "score">>
        /\ adapter = "huggingface" =>
             PredictSteps = <<"guards", "tokenize", "transfer", "forward", "scores">>
        /\ adapter = "custom" => PredictSteps = <<"guards", "transfer", "forward", "scores">>
    BY DEF PredictSteps
  <2>2. Len(PredictSteps) \in {2, 4, 5}
    BY <1>1, <2>1
  <2> QED BY <1>3, <2>2 DEF Steps
<1>4. CASE c = "close"
  <2>1. /\ adapter = "fake" => CloseSteps = <<"drop_model">>
        /\ adapter # "fake" => CloseSteps = <<"drop_model", "empty_cache", "drop_torch">>
    BY DEF CloseSteps
  <2>2. Len(CloseSteps) \in {1, 3}
    BY <2>1
  <2> QED BY <1>4, <2>2 DEF Steps
<1> QED BY <1>2, <1>3, <1>4

\* A call begins at its first step, with a batch it may have.
LEMMA BeginCallType ==
  ASSUME TypeOK, UNCHANGED settings, returned = "none", returned' = "none",
         NEW c \in {"load", "predict", "close"}, NEW n \in 0..MaxBatchSize,
         NEW length \in Nat, BeginCall(c, n, length)
  PROVE  /\ at' = 0 <=> call' = "none" \/ returned' # "none"
         /\ call' # "none" => at' \in 0..Len(Steps(call)') /\ size' \in 0..MaxBatchSize
         /\ longest' \in Nat
<1>1. call' = c /\ at' = 1 /\ size' = n /\ longest' = length
  BY DEF BeginCall
<1>2. Len(Steps(c)) \in Nat /\ Len(Steps(c)) >= 1
  BY StepCounts
<1>3. Steps(call)' = Steps(c)
  BY <1>1, SettingsKept DEF Steps
<1> QED BY <1>1, <1>2, <1>3

\* A call goes on step by step or ends; its steps stay the same.
LEMMA SameSteps ==
  ASSUME UNCHANGED settings, call' = call
  PROVE  Steps(call)' = Steps(call)
BY SettingsKept DEF Steps

\* Steps advance the one call that runs, within the steps of its kind.
LEMMA CallStep ==
  ASSUME IInv, Next
  PROVE  CallSound'
<1> USE DEF IInv, CallSound, BeginCall, EndCall, items
<1>0. limit' = limit /\ (Validates(longest)' <=> longest' <= limit)
  BY DEF Next, settings, Validates
<1>1. CASE StepSucceeds
  BY <1>0, <1>1 DEF StepSucceeds, Validates
<1>2. CASE StepFails
  BY <1>0, <1>2 DEF StepFails, Raises, Validates
<1>3. CASE DeviceRunsOut
  BY <1>0, <1>3 DEF DeviceRunsOut, Raises, Validates
<1>4. CASE Start
  BY <1>4 DEF Start, TypeOK
<1>5. CASE LoadEnds
  BY <1>5 DEF LoadEnds
<1>6. CASE BatchEnds
  BY <1>6 DEF BatchEnds
<1>7. CASE BeginShutdown
  BY <1>0, <1>7 DEF BeginShutdown, Validates
<1>8. CASE Abandon
  BY <1>0, <1>8 DEF Abandon, Validates
<1>9. CASE BeginClose
  BY <1>9 DEF BeginClose
<1>10. CASE CloseEnds
  BY <1>10 DEF CloseEnds
<1>11. CASE \E n \in 1..MaxBatchSize, length \in TextLengths : ExecuteBatch(n, length)
  BY <1>0, <1>11 DEF ExecuteBatch, Validates
<1>12. CASE Exited
  BY <1>0, <1>12 DEF Exited, vars, Validates
<1> QED BY <1>1, <1>2, <1>3, <1>4, <1>5, <1>6, <1>7, <1>8, <1>9, <1>10, <1>11, <1>12 DEF Next

\* The part of TypeOK that the settings bound.
BoundedBySettings ==
  /\ adapter \in Adapters /\ device \in Devices /\ limit \in TextLimits
  /\ loaded \in 0..Len(LoadSteps) /\ oom \subseteq DeviceSteps

\* What depends on the settings alone keeps its type.
LEMMA TypeParts ==
  ASSUME TypeOK, UNCHANGED settings, loaded' \in 0..Len(LoadSteps), oom' \subseteq DeviceSteps
  PROVE  BoundedBySettings'
BY SettingsKept DEF TypeOK, BoundedBySettings

\* Every step keeps the types.
LEMMA TypeStep ==
  ASSUME IInv, Next
  PROVE  TypeOK'
<1>1. TypeOK /\ CallSound /\ UNCHANGED settings
  BY DEF IInv, Next
<1>2. 1 \in 0..MaxBatchSize /\ 0 \in 0..MaxBatchSize /\ MaxBatchSize \in Nat
  BY <1>1, AdapterAssumption, BatchAssumption DEF TypeOK, AdapterLimit
<1>3. CASE StepSucceeds
  <2>1. /\ call # "none" /\ returned = "none" /\ attrs' = NewAttrs /\ memory' = NewMemory
        /\ UNCHANGED <<life, call, size, longest, failed, oom, abandoned>>
        /\ loaded' = (IF call = "load" THEN loaded + 1 ELSE loaded)
        /\ IF at < Len(Steps(call))
           THEN at' = at + 1 /\ UNCHANGED returned
           ELSE at' = 0 /\ returned' = "value"
    BY <1>3 DEF StepSucceeds, items
  <2>2. Steps(call)' = Steps(call)
    BY <1>1, <2>1, SameSteps
  <2>3. Len(Steps(call)) \in Nat
    BY <1>1, <2>1, StepCounts DEF TypeOK
  <2>4. attrs' \subseteq {"torch", "tokenizer", "indices", "model"}
    BY <1>1, <2>1, AssignedIs DEF TypeOK, NewAttrs
  <2>5. memory' \in {"free", "used", "kept"}
    BY <1>1, <2>1 DEF TypeOK, NewMemory
  <2>6. BoundedBySettings'
    <3>1. call = "load" => loaded + 1 = at /\ at \in 0..Len(LoadSteps)
      BY <1>1, <2>1 DEF IInv, LoadSound, TypeOK, Steps
    <3>2. loaded' \in 0..Len(LoadSteps)
      BY <1>1, <2>1, <3>1 DEF TypeOK
    <3> QED BY <1>1, <2>1, <3>2, TypeParts DEF TypeOK
  <2>7. /\ at' = 0 <=> call' = "none" \/ returned' # "none"
        /\ call' # "none" => at' \in 0..Len(Steps(call)') /\ size' \in 0..MaxBatchSize
        /\ returned' \in {"none", "value", "error", "fatal"}
    BY <1>1, <2>1, <2>2, <2>3 DEF TypeOK
  <2> QED BY <1>1, <2>1, <2>4, <2>5, <2>6, <2>7 DEF TypeOK, BoundedBySettings
<1>4. ASSUME NEW how \in {"error", "fatal"}, call # "none", Raises(how), oom' \subseteq DeviceSteps
      PROVE  TypeOK'
  <2>1. /\ at' = 0 /\ returned' = how
        /\ memory' = IF memory = "used" /\ "model" \notin attrs THEN "kept" ELSE memory
        /\ UNCHANGED <<life, call, size, longest, attrs, failed, loaded, abandoned>>
    BY <1>4 DEF Raises, items
  <2>2. Steps(call)' = Steps(call)
    BY <1>1, <2>1, SameSteps
  <2>3. Len(Steps(call)) \in Nat
    BY <1>1, <1>4, StepCounts DEF TypeOK
  <2>4. BoundedBySettings'
    BY <1>1, <1>4, <2>1, TypeParts DEF TypeOK
  <2> QED BY <1>1, <1>4, <2>1, <2>2, <2>3, <2>4 DEF TypeOK, BoundedBySettings
<1>5. CASE StepFails
  <2>1. call # "none" /\ Raises("error") /\ oom' = oom
    BY <1>5 DEF StepFails
  <2> QED BY <1>1, <1>4, <2>1 DEF TypeOK, BoundedBySettings
<1>6. CASE DeviceRunsOut
  <2>1. call # "none" /\ oom' \subseteq DeviceSteps
    BY <1>1, <1>6 DEF DeviceRunsOut, TypeOK
  <2>2. Raises("error") \/ Raises("fatal")
    BY <1>6 DEF DeviceRunsOut
  <2> QED BY <1>4, <2>1, <2>2
<1>7. ASSUME NEW c \in {"load", "predict", "close"}, NEW n \in 0..MaxBatchSize,
             NEW length \in Nat, BeginCall(c, n, length), call = "none",
             life' \in {"loading", "serving", "draining", "closing"},
             UNCHANGED <<attrs, memory, returned, failed, loaded, oom, abandoned>>
      PROVE  TypeOK'
  <2>1. returned = "none" /\ returned' = "none"
    BY <1>1, <1>7 DEF CallSound
  <2>2. /\ at' = 0 <=> call' = "none" \/ returned' # "none"
        /\ call' # "none" => at' \in 0..Len(Steps(call)') /\ size' \in 0..MaxBatchSize
        /\ longest' \in Nat
    BY <1>1, <1>7, <2>1, BeginCallType
  <2>3. BoundedBySettings'
    BY <1>1, <1>7, TypeParts DEF TypeOK
  <2>4. call' \in {"none", "load", "predict", "close"}
    BY <1>7 DEF BeginCall
  <2> QED BY <1>1, <1>7, <2>1, <2>2, <2>3, <2>4 DEF TypeOK, BoundedBySettings
<1>8. CASE Start
  <2>1. call = "none"
    BY <1>1, <1>8 DEF Start, TypeOK, CallSound
  <2> QED BY <1>2, <1>7, <1>8, <2>1 DEF Start, WarmupLength
<1>9. CASE BeginClose
  BY <1>2, <1>7, <1>9 DEF BeginClose
<1>10. CASE \E n \in 1..MaxBatchSize, length \in TextLengths : ExecuteBatch(n, length)
  <2>1. PICK n \in 1..MaxBatchSize, length \in TextLengths : ExecuteBatch(n, length)
    BY <1>10
  <2>2. n \in 0..MaxBatchSize /\ length \in Nat
    BY <1>2, LengthAssumption
  <2> QED BY <1>7, <2>1, <2>2 DEF ExecuteBatch
<1>11. ASSUME returned # "none", EndCall,
              life' \in {"serving", "draining", "stopped", "start_failed", "close_failed"},
              failed' \in BOOLEAN,
              UNCHANGED <<at, attrs, memory, loaded, oom, abandoned>>
       PROVE  TypeOK'
  <2>1. BoundedBySettings'
    BY <1>1, <1>11, TypeParts DEF TypeOK
  <2> QED BY <1>1, <1>11, <2>1 DEF TypeOK, BoundedBySettings, EndCall
<1>12. CASE LoadEnds
  BY <1>1, <1>11, <1>12 DEF LoadEnds, TypeOK
<1>13. CASE CloseEnds
  BY <1>1, <1>11, <1>13 DEF CloseEnds, TypeOK
<1>14. CASE BatchEnds
  <2>1. life \in {"serving", "draining", "stopped"}
    BY <1>1, <1>14 DEF BatchEnds, CallSound
  <2>2. failed' \in BOOLEAN
    BY <1>1, <1>14 DEF BatchEnds, IsFatal, TypeOK
  <2> QED BY <1>11, <1>14, <2>1, <2>2 DEF BatchEnds
<1>15. ASSUME life' \in {"draining", "stopped"}, abandoned' \in BOOLEAN,
              UNCHANGED <<call, at, size, longest, attrs, memory, returned, failed, loaded, oom>>
       PROVE  TypeOK'
  <2>1. BoundedBySettings'
    BY <1>1, <1>15, TypeParts DEF TypeOK
  <2>2. Steps(call)' = Steps(call)
    BY <1>1, <1>15, SameSteps
  <2> QED BY <1>1, <1>15, <2>1, <2>2 DEF TypeOK, BoundedBySettings
<1>16. CASE BeginShutdown
  BY <1>1, <1>15, <1>16 DEF BeginShutdown, TypeOK, items
<1>17. CASE Abandon
  BY <1>15, <1>17 DEF Abandon, items
<1>18. CASE Exited
  <2>1. /\ life' = life
        /\ UNCHANGED <<call, at, size, longest, attrs, memory, returned, failed, loaded, oom, abandoned>>
    BY <1>18 DEF Exited, vars, items
  <2>2. BoundedBySettings'
    BY <1>1, <2>1, TypeParts DEF TypeOK
  <2>3. Steps(call)' = Steps(call)
    BY <1>1, <2>1, SameSteps
  <2> QED BY <1>1, <2>1, <2>2, <2>3 DEF TypeOK, BoundedBySettings
<1> QED
  BY <1>3, <1>5, <1>6, <1>8, <1>9, <1>10, <1>12, <1>13, <1>14, <1>16, <1>17, <1>18 DEF Next

\* A step of a call that goes through, and one that raises, as the parts below need them.
LEMMA SucceedsIs ==
  ASSUME IInv, StepSucceeds
  PROVE  /\ call \in {"load", "predict", "close"} /\ returned = "none"
         /\ at \in 1..Len(Steps(call)) /\ Len(Steps(call)) \in Nat
         /\ \/ at' = at + 1 /\ returned' = "none" /\ at < Len(Steps(call))
            \/ at' = 0 /\ returned' = "value" /\ at = Len(Steps(call))
         /\ attrs' = NewAttrs /\ memory' = NewMemory
         /\ UNCHANGED <<life, call, size, longest, failed, oom, abandoned>>
<1>1. call # "none" /\ returned = "none"
  BY DEF StepSucceeds
<1>2. call \in {"load", "predict", "close"} /\ at \in 0..Len(Steps(call)) /\ at # 0
  BY <1>1 DEF IInv, TypeOK
<1>3. Len(Steps(call)) \in Nat
  BY <1>2, StepCounts DEF IInv
<1> QED BY <1>1, <1>2, <1>3 DEF StepSucceeds, items

\* A step that raises ends the call; on the device its memory stays taken.
LEMMA RaisesIs ==
  ASSUME StepFails \/ DeviceRunsOut
  PROVE  /\ call # "none" /\ returned = "none" /\ at' = 0 /\ returned' \in {"error", "fatal"}
         /\ memory' = memory \/ (memory = "used" /\ memory' = "kept")
         /\ UNCHANGED <<life, call, size, longest, attrs, failed, loaded, abandoned>>
BY DEF StepFails, DeviceRunsOut, Raises, items

\* Attributes appear with load()'s assignment and go with close()'s.
LEMMA AttrsStep ==
  ASSUME IInv, Next
  PROVE  AttrsSound'
<1>1. TypeOK /\ CallSound /\ AttrsSound /\ UNCHANGED settings
  BY DEF IInv, Next
<1>2. Assigned' = Assigned /\ AssignAt' = AssignAt /\ adapter' = adapter /\ AssignAt \in {1, 8}
  BY <1>1, SettingsKept DEF AssignAt
<1>3. CASE StepSucceeds
  <2>1. /\ call \in {"load", "predict", "close"} /\ returned = "none" /\ at >= 1 /\ at \in Nat
        /\ \/ at' = at + 1 /\ returned' = "none" /\ at < Len(Steps(call))
           \/ at' = 0 /\ returned' = "value" /\ at = Len(Steps(call))
        /\ attrs' = NewAttrs
        /\ UNCHANGED <<life, call, size, longest, failed, oom, abandoned>>
    BY <1>3, SucceedsIs
  <2>2. CASE call = "load"
    <3>1. /\ Len(LoadSteps) \in Nat /\ AssignAt \in 1..Len(LoadSteps)
          /\ Here = "assign" <=> at = AssignAt
          /\ Here = "vocabulary" => adapter = "custom"
          /\ Here \notin {"drop_model", "drop_torch", "empty_cache"}
      BY <1>1, <2>1, <2>2, LoadTable
    <3>2. /\ Here = "assign" => attrs' = Assigned
          /\ Here # "assign" => attrs \subseteq attrs' /\ attrs' \subseteq Assigned
      BY <1>1, <2>1, <2>2, <3>1, AssignedIs DEF NewAttrs, AttrsSound
    <3>3. at' > AssignAt \/ returned' = "value" => attrs' = Assigned
      <4>1. Steps(call) = LoadSteps
        BY <2>2 DEF Steps
      <4>2. ASSUME at' > AssignAt \/ returned' = "value" PROVE at = AssignAt \/ at > AssignAt
        BY <1>2, <2>1, <3>1, <4>1, <4>2
      <4>3. at > AssignAt => attrs = Assigned
        BY <1>1, <2>2 DEF AttrsSound
      <4> QED BY <3>1, <3>2, <4>2, <4>3
    <3> QED BY <1>1, <1>2, <2>1, <2>2, <3>2, <3>3 DEF AttrsSound, CallSound
  <2>3. CASE call = "predict"
    <3>1. attrs' = attrs
      BY <1>1, <2>1, <2>3, PredictTable DEF NewAttrs
    <3> QED BY <1>1, <1>2, <2>1, <2>3, <3>1 DEF AttrsSound, CallSound
  <2>4. CASE call = "close"
    <3>1. /\ Here = IF at = 1 THEN "drop_model" ELSE IF at = 2 THEN "empty_cache" ELSE "drop_torch"
          /\ Len(Steps(call)) = IF adapter = "fake" THEN 1 ELSE 3
      BY <1>1, <2>1, <2>4, CloseTable DEF Steps
    <3>2. /\ at = 1 => attrs' = (IF adapter = "fake" THEN {} ELSE {"torch"})
          /\ at = 2 => attrs' = attrs
          /\ at > 2 => attrs' = {}
      <4>1. at = 1 => attrs = Assigned
        BY <1>1, <2>4 DEF AttrsSound
      <4>2. at > 1 => attrs = {"torch"}
        BY <1>1, <2>4 DEF AttrsSound
      <4>3. at = 1 => attrs' = attrs \ {"model", "tokenizer", "indices"}
        BY <2>1, <3>1 DEF NewAttrs
      <4>4. at = 2 => attrs' = attrs
        BY <2>1, <3>1 DEF NewAttrs
      <4>5. at > 2 => attrs' = attrs \ {"torch"}
        BY <2>1, <3>1 DEF NewAttrs
      <4> QED BY <1>1, <2>1, <4>1, <4>2, <4>3, <4>4, <4>5, AssignedIs
    <3>3. at' # 1 /\ (at' > 1 => attrs' = {"torch"})
      <4>1. at > 1 => attrs = {"torch"}
        BY <1>1, <2>4 DEF AttrsSound
      <4> QED BY <2>1, <3>1, <3>2, <4>1
    <3>4. returned' = "value" => attrs' = {}
      BY <2>1, <3>1, <3>2
    <3>5. call' = "close" /\ life' = "closing"
      BY <1>1, <2>1, <2>4 DEF CallSound
    <3> QED BY <3>3, <3>4, <3>5 DEF AttrsSound
  <2> QED BY <2>1, <2>2, <2>3, <2>4
<1>4. CASE StepFails \/ DeviceRunsOut
  BY <1>1, <1>2, <1>4, RaisesIs DEF AttrsSound
<1>5. CASE Start
  BY <1>1, <1>2, <1>5 DEF Start, AttrsSound, CallSound, BeginCall, TypeOK
<1>6. CASE LoadEnds
  BY <1>1, <1>2, <1>6 DEF LoadEnds, AttrsSound, CallSound, EndCall
<1>7. CASE BatchEnds
  BY <1>1, <1>2, <1>7 DEF BatchEnds, AttrsSound, CallSound, EndCall
<1>8. CASE BeginShutdown
  BY <1>1, <1>2, <1>8 DEF BeginShutdown, AttrsSound, CallSound
<1>9. CASE Abandon
  BY <1>1, <1>2, <1>9 DEF Abandon, AttrsSound, CallSound
<1>10. CASE BeginClose
  BY <1>1, <1>2, <1>10 DEF BeginClose, AttrsSound, CallSound, BeginCall
<1>11. CASE CloseEnds
  BY <1>1, <1>2, <1>11 DEF CloseEnds, AttrsSound, CallSound, EndCall
<1>12. CASE \E n \in 1..MaxBatchSize, length \in TextLengths : ExecuteBatch(n, length)
  BY <1>1, <1>2, <1>12 DEF ExecuteBatch, AttrsSound, CallSound, BeginCall
<1>13. CASE Exited
  BY <1>1, <1>2, <1>13 DEF Exited, vars, AttrsSound
<1> QED
  BY <1>3, <1>4, <1>5, <1>6, <1>7, <1>8, <1>9, <1>10, <1>11, <1>12, <1>13 DEF Next

\* load() is counted step by step; its warmup gets past the guards only where its text is
\* within the limit.
LEMMA LoadStep ==
  ASSUME IInv, Next
  PROVE  LoadSound'
<1>1. TypeOK /\ CallSound /\ LoadSound /\ UNCHANGED settings
  BY DEF IInv, Next
<1>2. /\ LoadSteps' = LoadSteps /\ AssignAt' = AssignAt /\ adapter' = adapter /\ limit' = limit
      /\ AssignAt \in {1, 8}
  BY <1>1, SettingsKept DEF AssignAt
<1>3. CASE StepSucceeds
  <2>1. /\ call \in {"load", "predict", "close"} /\ returned = "none" /\ at >= 1 /\ at \in Nat
        /\ \/ at' = at + 1 /\ returned' = "none" /\ at < Len(Steps(call))
           \/ at' = 0 /\ returned' = "value" /\ at = Len(Steps(call))
        /\ UNCHANGED <<life, call, size, longest, failed, oom, abandoned>>
    BY <1>3, SucceedsIs
  <2>2. loaded' = (IF call = "load" THEN loaded + 1 ELSE loaded)
    BY <1>3 DEF StepSucceeds
  <2>3. CASE call = "load"
    <3>1. /\ Len(LoadSteps) \in Nat
          /\ Here = "guards" <=> adapter # "fake" /\ at = AssignAt + 1
          /\ adapter # "fake" => Len(LoadSteps) > AssignAt + 1
      BY <1>1, <2>1, <2>3, LoadTable
    <3>2. Steps(call) = LoadSteps /\ life = "loading"
      BY <1>1, <2>3 DEF Steps, CallSound
    <3>3. loaded + 1 = at
      BY <1>1, <2>1, <2>3 DEF LoadSound
    <3>4. at > AssignAt => limit >= WarmupLength \/ (adapter = "fake" /\ at = AssignAt + 1)
      <4>1. CASE at > AssignAt + 1
        BY <1>1, <2>3, <4>1 DEF LoadSound
      <4>2. CASE adapter # "fake" /\ at = AssignAt + 1
        <5>1. GuardsHold /\ longest = WarmupLength
          BY <1>1, <1>3, <2>3, <3>1, <4>2 DEF StepSucceeds, CallSound
        <5>2. limit \in Nat
          BY <1>1, LimitAssumption DEF TypeOK
        <5> QED BY <5>1, <5>2 DEF GuardsHold, Validates, WarmupLength
      <4> QED BY <1>2, <2>1, <4>1, <4>2
    <3>5. adapter = "fake" => AssignAt = 1 /\ Len(LoadSteps) = 1
      <4>1. adapter = "fake" => LoadSteps = <<"assign">>
        BY DEF LoadSteps
      <4> QED BY <4>1 DEF AssignAt
    <3>6. /\ returned' = "value" => loaded' = Len(LoadSteps)
          /\ returned' = "none" => loaded' + 1 = at'
      BY <2>1, <2>2, <2>3, <3>2, <3>3
    <3>7. returned' = "value" /\ adapter # "fake" => limit >= WarmupLength
      BY <1>2, <2>1, <3>1, <3>2, <3>4
    <3>8. at' > AssignAt + 1 => limit >= WarmupLength
      <4>1. CASE adapter = "fake"
        <5>1. at' = 0 \/ at < 1
          BY <2>1, <3>2, <3>5, <4>1
        <5> QED BY <1>2, <2>1, <5>1
      <4>2. CASE adapter # "fake"
        <5>1. at' > AssignAt + 1 => at > AssignAt
          BY <1>2, <2>1
        <5> QED BY <3>4, <4>2, <5>1
      <4> QED BY <4>1, <4>2
    <3>9. call' = "load" /\ life' = "loading"
      BY <2>1, <2>3, <3>2
    <3> QED BY <1>2, <3>6, <3>7, <3>8, <3>9 DEF LoadSound, WarmupLength
  <2>4. CASE call # "load"
    BY <1>1, <1>2, <2>1, <2>2, <2>4 DEF LoadSound, CallSound, WarmupLength
  <2> QED BY <2>3, <2>4
<1>4. CASE StepFails \/ DeviceRunsOut
  <2>1. /\ call # "none" /\ returned = "none" /\ at' = 0 /\ returned' \in {"error", "fatal"}
        /\ life' = life /\ call' = call /\ loaded' = loaded
    BY <1>4, RaisesIs
  <2>2. ~(at' > AssignAt + 1)
    BY <1>2, <2>1
  <2> QED BY <1>1, <1>2, <2>1, <2>2 DEF LoadSound, CallSound, WarmupLength
<1>5. CASE Start
  BY <1>1, <1>2, <1>5 DEF Start, TypeOK, LoadSound, CallSound, BeginCall, WarmupLength
<1>6. CASE LoadEnds
  BY <1>1, <1>2, <1>6 DEF LoadEnds, LoadSound, CallSound, EndCall, WarmupLength
<1>7. CASE BatchEnds
  BY <1>1, <1>2, <1>7 DEF BatchEnds, LoadSound, CallSound, EndCall, WarmupLength
<1>8. CASE BeginShutdown
  BY <1>1, <1>2, <1>8 DEF BeginShutdown, LoadSound, CallSound, WarmupLength
<1>9. CASE Abandon
  BY <1>1, <1>2, <1>9 DEF Abandon, LoadSound, CallSound, WarmupLength
<1>10. CASE BeginClose
  BY <1>1, <1>2, <1>10 DEF BeginClose, LoadSound, CallSound, BeginCall, WarmupLength
<1>11. CASE CloseEnds
  BY <1>1, <1>2, <1>11 DEF CloseEnds, LoadSound, CallSound, EndCall, WarmupLength
<1>12. CASE \E n \in 1..MaxBatchSize, length \in TextLengths : ExecuteBatch(n, length)
  BY <1>1, <1>2, <1>12 DEF ExecuteBatch, LoadSound, CallSound, BeginCall, WarmupLength
<1>13. CASE Exited
  BY <1>1, <1>2, <1>13 DEF Exited, vars, LoadSound, WarmupLength
<1> QED
  BY <1>3, <1>4, <1>5, <1>6, <1>7, <1>8, <1>9, <1>10, <1>11, <1>12, <1>13 DEF Next

\* Device memory is taken before what uses it, and is given back or kept.
LEMMA MemoryStep ==
  ASSUME IInv, Next
  PROVE  MemorySound'
<1>1. TypeOK /\ CallSound /\ MemorySound /\ adapter' = adapter
  BY DEF IInv, Next, settings
<1>2. CASE StepSucceeds
  <2>1. /\ call \in {"load", "predict", "close"} /\ returned = "none" /\ at >= 1 /\ at \in Nat
        /\ \/ at' = at + 1 /\ returned' = "none" /\ at < Len(Steps(call))
           \/ at' = 0 /\ returned' = "value" /\ at = Len(Steps(call))
        /\ memory' = NewMemory
        /\ UNCHANGED <<life, call, size, longest, failed, oom, abandoned>>
    BY <1>2, SucceedsIs
  <2>2. CASE call = "load"
    <3>1. Here = "move" => adapter # "fake"
      BY <1>1, <2>1, <2>2, LoadTable
    <3>2. Here \notin {"drop_model", "empty_cache"}
      BY <1>1, <2>1, <2>2, LoadTable
    <3> QED BY <1>1, <2>1, <2>2, <3>1, <3>2 DEF MemorySound, CallSound, NewMemory
  <2>3. CASE call = "predict"
    <3>1. memory' = memory
      BY <1>1, <2>1, <2>3, PredictTable DEF NewMemory
    <3> QED BY <1>1, <2>1, <2>3, <3>1 DEF MemorySound, CallSound
  <2>4. CASE call = "close"
    <3>1. /\ Here = IF at = 1 THEN "drop_model" ELSE IF at = 2 THEN "empty_cache" ELSE "drop_torch"
          /\ Len(Steps(call)) = IF adapter = "fake" THEN 1 ELSE 3
      BY <1>1, <2>1, <2>4, CloseTable DEF Steps
    <3>2. /\ at = 1 => memory' = IF memory = "used" THEN "kept" ELSE memory
          /\ at = 2 => memory' = "free"
          /\ at > 2 => memory' = memory
      <4>1. at = 2 => memory # "used" /\ memory \in {"free", "used", "kept"}
        BY <1>1, <2>4 DEF MemorySound, TypeOK
      <4> QED BY <2>1, <3>1, <4>1 DEF NewMemory
    <3>3. adapter = "fake" => memory' = "free"
      BY <1>1, <2>1, <3>1, <3>2 DEF MemorySound
    <3>4. memory' # "used" \/ at > 2
      BY <1>1, <2>1, <3>2 DEF TypeOK
    <3>5. at > 2 => at = 3 /\ memory = "free"
      <4>1. at <= 3
        BY <2>1, <3>1
      <4>2. at > 2 => at = 3
        BY <2>1, <4>1
      <4> QED BY <1>1, <2>4, <4>2 DEF MemorySound
    <3>6. at' = 2 => memory' # "used"
      BY <2>1, <3>4
    <3>7. at' = 3 \/ returned' = "value" => memory' = "free"
      BY <2>1, <3>1, <3>2, <3>3, <3>5
    <3>8. call' = "close" /\ life' = "closing" /\ adapter' = adapter
      BY <1>1, <2>1, <2>4 DEF CallSound
    <3> QED BY <3>3, <3>6, <3>7, <3>8 DEF MemorySound
  <2> QED BY <2>1, <2>2, <2>3, <2>4
<1>3. CASE StepFails \/ DeviceRunsOut
  BY <1>1, <1>3, RaisesIs DEF MemorySound, CallSound
<1>4. CASE Start
  BY <1>1, <1>4 DEF Start, MemorySound, CallSound, BeginCall
<1>5. CASE LoadEnds
  BY <1>1, <1>5 DEF LoadEnds, MemorySound, CallSound, EndCall
<1>6. CASE BatchEnds
  BY <1>1, <1>6 DEF BatchEnds, MemorySound, CallSound, EndCall
<1>7. CASE BeginShutdown
  BY <1>1, <1>7 DEF BeginShutdown, MemorySound
<1>8. CASE Abandon
  BY <1>1, <1>8 DEF Abandon, MemorySound
<1>9. CASE BeginClose
  BY <1>1, <1>9 DEF BeginClose, MemorySound, CallSound, BeginCall
<1>10. CASE CloseEnds
  BY <1>1, <1>10 DEF CloseEnds, MemorySound, CallSound, EndCall
<1>11. CASE \E n \in 1..MaxBatchSize, length \in TextLengths : ExecuteBatch(n, length)
  BY <1>1, <1>11 DEF ExecuteBatch, MemorySound, CallSound, BeginCall
<1>12. CASE Exited
  BY <1>1, <1>12 DEF Exited, vars, MemorySound
<1> QED BY <1>2, <1>3, <1>4, <1>5, <1>6, <1>7, <1>8, <1>9, <1>10, <1>11, <1>12 DEF Next

\* The scheduler knows that the device is lost, or the call is about to tell it.
LEMMA LossStep ==
  ASSUME IInv, Next
  PROVE  LossSound'
<1>1. TypeOK /\ CallSound /\ LossSound /\ adapter' = adapter
  BY DEF IInv, Next, settings
<1>2. CASE StepSucceeds
  BY <1>1, <1>2 DEF StepSucceeds, LossSound, Lost
<1>3. CASE StepFails
  BY <1>1, <1>3 DEF StepFails, Raises, LossSound, Lost
<1>4. CASE DeviceRunsOut
  <2>1. /\ call # "none" /\ returned = "none" /\ call' = call /\ failed' = failed
        /\ returned' = IF Here \in FatalSteps THEN "fatal" ELSE "error"
        /\ oom' = IF call = "predict" THEN oom \cup {Here} ELSE oom
        /\ Here \in DeviceSteps
    BY <1>4 DEF DeviceRunsOut, Raises
  <2>2. CASE call = "predict"
    <3>1. adapter # "fake" /\ (adapter = "custom" \/ Here = "forward" => Here \in FatalSteps)
      BY <1>1, <2>1, <2>2, PredictTable
    <3>2. adapter \in {"huggingface", "custom"}
      BY <1>1, <3>1, AdapterAssumption DEF TypeOK
    <3>3. ~failed /\ ~Lost
      BY <1>1, <2>1, <2>2 DEF LossSound
    <3>4. Lost' => returned' = "fatal"
      BY <1>1, <2>1, <2>2, <3>1, <3>2, <3>3 DEF Lost
    <3> QED BY <1>1, <2>1, <2>2, <3>1, <3>4 DEF LossSound
  <2>3. CASE call # "predict"
    BY <1>1, <2>1, <2>3 DEF LossSound, Lost
  <2> QED BY <2>2, <2>3
<1>5. CASE Start
  BY <1>1, <1>5 DEF Start, LossSound, Lost, CallSound, BeginCall
<1>6. CASE LoadEnds
  BY <1>1, <1>6 DEF LoadEnds, LossSound, Lost, EndCall
<1>7. CASE BatchEnds
  BY <1>1, <1>7 DEF BatchEnds, IsFatal, LossSound, Lost, EndCall
<1>8. CASE BeginShutdown
  BY <1>1, <1>8 DEF BeginShutdown, LossSound, Lost
<1>9. CASE Abandon
  BY <1>1, <1>9 DEF Abandon, LossSound, Lost
<1>10. CASE BeginClose
  BY <1>1, <1>10 DEF BeginClose, LossSound, Lost, BeginCall
<1>11. CASE CloseEnds
  BY <1>1, <1>11 DEF CloseEnds, LossSound, Lost, EndCall
<1>12. CASE \E n \in 1..MaxBatchSize, length \in TextLengths : ExecuteBatch(n, length)
  BY <1>1, <1>12 DEF ExecuteBatch, LossSound, Lost, BeginCall
<1>13. CASE Exited
  BY <1>1, <1>13 DEF Exited, vars, LossSound, Lost
<1> QED
  BY <1>2, <1>3, <1>4, <1>5, <1>6, <1>7, <1>8, <1>9, <1>10, <1>11, <1>12, <1>13 DEF Next

-----------------------------------------------------------------------------
(* The theorems.                                                           *)

\* At the start nothing is loaded and nothing was lost.
LEMMA InitIInv ==
  ASSUME Init
  PROVE  IInv
<1>1. TypeOK
  <2>1. Len(LoadSteps) \in Nat
    <3>1. adapter \in {"fake", "huggingface", "custom"}
      BY AdapterAssumption DEF Init
    <3>2. adapter = "fake" => LoadSteps = <<"assign">>
      BY DEF LoadSteps
    <3>3. adapter = "fake" => Len(LoadSteps) = 1
      BY <3>2
    <3> QED BY <3>1, <3>3, HuggingFaceLoad, CustomLoad
  <2>2. loaded \in 0..Len(LoadSteps)
    BY <2>1 DEF Init
  <2> QED BY <2>2 DEF Init, TypeOK
<1>2. CallSound /\ AttrsSound /\ LoadSound /\ MemorySound /\ LossSound
  BY DEF Init, CallSound, AttrsSound, LoadSound, AssignAt, MemorySound, LossSound, Lost
<1> QED BY <1>1, <1>2 DEF IInv

\* The invariant is about the variables only.
LEMMA StutterIInv ==
  ASSUME IInv, UNCHANGED vars
  PROVE  IInv'
<1>1. /\ UNCHANGED <<life, call, at, size, longest, attrs, memory, returned, failed, loaded, oom, abandoned>>
      /\ UNCHANGED settings
  BY DEF vars, items
<1>2. /\ Assigned' = Assigned /\ LoadSteps' = LoadSteps /\ AssignAt' = AssignAt
      /\ adapter' = adapter /\ limit' = limit
  BY <1>1, SettingsKept
<1>3. TypeOK'
  <2>1. Steps(call)' = Steps(call)
    BY <1>1, SameSteps
  <2>2. BoundedBySettings'
    BY <1>1, TypeParts DEF IInv, TypeOK
  <2> QED BY <1>1, <2>1, <2>2 DEF IInv, TypeOK, BoundedBySettings
<1>4. MemorySound' /\ LossSound'
  BY <1>1, <1>2 DEF IInv, MemorySound, LossSound, Lost
<1>6. CallSound'
  BY <1>1, <1>2 DEF IInv, CallSound, Validates, WarmupLength
<1>7. LoadSound'
  BY <1>1, <1>2 DEF IInv, LoadSound, WarmupLength
<1>5. AttrsSound'
  BY <1>1, <1>2 DEF IInv, AttrsSound
<1> QED BY <1>3, <1>4, <1>5, <1>6, <1>7 DEF IInv

\* Invariance: the inductive invariant holds in every reachable state of the adapter and the
\* service around it, for every configuration create_app() accepts.
THEOREM Invariance == Spec => []IInv
<1>1. Init => IInv
  BY InitIInv
<1>2. IInv /\ [Next]_vars => IInv'
  <2> SUFFICES ASSUME IInv, [Next]_vars PROVE IInv'
    OBVIOUS
  <2>1. CASE Next
    BY <2>1, TypeStep, CallStep, AttrsStep, LoadStep, MemoryStep, LossStep DEF IInv
  <2>2. CASE UNCHANGED vars
    BY <2>2, StutterIInv
  <2> QED BY <2>1, <2>2
<1> QED BY <1>1, <1>2, PTL DEF Spec

\* Type correctness; a step number is one of the call's steps.
THEOREM TypeCorrect == Spec => []TypeOK
<1>1. IInv => TypeOK
  BY DEF IInv
<1> QED BY <1>1, Invariance, PTL

\* The service opens its door only behind an adapter whose every attribute is set and whose
\* load() went through to the end of its warmup, no call loses an attribute under its feet,
\* and the guards of predict_batch(), the check of every text among them, refuse no batch of
\* the scheduler. They do refuse the warmup where it is longer than a text may be, so that
\* with fewer than its six characters allowed no real adapter is ever served.
THEOREM LoadedAndGuarded == Spec => []LoadedWhileUsed
<1>1. IInv => LoadedWhileUsed
  <2> SUFFICES ASSUME IInv PROVE LoadedWhileUsed
    OBVIOUS
  <2>1. TypeOK /\ CallSound /\ AttrsSound /\ LoadSound
    BY DEF IInv
  <2>2. ASSUME at > 0, Here = "guards"
        PROVE  GuardsHold <=> (call = "load" => limit >= WarmupLength)
    <3>1. call \in {"load", "predict", "close"} /\ returned = "none"
      BY <2>1, <2>2 DEF TypeOK, CallSound
    <3>2. attrs = Assigned /\ size \in 1..MaxBatchSize
      <4>1. CASE call = "load"
        <5>1. at > AssignAt
          <6>1. at = AssignAt + 1
            BY <2>1, <2>2, <3>1, <4>1, LoadTable
          <6> QED BY <6>1 DEF AssignAt
        <5>2. attrs = Assigned
          BY <2>1, <4>1, <5>1 DEF AttrsSound
        <5>3. size = 1 /\ 1 \in 1..MaxBatchSize
          BY <2>1, <4>1, AdapterAssumption, BatchAssumption DEF CallSound, TypeOK, AdapterLimit
        <5> QED BY <5>2, <5>3
      <4>2. CASE call = "predict"
        BY <2>1, <4>2 DEF AttrsSound, CallSound
      <4>3. CASE call = "close"
        BY <2>1, <2>2, <3>1, <4>3, CloseTable
      <4> QED BY <3>1, <4>1, <4>2, <4>3
    <3>3. Guarded \subseteq attrs
      BY <2>1, <3>2, AssignedIs
    <3>4. MaxBatchSize \in 1..AdapterLimit[adapter] /\ AdapterLimit[adapter] \in Nat
      BY <2>1, AdapterAssumption, BatchAssumption DEF TypeOK, AdapterLimit
    <3>5. size \in 1..AdapterLimit[adapter]
      BY <3>2, <3>4
    <3>6. GuardsHold <=> Validates(longest)
      BY <3>3, <3>5 DEF GuardsHold
    <3>7. Validates(longest) <=> (call = "load" => limit >= WarmupLength)
      <4>1. limit \in Nat
        BY <2>1, LimitAssumption DEF TypeOK
      <4>2. CASE call = "load"
        BY <2>1, <4>1, <4>2 DEF CallSound, Validates, WarmupLength
      <4>3. CASE call = "predict"
        BY <2>1, <4>3 DEF CallSound
      <4>4. CASE call = "close"
        BY <2>1, <2>2, <3>1, <4>4, CloseTable
      <4> QED BY <3>1, <4>2, <4>3, <4>4
    <3> QED BY <3>6, <3>7
  <2>3. life \in {"serving", "draining"} =>
          /\ attrs = Assigned /\ loaded = Len(LoadSteps)
          /\ adapter # "fake" => limit >= WarmupLength
    BY <2>1 DEF AttrsSound, LoadSound
  <2>4. call = "predict" => attrs = Assigned
    BY <2>1 DEF AttrsSound
  <2> QED BY <2>1, <2>2, <2>3, <2>4 DEF LoadedWhileUsed
<1> QED BY <1>1, Invariance, PTL

\* An orderly shutdown releases what load() acquired, the allocator's share of the device
\* memory included.
THEOREM OrderlyCloseReleases == Spec => []CloseReleases
<1>1. IInv => CloseReleases
  BY DEF IInv, AttrsSound, MemorySound, CloseReleases
<1> QED BY <1>1, Invariance, PTL

\* A loss of the device that the adapter reports as fatal ends the readiness of the service
\* and lets no batch run after it.
THEOREM CaughtLossIsFinal == Spec => []CaughtLossEndsService
<1>1. IInv => CaughtLossEndsService
  BY DEF IInv, CallSound, LossSound, Lost, CaughtLossEndsService, Unusable, Ready
<1> QED BY <1>1, Invariance, PTL

=============================================================================
