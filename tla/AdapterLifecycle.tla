--------------------------- MODULE AdapterLifecycle ---------------------------
(***************************************************************************)
(* A model adapter (adapters/fake.py, huggingface.py, custom.py) from load *)
(* to close, step by step on the worker thread, each step of which may     *)
(* fail, and the order of calls that the lifespan (api/app.py) and the     *)
(* scheduler give it.                                                      *)
(***************************************************************************)
EXTENDS Integers, Sequences

CONSTANTS Adapters, Devices,  \* the settings to choose from
          TextLimits,         \* and those of max_text_characters
          MaxBatchSize,       \* the scheduler's, which create_app() compares with the adapter's
          TextLengths         \* of the longest text of a batch that is asked for

AdapterLimit == [fake |-> 8, huggingface |-> 32, custom |-> 32]

ASSUME AdapterAssumption == Adapters \subseteq {"fake", "huggingface", "custom"}
ASSUME DeviceAssumption  == Devices \subseteq {"cpu", "cuda"}
ASSUME LimitAssumption   == TextLimits \subseteq Nat \ {0}
ASSUME LengthAssumption  == TextLengths \subseteq Nat
ASSUME BatchAssumption   == \A a \in Adapters : MaxBatchSize \in 1..AdapterLimit[a]

VARIABLES
  adapter, device, limit,  \* what create_app() is configured with
  life,      \* of the service: new, loading, serving, draining, and how it ended
  call,      \* the worker thread's call: none, load, predict, close
  at,        \* the step of that call
  size,      \* the number of items of a predict_batch call
  longest,   \* the length of the longest text among them
  attrs,     \* the adapter's attributes that are set
  memory,    \* the model's device memory: free, used, or kept by the allocator
  returned,  \* how the call ended: value, error, fatal; none before that
  failed,    \* the scheduler's _failed
  loaded,    \* history: the steps of load() that went through
  oom,       \* history: the steps of predictions at which the device ran out of memory
  abandoned  \* shutdown gave a running call up

settings == <<adapter, device, limit>>
items    == <<size, longest>>
vars == <<settings, life, call, at, items, attrs, memory, returned, failed, loaded, oom, abandoned>>

-----------------------------------------------------------------------------
(* The steps of the three calls                                            *)

PredictSteps ==
  CASE adapter = "fake"        -> <<"guards", "score">>
    [] adapter = "huggingface" -> <<"guards", "tokenize", "transfer", "forward", "scores">>
    [] adapter = "custom"      -> <<"guards", "transfer", "forward", "scores">>

\* load() of the real adapters ends with a prediction, the warmup.
LoadSteps ==
  CASE adapter = "fake" -> <<"assign">>
    [] adapter = "huggingface" ->
         <<"verify", "import", "device", "tokenizer", "model", "labels", "move", "assign">>
           \o PredictSteps
    [] adapter = "custom" ->
         <<"verify", "import", "device", "config", "vocabulary", "model", "move", "assign">>
           \o PredictSteps

\* Fault: the allocator is asked for its memory while the model still holds it.
EmptyCacheFirst ==
  IF adapter = "fake" THEN <<"drop_model">>
  ELSE <<"empty_cache", "drop_model", "drop_torch">>

CloseSteps ==
  IF adapter = "fake" THEN <<"drop_model">>
  ELSE <<"drop_model", "empty_cache", "drop_torch">>

Steps(c) == CASE c = "load" -> LoadSteps [] c = "predict" -> PredictSteps [] OTHER -> CloseSteps

\* What load() sets; the fake's _loaded stands for its model.
Assigned ==
  CASE adapter = "fake"        -> {"model"}
    [] adapter = "huggingface" -> {"torch", "tokenizer", "model"}
    [] adapter = "custom"      -> {"torch", "indices", "model"}

\* The steps that allocate on the device, and those inside the try whose
\* except clause turns OutOfMemoryError into FatalWorkerError.
DeviceSteps == IF device = "cuda" THEN {"move", "transfer", "forward", "scores"} ELSE {}

\* Fault: only the forward pass is inside the try.
ForwardOnly == {"forward"}

FatalSteps == IF adapter = "custom" THEN {"transfer", "forward", "scores"} ELSE {"forward"}

Infallible == {"assign", "drop_model", "drop_torch"} \cup
              (IF device = "cuda" THEN {} ELSE {"device", "move", "empty_cache"}) \cup
              (IF adapter = "fake" THEN {"score"} ELSE {})

Guarded == IF adapter = "custom" THEN {"model"} ELSE Assigned

Validates(length) == length <= limit

\* What predict_batch refuses before it does anything.
GuardsHold ==
  /\ Guarded \subseteq attrs
  /\ size \in 1..AdapterLimit[adapter]
  /\ Validates(longest)

Init ==
  /\ adapter \in Adapters /\ device \in Devices /\ limit \in TextLimits
  /\ life = "new" /\ call = "none" /\ at = 0 /\ size = 0 /\ longest = 0
  /\ attrs = {} /\ memory = "free"
  /\ returned = "none" /\ failed = FALSE /\ loaded = 0 /\ oom = {} /\ abandoned = FALSE

-----------------------------------------------------------------------------
(* The worker thread                                                       *)

Here == Steps(call)[at]

NewAttrs ==
  CASE Here = "vocabulary" -> attrs \cup {"indices"}
    [] Here = "assign"     -> attrs \cup Assigned
    [] Here = "drop_model" -> attrs \ {"model", "tokenizer", "indices"}
    [] Here = "drop_torch" -> attrs \ {"torch"}
    [] OTHER -> attrs

NewMemory ==
  CASE Here = "move" /\ device = "cuda"                     -> "used"
    [] Here = "drop_model" /\ memory = "used"               -> "kept"
    [] Here = "empty_cache" /\ memory = "kept"              -> "free"
    [] OTHER -> memory

StepSucceeds ==
  /\ call # "none" /\ returned = "none"
  /\ Here = "guards" => GuardsHold
  /\ attrs' = NewAttrs /\ memory' = NewMemory
  /\ IF at < Len(Steps(call))
     THEN at' = at + 1 /\ UNCHANGED returned
     ELSE at' = 0 /\ returned' = "value"
  /\ loaded' = IF call = "load" THEN loaded + 1 ELSE loaded
  /\ UNCHANGED <<life, call, items, failed, oom, abandoned>>

\* An exception ends the call. A model not yet assigned goes with its frame.
Raises(how) ==
  /\ at' = 0 /\ returned' = how
  /\ memory' = IF memory = "used" /\ "model" \notin attrs THEN "kept" ELSE memory
  /\ UNCHANGED <<life, call, items, attrs, failed, loaded, abandoned>>

StepFails ==
  /\ call # "none" /\ returned = "none"
  /\ IF Here = "guards" THEN ~GuardsHold ELSE Here \notin Infallible
  /\ Raises("error") /\ UNCHANGED oom

DeviceRunsOut ==
  /\ call # "none" /\ returned = "none" /\ Here \in DeviceSteps
  /\ Raises(IF Here \in FatalSteps THEN "fatal" ELSE "error")
  /\ oom' = IF call = "predict" THEN oom \cup {Here} ELSE oom

-----------------------------------------------------------------------------
(* The event loop                                                          *)

BeginCall(c, n, length) == call' = c /\ at' = 1 /\ size' = n /\ longest' = length

EndCall == call' = "none" /\ size' = 0 /\ longest' = 0 /\ returned' = "none"

WarmupLength == 6  \* of "warmup"

\* start(), which the lifespan awaits outside its try: no close after a failed load.
Start ==
  /\ life = "new" /\ life' = "loading" /\ BeginCall("load", 1, WarmupLength)
  /\ UNCHANGED <<attrs, memory, returned, failed, loaded, oom, abandoned>>

\* Fault: an adapter whose attributes are set counts as loaded, whatever its warmup did.
AttrsSuffice ==
  /\ call = "load" /\ returned # "none"
  /\ life' = IF attrs = Assigned THEN "serving" ELSE "start_failed"
  /\ EndCall
  /\ UNCHANGED <<at, attrs, memory, failed, loaded, oom, abandoned>>

LoadEnds ==
  /\ call = "load" /\ returned # "none"
  /\ life' = IF returned = "value" THEN "serving" ELSE "start_failed"
  /\ EndCall
  /\ UNCHANGED <<at, attrs, memory, failed, loaded, oom, abandoned>>

\* Ready() of the service.
Ready == life = "serving" /\ ~failed

IsFatal(how) == how = "fatal"

\* _execute(): a fatal error ends the readiness and fails all that is queued.
BatchEnds ==
  /\ call = "predict" /\ returned # "none" /\ ~abandoned
  /\ failed' = (failed \/ IsFatal(returned))
  /\ EndCall
  /\ UNCHANGED <<life, at, attrs, memory, loaded, oom, abandoned>>

\* The HTTP handler has validated every text before it is submitted.
ExecuteBatch(n, length) ==
  /\ life \in {"serving", "draining"} /\ ~failed /\ call = "none"
  /\ Validates(length)
  /\ BeginCall("predict", n, length)
  /\ UNCHANGED <<life, attrs, memory, returned, failed, loaded, oom, abandoned>>

BeginShutdown ==
  /\ life = "serving" /\ life' = "draining"
  /\ UNCHANGED <<call, at, items, attrs, memory, returned, failed, loaded, oom, abandoned>>

\* Fault: shutdown() closes the adapter itself when it gives a call up.
AbandonAndClose ==
  /\ life = "draining" /\ call = "predict"
  /\ life' = "stopped" /\ abandoned' = TRUE /\ attrs' = {}
  /\ UNCHANGED <<call, at, items, memory, returned, failed, loaded, oom>>

\* The grace period ends over a call: it goes on, and close is never called.
Abandon ==
  /\ life = "draining" /\ call = "predict"
  /\ life' = "stopped" /\ abandoned' = TRUE
  /\ UNCHANGED <<call, at, items, attrs, memory, returned, failed, loaded, oom>>

BeginClose ==
  /\ life = "draining" /\ call = "none"
  /\ life' = "closing" /\ BeginCall("close", 0, 0)
  /\ UNCHANGED <<attrs, memory, returned, failed, loaded, oom, abandoned>>

\* shutdown() passes an exception of close() on.
CloseEnds ==
  /\ call = "close" /\ returned # "none"
  /\ life' = IF returned = "value" THEN "stopped" ELSE "close_failed"
  /\ EndCall
  /\ UNCHANGED <<at, attrs, memory, failed, loaded, oom, abandoned>>

Exited == life \in {"start_failed", "stopped", "close_failed"} /\ UNCHANGED vars

Next ==
  /\ UNCHANGED settings
  /\ \/ StepSucceeds \/ StepFails \/ DeviceRunsOut
     \/ Start \/ LoadEnds \/ BatchEnds \/ BeginShutdown \/ Abandon \/ BeginClose \/ CloseEnds
     \/ \E n \in 1..MaxBatchSize, length \in TextLengths : ExecuteBatch(n, length)
     \/ Exited

Spec == Init /\ [][Next]_vars

-----------------------------------------------------------------------------
(* Properties                                                              *)

\* Type correctness; a step number is one of the call's steps.
TypeOK ==
  /\ adapter \in Adapters /\ device \in Devices /\ limit \in TextLimits
  /\ life \in {"new", "loading", "serving", "draining", "closing",
               "stopped", "start_failed", "close_failed"}
  /\ call \in {"none", "load", "predict", "close"}
  /\ at = 0 <=> call = "none" \/ returned # "none"
  /\ call # "none" => at \in 0..Len(Steps(call)) /\ size \in 0..MaxBatchSize
  /\ longest \in Nat
  /\ attrs \subseteq {"torch", "tokenizer", "indices", "model"}
  /\ memory \in {"free", "used", "kept"}
  /\ returned \in {"none", "value", "error", "fatal"}
  /\ failed \in BOOLEAN /\ abandoned \in BOOLEAN
  /\ loaded \in 0..Len(LoadSteps) /\ oom \subseteq DeviceSteps

\* The service opens its door only behind an adapter whose every attribute is
\* set and every step of whose load() went through, those of the warmup
\* included; no call in progress, abandoned ones included, ever loses one of the
\* attributes; and no batch the scheduler may form fails at the guards. The
\* warmup fails there where fewer characters than its own are allowed: then the
\* service never opens.
LoadedWhileUsed ==
  /\ TypeOK
  /\ life \in {"serving", "draining"} =>
       /\ attrs = Assigned /\ loaded = Len(LoadSteps)
       /\ adapter # "fake" => limit >= WarmupLength
  /\ call = "predict" => attrs = Assigned
  /\ at > 0 /\ Here = "guards" => (GuardsHold <=> (call = "load" => limit >= WarmupLength))

\* An orderly shutdown releases what load() acquired, the allocator's share of
\* the device memory included, unless the call that uses it was given up.
CloseReleases ==
  life = "stopped" /\ ~abandoned => attrs = {} /\ memory = "free"

\* No batch runs on, and no readiness is claimed for, a device that is lost.
Unusable == /\ call = "none" => ~Ready
            /\ ~(call = "predict" /\ returned = "none")

\* docs/REQUIREMENTS.md: "CUDA out-of-memory or unusable worker: fail the batch,
\* mark unavailable, and require documented restart/recovery". No batch runs on
\* a device that ran out of memory under an earlier one.
LostDeviceEndsService == oom # {} => Unusable

\* The same of what the code does catch: wherever the custom adapter runs out of
\* memory, and in the forward pass of the Hugging Face adapter.
CaughtLossEndsService ==
  oom # {} /\ (adapter = "huggingface" => "forward" \in oom) => Unusable
=============================================================================
