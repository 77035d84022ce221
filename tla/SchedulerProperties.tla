------------------------- MODULE SchedulerProperties -------------------------
(***************************************************************************)
(* What the scheduler owes its callers, its worker thread and the people   *)
(* who operate it: invariants, step properties and progress of Scheduler.  *)
(***************************************************************************)
EXTENDS Scheduler, FiniteSets

Replies == {"prediction", "deadline", "unavailable", "queue_full", "execution", "contract",
            "cancelled"}
Callers == {"idle", "admitted", "waiting"} \cup Replies
States  == {"none", "pending", "running"} \cup Terminal
Futures == {"none", "open", "prediction", "deadline", "unavailable", "execution", "contract",
            "cancelled"}

\* Type correctness: every operation leaves each variable in its range.
TypeOK ==
  /\ now \in Nat
  /\ caller \in [Requests -> Callers]
  /\ state \in [Requests -> States]
  /\ future \in [Requests -> Futures]
  /\ answer \in [Requests -> Requests \cup {"none"}]
  /\ outcomes \in [Requests -> Seq(Terminal)]
  /\ admittedAt \in [Requests -> Int] /\ deadline \in [Requests -> Int]
  /\ pending \in Seq(Requests) /\ running \in Seq(Requests)
  /\ driver \in {"absent", "ready", "waiting", "executing", "finishing", "deciding", "done"}
  /\ alarm \in Int /\ activeSince \in Int /\ cursor \in Nat
  /\ worker \in {"idle", "load", "queued", "predict", "close"}
  /\ job \in Seq(Requests) /\ results \in Seq(Requests)
  /\ returned \in {"none", "value", "error", "fatal"}
  /\ accepting \in BOOLEAN /\ failed \in BOOLEAN /\ abandoned \in BOOLEAN
  /\ life \in {"new", "loading", "start_failed", "serving", "draining", "cancelling",
               "closing", "stopped"}
  /\ graceEnd \in Int

Distinct(q) == \A i, j \in DOMAIN q : q[i] = q[j] => i = j

Accepted == {r \in Requests : state[r] # "none"}

-----------------------------------------------------------------------------
(* Envelopes, queue and batch                                              *)

\* The deque holds the pending envelopes, each once and no dead one, and an
\* envelope is running only as a member of the batch under execution:
\* cancellation, expiry and failure leave no tombstones and lose nobody.
QueueAgreement ==
  /\ Distinct(pending) /\ Distinct(running)
  /\ Elements(pending) = {r \in Requests : state[r] = "pending"}
  /\ {r \in Requests : state[r] = "running"} \subseteq Elements(running)
  /\ running # << >> => ActiveBatch

\* Work accepted and not ended never exceeds the queue's capacity by more
\* than one batch, and the queue never exceeds its capacity.
BoundedWork ==
  /\ Len(pending) <= PendingCapacity
  /\ Cardinality({r \in Requests : state[r] \in {"pending", "running"}})
       <= PendingCapacity + BatchLimit

\* A request expires only at or after the deadline its handler entry set,
\* whichever of the four places that look at the clock decides it.
ExpiredIsOverdue ==
  \A r \in Requests : state[r] = "expired" => now >= deadline[r]

-----------------------------------------------------------------------------
(* Replies                                                                 *)

\* A caller given a prediction is given its own, and its request succeeded:
\* members of the batch that timed out or left never shift the results.
OwnPrediction ==
  \A r \in Requests :
    /\ answer[r] \in {"none", r}
    /\ caller[r] = "prediction" => state[r] = "succeeded" /\ answer[r] = r

\* A caller never leaves a live request behind it, and an error reply says
\* what became of the request. (A caller may time out or be cancelled just
\* after its batch ended: it then leaves a succeeded or failed request.)
ReplyMatchesOutcome ==
  \A r \in Requests :
    /\ caller[r] \in {"admitted", "waiting"} => state[r] # "none"
    /\ caller[r] = "queue_full" => state[r] = "none"
    /\ caller[r] = "cancelled" => state[r] \in Terminal
    /\ caller[r] = "deadline" =>
         state[r] = "none" \/ (state[r] \in Terminal /\ now >= deadline[r])
    /\ caller[r] = "unavailable" => state[r] \in {"none", "failed"}
    /\ caller[r] \in {"execution", "contract"} => state[r] = "failed"

-----------------------------------------------------------------------------
(* The driver, the worker thread and shutdown                              *)

\* A sleeping driver is always going to be woken in time: with nothing queued
\* only an open door lets it sleep without a timer, and with requests queued
\* its timer is no later than the end of the oldest one's collection window.
SleepingDriverWakes ==
  driver = "waiting" /\ life # "cancelling" =>
    /\ alarm = NoTime => pending = << >> /\ accepting
    /\ pending # << >> =>
         /\ Policy = "timed" /\ Len(pending) < MaxBatchSize
         /\ alarm <= admittedAt[Head(pending)] + CollectionDelay

\* The service admits only while a live, healthy driver will serve what it
\* admits.
OpenDoorIsServed ==
  accepting => ~failed /\ life = "serving" /\ driver \notin {"absent", "done"}

\* A call in the executor is the call of the batch the driver awaits, unless
\* shutdown gave that call up; close is never queued behind a prediction.
CallBelongsToBatch ==
  /\ worker \in {"queued", "predict"} =>
       \/ driver = "executing" /\ job = running
       \/ life = "stopped" /\ abandoned
  /\ life = "closing" => worker \in {"idle", "close"}

\* When shutdown stops waiting for the driver no request is left alive.
NothingLeftBehind ==
  life \in {"cancelling", "closing", "stopped"} =>
    \A r \in Accepted : state[r] \in Terminal

-----------------------------------------------------------------------------
(* What a step may never do                                                *)

\* "A request resolves once; late completion never changes a terminal state",
\* nor does it replace what the request's future was resolved with.
ResolvedForGood ==
  [][\A r \in Requests :
       state[r] \in Terminal => state'[r] = state[r] /\ future'[r] = future[r]
                                /\ answer'[r] = answer[r]]_vars

Before(q, a, b) == \E i, j \in DOMAIN q : i < j /\ q[i] = a /\ q[j] = b

\* FIFO: a request is admitted behind all that are queued, the queue is never
\* reordered, and no request starts running while an older one stays in it.
NoOvertaking ==
  [][\A a, b \in Requests :
       state[a] = "pending" /\ state'[a] = "pending" =>
         /\ state[b] = "none" /\ state'[b] = "pending" => Before(pending', a, b)
         /\ Before(pending, a, b) =>
              /\ state'[b] # "running"
              /\ state'[b] = "pending" => Before(pending', a, b)]_vars

\* Readiness, once lost, does not come back: recovery is a new process.
ReadinessIsNotRegained ==
  [][life \notin {"new", "loading"} /\ ~Ready => ~Ready']_vars

\* Nothing that stopped waiting is ever executed: a batch is handed to the
\* worker only with members that are live and not overdue at that time, and
\* never once shutdown has stopped waiting for the driver.
OnlyLiveWorkStarts ==
  [][running' # running /\ running' # << >> =>
       /\ life \in {"serving", "draining"}
       /\ \A r \in Elements(running') :
            caller[r] = "waiting" /\ now < deadline[r]]_vars

-----------------------------------------------------------------------------
(* The abstract life of a request, and the inductive invariant             *)

Lifecycle == INSTANCE RequestLifecycle WITH state <- state, future <- future, outcomes <- outcomes

\* _record_outcome() runs once for every accepted request, with the state the
\* request ends in, and the future is open exactly while the request is live:
\* no path forgets a waiter or resolves it twice.
OutcomeRecordedOnce == Lifecycle!ResolvedOnce

\* Every step of the scheduler moves each request as RequestLifecycle allows.
ImplementsLifecycle == Lifecycle!Spec

\* submit() as the HTTP handler sees it: admission and waiting are one, and
\* an envelope is live or not.
SubmitView == [r \in Requests |-> IF caller[r] = "admitted" THEN "waiting" ELSE caller[r]]
LiveView   == [r \in Requests |-> state[r] \in {"pending", "running"}]

Contract == INSTANCE SubmitContract WITH call <- SubmitView, live <- LiveView

\* The scheduler keeps the contract its HTTP handler relies on: it refuses or
\* admits, answers a caller only when its envelope has ended, and once.
KeepsSubmitContract == Contract!Spec

\* A caller that has not submitted has no envelope, and one that was given a
\* prediction has an envelope that succeeded.
CallersSound ==
  /\ ReplyMatchesOutcome
  /\ \A r \in Requests :
       /\ caller[r] = "idle" => state[r] = "none"
       /\ caller[r] = "prediction" => state[r] = "succeeded"

AnswersSound ==
  \A r \in Requests :
    /\ answer[r] \in {"none", r}
    /\ state[r] = "succeeded" => answer[r] = r

\* The driver task, its batch and the life of the service go together.
DriverSound ==
  /\ driver = "absent" <=> life \in {"new", "loading", "start_failed"}
  /\ life \in {"closing", "stopped"} => driver = "done"
  /\ driver = "done" => pending = << >> /\ ~accepting
  /\ failed => driver # "absent"
  /\ driver = "finishing" => returned # "none" /\ cursor >= 1 /\ life # "cancelling"
  /\ returned # "none" => ActiveBatch
  /\ returned = "value" /\ Len(results) = Len(running) => results = running
  /\ life = "cancelling" => abandoned = ActiveBatch
  /\ abandoned => life \in {"cancelling", "stopped"}

\* The members of the batch under execution were all dispatched, and those
\* _finish_batch() has passed are no longer running.
BatchSound ==
  \A k \in DOMAIN running :
    /\ state[running[k]] \notin {"none", "pending"}
    /\ driver = "finishing" /\ k < cursor => state[running[k]] # "running"

\* So do the worker thread and the call it runs.
WorkerSound ==
  /\ worker = "load" <=> life = "loading"
  /\ worker = "close" => life = "closing"
  /\ worker \in {"queued", "predict"} =>
       /\ job # << >>
       /\ \/ driver = "executing" /\ job = running /\ returned = "none"
          \/ life = "stopped" /\ abandoned

\* The inductive invariant the safety theorems rest on.
IInv ==
  /\ TypeOK /\ OutcomeRecordedOnce /\ QueueAgreement /\ ExpiredIsOverdue
  /\ CallersSound /\ AnswersSound /\ OpenDoorIsServed /\ NothingLeftBehind
  /\ DriverSound /\ BatchSound /\ WorkerSound

\* No turn of the driver overlaps a submission: while the driver is inside one,
\* no caller stands between its admission and its wait.
TurnsAreWhole ==
  driver \in {"finishing", "deciding"} => \A r \in Requests : caller[r] # "admitted"

\* The queue and the batch have their bounds, and the queue is in the order the
\* clock gave its members.
QueueInOrder ==
  /\ Len(pending) <= PendingCapacity /\ Len(running) <= BatchLimit
  /\ \A r \in Elements(pending) : admittedAt[r] \in 0..now
  /\ \A a, b \in Elements(pending) : Before(pending, a, b) => admittedAt[a] <= admittedAt[b]

\* What the theorems on order, bounds and wakeups rest on, with IInv.
QueueInv == TurnsAreWhole /\ QueueInOrder /\ SleepingDriverWakes

-----------------------------------------------------------------------------
(* What the documentation says and the code does not do                    *)

\* docs/REQUIREMENTS.md: shutdown "allows accepted work to finish within the
\* grace period": when that period ends the driver has not slept on it.
DrainNeverSleepsOnWork ==
  life = "draining" /\ now >= graceEnd => ~(driver = "waiting" /\ pending # << >>)

-----------------------------------------------------------------------------
(* Progress. The loop runs what is ready and time passes; what the adapter  *)
(* does is not assumed, except, where AdapterCloses is used, for close().   *)

LoopFairness ==
  /\ WF_vars(Tick) /\ WF_vars(Loaded)
  /\ \A r \in Requests : WF_vars(BeginWait(r)) /\ WF_vars(Receive(r)) /\ WF_vars(Timeout(r))
  /\ WF_vars(Dispatch) /\ WF_vars(Sleep) /\ WF_vars(StopDriver)
  /\ WF_vars(CollectResults) /\ WF_vars(FinishOne) /\ WF_vars(EndExecute)
  /\ WF_vars(WatchdogFires)
  /\ WF_vars(Drained) /\ WF_vars(GraceExpires) /\ WF_vars(DriverCancelled)

AdapterCloses == WF_vars(CloseStarts) /\ WF_vars(CloseReturns)

LiveSpec == Spec /\ LoopFairness /\ AdapterCloses

\* Every admitted caller gets a reply, even if the worker thread hangs.
EveryCallerAnswered ==
  \A r \in Requests : caller[r] = "admitted" ~> caller[r] \in Replies

\* Shutdown ends, even if the worker thread hangs in a prediction.
ShutdownEnds == life = "draining" ~> life = "stopped"

\* A prediction that never returns ends readiness for good.
HungWorkerUnready == <>[](worker = "predict") => <>[]~Ready
=============================================================================
