------------------------------ MODULE Scheduler ------------------------------
(***************************************************************************)
(* ModelScheduler (core/scheduler.py): an asyncio event loop that admits   *)
(* requests into a bounded queue, one driver task that forms batches, and  *)
(* a one-thread executor that runs load, predict_batch and close.          *)
(*                                                                         *)
(* An action is one uninterrupted run of the event loop between two        *)
(* awaits, or one step of the worker thread, or one tick of the clock.     *)
(* The loop's turns that read the clock more than once (submit, and the    *)
(* completion of a batch) are split at those reads: LoopIdle holds when no *)
(* such turn is under way, so that only the thread and the clock interleave*)
(* with it.                                                                *)
(***************************************************************************)
EXTENDS Integers, Sequences

CONSTANTS Requests,         \* the requests that may arrive, each at most once
          Policy,           \* "single", "immediate" or "timed"
          MaxBatchSize, PendingCapacity,
          CollectionDelay, Deadline, Grace, Watchdog,    \* in clock ticks
          Ages,             \* time from handler entry to submit()
          MaxTime           \* bound: no request enters from this tick on

NoTime == -1

ASSUME PolicyAssumption == Policy \in {"single", "immediate", "timed"}
ASSUME SizeAssumption   == MaxBatchSize \in Nat \ {0} /\ PendingCapacity \in Nat \ {0}
ASSUME TimeAssumption   ==
  /\ CollectionDelay \in Nat /\ Deadline \in Nat \ {0}
  /\ Grace \in Nat \ {0} /\ Watchdog \in Nat \ {0}
  /\ Ages \subseteq Nat /\ MaxTime \in Nat

VARIABLES
  now,          \* the monotonic clock
  caller,       \* submit(): idle, admitted, waiting, or the reply it gave
  state,        \* RequestEnvelope.state, "none" before admission
  future,       \* the envelope's future: open or how it was resolved
  answer,       \* whose prediction set_result() put into the future
  outcomes,     \* what _record_outcome() recorded for the request
  admittedAt, deadline,
  pending,      \* the deque _pending
  running,      \* the batch of _execute(), also _running
  driver,       \* the task of _run(), by what it is suspended on
  alarm,        \* when its wait_for() in _next_batch() times out
  activeSince, cursor,
  worker,       \* the executor thread's current call
  job,          \* the items handed to that call
  returned,     \* what predict_batch gave: a value, an error, a fatal error
  results,
  accepting, failed, abandoned,
  life,         \* start() and shutdown(): how far the service's life is
  graceEnd

times      == <<admittedAt, deadline>>
ledger     == <<state, future, outcomes, pending>>
requests   == <<caller, times, ledger>>
task       == <<driver, alarm>>
batch      == <<running, activeSince, cursor, answer>>
call       == <<worker, job, returned, results>>
flags      == <<accepting, failed>>
lifetime   == <<life, abandoned, graceEnd>>
vars       == <<now, requests, task, batch, call, flags, lifetime>>

Terminal == {"succeeded", "failed", "expired", "cancelled"}

-----------------------------------------------------------------------------
(* The queue and the envelopes.                                            *)

Elements(q) == {q[k] : k \in DOMAIN q}

\* Fault: terminated envelopes stay in the deque.
KeepTombstones(q, K) == {q}

\* The subsequence of q made of its elements in K: a set of one sequence.
Retained(q, K) ==
  UNION {{[k \in 1..n |-> q[f[k]]] :
            f \in {g \in [1..n -> DOMAIN q] :
                     /\ \A i, j \in 1..n : i < j => g[i] < g[j]
                     /\ {g[i] : i \in 1..n} = {k \in DOMAIN q : q[k] \in K}}} :
         n \in 0..Len(q)}

Mark(f, D, v)    == [r \in Requests |-> IF r \in D THEN v ELSE f[r]]
Resolve(f, D, v) == Mark(f, {r \in D : f[r] = "open"}, v)
Log(log, D, v)   == [r \in Requests |-> IF r \in D THEN Append(log[r], v) ELSE log[r]]

\* Faults: expiry a tick too soon, and no expiry in the queue.
OverdueTooSoon(st) == {r \in Elements(pending) : st[r] = "pending" /\ now + 1 >= deadline[r]}
NeverOverdue(st)   == {}

Overdue(st) == {r \in Elements(pending) : st[r] = "pending" /\ now >= deadline[r]}

\* New values of the envelopes and the deque, and taking them over.
Ledger(st, fut, log, q) == [state |-> st, future |-> fut, outcomes |-> log, pending |-> q]

Commit(c) ==
  /\ state' = c.state /\ future' = c.future
  /\ outcomes' = c.outcomes /\ pending' = c.pending

\* What _reclaim_dead_pending(now) makes of the envelopes it is called with.
ReclaimDeadPending(st, fut, log) ==
  LET dead == Overdue(st)
      kept == Mark(st, dead, "expired")
  IN {Ledger(kept, Resolve(fut, dead, "deadline"), Log(log, dead, "expired"), q) :
        q \in Retained(pending, {r \in Requests : kept[r] = "pending"})}

Reclaimed == ReclaimDeadPending(state, future, outcomes)

\* Fault: the queue changes without a notification.
NotifyNobody == UNCHANGED task

\* _condition.notify_all(): the driver is its only waiter.
NotifyAll ==
  /\ driver' = IF driver = "waiting" THEN "ready" ELSE driver
  /\ alarm'  = IF driver = "waiting" THEN NoTime ELSE alarm

\* Fault: the caller goes without terminating its envelope.
LeaveQuietly(r, s, reply) ==
  caller' = [caller EXCEPT ![r] = reply] /\ UNCHANGED <<ledger, task>>

\* _terminate(): the caller goes, and takes a live envelope with it.
Leave(r, s, reply) ==
  /\ caller' = [caller EXCEPT ![r] = reply]
  /\ IF state[r] \in Terminal
     THEN UNCHANGED <<ledger, task>>
     ELSE /\ NotifyAll
          /\ \E c \in ReclaimDeadPending(Mark(state, {r}, s),
                                         Resolve(future, {r}, "cancelled"),
                                         Log(outcomes, {r}, s)) : Commit(c)

\* Faults: _fail_all() forgets the batch, or the envelopes' terminal states.
QueuedEnvelopes == Elements(pending)
AllEnvelopes    == Elements(pending) \cup Elements(running)

LiveEnvelopes ==
  {r \in Elements(pending) \cup Elements(running) : state[r] \notin Terminal}

\* _fail_all(): every live envelope fails as unavailable.
FailAll ==
  Commit(Ledger(Mark(state, LiveEnvelopes, "failed"),
                Resolve(future, LiveEnvelopes, "unavailable"),
                Log(outcomes, LiveEnvelopes, "failed"), << >>))

LoopIdle ==
  /\ driver \notin {"finishing", "deciding"}
  /\ \A r \in Requests : caller[r] # "admitted"

ActiveBatch == driver \in {"executing", "finishing"}

\* Fault: a full queue is taken for a lost readiness.
ReadyWithRoom ==
  accepting /\ ~failed /\ driver \notin {"absent", "done"} /\ Len(pending) < PendingCapacity

Ready == accepting /\ ~failed /\ driver \notin {"absent", "done"}

-----------------------------------------------------------------------------
Init ==
  /\ now = 0
  /\ caller = [r \in Requests |-> "idle"]
  /\ state = [r \in Requests |-> "none"]
  /\ future = [r \in Requests |-> "none"]
  /\ answer = [r \in Requests |-> "none"]
  /\ outcomes = [r \in Requests |-> << >>]
  /\ admittedAt = [r \in Requests |-> NoTime]
  /\ deadline = [r \in Requests |-> NoTime]
  /\ pending = << >> /\ running = << >>
  /\ driver = "absent" /\ alarm = NoTime /\ activeSince = NoTime /\ cursor = 0
  /\ worker = "idle" /\ job = << >> /\ returned = "none" /\ results = << >>
  /\ accepting = FALSE /\ failed = FALSE /\ abandoned = FALSE
  /\ life = "new" /\ graceEnd = NoTime

(* start(): load runs on the worker thread, then the driver is created.    *)
Start ==
  /\ life = "new" /\ LoopIdle
  /\ life' = "loading" /\ worker' = "load"
  /\ UNCHANGED <<now, requests, task, batch, job, returned, results, flags, abandoned, graceEnd>>

Loaded ==
  /\ life = "loading" /\ LoopIdle
  /\ worker' = "idle"
  /\ \/ life' = "serving" /\ accepting' = TRUE /\ driver' = "ready"
     \/ life' = "start_failed" /\ UNCHANGED <<accepting, driver>>
  /\ UNCHANGED <<now, requests, alarm, batch, job, returned, results, failed, abandoned, graceEnd>>

\* Faults: one request too many, and a newest-first queue.
HasOneMoreRoom(q) == Len(q) <= PendingCapacity
PutFirst(q, r)    == <<r>> \o q

HasRoom(q) == Len(q) < PendingCapacity
Put(q, r)  == Append(q, r)

(* submit() up to the creation of the waiter: the first clock read.        *)
Admit(r, age, c) ==
  /\ caller' = [caller EXCEPT ![r] = "admitted"]
  /\ Commit(Ledger(Mark(c.state, {r}, "pending"), Mark(c.future, {r}, "open"), c.outcomes,
                   Put(c.pending, r)))
  /\ admittedAt' = [admittedAt EXCEPT ![r] = now]
  /\ deadline' = [deadline EXCEPT ![r] = now - age + Deadline]
  /\ NotifyAll

Reject(r, reply, c) ==
  /\ caller' = [caller EXCEPT ![r] = reply]
  /\ Commit(c)
  /\ UNCHANGED <<times, task>>

Submit(r, age) ==
  /\ LoopIdle /\ caller[r] = "idle" /\ now < MaxTime
  /\ \E c \in Reclaimed :
       IF age >= Deadline THEN Reject(r, "deadline", c)
       ELSE IF ~Ready THEN Reject(r, "unavailable", c)
       ELSE IF ~HasRoom(c.pending) THEN Reject(r, "queue_full", c)
       ELSE Admit(r, age, c)
  /\ UNCHANGED <<now, batch, call, flags, lifetime>>

(* submit() after admission: the second clock read, then wait_for().       *)
BeginWait(r) ==
  /\ caller[r] = "admitted"
  /\ IF now >= deadline[r]
     THEN Leave(r, "expired", "deadline")
     ELSE caller' = [caller EXCEPT ![r] = "waiting"] /\ UNCHANGED <<ledger, task>>
  /\ UNCHANGED <<now, times, batch, call, flags, lifetime>>

\* The waiter resumes with the future's result or exception.
Receive(r) ==
  /\ LoopIdle /\ caller[r] = "waiting" /\ future[r] # "open"
  /\ caller' = [caller EXCEPT ![r] = future[r]]
  /\ UNCHANGED <<now, times, ledger, task, batch, call, flags, lifetime>>

\* Fault: only a queued request times out.
TimerOfPending(r) == now >= deadline[r] /\ state[r] = "pending"

DeadlineTimer(r) == now >= deadline[r]

\* The deadline timer wins, even over a future resolved in the same turn.
Timeout(r) ==
  /\ LoopIdle /\ caller[r] = "waiting" /\ DeadlineTimer(r)
  /\ Leave(r, "expired", "deadline")
  /\ UNCHANGED <<now, times, batch, call, flags, lifetime>>

\* The HTTP handler cancels submit(): the client has gone.
Cancel(r) ==
  /\ LoopIdle /\ caller[r] = "waiting"
  /\ Leave(r, "cancelled", "cancelled")
  /\ UNCHANGED <<now, times, batch, call, flags, lifetime>>

-----------------------------------------------------------------------------
(* The driver: one evaluation of the loop in _next_batch().                *)

ShouldDispatch(q) ==
  /\ q # << >>
  /\ \/ Policy # "timed"
     \/ Len(q) >= MaxBatchSize
     \/ now - admittedAt[Head(q)] >= CollectionDelay

BatchLimit == IF Policy = "single" THEN 1 ELSE MaxBatchSize

DriverTurn ==
  /\ life # "cancelling"
  /\ \/ driver = "deciding"
     \/ LoopIdle /\ driver = "ready"
     \/ LoopIdle /\ driver = "waiting" /\ alarm # NoTime /\ now >= alarm

\* _execute() up to the end of run_in_executor()'s call.
BeginExecute(b) ==
  /\ driver' = "executing" /\ activeSince' = now /\ running' = b
  /\ worker' = "queued" /\ job' = b

\* _next_batch() finds a batch due, and _take_batch() takes it.
Dispatch ==
  /\ DriverTurn
  /\ \E c \in Reclaimed :
       LET n == IF Len(c.pending) < BatchLimit THEN Len(c.pending) ELSE BatchLimit
           taken == SubSeq(c.pending, 1, n)
       IN /\ ShouldDispatch(c.pending)
          /\ Commit(Ledger(Mark(c.state, Elements(taken), "running"), c.future, c.outcomes,
                           SubSeq(c.pending, n + 1, Len(c.pending))))
          /\ BeginExecute(taken)
  /\ alarm' = NoTime
  /\ UNCHANGED <<now, caller, times, cursor, answer, returned, results, flags, lifetime>>

Sleep ==
  /\ DriverTurn
  /\ \E c \in Reclaimed :
       /\ ~ShouldDispatch(c.pending)
       /\ accepting \/ c.pending # << >>
       /\ Commit(c)
       /\ alarm' = IF c.pending # << >> /\ Policy = "timed"
                   THEN admittedAt[Head(c.pending)] + CollectionDelay
                   ELSE NoTime
  /\ driver' = "waiting"
  /\ UNCHANGED <<now, caller, times, batch, call, flags, lifetime>>

StopDriver ==
  /\ DriverTurn /\ ~accepting
  /\ \E c \in Reclaimed : c.pending = << >> /\ Commit(c)
  /\ driver' = "done" /\ alarm' = NoTime
  /\ UNCHANGED <<now, caller, times, batch, call, flags, lifetime>>

-----------------------------------------------------------------------------
(* The worker thread.                                                      *)

CallStarts ==
  /\ worker = "queued" /\ worker' = "predict"
  /\ UNCHANGED <<now, requests, task, batch, job, returned, results, flags, lifetime>>

\* predict_batch ends: right, with a wrong number of results, or with an error.
\* Once the driver is gone nobody takes what it returns.
CallReturns ==
  /\ worker = "predict" /\ worker' = "idle" /\ job' = << >>
  /\ IF driver = "done" THEN UNCHANGED <<returned, results>>
     ELSE \/ returned' = "value" /\ results' \in {job, Tail(job), Append(job, Head(job))}
          \/ returned' \in {"error", "fatal"} /\ UNCHANGED results
  /\ UNCHANGED <<now, requests, task, batch, flags, lifetime>>

-----------------------------------------------------------------------------
(* _execute() after the call, and _finish_batch().                         *)

\* Fault: only an empty result is refused.
ErrorIfEmpty ==
  CASE returned = "error" -> "execution"
    [] returned = "fatal" -> "unavailable"
    [] returned = "value" /\ results = << >> -> "contract"
    [] OTHER -> "none"

BatchError ==
  CASE returned = "error" -> "execution"
    [] returned = "fatal" -> "unavailable"
    [] returned = "value" /\ Len(results) # Len(running) -> "contract"
    [] OTHER -> "none"

\* Fault: a failed worker keeps the door open.
FailButAccept == failed' = TRUE /\ UNCHANGED accepting

CloseDoor == failed' = TRUE /\ accepting' = FALSE

CollectResults ==
  /\ LoopIdle /\ driver = "executing" /\ returned # "none" /\ life # "cancelling"
  /\ driver' = "finishing" /\ cursor' = 1
  /\ IF returned = "fatal" THEN CloseDoor ELSE UNCHANGED flags
  /\ UNCHANGED <<now, requests, alarm, running, activeSince, answer, call, lifetime>>

\* Fault: a member that has left is finished with the others.
AnyMember(r) == TRUE

StillRunning(r) == state[r] = "running"

\* One pass of the loop in _finish_batch(), with its own clock read.
FinishOne ==
  /\ driver = "finishing" /\ cursor <= Len(running)
  /\ LET r == running[cursor]
         late == now >= deadline[r]
         s == IF late THEN "expired" ELSE IF BatchError # "none" THEN "failed" ELSE "succeeded"
         f == IF late THEN "deadline" ELSE IF BatchError # "none" THEN BatchError ELSE "prediction"
     IN IF ~StillRunning(r) THEN UNCHANGED <<ledger, answer>>
        ELSE /\ Commit(Ledger(Mark(state, {r}, s), Resolve(future, {r}, f),
                              Log(outcomes, {r}, s), pending))
             /\ answer' = IF s = "succeeded" /\ future[r] = "open"
                          THEN [answer EXCEPT ![r] = results[cursor]] ELSE answer
  /\ cursor' = cursor + 1
  /\ UNCHANGED <<now, caller, times, driver, alarm, running, activeSince, call, flags, lifetime>>

\* The rest of the except clause, the finally clause, and back to _run().
EndExecute ==
  /\ driver = "finishing" /\ cursor > Len(running)
  /\ IF returned = "fatal" THEN FailAll ELSE UNCHANGED ledger
  /\ driver' = "deciding" /\ cursor' = 0
  /\ running' = << >> /\ activeSince' = NoTime /\ returned' = "none" /\ results' = << >>
  /\ UNCHANGED <<now, caller, times, alarm, answer, worker, job, flags, lifetime>>

\* Fault: a hung call counts only when requests are queued behind it.
WatchdogOnBacklog == now - activeSince >= Watchdog /\ pending # << >>

WatchdogDue == now - activeSince >= Watchdog

\* _watch_worker()
WatchdogFires ==
  /\ LoopIdle /\ ActiveBatch /\ WatchdogDue
  /\ ~failed /\ CloseDoor
  /\ UNCHANGED <<now, requests, task, batch, call, lifetime>>

-----------------------------------------------------------------------------
(* shutdown()                                                              *)

BeginShutdown ==
  /\ life = "serving" /\ LoopIdle
  /\ life' = "draining" /\ accepting' = FALSE /\ graceEnd' = now + Grace
  /\ NotifyAll
  /\ UNCHANGED <<now, requests, batch, call, failed, abandoned>>

Drained ==
  /\ life = "draining" /\ LoopIdle /\ driver = "done"
  /\ life' = "closing"
  /\ UNCHANGED <<now, requests, task, batch, call, flags, abandoned, graceEnd>>

GraceExpires ==
  /\ life = "draining" /\ LoopIdle /\ now >= graceEnd
  /\ FailAll /\ NotifyAll
  /\ abandoned' = ActiveBatch
  /\ life' = "cancelling"
  /\ UNCHANGED <<now, caller, times, batch, call, flags, graceEnd>>

\* Fault: close is queued behind the call that was given up.
AlwaysClose == "closing"

AfterCancel == IF abandoned THEN "stopped" ELSE "closing"

\* The driver ends with CancelledError; a call not yet started is dropped.
DriverCancelled ==
  /\ life = "cancelling" /\ LoopIdle
  /\ driver' = "done" /\ alarm' = NoTime
  /\ running' = << >> /\ activeSince' = NoTime /\ returned' = "none" /\ results' = << >>
  /\ IF worker = "queued" THEN worker' = "idle" /\ job' = << >> ELSE UNCHANGED <<worker, job>>
  /\ life' = AfterCancel
  /\ UNCHANGED <<now, requests, cursor, answer, flags, abandoned, graceEnd>>

CloseStarts ==
  /\ life = "closing" /\ worker = "idle" /\ worker' = "close"
  /\ UNCHANGED <<now, requests, task, batch, job, returned, results, flags, lifetime>>

CloseReturns ==
  /\ life = "closing" /\ worker = "close" /\ LoopIdle
  /\ worker' = "idle" /\ life' = "stopped"
  /\ UNCHANGED <<now, requests, task, batch, job, returned, results, flags, abandoned, graceEnd>>

-----------------------------------------------------------------------------
(* The clock runs to MaxTime, and beyond it while a timer is set.          *)

TimerSet ==
  \/ now < alarm
  \/ life = "draining" /\ now < graceEnd
  \/ ActiveBatch /\ now < activeSince + Watchdog
  \/ \E r \in Requests : caller[r] \in {"admitted", "waiting"} /\ now < deadline[r]

Tick ==
  /\ now < MaxTime \/ TimerSet
  /\ now' = now + 1
  /\ UNCHANGED <<requests, task, batch, call, flags, lifetime>>

\* The process has exited and every handler has returned.
Exited ==
  /\ life \in {"start_failed", "stopped"}
  /\ \A r \in Requests : caller[r] \notin {"admitted", "waiting"}
  /\ UNCHANGED vars

LoopNext ==
  \/ Start \/ Loaded
  \/ \E r \in Requests, age \in Ages : Submit(r, age)
  \/ \E r \in Requests : BeginWait(r) \/ Receive(r) \/ Timeout(r) \/ Cancel(r)
  \/ Dispatch \/ Sleep \/ StopDriver
  \/ CollectResults \/ FinishOne \/ EndExecute \/ WatchdogFires
  \/ BeginShutdown \/ Drained \/ GraceExpires \/ DriverCancelled \/ CloseReturns

WorkerNext == CallStarts \/ CallReturns \/ CloseStarts

Next == LoopNext \/ WorkerNext \/ Tick \/ Exited

Spec == Init /\ [][Next]_vars
=============================================================================
