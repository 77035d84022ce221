--------------------------- MODULE SchedulerProofs ---------------------------
(***************************************************************************)
(* Theorems of Scheduler, for every set of requests, policy, size, delay   *)
(* and bound the assumptions allow. What the operators of the model        *)
(* return, type correctness, the envelopes, the inductive invariant and    *)
(* the refinements come first; then the queue, whose order tells the       *)
(* bound on outstanding work and the wakings of the driver.                *)
(***************************************************************************)
EXTENDS SchedulerProperties, FiniteSetTheorems, TLAPS

-----------------------------------------------------------------------------
(* What the operators of the model return.                                 *)

\* Reclaiming keeps exactly the elements of the queue that are in K, each as
\* often and in the order it was there.
LEMMA RetainedProperties ==
  ASSUME NEW S, NEW q \in Seq(S), NEW K, NEW s \in Retained(q, K)
  PROVE  /\ s \in Seq(S) /\ Len(s) \in 0..Len(q)
         /\ Elements(s) = Elements(q) \cap K
         /\ Distinct(q) => Distinct(s)
         /\ \A x, y : Before(s, x, y) => Before(q, x, y)
<1>0. PICK n \in 0..Len(q) :
        \E f \in [1..n -> DOMAIN q] :
          /\ \A i, j \in 1..n : i < j => f[i] < f[j]
          /\ {f[i] : i \in 1..n} = {k \in DOMAIN q : q[k] \in K}
          /\ s = [k \in 1..n |-> q[f[k]]]
  BY DEF Retained
<1>1. PICK f \in [1..n -> DOMAIN q] :
        /\ \A i, j \in 1..n : i < j => f[i] < f[j]
        /\ {f[i] : i \in 1..n} = {k \in DOMAIN q : q[k] \in K}
        /\ s = [k \in 1..n |-> q[f[k]]]
  BY <1>0
<1>2. n \in Nat /\ DOMAIN q = 1..Len(q) /\ Len(q) \in Nat
  OBVIOUS
<1>3. s \in Seq(S) /\ Len(s) = n /\ DOMAIN s = 1..n
  BY <1>1, <1>2
<1>4. Elements(s) = Elements(q) \cap K
  <2>1. ASSUME NEW x \in Elements(s) PROVE x \in Elements(q) \cap K
    BY <1>1, <1>3 DEF Elements
  <2>2. ASSUME NEW x \in Elements(q) \cap K PROVE x \in Elements(s)
    <3>1. PICK k \in DOMAIN q : q[k] = x
      BY DEF Elements
    <3>2. PICK i \in 1..n : f[i] = k
      BY <1>1, <3>1
    <3>3. s[i] = x
      BY <1>1, <3>1, <3>2
    <3> QED BY <1>3, <3>3 DEF Elements
  <2> QED BY <2>1, <2>2
<1>5. ASSUME Distinct(q) PROVE Distinct(s)
  <2>1. SUFFICES ASSUME NEW i \in 1..n, NEW j \in 1..n, s[i] = s[j] PROVE i = j
    BY <1>3 DEF Distinct
  <2>2. f[i] \in DOMAIN q /\ f[j] \in DOMAIN q /\ q[f[i]] = q[f[j]]
    BY <1>1, <2>1
  <2>3. f[i] = f[j]
    BY <1>5, <2>2 DEF Distinct
  <2>4. f[i] \in Int /\ f[j] \in Int
    BY <1>2, <2>2
  <2> QED BY <1>1, <1>2, <2>3, <2>4
<1>6. ASSUME NEW x, NEW y, Before(s, x, y) PROVE Before(q, x, y)
  <2>1. PICK i \in 1..n, j \in 1..n : i < j /\ s[i] = x /\ s[j] = y
    BY <1>3, <1>6 DEF Before
  <2>2. f[i] \in DOMAIN q /\ f[j] \in DOMAIN q /\ f[i] < f[j] /\ q[f[i]] = x /\ q[f[j]] = y
    BY <1>1, <2>1
  <2> QED BY <2>2 DEF Before
<1> QED BY <1>2, <1>3, <1>4, <1>5, <1>6

\* Marking or resolving some requests gives a function of the same type.
LEMMA MarkType ==
  ASSUME NEW T, NEW f \in [Requests -> T], NEW v \in T, NEW D
  PROVE  Mark(f, D, v) \in [Requests -> T] /\ Resolve(f, D, v) \in [Requests -> T]
BY DEF Mark, Resolve

\* Logging an outcome gives a log of the same type.
LEMMA LogType ==
  ASSUME NEW T, NEW log \in [Requests -> Seq(T)], NEW v \in T, NEW D
  PROVE  Log(log, D, v) \in [Requests -> Seq(T)]
BY DEF Log

\* The parts of an envelope, and their type.
LedgerType(c) ==
  /\ c.state \in [Requests -> States] /\ c.future \in [Requests -> Futures]
  /\ c.outcomes \in [Requests -> Seq(Terminal)] /\ c.pending \in Seq(Requests)

\* Reclaiming the dead of the queue gives a ledger.
LEMMA ReclaimType ==
  ASSUME NEW st \in [Requests -> States], NEW fut \in [Requests -> Futures],
         NEW log \in [Requests -> Seq(Terminal)], pending \in Seq(Requests),
         NEW c \in ReclaimDeadPending(st, fut, log)
  PROVE  LedgerType(c)
<1> DEFINE dead == Overdue(st)
           kept == Mark(st, dead, "expired")
<1>1. PICK q \in Retained(pending, {r \in Requests : kept[r] = "pending"}) :
        c = Ledger(kept, Resolve(fut, dead, "deadline"), Log(log, dead, "expired"), q)
  BY DEF ReclaimDeadPending
<1>2. "expired" \in States /\ "expired" \in Terminal /\ "deadline" \in Futures
  BY DEF States, Terminal, Futures
<1>3. kept \in [Requests -> States] /\ Resolve(fut, dead, "deadline") \in [Requests -> Futures]
  BY <1>2, MarkType
<1>4. Log(log, dead, "expired") \in [Requests -> Seq(Terminal)]
  BY <1>2, LogType
<1>5. q \in Seq(Requests)
  BY RetainedProperties
<1> QED BY <1>1, <1>3, <1>4, <1>5 DEF LedgerType, Ledger

-----------------------------------------------------------------------------
(* Type correctness, one action at a time.                                 *)

\* What Reclaimed offers is a ledger.
LEMMA ReclaimedType ==
  ASSUME TypeOK, NEW c \in Reclaimed
  PROVE  LedgerType(c)
BY ReclaimType DEF TypeOK, Reclaimed

\* A ledger that is committed has the types of the variables.
LEMMA CommitType ==
  ASSUME NEW c, LedgerType(c), Commit(c)
  PROVE  /\ state' \in [Requests -> States] /\ future' \in [Requests -> Futures]
         /\ outcomes' \in [Requests -> Seq(Terminal)] /\ pending' \in Seq(Requests)
BY DEF LedgerType, Commit

\* Failing all live envelopes keeps the types.
LEMMA FailAllType ==
  ASSUME TypeOK, FailAll
  PROVE  /\ state' \in [Requests -> States] /\ future' \in [Requests -> Futures]
         /\ outcomes' \in [Requests -> Seq(Terminal)] /\ pending' \in Seq(Requests)
<1> DEFINE c == Ledger(Mark(state, LiveEnvelopes, "failed"),
                       Resolve(future, LiveEnvelopes, "unavailable"),
                       Log(outcomes, LiveEnvelopes, "failed"), << >>)
<1>1. "failed" \in States /\ "failed" \in Terminal /\ "unavailable" \in Futures
  BY DEF States, Terminal, Futures
<1>2. /\ Mark(state, LiveEnvelopes, "failed") \in [Requests -> States]
      /\ Resolve(future, LiveEnvelopes, "unavailable") \in [Requests -> Futures]
  BY <1>1, MarkType DEF TypeOK
<1>3. Log(outcomes, LiveEnvelopes, "failed") \in [Requests -> Seq(Terminal)]
  BY <1>1, LogType DEF TypeOK
<1>4. LedgerType(c)
  BY <1>2, <1>3 DEF LedgerType, Ledger
<1> QED BY <1>4, CommitType DEF FailAll

\* Notifying keeps the types of the driver.
LEMMA NotifyType ==
  ASSUME TypeOK, NotifyAll
  PROVE  /\ driver' \in {"absent", "ready", "waiting", "executing", "finishing", "deciding", "done"}
         /\ alarm' \in Int
BY DEF TypeOK, NotifyAll, NoTime

\* A caller that leaves keeps the types.
LEMMA LeaveType ==
  ASSUME TypeOK, NEW r \in Requests, NEW s \in Terminal, NEW reply \in Replies,
         Leave(r, s, reply)
  PROVE  /\ caller' \in [Requests -> Callers]
         /\ state' \in [Requests -> States] /\ future' \in [Requests -> Futures]
         /\ outcomes' \in [Requests -> Seq(Terminal)] /\ pending' \in Seq(Requests)
         /\ driver' \in {"absent", "ready", "waiting", "executing", "finishing", "deciding", "done"}
         /\ alarm' \in Int
<1>1. caller' \in [Requests -> Callers]
  BY DEF Leave, TypeOK, Callers
<1>2. CASE state[r] \in Terminal
  BY <1>1, <1>2 DEF Leave, TypeOK, ledger, task
<1>3. CASE state[r] \notin Terminal
  <2>1. NotifyAll
    BY <1>3 DEF Leave
  <2>2. PICK c \in ReclaimDeadPending(Mark(state, {r}, s), Resolve(future, {r}, "cancelled"),
                                      Log(outcomes, {r}, s)) : Commit(c)
    BY <1>3 DEF Leave
  <2>3. s \in States /\ "cancelled" \in Futures
    BY DEF States, Futures
  <2>4. LedgerType(c)
    BY <2>3, MarkType, LogType, ReclaimType DEF TypeOK
  <2> QED BY <1>1, <2>1, <2>2, <2>4, CommitType, NotifyType
<1> QED BY <1>2, <1>3

\* Every step keeps the types.
LEMMA TypeStep == IInv /\ [Next]_vars => TypeOK'
<1> SUFFICES ASSUME IInv, [Next]_vars PROVE TypeOK'
  OBVIOUS
<1> USE DEF times, ledger, requests, task, batch, call, flags, lifetime
<1>0. TypeOK
  BY DEF IInv
<1>1. CASE Start
  BY <1>0, <1>1 DEF TypeOK, Start
<1>2. CASE Loaded
  BY <1>0, <1>2 DEF TypeOK, Loaded
<1>3. ASSUME NEW r \in Requests, NEW age \in Ages, Submit(r, age) PROVE TypeOK'
  <2>1. PICK c \in Reclaimed :
          \/ \E reply \in {"deadline", "unavailable", "queue_full"} : Reject(r, reply, c)
          \/ Admit(r, age, c)
    BY <1>3 DEF Submit
  <2>2. LedgerType(c)
    BY <1>0, ReclaimedType
  <2>3. UNCHANGED <<now, batch, call, flags, lifetime>>
    BY <1>3 DEF Submit
  <2>4. ASSUME NEW reply \in {"deadline", "unavailable", "queue_full"}, Reject(r, reply, c)
        PROVE  TypeOK'
    <3>1. caller' \in [Requests -> Callers]
      BY <1>0, <2>4 DEF Reject, TypeOK, Callers, Replies
    <3> QED BY <1>0, <2>2, <2>3, <2>4, <3>1, CommitType DEF Reject, TypeOK
  <2>5. CASE Admit(r, age, c)
    <3>1. caller' \in [Requests -> Callers]
      BY <1>0, <2>5 DEF Admit, TypeOK, Callers
    <3>2. admittedAt' \in [Requests -> Int] /\ deadline' \in [Requests -> Int]
      BY <1>0, <2>5, TimeAssumption DEF Admit, TypeOK
    <3>3. /\ state' \in [Requests -> States] /\ future' \in [Requests -> Futures]
          /\ outcomes' \in [Requests -> Seq(Terminal)] /\ pending' \in Seq(Requests)
      <4>1. "pending" \in States /\ "open" \in Futures
        BY DEF States, Futures
      <4>2. Put(c.pending, r) \in Seq(Requests)
        BY <2>2 DEF LedgerType, Put
      <4> QED BY <2>2, <2>5, <4>1, <4>2, MarkType DEF Admit, Commit, Ledger, LedgerType
    <3>4. NotifyAll
      BY <2>5 DEF Admit
    <3> QED BY <1>0, <2>3, <3>1, <3>2, <3>3, <3>4, NotifyType DEF TypeOK
  <2> QED BY <2>1, <2>4, <2>5
<1>4. ASSUME NEW r \in Requests, BeginWait(r) \/ Timeout(r) \/ Cancel(r) PROVE TypeOK'
  <2>1. UNCHANGED <<now, times, batch, call, flags, lifetime>>
    BY <1>4 DEF BeginWait, Timeout, Cancel
  <2>2. \/ Leave(r, "expired", "deadline") \/ Leave(r, "cancelled", "cancelled")
        \/ caller' = [caller EXCEPT ![r] = "waiting"] /\ UNCHANGED <<ledger, task>>
    BY <1>4 DEF BeginWait, Timeout, Cancel
  <2>3. "expired" \in Terminal /\ "cancelled" \in Terminal /\ "deadline" \in Replies
        /\ "cancelled" \in Replies /\ "waiting" \in Callers
    BY DEF Terminal, Replies, Callers
  <2>4. ASSUME NEW s \in Terminal, NEW reply \in Replies, Leave(r, s, reply) PROVE TypeOK'
    <3>1. /\ caller' \in [Requests -> Callers]
          /\ state' \in [Requests -> States] /\ future' \in [Requests -> Futures]
          /\ outcomes' \in [Requests -> Seq(Terminal)] /\ pending' \in Seq(Requests)
          /\ driver' \in {"absent", "ready", "waiting", "executing", "finishing", "deciding", "done"}
          /\ alarm' \in Int
      BY <1>0, <2>4, LeaveType
    <3> QED BY <1>0, <2>1, <3>1 DEF TypeOK
  <2>5. CASE caller' = [caller EXCEPT ![r] = "waiting"] /\ UNCHANGED <<ledger, task>>
    BY <1>0, <2>1, <2>3, <2>5 DEF TypeOK
  <2> QED BY <2>2, <2>3, <2>4, <2>5
<1>5. ASSUME NEW r \in Requests, Receive(r) PROVE TypeOK'
  <2>1. future[r] \in Callers
    <3>1. state[r] # "none"
      BY <1>5 DEF IInv, CallersSound, ReplyMatchesOutcome, Receive
    <3>2. future[r] # "none"
      BY <3>1 DEF IInv, OutcomeRecordedOnce, Lifecycle!ResolvedOnce, Lifecycle!Consistent
    <3> QED BY <1>0, <1>5, <3>2 DEF TypeOK, Receive, Futures, Callers, Replies
  <2>2. caller' \in [Requests -> Callers]
    BY <1>0, <1>5, <2>1 DEF TypeOK, Receive
  <2> QED BY <1>0, <1>5, <2>2 DEF TypeOK, Receive
<1>6. CASE Dispatch
  <2>1. PICK c \in Reclaimed :
          LET n == IF Len(c.pending) < BatchLimit THEN Len(c.pending) ELSE BatchLimit
              taken == SubSeq(c.pending, 1, n)
          IN /\ Commit(Ledger(Mark(c.state, Elements(taken), "running"), c.future, c.outcomes,
                              SubSeq(c.pending, n + 1, Len(c.pending))))
             /\ BeginExecute(taken)
    BY <1>6 DEF Dispatch
  <2> DEFINE n == IF Len(c.pending) < BatchLimit THEN Len(c.pending) ELSE BatchLimit
             taken == SubSeq(c.pending, 1, n)
             rest == SubSeq(c.pending, n + 1, Len(c.pending))
  <2>2. LedgerType(c)
    BY <1>0, ReclaimedType
  <2>3. n \in Nat /\ n <= Len(c.pending)
    BY <2>2, SizeAssumption DEF BatchLimit, LedgerType
  <2>4. taken \in Seq(Requests) /\ rest \in Seq(Requests)
    BY <2>2, <2>3 DEF LedgerType
  <2>5. /\ state' \in [Requests -> States] /\ future' \in [Requests -> Futures]
        /\ outcomes' \in [Requests -> Seq(Terminal)] /\ pending' \in Seq(Requests)
    <3>1. "running" \in States
      BY DEF States
    <3> QED BY <2>1, <2>2, <2>4, <3>1, MarkType DEF Commit, Ledger, LedgerType
  <2>6. /\ driver' = "executing" /\ activeSince' \in Int /\ worker' = "queued"
        /\ running' \in Seq(Requests) /\ job' \in Seq(Requests)
    BY <1>0, <2>1, <2>4 DEF BeginExecute, TypeOK
  <2> QED BY <1>0, <1>6, <2>5, <2>6 DEF Dispatch, TypeOK, NoTime
<1>7. CASE Sleep \/ StopDriver
  <2>1. PICK c \in Reclaimed : Commit(c)
    BY <1>7 DEF Sleep, StopDriver
  <2>2. LedgerType(c)
    BY <1>0, ReclaimedType
  <2>3. alarm' \in Int
    <3>1. CASE Sleep
      <4>1. PICK e \in Reclaimed :
              alarm' = IF e.pending # << >> /\ Policy = "timed"
                       THEN admittedAt[Head(e.pending)] + CollectionDelay ELSE NoTime
        BY <3>1 DEF Sleep
      <4>2. e.pending \in Seq(Requests)
        BY <1>0, ReclaimedType DEF LedgerType
      <4>3. e.pending # << >> => Head(e.pending) \in Requests
        BY <4>2
      <4> QED BY <1>0, <4>1, <4>3, TimeAssumption DEF TypeOK, NoTime
    <3>2. CASE StopDriver
      BY <3>2 DEF StopDriver, NoTime
    <3> QED BY <1>7, <3>1, <3>2
  <2> QED BY <1>0, <1>7, <2>1, <2>2, <2>3, CommitType DEF Sleep, StopDriver, TypeOK
<1>8. CASE CallStarts \/ CloseStarts \/ CloseReturns
  BY <1>0, <1>8 DEF TypeOK, CallStarts, CloseStarts, CloseReturns
<1>9. CASE CallReturns
  <2>1. /\ results' \in Seq(Requests) /\ returned' \in {"none", "value", "error", "fatal"}
    <3>1. job # << >> /\ job \in Seq(Requests) /\ results \in Seq(Requests)
      BY <1>0, <1>9 DEF IInv, WorkerSound, TypeOK, CallReturns
    <3>2. /\ job \in Seq(Requests) /\ Tail(job) \in Seq(Requests)
          /\ Append(job, Head(job)) \in Seq(Requests)
      BY <3>1
    <3> QED BY <1>0, <1>9, <3>1, <3>2 DEF CallReturns, TypeOK
  <2>2. job' = << >> /\ worker' = "idle" /\ UNCHANGED <<now, requests, task, batch, flags, lifetime>>
    BY <1>9 DEF CallReturns
  <2> QED BY <1>0, <2>1, <2>2 DEF TypeOK
<1>10. CASE CollectResults \/ WatchdogFires \/ BeginShutdown \/ Drained
  <2>1. CASE CollectResults
    BY <1>0, <2>1 DEF TypeOK, CollectResults, CloseDoor
  <2>2. CASE WatchdogFires
    <3>1. UNCHANGED <<now, requests, task, batch, call, lifetime>>
      BY <2>2 DEF WatchdogFires
    <3>2. failed' \in BOOLEAN /\ accepting' \in BOOLEAN
      BY <2>2 DEF WatchdogFires, CloseDoor
    <3> QED BY <1>0, <3>1, <3>2 DEF TypeOK
  <2>4. CASE Drained
    BY <1>0, <2>4 DEF TypeOK, Drained
  <2>3. CASE BeginShutdown
    <3>1. NotifyAll /\ graceEnd' \in Int
      BY <1>0, <2>3, TimeAssumption DEF TypeOK, BeginShutdown
    <3> QED BY <1>0, <2>3, <3>1, NotifyType DEF TypeOK, BeginShutdown
  <2> QED BY <1>10, <2>1, <2>2, <2>3, <2>4
<1>11. CASE FinishOne
  <2> DEFINE r == running[cursor]
             late == now >= deadline[r]
             s == IF late THEN "expired" ELSE IF BatchError # "none" THEN "failed" ELSE "succeeded"
             f == IF late THEN "deadline" ELSE IF BatchError # "none" THEN BatchError ELSE "prediction"
  <2>1. cursor \in 1..Len(running) /\ r \in Requests
    BY <1>0, <1>11 DEF IInv, DriverSound, TypeOK, FinishOne
  <2>2. s \in Terminal /\ s \in States /\ f \in Futures
    BY DEF Terminal, States, Futures, BatchError
  <2>3. s = "succeeded" => results[cursor] \in Requests
    <3>1. SUFFICES ASSUME BatchError = "none" PROVE results[cursor] \in Requests
      BY DEF BatchError
    <3>2. Len(results) = Len(running)
      BY <1>0, <1>11, <3>1 DEF IInv, DriverSound, TypeOK, FinishOne, BatchError
    <3> QED BY <1>0, <2>1, <3>2 DEF TypeOK
  <2>4. CASE ~StillRunning(r)
    BY <1>0, <1>11, <2>4 DEF TypeOK, FinishOne
  <2>5. CASE StillRunning(r)
    <3>1. Commit(Ledger(Mark(state, {r}, s), Resolve(future, {r}, f), Log(outcomes, {r}, s), pending))
      BY <1>11, <2>5 DEF FinishOne
    <3>2. answer' = IF s = "succeeded" /\ future[r] = "open"
                    THEN [answer EXCEPT ![r] = results[cursor]] ELSE answer
      BY <1>11, <2>5 DEF FinishOne
    <3>3. answer' \in [Requests -> Requests \cup {"none"}]
      BY <1>0, <2>1, <2>3, <3>2 DEF TypeOK
    <3>4. /\ state' \in [Requests -> States] /\ future' \in [Requests -> Futures]
          /\ outcomes' \in [Requests -> Seq(Terminal)] /\ pending' \in Seq(Requests)
      BY <1>0, <2>2, <3>1, MarkType, LogType DEF Commit, Ledger, TypeOK
    <3>5. cursor' \in Nat /\ UNCHANGED <<now, caller, times, task, running, activeSince, call, flags, lifetime>>
      BY <1>0, <1>11 DEF FinishOne, TypeOK
    <3> QED BY <1>0, <3>3, <3>4, <3>5 DEF TypeOK
  <2> QED BY <2>4, <2>5
<1>12. CASE EndExecute
  <2>1. FailAll \/ UNCHANGED ledger
    BY <1>12 DEF EndExecute
  <2> QED BY <1>0, <1>12, <2>1, FailAllType DEF TypeOK, EndExecute, NoTime
<1>13. CASE GraceExpires
  BY <1>0, <1>13, FailAllType, NotifyType DEF TypeOK, GraceExpires, ActiveBatch
<1>14. CASE DriverCancelled
  <2>1. /\ driver' = "done" /\ alarm' = -1 /\ running' = << >> /\ activeSince' = -1
        /\ returned' = "none" /\ results' = << >> /\ life' \in {"stopped", "closing"}
        /\ UNCHANGED <<now, requests, cursor, answer, flags, abandoned, graceEnd>>
    BY <1>14 DEF DriverCancelled, AfterCancel, NoTime
  <2>2. /\ worker' \in {"idle", "load", "queued", "predict", "close"}
        /\ job' \in Seq(Requests)
    <3>1. CASE worker = "queued"
      BY <1>14, <3>1 DEF DriverCancelled
    <3>2. CASE worker # "queued"
      BY <1>0, <1>14, <3>2 DEF DriverCancelled, TypeOK
    <3> QED BY <3>1, <3>2
  <2> QED BY <1>0, <2>1, <2>2 DEF TypeOK
<1>15. CASE Tick
  BY <1>0, <1>15 DEF TypeOK, Tick
<1>16. CASE UNCHANGED vars
  BY <1>0, <1>16 DEF TypeOK, vars
<1> QED
  BY <1>1, <1>2, <1>3, <1>4, <1>5, <1>6, <1>7, <1>8, <1>9, <1>10, <1>11, <1>12, <1>13, <1>14,
     <1>15, <1>16 DEF Next, LoopNext, WorkerNext, Exited

-----------------------------------------------------------------------------
(* The life of one request, whatever moves it.                             *)

\* A step keeps a consistent envelope consistent.
LEMMA ConsistentStep ==
  ASSUME NEW r \in Requests, Lifecycle!Consistent(r), Lifecycle!LifecycleStep(r)
  PROVE  Lifecycle!Consistent(r)'
<1> USE DEF Lifecycle!Consistent, Lifecycle!TerminalStates
<1>1. CASE Lifecycle!Admitted(r)
  BY <1>1 DEF Lifecycle!Admitted
<1>2. CASE Lifecycle!Dispatched(r)
  BY <1>2 DEF Lifecycle!Dispatched
<1>3. CASE Lifecycle!Ended(r)
  <2>1. outcomes'[r] = <<state'[r]>>
    <3>1. outcomes[r] = << >>
      BY <1>3 DEF Lifecycle!Ended
    <3>2. outcomes'[r] = Append(<< >>, state'[r])
      BY <1>3, <3>1 DEF Lifecycle!Ended
    <3> QED BY <3>2
  <2> QED BY <1>3, <2>1 DEF Lifecycle!Ended, Lifecycle!Resolutions
<1>4. CASE Lifecycle!Unmoved(r)
  BY <1>4 DEF Lifecycle!Unmoved
<1> QED BY <1>1, <1>2, <1>3, <1>4 DEF Lifecycle!LifecycleStep

\* RequestLifecycle: a request is resolved once, as its final state says, and recorded once.
THEOREM ResolvedOnceAlways == Lifecycle!Spec => []Lifecycle!ResolvedOnce
<1>1. Lifecycle!Init => Lifecycle!ResolvedOnce
  BY DEF Lifecycle!Init, Lifecycle!ResolvedOnce, Lifecycle!Consistent, Lifecycle!TerminalStates
<1>2. Lifecycle!ResolvedOnce /\ [Lifecycle!Next]_(Lifecycle!vars) => Lifecycle!ResolvedOnce'
  <2> SUFFICES ASSUME Lifecycle!ResolvedOnce, [Lifecycle!Next]_(Lifecycle!vars), NEW r \in Requests
               PROVE  Lifecycle!Consistent(r)'
    BY DEF Lifecycle!ResolvedOnce
  <2>1. CASE Lifecycle!Next
    BY <2>1, ConsistentStep DEF Lifecycle!Next, Lifecycle!ResolvedOnce
  <2>2. CASE UNCHANGED Lifecycle!vars
    BY <2>2 DEF Lifecycle!vars, Lifecycle!ResolvedOnce, Lifecycle!Consistent
  <2> QED BY <2>1, <2>2
<1> QED BY <1>1, <1>2, PTL DEF Lifecycle!Spec

\* RequestLifecycle: what ended has ended. Neither its state nor its future changes any more.
THEOREM EndIsFinal ==
  Lifecycle!Spec => [][\A r \in Requests : state[r] \in Lifecycle!TerminalStates =>
                         state'[r] = state[r] /\ future'[r] = future[r]]_(Lifecycle!vars)
<1>1. ASSUME [Lifecycle!Next]_(Lifecycle!vars)
      PROVE  [\A r \in Requests : state[r] \in Lifecycle!TerminalStates =>
                state'[r] = state[r] /\ future'[r] = future[r]]_(Lifecycle!vars)
  BY <1>1 DEF Lifecycle!Next, Lifecycle!LifecycleStep, Lifecycle!Admitted, Lifecycle!Dispatched,
              Lifecycle!Ended, Lifecycle!Unmoved, Lifecycle!TerminalStates
<1> QED BY <1>1, PTL DEF Lifecycle!Spec

-----------------------------------------------------------------------------
(* What a step does to the envelopes.                                      *)

\* Reclaiming ends the overdue members of the queue and leaves the others.
LEMMA ReclaimEffect ==
  ASSUME NEW st, NEW fut, NEW log, NEW c \in ReclaimDeadPending(st, fut, log),
         NEW r \in Requests
  PROVE  /\ r \notin Overdue(st) =>
              c.state[r] = st[r] /\ c.future[r] = fut[r] /\ c.outcomes[r] = log[r]
         /\ r \in Overdue(st) =>
              /\ c.state[r] = "expired" /\ c.outcomes[r] = Append(log[r], "expired")
              /\ c.future[r] = IF fut[r] = "open" THEN "deadline" ELSE fut[r]
<1> DEFINE kept == Mark(st, Overdue(st), "expired")
<1>1. PICK q \in Retained(pending, {p \in Requests : kept[p] = "pending"}) :
        c = Ledger(kept, Resolve(fut, Overdue(st), "deadline"),
                   Log(log, Overdue(st), "expired"), q)
  BY DEF ReclaimDeadPending
<1>2. /\ c.state = kept /\ c.future = Resolve(fut, Overdue(st), "deadline")
      /\ c.outcomes = Log(log, Overdue(st), "expired")
  BY <1>1 DEF Ledger
<1> QED BY <1>2 DEF Mark, Resolve, Log

\* The queue keeps its pending members, each once and in their order, and no
\* other.
LEMMA ReclaimQueue ==
  ASSUME IInv, NEW st, NEW fut, NEW log, NEW c \in ReclaimDeadPending(st, fut, log),
         \A r \in Requests : st[r] = "pending" => state[r] = "pending"
  PROVE  /\ c.pending \in Seq(Requests) /\ Distinct(c.pending)
         /\ Elements(c.pending) = {r \in Requests : c.state[r] = "pending"}
         /\ Len(c.pending) <= Len(pending)
         /\ \A a, b : Before(c.pending, a, b) => Before(pending, a, b)
<1> DEFINE kept == Mark(st, Overdue(st), "expired")
           live == {r \in Requests : kept[r] = "pending"}
<1>1. PICK q \in Retained(pending, live) :
        c = Ledger(kept, Resolve(fut, Overdue(st), "deadline"),
                   Log(log, Overdue(st), "expired"), q)
  BY DEF ReclaimDeadPending
<1>2. c.state = kept /\ c.pending = q
  BY <1>1 DEF Ledger
<1>3. pending \in Seq(Requests) /\ Distinct(pending)
      /\ Elements(pending) = {r \in Requests : state[r] = "pending"}
  BY DEF IInv, TypeOK, QueueAgreement
<1>4. /\ q \in Seq(Requests) /\ Len(q) \in 0..Len(pending)
      /\ Elements(q) = Elements(pending) \cap live /\ Distinct(q)
      /\ \A a, b : Before(q, a, b) => Before(pending, a, b)
  BY <1>3, RetainedProperties
<1>5. live \subseteq Elements(pending)
  BY <1>3 DEF Mark
<1>6. Len(q) <= Len(pending)
  BY <1>3, <1>4
<1> QED BY <1>2, <1>4, <1>5, <1>6

\* A request is left alone, or ends other than by success, and not too early.
Quiet(r) ==
  \/ Lifecycle!Unmoved(r)
  \/ /\ Lifecycle!Ended(r) /\ state'[r] # "succeeded"
     /\ state'[r] = "expired" => now >= deadline[r]

\* A live request's future is open.
LEMMA LiveHasOpenFuture ==
  ASSUME IInv, NEW r \in Requests, state[r] \in {"pending", "running"}
  PROVE  future[r] = "open"
BY DEF IInv, OutcomeRecordedOnce, Lifecycle!ResolvedOnce, Lifecycle!Consistent

\* Reclaiming, as the loop's turns use it, is quiet.
LEMMA ReclaimedQuiet ==
  ASSUME IInv, NEW c \in Reclaimed, Commit(c), NEW r \in Requests
  PROVE  Quiet(r)
<1>1. c \in ReclaimDeadPending(state, future, outcomes)
  BY DEF Reclaimed
<1>2. CASE r \notin Overdue(state)
  <2>1. c.state[r] = state[r] /\ c.future[r] = future[r] /\ c.outcomes[r] = outcomes[r]
    BY <1>1, <1>2, ReclaimEffect
  <2> QED BY <2>1 DEF Commit, Quiet, Lifecycle!Unmoved
<1>3. CASE r \in Overdue(state)
  <2>1. state[r] = "pending" /\ now >= deadline[r] /\ future[r] = "open"
    BY <1>3, LiveHasOpenFuture DEF Overdue
  <2>2. /\ c.state[r] = "expired" /\ c.outcomes[r] = Append(outcomes[r], "expired")
        /\ c.future[r] = "deadline"
    BY <1>1, <1>3, <2>1, ReclaimEffect
  <2>3. /\ state'[r] = "expired" /\ outcomes'[r] = Append(outcomes[r], state'[r])
        /\ future'[r] = "deadline"
    BY <2>2 DEF Commit
  <2> QED BY <2>1, <2>3 DEF Quiet, Lifecycle!Ended, Lifecycle!TerminalStates, Lifecycle!Resolutions
<1> QED BY <1>2, <1>3

\* So is a caller that leaves, and it takes its own envelope with it.
LEMMA LeaveQuiet ==
  ASSUME IInv, NEW q \in Requests, NEW s \in {"expired", "cancelled"}, NEW reply,
         Leave(q, s, reply), s = "expired" => now >= deadline[q], state[q] # "none",
         NEW r \in Requests
  PROVE  Quiet(r) /\ state'[q] \in Terminal
<1>1. CASE state[q] \in Terminal
  BY <1>1 DEF Leave, ledger, Quiet, Lifecycle!Unmoved
<1>2. CASE state[q] \notin Terminal
  <2> DEFINE st == Mark(state, {q}, s)
             fut == Resolve(future, {q}, "cancelled")
             log == Log(outcomes, {q}, s)
  <2>1. PICK c \in ReclaimDeadPending(st, fut, log) : Commit(c)
    BY <1>2 DEF Leave
  <2>2. q \notin Overdue(st) /\ st[q] = s /\ log[q] = Append(outcomes[q], s)
    BY DEF Overdue, Mark, Log
  <2>3. state[q] \in {"pending", "running"} /\ future[q] = "open"
    BY <1>2, LiveHasOpenFuture DEF IInv, TypeOK, States
  <2>4. fut[q] = "cancelled"
    BY <2>3 DEF Resolve, Mark
  <2>5. c.state[q] = st[q] /\ c.future[q] = fut[q] /\ c.outcomes[q] = log[q]
    BY <2>2, ReclaimEffect
  <2>6. /\ state'[q] = s /\ future'[q] = "cancelled"
        /\ outcomes'[q] = Append(outcomes[q], state'[q])
    BY <2>1, <2>2, <2>4, <2>5 DEF Commit
  <2>7. CASE r = q
    <3>1. Lifecycle!Ended(q) /\ state'[q] # "succeeded"
      BY <2>3, <2>6 DEF Lifecycle!Ended, Lifecycle!TerminalStates, Lifecycle!Resolutions
    <3> QED BY <2>6, <2>7, <3>1 DEF Quiet, Terminal
  <2>8. CASE r # q
    <3>1. st[r] = state[r] /\ fut[r] = future[r] /\ log[r] = outcomes[r]
      BY <2>8 DEF Mark, Resolve, Log
    <3>2. ASSUME r \notin Overdue(st) PROVE Quiet(r)
      <4>1. c.state[r] = state[r] /\ c.future[r] = future[r] /\ c.outcomes[r] = outcomes[r]
        BY <3>1, <3>2, ReclaimEffect
      <4> QED BY <2>1, <4>1 DEF Commit, Quiet, Lifecycle!Unmoved
    <3>3. ASSUME r \in Overdue(st) PROVE Quiet(r)
      <4>1. state[r] = "pending" /\ now >= deadline[r] /\ future[r] = "open"
        BY <3>1, <3>3, LiveHasOpenFuture DEF Overdue
      <4>2. /\ c.state[r] = "expired" /\ c.outcomes[r] = Append(outcomes[r], "expired")
            /\ c.future[r] = "deadline"
        BY <3>1, <3>3, <4>1, ReclaimEffect
      <4>3. /\ state'[r] = "expired" /\ outcomes'[r] = Append(outcomes[r], state'[r])
            /\ future'[r] = "deadline"
        BY <2>1, <4>2 DEF Commit
      <4> QED BY <4>1, <4>3
              DEF Quiet, Lifecycle!Ended, Lifecycle!TerminalStates, Lifecycle!Resolutions
    <3>4. Quiet(r)
      BY <3>2, <3>3
    <3> QED BY <2>6, <3>4 DEF Terminal
  <2> QED BY <2>7, <2>8
<1> QED BY <1>1, <1>2

\* After _fail_all() no request is live.
LEMMA FailAllQuiet ==
  ASSUME IInv, FailAll, NEW r \in Requests
  PROVE  Quiet(r) /\ state'[r] \notin {"pending", "running"}
<1>1. /\ state' = Mark(state, LiveEnvelopes, "failed")
      /\ future' = Resolve(future, LiveEnvelopes, "unavailable")
      /\ outcomes' = Log(outcomes, LiveEnvelopes, "failed")
  BY DEF FailAll, Commit, Ledger
<1>2. state[r] \in {"pending", "running"} => r \in LiveEnvelopes
  BY DEF IInv, QueueAgreement, LiveEnvelopes, Terminal
<1>3. CASE r \in LiveEnvelopes
  <2>1. state[r] \in {"pending", "running"}
    <3>1. r \in Elements(pending) \cup Elements(running) /\ state[r] \notin Terminal
      BY <1>3 DEF LiveEnvelopes
    <3>2. r \in Elements(running) => state[r] # "none"
      BY DEF IInv, BatchSound, Elements
    <3> QED BY <3>1, <3>2 DEF IInv, QueueAgreement, TypeOK, States
  <2>2. future[r] = "open"
    BY <2>1, LiveHasOpenFuture
  <2>3. state'[r] = "failed" /\ future'[r] = "unavailable" /\ outcomes'[r] = Append(outcomes[r], state'[r])
    BY <1>1, <1>3, <2>2 DEF Mark, Resolve, Log
  <2> QED BY <2>1, <2>3 DEF Quiet, Lifecycle!Ended, Lifecycle!TerminalStates, Lifecycle!Resolutions
<1>4. CASE r \notin LiveEnvelopes
  BY <1>1, <1>2, <1>4 DEF Mark, Resolve, Log, Quiet, Lifecycle!Unmoved
<1> QED BY <1>3, <1>4

\* A queue without repetitions splits into two that share nothing.
LEMMA SplitQueue ==
  ASSUME NEW S, NEW q \in Seq(S), NEW n \in 0..Len(q), Distinct(q)
  PROVE  LET a == SubSeq(q, 1, n)
             b == SubSeq(q, n + 1, Len(q))
         IN /\ a \in Seq(S) /\ b \in Seq(S) /\ Len(a) = n
            /\ Distinct(a) /\ Distinct(b)
            /\ Elements(a) \cap Elements(b) = {}
            /\ Elements(a) \cup Elements(b) = Elements(q)
<1> DEFINE a == SubSeq(q, 1, n)
           b == SubSeq(q, n + 1, Len(q))
<1>1. /\ a \in Seq(S) /\ Len(a) = n /\ DOMAIN a = 1..n /\ \A i \in 1..n : a[i] = q[i]
  OBVIOUS
<1>2. /\ b \in Seq(S) /\ DOMAIN b = 1..(Len(q) - n)
      /\ \A i \in 1..(Len(q) - n) : b[i] = q[n + i]
  OBVIOUS
<1>3. DOMAIN q = 1..Len(q) /\ Len(q) \in Nat /\ n \in Nat /\ n <= Len(q)
  OBVIOUS
<1> HIDE DEF a, b
<1>4. Distinct(a) /\ Distinct(b)
  <2>1. ASSUME NEW i \in 1..n, NEW j \in 1..n, a[i] = a[j] PROVE i = j
    <3>1. i \in DOMAIN q /\ j \in DOMAIN q /\ q[i] = q[j]
      BY <1>1, <1>3, <2>1
    <3> QED BY <3>1 DEF Distinct
  <2>2. ASSUME NEW i \in 1..(Len(q) - n), NEW j \in 1..(Len(q) - n), b[i] = b[j] PROVE i = j
    <3>1. n + i \in DOMAIN q /\ n + j \in DOMAIN q /\ q[n + i] = q[n + j]
      BY <1>2, <1>3, <2>2
    <3>2. n + i = n + j
      BY <3>1 DEF Distinct
    <3> QED BY <1>3, <3>2
  <2> QED BY <1>1, <1>2, <2>1, <2>2 DEF Distinct
<1>5. Elements(a) \cap Elements(b) = {}
  <2>1. SUFFICES ASSUME NEW i \in 1..n, NEW j \in 1..(Len(q) - n), a[i] = b[j] PROVE FALSE
    BY <1>1, <1>2 DEF Elements
  <2>2. i \in DOMAIN q /\ n + j \in DOMAIN q /\ q[i] = q[n + j]
    BY <1>1, <1>2, <1>3, <2>1
  <2>3. i = n + j
    BY <2>2 DEF Distinct
  <2> QED BY <1>3, <2>3
<1>6. Elements(a) \cup Elements(b) = Elements(q)
  <2>1. ASSUME NEW x \in Elements(q) PROVE x \in Elements(a) \cup Elements(b)
    <3>1. PICK k \in 1..Len(q) : q[k] = x
      BY <1>3 DEF Elements
    <3>2. CASE k <= n
      <4>1. k \in DOMAIN a /\ a[k] = x
        BY <1>1, <1>3, <3>1, <3>2
      <4> QED BY <4>1 DEF Elements
    <3>3. CASE k > n
      <4>1. k - n \in DOMAIN b /\ b[k - n] = x
        BY <1>2, <1>3, <3>1, <3>3
      <4> QED BY <4>1 DEF Elements
    <3> QED BY <1>3, <3>2, <3>3
  <2>2. ASSUME NEW x \in Elements(a) \cup Elements(b) PROVE x \in Elements(q)
    <3>1. ASSUME NEW i \in 1..n, a[i] = x PROVE x \in Elements(q)
      BY <1>1, <1>3, <3>1 DEF Elements
    <3>2. ASSUME NEW j \in 1..(Len(q) - n), b[j] = x PROVE x \in Elements(q)
      <4>1. n + j \in DOMAIN q /\ q[n + j] = x
        BY <1>2, <1>3, <3>2
      <4> QED BY <4>1 DEF Elements
    <3> QED BY <1>1, <1>2, <3>1, <3>2 DEF Elements
  <2> QED BY <2>1, <2>2
<1> QED BY <1>1, <1>2, <1>4, <1>5, <1>6 DEF a, b

\* While the driver is not executing, no request is running.
LEMMA NothingRuns ==
  ASSUME IInv, ~ActiveBatch, NEW r \in Requests
  PROVE  running = << >> /\ state[r] # "running"
<1>1. running = << >>
  BY DEF IInv, QueueAgreement
<1> QED BY <1>1 DEF IInv, QueueAgreement, Elements

\* A dispatch takes the oldest members of the reclaimed queue, at least one,
\* and they are exactly what runs afterwards.
LEMMA DispatchEffect ==
  ASSUME IInv, Dispatch
  PROVE  /\ \A r \in Requests : Quiet(r) \/ Lifecycle!Dispatched(r)
         /\ Distinct(pending') /\ Elements(pending') = {r \in Requests : state'[r] = "pending"}
         /\ Distinct(running') /\ running' # << >>
         /\ Elements(running') = {r \in Requests : state'[r] = "running"}
<1> DEFINE n(c) == IF Len(c.pending) < BatchLimit THEN Len(c.pending) ELSE BatchLimit
           taken(c) == SubSeq(c.pending, 1, n(c))
           rest(c) == SubSeq(c.pending, n(c) + 1, Len(c.pending))
<1>1. PICK c \in Reclaimed :
        /\ ShouldDispatch(c.pending)
        /\ Commit(Ledger(Mark(c.state, Elements(taken(c)), "running"), c.future, c.outcomes,
                         rest(c)))
        /\ BeginExecute(taken(c))
  BY DEF Dispatch
<1>2. c \in ReclaimDeadPending(state, future, outcomes)
  BY DEF Reclaimed
<1>3. /\ c.pending \in Seq(Requests) /\ Distinct(c.pending)
      /\ Elements(c.pending) = {r \in Requests : c.state[r] = "pending"}
  BY <1>2, ReclaimQueue
<1>4. n(c) \in 0..Len(c.pending) /\ n(c) >= 1
  <2>1. c.pending # << >> /\ Len(c.pending) \in Nat /\ Len(c.pending) # 0
    BY <1>1, <1>3 DEF ShouldDispatch
  <2>2. BatchLimit \in Nat /\ BatchLimit >= 1
    BY SizeAssumption DEF BatchLimit
  <2> QED BY <2>1, <2>2
<1> HIDE DEF n
<1>5. /\ taken(c) \in Seq(Requests) /\ Len(taken(c)) = n(c) /\ rest(c) \in Seq(Requests)
      /\ Distinct(taken(c)) /\ Distinct(rest(c))
      /\ Elements(taken(c)) \cap Elements(rest(c)) = {}
      /\ Elements(taken(c)) \cup Elements(rest(c)) = Elements(c.pending)
  BY <1>3, <1>4, SplitQueue
<1>6. /\ state' = Mark(c.state, Elements(taken(c)), "running") /\ future' = c.future
      /\ outcomes' = c.outcomes /\ pending' = rest(c) /\ running' = taken(c)
  BY <1>1 DEF Commit, Ledger, BeginExecute
<1>7. ASSUME NEW r \in Requests
      PROVE  /\ Quiet(r) \/ Lifecycle!Dispatched(r)
             /\ state'[r] = IF r \in Elements(taken(c)) THEN "running" ELSE c.state[r]
             /\ c.state[r] # "running"
  <2>1. state[r] # "running"
    BY NothingRuns DEF Dispatch, DriverTurn, ActiveBatch
  <2>2. state'[r] = IF r \in Elements(taken(c)) THEN "running" ELSE c.state[r]
    BY <1>6 DEF Mark
  <2>3. CASE r \notin Overdue(state)
    <3>1. c.state[r] = state[r] /\ c.future[r] = future[r] /\ c.outcomes[r] = outcomes[r]
      BY <1>2, <2>3, ReclaimEffect
    <3>2. r \in Elements(taken(c)) => state[r] = "pending"
      BY <1>3, <1>5, <3>1
    <3> QED BY <1>6, <2>1, <2>2, <3>1, <3>2 DEF Quiet, Lifecycle!Unmoved, Lifecycle!Dispatched
  <2>4. CASE r \in Overdue(state)
    <3>1. state[r] = "pending" /\ now >= deadline[r] /\ future[r] = "open"
      BY <2>4, LiveHasOpenFuture DEF Overdue
    <3>2. /\ c.state[r] = "expired" /\ c.outcomes[r] = Append(outcomes[r], "expired")
          /\ c.future[r] = "deadline"
      BY <1>2, <2>4, <3>1, ReclaimEffect
    <3>3. r \notin Elements(taken(c))
      BY <1>3, <1>5, <3>2
    <3>4. /\ state'[r] = "expired" /\ outcomes'[r] = Append(outcomes[r], state'[r])
          /\ future'[r] = "deadline"
      BY <1>6, <2>2, <3>2, <3>3
    <3>5. Quiet(r)
      BY <3>1, <3>4
         DEF Quiet, Lifecycle!Ended, Lifecycle!TerminalStates, Lifecycle!Resolutions
    <3> QED BY <2>2, <3>2, <3>5
  <2> QED BY <2>3, <2>4
<1>8. Elements(pending') = {r \in Requests : state'[r] = "pending"}
  BY <1>3, <1>5, <1>6, <1>7
<1>9. Elements(running') = {r \in Requests : state'[r] = "running"}
  <2>1. Elements(taken(c)) \subseteq Requests
    BY <1>3, <1>5
  <2> QED BY <1>6, <1>7, <2>1
<1>10. running' # << >>
  BY <1>4, <1>5, <1>6
<1> QED BY <1>5, <1>6, <1>7, <1>8, <1>9, <1>10

\* An admission adds the caller's envelope at the end of the reclaimed queue.
LEMMA AdmitEffect ==
  ASSUME IInv, NEW q \in Requests, NEW age, NEW c \in Reclaimed, Admit(q, age, c),
         caller[q] = "idle"
  PROVE  /\ \A r \in Requests \ {q} : Quiet(r)
         /\ Lifecycle!Admitted(q)
         /\ Distinct(pending') /\ Elements(pending') = {r \in Requests : state'[r] = "pending"}
<1>1. c \in ReclaimDeadPending(state, future, outcomes)
  BY DEF Reclaimed
<1>2. /\ c.pending \in Seq(Requests) /\ Distinct(c.pending)
      /\ Elements(c.pending) = {r \in Requests : c.state[r] = "pending"}
  BY <1>1, ReclaimQueue
<1>3. /\ state' = Mark(c.state, {q}, "pending") /\ future' = Mark(c.future, {q}, "open")
      /\ outcomes' = c.outcomes /\ pending' = Append(c.pending, q)
  BY DEF Admit, Commit, Ledger, Put
<1>4. state[q] = "none" /\ q \notin Overdue(state)
  BY DEF IInv, CallersSound, Overdue
<1>5. c.state[q] = "none" /\ c.outcomes[q] = outcomes[q]
  BY <1>1, <1>4, ReclaimEffect
<1>6. Lifecycle!Admitted(q)
  BY <1>3, <1>4, <1>5 DEF Mark, Lifecycle!Admitted
<1>7. ASSUME NEW r \in Requests \ {q} PROVE Quiet(r)
  <2>1. state'[r] = c.state[r] /\ future'[r] = c.future[r] /\ outcomes'[r] = c.outcomes[r]
    BY <1>3 DEF Mark
  <2>2. ASSUME r \notin Overdue(state) PROVE Quiet(r)
    <3>1. c.state[r] = state[r] /\ c.future[r] = future[r] /\ c.outcomes[r] = outcomes[r]
      BY <1>1, <2>2, ReclaimEffect
    <3> QED BY <2>1, <3>1 DEF Quiet, Lifecycle!Unmoved
  <2>3. ASSUME r \in Overdue(state) PROVE Quiet(r)
    <3>1. state[r] = "pending" /\ now >= deadline[r] /\ future[r] = "open"
      BY <2>3, LiveHasOpenFuture DEF Overdue
    <3>2. /\ c.state[r] = "expired" /\ c.outcomes[r] = Append(outcomes[r], "expired")
          /\ c.future[r] = "deadline"
      BY <1>1, <2>3, <3>1, ReclaimEffect
    <3> QED BY <2>1, <3>1, <3>2
            DEF Quiet, Lifecycle!Ended, Lifecycle!TerminalStates, Lifecycle!Resolutions
  <2> QED BY <2>2, <2>3
<1>8. /\ DOMAIN c.pending = 1..Len(c.pending) /\ DOMAIN pending' = 1..(Len(c.pending) + 1)
      /\ Len(c.pending) \in Nat /\ pending'[Len(c.pending) + 1] = q
      /\ \A k \in 1..Len(c.pending) : pending'[k] = c.pending[k]
  BY <1>2, <1>3
<1>9. Elements(pending') = Elements(c.pending) \cup {q}
  BY <1>8 DEF Elements
<1>10. Elements(pending') = {r \in Requests : state'[r] = "pending"}
  BY <1>2, <1>3, <1>9 DEF Mark
<1>11. Distinct(pending')
  <2>1. q \notin Elements(c.pending)
    BY <1>2, <1>5
  <2> QED BY <1>2, <1>8, <2>1 DEF Distinct, Elements
<1> QED BY <1>6, <1>7, <1>10, <1>11

\* Finishing a member of the batch ends it, if it still runs, and nothing else;
\* only its own prediction can be put into its future.
LEMMA FinishEffect ==
  ASSUME IInv, FinishOne
  PROVE  \E q \in Requests :
           /\ q = running[cursor] /\ state'[q] # "running" /\ pending' = pending
           /\ \A r \in Requests \ {q} : Lifecycle!Unmoved(r) /\ answer'[r] = answer[r]
           /\ \/ Lifecycle!Unmoved(q) /\ answer'[q] = answer[q]
              \/ /\ Lifecycle!Ended(q) /\ state[q] = "running"
                 /\ state'[q] = "expired" => now >= deadline[q]
                 /\ answer'[q] \in {answer[q], q}
                 /\ state'[q] = "succeeded" => answer'[q] = q
<1> DEFINE r == running[cursor]
           late == now >= deadline[r]
           s == IF late THEN "expired" ELSE IF BatchError # "none" THEN "failed" ELSE "succeeded"
           f == IF late THEN "deadline" ELSE IF BatchError # "none" THEN BatchError ELSE "prediction"
<1>1. cursor \in 1..Len(running) /\ r \in Requests /\ answer \in [Requests -> Requests \cup {"none"}]
  BY DEF IInv, DriverSound, TypeOK, FinishOne
<1>2. CASE ~StillRunning(r)
  <2>1. UNCHANGED <<ledger, answer>>
    BY <1>2 DEF FinishOne
  <2> QED BY <1>1, <1>2, <2>1 DEF ledger, StillRunning, Lifecycle!Unmoved
<1>3. CASE StillRunning(r)
  <2>1. state[r] = "running" /\ future[r] = "open"
    BY <1>1, <1>3, LiveHasOpenFuture DEF StillRunning
  <2>2. /\ state' = Mark(state, {r}, s) /\ future' = Resolve(future, {r}, f)
        /\ outcomes' = Log(outcomes, {r}, s) /\ pending' = pending
        /\ answer' = IF s = "succeeded" THEN [answer EXCEPT ![r] = results[cursor]] ELSE answer
    BY <1>3, <2>1 DEF FinishOne, Commit, Ledger
  <2>3. s = "succeeded" => results[cursor] = r
    <3>1. SUFFICES ASSUME BatchError = "none" PROVE results[cursor] = r
      BY DEF BatchError
    <3>2. returned = "value" /\ Len(results) = Len(running)
      BY <3>1 DEF IInv, DriverSound, TypeOK, FinishOne, BatchError
    <3> QED BY <3>2 DEF IInv, DriverSound
  <2>4. \A p \in Requests \ {r} : Lifecycle!Unmoved(p) /\ answer'[p] = answer[p]
    BY <1>1, <2>2 DEF Mark, Resolve, Log, Lifecycle!Unmoved
  <2>5. state'[r] = s /\ future'[r] = f /\ outcomes'[r] = Append(outcomes[r], state'[r])
    BY <1>1, <2>1, <2>2 DEF Mark, Resolve, Log
  <2>6. f \in Lifecycle!Resolutions(s) /\ s \in Lifecycle!TerminalStates
    BY DEF Lifecycle!Resolutions, Lifecycle!TerminalStates, BatchError
  <2>7. Lifecycle!Ended(r)
    BY <2>1, <2>5, <2>6 DEF Lifecycle!Ended
  <2>8. /\ answer'[r] \in {answer[r], r}
        /\ s = "succeeded" => answer'[r] = r
        /\ s = "expired" => now >= deadline[r]
        /\ s # "running"
    BY <1>1, <2>2, <2>3
  <2> HIDE DEF s, f
  <2> QED BY <1>1, <2>1, <2>2, <2>4, <2>5, <2>6, <2>7, <2>8 DEF Lifecycle!TerminalStates
<1> QED BY <1>2, <1>3

-----------------------------------------------------------------------------
(* What a step does, as far as the requests can tell.                      *)

\* A turn that is quiet for every request, and leaves the queue in order.
QuietTurn ==
  /\ \A r \in Requests : Quiet(r)
  /\ Distinct(pending') /\ Elements(pending') = {r \in Requests : state'[r] = "pending"}
  /\ Len(pending') <= Len(pending)
  /\ \A a, b : Before(pending', a, b) => Before(pending, a, b)

\* Leaving the envelopes alone is quiet.
LEMMA UnchangedTurn ==
  ASSUME IInv, UNCHANGED ledger
  PROVE  QuietTurn
<1>1. Len(pending) \in Nat
  BY DEF IInv, TypeOK
<1> QED BY <1>1 DEF IInv, QueueAgreement, ledger, QuietTurn, Quiet, Lifecycle!Unmoved

\* So is reclaiming the dead members of the queue,
LEMMA ReclaimedTurn ==
  ASSUME IInv, NEW c \in Reclaimed, Commit(c)
  PROVE  QuietTurn
<1>1. \A r \in Requests : Quiet(r)
  BY ReclaimedQuiet
<1>2. /\ Distinct(c.pending) /\ Elements(c.pending) = {r \in Requests : c.state[r] = "pending"}
      /\ Len(c.pending) <= Len(pending)
      /\ \A a, b : Before(c.pending, a, b) => Before(pending, a, b)
  BY ReclaimQueue DEF Reclaimed
<1> QED BY <1>1, <1>2 DEF QuietTurn, Commit

\* a caller that leaves,
LEMMA LeaveTurn ==
  ASSUME IInv, NEW q \in Requests, NEW s \in {"expired", "cancelled"}, NEW reply,
         Leave(q, s, reply), s = "expired" => now >= deadline[q], state[q] # "none"
  PROVE  QuietTurn /\ state'[q] \in Terminal
<1>1. \A r \in Requests : Quiet(r) /\ state'[q] \in Terminal
  BY LeaveQuiet
<1>2. CASE state[q] \in Terminal
  BY <1>1, <1>2, UnchangedTurn DEF Leave
<1>3. CASE state[q] \notin Terminal
  <2> DEFINE st == Mark(state, {q}, s)
             fut == Resolve(future, {q}, "cancelled")
             log == Log(outcomes, {q}, s)
  <2>1. PICK c \in ReclaimDeadPending(st, fut, log) : Commit(c)
    BY <1>3 DEF Leave
  <2>2. \A r \in Requests : st[r] = "pending" => state[r] = "pending"
    BY DEF Mark
  <2> HIDE DEF st, fut, log
  <2>3. /\ Distinct(c.pending)
        /\ Elements(c.pending) = {r \in Requests : c.state[r] = "pending"}
        /\ Len(c.pending) <= Len(pending)
        /\ \A a, b : Before(c.pending, a, b) => Before(pending, a, b)
    BY <2>2, ReclaimQueue
  <2> QED BY <1>1, <2>1, <2>3 DEF QuietTurn, Commit
<1> QED BY <1>2, <1>3

\* and failing everything that is live.
LEMMA FailAllTurn ==
  ASSUME IInv, FailAll
  PROVE  QuietTurn /\ \A r \in Requests : state'[r] \notin {"pending", "running"}
<1>1. \A r \in Requests : Quiet(r) /\ state'[r] \notin {"pending", "running"}
  BY FailAllQuiet
<1>2. pending' = << >>
  BY DEF FailAll, Commit, Ledger
<1>3. /\ Distinct(pending') /\ Elements(pending') = {}
      /\ \A a, b : ~Before(pending', a, b)
  BY <1>2 DEF Distinct, Elements, Before
<1>4. Len(pending) \in Nat /\ Len(pending') = 0
  BY <1>2 DEF IInv, TypeOK
<1> QED BY <1>1, <1>3, <1>4 DEF QuietTurn

\* What a caller does with its request while it waits is quiet: it either goes
\* with a terminated request, or nothing happens to any request.
LEMMA CallerTurn ==
  ASSUME IInv, NEW q \in Requests, BeginWait(q) \/ Timeout(q) \/ Cancel(q)
  PROVE  /\ QuietTurn
         /\ \/ /\ caller' = [caller EXCEPT ![q] = "deadline"]
               /\ state'[q] \in Terminal /\ now >= deadline[q]
            \/ caller' = [caller EXCEPT ![q] = "cancelled"] /\ state'[q] \in Terminal
            \/ caller' = [caller EXCEPT ![q] = "waiting"] /\ state'[q] # "none"
<1>1. state[q] # "none"
  BY DEF IInv, CallersSound, ReplyMatchesOutcome, BeginWait, Timeout, Cancel
<1>2. \/ now >= deadline[q] /\ Leave(q, "expired", "deadline")
      \/ Leave(q, "cancelled", "cancelled")
      \/ caller' = [caller EXCEPT ![q] = "waiting"] /\ UNCHANGED ledger
  BY DEF BeginWait, Timeout, Cancel, DeadlineTimer
<1>3. CASE now >= deadline[q] /\ Leave(q, "expired", "deadline")
  <2>1. QuietTurn /\ state'[q] \in Terminal
    BY <1>1, <1>3, LeaveTurn
  <2> QED BY <1>3, <2>1 DEF Leave
<1>4. CASE Leave(q, "cancelled", "cancelled")
  <2>1. QuietTurn /\ state'[q] \in Terminal
    BY <1>1, <1>4, LeaveTurn
  <2> QED BY <1>4, <2>1 DEF Leave
<1>5. CASE caller' = [caller EXCEPT ![q] = "waiting"] /\ UNCHANGED ledger
  BY <1>1, <1>5, UnchangedTurn DEF ledger
<1> QED BY <1>2, <1>3, <1>4, <1>5

\* A submission is refused in a quiet turn, or admitted.
LEMMA SubmitTurn ==
  ASSUME IInv, NEW q \in Requests, NEW age \in Ages, Submit(q, age)
  PROVE  \/ /\ QuietTurn /\ UNCHANGED <<times, task>>
            /\ \E reply \in {"deadline", "unavailable", "queue_full"} :
                 caller' = [caller EXCEPT ![q] = reply]
         \/ Ready /\ \E c \in Reclaimed : Admit(q, age, c)
<1>1. PICK c \in Reclaimed :
        \/ \E reply \in {"deadline", "unavailable", "queue_full"} : Reject(q, reply, c)
        \/ Ready /\ Admit(q, age, c)
  BY DEF Submit
<1>2. ASSUME NEW reply \in {"deadline", "unavailable", "queue_full"}, Reject(q, reply, c)
      PROVE  QuietTurn /\ UNCHANGED <<times, task>> /\ caller' = [caller EXCEPT ![q] = reply]
  BY <1>2, ReclaimedTurn DEF Reject
<1> QED BY <1>1, <1>2

\* Every step is quiet, except an admission, a dispatch and the completion of a
\* member of the batch.
LEMMA Turns ==
  ASSUME IInv, [Next]_vars
  PROVE  \/ QuietTurn \/ Dispatch \/ FinishOne
         \/ \E q \in Requests, age \in Ages, c \in Reclaimed : Submit(q, age) /\ Admit(q, age, c)
<1> USE DEF requests
<1>1. CASE Start \/ Loaded \/ WatchdogFires \/ CollectResults
  BY <1>1, UnchangedTurn DEF Start, Loaded, WatchdogFires, CollectResults
<1>2. CASE BeginShutdown \/ Drained \/ DriverCancelled \/ CloseReturns
  BY <1>2, UnchangedTurn DEF BeginShutdown, Drained, DriverCancelled, CloseReturns
<1>3. CASE CallStarts \/ CallReturns \/ CloseStarts \/ Tick \/ UNCHANGED vars
  BY <1>3, UnchangedTurn DEF CallStarts, CallReturns, CloseStarts, Tick, vars
<1>4. ASSUME NEW r \in Requests, Receive(r) PROVE QuietTurn
  BY <1>4, UnchangedTurn DEF Receive
<1>5. ASSUME NEW r \in Requests, BeginWait(r) \/ Timeout(r) \/ Cancel(r) PROVE QuietTurn
  BY <1>5, CallerTurn
<1>6. CASE Sleep \/ StopDriver
  BY <1>6, ReclaimedTurn DEF Sleep, StopDriver
<1>7. CASE EndExecute \/ GraceExpires
  BY <1>7, FailAllTurn, UnchangedTurn DEF EndExecute, GraceExpires
<1>8. ASSUME NEW q \in Requests, NEW age \in Ages, Submit(q, age)
      PROVE  QuietTurn \/ \E c \in Reclaimed : Submit(q, age) /\ Admit(q, age, c)
  BY <1>8, SubmitTurn
<1> QED BY <1>1, <1>2, <1>3, <1>4, <1>5, <1>6, <1>7, <1>8
        DEF Next, LoopNext, WorkerNext, Exited

-----------------------------------------------------------------------------
(* The scheduler implements RequestLifecycle.                              *)

\* A step of the scheduler is a step of the lifecycle of every request.
LEMMA LifecycleStep ==
  ASSUME IInv, [Next]_vars, NEW r \in Requests
  PROVE  Lifecycle!LifecycleStep(r)
<1>1. CASE QuietTurn
  BY <1>1 DEF QuietTurn, Quiet, Lifecycle!LifecycleStep
<1>2. CASE Dispatch
  BY <1>2, DispatchEffect DEF Quiet, Lifecycle!LifecycleStep
<1>3. CASE FinishOne
  BY <1>3, FinishEffect DEF Lifecycle!LifecycleStep
<1>4. ASSUME NEW q \in Requests, NEW age \in Ages, NEW c \in Reclaimed,
             Submit(q, age), Admit(q, age, c)
      PROVE  Lifecycle!LifecycleStep(r)
  <2>1. caller[q] = "idle"
    BY <1>4 DEF Submit
  <2>2. (r # q => Quiet(r)) /\ Lifecycle!Admitted(q)
    BY <1>4, <2>1, AdmitEffect
  <2> QED BY <2>2 DEF Quiet, Lifecycle!LifecycleStep
<1> QED BY <1>1, <1>2, <1>3, <1>4, Turns

-----------------------------------------------------------------------------
(* Callers, answers and deadlines.                                         *)

\* What the inductive invariant says of one request and its caller.
RequestSound(r) ==
  /\ caller[r] \in {"admitted", "waiting"} => state[r] # "none"
  /\ caller[r] = "queue_full" => state[r] = "none"
  /\ caller[r] = "cancelled" => state[r] \in Terminal
  /\ caller[r] = "deadline" => state[r] = "none" \/ (state[r] \in Terminal /\ now >= deadline[r])
  /\ caller[r] = "unavailable" => state[r] \in {"none", "failed"}
  /\ caller[r] \in {"execution", "contract"} => state[r] = "failed"
  /\ caller[r] = "idle" => state[r] = "none"
  /\ caller[r] = "prediction" => state[r] = "succeeded"
  /\ answer[r] \in {"none", r}
  /\ state[r] = "succeeded" => answer[r] = r
  /\ state[r] = "expired" => now >= deadline[r]

\* It is the same as those of its conjuncts.
LEMMA RequestsAreSound ==
  (ExpiredIsOverdue /\ CallersSound /\ AnswersSound) <=> \A r \in Requests : RequestSound(r)
<1>1. ASSUME ExpiredIsOverdue, CallersSound, AnswersSound, NEW r \in Requests
      PROVE  RequestSound(r)
  <2>1. state[r] = "expired" => now >= deadline[r]
    BY <1>1 DEF ExpiredIsOverdue
  <2>2. answer[r] \in {"none", r} /\ (state[r] = "succeeded" => answer[r] = r)
    BY <1>1 DEF AnswersSound
  <2>3. /\ caller[r] = "idle" => state[r] = "none"
        /\ caller[r] = "prediction" => state[r] = "succeeded"
    BY <1>1 DEF CallersSound
  <2>4. ReplyMatchesOutcome
    BY <1>1 DEF CallersSound
  <2> QED BY <2>1, <2>2, <2>3, <2>4 DEF ReplyMatchesOutcome, RequestSound
<1>2. ASSUME \A r \in Requests : RequestSound(r)
      PROVE  ExpiredIsOverdue /\ CallersSound /\ AnswersSound
  <2>1. ExpiredIsOverdue
    BY <1>2 DEF ExpiredIsOverdue, RequestSound
  <2>2. ReplyMatchesOutcome
    BY <1>2 DEF ReplyMatchesOutcome, RequestSound
  <2>3. CallersSound
    BY <1>2, <2>2 DEF CallersSound, RequestSound
  <2>4. AnswersSound
    BY <1>2 DEF AnswersSound, RequestSound
  <2> QED BY <2>1, <2>3, <2>4
<1> QED BY <1>1, <1>2

\* A request whose caller does not move stays sound, whatever a quiet turn or
\* a dispatch does to it, and while time passes.
LEMMA KeptSound ==
  ASSUME IInv, NEW r \in Requests, Quiet(r) \/ Lifecycle!Dispatched(r),
         caller'[r] = caller[r], deadline'[r] = deadline[r], answer'[r] = answer[r],
         now' \in {now, now + 1}
  PROVE  RequestSound(r)'
<1>1. RequestSound(r)
  BY RequestsAreSound DEF IInv
<1>2. now \in Int /\ deadline[r] \in Int /\ now' >= now
  BY DEF IInv, TypeOK
<1>3. CASE Lifecycle!Unmoved(r)
  BY <1>1, <1>2, <1>3 DEF RequestSound, Lifecycle!Unmoved
<1>4. CASE Lifecycle!Ended(r) /\ state'[r] # "succeeded"
           /\ (state'[r] = "expired" => now >= deadline[r])
  <2>1. /\ state[r] \in {"pending", "running"} /\ state'[r] \in Terminal
        /\ caller[r] \in {"admitted", "waiting"}
    <3>1. state[r] \in {"pending", "running"} /\ state'[r] \in Terminal
      BY <1>4 DEF Lifecycle!Ended, Lifecycle!TerminalStates, Terminal
    <3>2. caller[r] \in Callers
      BY DEF IInv, TypeOK
    <3> QED BY <1>1, <3>1, <3>2 DEF RequestSound, Callers, Replies, Terminal
  <2> QED BY <1>1, <1>2, <1>4, <2>1 DEF RequestSound, Callers, Replies, Terminal
<1>5. CASE Lifecycle!Dispatched(r)
  BY <1>1, <1>2, <1>5 DEF RequestSound, Lifecycle!Dispatched, Terminal
<1> QED BY <1>3, <1>4, <1>5 DEF Quiet

\* A step leaves every request and its caller sound.
LEMMA RequestSoundStep ==
  ASSUME IInv, [Next]_vars, NEW r \in Requests
  PROVE  RequestSound(r)'
<1>0. RequestSound(r) /\ Lifecycle!Consistent(r) /\ TypeOK
  BY RequestsAreSound DEF IInv, OutcomeRecordedOnce, Lifecycle!ResolvedOnce
<1>1. ASSUME NEW q \in Requests, NEW age \in Ages, Submit(q, age) PROVE RequestSound(r)'
  <2>1. caller[q] = "idle" /\ state[q] = "none" /\ UNCHANGED <<now, answer>>
    BY <1>1 DEF Submit, IInv, CallersSound, batch
  <2>2. ASSUME QuietTurn, UNCHANGED times,
               NEW reply \in {"deadline", "unavailable", "queue_full"},
               caller' = [caller EXCEPT ![q] = reply]
        PROVE  RequestSound(r)'
    <3>1. CASE r # q
      BY <1>0, <2>1, <2>2, <3>1, KeptSound DEF QuietTurn, times, TypeOK
    <3>2. CASE r = q
      <4>1. state'[q] = "none" /\ caller'[q] = reply /\ answer'[q] = answer[q]
        BY <1>0, <2>1, <2>2 DEF QuietTurn, Quiet, Lifecycle!Unmoved, Lifecycle!Ended, TypeOK
      <4> QED BY <1>0, <3>2, <4>1 DEF RequestSound
    <3> QED BY <3>1, <3>2
  <2>3. ASSUME NEW c \in Reclaimed, Admit(q, age, c) PROVE RequestSound(r)'
    <3>1. (r # q => Quiet(r)) /\ Lifecycle!Admitted(q)
      BY <2>1, <2>3, AdmitEffect
    <3>2. /\ caller' = [caller EXCEPT ![q] = "admitted"]
          /\ r # q => deadline'[r] = deadline[r]
      BY <1>0, <2>3 DEF Admit, TypeOK
    <3>3. CASE r # q
      BY <1>0, <2>1, <3>1, <3>2, <3>3, KeptSound DEF TypeOK
    <3>4. CASE r = q
      <4>1. state'[q] = "pending" /\ caller'[q] = "admitted" /\ answer'[q] = answer[q]
        BY <1>0, <2>1, <3>1, <3>2 DEF Lifecycle!Admitted, TypeOK
      <4> QED BY <1>0, <3>4, <4>1 DEF RequestSound
    <3> QED BY <3>3, <3>4
  <2> QED BY <1>1, <2>2, <2>3, SubmitTurn
<1>2. ASSUME NEW q \in Requests, BeginWait(q) \/ Timeout(q) \/ Cancel(q) PROVE RequestSound(r)'
  <2>1. UNCHANGED <<now, times, answer>>
    BY <1>2 DEF BeginWait, Timeout, Cancel, batch
  <2>2. /\ QuietTurn
        /\ \/ /\ caller' = [caller EXCEPT ![q] = "deadline"]
              /\ state'[q] \in Terminal /\ now >= deadline[q]
           \/ caller' = [caller EXCEPT ![q] = "cancelled"] /\ state'[q] \in Terminal
           \/ caller' = [caller EXCEPT ![q] = "waiting"] /\ state'[q] # "none"
    BY <1>2, CallerTurn
  <2>3. CASE r # q
    <3>1. caller'[r] = caller[r] /\ deadline'[r] = deadline[r] /\ answer'[r] = answer[r]
      BY <1>0, <2>1, <2>2, <2>3 DEF TypeOK, times
    <3> QED BY <2>1, <2>2, <3>1, KeptSound DEF QuietTurn
  <2>4. CASE r = q
    <3>1. /\ caller'[r] = "deadline" => state'[r] \in Terminal /\ now >= deadline[r]
          /\ caller'[r] = "cancelled" => state'[r] \in Terminal
          /\ caller'[r] = "waiting" => state'[r] # "none"
          /\ caller'[r] \in {"deadline", "cancelled", "waiting"}
      BY <1>0, <2>2, <2>4 DEF TypeOK
    <3>2. now' = now /\ deadline'[r] = deadline[r] /\ answer'[r] = answer[r]
      BY <2>1 DEF times
    <3>3. /\ state'[r] = "succeeded" => state[r] = "succeeded"
          /\ state'[r] = "expired" => now >= deadline[r]
      BY <1>0, <2>2 DEF QuietTurn, Quiet, Lifecycle!Unmoved, RequestSound
    <3> QED BY <1>0, <3>1, <3>2, <3>3 DEF RequestSound
  <2> QED BY <2>3, <2>4
<1>3. ASSUME NEW q \in Requests, Receive(q) PROVE RequestSound(r)'
  <2>1. UNCHANGED <<now, deadline, state, future, outcomes, answer>>
    BY <1>3 DEF Receive, times, ledger, batch
  <2>2. caller[q] = "waiting" /\ future[q] # "open" /\ caller' = [caller EXCEPT ![q] = future[q]]
    BY <1>3 DEF Receive
  <2>3. CASE r # q
    BY <1>0, <2>1, <2>2, <2>3 DEF RequestSound, TypeOK
  <2>4. CASE r = q
    <3>1. state[r] \in Terminal /\ future[r] \in Lifecycle!Resolutions(state[r])
      BY <1>0, <2>2, <2>4
         DEF Lifecycle!Consistent, Lifecycle!TerminalStates, RequestSound, TypeOK, States, Terminal
    <3>2. caller'[r] = future[r]
      BY <1>0, <2>2, <2>4 DEF TypeOK
    <3> QED BY <1>0, <2>1, <3>1, <3>2 DEF RequestSound, Lifecycle!Resolutions, Terminal
  <2> QED BY <2>3, <2>4
<1>4. CASE FinishOne
  <2>1. UNCHANGED <<now, caller, deadline>>
    BY <1>4 DEF FinishOne, times
  <2>2. CASE Lifecycle!Unmoved(r) /\ answer'[r] = answer[r]
    BY <2>1, <2>2, KeptSound DEF Quiet
  <2>3. CASE /\ Lifecycle!Ended(r) /\ state[r] = "running"
             /\ state'[r] = "expired" => now >= deadline[r]
             /\ answer'[r] \in {answer[r], r}
             /\ state'[r] = "succeeded" => answer'[r] = r
    <3>1. caller[r] \in {"admitted", "waiting"}
      BY <1>0, <2>3 DEF RequestSound, TypeOK, Callers, Replies, Terminal
    <3>2. state'[r] \in Terminal
      BY <2>3 DEF Lifecycle!Ended, Lifecycle!TerminalStates, Terminal
    <3> QED BY <1>0, <2>1, <2>3, <3>1, <3>2 DEF RequestSound, Terminal
  <2> QED BY <1>4, <2>2, <2>3, FinishEffect
<1>5. CASE UNCHANGED <<caller, deadline, answer>> /\ now' \in {now, now + 1}
           /\ (QuietTurn \/ Dispatch)
  BY <1>5, DispatchEffect, KeptSound DEF QuietTurn
<1>6. ASSUME UNCHANGED <<caller, deadline, answer>>, now' \in {now, now + 1}
      PROVE  RequestSound(r)'
  <2>1. ASSUME NEW q \in Requests, NEW age \in Ages, Submit(q, age) PROVE RequestSound(r)'
    BY <1>1, <2>1
  <2> QED BY <1>4, <1>5, <1>6, <2>1, Turns
<1>7. CASE Dispatch \/ Sleep \/ StopDriver \/ EndExecute
  BY <1>6, <1>7 DEF Dispatch, Sleep, StopDriver, EndExecute, times, batch
<1>8. CASE Start \/ Loaded \/ CollectResults \/ WatchdogFires
  BY <1>6, <1>8 DEF Start, Loaded, CollectResults, WatchdogFires, requests, times, batch
<1>9. CASE BeginShutdown \/ Drained \/ GraceExpires \/ DriverCancelled \/ CloseReturns
  BY <1>6, <1>9 DEF BeginShutdown, Drained, GraceExpires, DriverCancelled, CloseReturns, requests,
                    times, batch
<1>10. CASE CallStarts \/ CallReturns \/ CloseStarts \/ Tick \/ UNCHANGED vars
  BY <1>6, <1>10 DEF CallStarts, CallReturns, CloseStarts, Tick, vars, requests, times, batch
<1> QED BY <1>1, <1>2, <1>3, <1>4, <1>7, <1>8, <1>9, <1>10 DEF Next, LoopNext, WorkerNext, Exited

-----------------------------------------------------------------------------
(* The queue and the batch.                                                *)

\* Only a dispatch makes a request run, and no request goes back to the queue.
LEMMA EnvelopeOrder ==
  ASSUME IInv, [Next]_vars, ~Dispatch
  PROVE  /\ Distinct(pending') /\ Elements(pending') = {r \in Requests : state'[r] = "pending"}
         /\ \A r \in Requests :
              /\ state'[r] = "running" => state[r] = "running"
              /\ state[r] \notin {"none", "pending"} => state'[r] \notin {"none", "pending"}
<1>1. ASSUME NEW r \in Requests, Quiet(r)
      PROVE  /\ state'[r] = "running" => state[r] = "running"
             /\ state[r] \notin {"none", "pending"} => state'[r] \notin {"none", "pending"}
  BY <1>1 DEF Quiet, Lifecycle!Unmoved, Lifecycle!Ended, Lifecycle!TerminalStates
<1>2. CASE QuietTurn
  BY <1>1, <1>2 DEF QuietTurn
<1>3. CASE FinishOne
  <2>1. PICK q \in Requests :
          /\ state'[q] # "running" /\ pending' = pending
          /\ \A r \in Requests \ {q} : state'[r] = state[r]
          /\ \/ state'[q] = state[q]
             \/ state[q] = "running" /\ state'[q] \in Lifecycle!TerminalStates
    BY <1>3, FinishEffect DEF Lifecycle!Unmoved, Lifecycle!Ended
  <2>2. Distinct(pending') /\ Elements(pending') = {r \in Requests : state[r] = "pending"}
    BY <2>1 DEF IInv, QueueAgreement
  <2> QED BY <2>1, <2>2 DEF Lifecycle!TerminalStates
<1>4. ASSUME NEW q \in Requests, NEW age \in Ages, NEW c \in Reclaimed,
             Submit(q, age), Admit(q, age, c)
      PROVE  /\ Distinct(pending') /\ Elements(pending') = {r \in Requests : state'[r] = "pending"}
             /\ \A r \in Requests :
                  /\ state'[r] = "running" => state[r] = "running"
                  /\ state[r] \notin {"none", "pending"} => state'[r] \notin {"none", "pending"}
  <2>1. caller[q] = "idle"
    BY <1>4 DEF Submit
  <2>2. /\ \A r \in Requests \ {q} : Quiet(r)
        /\ Lifecycle!Admitted(q)
        /\ Distinct(pending') /\ Elements(pending') = {r \in Requests : state'[r] = "pending"}
    BY <1>4, <2>1, AdmitEffect
  <2> QED BY <1>1, <2>2 DEF Lifecycle!Admitted
<1> QED BY <1>2, <1>3, <1>4, Turns

\* The batch is replaced by a dispatch only, and dropped when nothing runs.
LEMMA BatchChange ==
  ASSUME IInv, [Next]_vars, ~Dispatch
  PROVE  \/ running' = << >> /\ \A r \in Requests : state'[r] # "running"
         \/ /\ running' = running
            /\ ActiveBatch => ActiveBatch'
            /\ driver' = "finishing" =>
                 (driver = "finishing" /\ cursor' = cursor) \/ cursor' = 1 \/ FinishOne
<1> USE DEF requests, ledger, task, batch, ActiveBatch
<1>1. CASE Start \/ Loaded
  BY <1>1 DEF Start, Loaded, IInv, DriverSound
<1>2. ASSUME NEW q \in Requests, NEW age \in Ages, Submit(q, age)
      PROVE  /\ running' = running /\ (ActiveBatch => ActiveBatch')
             /\ driver' = "finishing" => driver = "finishing" /\ cursor' = cursor
  BY <1>2 DEF Submit, Reject, Admit, NotifyAll
<1>3. ASSUME NEW q \in Requests, BeginWait(q) \/ Timeout(q) \/ Cancel(q)
      PROVE  /\ running' = running /\ (ActiveBatch => ActiveBatch')
             /\ driver' = "finishing" => driver = "finishing" /\ cursor' = cursor
  BY <1>3 DEF BeginWait, Timeout, Cancel, Leave, NotifyAll
<1>4. ASSUME NEW q \in Requests, Receive(q)
      PROVE  /\ running' = running /\ (ActiveBatch => ActiveBatch')
             /\ driver' = "finishing" => driver = "finishing" /\ cursor' = cursor
  BY <1>4 DEF Receive
<1>5. CASE Sleep \/ StopDriver
  BY <1>5 DEF Sleep, StopDriver, DriverTurn
<1>6. CASE CollectResults \/ FinishOne \/ WatchdogFires
  BY <1>6 DEF CollectResults, FinishOne, WatchdogFires
<1>7. CASE EndExecute
  <2>1. running' = << >>
    BY <1>7 DEF EndExecute
  <2>2. CASE FailAll
    BY <2>1, <2>2, FailAllTurn
  <2>3. CASE UNCHANGED ledger
    <3>1. ASSUME NEW r \in Requests, state[r] = "running" PROVE FALSE
      <4>1. PICK k \in DOMAIN running : running[k] = r
        BY <3>1 DEF IInv, QueueAgreement, Elements
      <4>2. k \in Int /\ k <= Len(running) /\ Len(running) \in Nat /\ cursor \in Nat
        BY DEF IInv, TypeOK
      <4>3. driver = "finishing" /\ k < cursor
        BY <1>7, <4>2 DEF EndExecute
      <4> QED BY <3>1, <4>1, <4>3 DEF IInv, BatchSound
    <3> QED BY <2>1, <2>3, <3>1
  <2> QED BY <1>7, <2>2, <2>3 DEF EndExecute
<1>8. CASE BeginShutdown \/ Drained \/ GraceExpires
  BY <1>8 DEF BeginShutdown, Drained, GraceExpires, NotifyAll
<1>9. CASE DriverCancelled
  <2>1. \A r \in Requests : state[r] # "running"
    BY <1>9 DEF DriverCancelled, IInv, NothingLeftBehind, Accepted, Terminal
  <2> QED BY <1>9, <2>1 DEF DriverCancelled
<1>10. CASE CallStarts \/ CallReturns \/ CloseStarts \/ CloseReturns \/ Tick \/ UNCHANGED vars
  BY <1>10 DEF CallStarts, CallReturns, CloseStarts, CloseReturns, Tick, vars
<1> QED BY <1>1, <1>2, <1>3, <1>4, <1>5, <1>6, <1>7, <1>8, <1>9, <1>10
        DEF Next, LoopNext, WorkerNext, Exited

\* The queue holds the pending requests, and the running ones are in the batch.
LEMMA QueueStep ==
  ASSUME IInv, [Next]_vars
  PROVE  QueueAgreement'
<1>1. CASE Dispatch
  <2>1. ActiveBatch'
    BY <1>1 DEF Dispatch, BeginExecute, ActiveBatch
  <2> QED BY <1>1, <2>1, DispatchEffect DEF QueueAgreement
<1>2. CASE ~Dispatch
  <2>1. /\ Distinct(pending') /\ Elements(pending') = {r \in Requests : state'[r] = "pending"}
        /\ \A r \in Requests : state'[r] = "running" => state[r] = "running"
    BY <1>2, EnvelopeOrder
  <2>2. CASE running' = << >> /\ \A r \in Requests : state'[r] # "running"
    <3>1. Distinct(running')
      BY <2>2 DEF Distinct
    <3> QED BY <2>1, <2>2, <3>1 DEF QueueAgreement
  <2>3. CASE running' = running /\ (ActiveBatch => ActiveBatch')
    <3>1. /\ Distinct(running) /\ (running # << >> => ActiveBatch)
          /\ {r \in Requests : state[r] = "running"} \subseteq Elements(running)
      BY DEF IInv, QueueAgreement
    <3> QED BY <2>1, <2>3, <3>1 DEF QueueAgreement
  <2> QED BY <1>2, <2>2, <2>3, BatchChange
<1> QED BY <1>1, <1>2

\* The members of the batch are finished in order.
LEMMA BatchStep ==
  ASSUME IInv, [Next]_vars
  PROVE  BatchSound'
<1>1. CASE Dispatch
  <2>1. driver' = "executing"
    BY <1>1 DEF Dispatch, BeginExecute
  <2>2. \A k \in DOMAIN running' : running'[k] \in Elements(running')
    BY DEF Elements
  <2>3. \A k \in DOMAIN running' : state'[running'[k]] = "running"
    BY <1>1, <2>2, DispatchEffect
  <2> QED BY <2>1, <2>3 DEF BatchSound
<1>2. CASE ~Dispatch
  <2>1. CASE running' = << >>
    BY <2>1 DEF BatchSound
  <2>2. ASSUME running' = running,
               driver' = "finishing" =>
                 (driver = "finishing" /\ cursor' = cursor) \/ cursor' = 1 \/ FinishOne,
               NEW k \in DOMAIN running
        PROVE  /\ state'[running[k]] \notin {"none", "pending"}
               /\ driver' = "finishing" /\ k < cursor' => state'[running[k]] # "running"
    <3>1. running[k] \in Requests /\ k \in Nat /\ k >= 1 /\ cursor \in Nat
      BY DEF IInv, TypeOK
    <3>2. /\ state[running[k]] \notin {"none", "pending"}
          /\ driver = "finishing" /\ k < cursor => state[running[k]] # "running"
      BY DEF IInv, BatchSound
    <3>3. /\ state'[running[k]] \notin {"none", "pending"}
          /\ state'[running[k]] = "running" => state[running[k]] = "running"
      BY <1>2, <3>1, <3>2, EnvelopeOrder
    <3>4. ASSUME driver' = "finishing", k < cursor' PROVE state'[running[k]] # "running"
      <4>1. CASE FinishOne
        <5>1. state'[running[cursor]] # "running"
          BY <4>1, FinishEffect
        <5>2. driver = "finishing" /\ cursor' = cursor + 1
          BY <4>1 DEF FinishOne
        <5> QED BY <3>1, <3>2, <3>3, <3>4, <5>1, <5>2
      <4>2. CASE driver = "finishing" /\ cursor' = cursor
        BY <3>2, <3>3, <3>4, <4>2
      <4>3. CASE cursor' = 1
        BY <3>1, <3>4, <4>3
      <4> QED BY <2>2, <3>4, <4>1, <4>2, <4>3
    <3> QED BY <3>3, <3>4
  <2> QED BY <1>2, <2>1, <2>2, BatchChange DEF BatchSound
<1> QED BY <1>1, <1>2

-----------------------------------------------------------------------------
(* The driver, the worker thread and the life of the service.              *)

\* A ready service is serving, with a driver to serve it.
LEMMA ReadyIsServing ==
  ASSUME IInv, Ready
  PROVE  life = "serving" /\ driver \notin {"absent", "done"} /\ ~failed
BY DEF IInv, OpenDoorIsServed, Ready

\* A queue that is empty because nobody serves it stays empty.
LEMMA DoneStaysDone ==
  ASSUME IInv, [Next]_vars, driver = "done"
  PROVE  pending' = << >>
<1>1. pending = << >> /\ ~accepting
  BY DEF IInv, DriverSound
<1>2. ASSUME QuietTurn PROVE pending' = << >>
  <2>1. pending' \in Seq(Requests)
    BY TypeStep DEF TypeOK
  <2>2. Len(pending') <= 0
    BY <1>1, <1>2 DEF QuietTurn
  <2> QED BY <2>1, <2>2
<1>3. CASE Dispatch
  BY <1>3 DEF Dispatch, DriverTurn
<1>4. CASE FinishOne
  BY <1>4 DEF FinishOne
<1>5. ASSUME NEW q \in Requests, NEW age \in Ages, Submit(q, age) PROVE pending' = << >>
  <2>1. ~Ready
    BY <1>1 DEF Ready
  <2> QED BY <1>2, <1>5, <2>1, SubmitTurn
<1> QED BY <1>2, <1>3, <1>4, <1>5, Turns

\* When shutdown no longer waits for the driver, nothing comes back to life.
LEMMA NothingLeftStep ==
  ASSUME IInv, [Next]_vars
  PROVE  NothingLeftBehind'
<1>1. TypeOK'
  BY TypeStep
<1>2. CASE GraceExpires
  <2>1. \A r \in Requests : state'[r] \notin {"pending", "running"}
    BY <1>2, FailAllTurn DEF GraceExpires
  <2> QED BY <1>1, <2>1 DEF NothingLeftBehind, Accepted, TypeOK, States
<1>3. CASE Drained
  <2>1. pending = << >> /\ ~ActiveBatch
    BY <1>3 DEF Drained, IInv, DriverSound, ActiveBatch
  <2>2. \A r \in Requests : state[r] \notin {"pending", "running"}
    BY <2>1, NothingRuns DEF IInv, QueueAgreement, Elements
  <2>3. state' = state
    BY <1>3 DEF Drained, requests, ledger
  <2> QED BY <1>1, <2>2, <2>3 DEF NothingLeftBehind, Accepted, TypeOK, States
<1>4. ASSUME life \in {"cancelling", "closing", "stopped"} PROVE NothingLeftBehind'
  <2>1. \A r \in Requests : state[r] = "none" \/ state[r] \in Terminal
    BY <1>4 DEF IInv, NothingLeftBehind, Accepted
  <2>2. QuietTurn
    <3>1. life \in {"closing", "stopped"} => driver = "done"
      BY DEF IInv, DriverSound
    <3>2. ~Dispatch
      BY <1>4, <3>1 DEF Dispatch, DriverTurn
    <3>3. ~FinishOne
      BY <1>4, <3>1 DEF FinishOne, IInv, DriverSound
    <3>4. ASSUME NEW q \in Requests, NEW age \in Ages, Submit(q, age) PROVE QuietTurn
      <4>1. ~Ready
        BY <1>4, ReadyIsServing
      <4> QED BY <3>4, <4>1, SubmitTurn
    <3> QED BY <3>2, <3>3, <3>4, Turns
  <2>3. \A r \in Requests : state'[r] = state[r]
    BY <2>1, <2>2 DEF QuietTurn, Quiet, Lifecycle!Unmoved, Lifecycle!Ended, Terminal
  <2> QED BY <2>1, <2>3 DEF NothingLeftBehind, Accepted
<1>5. ASSUME life' = life PROVE NothingLeftBehind'
  <2>1. CASE life \in {"cancelling", "closing", "stopped"}
    BY <1>4, <2>1
  <2>2. CASE life \notin {"cancelling", "closing", "stopped"}
    BY <1>5, <2>2 DEF NothingLeftBehind
  <2> QED BY <2>1, <2>2
<1>6. CASE Start \/ Loaded \/ BeginShutdown
  <2>1. life' \notin {"cancelling", "closing", "stopped"}
    BY <1>6 DEF Start, Loaded, BeginShutdown
  <2> QED BY <2>1 DEF NothingLeftBehind
<1>7. CASE DriverCancelled \/ CloseReturns
  BY <1>4, <1>7 DEF DriverCancelled, CloseReturns
<1>8. CASE \E r \in Requests, age \in Ages : Submit(r, age)
  BY <1>5, <1>8 DEF Submit, lifetime
<1>9. CASE \E r \in Requests : BeginWait(r) \/ Receive(r) \/ Timeout(r) \/ Cancel(r)
  BY <1>5, <1>9 DEF BeginWait, Receive, Timeout, Cancel, lifetime
<1>10. CASE Dispatch \/ Sleep \/ StopDriver \/ CollectResults \/ FinishOne \/ EndExecute
  BY <1>5, <1>10 DEF Dispatch, Sleep, StopDriver, CollectResults, FinishOne, EndExecute, lifetime
<1>11. CASE WatchdogFires \/ CallStarts \/ CallReturns \/ CloseStarts \/ Tick \/ UNCHANGED vars
  BY <1>5, <1>11 DEF WatchdogFires, CallStarts, CallReturns, CloseStarts, Tick, vars, lifetime
<1> QED BY <1>2, <1>3, <1>6, <1>7, <1>8, <1>9, <1>10, <1>11 DEF Next, LoopNext, WorkerNext, Exited

\* The driver task, the flags and the thread, as far as they depend on each
\* other.
Control == OpenDoorIsServed /\ DriverSound /\ WorkerSound

\* What the invariant gives every case of the next lemma.
LEMMA ControlFacts ==
  ASSUME IInv
  PROVE  /\ Control /\ (driver = "done" => pending = << >>)
         /\ job \in Seq(Requests) /\ running \in Seq(Requests) /\ cursor \in Nat
         /\ driver \in {"absent", "ready", "waiting", "executing", "finishing", "deciding", "done"}
         /\ worker \in {"idle", "load", "queued", "predict", "close"}
         /\ accepting \in BOOLEAN /\ failed \in BOOLEAN /\ abandoned \in BOOLEAN
BY DEF IInv, TypeOK, Control, DriverSound

\* A caller's own step at most wakes the driver.
LEMMA ControlOfCallers ==
  ASSUME IInv, [Next]_vars, UNCHANGED <<batch, call, flags, lifetime>>,
         UNCHANGED driver \/ (driver = "waiting" /\ driver' = "ready")
  PROVE  Control'
<1> USE DEF batch, call, flags, lifetime
<1>1. driver' = "done" => pending' = << >> /\ ~accepting
  BY DoneStaysDone DEF IInv, DriverSound
<1>2. OpenDoorIsServed'
  BY DEF IInv, OpenDoorIsServed
<1>3. DriverSound'
  BY <1>1 DEF IInv, DriverSound, ActiveBatch
<1>4. WorkerSound'
  BY DEF IInv, WorkerSound
<1> QED BY <1>2, <1>3, <1>4 DEF Control

\* A step keeps the driver, the flags, the thread and the life consistent.
LEMMA ControlStep ==
  ASSUME IInv, [Next]_vars
  PROVE  Control'
<1> USE DEF Control, OpenDoorIsServed, DriverSound, WorkerSound, ActiveBatch, task, batch, call,
            flags, lifetime
<1>0. /\ Control /\ (driver = "done" => pending' = << >>)
      /\ job \in Seq(Requests) /\ running \in Seq(Requests) /\ cursor \in Nat
      /\ driver \in {"absent", "ready", "waiting", "executing", "finishing", "deciding", "done"}
      /\ worker \in {"idle", "load", "queued", "predict", "close"}
      /\ accepting \in BOOLEAN /\ failed \in BOOLEAN /\ abandoned \in BOOLEAN
  BY ControlFacts, DoneStaysDone
<1>1. CASE Start
  BY <1>0, <1>1 DEF Start
<1>2. CASE Loaded
  BY <1>0, <1>2 DEF Loaded
<1>3. ASSUME NEW q \in Requests, NEW age \in Ages, Submit(q, age) PROVE Control'
  <2>1. UNCHANGED driver \/ (driver = "waiting" /\ driver' = "ready")
    BY <1>3 DEF Submit, Reject, Admit, NotifyAll
  <2> QED BY <1>3, <2>1, ControlOfCallers DEF Submit
<1>4. ASSUME NEW q \in Requests, BeginWait(q) \/ Timeout(q) \/ Cancel(q) \/ Receive(q)
      PROVE  Control'
  <2>1. UNCHANGED driver \/ (driver = "waiting" /\ driver' = "ready")
    BY <1>4 DEF BeginWait, Timeout, Cancel, Receive, Leave, NotifyAll
  <2> QED BY <1>4, <2>1, ControlOfCallers DEF BeginWait, Timeout, Cancel, Receive
<1>5. CASE Dispatch
  <2>1. running' # << >>
    BY <1>5, DispatchEffect
  <2>2. driver \in {"deciding", "ready", "waiting"} /\ life # "cancelling"
    BY <1>5 DEF Dispatch, DriverTurn
  <2>3. /\ driver' = "executing" /\ worker' = "queued" /\ job' = running'
        /\ UNCHANGED <<returned, results, accepting, failed, life, abandoned>>
    BY <1>5 DEF Dispatch, BeginExecute
  <2> QED BY <1>0, <2>1, <2>2, <2>3
<1>6. CASE Sleep
  BY <1>0, <1>6 DEF Sleep, DriverTurn
<1>7. CASE StopDriver
  <2>1. pending' = << >>
    BY <1>7 DEF StopDriver, Commit
  <2> QED BY <1>0, <1>7, <2>1 DEF StopDriver, DriverTurn
<1>8. CASE CollectResults
  BY <1>0, <1>8 DEF CollectResults, CloseDoor
<1>9. CASE FinishOne
  BY <1>0, <1>9 DEF FinishOne
<1>10. CASE EndExecute
  BY <1>0, <1>10 DEF EndExecute
<1>11. CASE WatchdogFires
  BY <1>0, <1>11 DEF WatchdogFires, CloseDoor
<1>12. CASE CallStarts \/ CloseStarts \/ CloseReturns \/ Tick \/ UNCHANGED vars
  BY <1>0, <1>12 DEF CallStarts, CloseStarts, CloseReturns, Tick, vars
<1>13. CASE CallReturns
  <2>1. results' = job \/ results' = Tail(job) \/ results' = Append(job, Head(job)) \/ UNCHANGED results
    BY <1>13 DEF CallReturns
  <2>2. job # << >>
    BY <1>0, <1>13 DEF CallReturns
  <2>3. Len(Tail(job)) # Len(job) /\ Len(Append(job, Head(job))) # Len(job)
    BY <1>0, <2>2
  <2> QED BY <1>0, <1>13, <2>1, <2>3 DEF CallReturns
<1>14. CASE BeginShutdown
  BY <1>0, <1>14 DEF BeginShutdown, NotifyAll
<1>15. CASE Drained
  BY <1>0, <1>15 DEF Drained
<1>16. CASE GraceExpires
  BY <1>0, <1>16 DEF GraceExpires, NotifyAll, LoopIdle
<1>17. CASE DriverCancelled
  <2>1. pending' = << >>
    <3>1. \A r \in Requests : state[r] # "pending"
      BY <1>17 DEF DriverCancelled, IInv, NothingLeftBehind, Accepted, Terminal
    <3>2. Elements(pending) = {} /\ pending \in Seq(Requests)
      BY <3>1 DEF IInv, QueueAgreement, TypeOK
    <3>3. ASSUME pending # << >> PROVE FALSE
      <4>1. 1 \in DOMAIN pending
        BY <3>2, <3>3
      <4> QED BY <3>2, <4>1 DEF Elements
    <3>4. pending' = pending
      BY <1>17 DEF DriverCancelled, requests, ledger
    <3> QED BY <3>3, <3>4
  <2> QED BY <1>0, <1>17, <2>1 DEF DriverCancelled, AfterCancel
<1> QED BY <1>1, <1>2, <1>3, <1>4, <1>5, <1>6, <1>7, <1>8, <1>9, <1>10, <1>11, <1>12, <1>13,
           <1>14, <1>15, <1>16, <1>17 DEF Next, LoopNext, WorkerNext, Exited

-----------------------------------------------------------------------------
(* Theorems.                                                               *)

\* Initially there is no request, no driver and no call.
LEMMA InitIInv == Init => IInv
<1> SUFFICES ASSUME Init PROVE IInv
  OBVIOUS
<1>1. TypeOK
  <2>1. /\ caller \in [Requests -> Callers] /\ state \in [Requests -> States]
        /\ future \in [Requests -> Futures] /\ answer \in [Requests -> Requests \cup {"none"}]
    BY DEF Init, Callers, States, Futures
  <2>2. << >> \in Seq(Terminal) /\ << >> \in Seq(Requests)
    OBVIOUS
  <2>3. outcomes \in [Requests -> Seq(Terminal)]
    BY <2>2 DEF Init
  <2>4. admittedAt \in [Requests -> Int] /\ deadline \in [Requests -> Int]
    BY DEF Init, NoTime
  <2>5. /\ pending \in Seq(Requests) /\ running \in Seq(Requests)
        /\ job \in Seq(Requests) /\ results \in Seq(Requests)
    BY <2>2 DEF Init
  <2>6. /\ now \in Nat /\ alarm \in Int /\ activeSince \in Int /\ cursor \in Nat /\ graceEnd \in Int
    BY DEF Init, NoTime
  <2>7. accepting \in BOOLEAN /\ failed \in BOOLEAN /\ abandoned \in BOOLEAN
    BY DEF Init
  <2>8. driver = "absent" /\ worker = "idle" /\ returned = "none" /\ life = "new"
    BY DEF Init
  <2> QED BY <2>1, <2>3, <2>4, <2>5, <2>6, <2>7, <2>8 DEF TypeOK
<1>2. OutcomeRecordedOnce
  BY DEF Init, OutcomeRecordedOnce, Lifecycle!ResolvedOnce, Lifecycle!Consistent,
         Lifecycle!TerminalStates
<1>3. QueueAgreement /\ BatchSound
  BY DEF Init, QueueAgreement, BatchSound, Distinct, Elements
<1>4. ExpiredIsOverdue /\ CallersSound /\ AnswersSound
  <2>1. \A r \in Requests : RequestSound(r)
    BY DEF Init, RequestSound
  <2> QED BY <2>1, RequestsAreSound
<1>5. OpenDoorIsServed /\ NothingLeftBehind
  BY DEF Init, OpenDoorIsServed, NothingLeftBehind
<1>6. DriverSound /\ WorkerSound
  BY DEF Init, DriverSound, WorkerSound
<1> QED BY <1>1, <1>2, <1>3, <1>4, <1>5, <1>6 DEF IInv

\* A step keeps a request resolved once, as its own lifecycle does.
LEMMA ResolvedOnceStep ==
  ASSUME IInv, [Next]_vars
  PROVE  OutcomeRecordedOnce'
<1>1. SUFFICES ASSUME NEW r \in Requests PROVE Lifecycle!Consistent(r)'
  BY DEF OutcomeRecordedOnce, Lifecycle!ResolvedOnce
<1>2. Lifecycle!Consistent(r) /\ Lifecycle!LifecycleStep(r)
  BY LifecycleStep DEF IInv, OutcomeRecordedOnce, Lifecycle!ResolvedOnce
<1> QED BY <1>2, ConsistentStep

\* The invariant is inductive.
LEMMA InductiveStep == IInv /\ [Next]_vars => IInv'
<1> SUFFICES ASSUME IInv, [Next]_vars PROVE IInv'
  OBVIOUS
<1>1. TypeOK'
  BY TypeStep
<1>2. (ExpiredIsOverdue /\ CallersSound /\ AnswersSound)'
  <2>1. (\A r \in Requests : RequestSound(r))'
    BY RequestSoundStep
  <2>2. ((\A r \in Requests : RequestSound(r))
          => ExpiredIsOverdue /\ CallersSound /\ AnswersSound)'
    BY RequestsAreSound, PTL
  <2> QED BY <2>1, <2>2
<1> QED BY <1>1, <1>2, ResolvedOnceStep, QueueStep, BatchStep, NothingLeftStep, ControlStep
        DEF IInv, Control

\* Every reachable state satisfies the inductive invariant.
THEOREM Invariance == Spec => []IInv
BY InitIInv, InductiveStep, PTL DEF Spec

\* Every operation leaves each variable in its range.
THEOREM TypeCorrect == Spec => []TypeOK
BY Invariance, PTL DEF IInv

\* _record_outcome() runs once for every accepted request, with the state it
\* ends in, and its future is open exactly while it is live.
THEOREM OutcomesRecordedOnce == Spec => []OutcomeRecordedOnce
BY Invariance, PTL DEF IInv

\* The deque holds the pending envelopes and nothing else, and an envelope runs
\* only in the batch under execution.
THEOREM QueueAgrees == Spec => []QueueAgreement
BY Invariance, PTL DEF IInv

\* Nothing expires before its deadline.
THEOREM NothingExpiresEarly == Spec => []ExpiredIsOverdue
BY Invariance, PTL DEF IInv

\* A caller that is given a prediction is given its own.
THEOREM EveryPredictionIsOwn == Spec => []OwnPrediction
<1>1. IInv => OwnPrediction
  BY DEF IInv, CallersSound, AnswersSound, OwnPrediction
<1> QED BY <1>1, Invariance, PTL

\* No caller leaves a live request behind, and an error reply is true.
THEOREM RepliesMatch == Spec => []ReplyMatchesOutcome
<1>1. IInv => ReplyMatchesOutcome
  BY DEF IInv, CallersSound
<1> QED BY <1>1, Invariance, PTL

\* The service admits only while a live, healthy driver serves.
THEOREM DoorIsServed == Spec => []OpenDoorIsServed
BY Invariance, PTL DEF IInv

\* A call in the executor is the driver's, or was given up by shutdown, and
\* close never waits behind a prediction.
THEOREM CallsBelong == Spec => []CallBelongsToBatch
<1>1. IInv => CallBelongsToBatch
  <2> SUFFICES ASSUME IInv PROVE CallBelongsToBatch
    OBVIOUS
  <2>1. WorkerSound /\ (life = "closing" => driver = "done")
        /\ worker \in {"idle", "load", "queued", "predict", "close"}
    BY DEF IInv, DriverSound, TypeOK
  <2> QED BY <2>1 DEF WorkerSound, CallBelongsToBatch
<1> QED BY <1>1, Invariance, PTL

\* When shutdown stops waiting for the driver, every accepted request has ended.
THEOREM NothingIsLeftBehind == Spec => []NothingLeftBehind
BY Invariance, PTL DEF IInv

-----------------------------------------------------------------------------
(* Refinement and step properties.                                         *)

\* Whatever queue, batches, timers and shutdown do, each request lives the life
\* RequestLifecycle describes.
THEOREM SchedulerImplementsLifecycle == Spec => ImplementsLifecycle
<1>1. Init => Lifecycle!Init
  BY DEF Init, Lifecycle!Init
<1>2. IInv /\ [Next]_vars => [Lifecycle!Next]_Lifecycle!vars
  BY LifecycleStep DEF Lifecycle!Next
<1> QED BY <1>1, <1>2, Invariance, PTL DEF Spec, ImplementsLifecycle, Lifecycle!Spec

\* A caller is moved by its own steps only.
LEMMA CallerMoves ==
  ASSUME IInv, [Next]_vars, NEW r \in Requests
  PROVE  \/ caller'[r] = caller[r]
         \/ \E age \in Ages : Submit(r, age)
         \/ BeginWait(r) \/ Receive(r) \/ Timeout(r) \/ Cancel(r)
<1> USE DEF requests
<1>1. caller \in [Requests -> Callers]
  BY DEF IInv, TypeOK
<1>2. ASSUME NEW q \in Requests, q # r, NEW age \in Ages, Submit(q, age)
      PROVE  caller'[r] = caller[r]
  BY <1>1, <1>2 DEF Submit, Reject, Admit
<1>3. ASSUME NEW q \in Requests, q # r, BeginWait(q) \/ Receive(q) \/ Timeout(q) \/ Cancel(q)
      PROVE  caller'[r] = caller[r]
  BY <1>1, <1>3 DEF BeginWait, Receive, Timeout, Cancel, Leave
<1>4. CASE Start \/ Loaded \/ Dispatch \/ Sleep \/ StopDriver \/ CollectResults \/ FinishOne
           \/ EndExecute \/ WatchdogFires
  BY <1>4 DEF Start, Loaded, Dispatch, Sleep, StopDriver, CollectResults, FinishOne,
              EndExecute, WatchdogFires
<1>5. CASE BeginShutdown \/ Drained \/ GraceExpires \/ DriverCancelled \/ CloseReturns
           \/ WorkerNext \/ Tick \/ UNCHANGED vars
  BY <1>5 DEF BeginShutdown, Drained, GraceExpires, DriverCancelled, CloseReturns,
              WorkerNext, CallStarts, CallReturns, CloseStarts, Tick, vars
<1> QED BY <1>2, <1>3, <1>4, <1>5 DEF Next, LoopNext, Exited

\* A request that is not live is not live to the contract, and one is not made so by
\* standing still.
LEMMA LiveIs ==
  ASSUME NEW r \in Requests
  PROVE  /\ state'[r] \notin {"pending", "running"} => LiveView'[r] = FALSE
         /\ state'[r] \in {"pending", "running"} => LiveView'[r] = TRUE
         /\ (state[r] \in {"pending", "running"} <=> state'[r] \in {"pending", "running"})
              => LiveView'[r] = LiveView[r]
<1> DEFINE was == state[r] \in {"pending", "running"}
           is  == state'[r] \in {"pending", "running"}
<1>1. LiveView[r] = was /\ LiveView'[r] = is
  BY Zenon DEF LiveView
<1>2. was \in BOOLEAN /\ is \in BOOLEAN
  OBVIOUS
<1> HIDE DEF was, is
<1>3. (~is => LiveView'[r] = FALSE) /\ (is => LiveView'[r] = TRUE)
  BY <1>1, <1>2
<1>4. (was <=> is) => LiveView'[r] = LiveView[r]
  BY <1>1, <1>2
<1> QED BY <1>3, <1>4 DEF was, is

\* What a step makes of a request whose caller stays where it is.
LEMMA ContractOfOthers ==
  ASSUME IInv, [Next]_vars, NEW r \in Requests, caller'[r] = caller[r]
  PROVE  Contract!SubmitStep(r)
<1>1. /\ SubmitView[r] = (IF caller[r] = "admitted" THEN "waiting" ELSE caller[r])
      /\ SubmitView'[r] = SubmitView[r]
  BY DEF SubmitView
<1>2. CASE Lifecycle!Unmoved(r) \/ Lifecycle!Dispatched(r)
  <2>1. LiveView'[r] = LiveView[r]
    BY <1>2, LiveIs DEF Lifecycle!Unmoved, Lifecycle!Dispatched
  <2> QED BY <1>1, <2>1 DEF Contract!SubmitStep, Contract!Unmoved, Contract!Becomes
<1>3. CASE Lifecycle!Ended(r)
  <2>1. state[r] \in {"pending", "running"} /\ state'[r] \in Terminal
    BY <1>3 DEF Lifecycle!Ended, Lifecycle!TerminalStates, Terminal
  <2>2. caller[r] \in {"admitted", "waiting"}
    <3>1. RequestSound(r) /\ caller[r] \in Callers
      BY RequestsAreSound DEF IInv, TypeOK
    <3> QED BY <2>1, <3>1 DEF RequestSound, Callers, Replies, Terminal
  <2>3. SubmitView[r] = "waiting" /\ SubmitView'[r] = "waiting"
    BY <1>1, <2>2
  <2>4. LiveView'[r] = FALSE
    BY <2>1, LiveIs DEF Terminal
  <2> QED BY <2>3, <2>4 DEF Contract!SubmitStep, Contract!Resolved, Contract!Becomes
<1>4. CASE Lifecycle!Admitted(r)
  <2>1. state[r] = "none" /\ state'[r] = "pending"
    BY <1>4 DEF Lifecycle!Admitted
  <2>2. ~QuietTurn
    BY <2>1 DEF QuietTurn, Quiet, Lifecycle!Unmoved, Lifecycle!Ended
  <2>3. ~Dispatch
    BY <2>1, DispatchEffect DEF Quiet, Lifecycle!Unmoved, Lifecycle!Ended, Lifecycle!Dispatched
  <2>4. ~FinishOne
    BY <2>1, FinishEffect DEF Lifecycle!Unmoved, Lifecycle!Ended
  <2>5. PICK q \in Requests, age \in Ages, c \in Reclaimed : Submit(q, age) /\ Admit(q, age, c)
    BY <2>2, <2>3, <2>4, Turns
  <2>6. caller[q] = "idle"
    BY <2>5 DEF Submit
  <2>7. q # r => Quiet(r)
    BY <2>5, <2>6, AdmitEffect
  <2>8. q = r
    BY <2>1, <2>7 DEF Quiet, Lifecycle!Unmoved, Lifecycle!Ended
  <2>9. caller'[r] = "admitted"
    BY <2>5, <2>8 DEF Admit, IInv, TypeOK
  <2> QED BY <2>6, <2>8, <2>9
<1> QED BY <1>2, <1>3, <1>4, LifecycleStep DEF Lifecycle!LifecycleStep

\* What a caller's own step makes of it.
LEMMA ContractOfCaller ==
  ASSUME IInv, NEW r \in Requests,
         \/ \E age \in Ages : Submit(r, age)
         \/ BeginWait(r) \/ Receive(r) \/ Timeout(r) \/ Cancel(r)
  PROVE  Contract!SubmitStep(r)
<1>1. /\ SubmitView[r] = (IF caller[r] = "admitted" THEN "waiting" ELSE caller[r])
      /\ SubmitView'[r] = (IF caller'[r] = "admitted" THEN "waiting" ELSE caller'[r])
  BY DEF SubmitView
<1>2. caller \in [Requests -> Callers] /\ RequestSound(r)
  BY RequestsAreSound DEF IInv, TypeOK
<1>3. ASSUME NEW age \in Ages, Submit(r, age) PROVE Contract!SubmitStep(r)
  <2>1. caller[r] = "idle" /\ state[r] = "none" /\ SubmitView[r] = "idle"
    BY <1>1, <1>2, <1>3 DEF Submit, RequestSound
  <2>2. ASSUME QuietTurn, NEW reply \in {"deadline", "unavailable", "queue_full"},
               caller' = [caller EXCEPT ![r] = reply]
        PROVE  Contract!SubmitStep(r)
    <3>1. state'[r] = "none"
      BY <2>1, <2>2 DEF QuietTurn, Quiet, Lifecycle!Unmoved, Lifecycle!Ended
    <3>2. SubmitView'[r] = reply
      BY <1>1, <1>2, <2>2
    <3>3. LiveView'[r] = FALSE
      BY <3>1, LiveIs
    <3> QED BY <2>1, <3>2, <3>3
            DEF Contract!SubmitStep, Contract!Refused, Contract!Refusals, Contract!Becomes
  <2>3. ASSUME NEW c \in Reclaimed, Admit(r, age, c) PROVE Contract!SubmitStep(r)
    <3>1. Lifecycle!Admitted(r)
      BY <2>1, <2>3, AdmitEffect
    <3>2. state'[r] = "pending" /\ caller'[r] = "admitted"
      BY <1>2, <2>3, <3>1 DEF Lifecycle!Admitted, Admit
    <3>3. SubmitView'[r] = "waiting"
      BY <1>1, <3>2
    <3>4. LiveView'[r] = TRUE
      BY <3>2, LiveIs
    <3> QED BY <2>1, <3>3, <3>4 DEF Contract!SubmitStep, Contract!Admitted, Contract!Becomes
  <2> QED BY <1>3, <2>2, <2>3, SubmitTurn
<1>4. CASE BeginWait(r) \/ Timeout(r) \/ Cancel(r)
  <2>1. SubmitView[r] = "waiting"
    BY <1>1, <1>4 DEF BeginWait, Timeout, Cancel
  <2>2. CASE caller' = [caller EXCEPT ![r] = "deadline"] /\ state'[r] \in Terminal
    <3>1. SubmitView'[r] = "deadline"
      BY <1>1, <1>2, <2>2
    <3>2. LiveView'[r] = FALSE
      BY <2>2, LiveIs DEF Terminal
    <3> QED BY <2>1, <3>1, <3>2
            DEF Contract!SubmitStep, Contract!Answered, Contract!Answers, Contract!Becomes
  <2>3. CASE caller' = [caller EXCEPT ![r] = "cancelled"] /\ state'[r] \in Terminal
    <3>1. SubmitView'[r] = "cancelled"
      BY <1>1, <1>2, <2>3
    <3>2. LiveView'[r] = FALSE
      BY <2>3, LiveIs DEF Terminal
    <3> QED BY <2>1, <3>1, <3>2 DEF Contract!SubmitStep, Contract!Cancelled, Contract!Becomes
  <2>4. CASE caller' = [caller EXCEPT ![r] = "waiting"] /\ QuietTurn
    <3>1. SubmitView'[r] = "waiting"
      BY <1>1, <1>2, <2>4
    <3>2. Quiet(r)
      BY <2>4 DEF QuietTurn
    <3>3. LiveView'[r] \in {LiveView[r], FALSE}
      <4>1. state'[r] = state[r] \/ state'[r] \in Terminal
        BY <3>2 DEF Quiet, Lifecycle!Unmoved, Lifecycle!Ended, Lifecycle!TerminalStates, Terminal
      <4>2. state'[r] \in Terminal => LiveView'[r] = FALSE
        BY LiveIs DEF Terminal
      <4>3. state'[r] = state[r] => LiveView'[r] = LiveView[r]
        BY LiveIs
      <4> QED BY <4>1, <4>2, <4>3
    <3> QED BY <2>1, <3>1, <3>3
            DEF Contract!SubmitStep, Contract!Unmoved, Contract!Resolved, Contract!Becomes
  <2> QED BY <1>4, <2>2, <2>3, <2>4, CallerTurn
<1>5. CASE Receive(r)
  <2>1. /\ caller[r] = "waiting" /\ future[r] # "open" /\ caller'[r] = future[r]
        /\ state'[r] = state[r]
    BY <1>2, <1>5 DEF Receive, ledger
  <2>2. state[r] \notin {"pending", "running", "none"}
    BY <1>2, <2>1, LiveHasOpenFuture DEF RequestSound
  <2>3. future[r] \in Contract!Answers \cup {"cancelled"}
    <3>1. state[r] \in Lifecycle!TerminalStates
      <4>1. state[r] \in States
        BY DEF IInv, TypeOK, LedgerType
      <4> QED BY <2>2, <4>1 DEF States, Terminal, Lifecycle!TerminalStates
    <3>2. future[r] \in Lifecycle!Resolutions(state[r])
      BY <3>1 DEF IInv, OutcomeRecordedOnce, Lifecycle!ResolvedOnce, Lifecycle!Consistent
    <3>3. \A x \in Lifecycle!TerminalStates :
            Lifecycle!Resolutions(x) \subseteq Contract!Answers \cup {"cancelled"}
      BY DEF Lifecycle!Resolutions, Lifecycle!TerminalStates, Contract!Answers
    <3> QED BY <3>1, <3>2, <3>3
  <2>4. SubmitView[r] = "waiting" /\ SubmitView'[r] = future[r]
    BY <1>1, <2>1, <2>3 DEF Contract!Answers
  <2>5. LiveView'[r] = FALSE
    BY <2>1, <2>2, LiveIs
  <2> QED BY <2>3, <2>4, <2>5
          DEF Contract!SubmitStep, Contract!Answered, Contract!Cancelled, Contract!Becomes
<1> QED BY <1>3, <1>4, <1>5

\* The scheduler keeps what submit() promises: it refuses or admits, answers a caller only
\* when its envelope has ended, and once.
THEOREM ContractIsKept == Spec => KeepsSubmitContract
<1>1. Init => Contract!Init
  <2> SUFFICES ASSUME Init PROVE Contract!Init
    OBVIOUS
  <2>1. \A r \in Requests : caller[r] = "idle" /\ state[r] = "none"
    BY DEF Init
  <2>2. \A r \in Requests : (state[r] \in {"pending", "running"}) = FALSE
    <3> SUFFICES ASSUME NEW r \in Requests PROVE (state[r] \in {"pending", "running"}) = FALSE
      OBVIOUS
    <3> DEFINE is == state[r] \in {"pending", "running"}
    <3>1. is \in BOOLEAN /\ ~is
      BY <2>1
    <3> HIDE DEF is
    <3>2. is = FALSE
      BY <3>1
    <3> QED BY <3>2 DEF is
  <2>3. LiveView = [r \in Requests |-> FALSE]
    BY <2>2, Zenon DEF LiveView
  <2>4. SubmitView = [r \in Requests |-> "idle"]
    BY <2>1 DEF SubmitView
  <2> QED BY <2>3, <2>4 DEF Contract!Init
<1>2. IInv /\ [Next]_vars => [Contract!Next]_Contract!vars
  BY CallerMoves, ContractOfOthers, ContractOfCaller DEF Contract!Next
<1> QED BY <1>1, <1>2, Invariance, PTL DEF Spec, KeepsSubmitContract, Contract!Spec

\* What ended has ended: a late completion, timer or cancellation changes
\* neither the state of a request, nor its future, nor the answer in it.
THEOREM EndedForGood == Spec => ResolvedForGood
<1> DEFINE Kept == \A r \in Requests :
                     state[r] \in Terminal => state'[r] = state[r] /\ future'[r] = future[r]
                                              /\ answer'[r] = answer[r]
<1>1. IInv /\ [Next]_vars => [Kept]_vars
  <2> SUFFICES ASSUME IInv, [Next]_vars, NEW r \in Requests, state[r] \in Terminal
               PROVE  state'[r] = state[r] /\ future'[r] = future[r] /\ answer'[r] = answer[r]
    OBVIOUS
  <2>1. Lifecycle!Unmoved(r)
    BY LifecycleStep
       DEF Lifecycle!LifecycleStep, Lifecycle!Admitted, Lifecycle!Dispatched, Lifecycle!Ended, Terminal
  <2>2. answer'[r] = answer[r]
    <3>1. CASE FinishOne
      BY <3>1, FinishEffect DEF Terminal
    <3>2. CASE ~FinishOne
      BY <3>2 DEF Next, LoopNext, WorkerNext, Exited, Start, Loaded, Submit, BeginWait, Receive,
                  Timeout, Cancel, Dispatch, Sleep, StopDriver, CollectResults, EndExecute,
                  WatchdogFires, BeginShutdown, Drained, GraceExpires, DriverCancelled, CloseReturns,
                  CallStarts, CallReturns, CloseStarts, Tick, vars, batch
    <3> QED BY <3>1, <3>2
  <2> QED BY <2>1, <2>2 DEF Lifecycle!Unmoved
<1> QED BY <1>1, Invariance, PTL DEF Spec, ResolvedForGood

\* Readiness that is lost stays lost.
THEOREM ReadinessLostForGood == Spec => ReadinessIsNotRegained
<1>1. IInv /\ [Next]_vars => [life \notin {"new", "loading"} /\ ~Ready => ~Ready']_vars
  <2> SUFFICES ASSUME IInv, [Next]_vars, life \notin {"new", "loading"}, ~Ready PROVE ~Ready'
    OBVIOUS
  <2>1. ~accepting
    BY DEF IInv, OpenDoorIsServed, Ready
  <2>2. ~accepting'
    BY <2>1 DEF Next, LoopNext, WorkerNext, Exited, Start, Loaded, Submit, BeginWait, Receive,
                Timeout, Cancel, Dispatch, Sleep, StopDriver, CollectResults, FinishOne, EndExecute,
                WatchdogFires, BeginShutdown, Drained, GraceExpires, DriverCancelled, CloseReturns,
                CallStarts, CallReturns, CloseStarts, Tick, CloseDoor, vars, flags
  <2> QED BY <2>2 DEF Ready
<1> QED BY <1>1, Invariance, PTL DEF Spec, ReadinessIsNotRegained

-----------------------------------------------------------------------------
(* Sequences without repetitions.                                          *)

\* A sequence has no more elements than places.
LEMMA ElementsBound ==
  ASSUME NEW S, NEW q \in Seq(S)
  PROVE  IsFiniteSet(Elements(q)) /\ Cardinality(Elements(q)) <= Len(q)
<1>1. Len(q) \in Nat /\ DOMAIN q = 1..Len(q) /\ q \in [1..Len(q) -> Elements(q)]
  BY DEF Elements
<1>2. \A x \in Elements(q) : \E k \in 1..Len(q) : q[k] = x
  BY <1>1 DEF Elements
<1>3. ExistsSurjection(1..Len(q), Elements(q))
  BY <1>1, <1>2 DEF ExistsSurjection, Surjection
<1>4. IsFiniteSet(Elements(q))
  BY <1>1, <1>3, FS_NatSurjection
<1>5. Cardinality(Elements(q)) <= Len(q)
  BY <1>1, <1>3, FS_SurjCardinalityBound
<1> QED BY <1>4, <1>5

\* Of two different elements one is before the other.
LEMMA OneIsBefore ==
  ASSUME NEW S, NEW q \in Seq(S), NEW a \in Elements(q), NEW b \in Elements(q), a # b
  PROVE  Before(q, a, b) \/ Before(q, b, a)
<1>1. PICK i \in DOMAIN q, j \in DOMAIN q : q[i] = a /\ q[j] = b
  BY DEF Elements
<1>2. DOMAIN q = 1..Len(q) /\ i \in Int /\ j \in Int /\ i # j
  BY <1>1
<1>3. i < j \/ j < i
  BY <1>2
<1> QED BY <1>1, <1>3 DEF Before

\* Without repetitions, no element is both before and after another.
LEMMA BeforeIsStrict ==
  ASSUME NEW S, NEW q \in Seq(S), Distinct(q), NEW a, NEW b, Before(q, a, b)
  PROVE  a \in Elements(q) /\ b \in Elements(q) /\ a # b /\ ~Before(q, b, a)
<1>1. PICK i \in DOMAIN q, j \in DOMAIN q : i < j /\ q[i] = a /\ q[j] = b
  BY DEF Before
<1>2. DOMAIN q = 1..Len(q)
  OBVIOUS
<1>3. a # b
  <2>1. a = b => i = j
    BY <1>1 DEF Distinct
  <2> QED BY <1>1, <1>2, <2>1
<1>4. ASSUME NEW k \in DOMAIN q, NEW l \in DOMAIN q, k < l, q[k] = b, q[l] = a PROVE FALSE
  <2>1. k = j /\ l = i
    BY <1>1, <1>4 DEF Distinct
  <2> QED BY <1>1, <1>2, <1>4, <2>1
<1> QED BY <1>1, <1>3, <1>4 DEF Before, Elements

\* A sequence that puts nothing in a new order keeps the order of what it holds.
LEMMA OrderKept ==
  ASSUME NEW S, NEW q \in Seq(S), Distinct(q), NEW s \in Seq(S),
         \A x, y : Before(s, x, y) => Before(q, x, y),
         NEW a \in Elements(s), NEW b \in Elements(s), Before(q, a, b)
  PROVE  Before(s, a, b)
<1>1. a # b /\ ~Before(q, b, a)
  BY BeforeIsStrict
<1>2. ~Before(s, b, a)
  BY <1>1
<1> QED BY <1>1, <1>2, OneIsBefore

\* What is appended comes after the rest, and nothing else changes places.
LEMMA AppendOrder ==
  ASSUME NEW S, NEW q \in Seq(S), NEW z \in S
  PROVE  /\ \A a \in Elements(q) : Before(Append(q, z), a, z)
         /\ \A a, b : Before(q, a, b) => Before(Append(q, z), a, b)
         /\ \A a, b : Before(Append(q, z), a, b) =>
              Before(q, a, b) \/ (a \in Elements(q) /\ b = z)
<1> DEFINE s == Append(q, z)
<1>1. /\ Len(q) \in Nat /\ DOMAIN q = 1..Len(q) /\ DOMAIN s = 1..(Len(q) + 1)
      /\ s[Len(q) + 1] = z /\ \A k \in 1..Len(q) : s[k] = q[k]
  OBVIOUS
<1> HIDE DEF s
<1>2. ASSUME NEW a \in Elements(q) PROVE Before(s, a, z)
  <2>1. PICK i \in 1..Len(q) : q[i] = a
    BY <1>1 DEF Elements
  <2>2. /\ i \in DOMAIN s /\ Len(q) + 1 \in DOMAIN s /\ i < Len(q) + 1
        /\ s[i] = a /\ s[Len(q) + 1] = z
    BY <1>1, <2>1
  <2> QED BY <2>2 DEF Before
<1>3. ASSUME NEW a, NEW b, Before(q, a, b) PROVE Before(s, a, b)
  <2>1. PICK i \in 1..Len(q), j \in 1..Len(q) : i < j /\ q[i] = a /\ q[j] = b
    BY <1>1, <1>3 DEF Before
  <2>2. i \in DOMAIN s /\ j \in DOMAIN s /\ s[i] = a /\ s[j] = b
    BY <1>1, <2>1
  <2> QED BY <2>1, <2>2 DEF Before
<1>4. ASSUME NEW a, NEW b, Before(s, a, b)
      PROVE  Before(q, a, b) \/ (a \in Elements(q) /\ b = z)
  <2>1. PICK i \in 1..(Len(q) + 1), j \in 1..(Len(q) + 1) : i < j /\ s[i] = a /\ s[j] = b
    BY <1>1, <1>4 DEF Before
  <2>2. i \in DOMAIN q /\ q[i] = a
    BY <1>1, <2>1
  <2>3. CASE j = Len(q) + 1
    BY <1>1, <2>1, <2>2, <2>3 DEF Elements
  <2>4. CASE j # Len(q) + 1
    <3>1. j \in DOMAIN q /\ q[j] = b
      BY <1>1, <2>1, <2>4
    <3> QED BY <2>1, <2>2, <3>1 DEF Before
  <2> QED BY <2>3, <2>4
<1> QED BY <1>2, <1>3, <1>4 DEF s

\* What is after an element of the rest of a queue is in that rest, and after it.
LEMMA SuffixOrder ==
  ASSUME NEW S, NEW q \in Seq(S), Distinct(q), NEW n \in 0..Len(q),
         NEW a \in Elements(SubSeq(q, n + 1, Len(q))), NEW b
  PROVE  LET rest == SubSeq(q, n + 1, Len(q))
         IN Before(q, a, b) <=> Before(rest, a, b)
<1> DEFINE rest == SubSeq(q, n + 1, Len(q))
<1>1. /\ rest \in Seq(S) /\ DOMAIN rest = 1..(Len(q) - n)
      /\ \A i \in 1..(Len(q) - n) : rest[i] = q[n + i]
  OBVIOUS
<1>2. DOMAIN q = 1..Len(q) /\ Len(q) \in Nat /\ n \in Nat /\ n <= Len(q)
  OBVIOUS
<1>3. PICK k \in DOMAIN rest : rest[k] = a
  BY DEF Elements
<1> HIDE DEF rest
<1>4. k \in 1..(Len(q) - n) /\ n + k \in DOMAIN q /\ q[n + k] = a
  BY <1>1, <1>2, <1>3
<1>5. ASSUME Before(q, a, b) PROVE Before(rest, a, b)
  <2>1. PICK i \in DOMAIN q, j \in DOMAIN q : i < j /\ q[i] = a /\ q[j] = b
    BY <1>5 DEF Before
  <2>2. i = n + k
    BY <1>4, <2>1 DEF Distinct
  <2>3. j - n \in 1..(Len(q) - n) /\ k < j - n
    BY <1>2, <1>4, <2>1, <2>2
  <2>4. rest[j - n] = b
    BY <1>1, <1>2, <2>1, <2>3
  <2> QED BY <1>1, <1>3, <2>3, <2>4 DEF Before
<1>6. ASSUME Before(rest, a, b) PROVE Before(q, a, b)
  <2>1. PICK i \in 1..(Len(q) - n), j \in 1..(Len(q) - n) : i < j /\ rest[i] = a /\ rest[j] = b
    BY <1>1, <1>6 DEF Before
  <2>2. /\ n + i \in DOMAIN q /\ n + j \in DOMAIN q /\ n + i < n + j
        /\ q[n + i] = a /\ q[n + j] = b
    BY <1>1, <1>2, <2>1
  <2> QED BY <2>2 DEF Before
<1> QED BY <1>5, <1>6 DEF rest

-----------------------------------------------------------------------------
(* What a dispatch and an admission do to the queue.                       *)

\* A dispatch splits the live and punctual members of the queue, in their order:
\* no more than a batch's worth run, and the others stay.
LEMMA DispatchQueue ==
  ASSUME IInv, Dispatch
  PROVE  \E s \in Seq(Requests) : \E n \in 1..Len(s) :
           /\ n <= BatchLimit
           /\ running' = SubSeq(s, 1, n) /\ pending' = SubSeq(s, n + 1, Len(s))
           /\ Distinct(s) /\ Len(s) <= Len(pending)
           /\ Elements(s) = {r \in Requests : state[r] = "pending" /\ now < deadline[r]}
           /\ \A a, b : Before(s, a, b) => Before(pending, a, b)
<1> DEFINE n(c) == IF Len(c.pending) < BatchLimit THEN Len(c.pending) ELSE BatchLimit
           taken(c) == SubSeq(c.pending, 1, n(c))
           rest(c) == SubSeq(c.pending, n(c) + 1, Len(c.pending))
<1>1. PICK c \in Reclaimed :
        /\ ShouldDispatch(c.pending)
        /\ Commit(Ledger(Mark(c.state, Elements(taken(c)), "running"), c.future, c.outcomes,
                         rest(c)))
        /\ BeginExecute(taken(c))
  BY DEF Dispatch
<1>2. c \in ReclaimDeadPending(state, future, outcomes)
  BY DEF Reclaimed
<1>3. /\ c.pending \in Seq(Requests) /\ Distinct(c.pending) /\ Len(c.pending) <= Len(pending)
      /\ Elements(c.pending) = {r \in Requests : c.state[r] = "pending"}
      /\ \A a, b : Before(c.pending, a, b) => Before(pending, a, b)
  BY <1>2, ReclaimQueue
<1>4. n(c) \in 1..Len(c.pending) /\ n(c) <= BatchLimit
  <2>1. Len(c.pending) \in Nat /\ Len(c.pending) # 0
    BY <1>1, <1>3 DEF ShouldDispatch
  <2>2. BatchLimit \in Nat /\ BatchLimit >= 1
    BY SizeAssumption DEF BatchLimit
  <2> QED BY <2>1, <2>2
<1>5. running' = taken(c) /\ pending' = rest(c)
  BY <1>1 DEF Commit, Ledger, BeginExecute
<1>6. \A r \in Requests : c.state[r] = "pending" <=> state[r] = "pending" /\ now < deadline[r]
  <2> SUFFICES ASSUME NEW r \in Requests
               PROVE  c.state[r] = "pending" <=> state[r] = "pending" /\ now < deadline[r]
    OBVIOUS
  <2>1. now \in Int /\ deadline[r] \in Int
    BY DEF IInv, TypeOK
  <2>2. state[r] = "pending" => r \in Elements(pending)
    BY DEF IInv, QueueAgreement
  <2>3. r \in Overdue(state) <=> state[r] = "pending" /\ ~(now < deadline[r])
    BY <2>1, <2>2 DEF Overdue
  <2>4. CASE r \in Overdue(state)
    <3>1. c.state[r] = "expired"
      BY <1>2, <2>4, ReclaimEffect
    <3> QED BY <2>3, <2>4, <3>1
  <2>5. CASE r \notin Overdue(state)
    <3>1. c.state[r] = state[r]
      BY <1>2, <2>5, ReclaimEffect
    <3> QED BY <2>3, <2>5, <3>1
  <2> QED BY <2>4, <2>5
<1>7. Elements(c.pending) = {r \in Requests : state[r] = "pending" /\ now < deadline[r]}
  BY <1>3, <1>6
<1> QED BY <1>3, <1>4, <1>5, <1>7

\* An admission puts the request behind what is left of the queue, which has room.
LEMMA AdmitQueue ==
  ASSUME IInv, NEW q \in Requests, NEW age \in Ages, NEW e \in Reclaimed,
         Submit(q, age), Admit(q, age, e)
  PROVE  \E s \in Seq(Requests) :
           /\ pending' = Append(s, q) /\ Len(s) < PendingCapacity /\ q \notin Elements(s)
           /\ Elements(s) = {r \in Requests \ {q} : state'[r] = "pending"}
           /\ \A a, b : Before(s, a, b) => Before(pending, a, b)
           /\ \A r \in Requests \ {q} : state'[r] = "pending" => state[r] = "pending"
<1>1. caller[q] = "idle" /\ state[q] = "none"
  BY DEF Submit, IInv, CallersSound
<1>2. PICK c \in Reclaimed : HasRoom(c.pending) /\ Admit(q, age, c)
  <2>1. PICK c \in Reclaimed :
          IF age >= Deadline THEN Reject(q, "deadline", c)
          ELSE IF ~Ready THEN Reject(q, "unavailable", c)
          ELSE IF ~HasRoom(c.pending) THEN Reject(q, "queue_full", c)
          ELSE Admit(q, age, c)
    BY DEF Submit
  <2>2. caller \in [Requests -> Callers] /\ caller'[q] = "admitted"
    BY DEF IInv, TypeOK, Admit
  <2>3. ASSUME NEW reply \in {"deadline", "unavailable", "queue_full"}, Reject(q, reply, c)
        PROVE  FALSE
    BY <2>2, <2>3 DEF Reject
  <2> QED BY <2>1, <2>3
<1>3. /\ c.pending \in Seq(Requests) /\ Distinct(c.pending)
      /\ Elements(c.pending) = {r \in Requests : c.state[r] = "pending"}
      /\ \A a, b : Before(c.pending, a, b) => Before(pending, a, b)
  BY ReclaimQueue DEF Reclaimed
<1>4. /\ state' = Mark(c.state, {q}, "pending") /\ pending' = Append(c.pending, q)
  BY <1>2 DEF Admit, Commit, Ledger, Put
<1>5. \A r \in Requests : c.state[r] \in {state[r], "expired"}
  BY ReclaimEffect DEF Reclaimed
<1>6. \A r \in Requests \ {q} : state'[r] = c.state[r]
  BY <1>4 DEF Mark
<1>7. Elements(c.pending) = {r \in Requests \ {q} : state'[r] = "pending"}
  BY <1>1, <1>3, <1>5, <1>6
<1> QED BY <1>2, <1>3, <1>4, <1>5, <1>6, <1>7 DEF HasRoom

-----------------------------------------------------------------------------
(* The inductive invariant.                                                *)

\* No step puts a driver's turn inside a submission.
LEMMA TurnsStep ==
  ASSUME IInv, TurnsAreWhole, [Next]_vars
  PROVE  TurnsAreWhole'
<1> USE DEF TurnsAreWhole, requests, task
<1>1. ASSUME UNCHANGED caller, driver' = driver \/ driver' \notin {"finishing", "deciding"}
      PROVE  TurnsAreWhole'
  BY <1>1
<1>2. ASSUME NEW q \in Requests, NEW age \in Ages, Submit(q, age) PROVE TurnsAreWhole'
  <2>1. driver \notin {"finishing", "deciding"}
    BY <1>2 DEF Submit, LoopIdle
  <2>2. driver' \notin {"finishing", "deciding"}
    BY <1>2, <2>1 DEF Submit, Reject, Admit, NotifyAll
  <2> QED BY <2>2
<1>3. ASSUME NEW q \in Requests, BeginWait(q) \/ Timeout(q) \/ Cancel(q) \/ Receive(q)
      PROVE  TurnsAreWhole'
  <2>1. driver' = driver \/ driver' \notin {"finishing", "deciding"}
    BY <1>3 DEF BeginWait, Timeout, Cancel, Receive, Leave, NotifyAll
  <2>2. \A r \in Requests : caller'[r] = "admitted" => caller[r] = "admitted"
    <3>1. caller \in [Requests -> Callers]
      BY DEF IInv, TypeOK
    <3>2. CASE BeginWait(q) \/ Timeout(q) \/ Cancel(q)
      BY <3>1, <3>2, CallerTurn
    <3>3. CASE Receive(q)
      <4>1. future[q] # "admitted" /\ caller' = [caller EXCEPT ![q] = future[q]]
        BY <3>3 DEF Receive, IInv, TypeOK, Futures
      <4> QED BY <3>1, <4>1
    <3> QED BY <1>3, <3>2, <3>3
  <2> QED BY <2>1, <2>2
<1>4. CASE Start \/ Loaded \/ Dispatch \/ Sleep \/ StopDriver \/ FinishOne \/ WatchdogFires
  BY <1>1, <1>4 DEF Start, Loaded, Dispatch, BeginExecute, Sleep, StopDriver, FinishOne,
                    WatchdogFires
<1>5. CASE CollectResults
  BY <1>5 DEF CollectResults, LoopIdle
<1>6. CASE EndExecute
  BY <1>6 DEF EndExecute
<1>7. CASE BeginShutdown \/ Drained \/ GraceExpires \/ DriverCancelled \/ CloseReturns
  BY <1>1, <1>7 DEF BeginShutdown, Drained, GraceExpires, DriverCancelled, CloseReturns, NotifyAll
<1>8. CASE CallStarts \/ CallReturns \/ CloseStarts \/ Tick \/ UNCHANGED vars
  BY <1>1, <1>8 DEF CallStarts, CallReturns, CloseStarts, Tick, vars
<1> QED BY <1>2, <1>3, <1>4, <1>5, <1>6, <1>7, <1>8 DEF Next, LoopNext, WorkerNext, Exited

\* Time does not go back, and a request keeps the time of its admission.
LEMMA TimesKept ==
  ASSUME IInv, [Next]_vars
  PROVE  /\ now' >= now
         /\ \/ admittedAt' = admittedAt
            \/ \E q \in Requests, age \in Ages, e \in Reclaimed : Submit(q, age) /\ Admit(q, age, e)
<1> USE DEF requests, times
<1>0. now \in Nat
  BY DEF IInv, TypeOK
<1>1. ASSUME NEW q \in Requests, NEW age \in Ages, Submit(q, age)
      PROVE  /\ now' >= now
             /\ \/ admittedAt' = admittedAt
                \/ \E e \in Reclaimed : Submit(q, age) /\ Admit(q, age, e)
  <2>1. now' = now
    BY <1>1 DEF Submit
  <2> QED BY <1>0, <1>1, <2>1, SubmitTurn
<1>2. CASE Start \/ Loaded \/ Dispatch \/ Sleep \/ StopDriver \/ CollectResults \/ FinishOne
           \/ EndExecute \/ WatchdogFires
  BY <1>0, <1>2 DEF Start, Loaded, Dispatch, Sleep, StopDriver, CollectResults, FinishOne,
                    EndExecute, WatchdogFires
<1>3. CASE \E q \in Requests : BeginWait(q) \/ Receive(q) \/ Timeout(q) \/ Cancel(q)
  BY <1>0, <1>3 DEF BeginWait, Receive, Timeout, Cancel
<1>4. CASE BeginShutdown \/ Drained \/ GraceExpires \/ DriverCancelled \/ CloseReturns
           \/ WorkerNext \/ Tick \/ UNCHANGED vars
  BY <1>0, <1>4 DEF BeginShutdown, Drained, GraceExpires, DriverCancelled, CloseReturns,
              WorkerNext, CallStarts, CallReturns, CloseStarts, Tick, vars
<1> QED BY <1>1, <1>2, <1>3, <1>4 DEF Next, LoopNext, Exited

\* The bounds and the order of admission survive every step.
LEMMA QueueInOrderStep ==
  ASSUME IInv, QueueInOrder, [Next]_vars
  PROVE  QueueInOrder'
<1> DEFINE Times(q) == /\ \A r \in Elements(q) : admittedAt[r] \in 0..now
                       /\ \A a, b \in Elements(q) :
                            Before(q, a, b) => admittedAt[a] <= admittedAt[b]
<1>0. /\ now \in Nat /\ now' \in Nat /\ admittedAt \in [Requests -> Int]
      /\ PendingCapacity \in Nat /\ BatchLimit \in Nat
      /\ pending \in Seq(Requests) /\ running \in Seq(Requests) /\ pending' \in Seq(Requests)
      /\ Len(pending) <= PendingCapacity /\ Len(running) <= BatchLimit /\ Times(pending)
      /\ Distinct(pending) /\ Elements(pending) = {r \in Requests : state[r] = "pending"}
  BY TypeStep, SizeAssumption DEF IInv, TypeOK, QueueInOrder, QueueAgreement, BatchLimit
<1>1. Len(running') <= BatchLimit
  <2>1. CASE Dispatch
    <3>1. PICK s \in Seq(Requests) :
            \E n \in 1..Len(s) : n <= BatchLimit /\ running' = SubSeq(s, 1, n)
      BY <2>1, DispatchQueue
    <3>2. PICK n \in 1..Len(s) : n <= BatchLimit /\ running' = SubSeq(s, 1, n)
      BY <3>1
    <3>3. Len(running') = n
      BY <3>2
    <3> QED BY <3>2, <3>3
  <2>2. CASE ~Dispatch
    <3>1. running' = running \/ running' = << >>
      BY <2>2, BatchChange
    <3> QED BY <1>0, <3>1
  <2> QED BY <2>1, <2>2
<1>2. ASSUME admittedAt' = admittedAt, Len(pending') <= Len(pending),
             Elements(pending') \subseteq Elements(pending),
             \A a, b : Before(pending', a, b) => Before(pending, a, b)
      PROVE  QueueInOrder'
  <2>1. Len(pending') <= PendingCapacity
    BY <1>0, <1>2
  <2>2. now' >= now
    BY TimesKept
  <2>3. \A r \in Elements(pending') : admittedAt'[r] \in 0..now'
    BY <1>0, <1>2, <2>2
  <2>4. \A a, b \in Elements(pending') :
          Before(pending', a, b) => admittedAt'[a] <= admittedAt'[b]
    BY <1>0, <1>2
  <2> QED BY <1>1, <2>1, <2>3, <2>4 DEF QueueInOrder, BatchLimit
<1>3. ASSUME NEW q \in Requests, NEW age \in Ages, NEW e \in Reclaimed,
             Submit(q, age), Admit(q, age, e)
      PROVE  QueueInOrder'
  <2>1. PICK s \in Seq(Requests) :
          /\ pending' = Append(s, q) /\ Len(s) < PendingCapacity /\ q \notin Elements(s)
          /\ Elements(s) = {r \in Requests \ {q} : state'[r] = "pending"}
          /\ \A a, b : Before(s, a, b) => Before(pending, a, b)
          /\ \A r \in Requests \ {q} : state'[r] = "pending" => state[r] = "pending"
    BY <1>3, AdmitQueue
  <2>2. Len(pending') <= PendingCapacity
    BY <1>0, <2>1
  <2>3. /\ now' = now /\ admittedAt'[q] = now
        /\ \A r \in Requests \ {q} : admittedAt'[r] = admittedAt[r]
    BY <1>0, <1>3 DEF Submit, Admit
  <2>4. Elements(s) \subseteq Elements(pending) \ {q}
    BY <1>0, <2>1
  <2>5. Elements(pending') = Elements(s) \cup {q}
    <3>1. caller[q] = "idle"
      BY <1>3 DEF Submit
    <3>2. Elements(pending') = {r \in Requests : state'[r] = "pending"} /\ state'[q] = "pending"
      BY <1>3, <3>1, AdmitEffect DEF Lifecycle!Admitted
    <3> QED BY <2>1, <3>2
  <2>6. \A r \in Elements(pending') : admittedAt'[r] \in 0..now'
    BY <1>0, <2>3, <2>4, <2>5
  <2>7. ASSUME NEW a \in Elements(pending'), NEW b \in Elements(pending'), Before(pending', a, b)
        PROVE  admittedAt'[a] <= admittedAt'[b]
    <3>1. Before(s, a, b) \/ (a \in Elements(s) /\ b = q)
      BY <2>1, <2>7, AppendOrder
    <3>2. CASE a \in Elements(s) /\ b = q
      BY <1>0, <2>3, <2>4, <3>2
    <3>3. CASE Before(s, a, b)
      <4>1. a \in Elements(s) /\ b \in Elements(s)
        BY <3>3 DEF Before, Elements
      <4> QED BY <1>0, <2>1, <2>3, <2>4, <3>3, <4>1
    <3> QED BY <3>1, <3>2, <3>3
  <2> QED BY <1>1, <2>2, <2>6, <2>7 DEF QueueInOrder, BatchLimit
<1>4. ASSUME QuietTurn, admittedAt' = admittedAt PROVE QueueInOrder'
  <2>1. Elements(pending') \subseteq Elements(pending)
    BY <1>0, <1>4
       DEF QuietTurn, Quiet, Lifecycle!Unmoved, Lifecycle!Ended, Lifecycle!TerminalStates
  <2> QED BY <1>2, <1>4, <2>1 DEF QuietTurn
<1>5. ASSUME Dispatch, admittedAt' = admittedAt PROVE QueueInOrder'
  <2>0. PICK s \in Seq(Requests) : \E n \in 1..Len(s) :
          /\ pending' = SubSeq(s, n + 1, Len(s)) /\ Distinct(s) /\ Len(s) <= Len(pending)
          /\ Elements(s) = {r \in Requests : state[r] = "pending" /\ now < deadline[r]}
          /\ \A a, b : Before(s, a, b) => Before(pending, a, b)
    BY <1>5, DispatchQueue
  <2>1. PICK n \in 1..Len(s) :
          /\ pending' = SubSeq(s, n + 1, Len(s)) /\ Distinct(s) /\ Len(s) <= Len(pending)
          /\ Elements(s) = {r \in Requests : state[r] = "pending" /\ now < deadline[r]}
          /\ \A a, b : Before(s, a, b) => Before(pending, a, b)
    BY <2>0
  <2>2. n \in 0..Len(s) /\ Len(pending') <= Len(s)
    BY <2>1
  <2>3. Elements(pending') \subseteq Elements(s)
    BY <2>1, <2>2, SplitQueue
  <2>4. \A a, b : Before(pending', a, b) => Before(s, a, b)
    <3> SUFFICES ASSUME NEW a, NEW b, Before(pending', a, b) PROVE Before(s, a, b)
      OBVIOUS
    <3>1. a \in Elements(pending')
      BY DEF Before, Elements
    <3> QED BY <2>1, <2>2, <3>1, SuffixOrder
  <2>5. Len(pending') <= Len(pending)
    BY <1>0, <2>1, <2>2
  <2>6. Elements(s) \subseteq Elements(pending)
    BY <1>0, <2>1
  <2> QED BY <1>2, <1>5, <2>1, <2>3, <2>4, <2>5, <2>6
<1>6. ASSUME FinishOne, admittedAt' = admittedAt PROVE QueueInOrder'
  <2>1. pending' = pending
    BY <1>6, FinishEffect
  <2> QED BY <1>0, <1>2, <1>6, <2>1
<1>7. CASE admittedAt' = admittedAt
  <2>1. ASSUME NEW q \in Requests, NEW age \in Ages, NEW e \in Reclaimed,
               Submit(q, age), Admit(q, age, e)
        PROVE  QueueInOrder'
    BY <1>3, <2>1
  <2> QED BY <1>4, <1>5, <1>6, <1>7, <2>1, Turns
<1> QED BY <1>3, <1>7, TimesKept

\* A driver that sleeps on has not been notified: its alarm, the door and the times of
\* admission are as they were, and the queue has at most lost its dead members.
LEMMA SleepsOn ==
  ASSUME IInv, [Next]_vars, ~Sleep, driver' = "waiting", life' # "cancelling"
  PROVE  /\ driver = "waiting" /\ life # "cancelling"
         /\ UNCHANGED <<alarm, accepting, admittedAt>> /\ QuietTurn
<1> USE DEF requests, times, task, flags, lifetime
<1>1. ASSUME NEW q \in Requests, NEW age \in Ages, Submit(q, age)
      PROVE  /\ driver = "waiting" /\ life # "cancelling"
             /\ UNCHANGED <<alarm, accepting, admittedAt>> /\ QuietTurn
  <2>1. ASSUME NEW c \in Reclaimed, Admit(q, age, c) PROVE FALSE
    BY <2>1 DEF Admit, NotifyAll
  <2>2. QuietTurn /\ UNCHANGED <<times, task>>
    BY <1>1, <2>1, SubmitTurn
  <2> QED BY <1>1, <2>2 DEF Submit
<1>2. ASSUME NEW q \in Requests, BeginWait(q) \/ Timeout(q) \/ Cancel(q) \/ Receive(q)
      PROVE  /\ driver = "waiting" /\ life # "cancelling"
             /\ UNCHANGED <<alarm, accepting, admittedAt>> /\ QuietTurn
  <2>1. UNCHANGED <<times, flags, lifetime>>
    BY <1>2 DEF BeginWait, Timeout, Cancel, Receive
  <2>2. UNCHANGED <<ledger, task>> \/ NotifyAll
    BY <1>2 DEF BeginWait, Timeout, Cancel, Receive, Leave
  <2>3. ~NotifyAll
    BY DEF NotifyAll
  <2>4. QuietTurn
    BY <2>2, <2>3, UnchangedTurn
  <2> QED BY <2>1, <2>2, <2>3, <2>4
<1>3. CASE Start \/ Loaded
  BY <1>3, UnchangedTurn DEF Start, Loaded, IInv, DriverSound
<1>4. CASE Dispatch \/ StopDriver \/ CollectResults \/ FinishOne \/ EndExecute \/ WatchdogFires
  BY <1>4 DEF Dispatch, BeginExecute, StopDriver, CollectResults, FinishOne, EndExecute,
              WatchdogFires, ActiveBatch
<1>5. CASE BeginShutdown \/ GraceExpires \/ DriverCancelled
  BY <1>5 DEF BeginShutdown, GraceExpires, DriverCancelled, NotifyAll
<1>6. CASE Drained \/ CloseReturns
  BY <1>6 DEF Drained, CloseReturns, IInv, DriverSound
<1>7. CASE CallStarts \/ CallReturns \/ CloseStarts \/ Tick \/ UNCHANGED vars
  BY <1>7, UnchangedTurn DEF CallStarts, CallReturns, CloseStarts, Tick, vars
<1> QED BY <1>1, <1>2, <1>3, <1>4, <1>5, <1>6, <1>7 DEF Next, LoopNext, WorkerNext, Exited

\* The head of what a quiet turn leaves of the queue was admitted no earlier.
LEMMA HeadGrowsYounger ==
  ASSUME IInv, QueueInOrder, [Next]_vars, QuietTurn, pending' # << >>
  PROVE  pending # << >> /\ admittedAt[Head(pending)] <= admittedAt[Head(pending')]
<1>1. /\ pending \in Seq(Requests) /\ pending' \in Seq(Requests) /\ Len(pending') <= Len(pending)
      /\ admittedAt \in [Requests -> Int]
  BY TypeStep DEF IInv, TypeOK, QuietTurn
<1>2. Elements(pending') \subseteq Elements(pending)
  BY DEF IInv, QueueAgreement, QuietTurn, Quiet, Lifecycle!Unmoved, Lifecycle!Ended,
         Lifecycle!TerminalStates
<1>3. pending # << >>
  BY <1>1
<1>4. 1 \in DOMAIN pending /\ 1 \in DOMAIN pending' /\ DOMAIN pending = 1..Len(pending)
      /\ Head(pending) = pending[1] /\ Head(pending') = pending'[1]
  BY <1>1, <1>3
<1>5. PICK k \in DOMAIN pending : pending[k] = Head(pending')
  BY <1>2, <1>4 DEF Elements
<1>6. CASE k = 1
  BY <1>1, <1>3, <1>4, <1>5, <1>6
<1>7. CASE k # 1
  <2>1. 1 < k
    BY <1>4, <1>5, <1>7
  <2>2. /\ Before(pending, Head(pending), Head(pending'))
        /\ Head(pending) \in Elements(pending) /\ Head(pending') \in Elements(pending)
    BY <1>4, <1>5, <2>1 DEF Before, Elements
  <2> QED BY <1>3, <2>2 DEF QueueInOrder
<1> QED BY <1>3, <1>6, <1>7

\* A driver that goes to sleep, or sleeps on, is going to be woken in time.
LEMMA SleepStep ==
  ASSUME IInv, QueueInOrder, SleepingDriverWakes, [Next]_vars
  PROVE  SleepingDriverWakes'
<1> SUFFICES ASSUME driver' = "waiting", life' # "cancelling"
             PROVE  /\ alarm' = NoTime => pending' = << >> /\ accepting'
                    /\ pending' # << >> =>
                         /\ Policy = "timed" /\ Len(pending') < MaxBatchSize
                         /\ alarm' <= admittedAt'[Head(pending')] + CollectionDelay
  BY DEF SleepingDriverWakes
<1>0. /\ now \in Nat /\ admittedAt \in [Requests -> Int] /\ alarm \in Int
      /\ CollectionDelay \in Nat /\ MaxBatchSize \in Nat
      /\ pending \in Seq(Requests) /\ pending' \in Seq(Requests)
  BY TypeStep, TimeAssumption, SizeAssumption DEF IInv, TypeOK
<1>1. CASE Sleep
  <2>1. PICK c \in Reclaimed :
          /\ ~ShouldDispatch(c.pending)
          /\ accepting \/ c.pending # << >>
          /\ Commit(c)
          /\ alarm' = IF c.pending # << >> /\ Policy = "timed"
                      THEN admittedAt[Head(c.pending)] + CollectionDelay ELSE NoTime
    BY <1>1 DEF Sleep
  <2>2. pending' = c.pending /\ accepting' = accepting /\ admittedAt' = admittedAt
    BY <1>1, <2>1 DEF Sleep, Commit, requests, times, flags
  <2>3. ASSUME pending' # << >>
        PROVE  /\ Policy = "timed" /\ Len(pending') < MaxBatchSize
               /\ alarm' = admittedAt[Head(pending')] + CollectionDelay /\ alarm' # NoTime
    <3>1. Policy = "timed" /\ ~(Len(pending') >= MaxBatchSize)
      BY <2>1, <2>2, <2>3 DEF ShouldDispatch
    <3>2. Len(pending') < MaxBatchSize
      BY <1>0, <3>1
    <3>3. alarm' = admittedAt[Head(pending')] + CollectionDelay
      BY <2>1, <2>2, <2>3, <3>1
    <3>4. Head(pending') \in Elements(pending')
      BY <1>0, <2>3 DEF Elements
    <3>5. QuietTurn
      BY <2>1, ReclaimedTurn
    <3>6. Head(pending') \in Elements(pending)
      BY <3>4, <3>5 DEF IInv, QueueAgreement, QuietTurn, Quiet, Lifecycle!Unmoved,
                        Lifecycle!Ended, Lifecycle!TerminalStates
    <3>7. admittedAt[Head(pending')] \in 0..now
      BY <3>6 DEF QueueInOrder
    <3>8. alarm' # NoTime
      BY <1>0, <3>3, <3>7 DEF NoTime
    <3> QED BY <3>1, <3>2, <3>3, <3>8
  <2>4. pending' # << >> => Head(pending') \in Requests
    BY <1>0
  <2>5. pending' # << >> => alarm' <= admittedAt'[Head(pending')] + CollectionDelay
    BY <1>0, <2>2, <2>3, <2>4
  <2>6. alarm' = NoTime => pending' = << >> /\ accepting'
    BY <2>1, <2>2, <2>3
  <2> QED BY <2>3, <2>5, <2>6
<1>2. CASE ~Sleep
  <2>1. /\ driver = "waiting" /\ life # "cancelling"
        /\ UNCHANGED <<alarm, accepting, admittedAt>> /\ QuietTurn
    BY <1>2, SleepsOn
  <2>2. /\ alarm = NoTime => pending = << >> /\ accepting
        /\ pending # << >> =>
             /\ Policy = "timed" /\ Len(pending) < MaxBatchSize
             /\ alarm <= admittedAt[Head(pending)] + CollectionDelay
    BY <2>1 DEF SleepingDriverWakes
  <2>3. pending' # << >> =>
          pending # << >> /\ admittedAt[Head(pending)] <= admittedAt[Head(pending')]
    BY <2>1, HeadGrowsYounger
  <2>4. Len(pending') <= Len(pending)
    BY <2>1 DEF QuietTurn
  <2>5. /\ pending' # << >> => Head(pending') \in Requests
        /\ pending # << >> => Head(pending) \in Requests
    BY <1>0
  <2>6. alarm' = NoTime => pending' = << >> /\ accepting'
    BY <2>1, <2>2, <2>3
  <2>7. ASSUME pending' # << >>
        PROVE  /\ Policy = "timed" /\ Len(pending') < MaxBatchSize
               /\ alarm' <= admittedAt'[Head(pending')] + CollectionDelay
    <3>1. /\ Policy = "timed" /\ Len(pending) < MaxBatchSize
          /\ alarm <= admittedAt[Head(pending)] + CollectionDelay
          /\ admittedAt[Head(pending)] <= admittedAt[Head(pending')]
      BY <2>2, <2>3, <2>7
    <3>2. admittedAt[Head(pending)] \in Int /\ admittedAt[Head(pending')] \in Int
      BY <1>0, <2>3, <2>5, <2>7
    <3>3. alarm <= admittedAt[Head(pending')] + CollectionDelay
      BY <1>0, <3>1, <3>2
    <3>4. Len(pending') < MaxBatchSize
      BY <1>0, <2>4, <3>1
    <3> QED BY <2>1, <3>1, <3>3, <3>4
  <2> QED BY <2>6, <2>7
<1> QED BY <1>1, <1>2

\* The invariant holds of every reachable state, with the one it rests on.
LEMMA QueueInvariance == Spec => [](IInv /\ QueueInv)
<1>1. Init => QueueInv
  <2> SUFFICES ASSUME Init PROVE QueueInv
    OBVIOUS
  <2>1. TurnsAreWhole /\ SleepingDriverWakes
    BY DEF Init, TurnsAreWhole, SleepingDriverWakes
  <2>2. pending = << >> /\ running = << >> /\ Len(pending) = 0 /\ Len(running) = 0
        /\ Elements(pending) = {}
    BY DEF Init, Elements
  <2>3. 0 <= PendingCapacity /\ 0 <= BatchLimit
    BY SizeAssumption DEF BatchLimit
  <2> QED BY <2>1, <2>2, <2>3 DEF QueueInv, QueueInOrder
<1>2. IInv /\ QueueInv /\ [Next]_vars => QueueInv'
  BY TurnsStep, QueueInOrderStep, SleepStep DEF QueueInv
<1> QED BY <1>1, <1>2, Invariance, PTL DEF Spec

-----------------------------------------------------------------------------
(* Theorems.                                                               *)

\* The work that was accepted and has not ended fits into the queue and one batch.
THEOREM WorkIsBounded == Spec => []BoundedWork
<1>1. IInv /\ QueueInv => BoundedWork
  <2> SUFFICES ASSUME IInv, QueueInOrder PROVE BoundedWork
    BY DEF QueueInv
  <2> DEFINE live == {r \in Requests : state[r] \in {"pending", "running"}}
             held == Elements(pending) \cup Elements(running)
  <2>1. /\ pending \in Seq(Requests) /\ running \in Seq(Requests)
        /\ Len(pending) <= PendingCapacity /\ Len(running) <= BatchLimit
        /\ PendingCapacity \in Nat /\ BatchLimit \in Nat
    BY SizeAssumption DEF IInv, TypeOK, QueueInOrder, BatchLimit
  <2>2. live \subseteq held
    BY DEF IInv, QueueAgreement
  <2>3. /\ IsFiniteSet(Elements(pending)) /\ Cardinality(Elements(pending)) <= Len(pending)
        /\ IsFiniteSet(Elements(running)) /\ Cardinality(Elements(running)) <= Len(running)
    BY <2>1, ElementsBound
  <2>4. /\ Cardinality(Elements(pending)) \in Nat /\ Cardinality(Elements(running)) \in Nat
        /\ Cardinality(Elements(pending) \cap Elements(running)) \in Nat
    BY <2>3, FS_CardinalityType, FS_Intersection
  <2>5. /\ IsFiniteSet(held)
        /\ Cardinality(held) = Cardinality(Elements(pending)) + Cardinality(Elements(running))
                                 - Cardinality(Elements(pending) \cap Elements(running))
    BY <2>3, FS_Union
  <2>6. Cardinality(live) <= Cardinality(held) /\ Cardinality(live) \in Nat
        /\ Cardinality(held) \in Nat
    BY <2>2, <2>5, FS_Subset, FS_CardinalityType
  <2> HIDE DEF live, held
  <2>7. Len(pending) \in Nat /\ Len(running) \in Nat
    BY <2>1
  <2>8. Cardinality(held) <= PendingCapacity + BatchLimit
    BY <2>1, <2>3, <2>4, <2>5, <2>6, <2>7
  <2>9. Cardinality(live) <= PendingCapacity + BatchLimit
    BY <2>1, <2>6, <2>8
  <2> QED BY <2>1, <2>9 DEF live, BoundedWork
<1> QED BY <1>1, QueueInvariance, PTL

\* A sleeping driver has an alarm that is early enough, or nothing to be woken for but a
\* submission, which notifies it.
THEOREM DriverWakes == Spec => []SleepingDriverWakes
BY QueueInvariance, PTL DEF QueueInv

\* The batch that is handed to the worker consists of requests whose callers wait and whose
\* deadlines are ahead, and shutdown has not given the driver up.
THEOREM OnlyLiveWorkIsStarted == Spec => OnlyLiveWorkStarts
<1> DEFINE Starts == running' # running /\ running' # << >> =>
                       /\ life \in {"serving", "draining"}
                       /\ \A r \in Elements(running') : caller[r] = "waiting" /\ now < deadline[r]
<1>1. IInv /\ QueueInv /\ [Next]_vars => [Starts]_vars
  <2> SUFFICES ASSUME IInv, TurnsAreWhole, [Next]_vars, running' # running, running' # << >>
               PROVE  /\ life \in {"serving", "draining"}
                      /\ \A r \in Elements(running') : caller[r] = "waiting" /\ now < deadline[r]
    BY DEF QueueInv
  <2>1. Dispatch
    BY BatchChange
  <2>2. life \in {"serving", "draining"}
    <3>1. driver \in {"deciding", "ready", "waiting"} /\ life # "cancelling"
      BY <2>1 DEF Dispatch, DriverTurn
    <3> QED BY <3>1 DEF IInv, TypeOK, DriverSound
  <2>3. ASSUME NEW r \in Elements(running') PROVE caller[r] = "waiting" /\ now < deadline[r]
    <3>1. PICK s \in Seq(Requests) : \E n \in 1..Len(s) :
            /\ running' = SubSeq(s, 1, n) /\ Distinct(s)
            /\ Elements(s) = {p \in Requests : state[p] = "pending" /\ now < deadline[p]}
      BY <2>1, DispatchQueue
    <3>2. Elements(running') \subseteq Elements(s)
      <4>1. PICK n \in 0..Len(s) : running' = SubSeq(s, 1, n) /\ Distinct(s)
        BY <3>1
      <4> QED BY <4>1, SplitQueue
    <3>3. r \in Requests /\ state[r] = "pending" /\ now < deadline[r]
      BY <3>1, <3>2
    <3>4. RequestSound(r) /\ caller[r] \in Callers
      BY <3>3, RequestsAreSound DEF IInv, TypeOK
    <3>5. caller[r] \in {"admitted", "waiting"}
      BY <3>3, <3>4 DEF RequestSound, Callers, Replies, Terminal
    <3>6. caller[r] # "admitted"
      BY <2>1, <3>3 DEF Dispatch, DriverTurn, LoopIdle, TurnsAreWhole
    <3> QED BY <3>3, <3>5, <3>6
  <2> QED BY <2>2, <2>3
<1> QED BY <1>1, QueueInvariance, PTL DEF Spec, OnlyLiveWorkStarts

\* Requests leave the queue in the order they entered it.
THEOREM NobodyOvertakes == Spec => NoOvertaking
<1> DEFINE Ordered(a, b) ==
      state[a] = "pending" /\ state'[a] = "pending" =>
        /\ state[b] = "none" /\ state'[b] = "pending" => Before(pending', a, b)
        /\ Before(pending, a, b) =>
             /\ state'[b] # "running"
             /\ state'[b] = "pending" => Before(pending', a, b)
<1>1. IInv /\ [Next]_vars => [\A a, b \in Requests : Ordered(a, b)]_vars
  <2> SUFFICES ASSUME IInv, [Next]_vars, NEW a \in Requests, NEW b \in Requests,
                      state[a] = "pending", state'[a] = "pending"
               PROVE  /\ state[b] = "none" /\ state'[b] = "pending" => Before(pending', a, b)
                      /\ Before(pending, a, b) =>
                           /\ state'[b] # "running"
                           /\ state'[b] = "pending" => Before(pending', a, b)
    OBVIOUS
  <2>0. /\ pending \in Seq(Requests) /\ pending' \in Seq(Requests)
        /\ Distinct(pending) /\ Elements(pending) = {r \in Requests : state[r] = "pending"}
        /\ Distinct(pending') /\ Elements(pending') = {r \in Requests : state'[r] = "pending"}
    BY TypeStep, QueueStep DEF IInv, TypeOK, QueueAgreement
  <2>1. Before(pending, a, b) => state[b] = "pending"
    BY <2>0 DEF Before, Elements
  <2>2. CASE QuietTurn
    <3>1. Quiet(b) /\ \A x, y : Before(pending', x, y) => Before(pending, x, y)
      BY <2>2 DEF QuietTurn
    <3>2. state'[b] = state[b] \/ (state[b] # "none" /\ state'[b] \notin {"pending", "running"})
      BY <3>1 DEF Quiet, Lifecycle!Unmoved, Lifecycle!Ended, Lifecycle!TerminalStates
    <3>3. state[b] = "none" => state'[b] # "pending"
      BY <3>2
    <3>4. Before(pending, a, b) /\ state'[b] = "pending" => Before(pending', a, b)
      BY <2>0, <3>1, OrderKept
    <3> QED BY <2>1, <3>2, <3>3, <3>4
  <2>3. CASE FinishOne
    <3>1. pending' = pending /\ (state[b] = "running" \/ state'[b] = state[b])
      BY <2>3, FinishEffect DEF Lifecycle!Unmoved
    <3> QED BY <2>1, <3>1
  <2>4. ASSUME NEW q \in Requests, NEW age \in Ages, NEW e \in Reclaimed,
               Submit(q, age), Admit(q, age, e)
        PROVE  /\ state[b] = "none" /\ state'[b] = "pending" => Before(pending', a, b)
               /\ Before(pending, a, b) =>
                    /\ state'[b] # "running"
                    /\ state'[b] = "pending" => Before(pending', a, b)
    <3>1. PICK s \in Seq(Requests) :
            /\ pending' = Append(s, q) /\ q \notin Elements(s)
            /\ Elements(s) = {r \in Requests \ {q} : state'[r] = "pending"}
            /\ \A x, y : Before(s, x, y) => Before(pending, x, y)
            /\ \A r \in Requests \ {q} : state'[r] = "pending" => state[r] = "pending"
      BY <2>4, AdmitQueue
    <3>2. /\ state[q] = "none" /\ state'[q] = "pending"
          /\ \A r \in Requests \ {q} : state'[r] = "running" => state[r] = "running"
      <4>1. caller[q] = "idle"
        BY <2>4 DEF Submit
      <4> QED BY <2>4, <4>1, AdmitEffect
              DEF Lifecycle!Admitted, Quiet, Lifecycle!Unmoved, Lifecycle!Ended,
                  Lifecycle!TerminalStates
    <3>3. a \in Elements(s)
      BY <3>1, <3>2
    <3>4. ASSUME state[b] = "none", state'[b] = "pending" PROVE Before(pending', a, b)
      <4>1. b = q
        BY <3>1, <3>4
      <4> QED BY <3>1, <3>3, <4>1, AppendOrder
    <3>5. ASSUME Before(pending, a, b), state'[b] = "pending" PROVE Before(pending', a, b)
      <4>1. b \in Elements(s)
        BY <2>1, <3>1, <3>2, <3>5
      <4>2. Before(s, a, b)
        BY <2>0, <3>1, <3>3, <3>5, <4>1, OrderKept
      <4> QED BY <3>1, <4>2, AppendOrder
    <3> QED BY <2>1, <3>2, <3>4, <3>5
  <2>5. CASE Dispatch
    <3>1. PICK s \in Seq(Requests) : \E n \in 1..Len(s) :
            /\ running' = SubSeq(s, 1, n) /\ pending' = SubSeq(s, n + 1, Len(s))
            /\ Distinct(s)
            /\ Elements(s) = {r \in Requests : state[r] = "pending" /\ now < deadline[r]}
            /\ \A x, y : Before(s, x, y) => Before(pending, x, y)
      BY <2>5, DispatchQueue
    <3>2. PICK n \in 0..Len(s) :
            running' = SubSeq(s, 1, n) /\ pending' = SubSeq(s, n + 1, Len(s))
      BY <3>1
    <3>3. /\ Elements(running') \cap Elements(pending') = {}
          /\ Elements(running') \cup Elements(pending') = Elements(s)
      BY <3>1, <3>2, SplitQueue
    <3>4. /\ Elements(running') = {r \in Requests : state'[r] = "running"}
          /\ \A r \in Requests : Quiet(r) \/ Lifecycle!Dispatched(r)
      BY <2>5, DispatchEffect
    <3>5. a \in Elements(pending')
      BY <2>0
    <3>6. ASSUME Before(pending, a, b), b \in Elements(s) PROVE Before(pending', a, b)
      <4>1. Before(s, a, b)
        BY <2>0, <3>1, <3>3, <3>5, <3>6, OrderKept
      <4> QED BY <3>1, <3>2, <3>5, <4>1, SuffixOrder
    <3>7. Before(pending', a, b) => state'[b] = "pending"
      BY <2>0 DEF Before, Elements
    <3>8. state'[b] = "running" => b \in Elements(s)
      BY <3>3, <3>4
    <3>9. state'[b] = "pending" => b \in Elements(s) /\ state[b] = "pending"
      BY <2>0, <3>1, <3>3
    <3> QED BY <3>6, <3>7, <3>8, <3>9
  <2> QED BY <2>2, <2>3, <2>4, <2>5, Turns
<1> QED BY <1>1, Invariance, PTL DEF Spec, NoOvertaking

=============================================================================
