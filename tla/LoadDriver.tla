----------------------------- MODULE LoadDriver -----------------------------
(***************************************************************************)
(* run_load(): requests sent at their intended times whatever becomes of   *)
(* the earlier ones, dropped when the client is late or full, and the wait *)
(* for the server before the next run. Also the audit of what it reports.  *)
(*                                                                         *)
(* The client is one event loop: while the driver is running, only time     *)
(* passes. A request that ended leaves the set of tasks in a turn of its    *)
(* own, which the driver may overtake.                                     *)
(***************************************************************************)
EXTENDS Integers, Sequences, FiniteSets

CONSTANTS Arrivals,        \* how many: rate * duration
          Interval,        \* ticks between steady arrivals
          Half,            \* ticks of half a second: a multiple of 5
          Duration,        \* ticks of the run
          LagLimit, MaxOutstanding,
          PollLimit,       \* how often 30 s of polling ask the server
          Responses,       \* what a request may end with
          Settled          \* those after which the server has nothing left of it

ASSUME LoadAssumption ==
  /\ Arrivals \in Nat /\ Interval \in Nat /\ Half \in Nat /\ Duration \in Nat
  /\ LagLimit \in Nat /\ MaxOutstanding \in Nat \ {0} /\ PollLimit \in Nat
  /\ Settled \subseteq Responses

Index == 1..Arrivals
Drops == {"client_late_drop", "client_capacity_drop"}

\* send() ends with a status or with a word of its own.
ASSUME ResponseAssumption == Responses \cap Drops = {}

VARIABLES
  burst, now, driver,
  next,           \* the arrival the loop is at
  request,        \* of each arrival: none, created, sending or ended
  tasks,          \* the set the done callbacks discard from
  rows,           \* the outcomes recorded of each arrival
  server,         \* the requests the server has not settled
  after, polls,   \* what /metrics said, and how often it was asked again
  peak, left      \* peak_outstanding and outstanding_at_window_end

loop  == <<driver, next>>
sends == <<request, tasks, rows, server>>
drain == <<after, polls>>
vars  == <<burst, now, loop, sends, drain, peak, left>>

Init ==
  /\ burst \in BOOLEAN /\ now = 0 /\ driver = "running" /\ next = 1
  /\ request = [i \in Index |-> "none"] /\ tasks = {} /\ rows = [i \in Index |-> << >>]
  /\ server = {} /\ after = 0 /\ polls = 0 /\ peak = 0 /\ left = 0

\* arrivals(): a burst has those of a half-second in its first fifth.
Intended(i) ==
  LET t == (i - 1) * Interval IN
  IF burst THEN (t \div Half) * Half + (t % Half) \div 5 ELSE t

Tick ==
  /\ now < Duration + LagLimit + 1 /\ now' = now + 1
  /\ UNCHANGED <<burst, loop, sends, drain, peak, left>>

-----------------------------------------------------------------------------
(* The loop over the schedule                                              *)

Sleep ==
  /\ driver = "running" /\ next \in Index /\ now < Intended(next)
  /\ driver' = "sleeping"
  /\ UNCHANGED <<burst, now, next, sends, drain, peak, left>>

Wake ==
  /\ driver = "sleeping" /\ now >= Intended(next)
  /\ driver' = "running"
  /\ UNCHANGED <<burst, now, next, sends, drain, peak, left>>

Full == Cardinality(tasks) >= MaxOutstanding

Due  == driver = "running" /\ next \in Index /\ now >= Intended(next)
Late == now - Intended(next) > LagLimit

\* Fault: a dropped arrival is sent after all, for want of the loop's continue.
RecordAndGoOn(outcome) ==
  /\ rows' = [rows EXCEPT ![next] = Append(@, outcome)]
  /\ request' = [request EXCEPT ![next] = "created"] /\ tasks' = tasks \cup {next}

Record(outcome) ==
  /\ rows' = [rows EXCEPT ![next] = Append(@, outcome)]
  /\ UNCHANGED <<request, tasks>>

Drop ==
  /\ Due /\ (Late \/ Full)
  /\ Record(IF Late THEN "client_late_drop" ELSE "client_capacity_drop")
  /\ next' = next + 1
  /\ UNCHANGED <<burst, now, driver, server, drain, peak, left>>

CreateTask ==
  /\ Due /\ ~Late /\ ~Full
  /\ request' = [request EXCEPT ![next] = "created"]
  /\ tasks' = tasks \cup {next} /\ next' = next + 1
  /\ peak' = IF Cardinality(tasks') > peak THEN Cardinality(tasks') ELSE peak
  /\ UNCHANGED <<burst, now, driver, rows, server, drain, left>>

EndSchedule ==
  /\ driver = "running" /\ next \notin Index
  /\ driver' = "window"
  /\ UNCHANGED <<burst, now, next, sends, drain, peak, left>>

-----------------------------------------------------------------------------
(* send(), in turns of its own                                             *)

Turn == driver # "running"

Start(i) ==
  /\ Turn /\ request[i] = "created"
  /\ request' = [request EXCEPT ![i] = "sending"] /\ server' = server \cup {i}
  /\ UNCHANGED <<burst, now, loop, tasks, rows, drain, peak, left>>

\* A response, a timeout or an error: whatever it is, the request is recorded.
End(i) ==
  /\ Turn /\ request[i] = "sending"
  /\ \E outcome \in Responses :
       /\ rows' = [rows EXCEPT ![i] = Append(@, outcome)]
       /\ server' = IF outcome \in Settled THEN server \ {i} ELSE server
  /\ request' = [request EXCEPT ![i] = "ended"]
  /\ UNCHANGED <<burst, now, loop, tasks, drain, peak, left>>

Discard(i) ==
  /\ Turn /\ request[i] = "ended" /\ i \in tasks
  /\ tasks' = tasks \ {i}
  /\ UNCHANGED <<burst, now, loop, request, rows, server, drain, peak, left>>

\* External: the server ends what it went on with after it answered, or was left.
Settle(i) ==
  /\ i \in server /\ request[i] = "ended"
  /\ server' = server \ {i}
  /\ UNCHANGED <<burst, now, loop, request, tasks, rows, drain, peak, left>>

-----------------------------------------------------------------------------
(* After the window                                                        *)

LeaveWindow ==
  /\ driver = "window" /\ now >= Duration
  /\ left' = Cardinality(tasks)
  /\ driver' = IF tasks = {} THEN "scraping" ELSE "gathering"
  /\ UNCHANGED <<burst, now, next, sends, drain, peak>>

\* The discards run before the callbacks that gather() added after them.
Gathered == tasks = {}

LeaveGather ==
  /\ driver = "gathering" /\ Gathered
  /\ driver' = "scraping"
  /\ UNCHANGED <<burst, now, next, sends, drain, peak, left>>

Scrape ==
  /\ driver = "scraping"
  /\ after' = Cardinality(server) /\ driver' = "checking"
  /\ UNCHANGED <<burst, now, next, sends, polls, peak, left>>

\* Faults: the server is not waited for; it is waited for as long as it takes.
DrainedAtOnce == TRUE
PatientPoll == UNCHANGED polls /\ driver' = "scraping"

Drained == after = 0

Poll ==
  \/ polls < PollLimit /\ polls' = polls + 1 /\ driver' = "scraping"
  \/ polls = PollLimit /\ UNCHANGED polls /\ driver' = "failed"

Check ==
  /\ driver = "checking"
  /\ IF Drained THEN driver' = "reported" /\ UNCHANGED polls ELSE Poll
  /\ UNCHANGED <<burst, now, next, sends, after, peak, left>>

Driver ==
  \/ Sleep \/ Wake \/ Drop \/ CreateTask \/ EndSchedule
  \/ LeaveWindow \/ LeaveGather \/ Scrape \/ Check

Requests == \E i \in Index : Start(i) \/ End(i) \/ Discard(i)

Next == Tick \/ Driver \/ Requests \/ \E i \in Index : Settle(i)

Spec == Init /\ [][Next]_vars

\* The loop runs what is ready, and httpx ends every request after 5 s. Nothing is
\* assumed of the server.
FairSpec == Spec /\ WF_vars(Tick) /\ WF_vars(Driver) /\ WF_vars(Requests)

-----------------------------------------------------------------------------
(* audit()                                                                 *)

Sent == {i \in Index : request[i] # "none"}
Total(S) ==
  Cardinality({r \in Index \X {1, 2} : r[2] \in DOMAIN rows[r[1]] /\ rows[r[1]][r[2]] \in S})

Audited ==
  /\ \A i \in Index : Len(rows[i]) = 1
  /\ Total(Responses) = Cardinality(Sent)
  /\ tasks = {} /\ after = 0

-----------------------------------------------------------------------------
(* Properties                                                              *)

\* Type correctness.
TypeOK ==
  /\ burst \in BOOLEAN /\ now \in Nat /\ next \in 1..(Arrivals + 1)
  /\ driver \in {"running", "sleeping", "window", "gathering", "scraping", "checking",
                 "reported", "failed"}
  /\ request \in [Index -> {"none", "created", "sending", "ended"}]
  /\ tasks \subseteq Sent /\ server \subseteq Sent
  /\ \A i \in Index : rows[i] \in Seq(Responses \cup Drops)
  /\ after \in 0..Arrivals /\ polls \in 0..PollLimit
  /\ {peak, left} \subseteq 0..Arrivals

\* At no time are more requests under way than the budget, nor is more reported.
OutstandingWithinBudget ==
  LET underWay == Cardinality({i \in Index : request[i] \in {"created", "sending"}}) IN
  /\ underWay <= MaxOutstanding /\ peak <= MaxOutstanding
  /\ underWay <= peak /\ left <= peak

\* However requests, drops and discards interleave, a run that is reported has each
\* arrival exactly once, kept the budget, and passes its audit.
ReportedRunsPassAudit ==
  TypeOK /\ OutstandingWithinBudget /\ (driver = "reported" => Audited)

\* A run leaves no work on the server to the next: it waits, or it fails.
NothingLeftToTheNextRun == driver = "reported" => server = {}

\* Even if the server never ends what it has, a run ends.
RunEnds == <>(driver \in {"reported", "failed"})
=============================================================================
