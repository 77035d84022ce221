--------------------------- MODULE LoadDriverProofs ---------------------------
(***************************************************************************)
(* Theorems of LoadDriver, for every schedule, budget and number of polls. *)
(***************************************************************************)
EXTENDS LoadDriver, FiniteSetTheorems, FunctionTheorems, TLAPS

-----------------------------------------------------------------------------
(* The inductive invariant.                                                *)

\* What is recorded of an arrival follows how far the loop and its request are.
RequestSound(i) ==
  /\ i >= next => request[i] = "none" /\ rows[i] = << >>
  /\ i < next /\ request[i] = "none" => Len(rows[i]) = 1 /\ rows[i][1] \in Drops
  /\ request[i] \in {"created", "sending"} => i \in tasks /\ rows[i] = << >>
  /\ request[i] = "ended" => Len(rows[i]) = 1 /\ rows[i][1] \in Responses

RowsSound ==
  /\ rows \in [Index -> Seq(Responses \cup Drops)]
  /\ \A i \in Index : RequestSound(i)

\* The tasks are what the peak counts.
BudgetSound == Cardinality(tasks) <= peak /\ peak <= MaxOutstanding /\ left <= peak

\* After the schedule no request is added, and after the gathering none is left.
PhaseSound ==
  /\ driver \notin {"running", "sleeping"} => next = Arrivals + 1
  /\ driver \in {"scraping", "checking", "reported", "failed"} => tasks = {}
  /\ driver \in {"checking", "reported"} => Cardinality(server) <= after
  /\ driver = "reported" => after = 0

\* The inductive invariant the theorems rest on.
IInv == TypeOK /\ RowsSound /\ BudgetSound /\ PhaseSound

-----------------------------------------------------------------------------
(* Sets of arrivals, and what every state says of them.                    *)

\* A set of arrivals is finite.
LEMMA ArrivalCount ==
  ASSUME NEW S, S \subseteq Index
  PROVE  IsFiniteSet(S) /\ Cardinality(S) \in 0..Arrivals
<1>1. IsFiniteSet(Index) /\ Cardinality(Index) = Arrivals
  BY FS_Interval, LoadAssumption DEF Index
<1>2. S \in SUBSET Index
  OBVIOUS
<1>3. IsFiniteSet(S) /\ Cardinality(S) <= Cardinality(Index)
  BY <1>1, <1>2, FS_Subset
<1>4. Cardinality(S) \in Nat
  BY <1>3, FS_CardinalityType
<1> QED BY <1>1, <1>3, <1>4, LoadAssumption

\* Of two sets of arrivals the smaller has no more.
LEMMA FewerArrivals ==
  ASSUME NEW S, NEW T, S \subseteq T, T \subseteq Index
  PROVE  Cardinality(S) <= Cardinality(T)
<1>1. IsFiniteSet(T) /\ S \in SUBSET T
  BY ArrivalCount
<1> QED BY <1>1, FS_Subset

\* Another arrival is one more.
LEMMA OneMoreArrival ==
  ASSUME NEW S, S \subseteq Index, NEW i \in Index, i \notin S
  PROVE  Cardinality(S \cup {i}) = Cardinality(S) + 1
<1>1. IsFiniteSet(S)
  BY ArrivalCount
<1> QED BY <1>1, FS_AddElement

\* The sets of the state are sets of arrivals.
LEMMA StateSets ==
  ASSUME TypeOK
  PROVE  tasks \subseteq Index /\ server \subseteq Index /\ Sent \subseteq Index
BY DEF TypeOK, Sent

\* An action that leaves the schedule and the requests alone leaves them sound.
LEMMA RequestsKept ==
  ASSUME UNCHANGED <<next, sends>>, \A i \in Index : RequestSound(i)
  PROVE  /\ Sent' = Sent /\ UNCHANGED <<request, tasks, rows, server>>
         /\ \A i \in Index : RequestSound(i)'
BY DEF sends, Sent, RequestSound

\* The arrival the loop is at has no task yet and no row.
LEMMA NextIsFresh ==
  ASSUME IInv, next \in Index
  PROVE  /\ request[next] = "none" /\ rows[next] = << >> /\ next \notin tasks /\ next \notin server
         /\ next \notin Sent
BY DEF IInv, RowsSound, RequestSound, TypeOK, Sent

-----------------------------------------------------------------------------
(* The steps of the loop and of the requests, one part at a time.          *)

\* A first row of a request is its only one.
LEMMA AppendOne ==
  ASSUME IInv, NEW i \in Index, rows[i] = << >>, NEW outcome \in Responses \cup Drops,
         rows' = [rows EXCEPT ![i] = Append(@, outcome)]
  PROVE  /\ rows' \in [Index -> Seq(Responses \cup Drops)]
         /\ Len(rows'[i]) = 1 /\ rows'[i][1] = outcome
         /\ \A j \in Index \ {i} : rows'[j] = rows[j]
<1>1. rows \in [Index -> Seq(Responses \cup Drops)]
  BY DEF IInv, RowsSound
<1>2. rows'[i] = Append(<< >>, outcome) /\ \A j \in Index \ {i} : rows'[j] = rows[j]
  BY <1>1
<1>3. Append(<< >>, outcome) \in Seq(Responses \cup Drops)
  OBVIOUS
<1>4. Len(Append(<< >>, outcome)) = 1 /\ Append(<< >>, outcome)[1] = outcome
  OBVIOUS
<1> QED BY <1>1, <1>2, <1>3, <1>4

\* A dropped arrival has its row and no task.
LEMMA DropStep ==
  ASSUME IInv, Drop
  PROVE  IInv'
<1>1. TypeOK /\ BudgetSound /\ PhaseSound /\ rows \in [Index -> Seq(Responses \cup Drops)]
      /\ \A i \in Index : RequestSound(i)
  BY DEF IInv, RowsSound
<1>2. PICK outcome \in Drops : Record(outcome)
  BY DEF Drop, Drops
<1>3. /\ driver = "running" /\ next \in Index /\ next' = next + 1
      /\ UNCHANGED <<burst, now, driver, server, after, polls, peak, left, request, tasks>>
      /\ rows' = [rows EXCEPT ![next] = Append(@, outcome)]
  BY <1>2 DEF Drop, Due, Record, drain
<1>4. request[next] = "none" /\ rows[next] = << >>
  BY <1>3, NextIsFresh
<1>5. /\ rows' \in [Index -> Seq(Responses \cup Drops)]
      /\ Len(rows'[next]) = 1 /\ rows'[next][1] = outcome
      /\ \A j \in Index \ {next} : rows'[j] = rows[j]
  BY <1>3, <1>4, AppendOne
<1>6. next' \in 1..(Arrivals + 1)
  BY <1>3, LoadAssumption DEF Index
<1>7. ASSUME NEW i \in Index PROVE RequestSound(i)'
  <2>1. CASE i = next
    <3>1. i < next' /\ ~(i >= next')
      BY <1>3, <2>1 DEF Index
    <3> QED BY <1>2, <1>3, <1>4, <1>5, <2>1, <3>1 DEF RequestSound
  <2>2. CASE i # next
    <3>1. (i >= next' => i >= next) /\ (i < next' => i < next)
      BY <1>3, <2>2 DEF Index
    <3>2. rows'[i] = rows[i] /\ RequestSound(i)
      BY <1>1, <1>5, <2>2
    <3> QED BY <1>3, <3>1, <3>2 DEF RequestSound
  <2> QED BY <2>1, <2>2
<1>8. TypeOK'
  <2>1. Sent' = Sent
    BY <1>3 DEF Sent
  <2>2. \A i \in Index : rows'[i] \in Seq(Responses \cup Drops)
    BY <1>5
  <2> QED BY <1>1, <1>3, <1>6, <2>1, <2>2 DEF TypeOK
<1>9. BudgetSound' /\ PhaseSound'
  BY <1>1, <1>3 DEF BudgetSound, PhaseSound
<1> QED BY <1>5, <1>7, <1>8, <1>9 DEF IInv, RowsSound

\* An arrival within the budget has a task and no row yet.
LEMMA CreateStep ==
  ASSUME IInv, CreateTask
  PROVE  IInv'
<1>1. TypeOK /\ BudgetSound /\ PhaseSound /\ rows \in [Index -> Seq(Responses \cup Drops)]
      /\ \A i \in Index : RequestSound(i)
  BY DEF IInv, RowsSound
<1>2. /\ driver = "running" /\ next \in Index /\ next' = next + 1
      /\ UNCHANGED <<burst, now, driver, rows, server, after, polls, left>>
      /\ request' = [request EXCEPT ![next] = "created"] /\ tasks' = tasks \cup {next}
      /\ peak' = IF Cardinality(tasks') > peak THEN Cardinality(tasks') ELSE peak
      /\ ~(Cardinality(tasks) >= MaxOutstanding)
  BY DEF CreateTask, Due, Full, drain
<1>3. request[next] = "none" /\ rows[next] = << >> /\ next \notin tasks
  BY <1>2, NextIsFresh
<1>4. /\ tasks \subseteq Index /\ tasks' \subseteq Index
      /\ Cardinality(tasks) \in Nat /\ Cardinality(tasks') = Cardinality(tasks) + 1
      /\ Cardinality(tasks') \in 0..Arrivals
  <2>1. tasks \subseteq Index
    BY <1>1, StateSets
  <2>2. tasks' \subseteq Index
    BY <1>2, <2>1
  <2>3. Cardinality(tasks) \in 0..Arrivals
    BY <2>1, ArrivalCount
  <2>4. Cardinality(tasks') \in 0..Arrivals
    BY <2>2, ArrivalCount
  <2>5. Cardinality(tasks \cup {next}) = Cardinality(tasks) + 1
    BY <1>2, <1>3, <2>1, OneMoreArrival
  <2> QED BY <1>2, <2>1, <2>2, <2>3, <2>4, <2>5
<1>5. BudgetSound'
  <2>1. peak \in Nat /\ left \in Nat
    BY <1>1, LoadAssumption DEF TypeOK
  <2>2. Cardinality(tasks') <= MaxOutstanding
    BY <1>2, <1>4, LoadAssumption
  <2> QED BY <1>1, <1>2, <1>4, <2>1, <2>2 DEF BudgetSound
<1>6. ASSUME NEW i \in Index PROVE RequestSound(i)'
  <2>1. request \in [Index -> {"none", "created", "sending", "ended"}]
    BY <1>1 DEF TypeOK
  <2>2. CASE i = next
    <3>1. i < next' /\ ~(i >= next')
      BY <1>2, <2>2 DEF Index
    <3> QED BY <1>2, <1>3, <2>1, <2>2, <3>1 DEF RequestSound
  <2>3. CASE i # next
    <3>1. (i >= next' => i >= next) /\ (i < next' => i < next)
      BY <1>2, <2>3 DEF Index
    <3>2. request'[i] = request[i] /\ RequestSound(i)
      BY <1>1, <1>2, <2>1, <2>3
    <3> QED BY <1>2, <3>1, <3>2 DEF RequestSound
  <2> QED BY <2>2, <2>3
<1>7. TypeOK'
  <2>1. request \in [Index -> {"none", "created", "sending", "ended"}]
    BY <1>1 DEF TypeOK
  <2>2. request' \in [Index -> {"none", "created", "sending", "ended"}]
    BY <1>2, <2>1
  <2>3. Sent \cup {next} \subseteq Sent'
    BY <1>2, <2>1 DEF Sent
  <2>4. tasks' \subseteq Sent' /\ server' \subseteq Sent'
    BY <1>1, <1>2, <2>3 DEF TypeOK
  <2>5. peak' \in 0..Arrivals
    BY <1>1, <1>2, <1>4 DEF TypeOK
  <2>6. next' \in 1..(Arrivals + 1)
    BY <1>2, LoadAssumption DEF Index
  <2> QED BY <1>1, <1>2, <2>2, <2>4, <2>5, <2>6 DEF TypeOK
<1>8. PhaseSound'
  BY <1>1, <1>2 DEF PhaseSound
<1> QED BY <1>1, <1>2, <1>5, <1>6, <1>7, <1>8 DEF IInv, RowsSound

\* A turn of request i: what it changes of i, and what it leaves of the others.
LEMMA OneRequest ==
  ASSUME IInv, NEW i \in Index, UNCHANGED next,
         \A j \in Index \ {i} : /\ request'[j] = request[j] /\ rows'[j] = rows[j]
                                /\ j \in tasks => j \in tasks',
         RequestSound(i)'
  PROVE  \A j \in Index : RequestSound(j)'
<1>1. ASSUME NEW j \in Index, j # i PROVE RequestSound(j)'
  <2>1. RequestSound(j) /\ request'[j] = request[j] /\ rows'[j] = rows[j]
        /\ (j \in tasks => j \in tasks')
    BY <1>1 DEF IInv, RowsSound
  <2> QED BY <2>1 DEF RequestSound
<1> QED BY <1>1

\* Nobody is created or under way where the driver has gathered them all.
LEMMA UnderWayIsTasked ==
  ASSUME IInv, NEW i \in Index, request[i] \in {"created", "sending"}
  PROVE  /\ i \in tasks /\ i < next /\ rows[i] = << >>
         /\ driver \notin {"scraping", "checking", "reported", "failed"}
<1>1. i \in tasks /\ rows[i] = << >> /\ ~(i >= next)
  BY DEF IInv, RowsSound, RequestSound
<1>2. next \in Nat /\ i \in Nat
  BY LoadAssumption DEF IInv, TypeOK, Index
<1> QED BY <1>1, <1>2 DEF IInv, PhaseSound

\* A request that is sent is in the server.
LEMMA StartStep ==
  ASSUME IInv, NEW i \in Index, Start(i)
  PROVE  IInv'
<1>1. /\ request[i] = "created" /\ request' = [request EXCEPT ![i] = "sending"]
      /\ server' = server \cup {i}
      /\ UNCHANGED <<burst, now, driver, next, tasks, rows, after, polls, peak, left>>
  BY DEF Start, loop, drain
<1>2. /\ TypeOK /\ BudgetSound /\ PhaseSound /\ RowsSound
      /\ request \in [Index -> {"none", "created", "sending", "ended"}]
  BY DEF IInv, TypeOK
<1>3. /\ i \in tasks /\ i < next /\ rows[i] = << >>
      /\ driver \notin {"scraping", "checking", "reported", "failed"}
  BY <1>1, UnderWayIsTasked
<1>4. RequestSound(i)'
  <2>1. ~(i >= next) /\ request'[i] = "sending"
    BY <1>1, <1>2, <1>3 DEF TypeOK, Index
  <2> QED BY <1>1, <1>3, <2>1 DEF RequestSound
<1>5. \A j \in Index : RequestSound(j)'
  BY <1>1, <1>2, <1>4, OneRequest
<1>6. TypeOK'
  <2>1. request' \in [Index -> {"none", "created", "sending", "ended"}]
    BY <1>1, <1>2
  <2>2. Sent' = Sent
    BY <1>1, <1>2 DEF Sent
  <2>3. i \in Sent
    BY <1>1 DEF Sent
  <2> QED BY <1>1, <1>2, <2>1, <2>2, <2>3 DEF TypeOK
<1>7. BudgetSound' /\ PhaseSound'
  BY <1>1, <1>2, <1>3 DEF BudgetSound, PhaseSound
<1> QED BY <1>1, <1>2, <1>5, <1>6, <1>7 DEF IInv, RowsSound

\* A request that ends has its row, and may stay in the server.
LEMMA EndStep ==
  ASSUME IInv, NEW i \in Index, End(i)
  PROVE  IInv'
<1>1. PICK outcome \in Responses :
        /\ rows' = [rows EXCEPT ![i] = Append(@, outcome)]
        /\ server' = IF outcome \in Settled THEN server \ {i} ELSE server
  BY DEF End
<1>2. /\ request[i] = "sending" /\ request' = [request EXCEPT ![i] = "ended"]
      /\ UNCHANGED <<burst, now, driver, next, tasks, after, polls, peak, left>>
  BY DEF End, loop, drain
<1>3. /\ TypeOK /\ BudgetSound /\ PhaseSound /\ RowsSound
      /\ request \in [Index -> {"none", "created", "sending", "ended"}]
  BY DEF IInv, TypeOK
<1>4. /\ i \in tasks /\ i < next /\ rows[i] = << >>
      /\ driver \notin {"scraping", "checking", "reported", "failed"}
  BY <1>2, UnderWayIsTasked
<1>5. /\ rows' \in [Index -> Seq(Responses \cup Drops)]
      /\ Len(rows'[i]) = 1 /\ rows'[i][1] = outcome
      /\ \A j \in Index \ {i} : rows'[j] = rows[j]
  BY <1>1, <1>4, AppendOne
<1>6. RequestSound(i)'
  <2>1. ~(i >= next) /\ request'[i] = "ended"
    BY <1>2, <1>3, <1>4 DEF TypeOK, Index
  <2> QED BY <1>2, <1>5, <2>1 DEF RequestSound
<1>7. \A j \in Index : RequestSound(j)'
  BY <1>2, <1>3, <1>5, <1>6, OneRequest
<1>8. TypeOK'
  <2>1. request' \in [Index -> {"none", "created", "sending", "ended"}]
    BY <1>2, <1>3
  <2>2. Sent' = Sent
    BY <1>2, <1>3 DEF Sent
  <2>3. server' \subseteq Sent
    BY <1>1, <1>3 DEF TypeOK
  <2>4. \A j \in Index : rows'[j] \in Seq(Responses \cup Drops)
    BY <1>5
  <2> QED BY <1>2, <1>3, <2>1, <2>2, <2>3, <2>4 DEF TypeOK
<1>9. BudgetSound' /\ PhaseSound'
  BY <1>2, <1>3, <1>4 DEF BudgetSound, PhaseSound
<1> QED BY <1>5, <1>7, <1>8, <1>9 DEF IInv, RowsSound

\* A task is discarded after its request has its row.
LEMMA DiscardStep ==
  ASSUME IInv, NEW i \in Index, Discard(i)
  PROVE  IInv'
<1>1. /\ request[i] = "ended" /\ i \in tasks /\ tasks' = tasks \ {i}
      /\ UNCHANGED <<burst, now, driver, next, request, rows, server, after, polls, peak, left>>
  BY DEF Discard, loop, drain
<1>2. TypeOK /\ BudgetSound /\ PhaseSound /\ RowsSound
  BY DEF IInv
<1>3. RequestSound(i)'
  <2>1. RequestSound(i)
    BY <1>2 DEF RowsSound
  <2> QED BY <1>1, <2>1 DEF RequestSound
<1>4. \A j \in Index : RequestSound(j)'
  BY <1>1, <1>3, OneRequest
<1>5. Sent' = Sent
  BY <1>1 DEF Sent
<1>6. TypeOK'
  BY <1>1, <1>2, <1>5 DEF TypeOK
<1>7. BudgetSound'
  <2>1. tasks \subseteq Index /\ tasks' \subseteq tasks
    BY <1>1, <1>2, StateSets
  <2>2. Cardinality(tasks') <= Cardinality(tasks)
    BY <2>1, FewerArrivals
  <2>3. Cardinality(tasks) \in Nat /\ Cardinality(tasks') \in Nat /\ peak \in Nat
    <3>1. Cardinality(tasks) \in 0..Arrivals
      BY <2>1, ArrivalCount
    <3>2. Cardinality(tasks') \in 0..Arrivals
      BY <2>1, ArrivalCount
    <3> QED BY <1>2, <3>1, <3>2, LoadAssumption DEF TypeOK
  <2> QED BY <1>1, <1>2, <2>2, <2>3 DEF BudgetSound
<1>8. PhaseSound'
  BY <1>1, <1>2 DEF PhaseSound
<1> QED BY <1>1, <1>2, <1>4, <1>6, <1>7, <1>8 DEF IInv, RowsSound

\* The server settles what nobody waits for any more.
LEMMA SettleStep ==
  ASSUME IInv, NEW i \in Index, Settle(i)
  PROVE  IInv'
<1>1. /\ i \in server /\ server' = server \ {i}
      /\ UNCHANGED <<burst, now, driver, next, request, rows, tasks, after, polls, peak, left>>
  BY DEF Settle, loop, drain
<1>2. TypeOK /\ BudgetSound /\ PhaseSound /\ RowsSound
  BY DEF IInv
<1>3. \A j \in Index : RequestSound(j)'
  BY <1>1, <1>2 DEF RowsSound, RequestSound
<1>4. Sent' = Sent
  BY <1>1 DEF Sent
<1>5. TypeOK'
  BY <1>1, <1>2, <1>4 DEF TypeOK
<1>6. BudgetSound'
  BY <1>1, <1>2 DEF BudgetSound
<1>7. PhaseSound'
  <2>1. server \subseteq Index /\ server' \subseteq server
    BY <1>1, <1>2, StateSets
  <2>2. Cardinality(server') <= Cardinality(server)
    BY <2>1, FewerArrivals
  <2>3. Cardinality(server) \in Nat /\ Cardinality(server') \in Nat /\ after \in Nat
    <3>1. Cardinality(server) \in 0..Arrivals
      BY <2>1, ArrivalCount
    <3>2. Cardinality(server') \in 0..Arrivals
      BY <2>1, ArrivalCount
    <3> QED BY <1>2, <3>1, <3>2, LoadAssumption DEF TypeOK
  <2> QED BY <1>1, <1>2, <2>2, <2>3 DEF PhaseSound
<1> QED BY <1>1, <1>2, <1>3, <1>5, <1>6, <1>7 DEF IInv, RowsSound

\* Where the driver only waits, asks or reports, the requests stay as they are.
LEMMA DriverOnly ==
  ASSUME IInv, UNCHANGED <<burst, next, sends, peak>>, now' \in Nat,
         driver' \in {"running", "sleeping", "window", "gathering", "scraping", "checking",
                      "reported", "failed"},
         after' \in 0..Arrivals, polls' \in 0..PollLimit,
         left' = left \/ left' = Cardinality(tasks)
  PROVE  TypeOK' /\ RowsSound' /\ BudgetSound'
<1>1. TypeOK /\ BudgetSound /\ RowsSound
  BY DEF IInv
<1>2. /\ Sent' = Sent /\ \A i \in Index : RequestSound(i)'
      /\ UNCHANGED <<request, tasks, rows, server>>
  BY <1>1, RequestsKept DEF RowsSound
<1>3. Cardinality(tasks) \in 0..Arrivals
  BY <1>1, StateSets, ArrivalCount
<1>4. left' \in 0..Arrivals /\ left' <= peak
  BY <1>1, <1>3 DEF TypeOK, BudgetSound
<1>5. TypeOK'
  BY <1>1, <1>2, <1>4 DEF TypeOK
<1>6. RowsSound' /\ BudgetSound'
  BY <1>1, <1>2, <1>4 DEF RowsSound, BudgetSound
<1> QED BY <1>5, <1>6

\* The schedule, the windows and the scrapes leave requests and rows alone.
LEMMA QuietStep ==
  ASSUME IInv, Tick \/ Sleep \/ Wake \/ EndSchedule \/ LeaveWindow \/ LeaveGather \/ Scrape \/ Check
  PROVE  IInv'
<1> USE DEF loop, drain
<1>1. /\ TypeOK /\ PhaseSound /\ now \in Nat /\ after \in 0..Arrivals /\ polls \in 0..PollLimit
      /\ PollLimit \in Nat /\ next \in 1..(Arrivals + 1) /\ Arrivals \in Nat
      /\ driver \in {"running", "sleeping", "window", "gathering", "scraping", "checking",
                     "reported", "failed"}
  BY LoadAssumption DEF IInv, TypeOK
<1>2. Cardinality(server) \in 0..Arrivals
  BY <1>1, StateSets, ArrivalCount
<1>3. CASE Tick
  <2>1. TypeOK' /\ RowsSound' /\ BudgetSound'
    BY <1>1, <1>3, DriverOnly DEF Tick
  <2> QED BY <1>1, <1>3, <2>1 DEF Tick, sends, IInv, PhaseSound
<1>4. CASE Sleep
  <2>1. TypeOK' /\ RowsSound' /\ BudgetSound'
    BY <1>1, <1>4, DriverOnly DEF Sleep
  <2> QED BY <1>1, <1>4, <2>1 DEF Sleep, sends, IInv, PhaseSound
<1>5. CASE Wake
  <2>1. TypeOK' /\ RowsSound' /\ BudgetSound'
    BY <1>1, <1>5, DriverOnly DEF Wake
  <2> QED BY <1>1, <1>5, <2>1 DEF Wake, sends, IInv, PhaseSound
<1>6. CASE EndSchedule
  <2>1. TypeOK' /\ RowsSound' /\ BudgetSound'
    BY <1>1, <1>6, DriverOnly DEF EndSchedule
  <2>2. next = Arrivals + 1
    BY <1>1, <1>6 DEF EndSchedule, Index
  <2> QED BY <1>1, <1>6, <2>1, <2>2 DEF EndSchedule, sends, IInv, PhaseSound
<1>7. CASE LeaveWindow
  <2>1. TypeOK' /\ RowsSound' /\ BudgetSound'
    BY <1>1, <1>7, DriverOnly DEF LeaveWindow
  <2> QED BY <1>1, <1>7, <2>1 DEF LeaveWindow, sends, IInv, PhaseSound
<1>8. CASE LeaveGather
  <2>1. TypeOK' /\ RowsSound' /\ BudgetSound'
    BY <1>1, <1>8, DriverOnly DEF LeaveGather
  <2> QED BY <1>1, <1>8, <2>1 DEF LeaveGather, Gathered, sends, IInv, PhaseSound
<1>9. CASE Scrape
  <2>1. TypeOK' /\ RowsSound' /\ BudgetSound'
    BY <1>1, <1>2, <1>9, DriverOnly DEF Scrape
  <2> QED BY <1>1, <1>2, <1>9, <2>1 DEF Scrape, sends, IInv, PhaseSound
<1>10. CASE Check
  <2>1. polls' \in 0..PollLimit
    BY <1>1, <1>10 DEF Check, Poll
  <2>2. driver' \in {"reported", "scraping", "failed"} /\ (driver' = "reported" => after = 0)
    BY <1>10 DEF Check, Poll, Drained
  <2>3. TypeOK' /\ RowsSound' /\ BudgetSound'
    BY <1>1, <1>10, <2>1, <2>2, DriverOnly DEF Check
  <2> QED BY <1>1, <1>10, <2>2, <2>3 DEF Check, sends, IInv, PhaseSound
<1> QED BY <1>3, <1>4, <1>5, <1>6, <1>7, <1>8, <1>9, <1>10

-----------------------------------------------------------------------------
(* The theorems.                                                           *)

\* At the start there is no task and no row.
LEMMA InitIInv ==
  ASSUME Init
  PROVE  IInv
<1>1. rows \in [Index -> Seq(Responses \cup Drops)]
  <2>1. << >> \in Seq(Responses \cup Drops)
    OBVIOUS
  <2> QED BY <2>1 DEF Init
<1>2. Cardinality({}) = 0
  BY FS_EmptySet
<1>3. TypeOK
  <2>1. \A i \in Index : rows[i] \in Seq(Responses \cup Drops)
    BY <1>1
  <2> QED BY <2>1, LoadAssumption DEF Init, TypeOK
<1>4. \A i \in Index : RequestSound(i)
  BY LoadAssumption DEF Init, RequestSound, Index
<1>5. BudgetSound /\ PhaseSound
  BY <1>2, LoadAssumption DEF Init, BudgetSound, PhaseSound
<1> QED BY <1>1, <1>3, <1>4, <1>5 DEF IInv, RowsSound

\* Invariance: the inductive invariant holds in every reachable state of a run.
THEOREM Invariance == Spec => []IInv
<1>1. Init => IInv
  BY InitIInv
<1>2. IInv /\ [Next]_vars => IInv'
  <2> SUFFICES ASSUME IInv, [Next]_vars PROVE IInv'
    OBVIOUS
  <2>1. CASE Drop
    BY <2>1, DropStep
  <2>2. CASE CreateTask
    BY <2>2, CreateStep
  <2>3. CASE Tick \/ Sleep \/ Wake \/ EndSchedule \/ LeaveWindow \/ LeaveGather \/ Scrape \/ Check
    BY <2>3, QuietStep
  <2>4. ASSUME NEW i \in Index, Start(i) \/ End(i) \/ Discard(i) \/ Settle(i) PROVE IInv'
    BY <2>4, StartStep, EndStep, DiscardStep, SettleStep
  <2>5. CASE UNCHANGED vars
    <3>1. UNCHANGED <<burst, next, sends, peak>> /\ UNCHANGED <<now, driver, after, polls, left>>
      BY <2>5 DEF vars, loop, drain
    <3>2. TypeOK' /\ RowsSound' /\ BudgetSound'
      BY <3>1, DriverOnly DEF IInv, TypeOK
    <3> QED BY <3>1, <3>2 DEF IInv, PhaseSound, sends
  <2> QED BY <2>1, <2>2, <2>3, <2>4, <2>5 DEF Next, Driver, Requests
<1> QED BY <1>1, <1>2, PTL DEF Spec

\* Type correctness.
THEOREM TypeCorrect == Spec => []TypeOK
<1>1. IInv => TypeOK
  BY DEF IInv
<1> QED BY <1>1, Invariance, PTL

\* At no time are more requests under way than the budget, nor is more reported.
LEMMA WithinBudget == IInv => OutstandingWithinBudget
<1> SUFFICES ASSUME IInv PROVE OutstandingWithinBudget
  OBVIOUS
<1> DEFINE underWay == {i \in Index : request[i] \in {"created", "sending"}}
<1>1. underWay \subseteq tasks /\ tasks \subseteq Index /\ underWay \subseteq Index
  BY UnderWayIsTasked, StateSets DEF IInv
<1> HIDE DEF underWay
<1>2. Cardinality(underWay) <= Cardinality(tasks)
  BY <1>1, FewerArrivals
<1>3. Cardinality(underWay) \in 0..Arrivals
  BY <1>1, ArrivalCount
<1>4. Cardinality(tasks) \in 0..Arrivals
  BY <1>1, ArrivalCount
<1>5. peak \in Nat
  BY LoadAssumption DEF IInv, TypeOK
<1>6. Cardinality(underWay) <= peak /\ Cardinality(underWay) <= MaxOutstanding
  BY <1>2, <1>3, <1>4, <1>5, LoadAssumption DEF IInv, BudgetSound
<1> QED BY <1>6 DEF IInv, BudgetSound, OutstandingWithinBudget, underWay

\* When every arrival has its one row, the responses among them are those that were sent.
LEMMA ResponsesAreSent ==
  ASSUME IInv, \A i \in Index : request[i] \in {"none", "ended"} /\ i < next
  PROVE  (\A i \in Index : Len(rows[i]) = 1) /\ Total(Responses) = Cardinality(Sent)
<1>1. ASSUME NEW i \in Index
      PROVE  /\ Len(rows[i]) = 1 /\ DOMAIN rows[i] = {1}
             /\ rows[i][1] \in Responses <=> i \in Sent
  <2>1. RequestSound(i) /\ rows[i] \in Seq(Responses \cup Drops)
    BY DEF IInv, RowsSound
  <2>2. Len(rows[i]) = 1 /\ (rows[i][1] \in Responses <=> request[i] = "ended")
    BY <2>1, ResponseAssumption DEF RequestSound
  <2>3. DOMAIN rows[i] = 1..1
    BY <2>1, <2>2
  <2> QED BY <2>2, <2>3 DEF Sent
<1> DEFINE counted == {r \in Index \X {1, 2} : r[2] \in DOMAIN rows[r[1]]
                                               /\ rows[r[1]][r[2]] \in Responses}
           row     == [i \in Sent |-> <<i, 1>>]
<1>2. counted = {<<i, 1>> : i \in Sent}
  <2>1. ASSUME NEW i \in Sent PROVE <<i, 1>> \in counted
    <3>1. i \in Index
      BY DEF Sent
    <3> QED BY <1>1, <3>1
  <2>2. ASSUME NEW r \in counted PROVE r \in {<<i, 1>> : i \in Sent}
    <3>1. PICK i \in Index, j \in {1, 2} : r = <<i, j>>
      OBVIOUS
    <3>2. j \in DOMAIN rows[i] /\ rows[i][j] \in Responses
      BY <3>1
    <3>3. j = 1 /\ i \in Sent
      BY <1>1, <3>2
    <3> QED BY <3>1, <3>3
  <2> QED BY <2>1, <2>2
<1>3. row \in Bijection(Sent, counted)
  <2> HIDE DEF counted
  <2>1. row \in [Sent -> counted]
    BY <1>2
  <2>2. \A a, b \in Sent : row[a] = row[b] => a = b
    OBVIOUS
  <2>3. \A r \in counted : \E a \in Sent : row[a] = r
    BY <1>2
  <2> QED BY <2>1, <2>2, <2>3, Fun_IsBij
<1>4. IsFiniteSet(Sent)
  BY ArrivalCount DEF Sent
<1>5. ExistsBijection(Sent, counted)
  BY <1>3 DEF ExistsBijection
<1> HIDE DEF counted
<1>6. Cardinality(counted) = Cardinality(Sent)
  BY <1>4, <1>5, FS_Bijection
<1> QED BY <1>1, <1>6 DEF Total, counted

\* However requests, drops and discards interleave, a run that is reported has each arrival
\* exactly once, kept the budget, and passes its audit.
THEOREM EveryReportPassesAudit == Spec => []ReportedRunsPassAudit
<1>1. IInv => ReportedRunsPassAudit
  <2> SUFFICES ASSUME IInv PROVE ReportedRunsPassAudit
    OBVIOUS
  <2>1. ASSUME driver = "reported" PROVE Audited
    <3>1. tasks = {} /\ after = 0 /\ next = Arrivals + 1
      BY <2>1 DEF IInv, PhaseSound
    <3>2. ASSUME NEW i \in Index PROVE request[i] \in {"none", "ended"} /\ i < next
      <4>1. request[i] \in {"none", "created", "sending", "ended"}
        BY DEF IInv, TypeOK
      <4>2. i < next
        BY <3>1, LoadAssumption DEF Index
      <4> QED BY <3>1, <4>1, <4>2, UnderWayIsTasked
    <3>3. (\A i \in Index : Len(rows[i]) = 1) /\ Total(Responses) = Cardinality(Sent)
      BY <3>2, ResponsesAreSent
    <3> QED BY <3>1, <3>3 DEF Audited
  <2> QED BY <2>1, WithinBudget DEF IInv, ReportedRunsPassAudit
<1> QED BY <1>1, Invariance, PTL

\* A run leaves no work on the server to the next: it waits, or it fails.
THEOREM ServerIsLeftIdle == Spec => []NothingLeftToTheNextRun
<1>1. IInv => NothingLeftToTheNextRun
  <2> SUFFICES ASSUME IInv, driver = "reported" PROVE server = {}
    BY DEF NothingLeftToTheNextRun
  <2>1. Cardinality(server) <= 0
    BY DEF IInv, PhaseSound
  <2>2. server \subseteq Index
    BY StateSets DEF IInv
  <2>3. IsFiniteSet(server) /\ Cardinality(server) \in 0..Arrivals
    BY <2>2, ArrivalCount
  <2>4. Cardinality(server) = 0
    BY <2>1, <2>3, LoadAssumption
  <2> QED BY <2>3, <2>4, FS_EmptySet
<1> QED BY <1>1, Invariance, PTL

=============================================================================
