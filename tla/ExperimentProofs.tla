--------------------------- MODULE ExperimentProofs ---------------------------
(***************************************************************************)
(* Theorems of Experiment, for every number of attempts, policies and runs.*)
(***************************************************************************)
EXTENDS Experiment, FiniteSetTheorems, TLAPS

-----------------------------------------------------------------------------
(* The invariant of every attempt, whatever the others write.              *)

Labels == {"idle", "checked", "spawning", "polling", "warming", "running", "opening",
           "stopping", "concluding"} \cup Ended

Row == [policy : Range(Policies), run : Nat,
        server : Attempts \X Range(Policies), by : Attempts]

Reports == [status : {"absent", "partial", "whole"}, rows : Seq(Row), provenance : BOOLEAN]

Types ==
  /\ pc \in [Attempts -> Labels]
  /\ results \in [Attempts -> Seq(Row)]
  /\ port \in Attempts \cup {Nobody}
  /\ output \in [Paths -> Reports]
  /\ raw \in [Paths -> SUBSET (Range(Policies) \X Nat \X Attempts)]

\* Where an attempt has no server, and where it has made its directory.
AttemptSound(a) ==
  /\ pc[a] \in {"idle", "checked", "spawning", "concluding", "done", "failed"} => ~Alive(a)
  /\ pc[a] \notin {"idle", "checked"} \cup Ended => Path[a] \in made

\* The inductive invariant of the attempts.
AttemptInv == TypeOK /\ Types /\ \A a \in Attempts : AttemptSound(a)

-----------------------------------------------------------------------------
(* The invariant of the one attempt that writes at an output.              *)

\* An attempt that has not made the directory has left nothing anywhere.
Bystander(a) ==
  pc[a] \in {"idle", "checked", "failed", "killed"} /\ server[a] = "none" /\ results[a] = << >>

\* The rows of an attempt before those of policy q.
Before(q) == (q - 1) * Runs

\* How many rows of the policy it is at an attempt has, which its label bounds.
Measured(o) == Len(results[o]) - Before(position[o])

ProgressSound(o) ==
  /\ Measured(o) \in 0..Runs
  /\ pc[o] \in {"idle", "checked", "spawning", "polling", "warming"} => Measured(o) = 0
  /\ pc[o] = "running" => Measured(o) < Runs
  /\ pc[o] = "opening" => Measured(o) > 0
  /\ pc[o] = "stopping" /\ ~failing[o] => Measured(o) = Runs
  /\ pc[o] \in {"concluding", "done"} => Measured(o) = Runs /\ position[o] = Len(Policies)
  /\ failing[o] => pc[o] \in {"stopping", "failed", "killed"}

\* Row k is of run r of policy q, measured on the attempt's own server or on one of an
\* attempt at another output.
RowIs(o, k, q, r) ==
  /\ k = Before(q) + r
  /\ results[o][k].policy = Policies[q] /\ results[o][k].run = r /\ results[o][k].by = o
  /\ IsOwn(results[o][k]) \/ Path[results[o][k].server[1]] # Path[o]
  /\ <<Policies[q], r, o>> \in raw[Path[o]]

RowsSound(o) ==
  \A k \in 1..Len(results[o]) :
    \E q \in 1..position[o] : \E r \in 1..Runs : RowIs(o, k, q, r)

\* Only the attempt that is done has left a report with its provenance.
ReportSound(o) ==
  output[Path[o]].provenance => pc[o] = "done" /\ output[Path[o]].rows = results[o]

WriterIs(o) ==
  /\ \A a \in Attempts \ {o} : Path[a] = Path[o] => Bystander(a)
  /\ ProgressSound(o) /\ RowsSound(o) /\ ReportSound(o)

\* Nobody has made the directory of an output, or one attempt did.
OutputSound(p) ==
  \/ p \notin made /\ \A a \in Attempts : Path[a] = p => Bystander(a) /\ WriterIs(a)
  \/ p \in made /\ \E o \in Attempts : Path[o] = p /\ WriterIs(o)

\* The inductive invariant of the reports.
ReportInv == \A p \in Paths : OutputSound(p)

-----------------------------------------------------------------------------
(* Every attempt.                                                          *)

\* An attempt is always at one of the policies.
LEMMA PolicyIs ==
  ASSUME AttemptInv, NEW a \in Attempts
  PROVE  Policy(a) \in Range(Policies) /\ Path[a] \in Paths
BY DEF AttemptInv, TypeOK, Policy, Range, Paths

\* The number of a run is a number.
LEMMA RunOfType ==
  ASSUME AttemptInv, NEW a \in Attempts
  PROVE  RunOf(a) \in Nat
<1> DEFINE S == {i \in DOMAIN results[a] : results[a][i].policy = Policy(a)}
<1>1. results[a] \in Seq(Row)
  BY DEF AttemptInv, Types
<1>2. DOMAIN results[a] = 1..Len(results[a]) /\ Len(results[a]) \in Nat
  BY <1>1
<1>3. IsFiniteSet(1..Len(results[a]))
  BY <1>2, FS_Interval
<1>4. S \in SUBSET (1..Len(results[a]))
  BY <1>2
<1>5. IsFiniteSet(S)
  BY <1>3, <1>4, FS_Subset
<1> HIDE DEF S
<1>6. Cardinality(S) \in Nat
  BY <1>5, FS_CardinalityType
<1> QED BY <1>6 DEF RunOf, S

\* The end of a server frees the port it held.
LEMMA ExitIs ==
  ASSUME AttemptInv, NEW a \in Attempts, Exit(a)
  PROVE  /\ server' \in [Attempts -> {"none", "starting", "up", "exited"}]
         /\ port' \in Attempts \cup {Nobody}
         /\ \A b \in Attempts : port' = b <=> server'[b] = "up"
         /\ server'[a] = "exited" /\ \A b \in Attempts \ {a} : server'[b] = server[b]
<1>1. /\ server \in [Attempts -> {"none", "starting", "up", "exited"}]
      /\ port \in Attempts \cup {Nobody}
      /\ \A b \in Attempts : port = b <=> server[b] = "up"
  BY DEF AttemptInv, TypeOK, Types
<1>2. Nobody \notin Attempts
  BY ExperimentAssumption DEF Nobody
<1> QED BY <1>1, <1>2 DEF Exit

\* A server that binds finds the port free, or ends.
LEMMA BindIs ==
  ASSUME AttemptInv, NEW a \in Attempts, Bind(a)
  PROVE  /\ server' \in [Attempts -> {"none", "starting", "up", "exited"}]
         /\ port' \in Attempts \cup {Nobody}
         /\ \A b \in Attempts : port' = b <=> server'[b] = "up"
         /\ server[a] = "starting" /\ \A b \in Attempts \ {a} : server'[b] = server[b]
<1>1. /\ server \in [Attempts -> {"none", "starting", "up", "exited"}]
      /\ port \in Attempts \cup {Nobody}
      /\ \A b \in Attempts : port = b <=> server[b] = "up"
  BY DEF AttemptInv, TypeOK, Types
<1>2. Nobody \notin Attempts
  BY ExperimentAssumption DEF Nobody
<1> QED BY <1>1, <1>2 DEF Bind

\* An attempt that goes from one label to another.
LEMMA GotoIs ==
  ASSUME AttemptInv, NEW a \in Attempts, NEW label \in Labels, Goto(a, label)
  PROVE  /\ pc' \in [Attempts -> Labels] /\ pc'[a] = label
         /\ \A b \in Attempts \ {a} : pc'[b] = pc[b]
BY DEF AttemptInv, Types, Goto

\* What the report of one output becomes.
LEMMA OutputIs ==
  ASSUME AttemptInv, NEW a \in Attempts,
         NEW status \in {"partial", "whole"}, NEW rows \in Seq(Row), NEW provenance \in BOOLEAN,
         output' = [output EXCEPT ![Path[a]] =
                      [status |-> status, rows |-> rows, provenance |-> provenance]],
         Path[a] \in made, made' = made
  PROVE  /\ output' \in [Paths -> Reports]
         /\ \A p \in Paths : /\ output'[p].status \in {"absent", "partial", "whole"}
                             /\ output'[p].status # "absent" => p \in made'
         /\ output'[Path[a]] = [status |-> status, rows |-> rows, provenance |-> provenance]
<1>1. output \in [Paths -> Reports] /\ Path[a] \in Paths
      /\ \A p \in Paths : output[p].status # "absent" => p \in made
  BY PolicyIs DEF AttemptInv, Types, TypeOK
<1>2. [status |-> status, rows |-> rows, provenance |-> provenance] \in Reports
  BY DEF Reports
<1>3. output' \in [Paths -> Reports]
  BY <1>1, <1>2
<1>4. /\ output'[Path[a]] = [status |-> status, rows |-> rows, provenance |-> provenance]
      /\ \A p \in Paths \ {Path[a]} : output'[p] = output[p]
  BY <1>1
<1>5. \A p \in Paths : output'[p].status \in {"absent", "partial", "whole"}
  BY <1>3 DEF Reports
<1> QED BY <1>1, <1>3, <1>4, <1>5

\* Truncating the report leaves what it will be replaced by to be written.
LEMMA OpenIs ==
  ASSUME AttemptInv, NEW a \in Attempts, Open(a)
  PROVE  output' = [output EXCEPT ![Path[a]] =
                      [status |-> "partial", rows |-> output[Path[a]].rows,
                       provenance |-> output[Path[a]].provenance]]
         /\ output[Path[a]].rows \in Seq(Row) /\ output[Path[a]].provenance \in BOOLEAN
<1>1. output \in [Paths -> Reports] /\ Path[a] \in Paths
  BY PolicyIs DEF AttemptInv, Types
<1>2. output[Path[a]] \in Reports
  BY <1>1
<1>3. [output[Path[a]] EXCEPT !.status = "partial"] =
        [status |-> "partial", rows |-> output[Path[a]].rows,
         provenance |-> output[Path[a]].provenance]
  BY <1>2 DEF Reports
<1> QED BY <1>2, <1>3 DEF Open, Reports

\* A step of an attempt that writes nothing but its own label, position, rows and failure.
LEMMA QuietAttempt ==
  ASSUME AttemptInv, NEW a \in Attempts, NEW label \in Labels, Goto(a, label),
         UNCHANGED <<servers, output, made, raw>>,
         results' \in [Attempts -> Seq(Row)],
         position' \in [Attempts -> DOMAIN Policies], failing' \in [Attempts -> BOOLEAN],
         label \in {"idle", "checked", "spawning", "concluding", "done", "failed"} => ~Alive(a),
         label \notin {"idle", "checked"} \cup Ended => Path[a] \in made
  PROVE  AttemptInv'
<1>1. /\ pc' \in [Attempts -> Labels] /\ pc'[a] = label
      /\ \A b \in Attempts \ {a} : pc'[b] = pc[b]
  BY GotoIs
<1>2. UNCHANGED <<server, port, output, made, raw>>
  BY DEF servers
<1>3. TypeOK'
  BY <1>2 DEF AttemptInv, TypeOK
<1>4. Types'
  BY <1>1, <1>2 DEF AttemptInv, Types
<1>5. ASSUME NEW b \in Attempts PROVE AttemptSound(b)'
  BY <1>1, <1>2 DEF AttemptInv, AttemptSound, Alive
<1> QED BY <1>3, <1>4, <1>5 DEF AttemptInv

\* Checking the output, polling, warming, failing and dying leave the files alone.
LEMMA AttemptReads ==
  ASSUME AttemptInv, NEW a \in Attempts,
         CheckOutput(a) \/ PollReady(a) \/ Warm(a) \/ Fail(a) \/ KillAttempt(a)
  PROVE  AttemptInv'
<1> USE DEF files, servers
<1>1. /\ results \in [Attempts -> Seq(Row)] /\ position \in [Attempts -> DOMAIN Policies]
      /\ failing \in [Attempts -> BOOLEAN] /\ AttemptSound(a)
  BY DEF AttemptInv, Types, TypeOK
<1>2. CASE CheckOutput(a)
  <2>1. PICK label \in {"checked", "failed"} : Goto(a, label)
    BY <1>2 DEF CheckOutput
  <2>2. label \in Labels /\ label \in {"idle", "checked"} \cup Ended
    BY DEF Labels, Ended
  <2> QED BY <1>1, <1>2, <2>1, <2>2, QuietAttempt DEF CheckOutput, AttemptSound
<1>3. CASE PollReady(a)
  <2>1. "warming" \in Labels /\ pc[a] \notin {"idle", "checked"} \cup Ended
    BY <1>3 DEF PollReady, Labels, Ended
  <2> QED BY <1>1, <1>3, <2>1, QuietAttempt DEF PollReady, AttemptSound
<1>4. CASE Warm(a)
  <2>1. "running" \in Labels /\ pc[a] \notin {"idle", "checked"} \cup Ended
    BY <1>4 DEF Warm, Labels, Ended
  <2> QED BY <1>1, <1>4, <2>1, QuietAttempt DEF Warm, AttemptSound
<1>5. CASE Fail(a)
  <2>1. "stopping" \in Labels /\ pc[a] \notin {"idle", "checked"} \cup Ended
    BY <1>5 DEF Fail, Labels, Ended
  <2>2. failing' \in [Attempts -> BOOLEAN]
    BY <1>1, <1>5 DEF Fail, Raise
  <2> QED BY <1>1, <1>5, <2>1, <2>2, QuietAttempt DEF Fail, AttemptSound
<1>6. CASE KillAttempt(a)
  <2>1. "killed" \in Labels /\ "killed" \in Ended
    BY DEF Labels, Ended
  <2> QED BY <1>1, <1>6, <2>1, QuietAttempt DEF KillAttempt
<1> QED BY <1>2, <1>3, <1>4, <1>5, <1>6

\* mkdir() gives an attempt its directory, or fails.
LEMMA AttemptMakes ==
  ASSUME AttemptInv, NEW a \in Attempts, MakeDirectory(a)
  PROVE  AttemptInv'
<1>1. /\ UNCHANGED <<position, results, failing, server, port, output, raw>>
      /\ \/ Goto(a, "spawning") /\ made' = made \cup {Path[a]}
         \/ Goto(a, "failed") /\ made' = made
      /\ pc[a] = "checked"
  BY DEF MakeDirectory, servers
<1>2. {"spawning", "failed"} \subseteq Labels
  BY DEF Labels, Ended
<1>3. /\ pc' \in [Attempts -> Labels] /\ \A b \in Attempts \ {a} : pc'[b] = pc[b]
      /\ \/ pc'[a] = "spawning" /\ made' = made \cup {Path[a]}
         \/ pc'[a] = "failed" /\ made' = made
  BY <1>1, <1>2, GotoIs
<1>4. TypeOK'
  BY <1>1, <1>3 DEF AttemptInv, TypeOK
<1>5. Types'
  BY <1>1, <1>3 DEF AttemptInv, Types
<1>6. ASSUME NEW b \in Attempts PROVE AttemptSound(b)'
  BY <1>1, <1>3 DEF AttemptInv, AttemptSound, Alive, Ended
<1> QED BY <1>4, <1>5, <1>6 DEF AttemptInv

\* A spawned server is the attempt's own.
LEMMA AttemptSpawns ==
  ASSUME AttemptInv, NEW a \in Attempts, Spawn(a)
  PROVE  AttemptInv'
<1>1. /\ UNCHANGED <<position, results, failing, port, output, made, raw>> /\ pc[a] = "spawning"
      /\ server' = [server EXCEPT ![a] = "starting"] /\ Goto(a, "polling")
  BY DEF Spawn, files
<1>2. "polling" \in Labels
  BY DEF Labels
<1>3. /\ pc' \in [Attempts -> Labels] /\ \A b \in Attempts \ {a} : pc'[b] = pc[b]
      /\ pc'[a] = "polling"
  BY <1>1, <1>2, GotoIs
<1>4. /\ server \in [Attempts -> {"none", "starting", "up", "exited"}]
      /\ server[a] # "up" /\ Path[a] \in made
  BY <1>1 DEF AttemptInv, TypeOK, AttemptSound, Alive, Ended
<1>5. TypeOK'
  BY <1>1, <1>4 DEF AttemptInv, TypeOK
<1>6. Types'
  BY <1>1, <1>3 DEF AttemptInv, Types
<1>7. ASSUME NEW b \in Attempts PROVE AttemptSound(b)'
  BY <1>1, <1>3, <1>4 DEF AttemptInv, AttemptSound, Alive, Ended
<1> QED BY <1>5, <1>6, <1>7 DEF AttemptInv

\* A run adds one row, by the attempt, of the server that has the port.
LEMMA AttemptRuns ==
  ASSUME AttemptInv, NEW a \in Attempts, RunLoad(a)
  PROVE  AttemptInv'
<1> DEFINE row == [policy |-> Policy(a), run |-> RunOf(a), server |-> <<port, Policy(port)>>, by |-> a]
<1>1. /\ UNCHANGED <<position, failing, server, port, output, made>>
      /\ pc[a] = "running" /\ port # Nobody
      /\ raw' = [raw EXCEPT ![Path[a]] =
                    {f \in @ : <<f[1], f[2]>> # <<Policy(a), RunOf(a)>>}
                      \cup {<<Policy(a), RunOf(a), a>>}]
      /\ results' = [results EXCEPT ![a] = Append(@, row)]
      /\ Goto(a, "opening")
  BY DEF RunLoad, servers
<1>2. "opening" \in Labels
  BY DEF Labels
<1>3. /\ pc' \in [Attempts -> Labels] /\ \A b \in Attempts \ {a} : pc'[b] = pc[b]
      /\ pc'[a] = "opening"
  BY <1>1, <1>2, GotoIs
<1>4. port \in Attempts /\ Policy(a) \in Range(Policies) /\ Policy(port) \in Range(Policies)
      /\ Path[a] \in Paths /\ RunOf(a) \in Nat
  BY <1>1, PolicyIs, RunOfType DEF AttemptInv, Types
<1>5. row \in Row
  BY <1>4 DEF Row
<1> HIDE DEF row
<1>6. results' \in [Attempts -> Seq(Row)]
  <2>1. results \in [Attempts -> Seq(Row)]
    BY DEF AttemptInv, Types
  <2>2. Append(results[a], row) \in Seq(Row)
    BY <1>5, <2>1
  <2> QED BY <1>1, <2>1, <2>2
<1>7. raw' \in [Paths -> SUBSET (Range(Policies) \X Nat \X Attempts)]
  <2> DEFINE Records == Range(Policies) \X Nat \X Attempts
  <2>1. raw \in [Paths -> SUBSET Records]
    BY DEF AttemptInv, Types
  <2>2. <<Policy(a), RunOf(a), a>> \in Records
    BY <1>4
  <2> HIDE DEF Records
  <2>3. raw' \in [Paths -> SUBSET Records]
    BY <1>1, <1>4, <2>1, <2>2
  <2> QED BY <2>3 DEF Records
<1>8. TypeOK'
  BY <1>1 DEF AttemptInv, TypeOK
<1>9. Types'
  BY <1>1, <1>3, <1>6, <1>7 DEF AttemptInv, Types
<1>10. ASSUME NEW b \in Attempts PROVE AttemptSound(b)'
  BY <1>1, <1>3 DEF AttemptInv, AttemptSound, Alive, Ended
<1> QED BY <1>8, <1>9, <1>10 DEF AttemptInv

\* The next label of an attempt that wrote its rows.
LEMMA RowsWritten ==
  ASSUME NEW a \in Attempts, WriteRows(a)
  PROVE  /\ pc[a] = "opening" /\ UNCHANGED <<position, results, failing, server, port, made, raw>>
         /\ output' = [output EXCEPT ![Path[a]] =
                         [status |-> "whole", rows |-> results[a], provenance |-> FALSE]]
         /\ \/ RunOf(a) > Runs /\ Goto(a, "stopping")
            \/ ~(RunOf(a) > Runs) /\ Goto(a, "running")
BY DEF WriteRows, Report, Unfinished, servers

\* An attempt writes the report only in a directory that was made.
LEMMA AttemptWrites ==
  ASSUME AttemptInv, NEW a \in Attempts, Open(a) \/ WriteRows(a) \/ Conclude(a)
  PROVE  AttemptInv'
<1>1. UNCHANGED <<position, results, failing, server, port, made, raw>>
      /\ pc[a] \in {"opening", "concluding"}
  BY DEF Open, WriteRows, Conclude, attempt, servers
<1>2. Path[a] \in made /\ results[a] \in Seq(Row) /\ TRUE \in BOOLEAN /\ FALSE \in BOOLEAN
  BY <1>1 DEF AttemptInv, Types, AttemptSound, Ended
<1>3. /\ output' \in [Paths -> Reports]
      /\ \A p \in Paths : /\ output'[p].status \in {"absent", "partial", "whole"}
                          /\ output'[p].status # "absent" => p \in made'
  <2>1. CASE Open(a)
    BY <1>1, <1>2, <2>1, OpenIs, OutputIs
  <2>2. CASE WriteRows(a)
    BY <1>1, <1>2, <2>2, RowsWritten, OutputIs
  <2>3. CASE Conclude(a)
    BY <1>1, <1>2, <2>3, OutputIs DEF Conclude, Report
  <2> QED BY <2>1, <2>2, <2>3
<1>4. PICK label \in {pc[a], "stopping", "running", "done"} :
        /\ pc' = [pc EXCEPT ![a] = label]
        /\ label = "done" => pc[a] = "concluding"
  <2>1. CASE Open(a)
    <3>1. pc' = pc
      BY <2>1 DEF Open, attempt
    <3>2. pc \in [Attempts -> Labels]
      BY DEF AttemptInv, Types
    <3>3. pc' = [pc EXCEPT ![a] = pc[a]]
      BY <3>1, <3>2
    <3> QED BY <1>1, <3>3
  <2>2. CASE WriteRows(a)
    BY <2>2, RowsWritten DEF Goto
  <2>3. CASE Conclude(a)
    BY <2>3 DEF Conclude, Goto
  <2> QED BY <2>1, <2>2, <2>3
<1>5. /\ pc' \in [Attempts -> Labels] /\ pc'[a] = label
      /\ \A b \in Attempts \ {a} : pc'[b] = pc[b]
  <2>1. label \in Labels
    BY <1>1, <1>4 DEF Labels, Ended
  <2> QED BY <1>4, <2>1, GotoIs DEF Goto
<1>6. TypeOK'
  BY <1>1, <1>3 DEF AttemptInv, TypeOK
<1>7. Types'
  BY <1>1, <1>3, <1>5 DEF AttemptInv, Types
<1>8. ASSUME NEW b \in Attempts PROVE AttemptSound(b)'
  BY <1>1, <1>2, <1>4, <1>5 DEF AttemptInv, AttemptSound, Alive, Ended
<1> QED BY <1>6, <1>7, <1>8 DEF AttemptInv

\* Where an attempt goes when its server is gone.
LEMMA StoppedIs ==
  ASSUME AttemptInv, NEW a \in Attempts, StopServer(a)
  PROVE  /\ pc[a] = "stopping" /\ Exit(a)
         /\ UNCHANGED <<results, failing, output, made, raw>>
         /\ \/ failing[a] /\ Goto(a, "failed") /\ UNCHANGED position
            \/ /\ ~failing[a] /\ position[a] < Len(Policies) /\ Goto(a, "spawning")
               /\ position' = [position EXCEPT ![a] = @ + 1]
            \/ /\ ~failing[a] /\ ~(position[a] < Len(Policies)) /\ Goto(a, "concluding")
               /\ UNCHANGED position
         /\ position' \in [Attempts -> DOMAIN Policies]
<1>1. /\ pc[a] = "stopping" /\ Exit(a)
      /\ UNCHANGED <<results, failing, output, made, raw>>
      /\ \/ failing[a] /\ Goto(a, "failed") /\ UNCHANGED position
         \/ /\ ~failing[a] /\ position[a] < Len(Policies) /\ Goto(a, "spawning")
            /\ position' = [position EXCEPT ![a] = @ + 1]
         \/ /\ ~failing[a] /\ ~(position[a] < Len(Policies)) /\ Goto(a, "concluding")
            /\ UNCHANGED position
  BY DEF StopServer, Kill, MorePolicies, files
<1>2. position \in [Attempts -> DOMAIN Policies] /\ DOMAIN Policies = 1..Len(Policies)
      /\ Len(Policies) \in Nat
  BY ExperimentAssumption DEF AttemptInv, TypeOK
<1>3. position' \in [Attempts -> DOMAIN Policies]
  <2>1. position[a] < Len(Policies) => position[a] + 1 \in DOMAIN Policies
    BY <1>2
  <2> QED BY <1>1, <1>2, <2>1
<1> QED BY <1>1, <1>3

\* When an attempt has stopped its server there is none of it.
LEMMA AttemptStops ==
  ASSUME AttemptInv, NEW a \in Attempts, StopServer(a)
  PROVE  AttemptInv'
<1>1. /\ pc[a] = "stopping" /\ Exit(a) /\ UNCHANGED <<results, failing, output, made, raw>>
      /\ position' \in [Attempts -> DOMAIN Policies]
  BY StoppedIs
<1>2. PICK label \in {"failed", "spawning", "concluding"} : Goto(a, label)
  BY StoppedIs
<1>3. /\ pc' \in [Attempts -> Labels] /\ pc'[a] = label
      /\ \A b \in Attempts \ {a} : pc'[b] = pc[b]
  <2>1. label \in Labels
    BY DEF Labels, Ended
  <2> QED BY <1>2, <2>1, GotoIs
<1>4. /\ server' \in [Attempts -> {"none", "starting", "up", "exited"}]
      /\ port' \in Attempts \cup {Nobody}
      /\ \A b \in Attempts : port' = b <=> server'[b] = "up"
      /\ server'[a] = "exited" /\ \A b \in Attempts \ {a} : server'[b] = server[b]
  BY <1>1, ExitIs
<1>5. TypeOK'
  BY <1>1, <1>4 DEF AttemptInv, TypeOK
<1>6. Types'
  BY <1>1, <1>3, <1>4 DEF AttemptInv, Types
<1>7. ASSUME NEW b \in Attempts PROVE AttemptSound(b)'
  BY <1>1, <1>2, <1>3, <1>4 DEF AttemptInv, AttemptSound, Alive, Ended
<1> QED BY <1>5, <1>6, <1>7 DEF AttemptInv

\* A server binds the port when it is free, and frees it when it dies.
LEMMA ServersMove ==
  ASSUME AttemptInv, NEW a \in Attempts, Bind(a) \/ ServerDies(a)
  PROVE  AttemptInv'
<1>1. UNCHANGED <<pc, position, results, failing, output, made, raw>>
  BY DEF Bind, ServerDies, attempt, files
<1>2. /\ server' \in [Attempts -> {"none", "starting", "up", "exited"}]
      /\ port' \in Attempts \cup {Nobody}
      /\ \A b \in Attempts : port' = b <=> server'[b] = "up"
      /\ Alive(a) /\ \A b \in Attempts \ {a} : server'[b] = server[b]
  <2>1. CASE Bind(a)
    BY <2>1, BindIs DEF Alive
  <2>2. CASE ServerDies(a)
    BY <2>2, ExitIs DEF ServerDies, Alive
  <2> QED BY <2>1, <2>2
<1>3. TypeOK'
  BY <1>1, <1>2 DEF AttemptInv, TypeOK
<1>4. Types'
  BY <1>1, <1>2 DEF AttemptInv, Types
<1>5. ASSUME NEW b \in Attempts PROVE AttemptSound(b)'
  BY <1>1, <1>2 DEF AttemptInv, AttemptSound, Alive
<1> QED BY <1>3, <1>4, <1>5 DEF AttemptInv

\* At the start no attempt has a server.
LEMMA AttemptInit == Init => AttemptInv
<1> SUFFICES ASSUME Init PROVE AttemptInv
  OBVIOUS
<1>1. 1 \in DOMAIN Policies /\ Nobody \notin Attempts
  BY ExperimentAssumption DEF Nobody
<1>2. TypeOK
  BY <1>1 DEF Init, TypeOK, NoReport
<1>3. Types
  <2>1. NoReport \in Reports /\ << >> \in Seq(Row)
    BY DEF NoReport, Reports
  <2> QED BY <2>1 DEF Init, Types, Labels
<1>4. \A a \in Attempts : AttemptSound(a)
  BY DEF Init, AttemptSound, Alive
<1> QED BY <1>2, <1>3, <1>4 DEF AttemptInv

\* Every step keeps AttemptInv.
LEMMA AttemptStep == AttemptInv /\ [Next]_vars => AttemptInv'
<1> SUFFICES ASSUME AttemptInv, [Next]_vars PROVE AttemptInv'
  OBVIOUS
<1>1. ASSUME NEW a \in Attempts, Step(a) \/ KillAttempt(a) \/ Bind(a) \/ ServerDies(a)
      PROVE  AttemptInv'
  BY <1>1, AttemptReads, AttemptMakes, AttemptSpawns, AttemptRuns, AttemptWrites, AttemptStops,
     ServersMove DEF Step
<1>2. CASE UNCHANGED vars
  <2>1. UNCHANGED <<pc, position, results, failing, server, port, output, made, raw>>
    BY <1>2 DEF vars, attempt, servers, files
  <2>2. TypeOK' /\ Types'
    BY <2>1 DEF AttemptInv, TypeOK, Types
  <2>3. \A a \in Attempts : AttemptSound(a)'
    BY <2>1 DEF AttemptInv, AttemptSound, Alive
  <2> QED BY <2>2, <2>3 DEF AttemptInv
<1> QED BY <1>1, <1>2 DEF Next

\* The invariant of the attempts holds however they overlap and whatever output they have.
THEOREM AttemptsAreSound == Spec => []AttemptInv
BY AttemptInit, AttemptStep, PTL DEF Spec

\* An attempt that ends, whether it failed or not, leaves no server behind.
THEOREM NoServerIsLeft == Spec => []NoServerLeftBehind
<1>1. AttemptInv => NoServerLeftBehind
  BY DEF AttemptInv, AttemptSound, NoServerLeftBehind
<1> QED BY <1>1, AttemptsAreSound, PTL

-----------------------------------------------------------------------------
(* The rows of the one attempt that writes.                                *)

\* The rows of one policy follow those of the policies before it.
LEMMA BeforeNext ==
  ASSUME NEW q \in Nat \ {0}
  PROVE  Before(q) \in Nat /\ Before(q + 1) = Before(q) + Runs
<1>1. Runs \in Nat /\ q - 1 \in Nat
  BY ExperimentAssumption
<1>2. (q - 1) * Runs \in Nat /\ ((q - 1) + 1) * Runs = (q - 1) * Runs + Runs
  BY <1>1
<1>3. (q - 1) + 1 = (q + 1) - 1
  OBVIOUS
<1> QED BY <1>2, <1>3 DEF Before

\* Those of an earlier policy are all before those of a later one.
LEMMA BeforeGrows ==
  ASSUME NEW p \in Nat \ {0}, NEW q \in Nat \ {0}, p < q
  PROVE  Before(p) + Runs <= Before(q)
<1>1. Runs \in Nat
  BY ExperimentAssumption
<1>2. PICK c \in Nat : q - 1 = p + c
  <2> WITNESS (q - 1) - p \in Nat
  <2> QED OBVIOUS
<1>3. (q - 1) * Runs = p * Runs + c * Runs
  BY <1>1, <1>2
<1>4. p * Runs = Before(p) + Runs
  <2>1. PICK d \in Nat : p = d + 1
    <3> WITNESS p - 1 \in Nat
    <3> QED OBVIOUS
  <2>2. (d + 1) * Runs = d * Runs + Runs
    BY <1>1
  <2> QED BY <2>1, <2>2 DEF Before
<1>5. c * Runs \in Nat /\ p * Runs \in Nat
  BY <1>1
<1> QED BY <1>3, <1>4, <1>5 DEF Before

\* Where an attempt is among the policies, and how many rows it has.
LEMMA PlaceIs ==
  ASSUME AttemptInv, NEW o \in Attempts
  PROVE  /\ position[o] \in 1..Len(Policies) /\ Len(Policies) \in Nat /\ position[o] \in Nat \ {0}
         /\ Before(position[o]) \in Nat /\ Len(results[o]) \in Nat
         /\ DOMAIN results[o] = 1..Len(results[o])
         /\ Measured(o) \in Int /\ Len(results[o]) = Before(position[o]) + Measured(o)
<1>1. position[o] \in DOMAIN Policies /\ DOMAIN Policies = 1..Len(Policies) /\ Len(Policies) \in Nat
  BY ExperimentAssumption DEF AttemptInv, TypeOK
<1>2. position[o] \in Nat \ {0}
  BY <1>1
<1>3. Before(position[o]) \in Nat
  BY <1>2, BeforeNext
<1>4. Len(results[o]) \in Nat /\ DOMAIN results[o] = 1..Len(results[o])
  BY DEF AttemptInv, Types
<1> QED BY <1>1, <1>2, <1>3, <1>4 DEF Measured

\* The rows of the policy an attempt is at are the last ones, as many as it has measured.
LEMMA RunOfIs ==
  ASSUME AttemptInv, NEW o \in Attempts, RowsSound(o), Measured(o) \in 0..Runs
  PROVE  RunOf(o) = 1 + Measured(o)
<1> DEFINE n == Len(results[o])
           b == Before(position[o])
           S == {i \in DOMAIN results[o] : results[o][i].policy = Policy(o)}
<1>1. /\ position[o] \in 1..Len(Policies) /\ position[o] \in Nat \ {0} /\ Len(Policies) \in Nat
      /\ b \in Nat /\ n \in Nat /\ DOMAIN results[o] = 1..n /\ n = b + Measured(o)
      /\ DOMAIN Policies = 1..Len(Policies) /\ Runs \in Nat /\ Measured(o) \in Nat
  BY PlaceIs, ExperimentAssumption
<1>2. ASSUME NEW i \in 1..n PROVE results[o][i].policy = Policy(o) <=> i \in (b + 1)..n
  <2>1. PICK q \in 1..position[o] : \E r \in 1..Runs : RowIs(o, i, q, r)
    BY DEF RowsSound
  <2>2. PICK r \in 1..Runs : RowIs(o, i, q, r)
    BY <2>1
  <2>3. i = Before(q) + r /\ results[o][i].policy = Policies[q]
    BY <2>2 DEF RowIs
  <2>4. q \in DOMAIN Policies /\ position[o] \in DOMAIN Policies /\ q \in Nat \ {0}
    BY <1>1
  <2>5. CASE q = position[o]
    BY <1>1, <2>3, <2>5 DEF Policy
  <2>6. CASE q # position[o]
    <3>1. q < position[o]
      BY <1>1, <2>6
    <3>2. Before(q) + Runs <= b /\ Before(q) \in Nat
      BY <1>1, <2>4, <3>1, BeforeGrows, BeforeNext
    <3>3. i <= b
      BY <1>1, <2>3, <3>2
    <3>4. Policies[q] # Policies[position[o]]
      BY <2>4, <2>6, PolicyAssumption
    <3> QED BY <1>1, <2>3, <3>3, <3>4 DEF Policy
  <2> QED BY <2>5, <2>6
<1>3. S = (b + 1)..n
  BY <1>1, <1>2
<1> HIDE DEF n, b, S
<1>4. Cardinality((b + 1)..n) = Measured(o)
  <2>1. b + 1 \in Int /\ n \in Int
    BY <1>1
  <2>2. Cardinality((b + 1)..n) = IF b + 1 > n THEN 0 ELSE n - (b + 1) + 1
    BY <2>1, FS_Interval
  <2> QED BY <1>1, <2>2
<1>5. Cardinality(S) = Measured(o)
  BY <1>3, <1>4
<1> QED BY <1>5 DEF RunOf, S

\* Rows stay sound while no row is added and no record is lost.
LEMMA RowsKept ==
  ASSUME AttemptInv, NEW o \in Attempts, RowsSound(o), results'[o] = results[o],
         raw'[Path[o]] = raw[Path[o]],
         position'[o] \in Nat, position[o] <= position'[o]
  PROVE  RowsSound(o)'
<1> SUFFICES ASSUME NEW k \in 1..Len(results[o])
             PROVE  \E q \in 1..position'[o] : \E r \in 1..Runs : RowIs(o, k, q, r)'
  BY DEF RowsSound
<1>1. PICK q \in 1..position[o] : \E r \in 1..Runs : RowIs(o, k, q, r)
  BY DEF RowsSound
<1>2. PICK r \in 1..Runs : RowIs(o, k, q, r)
  BY <1>1
<1>3. RowIs(o, k, q, r)'
  BY <1>2 DEF RowIs, Before
<1>4. q \in 1..position'[o]
  BY PlaceIs
<1> QED BY <1>3, <1>4

\* A run adds the next row of the policy, with the records of this attempt alone.
LEMMA RowAdded ==
  ASSUME AttemptInv, NEW o \in Attempts, WriterIs(o), RunLoad(o)
  PROVE  RowsSound(o)' /\ Len(results'[o]) = Len(results[o]) + 1
<1> DEFINE n   == Len(results[o])
           q   == position[o]
           run == RunOf(o)
           row == [policy |-> Policies[q], run |-> run, server |-> <<port, Policy(port)>>, by |-> o]
<1>1. /\ UNCHANGED position /\ pc[o] = "running" /\ port # Nobody
      /\ raw' = [raw EXCEPT ![Path[o]] =
                    {f \in @ : <<f[1], f[2]>> # <<Policy(o), RunOf(o)>>}
                      \cup {<<Policy(o), RunOf(o), o>>}]
      /\ results' = [results EXCEPT ![o] = Append(@,
            [policy |-> Policy(o), run |-> RunOf(o), server |-> <<port, Policy(port)>>, by |-> o])]
  BY DEF RunLoad
<1>2. port \in Attempts /\ (port = o \/ Path[port] # Path[o])
  <2>1. port \in Attempts /\ server[port] = "up"
    BY <1>1 DEF AttemptInv, Types, TypeOK
  <2>2. \A a \in Attempts \ {o} : Path[a] = Path[o] => server[a] = "none"
    BY DEF WriterIs, Bystander
  <2> QED BY <2>1, <2>2
<1>3. /\ n \in Nat /\ q \in Nat \ {0} /\ Before(q) \in Nat /\ n = Before(q) + Measured(o)
      /\ Measured(o) \in Nat /\ Measured(o) < Runs /\ Runs \in Nat /\ q \in DOMAIN Policies
      /\ DOMAIN Policies = 1..Len(Policies)
  BY <1>1, PlaceIs, ExperimentAssumption DEF WriterIs, ProgressSound
<1>4. run = 1 + Measured(o)
  BY RunOfIs DEF WriterIs, ProgressSound
<1>5. results'[o] = Append(results[o], row) /\ results[o] \in Seq(Row)
  <2>1. results \in [Attempts -> Seq(Row)]
    BY DEF AttemptInv, Types
  <2> QED BY <1>1, <2>1 DEF Policy
<1>6. IsOwn(row) \/ Path[row.server[1]] # Path[o]
  BY <1>2 DEF IsOwn, Policy
<1>7. /\ <<Policies[q], run, o>> \in raw'[Path[o]]
      /\ \A f \in raw[Path[o]] : <<f[1], f[2]>> # <<Policies[q], run>> => f \in raw'[Path[o]]
  <2>1. raw \in [Paths -> SUBSET (Range(Policies) \X Nat \X Attempts)] /\ Path[o] \in Paths
    BY PolicyIs DEF AttemptInv, Types
  <2> QED BY <1>1, <2>1 DEF Policy
<1> HIDE DEF row, run
<1>8. /\ Len(results'[o]) = n + 1 /\ results'[o][n + 1] = row
      /\ \A k \in 1..n : results'[o][k] = results[o][k]
  BY <1>5
<1>9. ASSUME NEW k \in 1..n
      PROVE  \E p \in 1..position'[o] : \E r \in 1..Runs : RowIs(o, k, p, r)'
  <2>1. PICK p \in 1..q : \E r \in 1..Runs : RowIs(o, k, p, r)
    BY DEF WriterIs, RowsSound
  <2>2. PICK r \in 1..Runs : RowIs(o, k, p, r)
    BY <2>1
  <2>3. /\ k = Before(p) + r /\ <<Policies[p], r, o>> \in raw[Path[o]]
        /\ results[o][k].policy = Policies[p] /\ results[o][k].run = r /\ results[o][k].by = o
        /\ IsOwn(results[o][k]) \/ Path[results[o][k].server[1]] # Path[o]
    BY <2>2 DEF RowIs
  <2>4. p \in DOMAIN Policies
    BY <1>3
  <2>5. <<Policies[p], r>> # <<Policies[q], run>>
    <3>1. ASSUME Policies[p] = Policies[q], r = run PROVE FALSE
      <4>1. p = q
        BY <1>3, <2>4, <3>1, PolicyAssumption
      <4>2. k = Before(q) + 1 + Measured(o)
        BY <1>3, <1>4, <2>3, <3>1, <4>1
      <4> QED BY <1>3, <4>2
    <3> QED BY <3>1
  <2>6. <<Policies[p], r, o>> \in raw'[Path[o]]
    BY <1>7, <2>3, <2>5
  <2>7. RowIs(o, k, p, r)'
    BY <1>8, <2>3, <2>6 DEF RowIs, Before, IsOwn
  <2> QED BY <1>1, <2>7
<1>10. ASSUME NEW k, k = n + 1
      PROVE  \E p \in 1..position'[o] : \E r \in 1..Runs : RowIs(o, k, p, r)'
  <2>1. PICK p \in 1..position'[o] : p = q
    BY <1>1, <1>3
  <2>2. PICK r \in 1..Runs : r = run
    BY <1>3, <1>4
  <2>3. k = Before(p) + r
    BY <1>3, <1>4, <1>10, <2>1, <2>2
  <2>4. RowIs(o, k, p, r)'
    <3>1. row.policy = Policies[q] /\ row.run = run /\ row.by = o
      BY DEF row
    <3> QED BY <1>7, <1>8, <1>10, <1>6, <2>1, <2>2, <2>3, <3>1 DEF RowIs, Before, IsOwn
  <2> QED BY <2>4
<1>11. RowsSound(o)'
  <2> SUFFICES ASSUME NEW k \in 1..Len(results'[o])
               PROVE  \E p \in 1..position'[o] : \E r \in 1..Runs : RowIs(o, k, p, r)'
    BY DEF RowsSound
  <2>1. k \in 1..n \/ k = n + 1
    BY <1>3, <1>8
  <2> QED BY <1>9, <1>10, <2>1
<1> QED BY <1>8, <1>11

\* What a step of an attempt leaves alone of the others.
LEMMA OthersKept ==
  ASSUME AttemptInv, NEW o \in Attempts, NEW a \in Attempts, a # o,
         Step(o) \/ KillAttempt(o) \/ Bind(o) \/ ServerDies(o)
  PROVE  pc'[a] = pc[a] /\ position'[a] = position[a] /\ results'[a] = results[a]
         /\ failing'[a] = failing[a] /\ server'[a] = server[a]
<1>1. /\ pc \in [Attempts -> Labels] /\ position \in [Attempts -> DOMAIN Policies]
      /\ results \in [Attempts -> Seq(Row)] /\ failing \in [Attempts -> BOOLEAN]
      /\ server \in [Attempts -> {"none", "starting", "up", "exited"}]
  BY DEF AttemptInv, Types, TypeOK
<1> USE <1>1 DEF Goto, attempt, servers, files
<1>2. CASE CheckOutput(o) \/ MakeDirectory(o) \/ Spawn(o) \/ PollReady(o) \/ Warm(o)
  BY <1>2 DEF CheckOutput, MakeDirectory, Spawn, PollReady, Warm
<1>3. CASE RunLoad(o)
  BY <1>3 DEF RunLoad
<1>4. CASE Open(o) \/ WriteRows(o) \/ Conclude(o)
  BY <1>4 DEF Open, WriteRows, Conclude
<1>5. CASE Fail(o) \/ KillAttempt(o)
  BY <1>5 DEF Fail, Raise, KillAttempt
<1>6. CASE StopServer(o)
  BY <1>6 DEF StopServer, Exit, Kill
<1>7. CASE Bind(o) \/ ServerDies(o)
  BY <1>7 DEF Bind, ServerDies, Exit
<1> QED BY <1>2, <1>3, <1>4, <1>5, <1>6, <1>7 DEF Step

\* Where neither rows nor position change, an attempt has measured as much as before.
LEMMA MeasuredKept ==
  ASSUME NEW o \in Attempts, results'[o] = results[o], position'[o] = position[o]
  PROVE  Measured(o)' = Measured(o)
BY DEF Measured, Before

\* A step of the writer moves its position and its runs as its place says.
LEMMA ProgressStep ==
  ASSUME AttemptInv, NEW o \in Attempts, WriterIs(o),
         Step(o) \/ KillAttempt(o) \/ Bind(o) \/ ServerDies(o)
  PROVE  ProgressSound(o)'
<1>1. /\ pc \in [Attempts -> Labels] /\ failing \in [Attempts -> BOOLEAN]
      /\ ProgressSound(o) /\ RowsSound(o) /\ Runs \in Nat \ {0} /\ Measured(o) \in 0..Runs
  BY ExperimentAssumption DEF AttemptInv, Types, TypeOK, WriterIs, ProgressSound
<1> USE DEF Goto, attempt, servers, files
<1>2. CASE Bind(o) \/ ServerDies(o) \/ Open(o)
  <2>1. UNCHANGED <<pc, position, results, failing>>
    BY <1>2 DEF Bind, ServerDies, Open
  <2>2. Measured(o)' = Measured(o)
    BY <2>1, MeasuredKept
  <2> QED BY <1>1, <2>1, <2>2 DEF ProgressSound
<1>3. CASE CheckOutput(o) \/ MakeDirectory(o) \/ Spawn(o) \/ PollReady(o) \/ Warm(o)
           \/ KillAttempt(o)
  <2>1. UNCHANGED <<position, results, failing>>
    BY <1>3 DEF CheckOutput, MakeDirectory, Spawn, PollReady, Warm, KillAttempt
  <2>2. Measured(o)' = Measured(o)
    BY <2>1, MeasuredKept
  <2>3. \/ pc[o] = "idle" /\ pc'[o] \in {"checked", "failed"}
        \/ pc[o] = "checked" /\ pc'[o] \in {"spawning", "failed"}
        \/ pc[o] = "spawning" /\ pc'[o] = "polling"
        \/ pc[o] = "polling" /\ pc'[o] = "warming"
        \/ pc[o] = "warming" /\ pc'[o] = "running"
        \/ pc[o] # "idle" /\ pc'[o] = "killed"
    BY <1>1, <1>3 DEF CheckOutput, MakeDirectory, Spawn, PollReady, Warm, KillAttempt
  <2> QED BY <1>1, <2>1, <2>2, <2>3 DEF ProgressSound
<1>4. CASE RunLoad(o)
  <2>1. /\ pc[o] = "running" /\ pc'[o] = "opening" /\ UNCHANGED <<position, failing>>
    BY <1>1, <1>4 DEF RunLoad
  <2>2. Len(results'[o]) = Len(results[o]) + 1
    BY <1>4, RowAdded
  <2>3. Measured(o)' = Measured(o) + 1
    <3>1. Measured(o)' = Len(results'[o]) - Before(position[o])
      BY <2>1 DEF Measured, Before
    <3> QED BY <2>2, <3>1, PlaceIs
  <2>4. Measured(o) < Runs /\ ~failing[o]
    BY <1>1, <2>1 DEF ProgressSound
  <2> QED BY <1>1, <2>1, <2>3, <2>4 DEF ProgressSound
<1>5. CASE WriteRows(o)
  <2>1. /\ pc[o] = "opening" /\ UNCHANGED <<position, results, failing>>
        /\ \/ RunOf(o) > Runs /\ pc'[o] = "stopping"
           \/ ~(RunOf(o) > Runs) /\ pc'[o] = "running"
    BY <1>1, <1>5, RowsWritten
  <2>2. Measured(o)' = Measured(o)
    BY <2>1, MeasuredKept
  <2>3. RunOf(o) = 1 + Measured(o)
    BY <1>1, RunOfIs
  <2>4. ~failing[o]
    BY <1>1, <2>1 DEF ProgressSound
  <2> QED BY <1>1, <2>1, <2>2, <2>3, <2>4 DEF ProgressSound
<1>6. CASE Fail(o)
  <2>1. UNCHANGED <<position, results>> /\ pc'[o] = "stopping" /\ failing'[o] = TRUE
    BY <1>1, <1>6 DEF Fail, Raise
  <2>2. Measured(o)' = Measured(o)
    BY <2>1, MeasuredKept
  <2> QED BY <1>1, <2>1, <2>2 DEF ProgressSound
<1>7. CASE StopServer(o)
  <2>1. /\ pc[o] = "stopping" /\ UNCHANGED <<results, failing>>
        /\ \/ failing[o] /\ pc'[o] = "failed" /\ position'[o] = position[o]
           \/ ~failing[o] /\ pc'[o] = "spawning" /\ position'[o] = position[o] + 1
           \/ /\ ~failing[o] /\ ~(position[o] < Len(Policies)) /\ pc'[o] = "concluding"
              /\ position'[o] = position[o]
    <3>1. position \in [Attempts -> DOMAIN Policies]
      BY DEF AttemptInv, TypeOK
    <3> QED BY <1>1, <1>7, <3>1, StoppedIs
  <2>2. CASE failing[o]
    <3>1. Measured(o)' = Measured(o)
      BY <2>1, <2>2, MeasuredKept
    <3> QED BY <1>1, <2>1, <2>2, <3>1 DEF ProgressSound
  <2>3. CASE ~failing[o] /\ pc'[o] = "spawning" /\ position'[o] = position[o] + 1
    <3>1. Measured(o) = Runs
      BY <1>1, <2>1, <2>3 DEF ProgressSound
    <3>2. Measured(o)' = Len(results[o]) - Before(position[o] + 1)
      BY <2>1, <2>3 DEF Measured, Before
    <3>3. Before(position[o] + 1) = Before(position[o]) + Runs
      BY PlaceIs, BeforeNext
    <3>4. Measured(o)' = 0
      BY <1>1, <3>1, <3>2, <3>3, PlaceIs
    <3> QED BY <1>1, <2>1, <2>3, <3>4 DEF ProgressSound
  <2>4. CASE ~failing[o] /\ ~(position[o] < Len(Policies)) /\ pc'[o] = "concluding"
             /\ position'[o] = position[o]
    <3>1. Measured(o)' = Measured(o) /\ Measured(o) = Runs
      BY <1>1, <2>1, <2>4, MeasuredKept DEF ProgressSound
    <3>2. position[o] = Len(Policies)
      BY <2>4, PlaceIs
    <3> QED BY <1>1, <2>1, <2>4, <3>1, <3>2 DEF ProgressSound
  <2> QED BY <2>1, <2>2, <2>3, <2>4
<1>8. CASE Conclude(o)
  <2>1. pc[o] = "concluding" /\ pc'[o] = "done" /\ UNCHANGED <<position, results, failing>>
    BY <1>1, <1>8 DEF Conclude
  <2>2. Measured(o)' = Measured(o)
    BY <2>1, MeasuredKept
  <2> QED BY <1>1, <2>1, <2>2 DEF ProgressSound
<1> QED BY <1>2, <1>3, <1>4, <1>5, <1>6, <1>7, <1>8 DEF Step

\* The writer's rows stay those of its own runs, in order.
LEMMA RowsStep ==
  ASSUME AttemptInv, NEW o \in Attempts, WriterIs(o),
         Step(o) \/ KillAttempt(o) \/ Bind(o) \/ ServerDies(o)
  PROVE  RowsSound(o)'
<1>1. CASE RunLoad(o)
  BY <1>1, RowAdded
<1>2. CASE StopServer(o)
  <2>1. results' = results /\ raw' = raw
    BY <1>2, StoppedIs
  <2>2. position[o] \in Nat /\ (position'[o] = position[o] \/ position'[o] = position[o] + 1)
    <3>1. position \in [Attempts -> DOMAIN Policies]
      BY DEF AttemptInv, TypeOK
    <3> QED BY <1>2, <3>1, StoppedIs, PlaceIs
  <2> QED BY <2>1, <2>2, RowsKept DEF WriterIs
<1>3. CASE ~RunLoad(o) /\ ~StopServer(o)
  <2>1. UNCHANGED <<results, position, raw>>
    BY <1>3 DEF Step, CheckOutput, MakeDirectory, Spawn, PollReady, Warm, Open, WriteRows, Fail,
                Conclude, KillAttempt, Bind, ServerDies, attempt, servers, files
  <2> QED BY <2>1, RowsKept, PlaceIs DEF WriterIs
<1> QED BY <1>1, <1>2, <1>3

\* The report of the writer is accepted only with all its rows.
LEMMA ReportStep ==
  ASSUME AttemptInv, NEW o \in Attempts, WriterIs(o),
         Step(o) \/ KillAttempt(o) \/ Bind(o) \/ ServerDies(o)
  PROVE  ReportSound(o)'
<1>1. /\ output \in [Paths -> Reports] /\ Path[o] \in Paths /\ pc \in [Attempts -> Labels]
      /\ ReportSound(o)
  BY PolicyIs DEF AttemptInv, Types, WriterIs
<1>2. CASE Open(o)
  <2>1. output'[Path[o]].provenance = output[Path[o]].provenance
    <3>1. output'[Path[o]] = [status |-> "partial", rows |-> output[Path[o]].rows,
                              provenance |-> output[Path[o]].provenance]
      BY <1>1, <1>2, OpenIs
    <3> QED BY <3>1
  <2>2. pc[o] # "done" /\ pc' = pc /\ results' = results
    BY <1>2 DEF Open, attempt
  <2> QED BY <1>1, <2>1, <2>2 DEF ReportSound
<1>3. CASE WriteRows(o)
  <2>1. output'[Path[o]] = [status |-> "whole", rows |-> results[o], provenance |-> FALSE]
    BY <1>1, <1>3, RowsWritten
  <2> QED BY <2>1 DEF ReportSound
<1>4. CASE Conclude(o)
  <2>1. /\ output'[Path[o]] = [status |-> "whole", rows |-> results[o], provenance |-> TRUE]
        /\ pc'[o] = "done" /\ results' = results
    BY <1>1, <1>4 DEF Conclude, Report, Goto
  <2> QED BY <2>1 DEF ReportSound
<1>5. CASE Bind(o) \/ ServerDies(o)
  BY <1>1, <1>5 DEF Bind, ServerDies, attempt, files, ReportSound
<1>6. CASE /\ ~Open(o) /\ ~WriteRows(o) /\ ~Conclude(o) /\ ~Bind(o) /\ ~ServerDies(o)
  <2>1. output' = output /\ pc[o] # "done"
    BY <1>6 DEF Step, CheckOutput, MakeDirectory, Spawn, PollReady, Warm, RunLoad, Fail,
                StopServer, KillAttempt, Ended, files
  <2> QED BY <1>1, <2>1 DEF ReportSound
<1> QED BY <1>2, <1>3, <1>4, <1>5, <1>6

\* The attempt that made the directory goes on undisturbed.
LEMMA WriterStep ==
  ASSUME AttemptInv, NEW o \in Attempts, WriterIs(o),
         Step(o) \/ KillAttempt(o) \/ Bind(o) \/ ServerDies(o)
  PROVE  WriterIs(o)'
<1>1. \A a \in Attempts \ {o} : Path[a] = Path[o] => Bystander(a)'
  BY OthersKept DEF WriterIs, Bystander
<1> QED BY <1>1, ProgressStep, RowsStep, ReportStep DEF WriterIs

\* A bystander is stopped by the directory or goes away, and moves nothing else.
LEMMA BystanderStep ==
  ASSUME AttemptInv, NEW a \in Attempts, Bystander(a),
         Step(a) \/ KillAttempt(a) \/ Bind(a) \/ ServerDies(a),
         Path[a] \in made \/ ~MakeDirectory(a)
  PROVE  /\ Bystander(a)'
         /\ UNCHANGED <<position, results, failing, server, port, output, made, raw>>
         /\ \A b \in Attempts \ {a} : pc'[b] = pc[b]
<1>1. pc \in [Attempts -> Labels]
  BY DEF AttemptInv, Types
<1>2. CheckOutput(a) \/ KillAttempt(a) \/ (MakeDirectory(a) /\ Path[a] \in made)
  BY DEF Bystander, Step, Spawn, PollReady, Warm, RunLoad, Open, WriteRows, Fail, StopServer,
         Conclude, Bind, ServerDies
<1>3. /\ UNCHANGED <<position, results, failing, server, port, output, made, raw>>
      /\ \E label \in {"checked", "failed", "killed"} : Goto(a, label)
  BY <1>2 DEF CheckOutput, KillAttempt, MakeDirectory, Fresh, servers, files
<1> QED BY <1>1, <1>3 DEF Bystander, Goto

\* What an attempt does at one output leaves the files of the others alone.
LEMMA OtherOutputs ==
  ASSUME AttemptInv, NEW a \in Attempts, NEW p \in Paths, p # Path[a],
         Step(a) \/ KillAttempt(a) \/ Bind(a) \/ ServerDies(a)
  PROVE  output'[p] = output[p] /\ raw'[p] = raw[p] /\ (p \in made' <=> p \in made)
<1>1. /\ output \in [Paths -> Reports] /\ Path[a] \in Paths
      /\ raw \in [Paths -> SUBSET (Range(Policies) \X Nat \X Attempts)]
  BY PolicyIs DEF AttemptInv, Types
<1>2. CASE RunLoad(a)
  BY <1>1, <1>2 DEF RunLoad
<1>3. CASE Open(a) \/ WriteRows(a) \/ Conclude(a)
  BY <1>1, <1>3 DEF Open, WriteRows, Conclude, Report
<1>4. CASE MakeDirectory(a)
  BY <1>4 DEF MakeDirectory
<1>5. CASE ~RunLoad(a) /\ ~Open(a) /\ ~WriteRows(a) /\ ~Conclude(a) /\ ~MakeDirectory(a)
  BY <1>5 DEF Step, CheckOutput, Spawn, PollReady, Warm, Fail, StopServer, KillAttempt, Bind,
              ServerDies, files
<1> QED BY <1>2, <1>3, <1>4, <1>5

\* What other attempts do leaves the writer's part sound.
LEMMA WriterUndisturbed ==
  ASSUME AttemptInv, NEW o \in Attempts, NEW a \in Attempts, a # o, WriterIs(o),
         Step(a) \/ KillAttempt(a) \/ Bind(a) \/ ServerDies(a),
         Path[a] = Path[o] => Path[a] \in made \/ ~MakeDirectory(a)
  PROVE  WriterIs(o)'
<1>1. /\ pc'[o] = pc[o] /\ position'[o] = position[o] /\ results'[o] = results[o]
      /\ failing'[o] = failing[o]
  BY OthersKept
<1>2. /\ output'[Path[o]] = output[Path[o]] /\ raw'[Path[o]] = raw[Path[o]]
      /\ \A b \in Attempts \ {o} : Path[b] = Path[o] => Bystander(b)'
  <2>1. CASE Path[a] = Path[o]
    <3>1. Bystander(a)
      BY <2>1 DEF WriterIs
    <3>2. /\ Bystander(a)'
          /\ UNCHANGED <<position, results, failing, server, port, output, made, raw>>
          /\ \A b \in Attempts \ {a} : pc'[b] = pc[b]
      BY <2>1, <3>1, BystanderStep
    <3> QED BY <3>2 DEF WriterIs, Bystander
  <2>2. CASE Path[a] # Path[o]
    <3>1. output'[Path[o]] = output[Path[o]] /\ raw'[Path[o]] = raw[Path[o]]
      BY <2>2, PolicyIs, OtherOutputs
    <3>2. \A b \in Attempts \ {o} : Path[b] = Path[o] => Bystander(b)'
      BY <2>2, OthersKept DEF WriterIs, Bystander
    <3> QED BY <3>1, <3>2
  <2> QED BY <2>1, <2>2
<1>3. Measured(o)' = Measured(o)
  BY <1>1, MeasuredKept
<1>4. ProgressSound(o)' /\ ReportSound(o)'
  BY <1>1, <1>2, <1>3 DEF WriterIs, ProgressSound, ReportSound
<1>5. RowsSound(o)'
  BY <1>1, <1>2, RowsKept, PlaceIs DEF WriterIs
<1> QED BY <1>2, <1>4, <1>5 DEF WriterIs

\* At the start nobody has made the directory.
LEMMA ReportInit == Init => ReportInv
<1> SUFFICES ASSUME Init PROVE ReportInv
  OBVIOUS
<1>1. \A a \in Attempts : Bystander(a)
  BY DEF Init, Bystander
<1>2. ASSUME NEW a \in Attempts PROVE WriterIs(a)
  <2>1. Measured(a) = 0
    <3>1. Before(1) = 0
      BY ExperimentAssumption DEF Before
    <3>2. results[a] = << >> /\ position[a] = 1
      BY DEF Init
    <3> QED BY <3>1, <3>2 DEF Measured
  <2>2. ProgressSound(a)
    BY <2>1, ExperimentAssumption DEF Init, ProgressSound
  <2>3. RowsSound(a)
    <3>1. Len(results[a]) = 0
      BY DEF Init
    <3> QED BY <3>1 DEF RowsSound
  <2>4. ReportSound(a)
    BY DEF Init, ReportSound, NoReport, Paths
  <2> QED BY <1>1, <2>2, <2>3, <2>4 DEF WriterIs
<1> QED BY <1>1, <1>2 DEF Init, ReportInv, OutputSound

\* At every output the first to make the directory is its one writer.
LEMMA OutputStep ==
  ASSUME AttemptInv, NEW p \in Paths, OutputSound(p), NEW a \in Attempts,
         Step(a) \/ KillAttempt(a) \/ Bind(a) \/ ServerDies(a)
  PROVE  OutputSound(p)'
<1>1. CASE Path[a] # p
  <2>1. p \in made' <=> p \in made
    BY <1>1, OtherOutputs
  <2>2. ASSUME NEW b \in Attempts, Path[b] = p
        PROVE  /\ Bystander(b) => Bystander(b)'
               /\ WriterIs(b) => WriterIs(b)'
    <3>1. b # a
      BY <1>1, <2>2
    <3>2. Bystander(b) => Bystander(b)'
      BY <3>1, OthersKept DEF Bystander
    <3>3. WriterIs(b) => WriterIs(b)'
      BY <1>1, <2>2, <3>1, WriterUndisturbed
    <3> QED BY <3>2, <3>3
  <2> QED BY <2>1, <2>2 DEF OutputSound
<1>2. CASE Path[a] = p /\ p \notin made
  <2>1. \A b \in Attempts : Path[b] = p => Bystander(b) /\ WriterIs(b)
    BY <1>2 DEF OutputSound
  <2>2. CASE MakeDirectory(a)
    <3>1. p \in made'
      BY <1>2, <2>2 DEF MakeDirectory, Fresh
    <3>2. WriterIs(a)'
      BY <1>2, <2>1, WriterStep
    <3> QED BY <1>2, <3>1, <3>2 DEF OutputSound
  <2>3. CASE ~MakeDirectory(a)
    <3>1. Bystander(a)' /\ made' = made /\ UNCHANGED <<server, results>>
          /\ \A b \in Attempts \ {a} : pc'[b] = pc[b]
      BY <1>2, <2>1, <2>3, BystanderStep
    <3>2. \A b \in Attempts : Path[b] = p => Bystander(b)'
      BY <2>1, <3>1 DEF Bystander
    <3>3. ASSUME NEW b \in Attempts, Path[b] = p PROVE WriterIs(b)'
      BY <2>1, <2>3, <3>3, WriterStep, WriterUndisturbed
    <3> QED BY <1>2, <3>1, <3>2, <3>3 DEF OutputSound
  <2> QED BY <2>2, <2>3
<1>3. CASE Path[a] = p /\ p \in made
  <2>1. PICK o \in Attempts : Path[o] = p /\ WriterIs(o)
    BY <1>3 DEF OutputSound
  <2>2. p \in made'
    BY <1>3 DEF Step, CheckOutput, MakeDirectory, Spawn, PollReady, Warm, RunLoad, Open,
                WriteRows, Fail, StopServer, Conclude, KillAttempt, Bind, ServerDies, files
  <2>3. WriterIs(o)'
    BY <1>3, <2>1, WriterStep, WriterUndisturbed
  <2> QED BY <2>1, <2>2, <2>3 DEF OutputSound
<1> QED BY <1>1, <1>2, <1>3

\* Every step keeps ReportInv.
LEMMA ReportInvStep ==
  ASSUME AttemptInv, ReportInv, [Next]_vars
  PROVE  ReportInv'
<1>1. ASSUME NEW a \in Attempts, Step(a) \/ KillAttempt(a) \/ Bind(a) \/ ServerDies(a)
      PROVE  ReportInv'
  BY <1>1, OutputStep DEF ReportInv, Paths
<1>2. CASE UNCHANGED vars
  <2>1. UNCHANGED <<pc, position, results, failing, server, port, output, made, raw>>
    BY <1>2 DEF vars, attempt, servers, files
  <2>2. ASSUME NEW o \in Attempts, WriterIs(o) PROVE WriterIs(o)'
    <3>1. Measured(o)' = Measured(o)
      BY <2>1, MeasuredKept
    <3>2. RowsSound(o)'
      BY <2>1, <2>2, RowsKept, PlaceIs DEF WriterIs
    <3>3. ProgressSound(o)' /\ ReportSound(o)'
      BY <2>1, <2>2, <3>1 DEF WriterIs, ProgressSound, ReportSound
    <3>4. \A a \in Attempts \ {o} : Path[a] = Path[o] => Bystander(a)'
      BY <2>1, <2>2 DEF WriterIs, Bystander
    <3> QED BY <3>2, <3>3, <3>4 DEF WriterIs
  <2>3. \A a \in Attempts : Bystander(a) => Bystander(a)'
    BY <2>1 DEF Bystander
  <2> QED BY <2>1, <2>2, <2>3 DEF ReportInv, OutputSound, Paths
<1> QED BY <1>1, <1>2 DEF Next

\* A number of whole policies and a rest below Runs gives both back.
LEMMA QuotientAndRest ==
  ASSUME NEW d \in Nat \ {0}, NEW q \in Nat, NEW r \in 0..(d - 1)
  PROVE  (q * d + r) \div d = q /\ (q * d + r) % d = r
<1> DEFINE x == q * d + r
<1>1. x \in Nat /\ q * d \in Nat
  OBVIOUS
<1>2. /\ x \div d \in Int /\ x % d \in 0..(d - 1)
      /\ x = d * (x \div d) + (x % d)
  BY <1>1
<1> QED BY <1>1, <1>2

\* The rows of the attempt that is done are those that audit() and summarize() expect.
LEMMA RowsAreExpected ==
  ASSUME AttemptInv, NEW o \in Attempts, RowsSound(o), ProgressSound(o), pc[o] = "done"
  PROVE  [k \in DOMAIN results[o] |-> <<results[o][k].policy, results[o][k].run>>] = Expected
<1>1. /\ position[o] = Len(Policies) /\ Measured(o) = Runs /\ Runs \in Nat \ {0}
      /\ Len(Policies) \in Nat \ {0} /\ DOMAIN results[o] = 1..Len(results[o])
      /\ Len(results[o]) = Before(Len(Policies)) + Runs
  BY PlaceIs, ExperimentAssumption DEF ProgressSound
<1>2. Before(Len(Policies)) + Runs = Len(Policies) * Runs
  <2>1. PICK c \in Nat : Len(Policies) = c + 1
    <3>1. Len(Policies) - 1 \in Nat /\ Len(Policies) = (Len(Policies) - 1) + 1
      BY <1>1
    <3> QED BY <3>1
  <2>2. (c + 1) * Runs = c * Runs + Runs /\ (c + 1) - 1 = c
    BY <1>1
  <2> QED BY <2>1, <2>2 DEF Before
<1>3. DOMAIN results[o] = 1..(Len(Policies) * Runs)
  BY <1>1, <1>2
<1>4. ASSUME NEW k \in DOMAIN results[o]
      PROVE  /\ results[o][k].policy = Policies[1 + (k - 1) \div Runs]
             /\ results[o][k].run = 1 + ((k - 1) % Runs)
  <2>1. PICK q \in 1..position[o] : \E r \in 1..Runs : RowIs(o, k, q, r)
    BY <1>1 DEF RowsSound
  <2>2. PICK r \in 1..Runs : RowIs(o, k, q, r)
    BY <2>1
  <2>3. k = Before(q) + r /\ results[o][k].policy = Policies[q] /\ results[o][k].run = r
    BY <2>2 DEF RowIs
  <2>4. PICK p \in Nat : q = p + 1
    <3>1. q - 1 \in Nat /\ q = (q - 1) + 1
      BY PlaceIs
    <3> QED BY <3>1
  <2>5. PICK s \in 0..(Runs - 1) : r = s + 1
    <3>1. r - 1 \in 0..(Runs - 1) /\ r = (r - 1) + 1
      BY <1>1
    <3> QED BY <3>1
  <2>6. k - 1 = p * Runs + s
    <3>1. (p + 1) - 1 = p /\ p * Runs \in Nat
      BY <1>1
    <3>2. k = p * Runs + (s + 1)
      BY <2>3, <2>4, <2>5, <3>1 DEF Before
    <3> QED BY <3>1, <3>2
  <2>7. (k - 1) \div Runs = p /\ (k - 1) % Runs = s
    <3>1. (p * Runs + s) \div Runs = p /\ (p * Runs + s) % Runs = s
      BY <1>1, QuotientAndRest
    <3> QED BY <2>6, <3>1
  <2>8. 1 + (k - 1) \div Runs = q /\ 1 + ((k - 1) % Runs) = r
    BY <2>4, <2>5, <2>7
  <2> QED BY <2>3, <2>8
<1>5. \A k \in DOMAIN results[o] :
        <<results[o][k].policy, results[o][k].run>>
          = <<Policies[1 + (k - 1) \div Runs], 1 + ((k - 1) % Runs)>>
  BY <1>4
<1> QED BY <1>3, <1>5 DEF Expected

\* What the attempt that made the directory has reported with its provenance is whole.
LEMMA ReportIsComplete ==
  ASSUME AttemptInv, ReportInv
  PROVE  AcceptedReportsAreComplete
<1> SUFFICES ASSUME NEW p \in Accepted
             PROVE
      /\ [k \in DOMAIN output[p].rows |-> <<output[p].rows[k].policy, output[p].rows[k].run>>]
           = Expected
      /\ \A k \in DOMAIN output[p].rows :
           /\ output[p].rows[k].by = output[p].rows[1].by
           /\ <<output[p].rows[k].policy, output[p].rows[k].run, output[p].rows[k].by>> \in raw[p]
           /\ IsOwn(output[p].rows[k]) \/ Path[output[p].rows[k].server[1]] # p
  BY DEF AcceptedReportsAreComplete, AttemptInv
<1>0. p \in Paths /\ output[p].provenance
  BY DEF Accepted
<1>1. PICK o \in Attempts : Path[o] = p /\ WriterIs(o)
  BY <1>0 DEF ReportInv, OutputSound, Paths
<1>2. pc[o] = "done" /\ output[p].rows = results[o]
  BY <1>0, <1>1 DEF WriterIs, ReportSound
<1>3. DOMAIN results[o] = 1..Len(results[o]) /\ Len(results[o]) \in Nat
  BY PlaceIs
<1>4. ASSUME NEW k \in DOMAIN results[o]
      PROVE  /\ results[o][k].by = o
             /\ <<results[o][k].policy, results[o][k].run, o>> \in raw[p]
             /\ IsOwn(results[o][k]) \/ Path[results[o][k].server[1]] # p
  <2>1. PICK q \in 1..position[o] : \E r \in 1..Runs : RowIs(o, k, q, r)
    BY <1>1, <1>3 DEF WriterIs, RowsSound
  <2>2. PICK r \in 1..Runs : RowIs(o, k, q, r)
    BY <2>1
  <2> QED BY <1>1, <2>2 DEF RowIs
<1>5. ASSUME NEW k \in DOMAIN results[o] PROVE results[o][1].by = o
  <2>1. 1 \in DOMAIN results[o]
    BY <1>3
  <2> QED BY <1>4, <2>1
<1>6. [k \in DOMAIN results[o] |-> <<results[o][k].policy, results[o][k].run>>] = Expected
  BY <1>1, <1>2, RowsAreExpected DEF WriterIs
<1> QED BY <1>2, <1>4, <1>5, <1>6

\* What audit() and summarize() accept of attempts at any outputs, however they overlap, are
\* killed and leave servers behind: a report of a whole experiment, of every run in order, by
\* one attempt and with its raw records. No attempt at the same output has a hand in it: a
\* server that is not the attempt's own is of one at another output. There may be such a
\* server: a killed attempt leaves one on the port.
THEOREM AcceptedReportIsWhole == Spec => []AcceptedReportsAreComplete
<1>1. Init => AttemptInv /\ ReportInv
  BY AttemptInit, ReportInit
<1>2. AttemptInv /\ ReportInv /\ [Next]_vars => (AttemptInv /\ ReportInv)'
  BY AttemptStep, ReportInvStep
<1>3. AttemptInv /\ ReportInv => AcceptedReportsAreComplete
  BY ReportIsComplete
<1> QED BY <1>1, <1>2, <1>3, PTL DEF Spec
=============================================================================
