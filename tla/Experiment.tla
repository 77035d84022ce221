----------------------------- MODULE Experiment -----------------------------
(***************************************************************************)
(* experiment(): for each policy a server process of its own, the runs     *)
(* against it, and one report that grows with every run and is complete    *)
(* with its provenance. What audit() and summarize() accept of it.         *)
(*                                                                         *)
(* Attempts are processes that run it. Each may be killed; its server then *)
(* lives on. All servers want the same port.                               *)
(***************************************************************************)
EXTENDS Integers, Sequences, FiniteSets, SequencesExt

CONSTANTS Attempts,  \* some of 1..n; they may overlap
          Path,      \* the output of each
          Policies,  \* a sequence
          Runs       \* repetitions * rates * bursts

ASSUME ExperimentAssumption ==
  /\ Attempts \subseteq Nat \ {0} /\ Policies \in Seq(Range(Policies)) /\ Policies # << >>
  /\ Runs \in Nat \ {0}

\* A policy given twice is outside the model: its runs would share their raw files.
ASSUME PolicyAssumption ==
  \A i, j \in DOMAIN Policies : Policies[i] = Policies[j] => i = j

Paths == {Path[a] : a \in Attempts}
Nobody == 0

VARIABLES
  pc,       \* idle, checked, spawning, polling, warming, running, opening (the report),
            \* stopping, concluding, then done, failed or killed
  position, \* of the policy it is at
  results,  \* its rows: [policy, run, server], the server by attempt and policy
  failing,  \* an exception is on its way out
  server,   \* its server: none, starting, up or exited
  port,     \* the attempt whose server is bound to the port, or Nobody
  output,   \* of each path: [status, rows, provenance]
  made,     \* the paths whose directory for raw records exists
  raw       \* the records in it: a set of <<policy, run, attempt>>

attempt == <<pc, position, results, failing>>
servers == <<server, port>>
files   == <<output, made, raw>>
vars    == <<attempt, servers, files>>

NoReport == [status |-> "absent", rows |-> << >>, provenance |-> FALSE]

Init ==
  /\ pc = [a \in Attempts |-> "idle"] /\ position = [a \in Attempts |-> 1]
  /\ results = [a \in Attempts |-> << >>] /\ failing = [a \in Attempts |-> FALSE]
  /\ server = [a \in Attempts |-> "none"] /\ port = Nobody
  /\ output = [p \in Paths |-> NoReport]
  /\ made = {} /\ raw = [p \in Paths |-> {}]

Policy(a) == Policies[position[a]]
Ended == {"done", "failed", "killed"}
Goto(a, label) == pc' = [pc EXCEPT ![a] = label]

-----------------------------------------------------------------------------
(* Servers                                                                 *)

\* Bound after the model is loaded; a server that finds the port taken exits.
Bind(a) ==
  /\ server[a] = "starting"
  /\ IF port = Nobody THEN port' = a /\ server' = [server EXCEPT ![a] = "up"]
                      ELSE UNCHANGED port /\ server' = [server EXCEPT ![a] = "exited"]
  /\ UNCHANGED <<attempt, files>>

Exit(a) ==
  /\ server' = [server EXCEPT ![a] = "exited"]
  /\ port' = IF port = a THEN Nobody ELSE port

\* External: a server ends by itself.
ServerDies(a) ==
  /\ server[a] \in {"starting", "up"} /\ Exit(a) /\ UNCHANGED <<attempt, files>>

-----------------------------------------------------------------------------
(* One attempt                                                             *)

CheckOutput(a) ==
  /\ pc[a] = "idle"
  /\ Goto(a, IF output[Path[a]].status = "absent" THEN "checked" ELSE "failed")
  /\ UNCHANGED <<position, results, failing, servers, files>>

Fresh(p) == p \notin made

MakeDirectory(a) ==
  /\ pc[a] = "checked"
  /\ IF Fresh(Path[a])
     THEN Goto(a, "spawning") /\ made' = made \cup {Path[a]}
     ELSE Goto(a, "failed") /\ UNCHANGED made
  /\ UNCHANGED <<position, results, failing, servers, output, raw>>

Spawn(a) ==
  /\ pc[a] = "spawning"
  /\ server' = [server EXCEPT ![a] = "starting"]
  /\ Goto(a, "polling")
  /\ UNCHANGED <<position, results, failing, port, files>>

\* Whoever is bound to the port answers.
PollReady(a) ==
  /\ pc[a] = "polling" /\ server[a] # "exited" /\ port # Nobody
  /\ Goto(a, "warming")
  /\ UNCHANGED <<position, results, failing, servers, files>>

Warm(a) ==
  /\ pc[a] = "warming" /\ port # Nobody
  /\ Goto(a, "running")
  /\ UNCHANGED <<position, results, failing, servers, files>>

RunOf(a) == 1 + Cardinality({i \in DOMAIN results[a] : results[a][i].policy = Policy(a)})

\* run_load() against the port, its raw file, and the end of a monitor that needs
\* the attempt's own server to exist.
RunLoad(a) ==
  /\ pc[a] = "running" /\ port # Nobody /\ server[a] # "exited"
  /\ raw' = [raw EXCEPT ![Path[a]] =
               {f \in @ : <<f[1], f[2]>> # <<Policy(a), RunOf(a)>>}
                 \cup {<<Policy(a), RunOf(a), a>>}]
  /\ results' = [results EXCEPT ![a] =
       Append(@, [policy |-> Policy(a), run |-> RunOf(a),
                  server |-> <<port, Policy(port)>>, by |-> a])]
  /\ Goto(a, "opening")
  /\ UNCHANGED <<position, failing, servers, output, made>>

\* write_json() truncates the report and then writes it.
Open(a) ==
  /\ pc[a] \in {"opening", "concluding"} /\ output[Path[a]].status # "partial"
  /\ output' = [output EXCEPT ![Path[a]].status = "partial"]
  /\ UNCHANGED <<attempt, servers, made, raw>>

Report(a, provenance) ==
  output' = [output EXCEPT ![Path[a]] =
               [status |-> "whole", rows |-> results[a], provenance |-> provenance]]

\* Fault: provenance is written with the first run.
EarlyProvenance == TRUE

Unfinished == FALSE

WriteRows(a) ==
  /\ pc[a] = "opening" /\ output[Path[a]].status = "partial"
  /\ Report(a, Unfinished)
  /\ Goto(a, IF RunOf(a) > Runs THEN "stopping" ELSE "running")
  /\ UNCHANGED <<position, results, failing, servers, made, raw>>

Raise(a) == failing' = [failing EXCEPT ![a] = TRUE]

\* The server exited or is not ready in time, an HTTP error, a server that does
\* not drain, a monitor without its process.
Fail(a) ==
  /\ pc[a] \in {"polling", "warming", "running"}
  /\ Raise(a) /\ Goto(a, "stopping")
  /\ UNCHANGED <<position, results, servers, files>>

\* Fault: a server that ignores SIGTERM is left after the 15 s.
LeaveIt(a) == UNCHANGED servers

Kill(a) == Exit(a)

MorePolicies(a) == position[a] < Len(Policies)

\* The finally clause: the server ends on SIGTERM, or it is killed.
StopServer(a) ==
  /\ pc[a] = "stopping"
  /\ Exit(a) \/ Kill(a)
  /\ IF failing[a] THEN Goto(a, "failed") /\ UNCHANGED position
     ELSE IF MorePolicies(a)
     THEN Goto(a, "spawning") /\ position' = [position EXCEPT ![a] = @ + 1]
     ELSE Goto(a, "concluding") /\ UNCHANGED position
  /\ UNCHANGED <<results, failing, files>>

Conclude(a) ==
  /\ pc[a] = "concluding" /\ output[Path[a]].status = "partial"
  /\ Report(a, TRUE) /\ Goto(a, "done")
  /\ UNCHANGED <<position, results, failing, servers, made, raw>>

\* SIGKILL: the server is not told.
KillAttempt(a) ==
  /\ pc[a] \notin Ended \cup {"idle"} /\ Goto(a, "killed")
  /\ UNCHANGED <<position, results, failing, servers, files>>

Step(a) ==
  \/ CheckOutput(a) \/ MakeDirectory(a) \/ Spawn(a) \/ PollReady(a) \/ Warm(a)
  \/ RunLoad(a) \/ Open(a) \/ WriteRows(a) \/ Fail(a) \/ StopServer(a) \/ Conclude(a)

Next == \E a \in Attempts : Step(a) \/ KillAttempt(a) \/ Bind(a) \/ ServerDies(a)

Spec == Init /\ [][Next]_vars

-----------------------------------------------------------------------------
(* Properties                                                              *)

Alive(a) == server[a] \in {"starting", "up"}

\* Type correctness; a port belongs to a server that is up.
TypeOK ==
  /\ position \in [Attempts -> DOMAIN Policies] /\ failing \in [Attempts -> BOOLEAN]
  /\ server \in [Attempts -> {"none", "starting", "up", "exited"}]
  /\ \A a \in Attempts : port = a <=> server[a] = "up"
  /\ \A p \in Paths : /\ output[p].status \in {"absent", "partial", "whole"}
                      /\ output[p].status # "absent" => p \in made

Expected == [k \in 1..(Len(Policies) * Runs) |->
               <<Policies[1 + (k - 1) \div Runs], 1 + ((k - 1) % Runs)>>]

\* The server that an attempt starts for the policy of a row.
IsOwn(row) == row.server = <<row.by, row.policy>>

\* What audit() and summarize() accept.
Accepted == {p \in Paths : output[p].status = "whole" /\ output[p].provenance}

\* What is accepted is a report of a whole experiment, of every run in order, by one
\* attempt and with the raw records of that attempt. No attempt at the same output has
\* a hand in it: a server that is not the attempt's own is of one at another output.
\* docs/BENCHMARKS.md denies that one ("One server runs at a time"); no code excludes it.
AcceptedReportsAreComplete ==
  TypeOK /\ \A p \in Accepted :
    LET rows == output[p].rows IN
    /\ [k \in DOMAIN rows |-> <<rows[k].policy, rows[k].run>>] = Expected
    /\ \A k \in DOMAIN rows :
         LET row == rows[k] IN /\ row.by = rows[1].by
                               /\ <<row.policy, row.run, row.by>> \in raw[p]
                               /\ IsOwn(row) \/ Path[row.server[1]] # p

\* An attempt that ends, whether it failed or not, leaves no server behind.
NoServerLeftBehind == \A a \in Attempts : pc[a] \in {"done", "failed"} => ~Alive(a)
=============================================================================
