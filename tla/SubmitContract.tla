---------------------------- MODULE SubmitContract ----------------------------
(***************************************************************************)
(* What ModelScheduler.submit() promises the code that awaits it, without  *)
(* queue, batches, worker or clock. Any number of requests move in a step. *)
(***************************************************************************)
CONSTANT Requests

VARIABLES call,   \* submit(): idle, waiting, or how it ended
          live    \* the scheduler holds an envelope of it that has not ended

vars == <<call, live>>

Refusals == {"queue_full", "deadline", "unavailable"}
Answers  == {"prediction", "deadline", "unavailable", "execution", "contract"}

Init ==
  /\ call = [r \in Requests |-> "idle"]
  /\ live = [r \in Requests |-> FALSE]

Becomes(r, c, l) == call'[r] = c /\ live'[r] = l

Admitted(r)  == call[r] = "idle" /\ Becomes(r, "waiting", TRUE)
Refused(r)   == call[r] = "idle" /\ \E c \in Refusals : Becomes(r, c, FALSE)

\* The envelope ends before its waiter resumes.
Resolved(r)  == call[r] = "waiting" /\ Becomes(r, "waiting", FALSE)
Answered(r)  == call[r] = "waiting" /\ \E c \in Answers : Becomes(r, c, FALSE)

\* The task that runs submit() was cancelled.
Cancelled(r) == call[r] = "waiting" /\ Becomes(r, "cancelled", FALSE)

Unmoved(r)   == Becomes(r, call[r], live[r])

SubmitStep(r) ==
  \/ Admitted(r) \/ Refused(r) \/ Resolved(r) \/ Answered(r) \/ Cancelled(r) \/ Unmoved(r)

Next == \A r \in Requests : SubmitStep(r)

Spec == Init /\ [][Next]_vars
=============================================================================
