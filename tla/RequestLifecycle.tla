-------------------------- MODULE RequestLifecycle --------------------------
(***************************************************************************)
(* The life of an accepted request (core/lifecycle.py), without queue,     *)
(* batches, worker or clock: what everything in the scheduler that touches *)
(* a RequestEnvelope must respect. Any number of requests move in a step.  *)
(***************************************************************************)
EXTENDS Sequences

CONSTANT Requests

VARIABLES state,      \* RequestEnvelope.state, "none" before admission
          future,     \* its future: open, or how it was resolved
          outcomes    \* the outcomes recorded for the request

vars == <<state, future, outcomes>>

TerminalStates == {"succeeded", "failed", "expired", "cancelled"}

\* How the future of a request that ends in state s may be resolved. A caller
\* whose own timer or cancellation ends the request cancels the future.
Resolutions(s) ==
  CASE s = "succeeded" -> {"prediction"}
    [] s = "failed"    -> {"unavailable", "execution", "contract"}
    [] s = "expired"   -> {"deadline", "cancelled"}
    [] s = "cancelled" -> {"cancelled"}

Init ==
  /\ state = [r \in Requests |-> "none"]
  /\ future = [r \in Requests |-> "none"]
  /\ outcomes = [r \in Requests |-> << >>]

Admitted(r) ==
  /\ state[r] = "none" /\ state'[r] = "pending"
  /\ future'[r] = "open" /\ outcomes'[r] = outcomes[r]

Dispatched(r) ==
  /\ state[r] = "pending" /\ state'[r] = "running"
  /\ future'[r] = future[r] /\ outcomes'[r] = outcomes[r]

\* Only a request that ran succeeds.
Ended(r) ==
  /\ state[r] \in {"pending", "running"} /\ state'[r] \in TerminalStates
  /\ state'[r] = "succeeded" => state[r] = "running"
  /\ future'[r] \in Resolutions(state'[r])
  /\ outcomes'[r] = Append(outcomes[r], state'[r])

Unmoved(r) == state'[r] = state[r] /\ future'[r] = future[r] /\ outcomes'[r] = outcomes[r]

LifecycleStep(r) == Admitted(r) \/ Dispatched(r) \/ Ended(r) \/ Unmoved(r)

Next == \A r \in Requests : LifecycleStep(r)

Spec == Init /\ [][Next]_vars

-----------------------------------------------------------------------------
\* A request is resolved once: its future is open exactly while it is live,
\* it is resolved as its final state says, and that state is what was recorded,
\* and recorded once.
Consistent(r) ==
  /\ outcomes[r] = IF state[r] \in TerminalStates THEN <<state[r]>> ELSE << >>
  /\ future[r] = "none" <=> state[r] = "none"
  /\ future[r] = "open" <=> state[r] \in {"pending", "running"}
  /\ state[r] \in TerminalStates => future[r] \in Resolutions(state[r])

ResolvedOnce == \A r \in Requests : Consistent(r)
=============================================================================
