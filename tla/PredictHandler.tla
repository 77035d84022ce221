---------------------------- MODULE PredictHandler ----------------------------
(***************************************************************************)
(* One POST /v1/predict per connection: the boundary middleware that reads *)
(* the body (api/middleware.py), the route with its two tasks, prediction  *)
(* and disconnect poller (api/app.py), and the client. The scheduler is    *)
(* its contract, SubmitContract.                                           *)
(***************************************************************************)
EXTENDS Integers

CONSTANTS Requests,    \* the connections
          MaxBody,     \* max_body_bytes
          ChunkSizes   \* sizes of the pieces a body arrives in

ASSUME BodyAssumption == MaxBody \in Nat \ {0} /\ ChunkSizes \subseteq Nat

VARIABLES
  client,      \* the connection as the server sees it: connected or gone
  content,     \* what the body turns out to hold
  held,        \* bytes in the middleware's buffer
  consumed,    \* the body was handed to the application
  handler,     \* receiving, routing, waiting in asyncio.wait, cleaning up, ended
  verdict,     \* what ended asyncio.wait: an answer, an absent client, or its own cancellation
  prediction,  \* the task of submit()
  poller,      \* the task of disconnected()
  call, live,  \* SubmitContract
  admitted,    \* history: the scheduler ever held an envelope
  sent         \* status of the response, 0 if there is none

contract == <<call, live>>
boundary == <<content, held, consumed>>
tasks    == <<prediction, poller>>
vars     == <<client, boundary, handler, verdict, tasks, contract, admitted, sent>>

Contract == INSTANCE SubmitContract

Contents == {"valid", "malformed", "unknown_model", "too_long"}

Init ==
  /\ client = [r \in Requests |-> "connected"]
  /\ content \in [Requests -> Contents]
  /\ held = [r \in Requests |-> 0]
  /\ consumed = [r \in Requests |-> FALSE]
  /\ handler = [r \in Requests |-> "receiving"]
  /\ verdict = [r \in Requests |-> "none"]
  /\ prediction = [r \in Requests |-> "none"]
  /\ poller = [r \in Requests |-> "none"]
  /\ admitted = [r \in Requests |-> FALSE]
  /\ sent = [r \in Requests |-> 0]
  /\ Contract!Init

\* The connection is lost. The HTTP server tells nobody; receive() does.
ClientLeaves(r) ==
  /\ client[r] = "connected"
  /\ client' = [client EXCEPT ![r] = "gone"]
  /\ UNCHANGED <<boundary, handler, verdict, tasks, contract, admitted, sent>>

-----------------------------------------------------------------------------
(* RequestBoundaryMiddleware.__call__()                                    *)

\* Fault: the size is compared before the piece is counted.
ExceedsLate(r, n) == held[r] > MaxBody

Exceeds(r, n) == held[r] + n > MaxBody

Respond(r, status) ==
  /\ sent' = [sent EXCEPT ![r] = status]
  /\ handler' = [handler EXCEPT ![r] = "ended"]

ReceiveBody(r, n, more) ==
  /\ handler[r] = "receiving" /\ client[r] = "connected"
  /\ IF Exceeds(r, n)
     THEN Respond(r, 413) /\ UNCHANGED held
     ELSE /\ held' = [held EXCEPT ![r] = @ + n]
          /\ handler' = IF more THEN handler ELSE [handler EXCEPT ![r] = "routing"]
          /\ UNCHANGED sent
  /\ UNCHANGED <<client, content, consumed, verdict, tasks, contract, admitted>>

ReceiveDisconnect(r) ==
  /\ handler[r] = "receiving" /\ client[r] = "gone"
  /\ handler' = [handler EXCEPT ![r] = "ended"]
  /\ UNCHANGED <<client, boundary, verdict, tasks, contract, admitted, sent>>

\* Fault: bounded_receive() gives the body again and again.
GiveAgain(r) == UNCHANGED consumed

GiveOnce(r) == consumed' = [consumed EXCEPT ![r] = TRUE]

-----------------------------------------------------------------------------
(* predict() and _await_prediction()                                       *)

Rejection == [malformed |-> 422, unknown_model |-> 404, too_long |-> 422]

\* The body is parsed, the model looked up, the text validated; then two tasks.
Route(r) ==
  /\ handler[r] = "routing"
  /\ GiveOnce(r)
  /\ IF content[r] # "valid"
     THEN Respond(r, Rejection[content[r]]) /\ UNCHANGED tasks
     ELSE /\ handler' = [handler EXCEPT ![r] = "waiting"]
          /\ prediction' = [prediction EXCEPT ![r] = "created"]
          /\ poller' = [poller EXCEPT ![r] = "polling"]
          /\ UNCHANGED sent
  /\ UNCHANGED <<client, content, held, verdict, contract, admitted>>

\* The scheduler's side of submit() takes a step of request r alone.
SubmitBecomes(r, c, l) ==
  /\ call' = [call EXCEPT ![r] = c] /\ live' = [live EXCEPT ![r] = l]
  /\ admitted' = [admitted EXCEPT ![r] = @ \/ l]

\* The first step of the prediction's task calls submit(). The loop runs it
\* before the poller and before the handler again, as it was scheduled first.
PredictionStarts(r) ==
  /\ prediction[r] = "created"
  /\ \E c \in {"waiting"} \cup Contract!Refusals, l \in BOOLEAN :
       SubmitBecomes(r, c, l) /\ (Contract!Admitted(r) \/ Contract!Refused(r))
  /\ prediction' = [prediction EXCEPT ![r] = IF call'[r] = "waiting" THEN "running" ELSE "done"]
  /\ UNCHANGED <<client, boundary, handler, verdict, poller, sent>>

\* The envelope ends. The waiter has yet to resume, or may never do so.
EnvelopeEnds(r) ==
  /\ live[r] /\ SubmitBecomes(r, "waiting", FALSE) /\ Contract!Resolved(r)
  /\ UNCHANGED <<client, boundary, handler, verdict, tasks, sent>>

PredictionEnds(r) ==
  /\ prediction[r] = "running"
  /\ \E c \in Contract!Answers : SubmitBecomes(r, c, FALSE) /\ Contract!Answered(r)
  /\ prediction' = [prediction EXCEPT ![r] = "done"]
  /\ UNCHANGED <<client, boundary, handler, verdict, poller, sent>>

\* The task resumes with CancelledError, even if its answer was on the way.
PredictionCancelled(r) ==
  /\ prediction[r] = "cancelling"
  /\ SubmitBecomes(r, "cancelled", FALSE) /\ Contract!Cancelled(r)
  /\ prediction' = [prediction EXCEPT ![r] = "done"]
  /\ UNCHANGED <<client, boundary, handler, verdict, poller, sent>>

\* What request.is_disconnected() gets from bounded_receive().
NextMessage(r) ==
  IF ~consumed[r] THEN "http.request"
  ELSE IF client[r] = "gone" THEN "http.disconnect" ELSE "nothing"

SeesDisconnect(r) == NextMessage(r) = "http.disconnect"

PollerReturns(r) ==
  /\ poller[r] = "polling" /\ prediction[r] # "created" /\ SeesDisconnect(r)
  /\ poller' = [poller EXCEPT ![r] = "done"]
  /\ UNCHANGED <<client, boundary, handler, verdict, prediction, contract, admitted, sent>>

PollerCancelled(r) ==
  /\ poller[r] = "cancelling"
  /\ poller' = [poller EXCEPT ![r] = "done"]
  /\ UNCHANGED <<client, boundary, handler, verdict, prediction, contract, admitted, sent>>

\* Fault: a disconnect outranks a finished prediction.
DisconnectFirst(r) == IF poller[r] = "done" THEN "absent" ELSE "answer"

\* Both may be done when the handler resumes: the prediction counts.
Decide(r) == IF prediction[r] = "done" THEN "answer" ELSE "absent"

\* task.cancel() for each task that is not done.
CancelTasks(r) ==
  /\ prediction' = [prediction EXCEPT ![r] = IF @ = "running" THEN "cancelling" ELSE @]
  /\ poller' = [poller EXCEPT ![r] = IF @ = "polling" THEN "cancelling" ELSE @]

\* asyncio.wait() returns, and the finally clause runs up to gather().
Resume(r, v) ==
  /\ handler[r] = "waiting" /\ prediction[r] # "created"
  /\ handler' = [handler EXCEPT ![r] = "cleaning"]
  /\ verdict' = [verdict EXCEPT ![r] = v]
  /\ CancelTasks(r)
  /\ UNCHANGED <<client, boundary, contract, admitted, sent>>

FirstCompleted(r) ==
  /\ prediction[r] = "done" \/ poller[r] = "done"
  /\ Resume(r, Decide(r))

\* The server gives the handler up, when its own shutdown takes too long.
HandlerCancelled(r) == Resume(r, "cancelled")

\* Fault: two except clauses with each other's status.
SwappedStatus(c) ==
  CASE c = "prediction" -> 200 [] c = "queue_full" -> 503 [] c = "deadline" -> 504
    [] c = "unavailable" -> 429 [] OTHER -> 500

StatusOf(c) ==
  CASE c = "prediction" -> 200 [] c = "queue_full" -> 429 [] c = "deadline" -> 504
    [] c = "unavailable" -> 503 [] OTHER -> 500

\* Fault: the handler does not wait for the tasks it cancelled.
GatherNothing(r) == TRUE

Gathered(r) == prediction[r] = "done" /\ poller[r] = "done"

HandlerEnds(r) ==
  /\ handler[r] = "cleaning" /\ Gathered(r)
  /\ IF verdict[r] = "answer"
     THEN Respond(r, StatusOf(call[r]))
     ELSE handler' = [handler EXCEPT ![r] = "ended"] /\ UNCHANGED sent
  /\ UNCHANGED <<client, boundary, verdict, tasks, contract, admitted>>

-----------------------------------------------------------------------------
Served == (\A r \in Requests : handler[r] = "ended" /\ client[r] = "gone") /\ UNCHANGED vars

ServerStep(r) ==
  \/ ReceiveDisconnect(r) \/ Route(r) \/ PredictionStarts(r) \/ PredictionCancelled(r)
  \/ PollerReturns(r) \/ PollerCancelled(r) \/ FirstCompleted(r) \/ HandlerEnds(r)

Next ==
  \/ \E r \in Requests : ClientLeaves(r) \/ HandlerCancelled(r)
  \/ \E r \in Requests, n \in ChunkSizes, more \in BOOLEAN : ReceiveBody(r, n, more)
  \/ \E r \in Requests : ServerStep(r) \/ EnvelopeEnds(r) \/ PredictionEnds(r)
  \/ Served

Spec == Init /\ [][Next]_vars

\* The event loop runs what is ready. Neither the client nor the scheduler
\* has to move, so no answer of the scheduler is assumed.
LoopSpec == Spec /\ \A r \in Requests : WF_vars(ServerStep(r))

-----------------------------------------------------------------------------
(* Properties                                                              *)

\* Type correctness: every response has a status the route declares, and however
\* a body is cut into pieces the middleware never holds more of it than the limit.
TypeOK ==
  /\ client \in [Requests -> {"connected", "gone"}] /\ content \in [Requests -> Contents]
  /\ held \in [Requests -> 0..MaxBody] /\ consumed \in [Requests -> BOOLEAN]
  /\ handler \in [Requests -> {"receiving", "routing", "waiting", "cleaning", "ended"}]
  /\ verdict \in [Requests -> {"none", "answer", "absent", "cancelled"}]
  /\ prediction \in [Requests -> {"none", "created", "running", "cancelling", "done"}]
  /\ poller \in [Requests -> {"none", "polling", "cancelling", "done"}]
  /\ call \in [Requests -> {"idle", "waiting", "cancelled"}
                             \cup Contract!Refusals \cup Contract!Answers]
  /\ live \in [Requests -> BOOLEAN] /\ admitted \in [Requests -> BOOLEAN]
  /\ sent \in [Requests -> {0, 200, 404, 413, 422, 429, 500, 503, 504}]

\* _await_prediction() never returns before both of its tasks have: once the
\* handler has ended, the scheduler holds no envelope and no task of it runs.
NothingOutlivesTheHandler ==
  \A r \in Requests : handler[r] = "ended" =>
    /\ ~live[r] /\ call[r] # "waiting"
    /\ prediction[r] \in {"none", "done"} /\ poller[r] \in {"none", "done"}

\* An answer that was there when the handler looked is not thrown away for a
\* disconnect noticed in the same turn: an absent client's prediction was
\* cancelled while it waited.
FinishedPredictionIsAnswered ==
  \A r \in Requests :
    verdict[r] = "absent" => client[r] = "gone" /\ call[r] \in {"waiting", "cancelled"}

\* The status tells what became of the request: a prediction was made for it,
\* or it failed after admission, or the scheduler never held it and the client
\* may send it again. (503 and 504 may come before or after admission.)
StatusTellsFate ==
  \A r \in Requests :
    /\ sent[r] \in {200, 500} => admitted[r]
    /\ sent[r] \in {404, 413, 422, 429} => ~admitted[r]
    /\ sent[r] = 200 <=> handler[r] = "ended" /\ call[r] = "prediction" /\ verdict[r] = "answer"

\* A client that leaves while its request waits frees the handler and the
\* scheduler, even if the scheduler never answers.
AbsenceIsNoticed ==
  \A r \in Requests : client[r] = "gone" /\ handler[r] = "waiting" ~> handler[r] = "ended" /\ ~live[r]
=============================================================================
