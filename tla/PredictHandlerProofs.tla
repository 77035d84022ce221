------------------------- MODULE PredictHandlerProofs -------------------------
(***************************************************************************)
(* Theorems of PredictHandler, for every set of connections, limit and     *)
(* sizes of pieces, and every scheduler that keeps SubmitContract.         *)
(***************************************************************************)
EXTENDS PredictHandler, TLAPS

-----------------------------------------------------------------------------
(* The inductive invariant, one request at a time.                         *)

\* Until the route creates its tasks nothing is known of the request.
Untouched(r) ==
  /\ prediction[r] = "none" /\ poller[r] = "none" /\ verdict[r] = "none"
  /\ call[r] = "idle" /\ ~live[r] /\ ~admitted[r]

\* How far the handler is determines what its tasks may be doing,
HandlerSound(r) ==
  /\ handler[r] \in {"receiving", "routing"} => Untouched(r) /\ sent[r] = 0
  /\ handler[r] = "waiting" =>
       /\ prediction[r] \in {"created", "running", "done"} /\ poller[r] \in {"polling", "done"}
       /\ verdict[r] = "none" /\ sent[r] = 0
  /\ handler[r] = "cleaning" =>
       /\ prediction[r] \in {"cancelling", "done"} /\ poller[r] \in {"cancelling", "done"}
       /\ verdict[r] # "none" /\ sent[r] = 0
  /\ handler[r] = "ended" =>
       \/ Untouched(r) /\ sent[r] \in {0, 404, 413, 422}
       \/ /\ prediction[r] = "done" /\ poller[r] = "done" /\ verdict[r] # "none"
          /\ sent[r] = IF verdict[r] = "answer" THEN StatusOf(call[r]) ELSE 0

\* the prediction's task what has become of submit(),
PredictionSound(r) ==
  /\ prediction[r] \in {"none", "created"} => call[r] = "idle" /\ ~live[r] /\ ~admitted[r]
  /\ prediction[r] \in {"running", "cancelling"} => call[r] = "waiting" /\ admitted[r]
  /\ prediction[r] = "done" =>
       /\ ~live[r]
       /\ call[r] \in {"prediction", "execution", "contract", "cancelled"} => admitted[r]
       /\ call[r] = "queue_full" => ~admitted[r]
       /\ call[r] \notin {"idle", "waiting"}

\* and what the handler saw when it looked binds its verdict.
VerdictSound(r) ==
  /\ handler[r] = "waiting" /\ poller[r] = "done" => client[r] = "gone"
  /\ verdict[r] = "answer" => prediction[r] = "done" /\ call[r] # "cancelled"
  /\ verdict[r] = "absent" => client[r] = "gone" /\ call[r] \in {"waiting", "cancelled"}
  /\ handler[r] = "waiting" => call[r] # "cancelled"
  /\ verdict[r] = "absent" => prediction[r] = "cancelling" \/ call[r] = "cancelled"

RequestSound(r) == HandlerSound(r) /\ PredictionSound(r) /\ VerdictSound(r)

\* The inductive invariant the theorems rest on.
IInv == TypeOK /\ \A r \in Requests : RequestSound(r)

-----------------------------------------------------------------------------
(* A step is a step of one request.                                        *)

RequestStep(r) ==
  \/ ClientLeaves(r) \/ HandlerCancelled(r) \/ ServerStep(r) \/ EnvelopeEnds(r) \/ PredictionEnds(r)
  \/ \E n \in ChunkSizes, more \in BOOLEAN : ReceiveBody(r, n, more)

\* What the invariant says of a request depends on nothing but these.
StandsStill(r) ==
  /\ client'[r] = client[r] /\ handler'[r] = handler[r] /\ verdict'[r] = verdict[r]
  /\ prediction'[r] = prediction[r] /\ poller'[r] = poller[r]
  /\ call'[r] = call[r] /\ live'[r] = live[r] /\ admitted'[r] = admitted[r] /\ sent'[r] = sent[r]

\* Every step is one of some request.
LEMMA StepIsOfARequest ==
  ASSUME [Next]_vars
  PROVE  (\E q \in Requests : RequestStep(q)) \/ UNCHANGED vars
BY DEF Next, Served, RequestStep

\* The other requests stand still.
LEMMA OthersStandStill ==
  ASSUME TypeOK, NEW q \in Requests, RequestStep(q), NEW r \in Requests, r # q
  PROVE  StandsStill(r)
<1> USE DEF TypeOK, StandsStill, boundary, tasks, contract
<1>1. CASE ClientLeaves(q)
  BY <1>1 DEF ClientLeaves
<1>2. ASSUME NEW n \in ChunkSizes, NEW more \in BOOLEAN, ReceiveBody(q, n, more)
      PROVE  StandsStill(r)
  BY <1>2 DEF ReceiveBody, Respond
<1>3. CASE ReceiveDisconnect(q) \/ Route(q)
  BY <1>3 DEF ReceiveDisconnect, Route, Respond, GiveOnce
<1>4. CASE PredictionStarts(q) \/ EnvelopeEnds(q)
  BY <1>4 DEF PredictionStarts, EnvelopeEnds, SubmitBecomes
<1>5. CASE PredictionEnds(q) \/ PredictionCancelled(q)
  BY <1>5 DEF PredictionEnds, PredictionCancelled, SubmitBecomes
<1>6. CASE PollerReturns(q) \/ PollerCancelled(q)
  BY <1>6 DEF PollerReturns, PollerCancelled
<1>7. CASE FirstCompleted(q) \/ HandlerCancelled(q)
  BY <1>7 DEF FirstCompleted, HandlerCancelled, Resume, CancelTasks
<1>8. CASE HandlerEnds(q)
  BY <1>8 DEF HandlerEnds, Respond
<1> QED BY <1>1, <1>2, <1>3, <1>4, <1>5, <1>6, <1>7, <1>8 DEF RequestStep, ServerStep

-----------------------------------------------------------------------------
(* Type correctness, one action at a time.                                 *)

\* Every step keeps the types.
LEMMA TypeStep ==
  ASSUME TypeOK, NEW q \in Requests, RequestStep(q)
  PROVE  TypeOK'
<1> USE DEF TypeOK, boundary, tasks, contract
<1>1. CASE ClientLeaves(q)
  BY <1>1 DEF ClientLeaves
<1>2. ASSUME NEW n \in ChunkSizes, NEW more \in BOOLEAN, ReceiveBody(q, n, more)
      PROVE  TypeOK'
  <2>1. CASE Exceeds(q, n)
    BY <1>2, <2>1 DEF ReceiveBody, Respond
  <2>2. CASE ~Exceeds(q, n)
    <3>1. held[q] + n \in 0..MaxBody
      BY <2>2, BodyAssumption DEF Exceeds
    <3>2. held' \in [Requests -> 0..MaxBody]
      BY <1>2, <2>2, <3>1 DEF ReceiveBody
    <3> QED BY <1>2, <2>2, <3>2 DEF ReceiveBody
  <2> QED BY <2>1, <2>2
<1>3. CASE ReceiveDisconnect(q)
  BY <1>3 DEF ReceiveDisconnect
<1>4. CASE Route(q)
  <2>1. CASE content[q] # "valid"
    <3>1. Rejection[content[q]] \in {404, 422}
      BY <2>1 DEF Rejection, Contents
    <3> QED BY <1>4, <2>1, <3>1 DEF Route, Respond, GiveOnce
  <2>2. CASE content[q] = "valid"
    BY <1>4, <2>2 DEF Route, GiveOnce
  <2> QED BY <2>1, <2>2
<1>5. ASSUME NEW c \in {"waiting", "cancelled"} \cup Contract!Refusals \cup Contract!Answers,
             NEW l \in BOOLEAN, SubmitBecomes(q, c, l)
      PROVE  /\ call' \in [Requests -> {"idle", "waiting", "cancelled"}
                                        \cup Contract!Refusals \cup Contract!Answers]
             /\ live' \in [Requests -> BOOLEAN] /\ admitted' \in [Requests -> BOOLEAN]
  BY <1>5 DEF SubmitBecomes
<1>6. CASE PredictionStarts(q)
  <2>1. PICK c \in {"waiting"} \cup Contract!Refusals, l \in BOOLEAN : SubmitBecomes(q, c, l)
    BY <1>6 DEF PredictionStarts
  <2> QED BY <1>5, <1>6, <2>1 DEF PredictionStarts
<1>7. CASE EnvelopeEnds(q)
  BY <1>5, <1>7 DEF EnvelopeEnds
<1>8. CASE PredictionEnds(q)
  <2>1. PICK c \in Contract!Answers : SubmitBecomes(q, c, FALSE)
    BY <1>8 DEF PredictionEnds
  <2> QED BY <1>5, <1>8, <2>1 DEF PredictionEnds
<1>9. CASE PredictionCancelled(q)
  BY <1>5, <1>9 DEF PredictionCancelled
<1>10. CASE PollerReturns(q) \/ PollerCancelled(q)
  BY <1>10 DEF PollerReturns, PollerCancelled
<1>11. ASSUME NEW v \in {"answer", "absent", "cancelled"}, Resume(q, v) PROVE TypeOK'
  BY <1>11 DEF Resume, CancelTasks
<1>12. CASE FirstCompleted(q) \/ HandlerCancelled(q)
  <2>1. Decide(q) \in {"answer", "absent", "cancelled"}
    BY DEF Decide
  <2> QED BY <1>11, <1>12, <2>1 DEF FirstCompleted, HandlerCancelled
<1>13. CASE HandlerEnds(q)
  <2>1. StatusOf(call[q]) \in {200, 429, 500, 503, 504}
    BY DEF StatusOf
  <2> QED BY <1>13, <2>1 DEF HandlerEnds, Respond
<1> QED BY <1>1, <1>2, <1>3, <1>4, <1>6, <1>7, <1>8, <1>9, <1>10, <1>12, <1>13
        DEF RequestStep, ServerStep

-----------------------------------------------------------------------------
(* A request's own steps keep it sound.                                    *)

\* A request's own steps keep what is said of it.
LEMMA OwnStep ==
  ASSUME TypeOK, NEW r \in Requests, RequestSound(r), RequestStep(r)
  PROVE  RequestSound(r)'
<1> USE DEF RequestSound, HandlerSound, PredictionSound, VerdictSound, Untouched
<1>1. CASE ClientLeaves(r)
  BY <1>1 DEF ClientLeaves, TypeOK, boundary, tasks, contract
<1>2. ASSUME NEW n \in ChunkSizes, NEW more \in BOOLEAN, ReceiveBody(r, n, more)
      PROVE  RequestSound(r)'
  BY <1>2 DEF ReceiveBody, Respond, TypeOK, boundary, tasks, contract
<1>3. CASE ReceiveDisconnect(r)
  BY <1>3 DEF ReceiveDisconnect, TypeOK, boundary, tasks, contract
<1>4. CASE Route(r)
  <2>1. UNCHANGED <<client, verdict, contract, admitted>> /\ handler[r] = "routing"
    BY <1>4 DEF Route
  <2>2. CASE content[r] # "valid"
    <3>1. Rejection[content[r]] \in {404, 422}
      BY <2>2 DEF Rejection, Contents, TypeOK
    <3>2. sent'[r] \in {404, 422} /\ handler'[r] = "ended" /\ UNCHANGED tasks
      BY <1>4, <2>2, <3>1 DEF Route, Respond, TypeOK
    <3> QED BY <2>1, <3>2 DEF contract, tasks
  <2>3. CASE content[r] = "valid"
    <3>1. /\ handler'[r] = "waiting" /\ prediction'[r] = "created" /\ poller'[r] = "polling"
          /\ UNCHANGED sent
      BY <1>4, <2>3 DEF Route, TypeOK
    <3> QED BY <2>1, <3>1 DEF contract
  <2> QED BY <2>2, <2>3
<1>5. ASSUME NEW c, NEW l \in BOOLEAN, SubmitBecomes(r, c, l)
      PROVE  call'[r] = c /\ live'[r] = l /\ admitted'[r] = (admitted[r] \/ l)
  BY <1>5 DEF SubmitBecomes, TypeOK
<1>6. CASE PredictionStarts(r)
  <2>1. PICK c \in {"waiting"} \cup Contract!Refusals, l \in BOOLEAN :
          SubmitBecomes(r, c, l) /\ (Contract!Admitted(r) \/ Contract!Refused(r))
    BY <1>6 DEF PredictionStarts
  <2>2. /\ call'[r] = c /\ live'[r] = l /\ admitted'[r] = (admitted[r] \/ l)
    BY <1>5, <2>1
  <2>3. \/ call'[r] = "waiting" /\ live'[r] = TRUE
        \/ call'[r] \in Contract!Refusals /\ live'[r] = FALSE
    BY <2>1 DEF Contract!Admitted, Contract!Refused, Contract!Becomes
  <2>4. /\ prediction[r] = "created"
        /\ prediction'[r] = IF call'[r] = "waiting" THEN "running" ELSE "done"
        /\ UNCHANGED <<client, handler, verdict, poller, sent>>
    BY <1>6 DEF PredictionStarts, TypeOK
  <2>5. handler[r] = "waiting"
    BY <2>4 DEF TypeOK
  <2> QED BY <2>2, <2>3, <2>4, <2>5 DEF Contract!Refusals
<1>7. CASE EnvelopeEnds(r)
  <2>1. /\ call'[r] = "waiting" /\ live'[r] = FALSE /\ admitted'[r] = (admitted[r] \/ FALSE)
    BY <1>5, <1>7 DEF EnvelopeEnds
  <2>2. call[r] = "waiting" /\ UNCHANGED <<client, handler, verdict, tasks, sent>>
    BY <1>7 DEF EnvelopeEnds, Contract!Resolved
  <2> QED BY <2>1, <2>2 DEF tasks, TypeOK
<1>8. CASE PredictionEnds(r)
  <2>1. PICK c \in Contract!Answers : SubmitBecomes(r, c, FALSE)
    BY <1>8 DEF PredictionEnds
  <2>2. /\ call'[r] = c /\ live'[r] = FALSE /\ admitted'[r] = (admitted[r] \/ FALSE)
    BY <1>5, <2>1
  <2>3. /\ prediction[r] = "running" /\ prediction'[r] = "done"
        /\ UNCHANGED <<client, handler, verdict, poller, sent>>
    BY <1>8 DEF PredictionEnds, TypeOK
  <2>4. handler[r] = "waiting"
    BY <2>3 DEF TypeOK
  <2> QED BY <2>2, <2>3, <2>4 DEF Contract!Answers
<1>9. CASE PredictionCancelled(r)
  <2>1. /\ call'[r] = "cancelled" /\ live'[r] = FALSE /\ admitted'[r] = (admitted[r] \/ FALSE)
    BY <1>5, <1>9 DEF PredictionCancelled
  <2>2. /\ prediction[r] = "cancelling" /\ prediction'[r] = "done"
        /\ UNCHANGED <<client, handler, verdict, poller, sent>>
    BY <1>9 DEF PredictionCancelled, TypeOK
  <2>3. handler[r] = "cleaning"
    BY <2>2 DEF TypeOK
  <2> QED BY <2>1, <2>2, <2>3
<1>10. CASE PollerReturns(r)
  <2>1. client[r] = "gone"
    BY <1>10 DEF PollerReturns, SeesDisconnect, NextMessage
  <2>2. /\ poller[r] = "polling" /\ poller'[r] = "done"
        /\ UNCHANGED <<client, handler, verdict, prediction, contract, admitted, sent>>
    BY <1>10 DEF PollerReturns, TypeOK
  <2>3. handler[r] = "waiting"
    BY <2>2 DEF TypeOK
  <2> QED BY <2>1, <2>2, <2>3 DEF contract
<1>11. CASE PollerCancelled(r)
  <2>1. /\ poller[r] = "cancelling" /\ poller'[r] = "done"
        /\ UNCHANGED <<client, handler, verdict, prediction, contract, admitted, sent>>
    BY <1>11 DEF PollerCancelled, TypeOK
  <2>2. handler[r] = "cleaning"
    BY <2>1 DEF TypeOK
  <2> QED BY <2>1, <2>2 DEF contract
<1>12. CASE FirstCompleted(r) \/ HandlerCancelled(r)
  <2>1. PICK v \in {"answer", "absent", "cancelled"} :
          /\ Resume(r, v)
          /\ v = "answer" => prediction[r] = "done"
          /\ v = "absent" => prediction[r] # "done" /\ poller[r] = "done"
    BY <1>12 DEF FirstCompleted, HandlerCancelled, Decide
  <2>2. /\ handler[r] = "waiting" /\ prediction[r] # "created"
        /\ handler'[r] = "cleaning" /\ verdict'[r] = v
        /\ prediction'[r] = IF prediction[r] = "running" THEN "cancelling" ELSE prediction[r]
        /\ poller'[r] = IF poller[r] = "polling" THEN "cancelling" ELSE poller[r]
        /\ UNCHANGED <<client, contract, admitted, sent>>
    BY <2>1 DEF Resume, CancelTasks, TypeOK
  <2> QED BY <2>1, <2>2 DEF contract
<1>13. CASE HandlerEnds(r)
  <2>1. /\ handler[r] = "cleaning" /\ prediction[r] = "done" /\ poller[r] = "done"
        /\ handler'[r] = "ended"
        /\ sent'[r] = IF verdict[r] = "answer" THEN StatusOf(call[r]) ELSE sent[r]
        /\ UNCHANGED <<client, verdict, tasks, contract, admitted>>
    BY <1>13 DEF HandlerEnds, Gathered, Respond, TypeOK
  <2> HIDE DEF StatusOf
  <2> QED BY <2>1 DEF tasks, contract
<1> QED BY <1>1, <1>2, <1>3, <1>4, <1>6, <1>7, <1>8, <1>9, <1>10, <1>11, <1>12, <1>13
        DEF RequestStep, ServerStep

-----------------------------------------------------------------------------
(* Theorems.                                                               *)

\* A connection starts with nothing read, no task and no call.
LEMMA InitIInv == Init => IInv
<1> SUFFICES ASSUME Init PROVE IInv
  OBVIOUS
<1>1. call = [r \in Requests |-> "idle"] /\ live = [r \in Requests |-> FALSE]
  BY DEF Init, Contract!Init
<1>2. TypeOK
  BY <1>1, BodyAssumption DEF Init, TypeOK
<1>3. \A r \in Requests : RequestSound(r)
  BY <1>1 DEF Init, RequestSound, HandlerSound, PredictionSound, VerdictSound, Untouched
<1> QED BY <1>2, <1>3 DEF IInv

\* A step keeps every request sound: the one that moves, and the others.
LEMMA InductiveStep == IInv /\ [Next]_vars => IInv'
<1> SUFFICES ASSUME IInv, [Next]_vars PROVE IInv'
  OBVIOUS
<1>1. ASSUME NEW r \in Requests, StandsStill(r) PROVE RequestSound(r)'
  BY <1>1 DEF IInv, StandsStill, RequestSound, HandlerSound, PredictionSound, VerdictSound,
              Untouched
<1>2. CASE UNCHANGED vars
  <2>1. \A r \in Requests : StandsStill(r)
    BY <1>2 DEF vars, boundary, tasks, contract, StandsStill
  <2>2. TypeOK'
    BY <1>2 DEF IInv, TypeOK, vars, boundary, tasks, contract
  <2> QED BY <1>1, <2>1, <2>2 DEF IInv
<1>3. ASSUME NEW q \in Requests, RequestStep(q) PROVE IInv'
  <2>1. TypeOK'
    BY <1>3, TypeStep DEF IInv
  <2>2. ASSUME NEW r \in Requests PROVE RequestSound(r)'
    BY <1>1, <1>3, OwnStep, OthersStandStill DEF IInv
  <2> QED BY <2>1, <2>2 DEF IInv
<1> QED BY <1>2, <1>3, StepIsOfARequest

\* Every reachable state satisfies the inductive invariant.
THEOREM Invariance == Spec => []IInv
BY InitIInv, InductiveStep, PTL DEF Spec

\* Every operation leaves each variable in its range: in particular the middleware never
\* holds more of a body than the limit, whatever pieces it comes in.
THEOREM TypeCorrect == Spec => []TypeOK
BY Invariance, PTL DEF IInv

\* When the handler has ended, neither of its tasks runs and the scheduler holds nothing
\* for it.
THEOREM NothingOutlives == Spec => []NothingOutlivesTheHandler
<1>1. IInv => NothingOutlivesTheHandler
  <2> SUFFICES ASSUME IInv, NEW r \in Requests, handler[r] = "ended"
               PROVE  /\ ~live[r] /\ call[r] # "waiting"
                      /\ prediction[r] \in {"none", "done"} /\ poller[r] \in {"none", "done"}
    BY DEF NothingOutlivesTheHandler
  <2>1. HandlerSound(r) /\ PredictionSound(r)
    BY DEF IInv, RequestSound
  <2> QED BY <2>1 DEF HandlerSound, PredictionSound, Untouched
<1> QED BY <1>1, Invariance, PTL

\* Only an absent client's prediction is thrown away, and only while it waits.
THEOREM FinishedPredictionsCount == Spec => []FinishedPredictionIsAnswered
<1>1. IInv => FinishedPredictionIsAnswered
  BY DEF IInv, RequestSound, VerdictSound, FinishedPredictionIsAnswered
<1> QED BY <1>1, Invariance, PTL

\* The status of a response tells what became of the request.
THEOREM StatusIsTrue == Spec => []StatusTellsFate
<1>1. IInv => StatusTellsFate
  <2> SUFFICES ASSUME IInv, NEW r \in Requests
               PROVE  /\ sent[r] \in {200, 500} => admitted[r]
                      /\ sent[r] \in {404, 413, 422, 429} => ~admitted[r]
                      /\ sent[r] = 200 <=>
                           handler[r] = "ended" /\ call[r] = "prediction" /\ verdict[r] = "answer"
    BY DEF StatusTellsFate
  <2>1. HandlerSound(r) /\ PredictionSound(r) /\ VerdictSound(r) /\ TypeOK
    BY DEF IInv, RequestSound
  <2>2. CASE handler[r] # "ended"
    BY <2>1, <2>2 DEF HandlerSound, TypeOK
  <2>3. CASE handler[r] = "ended" /\ Untouched(r) /\ sent[r] \in {0, 404, 413, 422}
    BY <2>3 DEF Untouched
  <2>4. CASE /\ handler[r] = "ended" /\ prediction[r] = "done"
             /\ sent[r] = IF verdict[r] = "answer" THEN StatusOf(call[r]) ELSE 0
    BY <2>1, <2>4 DEF PredictionSound, VerdictSound, StatusOf, TypeOK, Contract!Refusals,
                      Contract!Answers
  <2> QED BY <2>1, <2>2, <2>3, <2>4 DEF HandlerSound
<1> QED BY <1>1, Invariance, PTL
=============================================================================
