----------------------------- MODULE AgentCore -----------------------------
(***************************************************************************)
(* The request worker of claw_core.c.  Callers submit requests on a        *)
(* bounded queue; one worker task takes them in turn, runs the loop of LLM *)
(* calls and tool calls, writes the outcome to the session, and, unless    *)
(* the request says otherwise, sends the response on a second bounded      *)
(* queue, waiting for ever for a place.  Whoever holds response_lock reads *)
(* that queue and puts responses to other requests on the pending list.    *)
(* cancel_request sets the abort flag of the request in flight.            *)
(*                                                                         *)
(* Request ids are unique (the console counts from 1, the event router     *)
(* from 1000000), so a request stands for its id.                          *)
(***************************************************************************)
EXTENDS Naturals, Sequences, FiniteSets, Functions

CONSTANTS
  Request,
  Caller, CallerOf,  \* tasks that submit; each makes one call at a time
  SkipResponse,      \* requests with CLAW_CORE_REQUEST_FLAG_SKIP_RESPONSE_QUEUE
  RequestLen, ResponseLen,     \* lengths of the two queues
  MaxIterations,     \* max_tool_iterations
  NoRequest

ASSUME ConstantsAssumption ==
  /\ CallerOf \in [Request -> Caller]
  /\ SkipResponse \subseteq Request
  /\ NoRequest \notin Request
  /\ RequestLen \in Nat \ {0} /\ ResponseLen \in Nat \ {0}
  /\ MaxIterations \in Nat \ {0}

VARIABLES
  client,      \* how far the caller of each request has got
  requests,    \* request_queue
  responses,   \* response_queue
  pendingList, \* responses put aside by a receiver (pending_head)
  workerPc,    \* where claw_core_task is
  current,     \* the request it works on
  iteration,   \* rounds of tool calls so far
  failed,      \* its local err # ESP_OK
  inflight,    \* inflight_request_id
  abort,       \* inflight_abort
  result,      \* status and error of the response being built
  session,     \* what it has appended to the session
  armed        \* history: the current request, if a cancel was accepted

vars == <<client, requests, responses, pendingList, workerPc, current,
          iteration, failed, inflight, abort, result, session, armed>>
localVars  == <<iteration, failed>>
flightVars == <<inflight, abort, armed>>
outVars    == <<result, session>>

Asked == Request \ SkipResponse
Busy(c) == \E r \in Request :
             CallerOf[r] = c /\ client[r] \in {"sending", "locking", "waiting"}

\* Variant: response_lock is not given back with the response.
ResponseLockKept == \A r \in Request : client[r] \notin {"waiting", "answered"}

ResponseLockFree == \A r \in Request : client[r] # "waiting"

-----------------------------------------------------------------------------
\* claw_core_submit, then (for a request with a response) receive_for.

Submit(r) ==
  /\ client[r] = "idle" /\ ~ Busy(CallerOf[r])
  /\ client' = [client EXCEPT ![r] = "sending"]
  /\ UNCHANGED <<requests, responses, pendingList, workerPc, current>>
  /\ UNCHANGED localVars /\ UNCHANGED flightVars /\ UNCHANGED outVars

Enqueue(r) ==
  /\ client[r] = "sending"
  /\ Len(requests) < RequestLen
  /\ requests' = Append(requests, r)
  /\ client' = [client EXCEPT ![r] = IF r \in SkipResponse THEN "returned"
                                     ELSE "locking"]
  /\ UNCHANGED <<responses, pendingList, workerPc, current>>
  /\ UNCHANGED localVars /\ UNCHANGED flightVars /\ UNCHANGED outVars

SubmitTimeout(r) ==
  /\ client[r] = "sending"
  /\ Len(requests) = RequestLen
  /\ client' = [client EXCEPT ![r] = "refused"]
  /\ UNCHANGED <<requests, responses, pendingList, workerPc, current>>
  /\ UNCHANGED localVars /\ UNCHANGED flightVars /\ UNCHANGED outVars

\* Variant: the pending list is not searched first.
LockWithoutPop(r) ==
  /\ client[r] = "locking" /\ ResponseLockFree
  /\ client' = [client EXCEPT ![r] = "waiting"]
  /\ UNCHANGED <<requests, responses, pendingList, workerPc, current>>
  /\ UNCHANGED localVars /\ UNCHANGED flightVars /\ UNCHANGED outVars

\* Taking response_lock has no timeout; the pending list is searched first.
Lock(r) ==
  /\ client[r] = "locking" /\ ResponseLockFree
  /\ client' = [client EXCEPT ![r] = IF r \in pendingList THEN "answered"
                                     ELSE "waiting"]
  /\ pendingList' = pendingList \ {r}
  /\ UNCHANGED <<requests, responses, workerPc, current>>
  /\ UNCHANGED localVars /\ UNCHANGED flightVars /\ UNCHANGED outVars

\* Variant: a response to somebody else is dropped.
ReceiveDrops(r) ==
  /\ client[r] = "waiting"
  /\ responses # <<>>
  /\ responses' = Tail(responses)
  /\ client' = IF Head(responses) = r THEN [client EXCEPT ![r] = "answered"]
               ELSE client
  /\ UNCHANGED <<requests, pendingList, workerPc, current>>
  /\ UNCHANGED localVars /\ UNCHANGED flightVars /\ UNCHANGED outVars

Receive(r) ==
  /\ client[r] = "waiting"
  /\ responses # <<>>
  /\ responses' = Tail(responses)
  /\ IF Head(responses) = r
     THEN /\ client' = [client EXCEPT ![r] = "answered"]
          /\ UNCHANGED pendingList
     ELSE /\ pendingList' = pendingList \cup {Head(responses)}
          /\ UNCHANGED client
  /\ UNCHANGED <<requests, workerPc, current>>
  /\ UNCHANGED localVars /\ UNCHANGED flightVars /\ UNCHANGED outVars

ReceiveTimeout(r) ==
  /\ client[r] = "waiting"
  /\ client' = [client EXCEPT ![r] = "gaveUp"]
  /\ UNCHANGED <<requests, responses, pendingList, workerPc, current>>
  /\ UNCHANGED localVars /\ UNCHANGED flightVars /\ UNCHANGED outVars

-----------------------------------------------------------------------------
\* claw_core_cancel_request, for one request or (id 0) for whichever it is.

\* Variant: the id is not compared.
CancelUnchecked(S) ==
  /\ inflight # NoRequest
  /\ abort' = TRUE
  /\ armed' = armed \cup S
  /\ UNCHANGED <<client, requests, responses, pendingList, workerPc, current>>
  /\ UNCHANGED inflight /\ UNCHANGED localVars /\ UNCHANGED outVars

Cancel(S) ==
  /\ inflight # NoRequest
  /\ inflight \in S
  /\ abort' = TRUE
  /\ armed' = armed \cup {inflight}
  /\ UNCHANGED <<client, requests, responses, pendingList, workerPc, current>>
  /\ UNCHANGED inflight /\ UNCHANGED localVars /\ UNCHANGED outVars

-----------------------------------------------------------------------------
\* claw_core_task.

Dequeue ==
  /\ workerPc = "idle"
  /\ requests # <<>>
  /\ current' = Head(requests)
  /\ requests' = Tail(requests)
  /\ workerPc' = "taken"
  /\ UNCHANGED <<client, responses, pendingList>>
  /\ UNCHANGED localVars /\ UNCHANGED flightVars /\ UNCHANGED outVars

BeginFlight ==
  /\ workerPc = "taken"
  /\ inflight' = current
  /\ abort' = FALSE
  /\ workerPc' = "loop"
  /\ UNCHANGED <<client, requests, responses, pendingList, current, armed>>
  /\ UNCHANGED localVars /\ UNCHANGED outVars

\* A context provider or the LLM call fails, perhaps because of the abort
\* flag, which only the HTTP transport reads.
RoundFails ==
  /\ workerPc = "loop"
  /\ failed' = TRUE
  /\ result' = "error"
  /\ workerPc' = "finish"
  /\ UNCHANGED <<client, requests, responses, pendingList, current, iteration>>
  /\ UNCHANGED session /\ UNCHANGED flightVars

RoundOfTools ==
  /\ workerPc = "loop"
  /\ iteration' = iteration + 1
  /\ IF iteration + 1 >= MaxIterations
     THEN /\ failed' = TRUE
          /\ result' = "error"
          /\ workerPc' = "finish"
     ELSE UNCHANGED <<failed, result, workerPc>>
  /\ UNCHANGED <<client, requests, responses, pendingList, current, session>>
  /\ UNCHANGED flightVars

\* The LLM answers: status OK, and the turn is appended to the session.  An
\* append that fails leaves err set although the status is OK.
Answer(appended) ==
  /\ workerPc = "loop"
  /\ result' = "ok"
  /\ failed' = ~ appended
  /\ session' = IF appended THEN session \cup {"turn"} ELSE session
  /\ workerPc' = "finish"
  /\ UNCHANGED <<client, requests, responses, pendingList, current, iteration>>
  /\ UNCHANGED flightVars

\* Under inflight_lock the flag is read and cleared; an error response of a
\* cancelled request says so.
EndFlight ==
  /\ workerPc = "finish"
  /\ inflight' = NoRequest
  /\ abort' = FALSE
  /\ result' = IF abort /\ failed /\ result = "error"
               THEN "cancelled" ELSE result
  /\ workerPc' = "trace"
  /\ UNCHANGED <<client, requests, responses, pendingList, current, session>>
  /\ UNCHANGED localVars /\ UNCHANGED armed

\* A failure trace is appended whenever err is set (its own append may fail
\* too); then the out message is published.
Trace(appended) ==
  /\ workerPc = "trace"
  /\ session' = IF failed /\ appended THEN session \cup {"failure"}
                ELSE session
  /\ workerPc' = "respond"
  /\ UNCHANGED <<client, requests, responses, pendingList, current, result>>
  /\ UNCHANGED localVars /\ UNCHANGED flightVars

\* The locals of the loop's body start afresh.
NextPass ==
  /\ workerPc' = "idle" /\ current' = NoRequest
  /\ iteration' = 0 /\ failed' = FALSE
  /\ result' = "none" /\ session' = {} /\ armed' = {}
  /\ UNCHANGED <<client, requests, pendingList, inflight, abort>>

\* Variant: the response to every request is pushed.
DiscardPushes ==
  /\ workerPc = "respond" /\ current \in SkipResponse
  /\ Len(responses) < ResponseLen
  /\ responses' = Append(responses, current)
  /\ NextPass

Discard ==
  /\ workerPc = "respond" /\ current \in SkipResponse
  /\ NextPass
  /\ UNCHANGED responses

\* push_response waits without a timeout.
Respond ==
  /\ workerPc = "respond" /\ current \notin SkipResponse
  /\ Len(responses) < ResponseLen
  /\ responses' = Append(responses, current)
  /\ NextPass

-----------------------------------------------------------------------------
Init ==
  /\ client = [r \in Request |-> "idle"]
  /\ requests = <<>> /\ responses = <<>> /\ pendingList = {}
  /\ workerPc = "idle" /\ current = NoRequest
  /\ iteration = 0 /\ failed = FALSE
  /\ inflight = NoRequest /\ abort = FALSE /\ armed = {}
  /\ result = "none" /\ session = {}

Worker ==
  \/ Dequeue \/ BeginFlight \/ RoundFails \/ RoundOfTools \/ EndFlight
  \/ \E appended \in BOOLEAN : Answer(appended) \/ Trace(appended)
  \/ Discard \/ Respond

Call(r) == Enqueue(r) \/ SubmitTimeout(r) \/ Lock(r) \/ Receive(r)
           \/ ReceiveTimeout(r)

Next ==
  \/ \E r \in Request : Submit(r) \/ Call(r) \/ Cancel({r})
  \/ Cancel(Request)
  \/ Worker

Spec == Init /\ [][Next]_vars

\* LLM and tool calls return (both have timeouts), a blocked send or receive
\* ends, and a task that waits for response_lock gets it when it is free.
FairSpec == /\ Spec
            /\ WF_vars(Worker)
            /\ \A r \in Request : WF_vars(Call(r))

-----------------------------------------------------------------------------
ClientValue == {"idle", "sending", "refused", "returned", "locking",
                "waiting", "answered", "gaveUp"}
WorkerPcValue == {"idle", "taken", "loop", "finish", "trace", "respond"}

\* The types of the variables; the abort flag is set only while a request is
\* in flight, and the request in flight is the one the worker holds.
TypeOK ==
  /\ client \in [Request -> ClientValue]
  /\ requests \in Seq(Request) /\ Len(requests) =< RequestLen
  /\ responses \in Seq(Request) /\ Len(responses) =< ResponseLen
  /\ pendingList \subseteq Asked
  /\ workerPc \in WorkerPcValue
  /\ current \in Request \cup {NoRequest}
  /\ workerPc = "idle" <=> current = NoRequest
  /\ iteration \in 0 .. MaxIterations /\ failed \in BOOLEAN
  /\ inflight = IF workerPc \in {"loop", "finish"} THEN current ELSE NoRequest
  /\ abort \in BOOLEAN /\ (abort => inflight # NoRequest)
  /\ result \in {"none", "ok", "error", "cancelled"}
  /\ session \subseteq {"turn", "failure"}
  /\ armed \subseteq Request

\* A caller never waits for a response that is already on the pending list.
NoMissedResponse ==
  \A r \in Request : client[r] = "waiting" => r \notin pendingList

\* "request cancelled" is the answer only to a request for which a cancel was
\* accepted, although the flag is shared by all requests and a cancel may come
\* when the previous one has just ended.
CancelledWasMeant == result = "cancelled" => current \in armed

\* The response queue is full and nobody is reading it.
Stalled ==
  /\ workerPc = "respond" /\ current \notin SkipResponse
  /\ Len(responses) = ResponseLen
  /\ \A r \in Request : client[r] \notin {"locking", "waiting"}

\* A queued request is worked on to the end: the only thing that stops the
\* worker is a response queue full of abandoned responses.
QueuedIsServed ==
  \A r \in Request :
    r \in Range(requests) ~> (current = r /\ workerPc = "respond") \/ Stalled

\* submit and receive_for return, also when another task holds the lock.
CallReturns ==
  \A r \in Request :
    client[r] = "sending" ~>
      client[r] \in {"refused", "returned", "answered", "gaveUp"}

-----------------------------------------------------------------------------
(* Queues, worker, lock and list together are a service that answers one   *)
(* request after the other.                                                *)

Stage(at) == CASE at \in {"locking", "waiting"} -> "waiting"
               [] at = "sending" -> "asking"
               [] at \in {"refused", "returned", "gaveUp"} -> "gone"
               [] OTHER -> at

Accepted == (IF workerPc = "idle" THEN <<>> ELSE <<current>>) \o requests

RS == INSTANCE RequestService
        WITH Silent <- SkipResponse, Capacity <- RequestLen + 1,
             asker <- [r \in Request |-> Stage(client[r])], open <- Accepted,
             mail <- Range(responses) \cup pendingList

\* Requests are served in the order in which they were accepted, each once, and
\* a response is never lost, given twice or handed to somebody else, whoever
\* takes it off the queue and whoever gives up waiting.
ServesInOrder == RS!Spec
=============================================================================
