-------------------------- MODULE AgentCoreProofs --------------------------
(***************************************************************************)
(* Safety of the request worker, proved for every set of requests and      *)
(* callers, every length of the two queues and every iteration limit.      *)
(*                                                                         *)
(* The argument follows each request through the places it can be in: the  *)
(* request queue, the worker's hand, the response queue, the pending list, *)
(* its caller.  The places are disjoint, the queues hold nothing twice,    *)
(* and a request with a response that was accepted never leaves them.      *)
(***************************************************************************)
EXTENDS AgentCore, FiniteSetTheorems, SequenceTheorems, TLAPS

USE ConstantsAssumption

-----------------------------------------------------------------------------
\* What the queue operations do to the contents of a queue.

Distinct(s) == \A i, j \in 1 .. Len(s) : s[i] = s[j] => i = j

LEMMA AppendRange ==
  ASSUME NEW S, NEW s \in Seq(S), NEW x \in S, x \notin Range(s), Distinct(s)
  PROVE  /\ Range(Append(s, x)) = Range(s) \cup {x}
         /\ Distinct(Append(s, x))
         /\ Append(s, x) \in Seq(S) /\ Len(Append(s, x)) = Len(s) + 1
<1>1. /\ Append(s, x) \in Seq(S) /\ Len(Append(s, x)) = Len(s) + 1
      /\ \A i \in 1 .. Len(s) : Append(s, x)[i] = s[i]
      /\ Append(s, x)[Len(s) + 1] = x /\ Len(s) \in Nat
  OBVIOUS
<1>2. /\ \A i : i \in DOMAIN s <=> i \in 1 .. Len(s)
      /\ \A i : i \in DOMAIN Append(s, x) <=> i \in 1 .. Len(s) + 1
  BY <1>1
<1>3. \A i \in 1 .. Len(s) + 1 : i \in 1 .. Len(s) \/ i = Len(s) + 1
  BY <1>1
<1>4. \A i \in 1 .. Len(s) : i \in 1 .. Len(s) + 1
  BY <1>1
<1>5. Len(s) + 1 \in 1 .. Len(s) + 1
  BY <1>1
<1>6. Range(Append(s, x)) = Range(s) \cup {x}
  BY <1>1, <1>2, <1>3, <1>4, <1>5 DEF Range
<1>7. \A i \in 1 .. Len(s) : s[i] # x
  BY <1>2 DEF Range
<1>8. Distinct(Append(s, x))
  BY <1>1, <1>3, <1>7 DEF Distinct
<1> QED BY <1>1, <1>6, <1>8

LEMMA TailRange ==
  ASSUME NEW S, NEW s \in Seq(S), s # <<>>, Distinct(s)
  PROVE  /\ Head(s) \in Range(s) /\ Head(s) \in S
         /\ Range(Tail(s)) = Range(s) \ {Head(s)}
         /\ Distinct(Tail(s))
         /\ Tail(s) \in Seq(S) /\ Len(Tail(s)) = Len(s) - 1
<1>1. /\ Tail(s) \in Seq(S) /\ Len(Tail(s)) = Len(s) - 1
      /\ \A i \in 1 .. Len(s) - 1 : Tail(s)[i] = s[i + 1]
      /\ Head(s) = s[1] /\ Len(s) \in Nat /\ Len(s) >= 1
  OBVIOUS
<1>2. /\ \A i : i \in DOMAIN s <=> i \in 1 .. Len(s)
      /\ \A i : i \in DOMAIN Tail(s) <=> i \in 1 .. Len(s) - 1
  BY <1>1
<1>3. Head(s) \in Range(s) /\ Head(s) \in S
  BY <1>1, <1>2 DEF Range
<1>4. Range(Tail(s)) \subseteq Range(s) \ {Head(s)}
  <2>1. ASSUME NEW i \in 1 .. Len(s) - 1
        PROVE  Tail(s)[i] = s[i + 1] /\ i + 1 \in 1 .. Len(s) /\ s[i + 1] # s[1]
    BY <1>1 DEF Distinct
  <2> QED BY <1>1, <1>2, <2>1 DEF Range
<1>5. Range(s) \ {Head(s)} \subseteq Range(Tail(s))
  <2> SUFFICES ASSUME NEW x \in Range(s), x # Head(s) PROVE x \in Range(Tail(s))
    OBVIOUS
  <2>1. PICK i \in 1 .. Len(s) : x = s[i]
    BY <1>2 DEF Range
  <2>2. i # 1 /\ i \in Nat /\ i >= 1 /\ i =< Len(s)
    BY <2>1, <1>1
  <2>3. i - 1 \in 1 .. Len(s) - 1 /\ (i - 1) + 1 = i
    BY <2>2, <1>1
  <2>4. Tail(s)[i - 1] = x
    BY <2>1, <2>3, <1>1
  <2> QED BY <1>2, <2>3, <2>4 DEF Range
<1>6. Distinct(Tail(s))
  BY <1>1 DEF Distinct
<1> QED BY <1>1, <1>3, <1>4, <1>5, <1>6

-----------------------------------------------------------------------------
\* The inductive invariant.

Queued   == Range(requests)
Working  == {r \in Request : current = r}
Sent     == Range(responses)
Answered == {r \in Request : client[r] = "answered"}
Unsent(r) == client[r] \in {"idle", "sending", "refused"}

DisjointInv ==               \* a request is in one place, and there once
  /\ Distinct(requests) /\ Distinct(responses)
  /\ Queued \cap (Working \cup Sent \cup pendingList \cup Answered) = {}
  /\ Working \cap (Sent \cup pendingList \cup Answered) = {}
  /\ Sent \cap (pendingList \cup Answered) = {}
  /\ pendingList \cap Answered = {}

KeptInv ==                   \* it is in some place from submission on
  /\ Sent \subseteq Asked
  /\ \A r \in Request :
       Unsent(r) => r \notin Queued \cup Working \cup Sent \cup pendingList
  /\ \A r \in Asked : ~ Unsent(r) =>
       r \in Queued \cup Working \cup Sent \cup pendingList \cup Answered

PlaceInv == DisjointInv /\ KeptInv

OneReceiver ==               \* response_lock has one holder
  \A r, q \in Request : client[r] = "waiting" /\ client[q] = "waiting" => r = q

LoopInv ==                   \* the limit is reached only as the loop is left
  /\ workerPc \in {"idle", "taken"} => iteration = 0
  /\ workerPc = "loop" => iteration < MaxIterations

FlightInv == abort => current \in armed

IInv == /\ TypeOK /\ PlaceInv /\ OneReceiver /\ NoMissedResponse
        /\ LoopInv /\ FlightInv /\ CancelledWasMeant

CallType ==                  \* the two halves of TypeOK
  /\ client \in [Request -> ClientValue]
  /\ requests \in Seq(Request) /\ Len(requests) =< RequestLen
  /\ responses \in Seq(Request) /\ Len(responses) =< ResponseLen
  /\ pendingList \subseteq Asked

WorkerType ==
  /\ workerPc \in WorkerPcValue
  /\ current \in Request \cup {NoRequest}
  /\ workerPc = "idle" <=> current = NoRequest
  /\ iteration \in 0 .. MaxIterations /\ failed \in BOOLEAN
  /\ inflight = IF workerPc \in {"loop", "finish"} THEN current ELSE NoRequest
  /\ abort \in BOOLEAN /\ (abort => inflight # NoRequest)
  /\ result \in {"none", "ok", "error", "cancelled"}
  /\ session \subseteq {"turn", "failure"}
  /\ armed \subseteq Request

LEMMA TypeHalves == TypeOK <=> CallType /\ WorkerType
  BY DEF TypeOK, CallType, WorkerType

LEMMA CallTypeStep ==
  ASSUME IInv, Next PROVE CallType'
<1> USE DEF CallType, ClientValue
<1>0. /\ CallType /\ Distinct(requests) /\ Distinct(responses)
      /\ Sent \subseteq Asked /\ current \in Request \cup {NoRequest}
      /\ workerPc # "idle" => current # NoRequest
  BY TypeHalves DEF IInv, PlaceInv, DisjointInv, KeptInv, WorkerType
<1>1. ASSUME NEW r \in Request, Submit(r) \/ SubmitTimeout(r) \/ ReceiveTimeout(r)
      PROVE  CallType'
  BY <1>0, <1>1 DEF Submit, SubmitTimeout, ReceiveTimeout
<1>2. ASSUME NEW r \in Request, Enqueue(r) PROVE CallType'
  BY <1>0, <1>2 DEF Enqueue
<1>3. ASSUME NEW r \in Request, Lock(r) PROVE CallType'
  BY <1>0, <1>3 DEF Lock
<1>4. ASSUME NEW r \in Request, Receive(r) PROVE CallType'
  <2>1. /\ responses' \in Seq(Request) /\ Len(responses') =< ResponseLen
        /\ Head(responses) \in Asked
    BY <1>0, <1>4, TailRange DEF Receive, Sent
  <2> QED BY <1>0, <1>4, <2>1 DEF Receive
<1>5. CASE Dequeue
  <2>1. requests' \in Seq(Request) /\ Len(requests') =< RequestLen
    BY <1>0, <1>5, TailRange DEF Dequeue
  <2> QED BY <1>0, <1>5, <2>1 DEF Dequeue
<1>6. CASE Respond
  <2>1. responses' \in Seq(Request) /\ Len(responses') =< ResponseLen
    BY <1>0, <1>6 DEF Respond
  <2> QED BY <1>0, <1>6, <2>1 DEF Respond, NextPass
<1>7. CASE UNCHANGED <<client, requests, responses, pendingList>>
  BY <1>0, <1>7
<1>8. ASSUME NEW S, Cancel(S)
      PROVE  UNCHANGED <<client, requests, responses, pendingList>>
  BY <1>8 DEF Cancel
<1>9. ASSUME NEW a \in BOOLEAN, Answer(a) \/ Trace(a)
      PROVE  UNCHANGED <<client, requests, responses, pendingList>>
  BY <1>9 DEF Answer, Trace
<1>10. BeginFlight \/ RoundFails \/ RoundOfTools \/ EndFlight \/ Discard
       => UNCHANGED <<client, requests, responses, pendingList>>
  BY DEF BeginFlight, RoundFails, RoundOfTools, EndFlight, Discard, NextPass
<1> QED
  BY <1>1, <1>2, <1>3, <1>4, <1>5, <1>6, <1>7, <1>8, <1>9, <1>10
     DEF Next, Call, Worker

\* The steps of the callers leave the worker alone.
LEMMA CallFrame ==
  ASSUME NEW r \in Request, Submit(r) \/ Call(r)
  PROVE  UNCHANGED <<workerPc, current, iteration, failed, inflight, abort,
                     result, session, armed>>
  BY DEF Call, Submit, Enqueue, SubmitTimeout, Lock, Receive, ReceiveTimeout,
         localVars, flightVars, outVars

LEMMA WorkerTypeStep ==
  ASSUME IInv, Next PROVE WorkerType' /\ LoopInv'
<1> USE DEF WorkerType, WorkerPcValue, LoopInv, localVars, flightVars, outVars
<1>0. CallType /\ WorkerType /\ LoopInv /\ Distinct(requests)
  BY TypeHalves DEF IInv, PlaceInv, DisjointInv
<1>1. ASSUME NEW r \in Request, Submit(r) \/ Call(r)
      PROVE  WorkerType' /\ LoopInv'
  BY <1>0, <1>1, CallFrame
<1>2. ASSUME NEW S, Cancel(S) PROVE WorkerType' /\ LoopInv'
  BY <1>0, <1>2 DEF Cancel
<1>3. CASE Dequeue
  <2>1. Head(requests) \in Request
    BY <1>0, <1>3, TailRange DEF Dequeue, CallType
  <2> QED BY <1>0, <1>3, <2>1 DEF Dequeue
<1>4. CASE BeginFlight
  <2>1. iteration' \in 0 .. MaxIterations /\ LoopInv'
    BY <1>0, <1>4 DEF BeginFlight
  <2>2. abort' \in BOOLEAN /\ (abort' => inflight' # NoRequest)
    BY <1>0, <1>4 DEF BeginFlight
  <2>3. (workerPc = "idle" <=> current = NoRequest)'
    BY <1>0, <1>4 DEF BeginFlight
  <2> QED BY <1>0, <1>4, <2>1, <2>2, <2>3 DEF BeginFlight
<1>5. CASE RoundFails BY <1>0, <1>5 DEF RoundFails
<1>6. CASE RoundOfTools
  <2>1. iteration' \in 0 .. MaxIterations /\ LoopInv'
    BY <1>0, <1>6 DEF RoundOfTools
  <2>2. abort' \in BOOLEAN /\ (abort' => inflight' # NoRequest)
    BY <1>0, <1>6 DEF RoundOfTools
  <2>3. (workerPc = "idle" <=> current = NoRequest)'
    BY <1>0, <1>6 DEF RoundOfTools
  <2> QED BY <1>0, <1>6, <2>1, <2>2, <2>3 DEF RoundOfTools
<1>7. ASSUME NEW a \in BOOLEAN, Answer(a) PROVE WorkerType' /\ LoopInv'
  BY <1>0, <1>7 DEF Answer
<1>8. CASE EndFlight BY <1>0, <1>8 DEF EndFlight
<1>9. ASSUME NEW a \in BOOLEAN, Trace(a) PROVE WorkerType' /\ LoopInv'
  BY <1>0, <1>9 DEF Trace
<1>10. CASE Discard
  <2>1. iteration' \in 0 .. MaxIterations /\ LoopInv'
    BY <1>0, <1>10 DEF Discard, NextPass
  <2>2. abort' \in BOOLEAN /\ (abort' => inflight' # NoRequest)
    BY <1>0, <1>10 DEF Discard, NextPass
  <2>3. (workerPc = "idle" <=> current = NoRequest)'
    BY <1>0, <1>10 DEF Discard, NextPass
  <2> QED BY <1>0, <1>10, <2>1, <2>2, <2>3 DEF Discard, NextPass
<1>11. CASE Respond
  <2>1. iteration' \in 0 .. MaxIterations /\ LoopInv'
    BY <1>0, <1>11 DEF Respond, NextPass
  <2>2. abort' \in BOOLEAN /\ (abort' => inflight' # NoRequest)
    BY <1>0, <1>11 DEF Respond, NextPass
  <2>3. (workerPc = "idle" <=> current = NoRequest)'
    BY <1>0, <1>11 DEF Respond, NextPass
  <2> QED BY <1>0, <1>11, <2>1, <2>2, <2>3 DEF Respond, NextPass
<1> QED
  BY <1>1, <1>2, <1>3, <1>4, <1>5, <1>6, <1>7, <1>8, <1>9, <1>10, <1>11
     DEF Next, Worker

-----------------------------------------------------------------------------
\* A step that moves nothing between the places.
LEMMA PlacesKept ==
  ASSUME PlaceInv, UNCHANGED <<requests, responses, pendingList, current>>,
         \A r \in Request : Unsent(r)' <=> Unsent(r),
         \A r \in Request : client'[r] = "answered" <=> client[r] = "answered"
  PROVE  PlaceInv'
<1>1. Queued' = Queued /\ Sent' = Sent /\ Working' = Working
      /\ Answered' = Answered
  BY DEF Queued, Sent, Working, Answered, Range
<1>2. DisjointInv'
  BY <1>1 DEF PlaceInv, DisjointInv, Distinct
<1>3. KeptInv'
  BY <1>1 DEF PlaceInv, KeptInv, Asked
<1> QED BY <1>2, <1>3 DEF PlaceInv

LEMMA PlaceStep ==
  ASSUME IInv, Next PROVE PlaceInv'
<1>0. /\ CallType /\ WorkerType /\ PlaceInv
      /\ DisjointInv /\ KeptInv /\ Distinct(requests) /\ Distinct(responses)
  BY TypeHalves DEF IInv, PlaceInv, DisjointInv
<1> USE DEF CallType, ClientValue
<1>1. ASSUME NEW r \in Request, Submit(r) \/ SubmitTimeout(r) \/ ReceiveTimeout(r)
      PROVE  PlaceInv'
  <2>1. UNCHANGED <<requests, responses, pendingList, current>>
    BY <1>1 DEF Submit, SubmitTimeout, ReceiveTimeout
  <2>2. /\ \A q \in Request : Unsent(q)' <=> Unsent(q)
        /\ \A q \in Request : client'[q] = "answered" <=> client[q] = "answered"
    BY <1>0, <1>1 DEF Submit, SubmitTimeout, ReceiveTimeout, Unsent
  <2> QED BY <1>0, <2>1, <2>2, PlacesKept
<1>2. ASSUME NEW r \in Request, Enqueue(r) PROVE PlaceInv'
  <2>1. r \notin Queued \cup Working \cup Sent \cup pendingList \cup Answered
    BY <1>0, <1>2 DEF Enqueue, KeptInv, Unsent, Answered
  <2>2. Queued' = Queued \cup {r} /\ Distinct(requests')
    BY <1>0, <1>2, <2>1, AppendRange DEF Enqueue, Queued
  <2>3. /\ Sent' = Sent /\ Working' = Working /\ Answered' = Answered
        /\ responses' = responses /\ pendingList' = pendingList
    BY <1>0, <1>2 DEF Enqueue, Sent, Working, Answered, Range
  <2>4. DisjointInv'
    BY <1>0, <2>1, <2>2, <2>3 DEF DisjointInv, Distinct
  <2>5. \A q \in Request : Unsent(q)' <=> Unsent(q) /\ q # r
    BY <1>0, <1>2 DEF Enqueue, Unsent
  <2>6. KeptInv'
    BY <1>0, <2>2, <2>3, <2>5 DEF KeptInv, Asked
  <2> QED BY <2>4, <2>6 DEF PlaceInv
<1>3. ASSUME NEW r \in Request, Lock(r) PROVE PlaceInv'
  <2>1. \A q \in Request : Unsent(q)' <=> Unsent(q)
    BY <1>0, <1>3 DEF Lock, Unsent
  <2>2. CASE r \notin pendingList
    <3>1. \A q \in Request : client'[q] = "answered" <=> client[q] = "answered"
      BY <1>0, <1>3, <2>2 DEF Lock
    <3>2. UNCHANGED <<requests, responses, pendingList, current>>
      BY <1>3, <2>2 DEF Lock
    <3> QED BY <1>0, <2>1, <3>1, <3>2, PlacesKept
  <2>3. CASE r \in pendingList
    <3>1. /\ Queued' = Queued /\ Sent' = Sent /\ Working' = Working
          /\ requests' = requests /\ responses' = responses
          /\ pendingList' = pendingList \ {r}
      BY <1>3 DEF Lock, Queued, Sent, Working, Range
    <3>2. Answered' = Answered \cup {r}
      BY <1>0, <1>3, <2>3 DEF Lock, Answered
    <3>3. DisjointInv'
      BY <1>0, <2>3, <3>1, <3>2 DEF DisjointInv, Distinct
    <3>4. KeptInv'
      BY <1>0, <2>1, <2>3, <3>1, <3>2 DEF KeptInv, Asked
    <3> QED BY <3>3, <3>4 DEF PlaceInv
  <2> QED BY <2>2, <2>3
<1>4. ASSUME NEW r \in Request, Receive(r) PROVE PlaceInv'
  <2> DEFINE h == Head(responses)
  <2>1. h \in Sent /\ h \in Request /\ Sent' = Sent \ {h} /\ Distinct(responses')
    BY <1>0, <1>4, TailRange DEF Receive, Sent
  <2>2. /\ Queued' = Queued /\ Working' = Working /\ requests' = requests
    BY <1>4 DEF Receive, Queued, Working, Range
  <2>3. \A q \in Request : Unsent(q)' <=> Unsent(q)
    BY <1>0, <1>4 DEF Receive, Unsent
  <2>4. \/ pendingList' = pendingList \cup {h} /\ Answered' = Answered
        \/ pendingList' = pendingList /\ Answered' = Answered \cup {h}
    BY <1>0, <1>4 DEF Receive, Answered
  <2>5. DisjointInv'
    BY <1>0, <2>1, <2>2, <2>4 DEF DisjointInv, Distinct
  <2>6. KeptInv'
    BY <1>0, <2>1, <2>2, <2>3, <2>4 DEF KeptInv, Asked
  <2> QED BY <2>5, <2>6 DEF PlaceInv
<1>5. CASE Dequeue
  <2> DEFINE h == Head(requests)
  <2>1. h \in Queued /\ h \in Request /\ Queued' = Queued \ {h}
        /\ Distinct(requests')
    BY <1>0, <1>5, TailRange DEF Dequeue, Queued
  <2>2. Working = {} /\ Working' = {h}
    BY <1>0, <1>5, <2>1 DEF Dequeue, Working, WorkerType
  <2>3. /\ Sent' = Sent /\ Answered' = Answered
        /\ UNCHANGED <<responses, pendingList, client>>
    BY <1>5 DEF Dequeue, Sent, Answered, Range
  <2>4. DisjointInv'
    BY <1>0, <2>1, <2>2, <2>3 DEF DisjointInv, Distinct
  <2>5. KeptInv'
    BY <1>0, <2>1, <2>2, <2>3 DEF KeptInv, Asked, Unsent
  <2> QED BY <2>4, <2>5 DEF PlaceInv
<1>6. CASE Discard
  <2>1. Working' = {} /\ Working \cap Asked = {}
    BY <1>6 DEF Discard, NextPass, Working, Asked
  <2>2. /\ Queued' = Queued /\ Sent' = Sent /\ Answered' = Answered
        /\ UNCHANGED <<requests, responses, pendingList, client>>
    BY <1>6 DEF Discard, NextPass, Queued, Sent, Answered, Range
  <2>3. DisjointInv'
    BY <1>0, <2>1, <2>2 DEF DisjointInv, Distinct
  <2>4. KeptInv'
    BY <1>0, <2>1, <2>2 DEF KeptInv, Asked, Unsent
  <2> QED BY <2>3, <2>4 DEF PlaceInv
<1>7. CASE Respond
  <2>1. current \in Asked /\ Working = {current} /\ Working' = {}
    BY <1>0, <1>7 DEF Respond, NextPass, Working, Asked, WorkerType,
                      WorkerPcValue
  <2>2. current \in Request /\ current \notin Sent
    BY <1>0, <2>1 DEF DisjointInv, Asked
  <2>3. Sent' = Sent \cup {current} /\ Distinct(responses')
    BY <1>0, <1>7, <2>2, AppendRange DEF Respond, Sent
  <2>4. /\ Queued' = Queued /\ Answered' = Answered
        /\ UNCHANGED <<requests, pendingList, client>>
    BY <1>7 DEF Respond, NextPass, Queued, Answered, Range
  <2>5. DisjointInv'
    BY <1>0, <2>1, <2>3, <2>4 DEF DisjointInv, Distinct
  <2>6. KeptInv'
    BY <1>0, <2>1, <2>3, <2>4 DEF KeptInv, Asked, Unsent
  <2> QED BY <2>5, <2>6 DEF PlaceInv
<1>8. CASE UNCHANGED <<requests, responses, pendingList, current, client>>
  BY <1>0, <1>8, PlacesKept DEF Unsent
<1>9. ASSUME NEW S, Cancel(S)
      PROVE  UNCHANGED <<requests, responses, pendingList, current, client>>
  BY <1>9 DEF Cancel
<1>10. ASSUME NEW a \in BOOLEAN, Answer(a) \/ Trace(a)
       PROVE  UNCHANGED <<requests, responses, pendingList, current, client>>
  BY <1>10 DEF Answer, Trace
<1>11. BeginFlight \/ RoundFails \/ RoundOfTools \/ EndFlight
       => UNCHANGED <<requests, responses, pendingList, current, client>>
  BY DEF BeginFlight, RoundFails, RoundOfTools, EndFlight
<1> QED
  BY <1>1, <1>2, <1>3, <1>4, <1>5, <1>6, <1>7, <1>8, <1>9, <1>10, <1>11
     DEF Next, Call, Worker

\* Taking the lock is the only way to wait, and it is refused to a second.
LEMMA ReceiverStep ==
  ASSUME IInv, Next PROVE OneReceiver' /\ NoMissedResponse'
<1> USE DEF CallType, ClientValue, OneReceiver, NoMissedResponse
<1>0. CallType /\ OneReceiver /\ NoMissedResponse
  BY TypeHalves DEF IInv
<1>1. ASSUME NEW r \in Request, Lock(r) PROVE OneReceiver' /\ NoMissedResponse'
  BY <1>0, <1>1 DEF Lock, ResponseLockFree
<1>2. ASSUME NEW r \in Request, Receive(r)
      PROVE  OneReceiver' /\ NoMissedResponse'
  <2>1. CASE Head(responses) = r
    BY <1>0, <1>2, <2>1 DEF Receive
  <2>2. CASE Head(responses) # r
    <3>1. client' = client /\ pendingList' = pendingList \cup {Head(responses)}
      BY <1>2, <2>2 DEF Receive
    <3>2. \A q \in Request : client[q] = "waiting" => q = r
      BY <1>0, <1>2 DEF Receive
    <3> QED BY <1>0, <2>2, <3>1, <3>2
  <2> QED BY <2>1, <2>2
<1>3. ASSUME NEW r \in Request,
             Submit(r) \/ Enqueue(r) \/ SubmitTimeout(r) \/ ReceiveTimeout(r)
      PROVE  OneReceiver' /\ NoMissedResponse'
  BY <1>0, <1>3 DEF Submit, Enqueue, SubmitTimeout, ReceiveTimeout
<1>4. CASE UNCHANGED <<client, pendingList>>
  BY <1>0, <1>4
<1>5. ASSUME NEW S, Cancel(S) PROVE UNCHANGED <<client, pendingList>>
  BY <1>5 DEF Cancel
<1>6. ASSUME NEW a \in BOOLEAN, Answer(a) \/ Trace(a)
      PROVE  UNCHANGED <<client, pendingList>>
  BY <1>6 DEF Answer, Trace
<1>7. Dequeue \/ BeginFlight \/ RoundFails \/ RoundOfTools \/ EndFlight
      \/ Discard \/ Respond => UNCHANGED <<client, pendingList>>
  BY DEF Dequeue, BeginFlight, RoundFails, RoundOfTools, EndFlight, Discard,
         Respond, NextPass
<1> QED
  BY <1>1, <1>2, <1>3, <1>4, <1>5, <1>6, <1>7 DEF Next, Call, Worker

\* The abort flag is cleared as a request begins and as it ends, so while it
\* is set it was set for the request the worker holds.
LEMMA CancelStep ==
  ASSUME IInv, Next PROVE FlightInv' /\ CancelledWasMeant'
<1> USE DEF FlightInv, CancelledWasMeant, localVars, flightVars, outVars
<1>0. WorkerType /\ FlightInv /\ CancelledWasMeant
  BY TypeHalves DEF IInv
<1>1. ASSUME NEW r \in Request, Submit(r) \/ Call(r)
      PROVE  FlightInv' /\ CancelledWasMeant'
  BY <1>0, <1>1, CallFrame
<1>2. ASSUME NEW S, Cancel(S) PROVE FlightInv' /\ CancelledWasMeant'
  <2>1. inflight = current
    BY <1>0, <1>2 DEF Cancel, WorkerType
  <2> QED BY <1>0, <1>2, <2>1 DEF Cancel
<1>3. CASE Dequeue
  <2>1. inflight = NoRequest /\ ~ abort /\ result # "cancelled"
    BY <1>0, <1>3 DEF Dequeue, WorkerType, CancelledWasMeant
  <2> QED BY <1>3, <2>1 DEF Dequeue
<1>4. CASE BeginFlight BY <1>0, <1>4 DEF BeginFlight
<1>5. CASE RoundFails BY <1>0, <1>5 DEF RoundFails
<1>6. CASE RoundOfTools BY <1>0, <1>6 DEF RoundOfTools
<1>7. ASSUME NEW a \in BOOLEAN, Answer(a) \/ Trace(a)
      PROVE  FlightInv' /\ CancelledWasMeant'
  BY <1>0, <1>7 DEF Answer, Trace
<1>8. CASE EndFlight BY <1>0, <1>8 DEF EndFlight
<1>9. CASE Discard \/ Respond
  <2>1. inflight = NoRequest /\ ~ abort
    BY <1>0, <1>9 DEF Discard, Respond, WorkerType
  <2> QED BY <1>9, <2>1 DEF Discard, Respond, NextPass
<1> QED
  BY <1>1, <1>2, <1>3, <1>4, <1>5, <1>6, <1>7, <1>8, <1>9 DEF Next, Worker

-----------------------------------------------------------------------------
LEMMA InitInv == Init => IInv
<1> SUFFICES ASSUME Init PROVE IInv
  OBVIOUS
<1>1. TypeOK
  <2>1. CallType
    BY DEF Init, CallType, ClientValue
  <2>2. iteration \in 0 .. MaxIterations
    BY DEF Init
  <2>3. WorkerType
    BY <2>2 DEF Init, WorkerType, WorkerPcValue
  <2> QED BY <2>1, <2>3, TypeHalves
<1>2. Queued = {} /\ Working = {} /\ Sent = {} /\ Answered = {}
  BY DEF Init, Queued, Working, Sent, Answered, Range
<1>3. PlaceInv
  BY <1>2 DEF Init, PlaceInv, DisjointInv, KeptInv, Distinct, Unsent, Asked
<1> QED
  BY <1>1, <1>3 DEF Init, IInv, OneReceiver, NoMissedResponse, LoopInv,
                    FlightInv, CancelledWasMeant

LEMMA Invariant == Spec => []IInv
<1>1. IInv /\ [Next]_vars => IInv'
  <2>1. CASE Next
    <3> SUFFICES ASSUME IInv PROVE IInv'
      BY <2>1
    <3>1. TypeOK' /\ LoopInv'
      BY <2>1, CallTypeStep, WorkerTypeStep, TypeHalves DEF TypeOK, CallType,
                                                           WorkerType
    <3> QED BY <2>1, <3>1, PlaceStep, ReceiverStep, CancelStep DEF IInv
  <2>2. CASE UNCHANGED vars
    <3> SUFFICES ASSUME IInv PROVE IInv'
      OBVIOUS
    <3>1. TypeOK' /\ LoopInv'
      BY <2>2 DEF vars, IInv, TypeOK, LoopInv
    <3>2. PlaceInv'
      BY <2>2, PlacesKept DEF vars, IInv, Unsent
    <3> QED
      BY <2>2, <3>1, <3>2 DEF vars, IInv, OneReceiver, NoMissedResponse,
                              FlightInv, CancelledWasMeant
  <2> QED BY <2>1, <2>2
<1> QED BY <1>1, InitInv, PTL DEF Spec

-----------------------------------------------------------------------------
\* Every reachable state is of the right type: the queues stay within their
\* lengths, the iterations within the limit, and the abort flag is set only
\* while a request is in flight.
THEOREM TypeCorrect == Spec => []TypeOK
<1>1. IInv => TypeOK BY DEF IInv
<1> QED BY <1>1, Invariant, PTL

\* Where the response to a request can be.
Places(r) == {p \in {"worker", "queue", "list", "caller"} :
  \/ p = "worker" /\ current = r
  \/ p = "queue" /\ r \in Range(responses)
  \/ p = "list" /\ r \in pendingList
  \/ p = "caller" /\ client[r] = "answered"}

\* A response is never lost, duplicated or handed to the wrong caller: once
\* the worker has taken a request, its response is in exactly one place.
ResponseAccounted ==
  \A r \in Asked :
    IF client[r] \in {"idle", "sending", "refused"} \/ r \in Range(requests)
    THEN Places(r) = {} ELSE Cardinality(Places(r)) = 1

\* The response to a request that was accepted is in exactly one place.
THEOREM ResponsesAccounted == Spec => []ResponseAccounted
<1>1. IInv => ResponseAccounted
  <2> SUFFICES ASSUME IInv, NEW r \in Asked
               PROVE  IF Unsent(r) \/ r \in Queued
                      THEN Places(r) = {} ELSE Cardinality(Places(r)) = 1
    BY DEF ResponseAccounted, Unsent, Queued
  <2>1. r \in Request
    BY DEF Asked
  <2>2. DisjointInv /\ KeptInv
    BY DEF IInv, PlaceInv
  <2>3. /\ "worker" \in Places(r) <=> r \in Working
        /\ "queue" \in Places(r) <=> r \in Sent
        /\ "list" \in Places(r) <=> r \in pendingList
        /\ "caller" \in Places(r) <=> r \in Answered
    BY <2>1 DEF Places, Working, Sent, Answered
  <2>4. Places(r) \subseteq {"worker", "queue", "list", "caller"}
    BY DEF Places
  <2>5. CASE Unsent(r) \/ r \in Queued
    <3>1. r \notin Working \cup Sent \cup pendingList \cup Answered
      BY <2>1, <2>2, <2>5 DEF DisjointInv, KeptInv, Unsent, Answered
    <3> QED BY <2>3, <2>4, <2>5, <3>1
  <2>6. CASE ~ Unsent(r) /\ r \notin Queued
    <3>1. r \in Working \cup Sent \cup pendingList \cup Answered
      BY <2>2, <2>6 DEF KeptInv
    <3>2. \E p : Places(r) = {p}
      BY <2>2, <2>3, <2>4, <3>1 DEF DisjointInv
    <3> QED BY <2>6, <3>2, FS_Singleton
  <2> QED BY <2>5, <2>6
<1> QED BY <1>1, Invariant, PTL

\* Nobody waits for a response that has already been put on the list.
THEOREM NoResponseMissed == Spec => []NoMissedResponse
<1>1. IInv => NoMissedResponse BY DEF IInv
<1> QED BY <1>1, Invariant, PTL

\* Only a request whose cancellation was accepted is reported as cancelled.
THEOREM CancellationIsMeant == Spec => []CancelledWasMeant
<1>1. IInv => CancelledWasMeant BY DEF IInv
<1> QED BY <1>1, Invariant, PTL

-----------------------------------------------------------------------------
(* The refinement: what the askers see is RequestService.  The request in   *)
(* hand is the head of the accepted ones, so taking it changes nothing, and *)
(* a response moves between queue and list without leaving the mail.        *)

Askers == [r \in Request |-> Stage(client[r])]
Mail == Range(responses) \cup pendingList

\* The request in hand in front of those that wait.
LEMMA InHand ==
  ASSUME NEW c \in Request, NEW s \in Seq(Request)
  PROVE  /\ <<c>> \o s # <<>> /\ Head(<<c>> \o s) = c /\ Tail(<<c>> \o s) = s
         /\ Len(<<c>> \o s) = Len(s) + 1
         /\ \A r \in Request : Append(<<c>> \o s, r) = <<c>> \o Append(s, r)
         /\ <<>> \o s = s
         /\ s # <<>> => <<Head(s)>> \o Tail(s) = s
<1>1. <<c>> \in Seq(Request) /\ Len(<<c>>) = 1 /\ <<c>>[1] = c
  OBVIOUS
<1>2. /\ <<c>> \o s \in Seq(Request) /\ Len(<<c>> \o s) = Len(s) + 1
      /\ \A i \in 1 .. Len(s) + 1 :
           (<<c>> \o s)[i] = IF i <= 1 THEN c ELSE s[i - 1]
  BY <1>1, ConcatProperties
<1>3. <<c>> \o s # <<>> /\ Head(<<c>> \o s) = c
  BY <1>2
<1>4. Tail(<<c>> \o s) = s
  <2>1. Tail(<<c>> \o s) \in Seq(Request) /\ Len(Tail(<<c>> \o s)) = Len(s)
        /\ \A i \in 1 .. Len(s) : Tail(<<c>> \o s)[i] = (<<c>> \o s)[i + 1]
    BY <1>2, <1>3, HeadTailProperties
  <2>2. \A i \in 1 .. Len(s) : Tail(<<c>> \o s)[i] = s[i]
    BY <1>2, <2>1
  <2> QED
    BY <2>1, <2>2, SeqEqual
<1>5. ASSUME NEW r \in Request PROVE Append(<<c>> \o s, r) = <<c>> \o Append(s, r)
  BY <1>1, AppendIsConcat, ConcatAssociative, <1>2
<1>6. s # <<>> => <<Head(s)>> \o Tail(s) = s
  <2> SUFFICES ASSUME s # <<>> PROVE <<Head(s)>> \o Tail(s) = s
    OBVIOUS
  <2> DEFINE t == <<Head(s)>> \o Tail(s)
  <2>1. /\ Head(s) \in Request /\ Head(s) = s[1] /\ Len(s) >= 1
        /\ Tail(s) \in Seq(Request) /\ Len(Tail(s)) = Len(s) - 1
        /\ \A i \in 1 .. Len(Tail(s)) : Tail(s)[i] = s[i + 1]
    BY HeadTailProperties
  <2>2. /\ t \in Seq(Request) /\ Len(t) = 1 + Len(Tail(s))
        /\ \A i \in 1 .. 1 + Len(Tail(s)) :
             t[i] = IF i <= 1 THEN <<Head(s)>>[i] ELSE Tail(s)[i - 1]
    <3>1. <<Head(s)>> \in Seq(Request) /\ Len(<<Head(s)>>) = 1
      BY <2>1
    <3> QED
      BY <2>1, <3>1, ConcatProperties
  <2> HIDE DEF t
  <2>3. Len(t) = Len(s)
    BY <2>1, <2>2
  <2>4. ASSUME NEW i \in 1 .. Len(s) PROVE t[i] = s[i]
    <3>1. CASE i = 1
      BY <2>1, <2>2, <3>1
    <3>2. CASE i # 1
      <4>1. i - 1 \in 1 .. Len(Tail(s)) /\ (i - 1) + 1 = i
        BY <2>1, <3>2
      <4>2. t[i] = Tail(s)[i - 1]
        BY <2>1, <2>2, <3>2
      <4> QED
        BY <2>1, <4>1, <4>2
    <3> QED
      BY <3>1, <3>2
  <2>5. t = s
    BY <2>2, <2>3, <2>4, SeqEqual
  <2> QED
    BY <2>5 DEF t
<1>7. <<>> \o s = s
  BY ConcatEmptySeq
<1> QED
  BY <1>2, <1>3, <1>4, <1>5, <1>6, <1>7

\* What a step of one asker shows.
LEMMA AskersStep ==
  ASSUME TypeOK, NEW r \in Request, NEW at, client' = [client EXCEPT ![r] = at]
  PROVE  /\ Askers' = [Askers EXCEPT ![r] = Stage(at)]
         /\ Askers[r] = Stage(client[r])
         /\ Stage(at) = Stage(client[r]) => Askers' = Askers
<1>1. client \in [Request -> ClientValue]
  BY DEF TypeOK
<1>2. \A q \in Request : client'[q] = IF q = r THEN at ELSE client[q]
  BY <1>1
<1>3. Askers' = [q \in Request |-> Stage(client'[q])]
  BY DEF Askers, Stage
<1>4. Askers = [q \in Request |-> Stage(client[q])]
  BY DEF Askers
<1> HIDE DEF Askers
<1>5. Askers' = [Askers EXCEPT ![r] = Stage(at)]
  BY <1>2, <1>3, <1>4
<1>6. Stage(at) = Stage(client[r]) => Askers' = Askers
  BY <1>2, <1>3, <1>4
<1> QED
  BY <1>4, <1>5, <1>6

LEMMA WorkerFrame ==
  ASSUME UNCHANGED <<client, requests, responses, pendingList, current>>,
         workerPc = "idle" <=> workerPc' = "idle"
  PROVE  UNCHANGED <<Askers, Accepted, Mail>>
BY DEF Askers, Accepted, Mail

LEMMA ServiceStarts == Init => RS!Init
<1> SUFFICES ASSUME Init PROVE RS!Init
  OBVIOUS
<1>1. Range(responses) \cup pendingList = {}
  BY DEF Init, Range
<1>2. Accepted = <<>>
  BY DEF Init, Accepted
<1>3. [r \in Request |-> Stage(client[r])] = [r \in Request |-> "idle"]
  BY DEF Init, Stage
<1> QED
  BY <1>1, <1>2, <1>3 DEF RS!Init

\* A caller's step is one of the asker's, or takes a response off the queue for
\* somebody else, or the lock.
LEMMA CallServes ==
  ASSUME IInv, NEW r \in Request, Submit(r) \/ Call(r)
  PROVE  \/ RS!Ask(r) \/ RS!Accept(r) \/ RS!Refuse(r) \/ RS!Collect(r) \/ RS!Leave(r)
         \/ UNCHANGED <<Askers, Accepted, Mail>>
<1> DEFINE a == [q \in Request |-> Stage(client[q])]
<1> DEFINE e == Range(responses) \cup pendingList
<1>0. a = Askers /\ a' = Askers' /\ e = Mail /\ e' = Mail'
  BY DEF Askers, Mail
<1>t. TypeOK /\ DisjointInv
  BY DEF IInv, PlaceInv
<1>q. requests \in Seq(Request) /\ responses \in Seq(Request) /\ Len(requests) \in Nat
  BY <1>t DEF TypeOK
<1>w. UNCHANGED <<workerPc, current>>
  BY CallFrame
<1> HIDE DEF a, e
<1>1. CASE Submit(r)
  <2>1. client' = [client EXCEPT ![r] = "sending"] /\ client[r] = "idle"
        /\ UNCHANGED <<requests, responses, pendingList>>
    BY <1>1 DEF Submit
  <2>2. a' = [a EXCEPT ![r] = "asking"] /\ a[r] = "idle"
    BY <1>0, <1>t, <2>1, AskersStep DEF Stage
  <2>3. Accepted' = Accepted /\ e' = e
    BY <1>w, <2>1 DEF Accepted, e
  <2> QED
    BY <2>2, <2>3 DEF RS!Ask, a, e
<1>2. CASE Enqueue(r)
  <2> DEFINE at == IF r \in SkipResponse THEN "returned" ELSE "locking"
  <2>1. client' = [client EXCEPT ![r] = at] /\ client[r] = "sending"
        /\ Len(requests) < RequestLen /\ requests' = Append(requests, r)
        /\ UNCHANGED <<responses, pendingList>>
    BY <1>2 DEF Enqueue
  <2>2. Stage(at) = (IF r \in SkipResponse THEN "gone" ELSE "waiting")
        /\ Stage(client[r]) = "asking"
    BY <2>1 DEF Stage
  <2> HIDE DEF at
  <2>3. a' = [a EXCEPT ![r] = IF r \in SkipResponse THEN "gone" ELSE "waiting"]
        /\ a[r] = "asking"
    BY <1>0, <1>t, <2>1, <2>2, AskersStep
  <2>4. Accepted' = Append(Accepted, r) /\ Len(Accepted) < RequestLen + 1
    <3>1. CASE workerPc = "idle"
      <4>1. Accepted = requests /\ Accepted' = Append(requests, r)
        BY <1>q, <1>w, <2>1, <3>1, ConcatEmptySeq, AppendProperties DEF Accepted
      <4> QED
        BY <1>q, <2>1, <4>1
    <3>2. CASE workerPc # "idle"
      <4>1. current \in Request
        BY <1>t, <3>2 DEF TypeOK
      <4>2. Accepted = <<current>> \o requests
            /\ Accepted' = <<current>> \o Append(requests, r)
        BY <1>w, <2>1, <3>2 DEF Accepted
      <4>3. /\ Len(<<current>> \o requests) = Len(requests) + 1
            /\ Append(<<current>> \o requests, r) = <<current>> \o Append(requests, r)
        BY <1>q, <4>1, InHand
      <4>4. RequestLen \in Nat
        OBVIOUS
      <4> QED
        BY <1>q, <2>1, <4>2, <4>3, <4>4
    <3> QED
      BY <3>1, <3>2
  <2>5. e' = e
    BY <2>1 DEF e
  <2> QED
    BY <2>3, <2>4, <2>5 DEF RS!Accept, a, e
<1>3. CASE SubmitTimeout(r)
  <2>1. client' = [client EXCEPT ![r] = "refused"] /\ client[r] = "sending"
        /\ UNCHANGED <<requests, responses, pendingList>>
    BY <1>3 DEF SubmitTimeout
  <2>2. a' = [a EXCEPT ![r] = "gone"] /\ a[r] = "asking"
    BY <1>0, <1>t, <2>1, AskersStep DEF Stage
  <2>3. Accepted' = Accepted /\ e' = e
    BY <1>w, <2>1 DEF Accepted, e
  <2> QED
    BY <2>2, <2>3 DEF RS!Refuse, a, e
<1>4. CASE Lock(r)
  <2>1. client' = [client EXCEPT ![r] = IF r \in pendingList THEN "answered" ELSE "waiting"]
        /\ client[r] = "locking" /\ pendingList' = pendingList \ {r}
        /\ UNCHANGED <<requests, responses>>
    BY <1>4 DEF Lock
  <2>2. Accepted' = Accepted
    BY <1>w, <2>1 DEF Accepted
  <2>3. CASE r \in pendingList
    <3>1. a' = [a EXCEPT ![r] = "answered"] /\ a[r] = "waiting"
      BY <1>0, <1>t, <2>1, <2>3, AskersStep DEF Stage
    <3>2. r \notin Range(responses)
      BY <1>t, <2>3 DEF DisjointInv, Sent
    <3>3. r \in e /\ e' = e \ {r}
      BY <2>1, <2>3, <3>2 DEF e
    <3> QED
      BY <2>2, <3>1, <3>3 DEF RS!Collect, a, e
  <2>4. CASE r \notin pendingList
    <3>1. Askers' = Askers
      BY <1>t, <2>1, <2>4, AskersStep DEF Stage
    <3>2. Mail' = Mail
      BY <2>1, <2>4 DEF Mail
    <3> QED
      BY <2>2, <3>1, <3>2
  <2> QED
    BY <2>3, <2>4
<1>5. CASE Receive(r)
  <2>1. client[r] = "waiting" /\ responses # <<>> /\ responses' = Tail(responses)
        /\ UNCHANGED requests
    BY <1>5 DEF Receive
  <2>2. Head(responses) \in Range(responses)
        /\ Range(responses') = Range(responses) \ {Head(responses)}
    BY <1>q, <1>t, <2>1, TailRange DEF DisjointInv
  <2>3. Accepted' = Accepted
    BY <1>w, <2>1 DEF Accepted
  <2>4. CASE Head(responses) = r
    <3>1. client' = [client EXCEPT ![r] = "answered"] /\ UNCHANGED pendingList
      BY <1>5, <2>4 DEF Receive
    <3>2. a' = [a EXCEPT ![r] = "answered"] /\ a[r] = "waiting"
      BY <1>0, <1>t, <2>1, <3>1, AskersStep DEF Stage
    <3>3. r \notin pendingList
      BY <1>t, <2>2, <2>4 DEF DisjointInv, Sent
    <3>4. r \in e /\ e' = e \ {r}
      BY <2>2, <2>4, <3>1, <3>3 DEF e
    <3> QED
      BY <2>3, <3>2, <3>4 DEF RS!Collect, a, e
  <2>5. CASE Head(responses) # r
    <3>1. pendingList' = pendingList \cup {Head(responses)} /\ UNCHANGED client
      BY <1>5, <2>5 DEF Receive
    <3>2. Mail' = Mail
      BY <2>2, <3>1 DEF Mail
    <3> QED
      BY <2>3, <3>1, <3>2 DEF Askers
  <2> QED
    BY <2>4, <2>5
<1>6. CASE ReceiveTimeout(r)
  <2>1. client' = [client EXCEPT ![r] = "gaveUp"] /\ client[r] = "waiting"
        /\ UNCHANGED <<requests, responses, pendingList>>
    BY <1>6 DEF ReceiveTimeout
  <2>2. a' = [a EXCEPT ![r] = "gone"] /\ a[r] = "waiting"
    BY <1>0, <1>t, <2>1, AskersStep DEF Stage
  <2>3. Accepted' = Accepted /\ e' = e
    BY <1>w, <2>1 DEF Accepted, e
  <2> QED
    BY <2>2, <2>3 DEF RS!Leave, a, e
<1> QED
  BY <1>1, <1>2, <1>3, <1>4, <1>5, <1>6 DEF Call

\* The last step of the worker on a request serves it, every other step is hidden.
LEMMA WorkerServes ==
  ASSUME IInv, Worker
  PROVE  RS!Serve \/ UNCHANGED <<Askers, Accepted, Mail>>
<1> DEFINE e == Range(responses) \cup pendingList
<1>t. TypeOK /\ DisjointInv
  BY DEF IInv, PlaceInv
<1>q. requests \in Seq(Request) /\ responses \in Seq(Request)
  BY <1>t DEF TypeOK
<1>1. CASE Dequeue
  <2>1. requests # <<>> /\ current' = Head(requests) /\ requests' = Tail(requests)
        /\ workerPc = "idle" /\ workerPc' = "taken"
        /\ UNCHANGED <<client, responses, pendingList>>
    BY <1>1 DEF Dequeue
  <2>2. Accepted = requests
    BY <1>q, <2>1, ConcatEmptySeq DEF Accepted
  <2>3. Head(requests) \in Request
    BY <1>q, <2>1, HeadTailProperties
  <2>4. Accepted' = <<Head(requests)>> \o Tail(requests)
    BY <2>1 DEF Accepted
  <2>5. Accepted' = Accepted
    BY <1>q, <2>1, <2>2, <2>3, <2>4, InHand
  <2> QED
    BY <2>1, <2>5 DEF Askers, Mail
<1>2. CASE \/ BeginFlight \/ RoundFails \/ RoundOfTools \/ EndFlight
           \/ \E appended \in BOOLEAN : Answer(appended) \/ Trace(appended)
  <2>1. /\ UNCHANGED <<client, requests, responses, pendingList, current>>
        /\ workerPc # "idle" /\ workerPc' # "idle"
    BY <1>2 DEF BeginFlight, RoundFails, RoundOfTools, EndFlight, Answer, Trace
  <2> QED
    BY <2>1, WorkerFrame
<1>3. CASE Discard \/ Respond
  <2>1. /\ workerPc = "respond" /\ workerPc' = "idle"
        /\ UNCHANGED <<client, requests, pendingList>>
    BY <1>3 DEF Discard, Respond, NextPass
  <2>2. current \in Request
    BY <1>t, <2>1 DEF TypeOK
  <2>3. Accepted = <<current>> \o requests /\ Accepted' = requests
    BY <1>q, <2>1, ConcatEmptySeq DEF Accepted
  <2>4. Accepted # <<>> /\ Head(Accepted) = current /\ Accepted' = Tail(Accepted)
    BY <1>q, <2>2, <2>3, InHand
  <2>5. e' = e \cup ({current} \ SkipResponse)
    <3>1. CASE Discard
      BY <3>1 DEF Discard, NextPass
    <3>2. CASE Respond
      <4>1. current \notin SkipResponse /\ responses' = Append(responses, current)
        BY <3>2 DEF Respond
      <4>2. current \notin Range(responses)
        BY <1>t, <2>2 DEF DisjointInv, Working, Sent
      <4>3. Range(responses') = Range(responses) \cup {current}
        BY <1>t, <1>q, <2>2, <4>1, <4>2, AppendRange DEF DisjointInv
      <4> QED
        BY <2>1, <4>1, <4>3
    <3> QED
      BY <1>3, <3>1, <3>2
  <2> QED
    BY <2>1, <2>4, <2>5 DEF RS!Serve
<1> QED
  BY <1>1, <1>2, <1>3 DEF Worker

LEMMA ServiceStep == IInv /\ [Next]_vars => [RS!Next]_(RS!vars)
<1> SUFFICES ASSUME IInv, [Next]_vars PROVE RS!Next \/ UNCHANGED <<Askers, Accepted, Mail>>
  BY DEF RS!vars, Askers, Mail
<1>1. ASSUME NEW r \in Request, Submit(r) \/ Call(r)
      PROVE  RS!Next \/ UNCHANGED <<Askers, Accepted, Mail>>
  BY <1>1, CallServes DEF RS!Next
<1>2. ASSUME NEW S, Cancel(S) PROVE UNCHANGED <<Askers, Accepted, Mail>>
  BY <1>2 DEF Cancel, Askers, Accepted, Mail
<1>3. CASE Worker
  BY <1>3, WorkerServes DEF RS!Next
<1>4. CASE UNCHANGED vars
  BY <1>4 DEF vars, Askers, Accepted, Mail
<1> QED
  BY <1>1, <1>2, <1>3, <1>4 DEF Next

\* What askers see of submit, receive_for and the worker is a service that
\* answers one request after the other, for any requests, callers and lengths of
\* the two queues (claw_core_submit, claw_core_receive_for, claw_core_task).
THEOREM CoreRefinesService == Spec => ServesInOrder
<1> QED
  BY ServiceStarts, ServiceStep, Invariant, PTL DEF Spec, ServesInOrder, RS!Spec
=============================================================================
