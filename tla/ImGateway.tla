----------------------------- MODULE ImGateway -----------------------------
(***************************************************************************)
(* The gateways of three messengers: cap_im_tg.c polls, cap_im_qq.c and    *)
(* cap_im_feishu.c hold a websocket.  Each has a main task (poll_task,     *)
(* ws_task), a worker (attachment_task, inbound_task) behind a short queue *)
(* that drops what does not fit, a flag stop_requested, and a start and a  *)
(* stop that the capability registry and the console call one at a time.   *)
(*                                                                         *)
(* Telegram and Feishu publish texts from the task that receives them and  *)
(* give files to the worker; QQ gives every frame to its worker.  A ring   *)
(* of recent ids suppresses duplicates before anything is published.  It is *)
(* used by one task, but by two when QQ is started while an old worker is  *)
(* alive: then the search, the write of the id and the step of the index   *)
(* interleave, and a step of the index may be lost.                        *)
(* Left out: what messages say, sending, tokens, downloads beyond their    *)
(* being slow, and the control frames of the websockets.                   *)
(***************************************************************************)
EXTENDS Naturals, Sequences, FiniteSets, SequencesExt

CONSTANTS
  Text, Attached, \* inbound messages, numbers in the order they are sent
  Notice,         \* Telegram updates without "message", in the same order
  InboundLen,     \* length of the queue of the worker
  Recent,         \* size of the ring of recent ids
  Slots,          \* bound on the workers alive at the same time
  MaxAdmin,       \* bound on the starts and stops
  MaxForgotten    \* bound on how often the ring forgets an id

ASSUME GatewayAssumption ==
  /\ Text \cup Attached \cup Notice \subseteq Nat \ {0}
  /\ InboundLen \in Nat \ {0} /\ Recent \in Nat \ {0}
  /\ Slots \in Nat \ {0} /\ {MaxAdmin, MaxForgotten} \subseteq Nat

Message == Text \cup Attached
Update == Message \cup Notice
Worker == 1..Slots
NoWorker == 0
NoMessage == 0
NotAlive == [at |-> "none", job |-> NoMessage]

VARIABLES
  platform,   \* which gateway this is
  main,       \* the main task; "none" when its handle is NULL
  worker,     \* each worker
  handle,     \* the worker the handle names
  stopReq,    \* stop_requested
  hasQueue, inbound, \* the queue of the worker
  gwAdmin,    \* where start or stop is
  adminLeft,  \* what MaxAdmin leaves
  nextUpdate, \* next_update_id
  batch,      \* the updates of the poll that are still to be handled
  seen,       \* seen_msg_keys, the ring of recent ids
  seenIdx,    \* seen_msg_idx, the place of the ring that is written next
  published,  \* how often each message was handed to the event router
  forgotten,  \* history: how often the ring has forgotten each message
  raced,      \* history: messages two workers found unseen at the same time
  tooLate,    \* history: messages waiting in the queue that came when no worker
              \* was going to look at it again
  overlapped  \* history: the last start of Telegram or QQ found a worker alive

taskVars == <<main, worker, handle, stopReq, hasQueue, overlapped>>
ringVars == <<seen, seenIdx, forgotten, raced>>
mailVars == <<inbound, nextUpdate, batch, ringVars, published, tooLate>>
gatewayVars == <<platform, taskVars, mailVars, gwAdmin, adminLeft>>

GatewayInit ==
  /\ platform \in {"telegram", "qq", "feishu"}
  /\ main = "none" /\ worker = [w \in Worker |-> NotAlive]
  /\ handle = NoWorker /\ stopReq = FALSE
  /\ hasQueue = FALSE /\ inbound = <<>>
  /\ gwAdmin = "idle" /\ adminLeft = MaxAdmin
  /\ nextUpdate = 0 /\ batch = {}
  /\ seen = [n \in 1..Recent |-> NoMessage] /\ seenIdx = 1 /\ raced = {}
  /\ published = [m \in Message |-> 0] /\ forgotten = [m \in Message |-> 0]
  /\ tooLate = {} /\ overlapped = FALSE

Alive == {w \in Worker : worker[w] # NotAlive}
WorkerTo(w, at, job) == worker' = [worker EXCEPT ![w] = [at |-> at, job |-> job]]

-----------------------------------------------------------------------------
(* Start and stop. *)

Admin == gwAdmin = "idle" /\ adminLeft > 0 /\ adminLeft' = adminLeft - 1

\* A main task that has not ended yet, even one told to stop, is a gateway
\* that runs: start returns ESP_OK.
StartNothing ==
  /\ Admin /\ main # "none"
  /\ UNCHANGED <<platform, taskVars, mailVars, gwAdmin>>

\* Telegram and QQ create a worker whether or not an old one is still alive;
\* Feishu only without a handle.  A new worker looks at what waits.
NewWorker ==
  IF platform = "feishu" /\ handle # NoWorker
  THEN UNCHANGED <<worker, handle, tooLate>>
  ELSE \E w \in Worker \ Alive :
         WorkerTo(w, "idle", NoMessage) /\ handle' = w /\ tooLate' = {}

DropQueue == hasQueue' = FALSE /\ inbound' = <<>>

Starting ==
  /\ Admin /\ main = "none"
  /\ overlapped' = (platform # "feishu" /\ Alive # {})
  /\ UNCHANGED <<platform, nextUpdate, batch, ringVars, published>>

\* Telegram and QQ take back an earlier stop before they create anything.
Start ==
  /\ Starting /\ platform # "feishu"
  /\ NewWorker
  /\ hasQueue' = TRUE
  /\ main' = "loop" /\ stopReq' = FALSE
  /\ UNCHANGED <<inbound, gwAdmin>>

\* The worker cannot be created: the queue goes.
StartWithoutWorker ==
  /\ Starting
  /\ platform = "feishu" => handle = NoWorker
  /\ DropQueue
  /\ handle' = NoWorker
  /\ stopReq' = (stopReq /\ platform = "feishu")
  /\ UNCHANGED <<main, worker, tooLate, gwAdmin>>

\* The main task of Telegram or QQ cannot be created: the worker is told to
\* stop and waited for.
StartWithoutMain ==
  /\ Starting /\ platform # "feishu"
  /\ NewWorker
  /\ hasQueue' = TRUE /\ stopReq' = TRUE
  /\ gwAdmin' = "undo"
  /\ UNCHANGED <<main, inbound>>

\* Feishu takes back an earlier stop only when its worker runs: one that finds
\* the queue empty before that ends.
FeishuStart ==
  /\ Starting /\ platform = "feishu"
  /\ NewWorker
  /\ hasQueue' = TRUE
  /\ gwAdmin' = "start"
  /\ UNCHANGED <<main, stopReq, inbound>>

FeishuStartsMain ==
  /\ gwAdmin = "start"
  /\ main' = "loop" /\ stopReq' = FALSE
  /\ gwAdmin' = "idle"
  /\ UNCHANGED <<platform, worker, handle, hasQueue, overlapped, mailVars, adminLeft>>

\* The main task cannot be created: the worker and the queue are deleted at once.
FeishuStartFails ==
  /\ gwAdmin = "start"
  /\ worker' = [w \in Worker |-> IF w = handle THEN NotAlive ELSE worker[w]]
  /\ handle' = NoWorker /\ stopReq' = FALSE
  /\ DropQueue
  /\ gwAdmin' = "idle"
  /\ UNCHANGED <<platform, main, overlapped, nextUpdate, batch, ringVars, published,
                 tooLate, adminLeft>>

StartUndone ==
  /\ gwAdmin = "undo" /\ handle = NoWorker
  /\ DropQueue
  /\ gwAdmin' = "idle"
  /\ UNCHANGED <<platform, main, worker, handle, stopReq, overlapped,
                 nextUpdate, batch, ringVars, published, tooLate, adminLeft>>

\* Nothing to stop: Telegram and QQ look at the main task only, and QQ then
\* forgets its worker and that it was told to stop.
StopNothing ==
  /\ Admin /\ main = "none"
  /\ platform = "feishu" => handle = NoWorker
  /\ IF platform = "qq" THEN handle' = NoWorker /\ stopReq' = FALSE
                        ELSE UNCHANGED <<handle, stopReq>>
  /\ UNCHANGED <<platform, main, worker, hasQueue, overlapped, mailVars, gwAdmin>>

StopBegin ==
  /\ Admin
  /\ main # "none" \/ (platform = "feishu" /\ handle # NoWorker)
  /\ stopReq' = TRUE
  /\ gwAdmin' = "stop"
  /\ UNCHANGED <<platform, main, worker, handle, hasQueue, overlapped, mailVars>>

\* The deadline of 5 or 10 seconds: a long poll alone takes 20.
StopTimeout ==
  /\ gwAdmin = "stop"
  /\ main # "none" \/ handle # NoWorker
  /\ gwAdmin' = "idle"
  /\ UNCHANGED <<platform, taskVars, mailVars, adminLeft>>

\* Variant: only the main task is waited for.
StopDoneEarly == gwAdmin = "stop" /\ main = "none"

StopDone == gwAdmin = "stop" /\ main = "none" /\ handle = NoWorker

StopEnd ==
  /\ StopDone
  /\ DropQueue
  /\ stopReq' = (stopReq /\ platform # "qq")
  /\ gwAdmin' = "idle"
  /\ UNCHANGED <<platform, main, worker, handle, overlapped,
                 nextUpdate, batch, ringVars, published, tooLate, adminLeft>>

-----------------------------------------------------------------------------
(* The main task: looks at stop_requested, connects or polls, and again. *)

MainTo(at) == main' = at /\ UNCHANGED <<platform, worker, handle, stopReq, hasQueue, overlapped>>

MainEnd ==
  /\ main = "loop" /\ stopReq
  /\ MainTo("none")
  /\ UNCHANGED <<mailVars, gwAdmin, adminLeft>>

\* A websocket: the URL is fetched before the flag is looked at again.
MainConnect ==
  /\ main = "loop" /\ ~ stopReq /\ platform # "telegram"
  /\ MainTo("connecting")
  /\ UNCHANGED <<mailVars, gwAdmin, adminLeft>>

MainConnected ==
  /\ main = "connecting"
  /\ MainTo("connected") \/ MainTo("loop")
  /\ UNCHANGED <<mailVars, gwAdmin, adminLeft>>

\* The connection is lost, given up or stopped, and its client destroyed.
MainDisconnect ==
  /\ main = "connected"
  /\ MainTo("loop")
  /\ UNCHANGED <<mailVars, gwAdmin, adminLeft>>

\* getUpdates: some of the updates from next_update_id on, in their order.
MainPoll ==
  /\ main = "loop" /\ ~ stopReq /\ platform = "telegram"
  /\ \E last \in Update :
       /\ last >= nextUpdate
       /\ batch' = Update \cap nextUpdate..last
  /\ MainTo("polled")
  /\ UNCHANGED <<inbound, nextUpdate, ringVars, published, tooLate, gwAdmin, adminLeft>>

-----------------------------------------------------------------------------
(* Messages. *)

\* Variant: the ring of recent ids is searched but never written.
WriteNothing(m) == UNCHANGED <<seen, forgotten>>

\* The newest id takes the place of the oldest.
WriteKey(m) ==
  LET old == seen[seenIdx]
  IN  /\ seen' = [seen EXCEPT ![seenIdx] = m]
      /\ IF old \in {NoMessage, m} THEN UNCHANGED forgotten
         ELSE /\ forgotten[old] < MaxForgotten
              /\ forgotten' = [forgotten EXCEPT ![old] = @ + 1]

NextIdx == (seenIdx % Recent) + 1

Record(m) == WriteKey(m) /\ seenIdx' = NextIdx /\ UNCHANGED raced

Duplicate(m) == m \in Range(seen)

Publish(m) == published' = [published EXCEPT ![m] = @ + 1]

\* No worker looks at the queue again before it looks at the flag.
Unattended == \A w \in Worker : worker[w].at \in {"none", "looked", "leaving"}

\* Without room, or without a queue, the message is dropped.
Enqueue(m) ==
  IF hasQueue /\ Len(inbound) < InboundLen
  THEN /\ inbound' = Append(inbound, m)
       /\ tooLate' = IF Unattended THEN tooLate \cup {m} ELSE tooLate
  ELSE UNCHANGED <<inbound, tooLate>>

\* Handled in the task that received it: publish a text, give a file to the
\* worker.  The publication may fail; the id is recorded all the same.
HandleHere(m) ==
  \/ Duplicate(m) /\ UNCHANGED <<ringVars, published, inbound, tooLate>>
  \/ /\ ~ Duplicate(m) /\ Record(m)
     /\ \/ m \in Attached /\ Enqueue(m) /\ UNCHANGED published
        \/ m \in Text /\ (Publish(m) \/ UNCHANGED published)
           /\ UNCHANGED <<inbound, tooLate>>

\* handle_update: an update that is no message is passed over before
\* next_update_id moves, so that the next poll returns it again.
HandleUpdate ==
  /\ main = "polled"
  /\ \E u \in batch :
       /\ \A other \in batch : u <= other
       /\ batch' = batch \ {u}
       /\ IF u \in Notice THEN UNCHANGED <<nextUpdate, ringVars, published, inbound, tooLate>>
          ELSE /\ nextUpdate' = IF u >= nextUpdate THEN u + 1 ELSE nextUpdate
               /\ HandleHere(u)
  /\ UNCHANGED <<platform, taskVars, gwAdmin, adminLeft>>

PollEnd ==
  /\ main = "polled" /\ batch = {}
  /\ MainTo("loop")
  /\ UNCHANGED <<mailVars, gwAdmin, adminLeft>>

\* A frame of the websocket, in the task of its client; it may come again
\* when its acknowledgement was lost.
Receive(m) ==
  /\ main = "connected"
  /\ \/ platform = "qq" /\ Enqueue(m) /\ UNCHANGED <<ringVars, published>>
     \/ platform = "feishu" /\ HandleHere(m)
  /\ UNCHANGED <<platform, taskVars, nextUpdate, batch, gwAdmin, adminLeft>>

-----------------------------------------------------------------------------
(* The worker. *)

WorkerTake(w) ==
  /\ worker[w].at = "idle" /\ hasQueue /\ inbound # <<>>
  /\ WorkerTo(w, "busy", Head(inbound))
  /\ inbound' = Tail(inbound)
  /\ UNCHANGED <<platform, main, handle, stopReq, hasQueue, overlapped,
                 nextUpdate, batch, ringVars, published, tooLate, gwAdmin, adminLeft>>

\* QQ: a frame is handled only now.  The ring is searched first.
WorkerCheck(w) ==
  /\ worker[w].at = "busy" /\ platform = "qq"
  /\ LET m == worker[w].job
     IN  IF Duplicate(m) THEN WorkerTo(w, "idle", NoMessage) /\ UNCHANGED raced
         ELSE /\ WorkerTo(w, "checked", m)
              /\ raced' = IF \E other \in Worker : worker[other] = [at |-> "checked", job |-> m]
                          THEN raced \cup {m} ELSE raced
  /\ UNCHANGED <<platform, main, handle, stopReq, hasQueue, overlapped, inbound, nextUpdate,
                 batch, seen, seenIdx, forgotten, published, tooLate, gwAdmin, adminLeft>>

WorkerWrite(w) ==
  /\ worker[w].at = "checked"
  /\ WorkerTo(w, "written", worker[w].job)
  /\ WriteKey(worker[w].job)
  /\ UNCHANGED <<platform, main, handle, stopReq, hasQueue, overlapped, inbound, nextUpdate,
                 batch, seenIdx, raced, published, tooLate, gwAdmin, adminLeft>>

\* A read, an addition and a write: lost when another worker does the same.
WorkerAdvance(w) ==
  /\ worker[w].at = "written"
  /\ WorkerTo(w, "recorded", worker[w].job)
  /\ \/ seenIdx' = NextIdx
     \/ (\E other \in Worker \ {w} : worker[other].at = "written") /\ UNCHANGED seenIdx
  /\ UNCHANGED <<platform, main, handle, stopReq, hasQueue, overlapped, inbound, nextUpdate,
                 batch, seen, forgotten, raced, published, tooLate, gwAdmin, adminLeft>>

\* The files are downloaded, which is slow, and the message is published, which
\* may fail.
WorkerDone(w) ==
  /\ worker[w].at = IF platform = "qq" THEN "recorded" ELSE "busy"
  /\ WorkerTo(w, "idle", NoMessage)
  /\ Publish(worker[w].job) \/ UNCHANGED published
  /\ UNCHANGED <<platform, main, handle, stopReq, hasQueue, overlapped,
                 inbound, nextUpdate, batch, ringVars, tooLate, gwAdmin, adminLeft>>

\* Variant: the flag is looked at before the queue.
WorkerLeaveAtOnce(w) ==
  /\ worker[w].at = "idle" /\ stopReq
  /\ WorkerTo(w, "leaving", NoMessage)
  /\ UNCHANGED <<platform, main, handle, stopReq, hasQueue, overlapped, mailVars, gwAdmin, adminLeft>>

\* Nothing for 200 ms: the flag is looked at next.
WorkerLook(w) ==
  /\ worker[w].at = "idle" /\ hasQueue /\ inbound = <<>>
  /\ WorkerTo(w, "looked", NoMessage)
  /\ UNCHANGED <<platform, main, handle, stopReq, hasQueue, overlapped, mailVars, gwAdmin, adminLeft>>

\* Told to stop it leaves; otherwise it looks at the queue again.
WorkerLeave(w) ==
  /\ worker[w].at = "looked"
  /\ WorkerTo(w, IF stopReq THEN "leaving" ELSE "idle", NoMessage)
  /\ tooLate' = IF stopReq THEN tooLate ELSE {}
  /\ UNCHANGED <<platform, main, handle, stopReq, hasQueue, overlapped, inbound, nextUpdate,
                 batch, ringVars, published, gwAdmin, adminLeft>>

\* The worker clears the handle, whichever worker it names by now.
WorkerGone(w) ==
  /\ worker[w].at = "leaving"
  /\ worker' = [worker EXCEPT ![w] = NotAlive]
  /\ handle' = NoWorker
  /\ UNCHANGED <<platform, main, stopReq, hasQueue, overlapped, mailVars, gwAdmin, adminLeft>>

-----------------------------------------------------------------------------
MainTask ==
  \/ MainEnd \/ MainConnect \/ MainConnected \/ MainDisconnect
  \/ MainPoll \/ HandleUpdate \/ PollEnd
WorkerStep(w) ==
  \/ WorkerTake(w) \/ WorkerCheck(w) \/ WorkerWrite(w) \/ WorkerAdvance(w)
  \/ WorkerDone(w) \/ WorkerLook(w) \/ WorkerLeave(w) \/ WorkerGone(w)

GatewayNext ==
  \/ StartNothing \/ Start \/ StartWithoutWorker \/ StartWithoutMain \/ StartUndone
  \/ FeishuStart \/ FeishuStartsMain \/ FeishuStartFails
  \/ StopNothing \/ StopBegin \/ StopTimeout \/ StopEnd
  \/ MainTask
  \/ \E m \in Message : Receive(m)
  \/ \E w \in Worker : WorkerStep(w)

GatewaySpec == GatewayInit /\ [][GatewayNext]_gatewayVars

WorkerPlaces ==
  {"none", "idle", "busy", "checked", "written", "recorded", "looked", "leaving"}

GatewayTypeOK ==
  /\ main \in {"none", "loop", "connecting", "connected", "polled"}
  /\ worker \in [Worker -> [at : WorkerPlaces, job : Message \cup {NoMessage}]]
  /\ handle \in Worker \cup {NoWorker}
  /\ stopReq \in BOOLEAN /\ hasQueue \in BOOLEAN
  /\ Len(inbound) <= InboundLen
  /\ seen \in [1..Recent -> Message \cup {NoMessage}] /\ seenIdx \in 1..Recent
  /\ gwAdmin \in {"idle", "start", "undo", "stop"}

-----------------------------------------------------------------------------
(* Properties. *)

\* The queue is not deleted under a worker that waits on it or will come back
\* to it.  Feishu keeps this always, Telegram and QQ unless their last start
\* found an old worker alive: then nothing says which of the two the handle
\* names, and a stop may delete the queue of the other.
QueueOutlivesWorker ==
  (~ hasQueue /\ ~ overlapped) => \A w \in Worker : worker[w].at \in {"none", "leaving"}

\* A message reaches the event router at most once, however often a poll or a
\* websocket delivers it and however often the gateway is restarted, and once
\* more only after its id was written over in the ring.  The one exception is a
\* message that two workers of QQ found unseen at the same time, which takes a
\* restart that found the old worker alive and a repetition of the message.
PublishedOnce == \A m \in Message \ raced : published[m] <= 1 + forgotten[m]

\* A stop loses nothing that was accepted before it: the worker leaves only
\* when it found its queue empty and the queue is deleted only when it has left,
\* so that what waits in the queue is taken by a worker.  What is lost came when
\* no worker was going to look again: between its last look at the queue and at
\* the flag, or when there was none.  Two cases lose more: in Telegram and QQ a
\* start that found an old worker alive (the queue may go under one of the two),
\* in Feishu a start that cannot create its main task, which deletes its worker
\* and its queue.
StopLosesNothing ==
  [][\A m \in Range(inbound) \ Range(inbound') :
       \/ \E w \in Worker : worker'[w] = [at |-> "busy", job |-> m]
       \/ m \in tooLate \/ overlapped' \/ gwAdmin = "start"]_gatewayVars
=============================================================================
