---------------------------- MODULE EventRouter ----------------------------
(***************************************************************************)
(* The event bus of claw_event_router.c: publisher tasks clone an event,   *)
(* record it in a small "pending" table, and send it on a bounded FreeRTOS *)
(* queue (waiting at most one second); one router task receives it, takes  *)
(* its table entry, and either skips it (the entry was cancelled) or runs  *)
(* process_event on it.  cancel_event and purge_queue mark entries of the  *)
(* table, which is their only way to reach an event that is on the queue.  *)
(*                                                                         *)
(* The table is indexed by event_id, and event ids are not unique: they    *)
(* are millisecond timestamps, or constants for the events of the MCP      *)
(* server.  IdOf is therefore an arbitrary function.                       *)
(*                                                                         *)
(* The recursive mutex is held for long only by the router task, while it  *)
(* runs the actions of the matching rules (routerPc = "rules"); every      *)
(* other critical section is one step of the model.                        *)
(***************************************************************************)
EXTENDS Naturals, Sequences, FiniteSets, Functions

CONSTANTS
  Event,           \* the calls of claw_event_router_publish, one value each
  EventId, NoId,   \* event_id strings, and the empty one
  IdOf,            \* the event_id of an event, perhaps empty
  Kind, NoKind,    \* what a purge filter reads: (event_type, source_cap)
  KindOf,
  Emitted,         \* events published by an emit_event action of a rule
  SelfSourced,     \* events whose source_cap is "claw_event_router"
  DefaultToAgent,  \* config.default_route_messages_to_agent
  QueueLen,        \* length of event_queue
  TableSize,       \* CLAW_EVENT_ROUTER_PENDING_TABLE_SIZE
  MaxSenders,      \* bound: tasks that are inside publish at the same time
  NoEvent

ASSUME ConstantsAssumption ==
  /\ IdOf \in [Event -> EventId \cup {NoId}]
  /\ KindOf \in [Event -> Kind]
  /\ NoId \notin EventId /\ NoKind \notin Kind /\ NoEvent \notin Event
  /\ Emitted \subseteq Event /\ SelfSourced \subseteq Event
  /\ DefaultToAgent \in BOOLEAN
  /\ QueueLen \in Nat \ {0} /\ TableSize \in Nat \ {0}
  /\ MaxSenders \in Nat \ {0}
  /\ QueueLen =< TableSize     \* claw_event_router_init refuses the rest

VARIABLES
  pub,       \* how far publish has got with each event
  queue,     \* event_queue
  pending,   \* the pending table
  dropped,   \* pending_dropped: live entries that were evicted
  routerPc,  \* where the router task is
  current,   \* the event it holds
  outcome,   \* what became of each event
  armed,     \* history: events a cancel or purge reported as cancelled
  started,   \* runtime flag
  stopReq    \* stop_requested

vars == <<pub, queue, pending, dropped, routerPc, current, outcome, armed,
          started, stopReq>>
busVars    == <<pub, queue, pending, dropped>>
routerVars == <<routerPc, current, outcome>>
controlVars == <<started, stopReq>>

Slot    == 1 .. TableSize
Entry   == [id : EventId \cup {NoId}, kind : Kind \cup {NoKind},
            cancelled : BOOLEAN]
Cleared == [id |-> NoId, kind |-> NoKind, cancelled |-> FALSE]

IsLowest(s, S) == s \in S /\ \A t \in S : s =< t

-----------------------------------------------------------------------------
\* The pending table.

Free       == {s \in Slot : pending[s].id = NoId}
SlotsOf(i) == IF i = NoId THEN {} ELSE {s \in Slot : pending[s].id = i}
Evictable  == {s \in Slot : ~ pending[s].cancelled}

\* Variant for the checks: a free slot is looked for last.
CandidatesUsedFirst(i) ==
  IF SlotsOf(i) # {} THEN SlotsOf(i)
  ELSE IF Evictable # {} THEN Evictable
  ELSE IF Free # {} THEN Free
  ELSE Slot

\* The slots from which pending_track takes the lowest for id i: one that
\* already has this id, else a free one, else one that is not cancelled
\* (whatever its age), else the first.
Candidates(i) ==
  IF SlotsOf(i) # {} THEN SlotsOf(i)
  ELSE IF Free # {} THEN Free
  ELSE IF Evictable # {} THEN Evictable
  ELSE Slot

\* Variant: an entry that is used again keeps its cancelled flag.
PendingTrackKeepsFlag(e) ==
  IF IdOf[e] = NoId
  THEN UNCHANGED <<pending, dropped>>
  ELSE \E s \in Slot :
         /\ IsLowest(s, Candidates(IdOf[e]))
         /\ pending' = [pending EXCEPT ![s].id = IdOf[e], ![s].kind = KindOf[e]]
         /\ dropped' = IF SlotsOf(IdOf[e]) = {} /\ s \notin Free
                       THEN dropped + 1 ELSE dropped

PendingTrack(e) ==
  IF IdOf[e] = NoId
  THEN UNCHANGED <<pending, dropped>>
  ELSE \E s \in Slot :
         /\ IsLowest(s, Candidates(IdOf[e]))
         /\ pending' = [pending EXCEPT ![s] =
              [id |-> IdOf[e], kind |-> KindOf[e], cancelled |-> FALSE]]
         /\ dropped' = IF SlotsOf(IdOf[e]) = {} /\ s \notin Free
                       THEN dropped + 1 ELSE dropped

\* pending_take_for_event_id: the table it leaves, and the flag it returns.
PendingTake(i) ==
  pending' = [s \in Slot |-> IF IsLowest(s, SlotsOf(i)) THEN Cleared
                             ELSE pending[s]]

\* Variant: the return value says that the id was found, not that it was
\* cancelled.
TakesFound(i) == SlotsOf(i) # {}

TakesCancelled(i) ==
  \E s \in Slot : IsLowest(s, SlotsOf(i)) /\ pending[s].cancelled

\* An event that is in publish, on the queue, or just received.
Live(e) == pub[e] \in {"sending", "expired", "sent"} /\ outcome[e] = "none"

MutexFree == routerPc # "rules"
InPublish == {e \in Event : pub[e] \in {"sending", "expired"}}
Emitting  == InPublish \cap Emitted # {}

-----------------------------------------------------------------------------
\* claw_event_router_publish: track, send, and withdraw on a timeout.  An
\* emit_event action publishes from the router task, which owns the mutex.

MayPublish(e) ==
  \/ e \notin Emitted /\ MutexFree
     /\ Cardinality(InPublish \ Emitted) < MaxSenders
  \/ e \in Emitted /\ routerPc = "rules" /\ ~ Emitting

Publish(e) ==
  /\ pub[e] = "idle"
  /\ MayPublish(e)
  /\ PendingTrack(e)
  /\ pub' = [pub EXCEPT ![e] = "sending"]
  /\ UNCHANGED <<queue, armed>> /\ UNCHANGED routerVars
  /\ UNCHANGED controlVars

Enqueue(e) ==
  /\ pub[e] = "sending"
  /\ Len(queue) < QueueLen
  /\ queue' = Append(queue, e)
  /\ pub' = [pub EXCEPT ![e] = "sent"]
  /\ UNCHANGED <<pending, dropped, armed>> /\ UNCHANGED routerVars
  /\ UNCHANGED controlVars

\* Variant: an emit_event action waits on the queue without a timeout.
SendTimeoutOutsideOnly(e) ==
  /\ pub[e] = "sending" /\ e \notin Emitted
  /\ Len(queue) = QueueLen
  /\ pub' = [pub EXCEPT ![e] = "expired"]
  /\ UNCHANGED <<queue, pending, dropped, armed>> /\ UNCHANGED routerVars
  /\ UNCHANGED controlVars

SendTimeout(e) ==
  /\ pub[e] = "sending"
  /\ Len(queue) = QueueLen
  /\ pub' = [pub EXCEPT ![e] = "expired"]
  /\ UNCHANGED <<queue, pending, dropped, armed>> /\ UNCHANGED routerVars
  /\ UNCHANGED controlVars

\* Variant: a failed send leaves its entry in the table.
WithdrawKeepsEntry(e) ==
  /\ pub[e] = "expired"
  /\ pub' = [pub EXCEPT ![e] = "failed"]
  /\ UNCHANGED <<queue, pending, dropped, armed>> /\ UNCHANGED routerVars
  /\ UNCHANGED controlVars

Withdraw(e) ==
  /\ pub[e] = "expired"
  /\ MutexFree \/ e \in Emitted
  /\ PendingTake(IdOf[e])
  /\ pub' = [pub EXCEPT ![e] = "failed"]
  /\ UNCHANGED <<queue, dropped, armed>> /\ UNCHANGED routerVars
  /\ UNCHANGED controlVars

-----------------------------------------------------------------------------
\* cancel_event(i) that returns ESP_OK, and purge_queue(filter).

\* Variant: cancelling removes the entry instead of flagging it.
MarkRemoves(S) ==
  /\ pending' = [s \in Slot |-> IF s \in S THEN Cleared ELSE pending[s]]
  /\ armed' = armed \cup {e \in Event :
                            Live(e) /\ \E s \in S : pending[s].id = IdOf[e]}
  /\ UNCHANGED <<pub, queue, dropped>> /\ UNCHANGED routerVars
  /\ UNCHANGED controlVars

Mark(S) ==
  /\ pending' = [s \in Slot |->
       IF s \in S THEN [id |-> pending[s].id, kind |-> pending[s].kind,
                       cancelled |-> TRUE]
       ELSE pending[s]]
  /\ armed' = armed \cup {e \in Event :
                            Live(e) /\ \E s \in S : pending[s].id = IdOf[e]}
  /\ UNCHANGED <<pub, queue, dropped>> /\ UNCHANGED routerVars
  /\ UNCHANGED controlVars

CancelEvent(i) ==
  /\ MutexFree
  /\ \E s \in Slot : /\ IsLowest(s, SlotsOf(i))
                     /\ ~ pending[s].cancelled
                     /\ Mark({s})

PurgeQueue(filter) ==
  /\ MutexFree
  /\ Mark({s \in Slot : /\ pending[s].id # NoId
                        /\ ~ pending[s].cancelled
                        /\ pending[s].kind \in filter})

Filter == {Kind} \cup {{k} : k \in Kind}

-----------------------------------------------------------------------------
\* The router task.

RouterLoop ==
  /\ routerPc = "top"
  /\ routerPc' = IF stopReq THEN "exit" ELSE "receive"
  /\ UNCHANGED <<current, outcome, armed>> /\ UNCHANGED busVars
  /\ UNCHANGED controlVars

RouterIdle ==                \* the 250 ms receive timed out
  /\ routerPc = "receive"
  /\ queue = <<>>
  /\ routerPc' = "top"
  /\ UNCHANGED <<current, outcome, armed>> /\ UNCHANGED busVars
  /\ UNCHANGED controlVars

RouterReceive ==
  /\ routerPc = "receive"
  /\ queue # <<>>
  /\ current' = Head(queue)
  /\ queue' = Tail(queue)
  /\ routerPc' = "got"
  /\ UNCHANGED <<pub, pending, dropped, outcome, armed>>
  /\ UNCHANGED controlVars

\* Variant: a skipped event ends the task's loop (break for continue).
RouterTakeBreaks ==
  /\ routerPc = "got"
  /\ PendingTake(IdOf[current])
  /\ IF TakesCancelled(IdOf[current])
     THEN /\ outcome' = [outcome EXCEPT ![current] = "skipped"]
          /\ routerPc' = "exit"
          /\ current' = NoEvent
     ELSE /\ outcome' = [outcome EXCEPT ![current] = "accepted"]
          /\ routerPc' = "process"
          /\ UNCHANGED current
  /\ UNCHANGED <<pub, queue, dropped, armed>> /\ UNCHANGED controlVars

RouterTake ==
  /\ routerPc = "got"
  /\ PendingTake(IdOf[current])
  /\ IF TakesCancelled(IdOf[current])
     THEN /\ outcome' = [outcome EXCEPT ![current] = "skipped"]
          /\ routerPc' = "top"
          /\ current' = NoEvent
     ELSE /\ outcome' = [outcome EXCEPT ![current] = "accepted"]
          /\ routerPc' = "process"
          /\ UNCHANGED current
  /\ UNCHANGED <<pub, queue, dropped, armed>> /\ UNCHANGED controlVars

\* process_event returns at once for events of the router itself.
RouterIgnore ==
  /\ routerPc = "process"
  /\ current \in SelfSourced
  /\ outcome' = [outcome EXCEPT ![current] = "ignored"]
  /\ routerPc' = "top"
  /\ current' = NoEvent
  /\ UNCHANGED armed /\ UNCHANGED busVars /\ UNCHANGED controlVars

RouterEnterRules ==
  /\ routerPc = "process"
  /\ current \notin SelfSourced
  /\ outcome' = [outcome EXCEPT ![current] = "routed"]
  /\ routerPc' = "rules"
  /\ UNCHANGED <<current, armed>> /\ UNCHANGED busVars
  /\ UNCHANGED controlVars

\* No rule matched: the mutex is released before the default agent runs.
RouterLeaveForAgent ==
  /\ routerPc = "rules"
  /\ ~ Emitting
  /\ DefaultToAgent
  /\ routerPc' = "agent"
  /\ UNCHANGED <<current, outcome, armed>> /\ UNCHANGED busVars
  /\ UNCHANGED controlVars

RouterDone ==
  /\ \/ routerPc = "rules" /\ ~ Emitting
     \/ routerPc = "agent"
  /\ routerPc' = "top"
  /\ current' = NoEvent
  /\ UNCHANGED <<outcome, armed>> /\ UNCHANGED busVars
  /\ UNCHANGED controlVars

\* The task's last two writes: task_handle = NULL, then started = false.
RouterClearHandle ==
  /\ routerPc = "exit"
  /\ routerPc' = "exited"
  /\ UNCHANGED <<current, outcome, armed>> /\ UNCHANGED busVars
  /\ UNCHANGED controlVars

RouterExit ==
  /\ routerPc = "exited"
  /\ routerPc' = "off"
  /\ started' = FALSE
  /\ UNCHANGED <<current, outcome, armed, stopReq>> /\ UNCHANGED busVars

\* claw_event_router_start / _stop, called from one controlling task.  When
\* started is already set, start returns ESP_OK and changes nothing.
Start ==
  /\ ~ started
  /\ started' = TRUE
  /\ stopReq' = FALSE
  /\ routerPc' = "top"
  /\ UNCHANGED <<current, outcome, armed>> /\ UNCHANGED busVars

Stop ==
  /\ started
  /\ routerPc \notin {"off", "exited"}     \* task_handle is not NULL
  /\ stopReq' = TRUE
  /\ UNCHANGED <<armed, started>> /\ UNCHANGED busVars
  /\ UNCHANGED routerVars

-----------------------------------------------------------------------------
Init ==
  /\ pub = [e \in Event |-> "idle"]
  /\ queue = <<>>
  /\ pending = [s \in Slot |-> Cleared]
  /\ dropped = 0
  /\ routerPc = "off"
  /\ current = NoEvent
  /\ outcome = [e \in Event |-> "none"]
  /\ armed = {}
  /\ started = FALSE
  /\ stopReq = FALSE

Router ==
  \/ RouterLoop \/ RouterIdle \/ RouterReceive \/ RouterTake
  \/ RouterIgnore \/ RouterEnterRules \/ RouterLeaveForAgent \/ RouterDone
  \/ RouterClearHandle \/ RouterExit

Next ==
  \/ \E e \in Event : Publish(e) \/ Enqueue(e) \/ SendTimeout(e) \/ Withdraw(e)
  \/ \E i \in EventId : CancelEvent(i)
  \/ \E filter \in Filter : PurgeQueue(filter)
  \/ Router
  \/ Start
  \/ Stop

Spec == Init /\ [][Next]_vars

\* The router task is scheduled, the actions of a rule return, and a blocked
\* send ends (a place on the queue, or the one-second timeout) and then gets
\* the mutex.  Publishing, cancelling, starting and stopping are up to the
\* callers and have no fairness.
Fairness ==
  /\ WF_vars(Router)
  /\ \A e \in Event :
       WF_vars(Enqueue(e) \/ SendTimeout(e)) /\ WF_vars(Withdraw(e))

FairSpec == Spec /\ Fairness

-----------------------------------------------------------------------------
PcValue == {"off", "top", "receive", "got", "process", "rules", "agent",
            "exit", "exited"}
PubValue == {"idle", "sending", "sent", "expired", "failed"}
OutcomeValue == {"none", "skipped", "accepted", "ignored", "routed"}

\* The types of the variables; the queue never exceeds its length, the router
\* holds an event exactly between receiving it and being done with it, and the
\* router task exists exactly while the runtime is marked started.
TypeOK ==
  /\ pub \in [Event -> PubValue]
  /\ queue \in Seq(Event) /\ Len(queue) =< QueueLen
  /\ pending \in [Slot -> Entry]
  /\ dropped \in Nat
  /\ routerPc \in PcValue
  /\ current \in Event \cup {NoEvent}
  /\ routerPc \in {"got", "process", "rules", "agent"} <=> current # NoEvent
  /\ outcome \in [Event -> OutcomeValue]
  /\ armed \subseteq Event
  /\ started \in BOOLEAN /\ stopReq \in BOOLEAN
  /\ started <=> routerPc # "off"

UniqueIds == \A e, f \in Event : IdOf[e] = IdOf[f] => e = f \/ IdOf[e] = NoId

\* An event is skipped only if a cancel or a purge, made while that very
\* event was outstanding, reported that it would be: even when several
\* events share an id, entries are reused, evicted or withdrawn.
NoSpuriousSkip == \A e \in Event : outcome[e] = "skipped" => e \in armed

\* A used entry always belongs to an event that is still outstanding: no
\* path (timeout, skip, duplicate id) leaves an entry behind that a later
\* event with the same id would meet, or that fills the table for good.
NoStaleEntry ==
  \A s \in Slot : pending[s].id # NoId =>
    \E e \in Event : Live(e) /\ IdOf[e] = pending[s].id

\* Provided ids are unique and no live entry was ever evicted, an event for
\* which cancel_event or purge_queue reported success is not processed.
CancelHonoured ==
  UniqueIds /\ dropped = 0 =>
    \A e \in armed : outcome[e] \notin {"accepted", "ignored", "routed"}

\* An event whose publisher was told ESP_ERR_TIMEOUT is never processed, and
\* one that is on the queue is there once and has not been dealt with.
ProcessedOnce ==
  /\ \A e \in Event : pub[e] = "failed" => outcome[e] = "none"
  /\ \A i, j \in DOMAIN queue : queue[i] = queue[j] => i = j
  /\ \A e \in Range(queue) : outcome[e] = "none" /\ e # current

\* The ids under which an event is outstanding.
LiveIds == {IdOf[e] : e \in {f \in Event : Live(f)}} \ {NoId}

\* An entry is evicted only when the other outstanding ids alone fill the
\* table: no timeout, skip, cancel or shared id ever costs it a slot, so the
\* publishers that the queue keeps waiting are the only ones to overflow it.
EvictsWhenCrowded ==
  [][dropped' # dropped =>
       \E ids \in SUBSET LiveIds : Cardinality(ids) = TableSize]_vars

\* publish returns, whatever the router is doing.
PublishReturns ==
  \A e \in Event : pub[e] = "sending" ~> pub[e] \in {"sent", "failed"}

\* While the router is started, a sent event is skipped or processed, unless
\* somebody asks the router to stop.
SentIsSettled ==
  \A e \in Event :
    pub[e] = "sent" /\ started ~> outcome[e] # "none" \/ stopReq

-----------------------------------------------------------------------------
\* What a caller sees: a queue of cancellable events.
InStatus(e) ==
  CASE pub[e] = "idle"                 -> "new"
    [] pub[e] = "failed"               -> "refused"
    [] outcome[e] = "skipped"          -> "skipped"
    [] pub[e] \in {"sending", "expired", "sent"} /\ outcome[e] = "none"
                                       -> "open"
    [] OTHER                           -> "processed"

CQ == INSTANCE CancellableQueue
        WITH status <- [e \in Event |-> InStatus(e)], promised <- armed

\* The bus implements the cancellable queue (ids unique, table long enough).
Refinement == CQ!Spec
=============================================================================
