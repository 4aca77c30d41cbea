-------------------------- MODULE EventRouterProofs -------------------------
(***************************************************************************)
(* Safety of the event bus, proved for every set of events, every          *)
(* assignment of ids, and every length of the queue and of the table.      *)
(*                                                                         *)
(* TypeOK is inductive.  The other invariants follow from IInv, which says *)
(* of the pending table what its code relies on and never checks: no two   *)
(* slots have the same id, an entry never outlives the events with its id, *)
(* and a set cancelled flag was reported for all of them.                  *)
(***************************************************************************)
EXTENDS EventRouter, FiniteSetTheorems, TLAPS

USE ConstantsAssumption

-----------------------------------------------------------------------------
\* The table operations, independent of the steps that use them.

\* pending_track leaves a table of the right type.
LEMMA TrackType ==
  ASSUME pending \in [Slot -> Entry], dropped \in Nat,
         NEW e \in Event, PendingTrack(e)
  PROVE  pending' \in [Slot -> Entry] /\ dropped' \in Nat
<1>1. CASE IdOf[e] = NoId BY <1>1 DEF PendingTrack
<1>2. CASE IdOf[e] # NoId
  <2>1. PICK s \in Slot :
          pending' = [pending EXCEPT ![s] =
            [id |-> IdOf[e], kind |-> KindOf[e], cancelled |-> FALSE]]
    BY <1>2 DEF PendingTrack
  <2>2. [id |-> IdOf[e], kind |-> KindOf[e], cancelled |-> FALSE] \in Entry
    BY <1>2 DEF Entry
  <2>3. pending' \in [Slot -> Entry] BY <2>1, <2>2
  <2>4. dropped' \in Nat BY <1>2 DEF PendingTrack
  <2> QED BY <2>3, <2>4
<1> QED BY <1>1, <1>2

\* pending_take leaves a table of the right type.
LEMMA TakeType ==
  ASSUME pending \in [Slot -> Entry], NEW i, PendingTake(i)
  PROVE  pending' \in [Slot -> Entry]
  BY DEF PendingTake, Entry, Cleared

-----------------------------------------------------------------------------
\* Every reachable state is of the right type, the queue never exceeds its
\* length, and the router holds an event exactly from receive to done.
THEOREM TypeCorrect == Spec => []TypeOK
<1>1. Init => TypeOK
  <2> SUFFICES ASSUME Init PROVE TypeOK
    OBVIOUS
  <2>1. queue \in Seq(Event) /\ Len(queue) =< QueueLen
    BY DEF Init
  <2>2. pending \in [Slot -> Entry]
    BY DEF Init, Entry, Cleared
  <2> QED
    BY <2>1, <2>2 DEF Init, TypeOK, PubValue, OutcomeValue, PcValue
<1>2. TypeOK /\ [Next]_vars => TypeOK'
  <2> SUFFICES ASSUME TypeOK, [Next]_vars PROVE TypeOK'
    OBVIOUS
  <2> USE DEF TypeOK, PubValue, OutcomeValue, PcValue, busVars, routerVars,
              controlVars
  <2>1. ASSUME NEW e \in Event, Publish(e) PROVE TypeOK'
    <3>1. pending' \in [Slot -> Entry] /\ dropped' \in Nat
      BY <2>1, TrackType DEF Publish
    <3> QED BY <2>1, <3>1 DEF Publish
  <2>2. ASSUME NEW e \in Event, Enqueue(e) PROVE TypeOK'
    <3>1. queue' \in Seq(Event) /\ Len(queue') = Len(queue) + 1
      BY <2>2 DEF Enqueue
    <3> QED BY <2>2, <3>1 DEF Enqueue
  <2>3. ASSUME NEW e \in Event, SendTimeout(e) PROVE TypeOK'
    BY <2>3 DEF SendTimeout
  <2>4. ASSUME NEW e \in Event, Withdraw(e) PROVE TypeOK'
    <3>1. pending' \in [Slot -> Entry]
      BY <2>4, TakeType DEF Withdraw
    <3> QED BY <2>4, <3>1 DEF Withdraw
  <2>5. ASSUME NEW S, Mark(S) PROVE TypeOK'
    <3>1. pending' \in [Slot -> Entry] /\ armed' \subseteq Event
      BY <2>5 DEF Mark, Entry
    <3> QED BY <2>5, <3>1 DEF Mark
  <2>6. ASSUME RouterReceive PROVE TypeOK'
    <3>1. /\ Head(queue) \in Event /\ Tail(queue) \in Seq(Event)
          /\ Len(Tail(queue)) = Len(queue) - 1
      BY <2>6 DEF RouterReceive
    <3> QED BY <2>6, <3>1 DEF RouterReceive
  <2>7. ASSUME RouterTake PROVE TypeOK'
    <3>1. pending' \in [Slot -> Entry]
      BY <2>7, TakeType DEF RouterTake
    <3> QED BY <2>7, <3>1 DEF RouterTake
  <2>8. CASE RouterIgnore BY <2>8 DEF RouterIgnore
  <2>9. CASE RouterLoop \/ RouterIdle BY <2>9 DEF RouterLoop, RouterIdle
  <2>10. CASE RouterEnterRules BY <2>10 DEF RouterEnterRules
  <2>11. CASE RouterLeaveForAgent \/ RouterDone
    BY <2>11 DEF RouterLeaveForAgent, RouterDone
  <2>12. CASE RouterClearHandle \/ RouterExit
    BY <2>12 DEF RouterClearHandle, RouterExit
  <2>13. CASE Stop BY <2>13 DEF Stop
  <2>14. CASE Start BY <2>14 DEF Start
  <2>15. CASE UNCHANGED vars BY <2>15 DEF vars
  <2> QED
    BY <2>1, <2>2, <2>3, <2>4, <2>5, <2>6, <2>7, <2>8, <2>9, <2>10, <2>11,
       <2>12, <2>13, <2>14, <2>15
       DEF Next, Router, CancelEvent, PurgeQueue
<1> QED BY <1>1, <1>2, PTL DEF Spec

-----------------------------------------------------------------------------
\* The inductive invariant.

Distinct ==                  \* an id occupies one slot
  \A s, t \in Slot :
    pending[s].id # NoId /\ pending[s].id = pending[t].id => s = t

CancelledArmed ==            \* a set flag was reported for its events
  \A s \in Slot, e \in Event :
    /\ pending[s].id # NoId /\ pending[s].cancelled
    /\ Live(e) /\ IdOf[e] = pending[s].id
    => e \in armed

TableInv == Distinct /\ NoStaleEntry /\ CancelledArmed

Unsettled ==                 \* only a sent event has an outcome
  \A e \in Event : pub[e] # "sent" => outcome[e] = "none"

QueueInv ==                  \* the queue holds sent events, each once
  /\ \A i \in 1 .. Len(queue) : /\ pub[queue[i]] = "sent"
                                /\ outcome[queue[i]] = "none"
                                /\ queue[i] # current
  /\ \A i, j \in 1 .. Len(queue) : queue[i] = queue[j] => i = j

HeldInv ==                   \* so is the event in the router's hand
  current # NoEvent => /\ pub[current] = "sent"
                       /\ routerPc = "got" <=> outcome[current] = "none"
                       /\ outcome[current] # "skipped"

BusInv == Unsettled /\ QueueInv /\ HeldInv

IInv == TypeOK /\ TableInv /\ BusInv /\ NoSpuriousSkip

\* After pending_track, only the entry of e has changed, and no other entry
\* has its id.
LEMMA TrackTable ==
  ASSUME TypeOK, Distinct, NEW e \in Event, IdOf[e] # NoId, PendingTrack(e)
  PROVE  \E s \in Slot :
           /\ pending' = [pending EXCEPT ![s] =
                [id |-> IdOf[e], kind |-> KindOf[e], cancelled |-> FALSE]]
           /\ \A t \in Slot \ {s} : pending[t].id # IdOf[e]
           /\ \/ pending[s].id \in {NoId, IdOf[e]} /\ dropped' = dropped
              \/ dropped' = dropped + 1
<1>1. PICK s \in Slot :
        /\ IsLowest(s, Candidates(IdOf[e]))
        /\ pending' = [pending EXCEPT ![s] =
             [id |-> IdOf[e], kind |-> KindOf[e], cancelled |-> FALSE]]
        /\ dropped' = IF SlotsOf(IdOf[e]) = {} /\ s \notin Free
                      THEN dropped + 1 ELSE dropped
  BY DEF PendingTrack
<1>2. CASE SlotsOf(IdOf[e]) # {}
  <2>1. s \in SlotsOf(IdOf[e])
    BY <1>1, <1>2 DEF IsLowest, Candidates
  <2> QED BY <1>1, <1>2, <2>1 DEF Distinct, SlotsOf
<1>3. CASE SlotsOf(IdOf[e]) = {}
  BY <1>1, <1>3 DEF SlotsOf, Free
<1> QED BY <1>2, <1>3

\* pending_take removes exactly the entry with the id.
LEMMA TakeTable ==
  ASSUME TypeOK, Distinct, NEW i, PendingTake(i)
  PROVE  \A s \in Slot :
           pending'[s] = IF i # NoId /\ pending[s].id = i THEN Cleared
                         ELSE pending[s]
<1> SUFFICES ASSUME NEW s \in Slot
             PROVE  IsLowest(s, SlotsOf(i)) <=> i # NoId /\ pending[s].id = i
  BY DEF PendingTake
<1> QED BY DEF Distinct, SlotsOf, IsLowest, Slot

\* The entry of an event whose publisher starts to track it.
LEMMA AddLive ==
  ASSUME TypeOK, TableInv, NEW e \in Event, PendingTrack(e), armed' = armed,
         \A f \in Event : Live(f)' <=> Live(f) \/ f = e
  PROVE  TableInv'
<1>1. CASE IdOf[e] = NoId
  BY <1>1 DEF PendingTrack, TableInv, Distinct, NoStaleEntry, CancelledArmed
<1>2. CASE IdOf[e] # NoId
  <2>1. PICK s \in Slot :
          /\ pending' = [pending EXCEPT ![s] =
               [id |-> IdOf[e], kind |-> KindOf[e], cancelled |-> FALSE]]
          /\ \A t \in Slot \ {s} : pending[t].id # IdOf[e]
    BY <1>2, TrackTable DEF TableInv
  <2>2. /\ pending'[s].id = IdOf[e] /\ ~ pending'[s].cancelled
        /\ \A t \in Slot \ {s} : pending'[t] = pending[t]
    BY <2>1 DEF TypeOK
  <2>3. Distinct'
    BY <2>1, <2>2 DEF TableInv, Distinct
  <2>4. NoStaleEntry'
    BY <2>2 DEF TableInv, NoStaleEntry
  <2>5. CancelledArmed'
    BY <2>1, <2>2 DEF TableInv, CancelledArmed
  <2> QED BY <2>3, <2>4, <2>5 DEF TableInv
<1> QED BY <1>1, <1>2

\* The entry of an event that is withdrawn, skipped or processed.
LEMMA DropLive ==
  ASSUME TypeOK, TableInv, NEW e \in Event, PendingTake(IdOf[e]),
         armed' = armed,
         \A f \in Event : Live(f)' <=> Live(f) /\ f # e
  PROVE  TableInv'
<1>1. \A s \in Slot : pending'[s] = IF IdOf[e] # NoId /\ pending[s].id = IdOf[e]
                                    THEN Cleared ELSE pending[s]
  BY TakeTable DEF TableInv
<1>2. \A s \in Slot : pending'[s].id # NoId =>
        pending'[s] = pending[s] /\ pending[s].id # IdOf[e]
  BY <1>1 DEF Cleared
<1>3. Distinct'
  BY <1>2 DEF TableInv, Distinct
<1>4. NoStaleEntry'
  BY <1>2 DEF TableInv, NoStaleEntry
<1>5. CancelledArmed'
  BY <1>2 DEF TableInv, CancelledArmed
<1> QED BY <1>3, <1>4, <1>5 DEF TableInv

\* A step that neither touches the table nor settles an event.
LEMMA SameLive ==
  ASSUME TableInv, pending' = pending, armed' = armed,
         \A f \in Event : Live(f)' <=> Live(f)
  PROVE  TableInv'
BY DEF TableInv, Distinct, NoStaleEntry, CancelledArmed

\* cancel_event and purge_queue set flags and report the events.
LEMMA MarkTable ==
  ASSUME TypeOK, TableInv, NEW S, Mark(S)
  PROVE  TableInv' /\ armed \subseteq armed'
<1>1. \A f \in Event : Live(f)' <=> Live(f)
  BY DEF Mark, Live, routerVars
<1>2. \A s \in Slot :
        /\ pending'[s].id = pending[s].id
        /\ s \notin S => pending'[s].cancelled = pending[s].cancelled
  BY DEF Mark
<1>3. armed' = armed \cup {e \in Event :
                             Live(e) /\ \E s \in S : pending[s].id = IdOf[e]}
  BY DEF Mark
<1>4. Distinct' /\ NoStaleEntry'
  BY <1>1, <1>2 DEF TableInv, Distinct, NoStaleEntry
<1>5. CancelledArmed'
  BY <1>1, <1>2, <1>3 DEF TableInv, CancelledArmed
<1> QED BY <1>3, <1>4, <1>5 DEF TableInv

\* What receive does to the queue.
LEMMA DequeueInv ==
  ASSUME NEW q \in Seq(Event), q # <<>>
  PROVE  /\ Head(q) = q[1] /\ Head(q) \in Event
         /\ Tail(q) \in Seq(Event) /\ Len(Tail(q)) = Len(q) - 1 /\ Len(q) > 0
         /\ \A i \in 1 .. Len(q) - 1 : Tail(q)[i] = q[i + 1]
OBVIOUS

-----------------------------------------------------------------------------
LEMMA IInvInit == Init => TableInv /\ BusInv /\ NoSpuriousSkip
  BY DEF Init, TableInv, Distinct, NoStaleEntry, CancelledArmed, BusInv,
         Unsettled, QueueInv, HeldInv, NoSpuriousSkip, Cleared

\* One step per action; what it does to Live decides which lemma about the
\* table applies.
LEMMA IInvStep ==
  ASSUME TypeOK, TypeOK', TableInv, BusInv, NoSpuriousSkip, [Next]_vars
  PROVE  TableInv' /\ BusInv' /\ NoSpuriousSkip'
<1> USE DEF busVars, routerVars, controlVars
<1>1. ASSUME NEW e \in Event, Publish(e)
      PROVE  TableInv' /\ BusInv' /\ NoSpuriousSkip'
  <2>1. \A f \in Event : Live(f)' <=> Live(f) \/ f = e
    BY <1>1 DEF Publish, Live, BusInv, Unsettled, TypeOK
  <2>2. TableInv'
    BY <1>1, <2>1, AddLive DEF Publish
  <2>3. Unsettled' /\ HeldInv'
    BY <1>1 DEF Publish, BusInv, Unsettled, HeldInv, TypeOK
  <2>4. QueueInv'
    BY <1>1 DEF Publish, BusInv, QueueInv, TypeOK
  <2> QED BY <1>1, <2>2, <2>3, <2>4 DEF Publish, BusInv, NoSpuriousSkip
<1>2. ASSUME NEW e \in Event, Enqueue(e)
      PROVE  TableInv' /\ BusInv' /\ NoSpuriousSkip'
  <2>1. \A f \in Event : Live(f)' <=> Live(f)
    BY <1>2 DEF Enqueue, Live, TypeOK
  <2>2. TableInv'
    BY <1>2, <2>1, SameLive DEF Enqueue
  <2>3. Unsettled' /\ HeldInv'
    BY <1>2 DEF Enqueue, BusInv, Unsettled, HeldInv, TypeOK
  <2>4. outcome[e] = "none" /\ e # current /\ pub'[e] = "sent"
    BY <1>2 DEF Enqueue, BusInv, Unsettled, HeldInv, TypeOK
  <2>5. /\ Len(queue') = Len(queue) + 1 /\ Len(queue) \in Nat
        /\ queue'[Len(queue) + 1] = e
        /\ \A i \in 1 .. Len(queue) : queue'[i] = queue[i]
    BY <1>2 DEF Enqueue, TypeOK
  <2>6. \A i \in 1 .. Len(queue) : queue[i] # e /\ queue[i] \in Event
    BY <1>2 DEF Enqueue, BusInv, QueueInv, TypeOK
  <2>7. QueueInv'
    <3>1. \A i \in 1 .. Len(queue') : i \in 1 .. Len(queue) \/ i = Len(queue) + 1
      BY <2>5
    <3>2. \A f \in Event : pub[f] = "sent" => pub'[f] = "sent"
      BY <1>2 DEF Enqueue, TypeOK
    <3>3. outcome' = outcome /\ current' = current
      BY <1>2 DEF Enqueue
    <3> QED BY <2>4, <2>5, <2>6, <3>1, <3>2, <3>3 DEF BusInv, QueueInv
  <2> QED BY <1>2, <2>2, <2>3, <2>7 DEF Enqueue, BusInv, NoSpuriousSkip
<1>3. ASSUME NEW e \in Event, SendTimeout(e)
      PROVE  TableInv' /\ BusInv' /\ NoSpuriousSkip'
  <2>1. \A f \in Event : Live(f)' <=> Live(f)
    BY <1>3 DEF SendTimeout, Live, TypeOK
  <2>2. TableInv'
    BY <1>3, <2>1, SameLive DEF SendTimeout
  <2>3. Unsettled' /\ HeldInv'
    BY <1>3 DEF SendTimeout, BusInv, Unsettled, HeldInv, TypeOK
  <2>4. QueueInv'
    BY <1>3 DEF SendTimeout, BusInv, QueueInv, TypeOK
  <2> QED BY <1>3, <2>2, <2>3, <2>4 DEF SendTimeout, BusInv, NoSpuriousSkip
<1>4. ASSUME NEW e \in Event, Withdraw(e)
      PROVE  TableInv' /\ BusInv' /\ NoSpuriousSkip'
  <2>1. \A f \in Event : Live(f)' <=> Live(f) /\ f # e
    BY <1>4 DEF Withdraw, Live, TypeOK
  <2>2. TableInv'
    BY <1>4, <2>1, DropLive DEF Withdraw
  <2>3. Unsettled' /\ HeldInv'
    BY <1>4 DEF Withdraw, BusInv, Unsettled, HeldInv, TypeOK
  <2>4. QueueInv'
    BY <1>4 DEF Withdraw, BusInv, QueueInv, TypeOK
  <2> QED BY <1>4, <2>2, <2>3, <2>4 DEF Withdraw, BusInv, NoSpuriousSkip
<1>5. ASSUME NEW S, Mark(S)
      PROVE  TableInv' /\ BusInv' /\ NoSpuriousSkip'
  <2>1. TableInv' /\ armed \subseteq armed'
    BY <1>5, MarkTable
  <2> QED BY <1>5, <2>1 DEF Mark, BusInv, Unsettled, QueueInv, HeldInv,
                            NoSpuriousSkip
<1>6. CASE RouterReceive
  <2>1. \A f \in Event : Live(f)' <=> Live(f)
    BY <1>6 DEF RouterReceive, Live
  <2>2. TableInv'
    BY <1>6, <2>1, SameLive DEF RouterReceive
  <2>3. /\ Head(queue) = queue[1] /\ Tail(queue) \in Seq(Event)
        /\ Len(Tail(queue)) = Len(queue) - 1 /\ Len(queue) > 0
        /\ \A i \in 1 .. Len(queue) - 1 : Tail(queue)[i] = queue[i + 1]
    BY <1>6, DequeueInv DEF RouterReceive, TypeOK
  <2>4. Unsettled' /\ HeldInv'
    BY <1>6, <2>3 DEF RouterReceive, BusInv, Unsettled, HeldInv, QueueInv, TypeOK
  <2>5. QueueInv'
    <3>1. queue' = Tail(queue) /\ current' = queue[1] /\ Len(queue) \in Nat
      BY <1>6, <2>3 DEF RouterReceive, TypeOK
    <3>2. \A i \in 1 .. Len(queue') : i + 1 \in 1 .. Len(queue) /\ i \in Nat
                                      /\ queue'[i] = queue[i + 1] /\ i + 1 # 1
      BY <2>3, <3>1
    <3>3. pub' = pub /\ outcome' = outcome /\ 1 \in 1 .. Len(queue)
      BY <1>6, <2>3, <3>1 DEF RouterReceive
    <3>4. \A i \in 1 .. Len(queue') : /\ pub'[queue'[i]] = "sent"
                                      /\ outcome'[queue'[i]] = "none"
                                      /\ queue'[i] # current'
      BY <3>1, <3>2, <3>3 DEF BusInv, QueueInv
    <3>5. \A i, j \in 1 .. Len(queue') : queue'[i] = queue'[j] => i = j
      <4> SUFFICES ASSUME NEW i \in 1 .. Len(queue'), NEW j \in 1 .. Len(queue'),
                          queue'[i] = queue'[j]
                   PROVE  i = j
        OBVIOUS
      <4>1. i + 1 = j + 1
        BY <3>2 DEF BusInv, QueueInv
      <4> QED BY <3>2, <4>1
    <3> QED BY <3>4, <3>5 DEF QueueInv
  <2> QED BY <1>6, <2>2, <2>4, <2>5 DEF RouterReceive, BusInv, NoSpuriousSkip
<1>7. CASE RouterTake
  <2>1. /\ current \in Event /\ pub[current] = "sent"
        /\ outcome[current] = "none"
    BY <1>7 DEF RouterTake, BusInv, HeldInv, TypeOK
  <2>2. \A f \in Event : Live(f)' <=> Live(f) /\ f # current
    BY <1>7, <2>1 DEF RouterTake, Live, TypeOK
  <2>3. TableInv'
    BY <1>7, <2>1, <2>2, DropLive DEF RouterTake
  <2>4. Unsettled' /\ HeldInv'
    BY <1>7, <2>1 DEF RouterTake, BusInv, Unsettled, HeldInv, TypeOK
  <2>5. QueueInv'
    <3>1. \A i \in 1 .. Len(queue) : queue[i] \in Event
      BY DEF TypeOK
    <3> QED BY <1>7, <2>1, <3>1 DEF RouterTake, BusInv, QueueInv, TypeOK
  <2>6. NoSpuriousSkip'
    <3>1. TakesCancelled(IdOf[current]) => current \in armed
      BY <2>1 DEF TakesCancelled, IsLowest, SlotsOf, TableInv, CancelledArmed,
                  Live
    <3> QED BY <1>7, <2>1, <3>1 DEF RouterTake, NoSpuriousSkip, TypeOK
  <2> QED BY <2>3, <2>4, <2>5, <2>6 DEF BusInv
<1>8. CASE RouterIgnore \/ RouterEnterRules
  <2>1. /\ current \in Event /\ pub[current] = "sent" /\ pub' = pub
        /\ routerPc = "process" /\ outcome[current] # "none"
    BY <1>8 DEF RouterIgnore, RouterEnterRules, BusInv, HeldInv, TypeOK
  <2>2. \A f \in Event : Live(f)' <=> Live(f)
    BY <1>8, <2>1 DEF RouterIgnore, RouterEnterRules, Live, TypeOK
  <2>3. TableInv'
    BY <1>8, <2>2, SameLive DEF RouterIgnore, RouterEnterRules
  <2>4. \A i \in 1 .. Len(queue) : queue[i] \in Event
    BY DEF TypeOK
  <2>5. Unsettled' /\ HeldInv' /\ NoSpuriousSkip'
    BY <1>8, <2>1 DEF RouterIgnore, RouterEnterRules, BusInv, Unsettled,
                      HeldInv, NoSpuriousSkip, TypeOK
  <2>6. QueueInv'
    <3>1. /\ queue' = queue /\ current' \in {current, NoEvent}
          /\ \A f \in Event : f # current => outcome'[f] = outcome[f]
      BY <1>8, <2>1 DEF RouterIgnore, RouterEnterRules, TypeOK
    <3>2. \A i \in 1 .. Len(queue) : queue[i] \notin {current, NoEvent}
      BY <2>4 DEF BusInv, QueueInv
    <3> QED BY <2>1, <2>4, <3>1, <3>2 DEF BusInv, QueueInv
  <2> QED BY <2>3, <2>5, <2>6 DEF BusInv
<1>9. CASE RouterLoop \/ RouterIdle \/ RouterLeaveForAgent \/ RouterDone
           \/ RouterClearHandle \/ RouterExit \/ Start \/ Stop
           \/ UNCHANGED vars
  <2>1. /\ pub' = pub /\ queue' = queue /\ pending' = pending
        /\ outcome' = outcome /\ armed' = armed
        /\ current' # NoEvent => /\ current' = current
                                 /\ routerPc' = "got" <=> routerPc = "got"
    <3>1. CASE RouterLoop \/ RouterIdle BY <3>1 DEF RouterLoop, RouterIdle
    <3>2. CASE RouterLeaveForAgent BY <3>2 DEF RouterLeaveForAgent
    <3>3. CASE RouterDone BY <3>3 DEF RouterDone
    <3>4. CASE RouterClearHandle BY <3>4 DEF RouterClearHandle
    <3>5. CASE RouterExit BY <3>5 DEF RouterExit
    <3>6. CASE Start BY <3>6 DEF Start, TypeOK
    <3>7. CASE Stop BY <3>7 DEF Stop
    <3>8. CASE UNCHANGED vars BY <3>8 DEF vars
    <3> QED BY <1>9, <3>1, <3>2, <3>3, <3>4, <3>5, <3>6, <3>7, <3>8
  <2>2. TableInv'
    BY <2>1, SameLive DEF Live
  <2>3. \A i \in 1 .. Len(queue) : queue[i] \in Event
    BY DEF TypeOK
  <2>4. Unsettled' /\ QueueInv'
    BY <2>1, <2>3 DEF BusInv, Unsettled, QueueInv
  <2>5. HeldInv' /\ NoSpuriousSkip'
    BY <2>1 DEF BusInv, HeldInv, NoSpuriousSkip
  <2> QED BY <2>2, <2>4, <2>5 DEF BusInv
<1> QED
  BY <1>1, <1>2, <1>3, <1>4, <1>5, <1>6, <1>7, <1>8, <1>9
     DEF Next, Router, CancelEvent, PurgeQueue

LEMMA IInvariant == Spec => []IInv
<1>1. Init => TableInv /\ BusInv /\ NoSpuriousSkip
  BY IInvInit
<1>2. TypeOK /\ TypeOK' /\ TableInv /\ BusInv /\ NoSpuriousSkip /\ [Next]_vars
      => TableInv' /\ BusInv' /\ NoSpuriousSkip'
  BY IInvStep
<1> QED BY <1>1, <1>2, TypeCorrect, PTL DEF Spec, IInv

\* An event is skipped only if a cancel or purge made while it was outstanding
\* reported it, even though ids are shared and entries are reused, evicted
\* and withdrawn.
THEOREM SkipsAreReported == Spec => []NoSpuriousSkip
  BY IInvariant, PTL DEF IInv

\* No path through publish or the router task leaves an entry behind.
THEOREM TableIsClean == Spec => []NoStaleEntry
  BY IInvariant, PTL DEF IInv, TableInv

\* A refused event is never processed, and the queue holds every event once.
THEOREM AtMostOnce == Spec => []ProcessedOnce
<1>1. IInv => ProcessedOnce
  <2> SUFFICES ASSUME IInv PROVE ProcessedOnce
    OBVIOUS
  <2>1. DOMAIN queue = 1 .. Len(queue)
    BY DEF IInv, TypeOK
  <2> QED BY <2>1 DEF IInv, BusInv, Unsettled, QueueInv, ProcessedOnce, Range
<1> QED BY <1>1, IInvariant, PTL

-----------------------------------------------------------------------------
\* When a cancel can be relied on.

Honoured ==
  /\ \A e \in Event :        \* every outstanding event has its entry
       Live(e) /\ IdOf[e] # NoId => \E s \in Slot : pending[s].id = IdOf[e]
  /\ \A e \in armed, s \in Slot :   \* which keeps the flag of a report
       Live(e) /\ pending[s].id = IdOf[e] => pending[s].cancelled
  /\ \A e \in armed : /\ IdOf[e] # NoId
                      /\ outcome[e] \notin {"accepted", "ignored", "routed"}
                      /\ pub[e] # "idle"

HonourInv == UniqueIds /\ dropped = 0 => Honoured

LEMMA HonourInit == Init => HonourInv
  BY DEF Init, HonourInv, Honoured, Live

LEMMA HonourStep ==
  ASSUME IInv, IInv', HonourInv, [Next]_vars
  PROVE  HonourInv'
<1> SUFFICES ASSUME UniqueIds, dropped' = 0 PROVE Honoured'
  BY DEF HonourInv, UniqueIds
<1> USE DEF busVars, routerVars, controlVars
<1>u. \A e, f \in Event : IdOf[e] = IdOf[f] /\ IdOf[e] # NoId => e = f
  BY DEF UniqueIds
<1>t. TypeOK /\ Distinct /\ armed \subseteq Event
  BY DEF IInv, TableInv, TypeOK
<1>1. ASSUME NEW e \in Event, Publish(e) PROVE Honoured'
  <2>1. pub[e] = "idle" /\ outcome' = outcome /\ armed' = armed
        /\ pub' = [pub EXCEPT ![e] = "sending"]
    BY <1>1 DEF Publish
  <2>2. \A f \in Event : Live(f)' <=> Live(f) \/ f = e
    BY <2>1 DEF IInv, BusInv, Unsettled, Live, TypeOK
  <2>3. CASE IdOf[e] = NoId
    <3>1. pending' = pending /\ dropped' = dropped
      BY <1>1, <2>3 DEF Publish, PendingTrack
    <3>2. Honoured
      BY <3>1 DEF HonourInv
    <3> QED BY <1>t, <2>1, <2>2, <2>3, <3>1, <3>2 DEF Honoured, TypeOK
  <2>4. CASE IdOf[e] # NoId
    <3>1. PICK s \in Slot :
           /\ pending' = [pending EXCEPT ![s] =
                [id |-> IdOf[e], kind |-> KindOf[e], cancelled |-> FALSE]]
           /\ \A t \in Slot \ {s} : pending[t].id # IdOf[e]
           /\ \/ pending[s].id \in {NoId, IdOf[e]} /\ dropped' = dropped
              \/ dropped' = dropped + 1
      BY <1>1, <1>t, <2>4, TrackTable DEF Publish
    <3>2. dropped = 0 /\ pending[s].id \in {NoId, IdOf[e]}
      BY <3>1, <1>t DEF TypeOK
    <3>3. Honoured
      BY <3>2 DEF HonourInv
    <3>4. /\ pending'[s].id = IdOf[e]
          /\ \A t \in Slot \ {s} : pending'[t] = pending[t]
      BY <3>1, <1>t DEF TypeOK
    <3>5. e \notin armed
      BY <2>1, <3>3 DEF Honoured
    <3>6. \A f \in Event : Live(f)' /\ IdOf[f] # NoId =>
            \E t \in Slot : pending'[t].id = IdOf[f]
      BY <2>2, <3>2, <3>3, <3>4 DEF Honoured
    <3>7. \A f \in armed', t \in Slot :
            Live(f)' /\ pending'[t].id = IdOf[f] => pending'[t].cancelled
      <4> SUFFICES ASSUME NEW f \in armed, NEW t \in Slot, Live(f)',
                          pending'[t].id = IdOf[f]
                   PROVE  pending'[t].cancelled
        BY <2>1
      <4>1. f # e /\ f \in Event /\ Live(f)
        BY <3>5, <2>2, <1>t
      <4>2. IdOf[f] # IdOf[e]
        BY <4>1, <1>u, <2>4
      <4>3. t # s /\ pending'[t] = pending[t]
        BY <4>2, <3>4
      <4> QED BY <4>1, <4>3, <3>3 DEF Honoured
    <3> QED BY <1>t, <2>1, <3>3, <3>6, <3>7 DEF Honoured, TypeOK
  <2> QED BY <2>3, <2>4
<1>2. ASSUME NEW e \in Event, Withdraw(e) PROVE Honoured'
  <2>1. /\ Honoured /\ armed' = armed /\ outcome' = outcome
        /\ pub' = [pub EXCEPT ![e] = "failed"]
    BY <1>2 DEF Withdraw, HonourInv
  <2>2. \A f \in Event : Live(f)' <=> Live(f) /\ f # e
    BY <1>2, <2>1, <1>t DEF Withdraw, Live, TypeOK
  <2>3. \A f \in Event, s \in Slot : f # e /\ IdOf[f] # NoId =>
          (pending'[s].id = IdOf[f] => pending'[s] = pending[s])
          /\ (pending[s].id = IdOf[f] => pending'[s] = pending[s])
    BY <1>2, <1>t, <1>u, TakeTable DEF Withdraw, Cleared
  <2> QED BY <1>t, <2>1, <2>2, <2>3 DEF Honoured, TypeOK
<1>3. CASE RouterTake
  <2>1. /\ Honoured /\ armed' = armed /\ pub' = pub
        /\ current \in Event /\ Live(current)
        /\ \A f \in Event : f # current => outcome'[f] = outcome[f]
    BY <1>3, <1>t DEF RouterTake, HonourInv, IInv, BusInv, HeldInv, Live, TypeOK
  <2>2. \A f \in Event : Live(f)' <=> Live(f) /\ f # current
    BY <1>3, <2>1, <1>t DEF RouterTake, Live, TypeOK
  <2>3. \A f \in Event, s \in Slot : f # current /\ IdOf[f] # NoId =>
          (pending'[s].id = IdOf[f] => pending'[s] = pending[s])
          /\ (pending[s].id = IdOf[f] => pending'[s] = pending[s])
    BY <1>3, <2>1, <1>t, <1>u, TakeTable DEF RouterTake, Cleared
  <2>4. current \in armed => TakesCancelled(IdOf[current])
    <3> SUFFICES ASSUME current \in armed
                 PROVE  TakesCancelled(IdOf[current])
      OBVIOUS
    <3>1. PICK s \in Slot : pending[s].id = IdOf[current]
      BY <2>1 DEF Honoured
    <3>2. pending[s].cancelled /\ IdOf[current] # NoId
      BY <2>1, <3>1 DEF Honoured
    <3>3. IsLowest(s, SlotsOf(IdOf[current]))
      BY <3>1, <3>2, <1>t DEF Distinct, SlotsOf, IsLowest, Slot
    <3> QED BY <3>2, <3>3 DEF TakesCancelled
  <2>5. current \in armed => outcome'[current] = "skipped"
    BY <1>3, <2>1, <2>4, <1>t DEF RouterTake, TypeOK
  <2> QED BY <1>t, <2>1, <2>2, <2>3, <2>5 DEF Honoured
<1>4. ASSUME NEW S, Mark(S), \A s \in S : s \in Slot /\ pending[s].id # NoId
      PROVE  Honoured'
  <2>1. Honoured /\ pub' = pub /\ outcome' = outcome
    BY <1>4 DEF Mark, HonourInv
  <2>2. \A f \in Event : Live(f)' <=> Live(f)
    BY <2>1 DEF Live
  <2>3. \A s \in Slot :
          /\ pending'[s].id = pending[s].id
          /\ s \in S => pending'[s].cancelled
          /\ s \notin S => pending'[s].cancelled = pending[s].cancelled
    BY <1>4 DEF Mark
  <2>4. armed' = armed \cup {e \in Event :
                               Live(e) /\ \E s \in S : pending[s].id = IdOf[e]}
    BY <1>4 DEF Mark
  <2>5. \A e \in armed' \ armed : e \in Event /\ Live(e) /\ IdOf[e] # NoId
    BY <1>4, <2>4
  <2>6. \A e \in armed', s \in Slot :
          Live(e)' /\ pending'[s].id = IdOf[e] => pending'[s].cancelled
    <3> SUFFICES ASSUME NEW e \in armed', NEW s \in Slot, Live(e)',
                        pending'[s].id = IdOf[e], s \notin S
                 PROVE  pending[s].cancelled
      BY <2>3
    <3>1. e \in armed
      BY <1>4, <1>t, <2>3, <2>4 DEF Distinct
    <3> QED BY <1>t, <2>1, <2>2, <2>3, <3>1 DEF Honoured
  <2> QED BY <1>t, <2>1, <2>2, <2>3, <2>5, <2>6 DEF Honoured, Live
<1>5. CASE RouterIgnore \/ RouterEnterRules
  <2>1. /\ Honoured /\ armed' = armed /\ pub' = pub /\ pending' = pending
        /\ current \in Event /\ routerPc = "process"
        /\ outcome'[current] # "none"
        /\ \A f \in Event : f # current => outcome'[f] = outcome[f]
    BY <1>5, <1>t DEF RouterIgnore, RouterEnterRules, HonourInv, TypeOK
  <2>2. outcome[current] \in {"accepted", "ignored", "routed"}
    BY <1>t, <2>1 DEF IInv, BusInv, HeldInv, TypeOK, OutcomeValue
  <2>3. current \notin armed
    BY <2>1, <2>2 DEF Honoured
  <2>4. \A f \in Event : Live(f)' <=> Live(f)
    BY <2>1, <2>2 DEF Live
  <2> QED BY <1>t, <2>1, <2>3, <2>4 DEF Honoured
<1>6. CASE RouterReceive \/ \E e \in Event : Enqueue(e) \/ SendTimeout(e)
  <2>1. /\ Honoured /\ armed' = armed /\ pending' = pending
        /\ outcome' = outcome
    BY <1>6 DEF RouterReceive, Enqueue, SendTimeout, HonourInv
  <2>2. \A f \in Event : (Live(f)' <=> Live(f)) /\ (pub'[f] = "idle" => pub[f] = "idle")
    BY <1>6, <1>t DEF RouterReceive, Enqueue, SendTimeout, Live, TypeOK
  <2> QED BY <1>t, <2>1, <2>2 DEF Honoured
<1>7. CASE RouterLoop \/ RouterIdle \/ RouterLeaveForAgent \/ RouterDone
           \/ RouterClearHandle \/ RouterExit \/ Start \/ Stop
           \/ UNCHANGED vars
  <2>1. Honoured /\ UNCHANGED <<armed, pending, outcome, pub>>
    BY <1>7 DEF RouterLoop, RouterIdle, RouterLeaveForAgent, RouterDone,
                RouterClearHandle, RouterExit, Start, Stop, vars, HonourInv
  <2> QED BY <2>1 DEF Honoured, Live
<1> QED
  BY <1>1, <1>2, <1>3, <1>4, <1>5, <1>6, <1>7
     DEF Next, Router, CancelEvent, PurgeQueue, IsLowest, SlotsOf

LEMMA HonourInvariant == Spec => []HonourInv
<1>1. IInv /\ IInv' /\ HonourInv /\ [Next]_vars => HonourInv'
  BY HonourStep
<1> QED BY <1>1, HonourInit, IInvariant, PTL DEF Spec

\* With unique ids and no evicted entry, an event that cancel_event or
\* purge_queue reported as cancelled is not processed.
THEOREM CancelIsHonoured == Spec => []CancelHonoured
<1>1. HonourInv => CancelHonoured
  BY DEF HonourInv, Honoured, CancelHonoured
<1> QED BY <1>1, HonourInvariant, PTL

-----------------------------------------------------------------------------
\* When an entry is evicted.

\* Without a free slot, the ids in the table are as many as it has slots, and
\* each of them is outstanding.
LEMMA FullTable ==
  ASSUME TypeOK, TableInv, Free = {}
  PROVE  \E ids \in SUBSET LiveIds : Cardinality(ids) = TableSize
<1> DEFINE idIn == [s \in Slot |-> pending[s].id]
           ids  == {idIn[s] : s \in Slot}
<1>1. \A s \in Slot : idIn[s] # NoId /\ idIn[s] \in LiveIds
  BY DEF Free, TableInv, NoStaleEntry, LiveIds
<1>2. idIn \in Bijection(Slot, ids)
  <2>1. idIn \in Surjection(Slot, ids)
    BY DEF Surjection
  <2>2. \A s, t \in Slot : idIn[s] = idIn[t] => s = t
    BY <1>1 DEF TableInv, Distinct
  <2>3. idIn \in Injection(Slot, ids)
    <3> HIDE DEF idIn, ids
    <3> QED BY <2>1, <2>2 DEF Surjection, Injection, IsInjective
  <2> QED BY <2>1, <2>3 DEF Bijection
<1>3. IsFiniteSet(Slot) /\ Cardinality(Slot) = TableSize
  BY FS_Interval DEF Slot
<1>4. Cardinality(ids) = TableSize
  <2> HIDE DEF idIn, ids
  <2> QED BY <1>2, <1>3, FS_Bijection DEF ExistsBijection
<1>5. ids \in SUBSET LiveIds
  BY <1>1
<1> QED BY <1>4, <1>5

\* pending_alloc_slot_locked takes another event's entry only when the ids
\* that are outstanding besides the new one fill the table, whatever events
\* share an id, time out, are cancelled, or are published by an action.
THEOREM EvictionsAreCrowded == Spec => EvictsWhenCrowded
<1>1. ASSUME IInv, [Next]_vars, dropped' # dropped
      PROVE  \E ids \in SUBSET LiveIds : Cardinality(ids) = TableSize
  <2> USE DEF busVars, routerVars, controlVars
  <2>1. PICK e \in Event : Publish(e)
    BY <1>1 DEF Next, Enqueue, SendTimeout, Withdraw, CancelEvent, PurgeQueue,
         Mark, Start, Stop, vars, Router, RouterLoop, RouterIdle,
         RouterReceive, RouterTake, RouterIgnore, RouterEnterRules,
         RouterLeaveForAgent, RouterDone, RouterClearHandle, RouterExit
  <2>2. Free = {}
    BY <1>1, <2>1 DEF Publish, PendingTrack, IsLowest, Candidates
  <2> QED BY <1>1, <2>2, FullTable DEF IInv
<1> QED BY <1>1, IInvariant, PTL DEF Spec, EvictsWhenCrowded

-----------------------------------------------------------------------------
\* The bus implements the cancellable queue.

Reliable == UniqueIds /\ dropped = 0

LEMMA RefineInit == Init => CQ!Init
  BY DEF Init, CQ!Init, InStatus

LEMMA RefineStep ==
  ASSUME IInv, IInv', HonourInv, HonourInv', Reliable, Reliable', [Next]_vars
  PROVE  [CQ!Next]_(CQ!vars)
<1> DEFINE st == [e \in Event |-> InStatus(e)]
<1> SUFFICES CQ!Next \/ (st' = st /\ armed' = armed)
  BY DEF CQ!vars
<1> USE DEF busVars, routerVars, controlVars
<1>t. TypeOK /\ TypeOK' /\ BusInv /\ Honoured
  BY DEF IInv, HonourInv, Reliable
<1>1. ASSUME NEW e \in Event, Publish(e) PROVE CQ!Next
  <2>1. st[e] = "new" /\ st' = [st EXCEPT ![e] = "open"]
    BY <1>1, <1>t DEF Publish, InStatus, TypeOK, BusInv, Unsettled
  <2>2. armed' = armed
    BY <1>1 DEF Publish
  <2>3. CQ!Submit(e)
    BY <2>1, <2>2 DEF CQ!Submit
  <2> QED BY <2>3 DEF CQ!Next
<1>2. ASSUME NEW e \in Event, Withdraw(e) PROVE CQ!Next
  <2>1. st[e] = "open" /\ st' = [st EXCEPT ![e] = "refused"]
    BY <1>2, <1>t DEF Withdraw, InStatus, TypeOK, BusInv, Unsettled
  <2>2. armed' = armed
    BY <1>2 DEF Withdraw
  <2>3. CQ!Refuse(e)
    BY <2>1, <2>2 DEF CQ!Refuse
  <2> QED BY <2>3 DEF CQ!Next
<1>3. ASSUME NEW S, Mark(S) PROVE CQ!Next
  <2>1. st' = st
    BY <1>3 DEF Mark, InStatus
  <2>2. /\ armed \subseteq armed' /\ armed' \in SUBSET Event
        /\ \A e \in armed' \ armed : Live(e) /\ e \in Event
    BY <1>3, <1>t DEF Mark, TypeOK
  <2>3. \A e \in armed' \ armed : st[e] = "open"
    BY <2>2 DEF Live, InStatus
  <2>4. CQ!Cancel
    BY <2>1, <2>2, <2>3 DEF CQ!Cancel
  <2> QED BY <2>4 DEF CQ!Next
<1>4. CASE RouterTake
  <2>1. /\ current \in Event /\ Live(current) /\ armed' = armed /\ pub' = pub
        /\ pub[current] = "sent" /\ outcome[current] = "none"
    BY <1>4, <1>t DEF RouterTake, BusInv, HeldInv, Live, TypeOK
  <2>c. PICK c \in Event : c = current
    BY <2>1
  <2>2. st[c] = "open"
    BY <2>1, <2>c DEF InStatus
  <2>3. CASE TakesCancelled(IdOf[current])
    <3>1. outcome' = [outcome EXCEPT ![current] = "skipped"]
      BY <1>4, <2>3 DEF RouterTake
    <3>2. st' = [st EXCEPT ![c] = "skipped"]
      <4>1. InStatus(c)' = "skipped"
        BY <2>1, <2>c, <3>1, <1>t DEF InStatus, TypeOK
      <4>2. ASSUME NEW e \in Event, e # c
            PROVE  InStatus(e)' = InStatus(e)
        BY <2>1, <2>c, <3>1, <4>2, <1>t DEF InStatus, TypeOK
      <4> QED BY <4>1, <4>2
    <3>3. c \in armed
      BY <2>1, <2>c, <3>1, <1>t DEF IInv, NoSpuriousSkip, TypeOK
    <3>4. CQ!Skip(c)
      BY <2>1, <2>2, <3>2, <3>3 DEF CQ!Skip
    <3> QED BY <2>1, <3>4 DEF CQ!Next
  <2>4. CASE ~ TakesCancelled(IdOf[current])
    <3>1. outcome' = [outcome EXCEPT ![current] = "accepted"]
      BY <1>4, <2>4 DEF RouterTake
    <3>2. st' = [st EXCEPT ![c] = "processed"]
      <4>1. InStatus(c)' = "processed"
        BY <2>1, <2>c, <3>1, <1>t DEF InStatus, TypeOK
      <4>2. ASSUME NEW e \in Event, e # c
            PROVE  InStatus(e)' = InStatus(e)
        BY <2>1, <2>c, <3>1, <4>2, <1>t DEF InStatus, TypeOK
      <4> QED BY <4>1, <4>2
    <3>3. c \notin armed
      BY <2>1, <2>c, <3>1, <1>t DEF HonourInv, Honoured, Reliable, TypeOK
    <3>4. CQ!Process(c)
      BY <2>1, <2>2, <3>2, <3>3 DEF CQ!Process
    <3> QED BY <2>1, <3>4 DEF CQ!Next
  <2> QED BY <2>3, <2>4
<1>5. CASE RouterIgnore \/ RouterEnterRules
  <2>1. /\ armed' = armed /\ pub' = pub /\ current \in Event
        /\ pub[current] = "sent"
        /\ outcome[current] \in {"accepted", "ignored", "routed"}
        /\ outcome' \in {[outcome EXCEPT ![current] = "ignored"],
                         [outcome EXCEPT ![current] = "routed"]}
    BY <1>5, <1>t DEF RouterIgnore, RouterEnterRules, BusInv, HeldInv, TypeOK,
                      OutcomeValue
  <2>2. ASSUME NEW e \in Event PROVE InStatus(e)' = InStatus(e)
    BY <2>1, <1>t DEF InStatus, TypeOK
  <2> QED BY <2>1, <2>2
<1>6. CASE \E e \in Event : Enqueue(e) \/ SendTimeout(e)
  <2>1. PICK e \in Event :
          /\ pub[e] = "sending" /\ armed' = armed /\ outcome' = outcome
          /\ pub' \in {[pub EXCEPT ![e] = "sent"], [pub EXCEPT ![e] = "expired"]}
    BY <1>6 DEF Enqueue, SendTimeout
  <2>2. outcome[e] = "none"
    BY <2>1, <1>t DEF BusInv, Unsettled
  <2>3. ASSUME NEW f \in Event PROVE InStatus(f)' = InStatus(f)
    BY <2>1, <2>2, <1>t DEF InStatus, TypeOK
  <2> QED BY <2>1, <2>3
<1>7. CASE RouterLoop \/ RouterIdle \/ RouterReceive \/ RouterLeaveForAgent
           \/ RouterDone \/ RouterClearHandle \/ RouterExit \/ Start \/ Stop
           \/ UNCHANGED vars
  <2>1. UNCHANGED <<armed, outcome, pub>>
    BY <1>7 DEF RouterLoop, RouterIdle, RouterReceive, RouterLeaveForAgent,
                RouterDone, RouterClearHandle, RouterExit, Start, Stop, vars
  <2> QED BY <2>1 DEF InStatus
<1> QED
  BY <1>1, <1>2, <1>3, <1>4, <1>5, <1>6, <1>7
     DEF Next, Router, CancelEvent, PurgeQueue

\* With unique ids, as long as no entry is evicted, what callers of publish,
\* cancel_event and purge_queue see is the behaviour of a cancellable queue.
THEOREM BusRefinesQueue == Spec /\ []Reliable => Refinement
<1>1. IInv /\ IInv' /\ HonourInv /\ HonourInv' /\ Reliable /\ Reliable'
      /\ [Next]_vars => [CQ!Next]_(CQ!vars)
  BY RefineStep
<1> QED BY <1>1, RefineInit, IInvariant, HonourInvariant, PTL
        DEF Spec, Refinement, CQ!Spec
=============================================================================
