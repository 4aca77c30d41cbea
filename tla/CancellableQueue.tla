------------------------- MODULE CancellableQueue --------------------------
(***************************************************************************)
(* What the event bus promises its callers, without queue, table or ids:   *)
(* an event that was submitted stays open until it is processed, skipped   *)
(* or refused, once; cancelling some open events promises that these are   *)
(* not processed.                                                          *)
(***************************************************************************)
CONSTANT Event
VARIABLES status, promised
vars == <<status, promised>>

Status == {"new", "open", "refused", "skipped", "processed"}

Init ==
  /\ status = [e \in Event |-> "new"]
  /\ promised = {}

Submit(e) ==
  /\ status[e] = "new"
  /\ status' = [status EXCEPT ![e] = "open"]
  /\ UNCHANGED promised

Cancel ==
  /\ promised' \in SUBSET Event
  /\ promised \subseteq promised'
  /\ \A e \in promised' \ promised : status[e] = "open"
  /\ UNCHANGED status

\* The submitter gives up: the event is never processed.
Refuse(e) ==
  /\ status[e] = "open"
  /\ status' = [status EXCEPT ![e] = "refused"]
  /\ UNCHANGED promised

Skip(e) ==
  /\ status[e] = "open"
  /\ e \in promised
  /\ status' = [status EXCEPT ![e] = "skipped"]
  /\ UNCHANGED promised

Process(e) ==
  /\ status[e] = "open"
  /\ e \notin promised
  /\ status' = [status EXCEPT ![e] = "processed"]
  /\ UNCHANGED promised

Next ==
  \/ \E e \in Event : Submit(e) \/ Refuse(e) \/ Skip(e) \/ Process(e)
  \/ Cancel

Spec == Init /\ [][Next]_vars
=============================================================================
