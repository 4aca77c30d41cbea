--------------------------- MODULE RequestService --------------------------
(***************************************************************************)
(* What the agent core promises those who ask, without its queues, locks   *)
(* and lists: requests are served one after the other in the order in      *)
(* which they were accepted, each once, and the response waits until its   *)
(* own asker comes for it.  A request may be refused before it is          *)
(* accepted, and an asker may stop waiting; neither concerns the others.   *)
(***************************************************************************)
EXTENDS Naturals, Sequences

CONSTANTS
  Request,
  Silent,    \* requests without a response
  Capacity   \* accepted and not yet served

VARIABLES
  asker,  \* how far the asker of each request has got
  open,   \* accepted requests in the order in which they are served
  mail    \* responses that wait for their askers

vars == <<asker, open, mail>>

Init ==
  /\ asker = [r \in Request |-> "idle"]
  /\ open = <<>> /\ mail = {}

Ask(r) ==
  /\ asker[r] = "idle"
  /\ asker' = [asker EXCEPT ![r] = "asking"]
  /\ UNCHANGED <<open, mail>>

Accept(r) ==
  /\ asker[r] = "asking" /\ Len(open) < Capacity
  /\ open' = Append(open, r)
  /\ asker' = [asker EXCEPT ![r] = IF r \in Silent THEN "gone" ELSE "waiting"]
  /\ UNCHANGED mail

Refuse(r) ==
  /\ asker[r] = "asking"
  /\ asker' = [asker EXCEPT ![r] = "gone"]
  /\ UNCHANGED <<open, mail>>

Serve ==
  /\ open # <<>>
  /\ open' = Tail(open)
  /\ mail' = mail \cup ({Head(open)} \ Silent)
  /\ UNCHANGED asker

Collect(r) ==
  /\ asker[r] = "waiting" /\ r \in mail
  /\ asker' = [asker EXCEPT ![r] = "answered"]
  /\ mail' = mail \ {r}
  /\ UNCHANGED open

Leave(r) ==
  /\ asker[r] = "waiting"
  /\ asker' = [asker EXCEPT ![r] = "gone"]
  /\ UNCHANGED <<open, mail>>

Next ==
  \/ \E r \in Request : Ask(r) \/ Accept(r) \/ Refuse(r) \/ Collect(r) \/ Leave(r)
  \/ Serve

Spec == Init /\ [][Next]_vars
=============================================================================
