----------------------------- MODULE LockOrder -----------------------------
(***************************************************************************)
(* The tasks that meet at the mutexes of the event router and of the       *)
(* scheduler, and at the queues of events and of requests.  EventRouter,   *)
(* Scheduler and AgentCore look at one of them each and take the others to *)
(* answer; this module looks at who waits for whom while it holds what.    *)
(*                                                                         *)
(* A task does one call after the other, and a call is the list of the     *)
(* steps that may make it wait: taking a mutex (both are recursive and     *)
(* taken without a timeout), sending to a queue (with a timeout), and the  *)
(* giving back of a mutex.  What a call works on is left out, so an event  *)
(* is a place in its queue and a rule is the list of its actions.          *)
(***************************************************************************)
EXTENDS Naturals, SequencesExt

CONSTANTS
  Console,    \* tasks with calls of their own: console, HTTP, scripts
  SchedulerTask, RouterTask, AgentTask,
  RuleCalls,  \* what the actions of the rules call
  EventLen,   \* event_queue_len
  CoreQueueLen, \* request_queue_len
  MaxFires,   \* bound on the entries due in one pass
  MaxActions, \* bound on the actions for one event, the tools of one request
  MaxCalls    \* bound on the calls begun

LockTask == Console \cup {SchedulerTask, RouterTask, AgentTask}
CallName == {"trigger", "schedule", "rules", "publish", "submit"}
Mutex == {"router", "scheduler"}
Nobody == "nobody"

ASSUME LockAssumption ==
  /\ Cardinality({SchedulerTask, RouterTask, AgentTask}) = 3
  /\ Console \cap {SchedulerTask, RouterTask, AgentTask} = {}
  /\ Nobody \notin LockTask
  /\ RuleCalls \subseteq CallName
  /\ {EventLen, CoreQueueLen, MaxFires} \subseteq Nat \ {0}
  /\ {MaxActions, MaxCalls} \subseteq Nat

VARIABLES
  steps,     \* what each task still has to do in its call
  holder,    \* who holds each mutex
  depth,     \* how often
  events,    \* length of the event queue
  asked,  \* length of request_queue
  callsLeft  \* what MaxCalls leaves

lockVars == <<steps, holder, depth, events, asked, callsLeft>>

LockInit ==
  /\ steps = [t \in LockTask |-> <<>>]
  /\ holder = [m \in Mutex |-> Nobody] /\ depth = [m \in Mutex |-> 0]
  /\ events = 0 /\ asked = 0
  /\ callsLeft = MaxCalls

-----------------------------------------------------------------------------
(* What the calls are made of. *)

TakeStep(m) == [do |-> "take", mutex |-> m]
GiveStep(m) == [do |-> "give", mutex |-> m]
SendEvent == [do |-> "event"]
SendRequest == [do |-> "request"]

Under(m, list) == <<TakeStep(m)>> \o list \o <<GiveStep(m)>>

\* pending_track, and the place in the queue.
PublishEvent == Under("router", <<>>) \o <<SendEvent>>

\* publish_entry_locked calls the router from under the mutex of the scheduler.
FireEntries(n) == Under("scheduler", FlattenSeq([k \in 1..n |-> PublishEvent]))

CallSteps(name) ==
  CASE name = "trigger"  -> FireEntries(1)
    [] name = "schedule" -> Under("scheduler", <<>>)
    [] name = "rules"    -> Under("router", <<>>)
    [] name = "publish"  -> PublishEvent
    [] name = "submit"   -> <<SendRequest>>

CallsOf(names) == FlattenSeq([k \in DOMAIN names |-> CallSteps(names[k])])

\* process_event: the entry of the table is taken, and the actions run under
\* the mutex, or the agent is asked without it.
EventSteps(actions) ==
  Under("router", <<>>) \o
    IF actions = <<"agent">> THEN Under("router", <<>>) \o <<SendRequest>> \o Under("router", <<>>)
                             ELSE Under("router", CallsOf(actions))

Lists(names) == UNION {[1..n -> names] : n \in 0..MaxActions}

-----------------------------------------------------------------------------
(* A task begins a call. *)

BeginCall(t, list, calls) ==
  /\ steps[t] = <<>>
  /\ calls <= callsLeft
  /\ callsLeft' = callsLeft - calls
  /\ steps' = [steps EXCEPT ![t] = list]
  /\ UNCHANGED <<holder, depth>>

ConsoleCall(t) ==
  /\ \E name \in CallName : BeginCall(t, CallSteps(name), 1)
  /\ UNCHANGED <<events, asked>>

\* fire_due_entries.
FirePass ==
  /\ \E n \in 1..MaxFires : BeginCall(SchedulerTask, FireEntries(n), n)
  /\ UNCHANGED <<events, asked>>

\* claw_event_router_task.
RouteEvent ==
  /\ events > 0 /\ events' = events - 1
  /\ \E actions \in Lists(RuleCalls) \cup {<<"agent">>} :
       BeginCall(RouterTask, EventSteps(actions), Len(actions))
  /\ UNCHANGED asked

\* claw_core_task: the tools of the request, then the answer as an event
\* unless its caller takes it from the response queue.
ServeRequest ==
  /\ asked > 0 /\ asked' = asked - 1
  /\ \E tools \in Lists({"trigger", "schedule", "rules", "publish"}), answer \in BOOLEAN :
       BeginCall(AgentTask, CallsOf(tools) \o (IF answer THEN PublishEvent ELSE <<>>), Len(tools))
  /\ UNCHANGED events

-----------------------------------------------------------------------------
(* A task goes on with its call. *)

Doing(t, what) == steps[t] # <<>> /\ Head(steps[t]).do = what
Proceed(t, more) == steps' = [steps EXCEPT ![t] = more \o Tail(@)]

TakeMutex(t) ==
  /\ Doing(t, "take")
  /\ LET m == Head(steps[t]).mutex
     IN  /\ holder[m] \in {Nobody, t}
         /\ holder' = [holder EXCEPT ![m] = t]
         /\ depth' = [depth EXCEPT ![m] = @ + 1]
  /\ Proceed(t, <<>>)
  /\ UNCHANGED <<events, asked, callsLeft>>

GiveMutex(t) ==
  /\ Doing(t, "give")
  /\ LET m == Head(steps[t]).mutex
     IN  /\ depth' = [depth EXCEPT ![m] = @ - 1]
         /\ holder' = [holder EXCEPT ![m] = IF depth[m] = 1 THEN Nobody ELSE t]
  /\ Proceed(t, <<>>)
  /\ UNCHANGED <<events, asked, callsLeft>>

\* A place in the queue; or none for a second: what was tracked is withdrawn.
QueueEvent(t) ==
  /\ Doing(t, "event")
  /\ \/ events < EventLen /\ events' = events + 1 /\ Proceed(t, <<>>)
     \/ events = EventLen /\ UNCHANGED events /\ Proceed(t, Under("router", <<>>))
  /\ UNCHANGED <<holder, depth, asked, callsLeft>>

\* Variant: claw_core_submit waits for ever.
QueueRequestAtLast(t) ==
  /\ Doing(t, "request")
  /\ asked < CoreQueueLen /\ asked' = asked + 1
  /\ Proceed(t, <<>>)
  /\ UNCHANGED <<holder, depth, events, callsLeft>>

\* claw_core_submit, with a timeout of a second for the router.
QueueRequest(t) ==
  /\ Doing(t, "request")
  /\ asked' \in {asked + 1, asked} /\ asked' <= CoreQueueLen
  /\ asked' = asked => asked = CoreQueueLen
  /\ Proceed(t, <<>>)
  /\ UNCHANGED <<holder, depth, events, callsLeft>>

GoOn(t) == TakeMutex(t) \/ GiveMutex(t) \/ QueueEvent(t) \/ QueueRequest(t)
Going == \E t \in LockTask : GoOn(t)

LockNext ==
  \/ \E t \in Console : ConsoleCall(t)
  \/ FirePass \/ RouteEvent \/ ServeRequest
  \/ Going

\* The processor is not idle while a task can go on; nobody need begin a call.
\* Nothing is said of who comes first: calls are bounded, so all get there.
LockSpec == LockInit /\ [][LockNext]_lockVars
LockFairSpec == LockSpec /\ WF_lockVars(Going)

LockTypeOK ==
  /\ holder \in [Mutex -> LockTask \cup {Nobody}] /\ depth \in [Mutex -> Nat]
  /\ events \in 0..EventLen /\ asked \in 0..CoreQueueLen
  /\ callsLeft \in 0..MaxCalls

-----------------------------------------------------------------------------
(* Properties. *)

\* Every call returns: submissions from under the router's mutex, while the
\* agent waits for that mutex with its own queue full, and publications from
\* under either, while the only task that empties the event queue waits too.
\* This is so as long as no rule calls the scheduler.  As calls are bounded,
\* that each returns is that all have returned in the end.
CallsReturn == (\E t \in LockTask : steps[t] # <<>>) ~> (\A t \in LockTask : steps[t] = <<>>)

\* The scheduler goes on firing: cap_scheduler/SKILL.md, "If a schedule is
\* late by more than one scheduler tick, the runtime counts it as missed and
\* advances to the next fire time".
PassesEnd == steps[SchedulerTask] # <<>> ~> steps[SchedulerTask] = <<>>
=============================================================================
