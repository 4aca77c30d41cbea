---------------------------- MODULE CapRegistry ----------------------------
(***************************************************************************)
(* The capability registry claw_cap.c: a table of capability groups under  *)
(* one mutex, the calls of their capabilities, and the task that           *)
(* registers, enables, disables and unregisters groups.                    *)
(*                                                                         *)
(* A call looks its capability up under the mutex, counts itself in        *)
(* active_calls, runs the capability without the mutex, and counts itself  *)
(* out by the index it remembers.  The administration marks the state of a *)
(* group under the mutex and runs the start and stop callbacks of its      *)
(* plugin without it.  Administration is one task at a time in this        *)
(* program: the main task registers and starts the groups, the console     *)
(* task does the rest (app_capabilities.c, app_claw_cli.c,                 *)
(* cmd_cap_mcp_server.c are its only callers).                             *)
(*                                                                         *)
(* The descriptors of a group change state together and under one hold of  *)
(* the mutex, so a group is modelled with its descriptors as one slot; its *)
(* active calls are those of all of them.  Which groups an agent is shown  *)
(* in a session is left out.  Allocation does not fail.                    *)
(***************************************************************************)
EXTENDS Naturals, FiniteSets

CONSTANTS
  Plugin,    \* the groups that the program can register
  TableSize, \* group slots; the table grows when it must
  Call,      \* calls, a call made by a capability being one of its own
  NoPlugin,  \* the group of a free slot
  MaxPolls   \* the polls that fit in the timeout of unregister

ASSUME RegistryAssumption ==
  /\ IsFiniteSet(Call) /\ NoPlugin \notin Plugin
  /\ TableSize \in Nat \ {0} /\ MaxPolls \in Nat

TableSlot == 1..TableSize
None == 0

VARIABLES
  table,   \* group and state of each slot, the calls it counts
  started, \* s_runtime.started
  admin,   \* where the administration is: operation, group, slot, polls
  sweep,   \* the loop of start_all or stop_all and its index
  calling, \* the slot and the plugin of each call that executes
  live     \* history: what the callbacks have made of each plugin

registryVars == <<table, started, admin, sweep, calling, live>>

GroupStates == {"free", "registered", "started", "disabled", "draining", "unloading"}
FreeSlot == [group |-> NoPlugin, state |-> "free", active |-> 0]
AdminIdle == [op |-> "idle", group |-> NoPlugin, slot |-> None, polls |-> 0]
NoSweep == [kind |-> "none", at |-> None]
NoCall == [slot |-> None, group |-> NoPlugin]

RegistryInit ==
  /\ table = [s \in TableSlot |-> FreeSlot]
  /\ started = FALSE
  /\ admin = AdminIdle
  /\ sweep = NoSweep
  /\ calling = [c \in Call |-> NoCall]
  /\ live = [g \in Plugin |-> "off"]

SlotsOf(g) == {s \in TableSlot : table[s].group = g}
FirstFree == {s \in SlotsOf(NoPlugin) : \A t \in SlotsOf(NoPlugin) : s <= t}
Unloads(s) == table[s].state \in {"draining", "unloading"}
SetState(s, state) == table' = [table EXCEPT ![s].state = state]
Goto(op) == admin' = [admin EXCEPT !.op = op]
AdminDone == admin' = AdminIdle

-----------------------------------------------------------------------------
(* Calls. *)

CallableIn == {"registered", "started"}

\* Variant: only disabled groups are refused.
CallableUnlessDisabled == {"registered", "started", "draining", "unloading"}

\* Variant: every state but disabled can be called.
AvailableUnlessDisabled(s) == table[s].state \in CallableUnlessDisabled

Available(s) == table[s].state \in CallableIn

CallBegin(c, g) ==
  /\ calling[c] = NoCall
  /\ \E s \in SlotsOf(g) :
       /\ Available(s)
       /\ table' = [table EXCEPT ![s].active = @ + 1]
       /\ calling' = [calling EXCEPT ![c] = [slot |-> s, group |-> g]]
  /\ UNCHANGED <<started, admin, sweep, live>>

\* The capability has returned; the index may be that of a slot cleared since.
CallEnd(c) ==
  /\ calling[c] # NoCall
  /\ LET s == calling[c].slot
         counted == table[s].group # NoPlugin /\ table[s].active > 0
     IN  table' = IF counted THEN [table EXCEPT ![s].active = @ - 1] ELSE table
  /\ calling' = [calling EXCEPT ![c] = NoCall]
  /\ UNCHANGED <<started, admin, sweep, live>>

-----------------------------------------------------------------------------
(* Administration.  Begin looks a group up; the operations go on with the  *)
(* slot they found, across the callbacks they run without the mutex.       *)

Free == admin = AdminIdle /\ sweep = NoSweep

\* register_group: a name that is taken is refused; after start_all the
\* group is enabled at once.
RegisterGroup(g) ==
  /\ Free
  /\ SlotsOf(g) = {}
  /\ \E s \in FirstFree :
       table' = [table EXCEPT ![s] =
                   [group |-> g, state |-> "registered", active |-> 0]]
  /\ admin' = IF started THEN [AdminIdle EXCEPT !.op = "enable", !.group = g]
                         ELSE AdminIdle
  /\ UNCHANGED <<started, sweep, calling, live>>

Request(op, g) ==
  /\ Free
  /\ admin' = [AdminIdle EXCEPT !.op = op, !.group = g]
  /\ UNCHANGED <<table, started, sweep, calling, live>>

\* The requested operation finds no such group, or a group it leaves alone.
Refuse ==
  /\ \/ /\ admin.op \in {"enable", "disable", "unregister"}
        /\ SlotsOf(admin.group) = {}
     \/ \E s \in SlotsOf(admin.group) :
          \/ /\ admin.op = "enable"
             /\ Unloads(s) \/ (started /\ table[s].state = "started")
          \/ /\ admin.op = "disable"
             /\ Unloads(s) \/ table[s].state = "disabled"
          \/ /\ admin.op = "unregister"
             /\ table[s].state = "unloading"
  /\ AdminDone
  /\ UNCHANGED <<table, started, sweep, calling, live>>

\* enable_group: a started registry marks the group before its callbacks run.
EnableMark ==
  /\ admin.op = "enable"
  /\ \E s \in SlotsOf(admin.group) :
       /\ ~ Unloads(s)
       /\ IF started
          THEN /\ table[s].state # "started"
               /\ SetState(s, "started")
               /\ admin' = [admin EXCEPT !.op = "starting", !.slot = s]
          ELSE SetState(s, "registered") /\ AdminDone
  /\ UNCHANGED <<started, sweep, calling, live>>

\* group_start, then init and start of each descriptor, up to the first error.
StartCallbacks ==
  /\ admin.op = "starting"
  /\ \/ Goto("started") /\ live' = [live EXCEPT ![admin.group] = "on"]
     \/ /\ Goto("startFailed")
        /\ live' = [live EXCEPT ![admin.group] = IF @ = "off" THEN "partial" ELSE @]
  /\ UNCHANGED <<table, started, sweep, calling>>

EnableEnd ==
  /\ admin.op = "started"
  /\ IF table[admin.slot].state = "free" \/ Unloads(admin.slot)
     THEN UNCHANGED table
     ELSE SetState(admin.slot, "started")
  /\ AdminDone
  /\ UNCHANGED <<started, sweep, calling, live>>

\* Variant: a group whose start failed keeps the state it was given.
EnableRollbackForgotten ==
  /\ admin.op = "startFailed"
  /\ AdminDone
  /\ UNCHANGED <<table, started, sweep, calling, live>>

EnableRollback ==
  /\ admin.op = "startFailed"
  /\ IF table[admin.slot].state \in {"free", "disabled"} \/ Unloads(admin.slot)
     THEN UNCHANGED table
     ELSE SetState(admin.slot, "disabled")
  /\ AdminDone
  /\ UNCHANGED <<started, sweep, calling, live>>

DisableMark ==
  /\ admin.op = "disable"
  /\ \E s \in SlotsOf(admin.group) :
       /\ ~ Unloads(s) /\ table[s].state # "disabled"
       /\ SetState(s, "disabled")
       /\ admin' = [admin EXCEPT !.op = "stopping", !.slot = s]
  /\ UNCHANGED <<started, sweep, calling, live>>

\* Every stop callback runs, whatever the others return; what does not stop
\* stays as it is, and disable_group reports no error.
StopCallbacks(from, to) ==
  /\ admin.op = from
  /\ Goto(to)
  /\ \E stopped \in {"off", "failed"} : live' = [live EXCEPT ![admin.group] = stopped]
  /\ UNCHANGED <<table, started, sweep, calling>>

DisableEnd ==
  /\ admin.op = "stopped"
  /\ AdminDone
  /\ UNCHANGED <<table, started, sweep, calling, live>>

UnregisterMark ==
  /\ admin.op = "unregister"
  /\ \E s \in SlotsOf(admin.group) :
       /\ table[s].state # "unloading"
       /\ SetState(s, "draining")
       /\ admin' = [admin EXCEPT !.op = "draining", !.slot = s]
  /\ UNCHANGED <<started, sweep, calling, live>>

\* Variant: the deadline is not looked at.
DrainWaitForever ==
  /\ admin.op = "draining" /\ table[admin.slot].active > 0
  /\ admin' = [admin EXCEPT !.polls = (@ + 1) % (MaxPolls + 1)]
  /\ UNCHANGED <<table, started, sweep, calling, live>>

\* One turn of the poll loop: unload, or wait, or give up and leave the group
\* draining.
DrainWait ==
  /\ admin.op = "draining" /\ table[admin.slot].active > 0
  /\ admin.polls < MaxPolls
  /\ admin' = [admin EXCEPT !.polls = @ + 1]
  /\ UNCHANGED <<table, started, sweep, calling, live>>

DrainTimeout ==
  /\ admin.op = "draining" /\ table[admin.slot].active > 0
  /\ admin.polls = MaxPolls
  /\ AdminDone
  /\ UNCHANGED <<table, started, sweep, calling, live>>

DrainDone ==
  /\ admin.op = "draining" /\ table[admin.slot].active = 0
  /\ SetState(admin.slot, "unloading") /\ Goto("unloading")
  /\ UNCHANGED <<started, sweep, calling, live>>

ClearSlot ==
  /\ admin.op = "unloaded"
  /\ table' = [table EXCEPT ![admin.slot] = FreeSlot]
  /\ AdminDone
  /\ UNCHANGED <<started, sweep, calling, live>>

\* start_all and stop_all walk the table and enable or disable what they
\* find there.
SweepBegin(kind) ==
  /\ Free
  /\ kind = "start" => ~ started
  /\ started' = (started \/ kind = "start")
  /\ sweep' = [kind |-> kind, at |-> 1]
  /\ UNCHANGED <<table, admin, calling, live>>

SweepTakes(s) ==
  IF sweep.kind = "start" THEN table[s].state \notin {"free", "disabled"}
                          ELSE table[s].state = "started"

SweepStep ==
  /\ sweep # NoSweep /\ admin = AdminIdle
  /\ IF sweep.at \in TableSlot
     THEN /\ sweep' = [sweep EXCEPT !.at = @ + 1]
          /\ admin' = IF SweepTakes(sweep.at)
                      THEN [AdminIdle EXCEPT
                              !.op = IF sweep.kind = "start" THEN "enable" ELSE "disable",
                              !.group = table[sweep.at].group]
                      ELSE AdminIdle
          /\ UNCHANGED started
     ELSE /\ sweep' = NoSweep
          /\ started' = (sweep.kind = "start")
          /\ UNCHANGED admin
  /\ UNCHANGED <<table, calling, live>>

AdminStep ==
  \/ Refuse \/ EnableMark \/ StartCallbacks \/ EnableEnd \/ EnableRollback
  \/ DisableMark \/ StopCallbacks("stopping", "stopped") \/ DisableEnd
  \/ UnregisterMark \/ DrainWait \/ DrainTimeout \/ DrainDone
  \/ StopCallbacks("unloading", "unloaded") \/ ClearSlot \/ SweepStep

RegistryNext ==
  \/ \E c \in Call, g \in Plugin : CallBegin(c, g)
  \/ \E c \in Call : CallEnd(c)
  \/ \E g \in Plugin : RegisterGroup(g)
  \/ \E g \in Plugin, op \in {"enable", "disable", "unregister"} : Request(op, g)
  \/ \E kind \in {"start", "stop"} : SweepBegin(kind)
  \/ AdminStep

RegistrySpec == RegistryInit /\ [][RegistryNext]_registryVars

\* The administering task is never left without the processor for ever; a
\* capability may run as long as it likes, a request may never come.
RegistryFairSpec == RegistrySpec /\ WF_registryVars(AdminStep)

-----------------------------------------------------------------------------
(* Properties. *)

AdminOps == {"idle", "enable", "disable", "unregister", "starting", "started",
             "startFailed", "stopping", "stopped", "draining", "unloading", "unloaded"}

\* The type invariant of claw_cap.c's runtime: states, counts and indices.
RegistryTypeOK ==
  /\ table \in [TableSlot -> [group : Plugin \cup {NoPlugin}, state : GroupStates,
                              active : Nat]]
  /\ started \in BOOLEAN
  /\ admin \in [op : AdminOps, group : Plugin \cup {NoPlugin}, slot : 0..TableSize,
                polls : 0..MaxPolls]
  /\ sweep \in [kind : {"none", "start", "stop"}, at : 0..(TableSize + 1)]
  /\ calling \in [Call -> {NoCall} \cup [slot : TableSlot, group : Plugin]]
  /\ live \in [Plugin -> {"off", "partial", "on", "failed"}]

Inside(s) == {c \in Call : calling[c].slot = s}

\* active_calls of every slot is the number of calls that execute in the group
\* it holds: a slot is not cleared or given to another group under a call that
\* will come back to it by its index.
CallsCounted ==
  \A s \in TableSlot :
    /\ table[s].active = Cardinality(Inside(s))
    /\ \A c \in Inside(s) : calling[c].group = table[s].group

\* unregister_group never runs the stop callbacks of a plugin, nor clears its
\* slot, while one of the plugin's capabilities executes.
QuietUnload ==
  admin.op \in {"unloading", "unloaded"} =>
    \A c \in Call : calling[c].group # admin.group

\* Between two operations the state of a group is what its callbacks have
\* brought about: a group is started when all its start callbacks have
\* succeeded since the last stop, and a plugin that is up belongs to a group
\* that is started, or that an unregister gave up on.
StartedIsLive ==
  admin = AdminIdle =>
    /\ \A s \in TableSlot : table[s].state = "started" => live[table[s].group] = "on"
    /\ \A g \in Plugin : live[g] = "on" =>
         \E s \in SlotsOf(g) : table[s].state \in {"started", "draining"}

\* Every administrative operation returns, unregister_group too when a
\* capability of the group never does.
AdminReturns == (admin # AdminIdle) ~> (admin = AdminIdle)
=============================================================================
