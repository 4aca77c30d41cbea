------------------------------ MODULE LuaJobs ------------------------------
(***************************************************************************)
(* The asynchronous Lua jobs of cap_lua_async.c: a fixed table of slots    *)
(* under s_job_lock, one FreeRTOS task per job, a binary semaphore per     *)
(* slot that is given when the slot's job ends.  A submit call looks for a *)
(* conflict, perhaps stops the job in its way, looks again and commits,    *)
(* creates the task, and last marks the slot as running: four critical     *)
(* sections, between which the script may have run to its end and other    *)
(* calls may have come and gone.                                           *)
(*                                                                         *)
(* Each action is one critical section or one step on a semaphore.  A Job  *)
(* stands for one submit call, the random id it draws and the task it      *)
(* creates; ids are taken to be distinct.  The lock is never held for the  *)
(* 200 ms to 1 s after which a call would give up on it.                   *)
(***************************************************************************)
EXTENDS Naturals, FiniteSets

CONSTANTS
  Job, Name, Group, Replace,   \* submissions: name, exclusive group, replace
  Nothing,                     \* the empty name, the empty group, no job
  Stopper, Watcher,            \* calls of stop_job and stop_all, wait_settle
  MaxJobs, MaxConcurrent       \* CAP_LUA_ASYNC_MAX_JOBS, _MAX_CONCURRENT

ASSUME ConstantsAssumption ==
  /\ IsFiniteSet(Job) /\ Nothing \notin Job
  /\ Replace \subseteq Job
  /\ DOMAIN Name = Job /\ DOMAIN Group = Job
  /\ Stopper \cap Job = {} /\ Watcher \cap Job = {} /\ Stopper \cap Watcher = {}
  /\ MaxJobs \in Nat \ {0} /\ MaxConcurrent \in Nat \ {0}

Slot == 1..MaxJobs
Proc == Job \cup Stopper \cup Watcher

VARIABLES
  owner,    \* job_id of each slot, Nothing if the slot is not used
  status,   \* status of each slot
  stop,     \* stop_requested of each slot
  sem,      \* s_slot_terminal_sem
  running,  \* s_running_jobs
  pc,       \* how far each call has got
  retried,  \* submissions on their second attempt
  todo,     \* the <<slot, job_id>> each call has still to stop or to watch
  slotOf,   \* the slot each submission has committed to
  task,     \* the task of each job
  meant,    \* history: the jobs some call decided to stop
  told      \* history: the jobs each stop call was told have stopped

table == <<owner, status, stop>>
calls == <<pc, retried, todo, slotOf>>
vars  == <<owner, status, stop, sem, running, pc, retried, todo, slotOf,
           task, meant, told>>

Terminal(s) == status[s] \in {"ended", "stopped"}
Active(s)   == owner[s] # Nothing /\ ~ Terminal(s)
Lowest(S)   == {s \in S : \A t \in S : s <= t}

SameName(j, k)  == Name[j] # Nothing /\ Name[j] = Name[k]
SameGroup(j, k) == Group[j] # Nothing /\ Group[j] = Group[k]

\* The slots in the way of j: by name, and failing that by group.
Holders(j) ==
  LET byName == {s \in Slot : Active(s) /\ SameName(j, owner[s])}
  IN  IF byName # {} THEN byName
      ELSE {s \in Slot : Active(s) /\ SameGroup(j, owner[s])}

\* Variant: a job that only waits for its task is overwritten.
ReusableQueued ==
  LET unused == {s \in Slot : owner[s] = Nothing}
  IN  IF unused # {} THEN Lowest(unused)
      ELSE {s \in Slot : status[s] # "running"}

\* The first unused slot, or else the terminal slot that finished first by a
\* wall clock that ticks in seconds and may be set: any terminal slot.
Reusable ==
  LET unused == {s \in Slot : owner[s] = Nothing}
  IN  IF unused # {} THEN Lowest(unused) ELSE {s \in Slot : Terminal(s)}

Init ==
  /\ owner = [s \in Slot |-> Nothing]
  /\ status = [s \in Slot |-> "queued"]
  /\ stop = [s \in Slot |-> FALSE]
  /\ sem = [s \in Slot |-> FALSE]
  /\ running = 0
  /\ pc = [p \in Proc |-> "idle"]
  /\ retried = {}
  /\ todo = [p \in Proc |-> {}]
  /\ slotOf = [j \in Job |-> 0]
  /\ task = [j \in Job |-> "none"]
  /\ meant = {}
  /\ told = [w \in Stopper |-> {}]

Goto(p, label) == pc' = [pc EXCEPT ![p] = label]

-----------------------------------------------------------------------------
\* cap_lua_async_submit: one critical section per action.

Submit(j) ==
  /\ pc[j] = "idle"
  /\ Goto(j, "check")
  /\ UNCHANGED <<table, sem, running, retried, todo, slotOf, task, meant, told>>

\* The pre-flight: stop the holder, give up, or go on without the lock.
Check(j) ==
  /\ pc[j] = "check"
  /\ IF Holders(j) # {}
     THEN IF j \in Replace
          THEN \E s \in Lowest(Holders(j)) :
               /\ todo' = [todo EXCEPT ![j] = {<<s, owner[s]>>}]
               /\ meant' = meant \cup {owner[s]}
               /\ Goto(j, "request")
          ELSE Goto(j, "refused") /\ UNCHANGED <<todo, meant>>
     ELSE /\ Goto(j, IF running >= MaxConcurrent THEN "refused" ELSE "commit")
          /\ UNCHANGED <<todo, meant>>
  /\ UNCHANGED <<table, sem, running, retried, slotOf, task, told>>

Occupy(j, s) ==
  /\ owner' = [owner EXCEPT ![s] = j]
  /\ status' = [status EXCEPT ![s] = "queued"]
  /\ stop' = [stop EXCEPT ![s] = FALSE]
  /\ sem' = [sem EXCEPT ![s] = FALSE]
  /\ running' = running + 1
  /\ slotOf' = [slotOf EXCEPT ![j] = s]
  /\ Goto(j, "spawn")
  /\ UNCHANGED retried

\* Variant: what the pre-flight found is believed.
CommitUnchecked(j) ==
  /\ pc[j] = "commit" /\ Reusable # {} /\ running < MaxConcurrent
  /\ \E s \in Reusable : Occupy(j, s)
  /\ UNCHANGED <<todo, task, meant, told>>

\* The recheck.  Losing the race to a conflicting job is retried once.
Commit(j) ==
  /\ pc[j] = "commit"
  /\ \/ /\ running < MaxConcurrent /\ Holders(j) = {}
        /\ \E s \in Reusable : Occupy(j, s)
     \/ /\ running < MaxConcurrent /\ Holders(j) # {}
        /\ Goto(j, IF j \in retried THEN "refused" ELSE "check")
        /\ retried' = retried \cup {j}
        /\ UNCHANGED <<table, sem, running, slotOf>>
     \/ /\ running >= MaxConcurrent \/ (Holders(j) = {} /\ Reusable = {})
        /\ Goto(j, "refused")
        /\ UNCHANGED <<table, sem, running, retried, slotOf>>
  /\ UNCHANGED <<todo, task, meant, told>>

Spawn(j) ==
  /\ pc[j] = "spawn"
  /\ task' = [task EXCEPT ![j] = "running"]
  /\ Goto(j, "mark")
  /\ UNCHANGED <<table, sem, running, retried, todo, slotOf, meant, told>>

\* Variant: the count is not taken back.
SpawnFailsKeepsCount(j) ==
  /\ pc[j] = "spawn"
  /\ owner' = [owner EXCEPT ![slotOf[j]] = Nothing]
  /\ status' = [status EXCEPT ![slotOf[j]] = "queued"]
  /\ stop' = [stop EXCEPT ![slotOf[j]] = FALSE]
  /\ Goto(j, "refused")
  /\ UNCHANGED <<sem, running, retried, todo, slotOf, task, meant, told>>

\* No memory for the task: the slot is cleared, the semaphore is not given.
SpawnFails(j) ==
  /\ pc[j] = "spawn"
  /\ owner' = [owner EXCEPT ![slotOf[j]] = Nothing]
  /\ status' = [status EXCEPT ![slotOf[j]] = "queued"]
  /\ stop' = [stop EXCEPT ![slotOf[j]] = FALSE]
  /\ running' = IF running > 0 THEN running - 1 ELSE 0
  /\ Goto(j, "refused")
  /\ UNCHANGED <<sem, retried, todo, slotOf, task, meant, told>>

\* Whatever has become of the slot since, it is marked as running.
Mark(j) ==
  /\ pc[j] = "mark"
  /\ status' = [status EXCEPT ![slotOf[j]] = "running"]
  /\ Goto(j, "accepted")
  /\ UNCHANGED <<owner, stop, sem, running, retried, todo, slotOf, task,
                 meant, told>>

-----------------------------------------------------------------------------
\* cap_lua_job_task: the script ends, by itself or because it is told to.

Finish(j) ==
  /\ task[j] = "running"
  /\ LET s == slotOf[j] IN
       IF owner[s] = j
       THEN /\ status' = [status EXCEPT ![s] = IF stop[s] THEN "stopped" ELSE "ended"]
            /\ task' = [task EXCEPT ![j] = "giving"]
       ELSE /\ task' = [task EXCEPT ![j] = "gone"]
            /\ UNCHANGED status
  /\ running' = IF running > 0 THEN running - 1 ELSE 0
  /\ UNCHANGED <<owner, stop, sem, calls, meant, told>>

\* The semaphore is given after the lock: the slot may be another job's.
Give(j) ==
  /\ task[j] = "giving"
  /\ sem' = [sem EXCEPT ![slotOf[j]] = TRUE]
  /\ task' = [task EXCEPT ![j] = "gone"]
  /\ UNCHANGED <<table, running, calls, meant, told>>

-----------------------------------------------------------------------------
\* stop_job names a slot's job by its id, or by its name while it is active;
\* stop_all takes the active jobs of a group, or all, in slot order.

StopJob(w) ==
  /\ pc[w] = "idle"
  /\ \E s \in Slot :
       /\ owner[s] # Nothing
       /\ todo' = [todo EXCEPT ![w] = {<<s, owner[s]>>}]
       /\ meant' = meant \cup {owner[s]}
  /\ Goto(w, "request")
  /\ UNCHANGED <<table, sem, running, retried, slotOf, task, told>>

Wanted(s, g) == Active(s) /\ (g = Nothing \/ Group[owner[s]] = g)

StopAll(w) ==
  /\ pc[w] = "idle"
  /\ \E g \in {Nothing} \cup {Group[j] : j \in Job} :
       LET wanted == {s \in Slot : Wanted(s, g)}
       IN  /\ todo' = [todo EXCEPT ![w] = {<<s, owner[s]>> : s \in wanted}]
           /\ meant' = meant \cup {owner[s] : s \in wanted}
           /\ Goto(w, IF wanted = {} THEN "returned" ELSE "request")
  /\ UNCHANGED <<table, sem, running, retried, slotOf, task, told>>

\* cap_lua_async_wait_settle: a waiter that asks for nothing.
Watch(w) ==
  /\ pc[w] = "idle"
  /\ \E s \in Slot :
       /\ owner[s] # Nothing
       /\ todo' = [todo EXCEPT ![w] = {<<s, owner[s]>>}]
       /\ Goto(w, IF Terminal(s) THEN "returned" ELSE "probe")
  /\ UNCHANGED <<table, sem, running, retried, slotOf, task, meant, told>>

-----------------------------------------------------------------------------
\* cap_lua_stop_slot_and_wait and cap_lua_wait_for_terminal.

\* The target a call is busy with; stop_all goes through its own by slot.
Current(p) == {t \in todo[p] : \A u \in todo[p] : t[1] <= u[1]}

\* The call goes on with the answer: found, stopped, or too late.
Answer(p, t, answer) ==
  /\ todo' = [todo EXCEPT ![p] = @ \ {t}]
  /\ Goto(p, IF p \in Job THEN IF answer = "timeout" THEN "refused" ELSE "check"
             ELSE IF p \in Stopper /\ todo[p] # {t} THEN "request"
             ELSE "returned")
  /\ told' = IF p \in Stopper /\ answer = "ok"
             THEN [told EXCEPT ![p] = @ \cup {t[2]}] ELSE told

AskToStop(p, s) ==
  /\ stop' = [stop EXCEPT ![s] = TRUE]
  /\ Goto(p, "probe")
  /\ UNCHANGED <<todo, told>>

\* Variant: whatever job is in the slot by now is stopped.
RequestUnchecked(p) ==
  /\ pc[p] = "request"
  /\ \E t \in Current(p) :
       IF ~ Active(t[1]) THEN Answer(p, t, "ok") /\ UNCHANGED stop
       ELSE AskToStop(p, t[1])
  /\ UNCHANGED <<owner, status, sem, running, retried, slotOf, task, meant>>

\* Variant: a job somebody else has asked to stop counts as stopped.
RequestOnce(p) ==
  /\ pc[p] = "request"
  /\ \E t \in Current(p) :
       IF ~ Active(t[1]) \/ stop[t[1]]
       THEN Answer(p, t, "ok") /\ UNCHANGED stop
       ELSE AskToStop(p, t[1])
  /\ UNCHANGED <<owner, status, sem, running, retried, slotOf, task, meant>>

Request(p) ==
  /\ pc[p] = "request"
  /\ \E t \in Current(p) :
       IF owner[t[1]] # t[2]
       THEN Answer(p, t, "not found") /\ UNCHANGED stop
       ELSE IF Terminal(t[1]) THEN Answer(p, t, "ok") /\ UNCHANGED stop
       ELSE AskToStop(p, t[1])
  /\ UNCHANGED <<owner, status, sem, running, retried, slotOf, task, meant>>

Probe(p) ==
  /\ pc[p] = "probe"
  /\ \E t \in Current(p) :
       IF ~ Active(t[1]) THEN Answer(p, t, "ok")
       ELSE Goto(p, "wait") /\ UNCHANGED <<todo, told>>
  /\ UNCHANGED <<table, sem, running, retried, slotOf, task, meant>>

\* The semaphore wakes one waiter; each wait also ends by its timeout.
Wake(p) ==
  /\ pc[p] = "wait"
  /\ \E t \in Current(p) :
       sem[t[1]] /\ sem' = [sem EXCEPT ![t[1]] = FALSE]
  /\ Goto(p, "recheck")
  /\ UNCHANGED <<table, running, retried, todo, slotOf, task, meant, told>>

WaitTimeout(p) ==
  /\ pc[p] = "wait"
  /\ \E t \in Current(p) : ~ sem[t[1]]
  /\ Goto(p, "recheck")
  /\ UNCHANGED <<table, sem, running, retried, todo, slotOf, task, meant, told>>

\* Variant: a wait that was woken is taken for an end.
RecheckTrusts(p) ==
  /\ pc[p] = "recheck"
  /\ \E t \in Current(p) : Answer(p, t, "ok")
  /\ UNCHANGED <<table, sem, running, retried, slotOf, task, meant>>

\* Only the slot is looked at, not whose it is.
Recheck(p) ==
  /\ pc[p] = "recheck"
  /\ \E t \in Current(p) :
       Answer(p, t, IF Active(t[1]) THEN "timeout" ELSE "ok")
  /\ UNCHANGED <<table, sem, running, retried, slotOf, task, meant>>

-----------------------------------------------------------------------------
SubmitStep(j) == Check(j) \/ Commit(j) \/ Spawn(j) \/ SpawnFails(j) \/ Mark(j)
WaitStep(p)   == Request(p) \/ Probe(p) \/ Wake(p) \/ WaitTimeout(p) \/ Recheck(p)

Next ==
  \/ \E j \in Job : Submit(j) \/ SubmitStep(j) \/ Finish(j) \/ Give(j)
  \/ \E w \in Stopper : StopJob(w) \/ StopAll(w)
  \/ \E w \in Watcher : Watch(w)
  \/ \E p \in Proc : WaitStep(p)

Spec == Init /\ [][Next]_vars

\* A call under way goes on, and a task gives its semaphore.  Nothing says
\* that a script ends.
FairSpec ==
  /\ Spec
  /\ \A j \in Job : WF_vars(SubmitStep(j)) /\ WF_vars(Give(j))
  /\ \A p \in Proc : WF_vars(WaitStep(p))

-----------------------------------------------------------------------------
Label == {"idle", "check", "request", "probe", "wait", "recheck", "commit",
          "spawn", "mark", "accepted", "refused", "returned"}

\* The type of every variable; the count of jobs never exceeds the limit.
TypeOK ==
  /\ owner \in [Slot -> Job \cup {Nothing}]
  /\ status \in [Slot -> {"queued", "running", "ended", "stopped"}]
  /\ stop \in [Slot -> BOOLEAN] /\ sem \in [Slot -> BOOLEAN]
  /\ running \in 0..MaxConcurrent
  /\ pc \in [Proc -> Label]
  /\ retried \subseteq Job
  /\ todo \in [Proc -> SUBSET (Slot \X Job)]
  /\ slotOf \in [Job -> 0..MaxJobs]
  /\ task \in [Job -> {"none", "running", "giving", "gone"}]
  /\ meant \subseteq Job
  /\ told \in [Stopper -> SUBSET Job]

Live == {j \in Job : task[j] = "running"}

\* s_running_jobs counts the scripts that run and the submissions about to
\* start one: no order of a failed task creation, an early end and a late
\* mark makes it drift, so the limit is neither passed nor lost for ever.
CountExact ==
  running = Cardinality(Live \cup {j \in Job : pc[j] = "spawn"})

\* Two scripts that share a name or an exclusive group never run at the same
\* time, although the conflict is looked for outside the section that commits.
ScriptsExclude ==
  \A j, k \in Live : j # k => ~ SameName(j, k) /\ ~ SameGroup(j, k)

\* A script polls the stop flag of its own slot as long as it runs: the slot
\* is not given to another submission under it.
ScriptKeepsSlot == \A j \in Live : owner[slotOf[j]] = j

\* Who is told that a job has stopped can rely on it: its script is over,
\* although the wait ends by looking at the slot and not at the job.
StoppedIsOver == \A w \in Stopper : told[w] \cap Live = {}

\* A job's stop flag is only ever set by a call that decided to stop that
\* very job, although slots are reused between the decision and the request.
StoppedWasMeant ==
  \A s \in Slot : owner[s] # Nothing /\ stop[s] => owner[s] \in meant

\* Every submit, stop and wait call returns, even if no script ever ends.
CallReturns ==
  \A p \in Proc : pc[p] # "idle" ~> pc[p] \in {"accepted", "refused", "returned"}

\* "Active jobs with the same `exclusive` group cannot coexist."
ActiveExclude ==
  \A s, t \in Slot :
    Active(s) /\ Active(t) /\ s # t => ~ SameGroup(owner[s], owner[t])
=============================================================================
