----------------------------- MODULE Scheduler -----------------------------
(***************************************************************************)
(* The scheduler of cap_scheduler.c: entries that publish an event at      *)
(* their time, kept in memory, in a definitions file (schedules.json) and  *)
(* in a runtime state blob in NVS.  Every operation runs as a whole under  *)
(* one recursive mutex and is one action; the scheduler task looks for due *)
(* entries once a tick.  Most operations, and the task, read the clock     *)
(* before they take the mutex: they work with any reading that the clock   *)
(* has given since the device started.                                     *)
(*                                                                         *)
(* The unit of time is one tick.  clock is what gettimeofday says: the     *)
(* time since power-on until the first synchronisation, the wall clock     *)
(* afterwards.  A write may fail, noticed or not, and so may a reading of  *)
(* the blob; a crash in the middle of an operation leaves on disk what a   *)
(* failed write followed by a crash leaves.  Cron                          *)
(* entries differ from interval entries with a start only in their grid    *)
(* and are left out.                                                       *)
(***************************************************************************)
EXTENDS Integers, FiniteSets

CONSTANTS
  Id,           \* ids of entries
  Item,         \* items: kind, start, interval, end, maxRuns
  Given,        \* the definitions that callers give: an item, enabled or not
  NoEntry,
  Epoch,        \* the wall clock at the beginning
  MaxWall,      \* bound: the wall clock at the end
  MaxRunCount,  \* bound: events published for one entry
  MaxFaults,    \* bound: accesses that fail
  MaxCrashes    \* bound: crashes

ItemType == [kind : {"once", "interval"}, start : Nat, interval : Nat,
             end : Nat, maxRuns : Nat]

\* cap_scheduler_validate_item.
Valid(item) == IF item.kind = "once" THEN item.start > 0 ELSE item.interval > 0

\* What the file, the blob and the memory hold of an entry.  "running" lasts
\* only as long as the mutex is held, so it is neither seen nor saved.
Status == {"scheduled", "paused", "completed", "error", "disabled"}
Definition == [item : Item, enabled : BOOLEAN]
RunState == [status : Status, next : Int, last : Nat, runs : 0..MaxRunCount]
Entry == [item : Item, enabled : BOOLEAN, status : Status, next : Int,
          last : Nat, runs : 0..MaxRunCount]

ASSUME ConstantsAssumption ==
  /\ Item \subseteq ItemType /\ \A item \in Item : Valid(item)
  /\ Given \subseteq Definition
  /\ NoEntry \notin Definition \cup RunState \cup Entry
  /\ Epoch \in Nat \ {0} /\ MaxWall \in Nat /\ Epoch <= MaxWall
  /\ MaxRunCount \in Nat /\ MaxFaults \in Nat /\ MaxCrashes \in Nat

VARIABLES
  entries,   \* s_cap_scheduler.entries, by id
  defs,      \* the definitions file; torn after a write that broke off
  torn,
  blob,      \* the runtime state in NVS
  up,        \* cap_scheduler_init has loaded the entries
  clock, wall,
  timeValid, \* time_valid
  seen,      \* readings of the clock since the start, for those who still wait
             \* for the mutex with one of them in now_ms
  faults, crashes,  \* so far
  held,      \* history: ids whose pause was confirmed and not yet lifted
  dirty,     \* history: ids whose last operation reported a failure
  doubt,     \* history: the last save of the state failed
  lastSlot,  \* history: the planned time last published by the task under the
             \* present definition, 0 for none
  excused    \* history: ids of which a time may be published again: the save
             \* after a publish failed, a trigger saved a last_fire_ms from before
             \* the clock was right, or a call planned the entry with a reading
             \* of the clock from before its last published time

disk  == <<defs, torn, blob>>
time  == <<clock, wall, timeValid, seen>>
vars  == <<entries, defs, torn, blob, up, clock, wall, timeValid, seen, faults, crashes,
           held, dirty, doubt, lastSlot, excused>>

Present(i) == up /\ entries[i] # NoEntry

-----------------------------------------------------------------------------
\* Variant: a time that is just reached counts as the next one.
NextFireInclusive(item, anchor, runs) ==
  LET grid == item.start + item.interval * ((anchor - item.start) \div item.interval)
      t == IF item.maxRuns > 0 /\ runs >= item.maxRuns THEN -1
           ELSE IF item.kind = "once" THEN IF anchor > item.start THEN -1 ELSE item.start
           ELSE IF item.start = 0 THEN anchor + item.interval
           ELSE IF anchor < item.start THEN item.start ELSE grid
  IN  IF item.end > 0 /\ t > item.end THEN -1 ELSE t

\* cap_scheduler_compute_next_fire of an enabled item, -1 for never.
NextFire(item, anchor, runs) ==
  LET grid == item.start + item.interval * ((anchor - item.start) \div item.interval + 1)
      t == IF item.maxRuns > 0 /\ runs >= item.maxRuns THEN -1
           ELSE IF item.kind = "once" THEN IF anchor >= item.start THEN -1 ELSE item.start
           ELSE IF item.start = 0 THEN anchor + item.interval
           ELSE IF anchor < item.start THEN item.start ELSE grid
  IN  IF item.end > 0 /\ t > item.end THEN -1 ELSE t

NeedsTime(item) == ~ (item.kind = "interval" /\ item.start = 0 /\ item.end = 0)

Refresh(e, anchor, valid) ==
  IF ~ e.enabled THEN [e EXCEPT !.status = "disabled", !.next = -1]
  ELSE IF e.status = "paused" THEN e
  ELSE IF ~ valid /\ NeedsTime(e.item)
       THEN [e EXCEPT !.status = "scheduled", !.next = -1]
  ELSE LET t == NextFire(e.item, anchor, e.runs) IN
       [e EXCEPT !.next = t, !.status = IF t < 0 THEN "completed" ELSE "scheduled"]

Planned(e, immediate, now) == IF immediate \/ e.next <= 0 THEN now ELSE e.next

\* The entry after publish_event: running, then done, refreshed or in error.
Publish(e, immediate, sent, now) ==
  LET fired == [e EXCEPT !.status = "running", !.last = now,
                         !.runs = IF sent THEN @ + 1 ELSE @]
  IN  IF ~ sent THEN [fired EXCEPT !.status = "error"]
      ELSE IF e.item.kind = "once"
           THEN [fired EXCEPT !.next = -1, !.status = "completed"]
      ELSE Refresh(fired, Planned(e, immediate, now), timeValid)

-----------------------------------------------------------------------------
\* Saving.  A definitions write fails before or after the old file is gone, or
\* unnoticed, in the fclose whose result nobody looks at.  An NVS write fails
\* before or after the new blob is there, or in the reading back, after which
\* the blob is erased.

DefsOf(es)  == [i \in Id |-> IF es[i] = NoEntry THEN NoEntry
                             ELSE [item |-> es[i].item, enabled |-> es[i].enabled]]
StateOf(es) == [i \in Id |-> IF es[i] = NoEntry THEN NoEntry
                             ELSE [status |-> es[i].status, next |-> es[i].next,
                                   last |-> es[i].last, runs |-> es[i].runs]]

Empty == [i \in Id |-> NoEntry]

Faults(n) == faults' = faults + n /\ faults' <= MaxFaults
Count(fault) == IF fault THEN 1 ELSE 0

\* cap_scheduler_write_file, whose result is saved.
SaveDefs(es, saved) ==
  IF saved THEN defs' = DefsOf(es) /\ torn' \in BOOLEAN
           ELSE UNCHANGED defs /\ torn' \in {torn, TRUE}

\* cap_scheduler_write_state_file, whose result is saved.
SaveState(es, saved) ==
  /\ blob' \in IF saved THEN {StateOf(es)} ELSE {blob, StateOf(es), Empty}
  /\ doubt' = ~ saved

\* cap_scheduler_persist_runtime_state_locked.
PersistState(es, saved) ==
  /\ SaveState(es, saved)
  /\ Faults(Count(~ saved))
  /\ UNCHANGED <<defs, torn, crashes>>

\* cap_scheduler_persist_all_locked: the definitions, and only then the state.
PersistAll(es, saved) ==
  /\ \/ /\ SaveDefs(es, TRUE) /\ SaveState(es, saved)
        /\ Faults(Count(~ saved) + Count(torn'))
     \/ /\ ~ saved /\ SaveDefs(es, FALSE)
        /\ Faults(1) /\ UNCHANGED <<blob, doubt>>
  /\ UNCHANGED crashes

\* What the operations on definitions share: save, or restore the entry.
Change(i, es, saved) ==
  /\ PersistAll(es, saved)
  /\ entries' = IF saved THEN es ELSE entries
  /\ dirty' = IF saved THEN {} ELSE dirty \cup {i}
  /\ UNCHANGED <<up, time>>

\* The planned time of i was published after the clock was read.
Overtaken(i, now) == now < lastSlot[i] /\ lastSlot[i] <= clock

-----------------------------------------------------------------------------
\* The operations.

Add(i, item, enabled, now, saved) ==
  /\ up /\ entries[i] = NoEntry
  /\ LET e == [item |-> item, enabled |-> enabled, next |-> 0, last |-> 0, runs |-> 0,
               status |-> IF enabled THEN "scheduled" ELSE "disabled"]
     IN  Change(i, [entries EXCEPT ![i] = Refresh(e, now, timeValid)], saved)
  /\ lastSlot' = [lastSlot EXCEPT ![i] = 0] /\ excused' = excused \ {i}
  /\ held' = held \ {i}

\* Variant: the next time of the old definition is kept.
UpdateKeepsTime(i, item, enabled, now, saved) ==
  /\ Present(i)
  /\ LET e == [entries[i] EXCEPT !.item = item, !.enabled = enabled]
     IN  Change(i, [entries EXCEPT ![i] = e], saved)
  /\ lastSlot' = [lastSlot EXCEPT ![i] = 0] /\ excused' = excused \ {i}
  /\ UNCHANGED held

\* The entry keeps its status, its counters and, while it is paused, its time;
\* what was published under the old definition is no concern of the new one.
Update(i, item, enabled, now, saved) ==
  /\ Present(i)
  /\ LET e == [entries[i] EXCEPT !.item = item, !.enabled = enabled]
         new == IF e.status = "paused" THEN e ELSE Refresh(e, now, timeValid)
     IN  Change(i, [entries EXCEPT ![i] = new], saved)
  /\ lastSlot' = [lastSlot EXCEPT ![i] = 0] /\ excused' = excused \ {i}
  /\ UNCHANGED held

Remove(i, saved) ==
  /\ Present(i)
  /\ Change(i, [entries EXCEPT ![i] = NoEntry], saved)
  /\ held' = IF saved THEN held \ {i} ELSE held
  /\ lastSlot' = IF saved THEN [lastSlot EXCEPT ![i] = 0] ELSE lastSlot
  /\ excused' = IF saved THEN excused \ {i} ELSE excused

Enabled(i, enabled, now) ==
  Refresh([entries[i] EXCEPT !.enabled = enabled,
             !.status = IF enabled THEN "scheduled" ELSE "disabled"],
          now, timeValid)

\* Variant: only the runtime state is saved.
EnableStateOnly(i, enabled, now, saved) ==
  /\ Present(i)
  /\ LET es == [entries EXCEPT ![i] = Enabled(i, enabled, now)] IN
       /\ PersistState(es, saved)
       /\ entries' = IF saved THEN es ELSE entries
  /\ dirty' = IF saved THEN {} ELSE dirty
  /\ held' = IF saved THEN held \ {i} ELSE held
  /\ UNCHANGED <<up, time, excused, lastSlot>>

Enable(i, enabled, now, saved) ==
  /\ Present(i)
  /\ Change(i, [entries EXCEPT ![i] = Enabled(i, enabled, now)], saved)
  /\ held' = IF saved THEN held \ {i} ELSE held
  /\ excused' = IF Overtaken(i, now) THEN excused \cup {i} ELSE excused
  /\ UNCHANGED lastSlot

\* Variant: the pause is not saved.
PauseUnsaved(i, saved) ==
  /\ Present(i) /\ saved
  /\ entries' = [entries EXCEPT ![i].status = "paused"]
  /\ held' = held \cup {i}
  /\ UNCHANGED <<disk, up, time, faults, crashes, dirty, doubt, lastSlot, excused>>

Pause(i, saved) ==
  /\ Present(i)
  /\ LET es == [entries EXCEPT ![i].status = "paused"] IN
       /\ PersistState(es, saved)
       /\ entries' = IF saved THEN es ELSE entries
  /\ held' = IF saved THEN held \cup {i} ELSE held
  /\ UNCHANGED <<up, time, dirty, lastSlot, excused>>

\* The refresh of a paused entry does nothing.
Resume(i, now, saved) ==
  /\ Present(i)
  /\ LET es == [entries EXCEPT ![i] = Refresh(@, now, timeValid)] IN
       /\ PersistState(es, saved)
       /\ entries' = IF saved THEN es ELSE entries
  /\ held' = held \ {i}
  /\ excused' = IF Overtaken(i, now) THEN excused \cup {i} ELSE excused
  /\ UNCHANGED <<up, time, dirty, lastSlot>>

\* Publishes whatever the status, and keeps the result if saving fails.
TriggerNow(i, sent, saved) ==
  /\ Present(i)
  /\ entries[i].runs < MaxRunCount
  /\ entries' = [entries EXCEPT ![i] = Publish(@, TRUE, sent, clock)]
  /\ PersistState(entries', saved)
  /\ excused' = IF timeValid THEN excused ELSE excused \cup {i}
  /\ held' = held \ {i}
  /\ UNCHANGED <<up, time, dirty, lastSlot>>

-----------------------------------------------------------------------------
\* The task.

Due(now) == {i \in Id : /\ Present(i) /\ entries[i].enabled
                        /\ entries[i].status # "paused"
                        /\ 0 < entries[i].next /\ entries[i].next <= now}
Missed(now) == {i \in Due(now) : now > entries[i].next + 1}

\* All due entries in one pass: the late ones are missed, the others
\* published, and of these the router refuses some.
FireDue(sent, now, saved) ==
  /\ Due(now) # {} /\ sent \subseteq Due(now) \ Missed(now)
  /\ \A i \in sent : entries[i].runs < MaxRunCount
  /\ entries' = [i \in Id |->
       IF i \in Missed(now) THEN Refresh(entries[i], now, timeValid)
       ELSE IF i \in Due(now) THEN Publish(entries[i], FALSE, i \in sent, now)
       ELSE entries[i]]
  /\ PersistState(entries', saved)
  /\ lastSlot' = [i \in Id |-> IF i \in sent THEN entries[i].next ELSE lastSlot[i]]
  /\ excused' = IF saved THEN excused \ sent ELSE excused \cup sent
  /\ UNCHANGED <<up, time, held, dirty>>

-----------------------------------------------------------------------------
\* Loading, time and crashes.

\* The entries that the file and the blob give, before they are refreshed; a
\* blob that cannot be read counts as none.
Loaded(read) == [i \in Id |->
  IF defs[i] = NoEntry THEN NoEntry
  ELSE LET s == IF read /\ blob[i] # NoEntry THEN blob[i]
                ELSE [status |-> IF defs[i].enabled THEN "scheduled" ELSE "disabled",
                      next |-> -1, last |-> 0, runs |-> 0]
       IN  [item |-> defs[i].item, enabled |-> defs[i].enabled, status |-> s.status,
            next |-> s.next, last |-> s.last, runs |-> s.runs]]

\* cap_scheduler_load_from_disk_locked, which writes both stores anew and goes
\* on if either write fails.  A pause is taken back here if the state cannot be
\* read, or if the last save of it failed.
Load(read, defsSaved, stateSaved) ==
  /\ ~ torn
  /\ LET from == Loaded(read) IN
       entries' = [i \in Id |->
         IF from[i] = NoEntry \/ from[i].status = "paused" THEN from[i]
         ELSE Refresh(from[i], IF from[i].last > 0 THEN from[i].last ELSE clock,
                      timeValid)]
  /\ SaveDefs(entries', defsSaved)
  /\ SaveState(entries', stateSaved)
  /\ Faults(Count(~ read) + Count(~ defsSaved \/ torn') + Count(~ stateSaved))
  /\ held' = IF read /\ ~ doubt THEN held ELSE {}
  /\ dirty' = IF defsSaved THEN {} ELSE dirty
  /\ UNCHANGED <<time, crashes, lastSlot, excused>>

Reload(read, defsSaved, stateSaved) ==
  up /\ Load(read, defsSaved, stateSaved) /\ UNCHANGED up

Boot(read, defsSaved, stateSaved) ==
  ~ up /\ Load(read, defsSaved, stateSaved) /\ up' = TRUE

\* cap_scheduler_handle_time_sync, on the first synchronisation after a start.
Sync(saved) ==
  /\ up /\ ~ timeValid
  /\ timeValid' = TRUE /\ clock' = wall /\ seen' = seen \cup {wall}
  /\ entries' = [i \in Id |->
       IF entries[i] = NoEntry THEN NoEntry
       ELSE LET e == IF NeedsTime(entries[i].item) \/ entries[i].item.kind = "once"
                     THEN entries[i] ELSE [entries[i] EXCEPT !.last = 0, !.next = -1]
            IN  IF e.status = "paused" THEN e ELSE Refresh(e, wall, TRUE)]
  /\ PersistState(entries', saved)
  /\ UNCHANGED <<up, wall, held, dirty, lastSlot, excused>>

Tick ==
  /\ wall < MaxWall
  /\ wall' = wall + 1 /\ clock' = clock + 1 /\ seen' = seen \cup {clock'}
  /\ UNCHANGED <<entries, disk, up, timeValid, faults, crashes, held, dirty, doubt,
                 lastSlot, excused>>

\* A reset keeps the clock, a power loss does not.
Crash(power) ==
  /\ up /\ crashes < MaxCrashes /\ crashes' = crashes + 1
  /\ up' = FALSE /\ timeValid' = FALSE
  /\ clock' = IF power THEN 0 ELSE clock
  /\ seen' = {clock'}
  /\ entries' = Empty
  /\ lastSlot' = IF power
       THEN [i \in Id |-> IF defs[i] # NoEntry /\ NeedsTime(defs[i].item)
                          THEN lastSlot[i] ELSE 0]
       ELSE lastSlot
  /\ UNCHANGED <<disk, wall, faults, held, dirty, doubt, excused>>

-----------------------------------------------------------------------------
Init ==
  /\ entries = Empty /\ defs = Empty /\ blob = Empty /\ torn = FALSE
  /\ up = FALSE
  /\ clock = 0 /\ wall = Epoch /\ timeValid = FALSE /\ seen = {0}
  /\ faults = 0 /\ crashes = 0
  /\ held = {} /\ dirty = {} /\ doubt = FALSE /\ excused = {}
  /\ lastSlot = [i \in Id |-> 0]

\* What an access to the stores may come to, up to the bound.
Outcome == IF faults < MaxFaults THEN BOOLEAN ELSE {TRUE}

Next == \/ Tick
        \/ \E power \in BOOLEAN : Crash(power)
        \/ \E read, defsSaved, stateSaved \in Outcome :
             Boot(read, defsSaved, stateSaved) \/ Reload(read, defsSaved, stateSaved)
        \/ \E saved \in Outcome :
             \/ Sync(saved)
             \/ \E i \in Id :
                  \/ Remove(i, saved) \/ Pause(i, saved)
                  \/ \E sent \in BOOLEAN : TriggerNow(i, sent, saved)
             \/ \E now \in seen :
                  \/ \E sent \in SUBSET Id : FireDue(sent, now, saved)
                  \/ \E i \in Id :
                       \/ Resume(i, now, saved)
                       \/ \E enabled \in BOOLEAN : Enable(i, enabled, now, saved)
                       \/ \E given \in Given :
                            \/ Add(i, given.item, given.enabled, now, saved)
                            \/ Update(i, given.item, given.enabled, now, saved)

Spec == Init /\ [][Next]_vars

-----------------------------------------------------------------------------
\* The types of the variables; no entry is ever left "running".
TypeOK ==
  /\ entries \in [Id -> Entry \cup {NoEntry}]
  /\ defs \in [Id -> Definition \cup {NoEntry}]
  /\ blob \in [Id -> RunState \cup {NoEntry}]
  /\ torn \in BOOLEAN /\ up \in BOOLEAN /\ timeValid \in BOOLEAN
  /\ clock \in 0..MaxWall /\ wall \in Epoch..MaxWall /\ clock <= wall
  /\ seen \subseteq 0..clock
  /\ faults \in 0..MaxFaults /\ crashes \in 0..MaxCrashes
  /\ held \subseteq Id /\ dirty \subseteq Id
  /\ doubt \in BOOLEAN
  /\ lastSlot \in [Id -> Nat] /\ excused \subseteq Id

\* An entry that shows as scheduled with a time really has a run to make
\* then: its runs are not used up, the time is not past its end, and an entry
\* on the wall clock has none before the clock is right, whatever sequence of
\* updates, reloads and restarts led there.
ScheduledIsLegit ==
  \A i \in Id :
    LET e == entries[i] IN
    Present(i) /\ e.status = "scheduled" /\ e.next > 0 =>
      /\ e.enabled
      /\ e.item.maxRuns = 0 \/ e.runs < e.item.maxRuns
      /\ e.item.end = 0 \/ e.next <= e.item.end
      /\ timeValid \/ ~ NeedsTime(e.item)

\* A confirmed pause lasts through failed saves, reloads, restarts, updates and
\* the first time synchronisation, until the entry is enabled, resumed or
\* triggered.  The one exception: a reload or a restart right after a save of
\* the state that failed (of whatever entry: it may have erased the blob), or
\* one that cannot read the state, may lift it.
PauseHolds == \A i \in held : Present(i) => entries[i].status = "paused"

\* A restart that can read the definitions file finds what is in memory, but
\* for entries whose last operation reported a failure.  (A write that failed,
\* or whose fclose failed unnoticed, may leave a file that cannot be read.)
DefinitionsSaved ==
  up /\ ~ torn => \A i \in Id \ dirty : defs[i] = DefsOf(entries)[i]

\* No planned time of an entry is published twice: what it waits for lies after
\* what it has published, also when its clock jumps, it is reloaded from disk,
\* its state cannot be read or was erased, or the device restarts.  Excused are
\* entries whose publish was not saved, those triggered by hand before the
\* clock was right, and those that a call planned with a reading of the clock
\* that the publish had overtaken while the call waited for the mutex.
NoReplay ==
  \A i \in Id \ excused :
    Present(i) /\ entries[i].next > 0 => entries[i].next > lastSlot[i]

\* "resume one scheduler entry by `id`."
ResumeResumes ==
  [][\A i \in Id : (\E now \in seen : Resume(i, now, TRUE)) => entries'[i].status # "paused"]_vars
=============================================================================
