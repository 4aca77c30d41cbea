# A verification project for ESP-Claw

TLA+ models, TLC runs and TLAPS proofs for the concurrent parts of the firmware
in `src/`: the tasks, queues, tables and files between which an event, a
request, a script, a message or a timer can get lost, run twice, hang or come
back wrong after a restart. Paths are relative to `src/`; the one-letter names
of the first table abbreviate files.

## 1. The system

An ESP32 board runs an agent. Channels (IM clients, console, MCP, Lua, timers,
the button) publish **events** on a bus; one **router task** matches them
against rules and runs the rules' actions, or hands a message to the **agent
core**, whose worker task alternates LLM calls and tool calls and publishes the
answer as another event. Tools are **capabilities**, kept in groups by a
**registry**. Some have tasks and state of their own: the **scheduler**, the
**asynchronous Lua jobs**, **memory**, **voice** and **servos**. Emotion videos
and Lua scripts share the **display** through an arbiter.

### Components, their state, their operations

| component | state | operations | module |
|---|---|---|---|
| event router: bus (`R` = components/claw_modules/claw_event_router/src/claw_event_router.c) | event queue (6), pending table (6 slots by event id), `started`, `stop_requested`, `task_handle`, recursive mutex | publish, cancel_event, purge_queue, start, stop; the router task | `EventRouter`, `CancellableQueue` |
| event router: rules (`R`) | rule array, rules file and its temporary file | add, update, delete, reload; matching, rendering | `RuleStore` (not matching and rendering) |
| agent core (`C` = components/claw_modules/claw_core/src/claw_core.c) | request queue, response queue, pending list, in-flight id and abort flag, session | submit, receive_for, cancel_request; the worker task | `AgentCore`, `RequestService` |
| capability registry (`K` = components/claw_modules/claw_cap/src/claw_cap.c) | groups, their state, calls in flight | register, start_all, stop_all, enable, disable, unregister, call | `CapRegistry` |
| Lua jobs (`L` = components/claw_capabilities/cap_lua/src/cap_lua_async.c) | slot table, per-slot semaphore and stop flag, `s_running_jobs` | submit, stop_job, stop_all_jobs, wait_settle; the job tasks | `LuaJobs` |
| scheduler (`S` = components/claw_capabilities/cap_scheduler/src/cap_scheduler.c, its `_store.c` and `_parser.c`) | entries in memory, definitions file, state blob in NVS, clock validity | add, update, remove, enable, disable, pause, resume, trigger_now, reload, handle_time_sync; the tick task; start-up | `Scheduler` |
| display and emotion videos (`D` = components/common/display_arbiter/display_arbiter.c; application/edge_agent/components/video_player; the display module of Lua) | owner and Lua depth, the panel's refresh callback, command queue, three event bits | set the emotion; video task, extract task; init, draw, deinit and cleanup of a script | `VideoPlayer` |
| messengers (components/claw_capabilities/cap_im_platform: cap_im_tg.c, cap_im_qq.c, cap_im_feishu.c) | two task handles, `stop_requested`, the worker's queue, a ring of recent ids, Telegram's offset | start, stop; main task, worker | `ImGateway` (not WeChat) |
| speech (`V` = components/claw_capabilities/cap_voice/src/cap_voice.c, voice_ws_common.c) | request queue, completion semaphore, frame queue, ring buffer, codec | say a text, get_tts; playback request task, decoder, playback; websocket callbacks | `SpeechOut` |
| speech recognition (`A` = components/claw_capabilities/cap_asr/src/cap_asr.c, app_asr_button.c) | button queue, stop flag, semaphore shared by two tasks | press, release; session, capture task; websocket callbacks | `AsrSession` |
| memory (`M` = components/claw_modules/claw_memory/src: claw_memory.c, claw_memory_storage.c, claw_memory_session.c) | log of records, index of labels; history file of a session; list and queue of extraction jobs | store, update, forget, compact, start-up; load and append a turn; extract and ask for the result | `MemoryStore`, `SessionHistory`, `ExtractJobs` |
| servos (`P` = components/claw_capabilities/cap_servo/src/cap_servo.c, motion.c) | two task handles, the player's two flags, the idle manager's notification | turn, play, stop, set_idle_motion; idle manager, breathing, sequence | `ServoMotion` |
| skills, front ends, MCP, other capabilities, Lua bindings, start-up, networking, settings, console | — | file, JSON and network work, mostly sequential | not modelled (section 9) |

### How they interact

* Everybody calls `claw_event_router_publish`, which clones the event, *tracks*
  it in the pending table under the mutex, waits up to 1 s for a place on the
  queue, and withdraws the table entry if it got none (R:2277-2297).
* The router task receives, *takes* the table entry, skips the event if the
  entry was cancelled, and otherwise runs the rules **holding the recursive
  mutex** (R:1917-2025). An action may publish (from the consumer of the queue
  itself), submit to the agent core, or call any capability in this same task.
* The router and the console submit to the agent core. Router requests skip the
  response queue; the answer is published as an out message. Console asks wait
  with `receive_for`.
* The scheduler publishes from its task and from `trigger_now`, holding its own
  mutex. `LockOrder` puts router, scheduler and agent core together and asks
  who waits for whom while holding what.
* Every call of a capability goes through the registry, which counts it; groups
  are started and stopped by their plugins' callbacks, and the start and stop of
  a messenger are such callbacks.
* A Lua job is submitted by a capability call and runs in a task of its own; its
  display calls go through the arbiter that the video task asks for each frame.
* The agent loads the history of a session when a request starts, has memories
  extracted by another task meanwhile, and asks for the result at the end. The
  idle manager of the servos is told of both ends of a request (app_claw.c:150).

### What is hard here, and what makes each part correct

`PROJECT.json` lists 40 hazards at their lines. In short:

* **Bus.** Ids are millisecond timestamps or constants (the MCP server uses
  "mcp-emit" for all its events), so several events may share one table entry.
  Publishers, cancels and the router work on the table between the steps of one
  publish. Correct means: a cancel that reported success is honoured, no event
  is skipped that nobody cancelled, no entry outlives its events, refused means
  never processed, everything sent is settled, publish returns.
* **Rule store.** Calls of several tasks read the file, edit the copy and write
  it back through one temporary file, outside any lock; the old file is removed
  before the new one is renamed; a file that cannot be opened counts as empty.
  Correct means: ids stay unique, file and memory agree at rest, a call changes
  one rule, the file is never torn.
* **Agent core.** One abort flag for all requests; a receiver takes other
  callers' responses off the queue; the response queue has no timeout on the
  worker's side. Correct means: a response is in exactly one place, nobody
  waits for what is already put aside, only a cancelled request is answered as
  cancelled, a queued request is served unless abandoned answers fill the
  response queue, calls return.
* **Registry.** Callbacks and capabilities run outside the mutex, and a call
  comes back to a slot by its index. Correct means: no plugin is stopped and no
  slot cleared under a call, "started" means that the callbacks succeeded,
  administration returns even if a capability does not.
* **Locks.** Three components call each other while holding their mutexes.
  Correct means: every call returns.
* **Lua jobs.** Four critical sections per submission, with the job running and
  ending between them; slots, flags and semaphores are reused. Correct means:
  the count of running jobs is exact, conflicting scripts never run together, a
  running script keeps its slot, "stopped" means over, only a job meant to stop
  is stopped, calls return.
* **Scheduler.** Three copies of an entry (memory, file, NVS), failed writes,
  resets, power losses, and a clock that jumps once. Correct means: what is
  scheduled is legitimate, a pause holds, definitions on disk are those in
  memory, no planned time is published twice.
* **Display.** The owner is looked at before a frame is decoded and drawn, the
  video task stops its extract task through three bits, and that task may be
  waiting for a refresh whose callback a script has taken. Correct means: the
  video gives way after at most one frame, and the last emotion shows.
* **Messengers.** Stop has deadlines that a download can miss; the worker looks
  at its queue and at the flag one after the other; messages come again.
  Correct means: no queue is deleted under a worker, a message is published
  once, a stop loses nothing that was accepted.
* **Voice.** The end of an answer overtakes its frames, which are still in two
  buffers and a decoder; recognition closes a microphone that another task
  reads. Correct means: speech is not cut off, a capture task is waited for.
* **Memory.** Two files that must agree are written one after the other; a turn
  is two records and a header; an answer waits for an extraction. Correct means:
  every memory can be found, an update keeps what it updates, the agent reads
  whole turns, and gets back to its request.
* **Servos.** Two tasks stop one player through shared flags without a lock.
  Correct means: activity ends the breathing.

## 2. Modules

| module | content |
|---|---|
| `CancellableQueue` | abstract: events that are open until processed, skipped or refused, and a promise not to process the cancelled ones |
| `EventRouter` | the bus; `CQ == INSTANCE CancellableQueue WITH ...` is the refinement mapping |
| `EventRouterProofs` | theorems about `EventRouter`, one of them the refinement |
| `RuleStore`, `RuleStoreProofs` | the rules in memory and on file, and theorems |
| `RequestService` | abstract: requests served one after the other in the order of acceptance, each once, and responses that wait for their askers |
| `AgentCore` | requests and responses; `RS == INSTANCE RequestService WITH ...` is the refinement mapping |
| `AgentCoreProofs` | theorems about `AgentCore`, one of them the refinement |
| `LuaJobs`, `LuaJobsProofs` | the job table, and theorems |
| `Scheduler`, `SchedulerProofs` | the scheduler, and theorems |
| `LockOrder` | router, scheduler and agent core at their mutexes and queues |
| `CapRegistry` | groups, their administration and calls |
| `VideoPlayer` | arbiter, video tasks and scripts |
| `ImGateway` | the life of a messenger's tasks, and its inbound messages |
| `SpeechOut` | from the text to the codec |
| `AsrSession` | sessions of the button |
| `MemoryStore`, `SessionHistory`, `ExtractJobs` | the three parts of memory that survive failures or wait for a task |
| `ServoMotion` | the servos and their idle manager |
| `CoordinationProofs` | theorems about who waits for whom: `LockOrder`, `ExtractJobs`, `CapRegistry` |
| `InterfaceProofs` | theorems about the edge of the device: `VideoPlayer`, `AsrSession`, `SpeechOut`, `ImGateway`, `ServoMotion` |
| `MemoryProofs` | theorems about the files of the memory: `MemoryStore`, `SessionHistory` |
| `MC*` | values of the constants for TLC; `MCDevice` puts ten parts in one run |

Every detailed module has its parameters as CONSTANTS with one named assumption,
a type invariant (that of the memory modules and of `ExtractJobs` is with their
proofs), and operators named after the functions they translate. Definitions
commented *Variant* are faulty versions of the definition that follows them; no
specification uses them. They are what the `mutants` of `PROJECT.json`
substitute: each property of each passing run is violated by one.

### EventRouter

| model | code |
|---|---|
| `pub[e]` idle, sending, sent / expired, failed | the position of the call that publishes `e`: before, in `xQueueSend`, returned ESP_OK / timed out, returned ESP_ERR_TIMEOUT |
| `pending`, `Candidates`, `PendingTrack`, `PendingTake` | the table and R:249-339: same id, else free, else not cancelled, else slot 0 |
| `queue`, `Enqueue`, `SendTimeout`, `Withdraw` | `event_queue`, the send with its second, and `pending_take` of the publisher (R:2290-2297) |
| `routerPc`, `current`, `outcome` | `claw_event_router_task` and `process_event`, statement by statement where others can get in between |
| `MutexFree` | long holding of the mutex: while the rules run |
| `CancelEvent`, `PurgeQueue`, `armed` | the calls that return ESP_OK; `armed` (history) is the set of events whose entry they marked while outstanding |
| `Start`, `Stop`, `RouterClearHandle`, `RouterExit` | R:2126-2185 and the two last writes of the task |

`IdOf` is an arbitrary function from events to ids, and an empty id is allowed
as in `claw_event_router_publish`. Events in `Emitted` are published by the
router task itself while it holds the mutex. `SelfSourced` ones are dropped by
`process_event` (R:1901).

### RuleStore

A call begins with one action (`AddRule`, `UpdateRule`, `DeleteRule`, `Reload`)
that reads the file and edits the list it found; a call that is refused changes
nothing and is no step. `OpenTemp`, `WriteTemp`, `RemoveOld`, `RenameTemp` and
their failures are `write_rules_json_file`; its `fclose` (R:1009) is not looked
at, so that `CloseFails` goes on with a torn temporary file. `Commit` is the
critical section of `commit_rules` and `reload`. `Loads` is what a read may
yield: the file, or the empty list if the file is missing *or could not be
opened* (R:398). The file system is FAT without locks: rename refuses an
existing target, and what a disturbed handle writes may reach either file.
`excused` is history: since start-up calls have overlapped, a file was misread,
or an `fclose` failed unnoticed; the properties that these void say so, and
`OneRulePerId` does not need it. `unnamed` is history too: the last rename
failed, which leaves no file. `found` is history of one call: it read a file
that was there. Not in the model: somebody editing the file behind the store's
back, and the order of two directory writes inside one remove or rename.

### AgentCore

`client[r]` is the position of the caller of request `r`: sending (submit
blocked on the queue), locking (before `response_lock`, which has no timeout),
waiting (holding the lock, on the response queue), and the results. `workerPc`
follows `claw_core_task`: taken, loop (LLM and tool rounds), finish, trace,
respond. `BeginFlight` and `EndFlight` are the two sections under
`inflight_lock`; `Cancel` may come at any time. What a round does is abstracted
to: fails, answers, or calls tools once more (up to `max_tool_iterations`).

As a `RequestService`, the accepted requests in order are the one in hand,
followed by the queue; the response queue and the pending list together are the
mail, so that putting a response aside is no step; and `Stage` forgets where in
submit or receive_for a caller is.

### LuaJobs

A `Job` stands for one submit call, the id it draws and the task it creates.
`Check` (pre-flight), `Commit` (recheck and occupy a slot), `Spawn` /
`SpawnFails` (task creation) and `Mark` (status := RUNNING) are the critical
sections of `submit_once` with what lies between them; `Finish` and `Give` are
the end of the job in its task (state under the lock, then the semaphore).
`Request`, `Probe`, `Wake`, `WaitTimeout`, `Recheck` are
`stop_slot_and_wait`, shared by takeover, stop_job and stop_all_jobs, each
reading the slot and not the job, as the code does.

### Scheduler

Each operation holds the recursive mutex throughout and is one action with all
it calls: refresh, publish, save and roll back. But most operations and the task
read the clock *before* they wait for the mutex (S:529, 869, 915, 997, 1056):
`seen` holds every reading since the start, and an operation works with any of
them, which is at least as much as the code can do. The unit of time is a tick.
`entries` is memory, `defs` (with `torn`) the definitions file, `blob` NVS.
`saved` says what the save reports. A definitions write fails before or after
the old file is gone, or unnoticed in its `fclose` (cap_scheduler_store.c:371);
an NVS write fails before or after the new blob is there, or in the reading back,
after which the blob is *erased* (460-463); a load that cannot read the blob goes
on without it, and writes both stores whatever becomes of the first write.
`Crash` loses memory and, on power loss, the clock. `Sync` is the first time
synchronisation. `Given` is what callers may ask for.

`held`, `dirty`, `doubt`, `lastSlot` and `excused` are history: confirmed pauses;
entries whose last operation reported a failure; that the last save of the state
failed, after which a load may find the pauses gone; the planned time published
last; and the entries of which a time may be published again, among them those
that a call planned with a reading of the clock that a publication had overtaken
while the call waited for the mutex.

### LockOrder

`EventRouter`, `Scheduler` and `AgentCore` take each other to answer; this
module drops that. A call is the list of its steps that may wait: `take` and
`give` of a mutex, `event` and `request` for a place in a queue. A pass of the
scheduler is one `take` of its mutex around one publication per due entry; an
event is one `take` of the router's mutex around the calls of its rules; a
request of the agent is the calls of its tools and the publication of its
answer. Mutexes have no timeout, sends have: `QueueEvent` and `QueueRequest` go
on without a place when the queue is full. `RuleCalls` says what the rules may
call. With "trigger" or "schedule" in it two mutexes are taken in both orders
(finding 4); without, everybody gets on.

### CapRegistry

A group with its descriptors is one slot: the descriptors change state together
under one hold of the mutex. `CallBegin` and `CallEnd` are the two critical
sections of `claw_cap_call`, by index. Administration (`admin`) is one
operation at a time, because its only callers are the main task before the
console starts and the console task: the steps of enable, disable, unregister
and register lie between `admin.op` values, with a callback or a poll of the
drain each. `sweep` is the loop of start_all and stop_all. `live` is history:
what the callbacks have made of a plugin.

### VideoPlayer

| model | code |
|---|---|
| `owner`, `luaDepth` | the arbiter (D:75-145) |
| `vsync`, `halReady` | whose refresh callback the panel calls: the last registered, also after a script has gone |
| `setter[c]`, `commands` | `emotion_video_set` and the queue of the player with its time-out |
| `vt` | `video_task`: wait, acquire, start, monitor, stop, with its failure and stall counters |
| `adapter`, `bits`, `et` | the stream adapter, the bits START, STOP, STOPPED, and `extract_task` frame by frame: look at the owner, draw, wait for the refresh |
| `script[s]` | `lua_display_init`, drawing, `deinit`, and the cleanup that every script runs at its end, whatever it used (lua_module_display.c:142) |

How a file ends, fails or stalls is open. Playlists, STOP and seek of the player
have no caller in the program and are left out.

### ImGateway

One module for three clients that are built alike; `platform` says what differs:
who publishes (the receiving task or the worker), what a start makes of an old
worker, in which order stop waits. `main` and `worker` are the tasks, `handle`
the handle that names one; a worker that missed a deadline goes on without one.
A stop waits, and any wait may run out (`StopTimeout`). Telegram and QQ take back
an earlier stop before they create a worker, Feishu after (`FeishuStart`,
`FeishuStartsMain`). `seen` and `seenIdx` are the ring of recent ids,
`nextUpdate` the offset of Telegram, `batch` the updates of a poll that are still
to be handled, in their order. QQ searches the ring, writes the id and moves the
index in its worker without a lock (cap_im_qq.c:138-157), and two workers may be
alive after a restart: `WorkerCheck`, `WorkerWrite` and `WorkerAdvance` are
steps of their own, and a step of the index may be lost.

Four variables are history. `forgotten`: how often the ring has pushed an id out;
a message may be published once, and once more for each time. `raced`: messages
that two workers found unseen at the same time, which QQ publishes twice.
`overlapped`: the last start of Telegram or QQ found an old worker alive and made
a second one, after which a stop may delete the queue under one of the two and
lose what waits in it. `tooLate`: messages queued when no worker was going to
look again. What each property excepts on account of these, and a Feishu start
that fails, is in its comment; H30's restart after a missed deadline is thus in
the model, and the properties say what remains of the promise then.

### SpeechOut and AsrSession

`speaker[s]` is `do_tts` in the task of the voice channel or of a tool; `token`
the completion semaphore, which a late answer leaves given; `frames`, `decoder`,
`ring`, `writing` the pipeline in its order. The count of the ring is unsigned
in the code; -1 stands for its underflow. `disturbed` is history: a lost
connection, a missed deadline, a dropped frame, or two that speak at once.

`run` is `cap_asr_execute` step by step, `capture` its capture task; both wait
on one binary semaphore (`sem`) that the websocket callbacks give. `released`
tells a release before the reset of the flag, which is forgotten (A:433), from
one after it. The reset is four writes. A callback of the websocket looks at
`s_asr_active`, writes the result and gives the semaphore in steps of its own
(`AsrAnswer`, `AsrWrite`, `AsrGive`), so that a session may end, and the next
begin, in between: it may give a semaphore that is deleted (`"freed"`) or NULL,
and the device may then panic and start anew (`Restart`). `DeleteCapture` is the
forced deletion, which becomes `vTaskDelete(NULL)` when the capture task has just
cleared its handle; the task of the button is then gone for good.

### MemoryStore, SessionHistory, ExtractJobs

In `MemoryStore` a call is the list (`plan`) of file operations it still has to
make, so that the power may fail between any two of them or inside one, and
each may fail by itself: a file that cannot be opened counts as missing, a
noticed write ends the call, an unnoticed one (`fclose`) does not. `items` is
the log as it is read, `stub` a part of a line at its end, `refs` the index,
`torn` an index that does not parse. Ids are seconds and a counter that starts
at each boot, so before the time is set one may come again after a power loss
(`NextIds`). `astray` is history: since the last whole compaction a failed
operation or a repeated id has taken log and index apart. `Compacted` is what a
compaction may make of the log: of the live records with one key (the first 36
normalised characters) the first, a *head*, stays (`Heads`) with the words of
any of them (`Wordings`); over capacity any choice of heads stays, in its order
(`Selections`), because scores and times are left out. In `SessionHistory` a
turn is two records, written at once, and a header, written last; `lost` are
the records that a power failure took, which are those of the turn under way. A
load resets a file that does not read as records; one that cannot open the
file, or has no memory, leaves it, and the turn is appended all the same.
`ExtractJobs` is the list and queue of jobs of the extraction task and the
agent's steps around them.

### ServoMotion

`servoAt` is where the agent and the idle manager are; `stop_motion_task` is
four steps (signal, read the handle, wait and delete, clear) that either may be
in. `sequence[s]` and `breath` are the tasks of the player: born, moving, home
(out of the player) and gone. The two flags belong to the player, not to a task.
A handle that is read after it was cleared, or a deleted task's control block,
is `Crash`: the kernel asserts, or worse; the model starts anew.

### MCDevice

Ten parts that share no state in the models, in one run: the variable `part`,
chosen at the start, says whose steps a behaviour has. The state space is the
sum and not the product, each property speaks of the variables of one part,
and the fairness of each is restricted to it.

## 3. Runs

| run | checks | shows | distinct states |
|---|---|---|---|
| `router_unique_ids` | `NoStaleEntry` `CancelHonoured` `Refinement` `SentIsSettled` | with unique ids and a slot for every event that can be outstanding, the bus *is* a cancellable queue | 21 900 |
| `router_shared_ids` | `NoSpuriousSkip` `PublishReturns` `EvictsWhenCrowded` | what remains true with shared ids and a table that overflows | 99 053 |
| `rule_store` | `OneRulePerId` `FileMatchesRules` `OtherRulesKept` | two callers, overlapping or not, with failures and resets between any two steps | 1 341 664 |
| `agent_core` | `NoMissedResponse` `CancelledWasMeant` `ServesInOrder` `QueuedIsServed` `CallReturns` | three asks of two console tasks and one router request, with a response queue shorter than the asks: still a service that answers in order | 194 684 |
| `lua_jobs` | `CountExact` `ScriptsExclude` `ScriptKeepsSlot` `StoppedIsOver` `StoppedWasMeant` | three jobs over two slots with a shared name, a shared group, a takeover and a stop call | 1 725 353 |
| `lua_calls` | `CallReturns` | submit, takeover, stop and wait_settle return even if no script ends | 103 528 |
| `scheduler` | `ScheduledIsLegit` `PauseHolds` `DefinitionsSaved` `NoReplay` | one entry through every sequence of operations, faults and the jump of the clock | 775 436 |
| `device` | the properties of the next table | ten parts, each on its own | 604 905 |
| `lua_job_table` | `ActiveExclude` — violated | two active slots of one exclusive group, one of them of a script that has long ended | — |
| `scheduler_resume` | `ResumeResumes` — violated | resume of a paused entry does nothing | — |
| `memory_update` | `UpdateKeeps` — violated | an update that succeeds deletes the memory it updates | — |
| `rule_calls_scheduler` | `PassesEnd` — violated | a rule that calls the scheduler and a pass of the scheduler wait for each other for ever | — |

| part of `device` | property | says | distinct states |
|---|---|---|---|
| registry | `QuietUnload` | unregister runs no stop callback and clears no slot while a capability of the group executes | 60 234 |
| | `StartedIsLive` | between operations "started" and the callbacks' effect agree, after a failed start too | |
| | `AdminReturns` | every operation returns, also when a capability never does | |
| player | `OneLateFrame` | at most one video frame is drawn after scripts took the screen | 89 643 |
| | `EmotionShows` | if scripts end, the emotion asked for last shows, or its file does not play | |
| gateway | `QueueOutlivesWorker` | no queue is deleted under a worker | 190 877 |
| | `PublishedOnce` | a message is published once, over repeated deliveries and restarts, unless two workers raced for it | |
| | `StopLosesNothing` | what was accepted before a stop is handled, unless workers overlapped or a start of Feishu failed | |
| speech | `SpokenInFull` | the codec is closed when everything was played | 73 382 |
| asr | `CaptureIsWaitedFor` | no capture task is left when its semaphore and microphone go | 33 328 |
| memory | `CatalogMatches` | the index counts what the log holds, after any power failure, and again from the next compaction after a failed operation | 71 288 |
| history | `WholeTurns` | the agent reads whole turns, in order, once | 8 929 |
| jobs | `NoteReturns` | the agent gets back from waiting for a note | 2 068 |
| locks | `CallsReturn` | all calls return while no rule calls the scheduler | 21 544 |
| servo | `ActivityStopsBreathing` | activity while the servos breathe ends the breathing | 53 612 |

### Bounds, and why they are enough

* **EventRouter**: four events, one of them emitted by a rule; queue of one;
  table of two or three slots; one or two tasks in publish. Full queue,
  time-out with a withdrawal that meets another event's entry, eviction of live
  and of cancelled entries, reuse of an entry by a second event of the same id,
  and stop and restart in mid-work all happen. The firmware's
  table has as many slots as its queue (6 and 6), so events in publish and in the
  router's hand can crowd it: `router_shared_ids` has two slots, a queue of one,
  two senders and the event in hand, evicts, and checks when. `router_unique_ids`
  has one sender and three slots, as many as `QueueLen + MaxSenders + 1`, so that
  `CancelHonoured` and `Refinement` are not void there. Each
  publisher is one event, so nothing grows with time; `dropped` is bounded by
  the number of events.
* **RuleStore**: two callers and two rules, one with two bodies: a refused
  duplicate, an update that changes a rule and a deletion in front of another
  rule happen; two faults, so a failed rename or a misread file can be followed
  by a reset. That a full store refuses a new id takes more ids than places and
  is left to the proof of `TypeCorrect`. `MaxFaults` bounds the exploration
  only; the callers are symmetric.
* **AgentCore**: both queues of length 1 with four requests: full request
  queue, full response queue, responses taken by the wrong receiver, abandoned
  ones. `MaxIterations` 2 gives a first, a last and a refused round.
* **LuaJobs**: two slots for three jobs force reuse; limit 2. The liveness run
  has two jobs, one stop call and one wait_settle.
* **Scheduler**: one entry, because entries meet only in the bulk saves, which
  the proofs cover for any number. Wall clock 4..6, three definitions (once,
  a grid with an end, one without start and with a limit of one run), the grid
  given disabled and enabled later; one event per entry, one failing access, one
  crash: a failed write, or an erased blob, followed by a crash or a reload. An entry can
  be late by more than a tick through a stale reading of the clock, so the missed
  ones are there. `MaxWall`, `MaxRunCount`, `MaxFaults` and `MaxCrashes` bound
  the exploration only.
* **LockOrder**: one console task beside scheduler, router and agent; both
  queues of length 1, so that a send finds them full; one entry due in a pass,
  two actions or tools at a time, four calls begun in all (`MaxCalls`), as
  many as there are tasks. Rules call "rules", "publish" and "submit" in `device`,
  and "trigger" in `rule_calls_scheduler`.
* **CapRegistry**: two groups, two slots, two calls, which may nest; one poll
  (`MaxPolls`) before unregister gives up.
* **VideoPlayer**: two files, one setter, one script, a command queue of one;
  two failures or stalls in a row (`MaxTries`); two events, that is emotions and
  runs of the script, in any mixture. Scripts that overlap are left to the
  proof of `OneLateFrame`.
* **ImGateway**: one text, one message with a file and one update without a
  message, a queue of one, a ring of one, so that the second message pushes the
  id of the first out and it may come again, once (`MaxForgotten`), two workers
  alive at a time, three starts and stops (`MaxAdmin`): start, stop with a missed
  deadline, start again.
* **SpeechOut**: one tool beside the voice channel, queues and ring of one or
  two, two texts with up to two frames: each buffer fills up.
* **AsrSession**: two sessions and two releases; the second session meets
  answers, callbacks and releases of the first.
* **MemoryStore**: two keys, two labels, two memories (ids that may come again
  after a power failure), one power failure, one failing file operation,
  compaction after two changes and a capacity of one. `memory_update` has
  four memories, compaction after five changes and no failure.
* **SessionHistory**: four turns in a ring of four records, two power failures;
  **ExtractJobs**: four requests, a queue of one.
* **ServoMotion**: two sequences alive at a time; nothing else grows.

`CHECK_DEADLOCK FALSE` stands where the system really comes to rest: all
requests answered, all jobs done, the clock or a bounded number of calls at its
end, the router down with a rules file that does not parse. The bus, whose
router loops, is checked for deadlock.

### Fairness, and why the code justifies it

* `EventRouter!Fairness`: the router task is scheduled and the actions of a rule
  return; a blocked send ends, by a place or by its one-second timeout, and the
  publisher then gets the mutex. Callers owe nothing, start and stop included.
* `AgentCore!FairSpec`: the worker goes on where it can (LLM and tool calls have
  timeouts), calls under way go on, and a task waiting for `response_lock`
  obtains it when free. `Respond` needs a place: no fairness gives it one, and
  that is why `QueuedIsServed` has the alternative `Stalled`.
* `LuaJobs!FairSpec`: calls under way go on and an ending task gives its
  semaphore. Scripts need not end and stop flags need not be obeyed.
* `LockOrder!LockFairSpec`: if some task can go on, some task does. As calls are
  bounded this is enough; which task is scheduled stays open.
* `MCDevice!MCFairness`: an operation of the registry goes on (callbacks
  return, the drain is polled against a deadline); the call of a setter ends,
  by a place in the queue or after a second; the display functions that a
  script has entered return to it (`InDisplay`), but the script itself need not
  end, since one that is run without a timeout has no deadline
  (cap_lua_runtime.c:303); `EmotionShows` therefore has the premise
  `ScriptsEnd`; video and extract task, agent and extraction task are scheduled
  (model and file calls have timeouts); the idle manager and the breathing task
  are scheduled (each frame of a motion sleeps 20 ms at least, each wait of the
  manager has a deadline). No message, speech, emotion, call or activity need
  ever come, and a call of a capability need not end.
* `Scheduler`, `RuleStore`, `ImGateway`, `SpeechOut`, `AsrSession`,
  `MemoryStore`, `SessionHistory`: safety only. Nothing is claimed of the tick,
  of a network, or of a server's answer.

## 4. Findings

1. **`lua_job_table`** — the submission sets status RUNNING after the task may
   already have ended (L:691): the slot stays RUNNING for ever, its name and
   exclusive group are blocked or, as the run shows, appear twice.
2. **`scheduler_resume`** — refresh returns at once for a paused entry (S:356),
   so resume returns ESP_OK and answers "scheduled" but resumes nothing.
3. **`memory_update`** — an update stores the new text under a new id and then
   forgets the old id (claw_memory.c:522, 533). If the store compacts, and both
   texts share their first 36 characters, compaction merges them under the old
   id, and the forget deletes the only one.
4. **`rule_calls_scheduler`** — the scheduler publishes under its mutex (S:473)
   and publishing takes the router's; a rule runs its actions under the router's
   mutex and a scheduler capability takes the scheduler's (S:245), both without
   a timeout: router and scheduler stop for ever.

What overlapping calls of the rule store do (lose a change, read the file
between remove and rename as empty, tear it) is in the model and shown by
removing `excused` from its properties; so are a file that cannot be opened,
which an add replaces by its one rule, and a failed rename, after which the file
is missing. They are listed as hazards (R:2439, R:398, R:1011), not as findings,
because no document promises otherwise.

### Observations from reading and modelling

These are not findings of a run; most are excluded from properties by a history
variable or a named alternative, some are outside the models.

* **Router.** A table as long as the queue does not cover blocked publishers
  and the event in hand, although the comment and the assertion at R:45-48 ask
  for no more: entries are evicted, and a cancel of an event whose entry is
  gone finds nothing (`EvictsWhenCrowded` says when). `emit_event` defaults to
  the source that `process_event` ignores (R:1901), while
  ARCHITECTURE_CN.md:830 says the new event is routed again. The task clears
  `task_handle` before `started` (R:2058), so a stop in between returns ESP_OK
  and a start does nothing. An action that changes the rules in the router task
  passes the recursive mutex and frees the array that the loop at R:1925 walks.
* **Agent core.** A failed append of the turn of an *answered* request leaves
  `err` set, and the trace says that the request failed (C:1335-1342, 1378).
  A response on the pending list that nobody asks for again stays there (C:1746).
* **Scheduler.** An entry triggered by hand before the first time
  synchronisation gets a `last_fire_ms` from the unset clock, and a later reload
  plans a time that has been published, and a call that waited for the mutex may
  plan one that was published meanwhile (`excused` in `NoReplay`); a failed save
  of one entry may erase the whole state and with it, after a restart, the pause
  of another (`doubt`); a
  `trigger_now` whose publish fails ends a pause; an interval entry waits after
  a power loss until the clock is right (S:1213); a definitions file torn in
  mid-write (cap_scheduler_store.c:361) keeps the scheduler from starting.
* **Registry.** Enable and disable keep a slot index over an unlock (K:1410) and
  a second unregister may join a drain (K:1437); one administrating task keeps
  both from happening.
* **Display.** The cleanup at the end of any script tears down the display of
  another one that draws (lua_module_display.c:142-157). With two setters the
  emotion reported may not be the one that plays.
* **Messengers.** Telegram's long poll takes up to 20 s and stop waits 5; a
  start while a stop is pending returns ESP_OK and starts nothing; an update
  without "message" never advances Telegram's offset; a start that finds an old
  worker makes a second one (Telegram, QQ) or none (Feishu), and two workers of QQ
  may publish one message twice; what is queued after the worker's last look at
  its queue is freed unhandled.
* **Voice.** `get_tts` and the queued texts share semaphore, flags and pipeline
  (V:917); a late completion leaves a token for the next text;
  `s_playback_available` may pass below 0. A release while the recognition
  session connects is forgotten (A:433); 语音模块架构文档.md:1051 promises only
  the later one. The agent's start_asr may run next to one of the button. A
  websocket callback may give the semaphore after the session has deleted it
  (A:160, 339), and the forced end of a capture task that has just ended deletes
  the task of the button (A:311, 329).
* **Memory.** A torn index is not repaired (claw_memory_storage.c:117), and one
  that cannot be opened is replaced by one without labels; a failed write leaves
  a record without its count until the next compaction; the
  buffer of a compaction counts 512 bytes per record; the store has no lock; the
  extraction task touches the semaphore of a job that may have been freed
  (claw_memory_session.c:319).
* **Servos.** `cap_servo_on_activity` only restarts the countdown: breathing
  begins during a request that takes longer than the delay, although
  cap_servo.h:20 says that it cancels a pending idle timer, and it stops a
  sequence the user asked for. play and stop look at `s_motion_task` only and do
  not stop the breathing, so two tasks may move the servos at once. When agent
  and manager are both in `stop_motion_task`, the later clear loses the handle
  of a new sequence, which no stop then reaches.

## 5. Proofs

TLAPS proves, for every value of the constants allowed by the modules'
assumptions (any sets of events, requests, jobs, entries, groups, calls, scripts
or files, any queue and table lengths, any id assignment, any bounds):

| module | theorems |
|---|---|
| `EventRouterProofs` | `TypeCorrect`, `SkipsAreReported` (`NoSpuriousSkip`), `TableIsClean` (`NoStaleEntry`), `EvictionsAreCrowded` (`EvictsWhenCrowded`), `AtMostOnce` (`ProcessedOnce`), `CancelIsHonoured` (`CancelHonoured`), `BusRefinesQueue` (`Refinement`) |
| `RuleStoreProofs` | `TypeCorrect`, `IdsAreUnique` (`OneRulePerId`), `FileIsCurrent` (`FileMatchesRules`), `OthersAreKept` (`OtherRulesKept`), `FileStaysWhole` (`FileNotTorn`) |
| `AgentCoreProofs` | `TypeCorrect`, `ResponsesAccounted`, `NoResponseMissed` (`NoMissedResponse`), `CancellationIsMeant` (`CancelledWasMeant`), `CoreRefinesService` (`ServesInOrder`) |
| `LuaJobsProofs` | `TypeCorrect`, `CountIsExact`, `SlotIsKept`, `ConflictsExcluded`, `StopIsReliable`, `StopIsMeant` |
| `SchedulerProofs` | `TypeCorrect`, `ScheduledEntriesAreLegit`, `PausesHold`, `DefinitionsAreSaved`, `NothingIsReplayed` (`NoReplay`) |
| `CoordinationProofs` | of `LockOrder`: `NobodyIsStuck` (`NoDeadlock`), `LockTypeCorrect`; of `ExtractJobs`: `JobsOutliveTheirTask` (`ResultHasPlace`), `NobodyWaitsInVain` (`WaitIsAnswered`); of `CapRegistry`: `RegistryInvariant`, `RegistryTypeCorrect`, `CallsAreCounted` (`CallsCounted`), `UnloadIsQuiet` (`QuietUnload`), `StartedGroupsAreLive` (`StartedIsLive`) |
| `InterfaceProofs` | of `VideoPlayer`: `VideoGivesWay` (`OneLateFrame`), `VideoTaskNeverLeaves` (`VideoTaskStays`), `PlayerTypeCorrect`; of `AsrSession`: `CaptureEndsFirst` (`CaptureIsWaitedFor`), `LateReleaseHolds` (`StopHolds`), `AsrTypeCorrect`; of `SpeechOut`: `SpeechIsWhole` (`SpokenInFull`), `SpeechTypeCorrect`; of `ImGateway`: `QueueStaysUp` (`QueueOutlivesWorker`), `PublishedOnceEach` (`PublishedOnce`), `StopIsLossless` (`StopLosesNothing`), `GatewayTypeCorrect`; of `ServoMotion`: `BreathsOneAtATime` (`OneBreath`), `ServoTypeCorrect` |
| `MemoryProofs` | of `MemoryStore`: `CatalogStaysTrue` (`CatalogMatches`); of `SessionHistory`: `TurnsStayWhole` (`WholeTurns`) |

All follow one scheme: an inductive invariant, a lemma per action, then
`Init => IInv`, `IInv /\ [Next]_vars => IInv'`, and PTL. Why the invariants are
what they are:

* **EventRouter.** `NoSpuriousSkip` alone says nothing of a cancelled entry
  whose event is still queued. `IInv` adds that ids in the table are distinct,
  that a used entry belongs to a live event, and that every live event with a
  *cancelled* entry's id is in `armed` (`CancelledArmed`) — this is where
  resetting the flag on reuse (R:313) is needed. `BusInv` ties `pub`, `queue`,
  `current` and `outcome`: an event is at one place. `CancelHonoured` needs
  `HonourInv`: with unique ids and no eviction so far, a live event in `armed`
  still has a cancelled entry. `EvictsWhenCrowded` is a pigeonhole argument: when
  no slot is free, the ids in the table are distinct and each belongs to an event
  that is outstanding (`FullTable`); it needs no assumption on the sizes. For the
  refinement, `Reliable` (unique ids and
  `dropped = 0`) is the assumption: every step under it is a step of
  `CancellableQueue` or a stutter. The run `router_unique_ids` checks the same
  with the assumption discharged.
* **RuleStore.** `OneRulePerId` needs the same of every list in a file or a call
  (`AllUnique`) and lemmas about what the three edits do to a list. The others
  need `MatchInv`: without overlap there is one call (`OneCall`), and its
  position tells what file and temporary file hold (`Stage`), that the file is
  the list in memory or is missing after a failed rename (`Current`).
* **AgentCore.** Exactly-one-place needs that the four places are disjoint
  (`DisjointInv`) and that every step keeps one (`KeptInv`), and `OneReceiver`:
  only one caller holds `response_lock`. `CancelledWasMeant` needs `FlightInv`:
  the abort flag, while set, belongs to the request in flight. The refinement
  needs no assumption beyond the module's own: a step of the worker either leaves
  the request in hand what it was or is the one that serves it (`WorkerServes`),
  a receiver moves a response from the queue to the list and takes only its own
  from either, and each response is there once, so that what a receiver takes
  is gone from the mail.
* **LuaJobs.** The count is exact because of `PhaseInv` and `OwnerInv`: which
  phases of submission and task go together, and which of them own the slot.
  `ExcludeInv` extends exclusion to jobs committed but not yet started;
  `TargetInv`, `ToldInv`, `MeantInv` say of a pair `<<slot, job>>` that a stop
  call holds what is still true of it after the slot was reused. The late
  `Mark` makes all this delicate: the *table* loses exclusion (finding 1), the
  *scripts* keep it.
* **Scheduler.** `PauseHolds` is not inductive: `PauseInv` adds that the blob
  says paused as long as the entry is in memory or may come back from the file,
  unless the last save of the state failed (`doubt`), and that memory never
  lacks an entry that the file has while its pause is believed — otherwise the
  next save of the state would forget the pause. This covers a definitions
  write that succeeded before the state write failed. `NoReplay` needs
  `FreshInv`, the same of memory *and* blob and of the last time as well as the
  next, because a reload counts from the last. An operation with a stale
  reading of the clock keeps it unless a publication has overtaken the reading,
  which is what `excused` records. And `ClockInv`: a published time lies ahead
  of the clock only after a power loss, and then the entry is on the wall
  clock, has no time until it is right, and the synchronisation passes it. That
  the next time lies after its anchor is `NextFireAfter`, with the division.
  `LegitInv` needs the lemmas `NextFireType`, `RefreshEntry` and `PublishEntry`
  about what the time computation and the refresh return.
* **CapRegistry.** A call counts itself out by an index, so `QuietUnload` needs
  that the slot of an operation holds its group at every step of it, that a
  free slot counts nothing, that `active_calls` of each slot is the cardinality
  of the calls inside (`CallsCounted`, by the theorems about finite sets), and
  that an unloading slot counts none: no call enters a slot that drains, so the
  zero that unregister has seen stays. `StartedIsLive` needs `LiveInv`: state
  and callbacks agree for every group that is *not* under an operation, and for
  the one that is, as far as its callbacks have come.
* **VideoPlayer.** `ScreenInv`: while scripts own the screen, a frame is drawn
  only by an extract task that looked at the owner before, and that task looks
  again before the next; so `late` is 0 until it draws and 1 after.
  `FailureInv`: each failure leads to a wait for a command, and a command resets
  the count, so the third in a row, which would end the task, cannot come.
* **AsrSession.** `CaptureIsWaitedFor` is inductive once the flags have their
  types: a capture task exists from its creation to the join, which ends or
  deletes it (or finds it gone, and is gone itself), and there is no other way
  past the join. `StopHolds` needs `StopInv`, which is about the window between
  the reset of `s_stop_requested` and the check for it: a release in that
  window leaves the request standing, also before there is a task, and
  `CheckStop` turns it into a recording that has ended.

* **SpeechOut.** `SpokenInFull` is about a speech that nothing has disturbed
  (`disturbed`, history). Then exactly one task is inside `do_tts`, and
  `Fits` says for each of its phases what may be around: frames exist only from
  the send on, the completion is given only after the last frame was taken from
  the network, and each phase of the cleanup (queue, decoder, ring) leaves its
  stage of the pipeline empty. `Balanced` counts: what is not played is in the
  queue, the decoder or the ring.
* **ImGateway.** Three invariants. `OwnerInv`, for `QueueOutlivesWorker`: the
  handle names the one worker that is alive, always in Feishu, in the others
  from a start that found no old worker to the end of the stop that waits for
  it; so a stop that deletes the queue has seen the end of who uses it.
  `LossInv`, for `StopLosesNothing`: while the gateway runs a worker looks at
  the queue, and what waits when none will come back came too late. `OnceInv`,
  for `PublishedOnce`: what was published, what waits in the queue and what a
  worker holds of a message are together at most what the ring has recorded of
  it, that is what it holds and what it has forgotten. `published` alone is not
  inductive, because a copy in the queue is published later. In QQ the worker
  records, so only what it does between its write and its publication counts,
  and `UnseenInv` says that a message it found unseen is not in the ring yet,
  unless two raced for it.
* **ServoMotion.** `OneBreath`: the idle manager is the only one to make or to
  stop the breathing task, and while one exists it is at one of the three places
  that lead to its end.
* **MemoryStore.** A running call is the list of operations it still makes, so
  the invariant is about the list (`PlanOK`): a record comes first and its
  count next, and then neither comes again. Between the two, the index is one
  behind in exactly that label (`OneBehind`); while a compaction or a recount
  is ahead, it may be anything (`Rewriting`), and while `astray` it is;
  otherwise it is as good after a power failure as before, so that the boot
  need only not make it worse. That a compaction whose write was lost is known
  by its step (`whole`) keeps the recount from being believed. The count is a
  cardinality, and `Writes` says why it moves by one: what is written is new,
  or deletes one that lives. That compaction leaves distinct, well-typed
  records is `CompactedKeeps`.
* **SessionHistory.** `WholeTurns` of what was loaded follows from the same of
  the header in the file, whether the file still holds what it names or not, and
  of the header in memory once both records are in. The whole turn is added by
  two single additions, which are not whole in between (`OneTurnMore`); that both
  records of the oldest turn leave together needs an even ring, which is the
  assumption on `MaxSlots`. A record that was lost is never taken for the one
  written in its place, because a place stands for offset *and* length; of two of
  the same length the model says nothing.
* **ExtractJobs.** A job without a result is in one place: being sent, in the
  queue, or prepared. So what is freed, which has a result, is in none of them,
  and the agent waits only for a job whose result is given or will be.
* **LockOrder.** `NobodyIsStuck` has the hypothesis `NoRuleSchedules`: rules do
  not call "trigger" or "schedule". Without it the claim is false, which is
  finding 4. The invariant says of each task that what it still has to do gives
  back what it holds and takes the scheduler's mutex only without the router's
  (`Fits`). That every call is such a list is shown by building it: a list that
  fits in front of any rest (`Anywhere`) keeps this when lists are joined, also
  by `FlattenSeq` (`FlattenKeeps`), and when a mutex is taken around it. Then
  the holder of the router's mutex can always go on, and the holder of the
  scheduler's can or waits for that one.

**Only model-checked**: liveness under fairness, which the provers do not reach:
`SentIsSettled`, `PublishReturns`, `QueuedIsServed`, both `CallReturns`,
`AdminReturns`, `EmotionShows`, `NoteReturns`, `CallsReturn`,
`ActivityStopsBreathing`. The safety under three of them is proved: nobody is
stuck (`NoDeadlock`, under `CallsReturn`), who waits has somebody to give him
the result (`WaitIsAnswered`, under `NoteReturns`), and what breathes is in the
hands of a manager that will stop it (`OneBreath`, under
`ActivityStopsBreathing`). Every invariant and every action property that a
passing run checks has a theorem.

**Induction.** The library's induction theorems take an operator as a
parameter, which no prover at hand instantiates. For a *set* of numbers it can
be had: `SetInduction` follows from the theorem that every non-empty subset of
Nat has a smallest member. `JoinsExist` and `FlattenKeeps` use it to reason
about the recursive function inside `FlattenSeq`.

## 6. Abstractions

* Payloads, session text, rule matching and template rendering, samples, angles
  and pixels: only their effect on control is kept (an event is self-sourced, a
  rule emits, a round fails, a file ends).
* Out of memory, and giving up on a mutex or job lock after its timeout
  (200 ms–1 s), are not modelled unless a section above says so. Sections under
  a lock that run without waiting are single steps.
* FreeRTOS priorities are ignored: tasks interleave in any order.
* Deadlines are choices: a wait that may time out may do so at any time.
* Job ids (random) and request ids (console from 1, router from 1 000 000) are
  taken to be distinct; event ids are not.
* Wall-clock seconds that order terminal slots in `LuaJobs` may repeat or step
  back: any terminal slot may be the one reused.
* Scheduler: cron grids, task start/stop, listing and JSON left out; time moves
  by ticks; the clock is set once, forward.
* `MemoryStore` has one caller, one label per memory and a compaction buffer
  that suffices; a write to a file is torn at its place, not reordered.
* `SessionHistory` takes two records at one offset to differ in length.
* The agent's tools run in the agent's task, one at a time: `ServoMotion` and
  `SpeechOut` take the calls of tools from there.

## 7. Callers and configuration the models rely on

Queue lengths and limits come from `components/common/app_claw`: router queue 6
(app_claw.c:221), core queues 4 and 4 with 32 iterations (289), scheduler tick
1000 ms and persist after fire (222-232), time sync handled on the first
synchronisation only (177). The router is started once (331). `cancel_event`,
`purge_queue`, `handle_event`, `stop`, `claw_core_cancel_request` and
`claw_core_receive` are public functions without a caller in this tree; all but
`handle_event` and `claw_core_receive` are modelled, as an interface to be
relied on. The registry is administered by the main task until the console runs
and by the console task from then on (app_capabilities.c, app_claw_cli.c,
cmd_cap_mcp_server.c); messengers are started and stopped from there. The idle
manager of the servos is started once, with the servos initialised
(app_claw.c:354).

## 8. Plan

Done, in this order: bus with its abstract queue, rule store, agent core, Lua
jobs, scheduler; the locks of the three together; registry, display,
messengers, voice, memory, servos. What is left, the most important first:

1. The rule list under the router's loop (R:1925): `RuleStore` and the loop of
   `process_event` in one module, with a call of the router_mgr inside.
2. `RuleStore` with an abstract level: a set of rules with atomic updates, and
   the module shown to implement it while calls do not overlap.
3. Ranking arguments for the liveness properties, as action properties: every
   step of an operation brings it nearer to its end.
4. WeChat's two tasks; the retries and the fallback of wifi_manager; skills and
   their activation per session; start_asr next to the button.

New runs will share a configuration with existing ones where one instance can
answer several questions.

## 9. Not modelled, and why

* **Skill registry, and the front ends** (session, router and skill managers):
  sequential JSON around files and the modules above.
* **WeChat and local chat**: a polling task and a login task without a queue,
  and a channel without a task of its own.
* **MCP client and server, web search, files, time, LLM client**: protocol
  clients of external services without state between calls; what they publish
  enters as arbitrary events.
* **Lua modules, boards, PWM, codecs, decoders, drawing of `display_hal.c`**:
  drivers and arithmetic on pixels and samples. Only the calls that change who
  may draw, play or record are modelled.
* **Start-up, console, settings, Wi-Fi, DNS, HTTP server**: sequential code and
  handlers; the pool of HTTP connections is under one mutex throughout.

These are most of the lines of the repository, and most of the lines of the
modelled files too: parsing and building of JSON, formats of messages, uploads
and downloads, argument checks and logging have no place in a state machine of
the tasks. The map therefore covers about a tenth of the implementation; what it
covers is where tasks, queues, locks, timers and files meet.

## 10. Running it

    tlc -config EventRouterUnique.cfg MCEventRouter
    tlc -workers 2 -config Device.cfg MCDevice
    tlapm EventRouterProofs.tla
    tlapm CoordinationProofs.tla

`PROJECT.json` lists each run with its module and configuration, the source
lines of every definition (`map`), the mutants, the findings and the hazards.
