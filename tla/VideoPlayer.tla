---------------------------- MODULE VideoPlayer ----------------------------
(***************************************************************************)
(* The emotion display: emotion_video_controller.c queues the file of an   *)
(* emotion, the video task of video_player.c plays it in a loop until the  *)
(* next one, and the extract task of app_stream_adapter.c reads, decodes   *)
(* and draws its frames.  The screen is shared with Lua scripts through    *)
(* display_arbiter.c: a script may take it at any time, the video only     *)
(* when no script holds it.                                                *)
(*                                                                         *)
(* Playlists and video_player_stop have no caller in the program and are   *)
(* left out, so s_running is TRUE, every command is SWITCH_FILE and every  *)
(* file loops.  The sound of a file is not modelled.  A script initialises *)
(* the display at most once; how a file ends, fails or stalls is open.     *)
(***************************************************************************)
EXTENDS Naturals, SequencesExt

CONSTANTS
  File,     \* the video files, one per emotion
  Idle,     \* the file of EMOTION_IDLE_SHAKE, played from the start
  Setter,   \* tasks that set the emotion: HTTP handler, Lua script, agent tool
  Script,   \* Lua scripts
  QueueLen, \* VIDEO_CMD_QUEUE_LEN
  MaxTries, \* MAX_CONSECUTIVE_FAILURES, for failures and for stalls
  MaxEvents \* bound on the emotions set and the scripts run, together

ASSUME PlayerAssumption ==
  /\ Idle \in File
  /\ QueueLen \in Nat \ {0} /\ MaxTries \in Nat /\ MaxTries > 1
  /\ MaxEvents \in Nat

VARIABLES
  owner, luaDepth, \* display_arbiter: the owner, the claims of scripts
  vsync,           \* whose callback the panel calls on a refresh
  halReady,        \* display_hal: created, its callback registered
  script,          \* where each script is
  setter,          \* where each setter is, and its file
  eventsLeft,      \* what MaxEvents leaves
  emotion,         \* file of s_current_emotion
  commands,        \* s_video_cmd_queue
  vt,              \* the video task: where it is, its file, its counters
  adapter,         \* the stream adapter: running, eos_reached
  bits,            \* START, STOP and STOPPED of extract_event_group
  et,              \* where the extract task is; "none" when there is none
  late             \* history: video frames drawn since scripts own the screen

screenVars == <<owner, luaDepth, vsync, halReady, late>>
scriptVars == <<script, eventsLeft>>
setterVars == <<setter, emotion>>
extractVars == <<adapter, bits, et>>
playerVars == <<screenVars, scriptVars, setterVars, commands, vt, extractVars>>

NoBits == [start |-> FALSE, stop |-> FALSE, stopped |-> FALSE]

PlayerInit ==
  /\ owner = "video" /\ luaDepth = 0 /\ vsync = "video" /\ halReady = FALSE
  /\ script = [s \in Script |-> "out"] /\ eventsLeft = MaxEvents
  /\ setter = [c \in Setter |-> [at |-> "out", file |-> Idle]]
  /\ emotion = Idle
  /\ commands = <<Idle>>
  /\ vt = [at |-> "wait", file |-> Idle, failures |-> 0, stalls |-> 0]
  /\ adapter = [running |-> FALSE, eos |-> FALSE]
  /\ bits = NoBits
  /\ et = "none"
  /\ late = 0

-----------------------------------------------------------------------------
(* display_arbiter: both calls run under its mutex. *)

AcquireLua == luaDepth' = luaDepth + 1 /\ owner' = "lua"

ReleaseLua ==
  IF luaDepth = 0 THEN UNCHANGED <<owner, luaDepth>>
  ELSE /\ luaDepth' = luaDepth - 1
       /\ owner' = IF luaDepth = 1 /\ owner = "lua" THEN "none" ELSE owner

CanAcquireVideo == luaDepth = 0

ReleaseVideo == owner' = IF owner = "video" THEN "none" ELSE owner

-----------------------------------------------------------------------------
(* emotion_video_set: queue the file, then remember the emotion. *)

SetBegin(c, f) ==
  /\ setter[c].at = "out" /\ eventsLeft > 0
  /\ setter' = [setter EXCEPT ![c] = [at |-> "send", file |-> f]]
  /\ eventsLeft' = eventsLeft - 1
  /\ UNCHANGED <<screenVars, script, emotion, commands, vt, extractVars>>

SetSend(c) ==
  /\ setter[c].at = "send"
  /\ Len(commands) < QueueLen
  /\ commands' = Append(commands, setter[c].file)
  /\ setter' = [setter EXCEPT ![c].at = "sent"]
  /\ UNCHANGED <<screenVars, scriptVars, emotion, vt, extractVars>>

\* The queue stayed full for a second: the emotion stays what it was.
SetTimeout(c) ==
  /\ setter[c].at = "send"
  /\ Len(commands) = QueueLen
  /\ setter' = [setter EXCEPT ![c].at = "out"]
  /\ UNCHANGED <<screenVars, scriptVars, emotion, commands, vt, extractVars>>

SetMark(c) ==
  /\ setter[c].at = "sent"
  /\ emotion' = setter[c].file
  /\ setter' = [setter EXCEPT ![c].at = "out"]
  /\ UNCHANGED <<screenVars, scriptVars, commands, vt, extractVars>>

-----------------------------------------------------------------------------
(* A script: lua_display_init, lua_display_deinit, and at the end of every *)
(* script, whether it used the display or not, lua_display_runtime_cleanup.*)

MoveScript(s, at) == script' = [script EXCEPT ![s] = at]

ScriptBegin(s) ==
  /\ script[s] = "out" /\ eventsLeft > 0
  /\ MoveScript(s, "begun")
  /\ eventsLeft' = eventsLeft - 1
  /\ UNCHANGED <<screenVars, setterVars, commands, vt, extractVars>>

ScriptAcquire(s) ==
  /\ script[s] = "begun"
  /\ MoveScript(s, "create")
  /\ AcquireLua
  /\ late' = IF owner = "lua" THEN late ELSE 0
  /\ UNCHANGED <<vsync, halReady, eventsLeft, setterVars, commands, vt, extractVars>>

\* display_hal_create: nothing to do when it is created; it may also fail.
ScriptCreate(s) ==
  /\ script[s] = "create"
  /\ \/ MoveScript(s, "drawing") /\ halReady' = TRUE
        /\ vsync' = IF halReady THEN vsync ELSE "lua"
     \/ MoveScript(s, "release") /\ UNCHANGED <<vsync, halReady>>
  /\ UNCHANGED <<owner, luaDepth, late, eventsLeft, setterVars, commands, vt, extractVars>>

\* display_hal_destroy, its result unused: a flush that does not end keeps the
\* HAL created.  The callback stays registered with the panel.
ScriptDestroy(s) ==
  /\ \/ script[s] = "drawing" /\ MoveScript(s, "release")
     \/ script[s] = "cleanup" /\ MoveScript(s, "cleanupRelease")
  /\ halReady' \in {FALSE, halReady}
  /\ UNCHANGED <<owner, luaDepth, vsync, late, eventsLeft, setterVars, commands, vt, extractVars>>

ScriptRelease(s) ==
  /\ \/ script[s] = "release" /\ MoveScript(s, "done")
     \/ script[s] = "cleanupRelease" /\ MoveScript(s, "out")
  /\ ReleaseLua
  /\ UNCHANGED <<vsync, halReady, late, eventsLeft, setterVars, commands, vt, extractVars>>

\* The script is over; the cleanup looks only at who owns the display.
ScriptEnd(s) ==
  /\ script[s] \in {"begun", "drawing", "done"}
  /\ MoveScript(s, IF owner = "lua" THEN "cleanup" ELSE "out")
  /\ UNCHANGED <<screenVars, eventsLeft, setterVars, commands, vt, extractVars>>

-----------------------------------------------------------------------------
(* The video task. *)

VideoTo(at) == vt' = [vt EXCEPT !.at = at]

\* Taking a SWITCH_FILE command; only some places reset the failures.
TakeCommand(failures) ==
  /\ commands # <<>>
  /\ commands' = Tail(commands)
  /\ vt' = [vt EXCEPT !.at = "acquire", !.file = Head(commands), !.failures = failures]

VideoWait ==
  /\ \/ vt.at = "wait" /\ TakeCommand(vt.failures)
     \/ vt.at = "waitFailed" /\ TakeCommand(0)
  /\ UNCHANGED <<screenVars, scriptVars, setterVars, extractVars>>

\* Tried again every 500 ms while scripts hold the display.
VideoAcquire ==
  /\ vt.at = "acquire"
  /\ CanAcquireVideo
  /\ owner' = "video"
  /\ VideoTo("start")
  /\ UNCHANGED <<luaDepth, vsync, halReady, late, scriptVars, setterVars, commands, extractVars>>

\* The refresh callback is registered again, whoever has the screen by now;
\* then play_single_file.  An extract task whose handle is set is told to
\* start, also when it is about to end; without one a task is created.
VideoStart ==
  /\ vt.at = "start"
  /\ adapter' = [running |-> TRUE, eos |-> FALSE]
  /\ IF et # "none"
     THEN bits' = [bits EXCEPT !.start = TRUE] /\ UNCHANGED et
     ELSE bits' = [NoBits EXCEPT !.start = TRUE] /\ et' = "idle"
  /\ VideoTo("monitor")
  /\ vsync' = "video"
  /\ UNCHANGED <<owner, luaDepth, halReady, late, scriptVars, setterVars, commands>>

\* The file cannot be opened or is no MJPEG video.
VideoStartFails ==
  /\ vt.at = "start"
  /\ vsync' = "video"
  /\ ReleaseVideo
  /\ adapter' = [running |-> FALSE, eos |-> FALSE]
  /\ vt' = [vt EXCEPT !.failures = @ + 1,
                      !.at = IF vt.failures + 1 >= MaxTries THEN "gone" ELSE "waitFailed"]
  /\ UNCHANGED <<luaDepth, halReady, late, scriptVars, setterVars, commands, bits, et>>

\* The inner loop looks for the owner, a command, the end of the file and a
\* stall, in this order, every 50 ms.  What it finds stops the playback: in
\* stop_extract_task the STOP bit is set, if there is a task, and STOPPED
\* awaited.
StopFor(why) == VideoTo(why) /\ UNCHANGED commands

VideoMonitor ==
  /\ vt.at = "monitor"
  /\ \/ owner # "video" /\ StopFor("stopLost")
     \/ /\ owner = "video" /\ commands # <<>>
        /\ commands' = Tail(commands)
        /\ vt' = [vt EXCEPT !.at = "stopSwitch", !.file = Head(commands), !.failures = 0]
     \/ owner = "video" /\ commands = <<>> /\ adapter.eos /\ StopFor("stopEnded")
     \/ owner = "video" /\ commands = <<>> /\ StopFor("stopStalled")
  /\ bits' = [bits EXCEPT !.stop = (et # "none")]
  /\ UNCHANGED <<screenVars, scriptVars, setterVars, adapter, et>>

Stops == {"stopLost", "stopSwitch", "stopEnded", "stopStalled"}

\* Where the extract task can be for more than the two seconds of that wait:
\* in a read of the SD card, in the wait for a refresh without a timeout, and
\* gone, when it had said STOPPED already and its handle was seen too early.
Blocked == {"read", "refresh", "none"}

\* Variant: the wait for STOPPED has no timeout.
StopWaitOverAtLast ==
  \/ ~ bits.stop
  \/ bits.stop /\ bits.stopped

StopWaitOver ==
  \/ ~ bits.stop
  \/ bits.stop /\ (bits.stopped \/ et \in Blocked)

AfterStop(v) ==
  CASE v.at = "stopSwitch" -> [v EXCEPT !.at = "acquire"]
    [] v.at = "stopLost" -> [v EXCEPT !.at = "lost"]
    [] v.at = "stopEnded" -> [v EXCEPT !.at = "acquire", !.failures = 0, !.stalls = 0]
    [] v.at = "stopStalled" ->
         [v EXCEPT !.at = IF v.stalls + 1 >= MaxTries THEN "wait" ELSE "acquire",
                   !.failures = 0,
                   !.stalls = IF @ + 1 >= MaxTries THEN 0 ELSE @ + 1]

\* The wait is over: app_extractor_stop closes the file, and the loop goes on;
\* after too many stalls in a row it gives the screen and the file up.
VideoStopped ==
  /\ vt.at \in Stops
  /\ StopWaitOver
  /\ bits' = [bits EXCEPT !.stop = FALSE, !.stopped = FALSE]
  /\ adapter' = [adapter EXCEPT !.running = FALSE]
  /\ vt' = AfterStop(vt)
  /\ IF vt'.at = "wait" THEN ReleaseVideo ELSE UNCHANGED owner
  /\ UNCHANGED <<luaDepth, vsync, halReady, late, scriptVars, setterVars, commands, et>>

\* A script has the screen: look for a command, else try to get it back.
VideoLost ==
  /\ vt.at = "lost"
  /\ \/ TakeCommand(0) /\ UNCHANGED owner
     \/ /\ commands = <<>> /\ CanAcquireVideo
        /\ owner' = "video" /\ VideoTo("acquire") /\ UNCHANGED commands
  /\ UNCHANGED <<luaDepth, vsync, halReady, late, scriptVars, setterVars, extractVars>>

-----------------------------------------------------------------------------
(* The extract task and the frame callback it runs. *)

ExtractTo(at) == et' = at

\* Waiting for START or STOP; STOP is looked at first.
ExtractWait ==
  /\ et = "idle"
  /\ \/ bits.stop /\ ExtractTo("over") /\ bits' = [bits EXCEPT !.stopped = TRUE]
     \/ ~ bits.stop /\ bits.start /\ ExtractTo("next") /\ UNCHANGED bits
  /\ UNCHANGED <<screenVars, scriptVars, setterVars, commands, vt, adapter>>

\* The next frame, unless told to stop; a closed file is at its end.
ExtractNext ==
  /\ et = "next"
  /\ LET ended == ~ bits.stop /\ ~ adapter.running
     IN  /\ adapter' = [adapter EXCEPT !.eos = @ \/ ended]
         /\ IF bits.stop \/ ended
            THEN ExtractTo("idle") /\ bits' = [bits EXCEPT !.start = FALSE]
            ELSE ExtractTo("read") /\ UNCHANGED bits
  /\ UNCHANGED <<screenVars, scriptVars, setterVars, commands, vt>>

\* The read gives a frame of the video, something else, the end, or an error.
ExtractRead ==
  /\ et = "read"
  /\ \/ et' \in {"frame", "next"} /\ UNCHANGED <<adapter, bits>>
     \/ \E end \in BOOLEAN :
          /\ adapter' = [adapter EXCEPT !.eos = @ \/ end]
          /\ ExtractTo("idle") /\ bits' = [bits EXCEPT !.start = FALSE]
  /\ UNCHANGED <<screenVars, scriptVars, setterVars, commands, vt>>

\* Variant: frames are drawn whoever owns the screen.
DrawFrameAlways ==
  /\ et = "frame"
  /\ ExtractTo("draw")
  /\ UNCHANGED <<screenVars, scriptVars, setterVars, commands, vt, adapter, bits>>

DrawFrame ==
  /\ et = "frame"
  /\ ExtractTo(IF owner = "video" THEN "draw" ELSE "next")
  /\ UNCHANGED <<screenVars, scriptVars, setterVars, commands, vt, adapter, bits>>

DrawBitmap ==
  /\ et = "draw"
  /\ ExtractTo("vsync")
  /\ late' = IF owner = "lua" THEN late + 1 ELSE late
  /\ UNCHANGED <<owner, luaDepth, vsync, halReady, scriptVars, setterVars, commands, vt, adapter, bits>>

\* A refresh, or 100 ms without one: then wait for one if still the owner.
WaitRefresh ==
  /\ \/ et \in {"vsync", "refresh"} /\ vsync = "video" /\ ExtractTo("next")
     \/ et = "vsync" /\ vsync # "video"
        /\ ExtractTo(IF owner = "video" THEN "refresh" ELSE "next")
  /\ UNCHANGED <<screenVars, scriptVars, setterVars, commands, vt, adapter, bits>>

\* The task has said STOPPED; only now does it clear its handle.
ExtractGone ==
  /\ et = "over"
  /\ ExtractTo("none")
  /\ UNCHANGED <<screenVars, scriptVars, setterVars, commands, vt, adapter, bits>>

-----------------------------------------------------------------------------
Setting(c) == SetSend(c) \/ SetTimeout(c) \/ SetMark(c)
ScriptStep(s) ==
  \/ ScriptAcquire(s) \/ ScriptCreate(s) \/ ScriptDestroy(s)
  \/ ScriptRelease(s) \/ ScriptEnd(s)
\* Where a script is in the display's own functions, which return.
InDisplay(s) == script[s] \in {"create", "release", "cleanup", "cleanupRelease"}
VideoTask ==
  \/ VideoWait \/ VideoAcquire \/ VideoStart \/ VideoStartFails
  \/ VideoMonitor \/ VideoStopped \/ VideoLost
ExtractTask ==
  \/ ExtractWait \/ ExtractNext \/ ExtractRead \/ DrawFrame
  \/ DrawBitmap \/ WaitRefresh \/ ExtractGone

PlayerNext ==
  \/ \E c \in Setter : (\E f \in File : SetBegin(c, f)) \/ Setting(c)
  \/ \E s \in Script : ScriptBegin(s) \/ ScriptStep(s)
  \/ VideoTask \/ ExtractTask

PlayerSpec == PlayerInit /\ [][PlayerNext]_playerVars

VideoPlaces == {"wait", "waitFailed", "acquire", "start", "monitor", "lost"} \cup Stops

PlayerTypeOK ==
  /\ owner \in {"none", "lua", "video"} /\ luaDepth \in Nat /\ late \in Nat
  /\ vsync \in {"video", "lua"} /\ halReady \in BOOLEAN
  /\ setter \in [Setter -> [at : {"out", "send", "sent"}, file : File]]
  /\ emotion \in File
  /\ commands \in Seq(File) /\ Len(commands) <= QueueLen
  /\ vt \in [at : VideoPlaces \cup {"gone"}, file : File, failures : 0..MaxTries,
             stalls : 0..MaxTries]
  /\ adapter \in [running : BOOLEAN, eos : BOOLEAN]
  /\ bits \in [start : BOOLEAN, stop : BOOLEAN, stopped : BOOLEAN]
  /\ et \in {"none", "idle", "next", "read", "frame", "draw", "vsync", "refresh", "over"}

-----------------------------------------------------------------------------
(* Properties. *)

\* The video gives way: after scripts take the screen at most one more of its
\* frames, whose check came before, is drawn over theirs.
OneLateFrame == late <= 1

\* The video task ends only with the player: three failures in a row, after
\* which it would leave its queue for ever, cannot come together, since each
\* failure waits for a command and the command resets the count.
VideoTaskStays == vt.at # "gone"

\* If scripts end, the emotion asked for last is shown, or another one is asked
\* for, or its file does not play: also when scripts took the screen meanwhile,
\* or left their refresh callback with the panel.  A script need not end (one
\* that is run without a timeout has no deadline), and one that keeps the screen
\* keeps the video from it.
ScriptsEnd == \A s \in Script : []<>(script[s] = "out")
Shows(f) == vt.at = "monitor" /\ vt.file = f
GaveUp == vt.at \in {"wait", "waitFailed"} /\ commands = <<>>
AskedLast(f) == commands # <<>> /\ Last(commands) = f
LastEmotionShows ==
  ScriptsEnd => \A f \in File : AskedLast(f)
    ~> (Shows(f) \/ GaveUp \/ \E g \in File \ {f} : AskedLast(g))
=============================================================================
