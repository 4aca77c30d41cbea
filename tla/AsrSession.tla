----------------------------- MODULE AsrSession -----------------------------
(***************************************************************************)
(* Speech recognition by the touch button: app_asr_button.c runs cap_asr.c *)
(* for each press, and a release stops the recording.  A session opens the *)
(* microphone, creates a semaphore and a capture task, and waits on the    *)
(* semaphore for the result that the websocket of voice_ws_common.c brings;*)
(* the capture task records until it is told to stop, hears nothing or has *)
(* recorded long enough, and then waits on the same semaphore.             *)
(*                                                                         *)
(* The callbacks of the websocket look at s_asr_active, write the result   *)
(* and give the semaphore without a lock, so that a session may end, and   *)
(* the next begin, under them: see Give and AsrWrite.                      *)
(*                                                                         *)
(* Left out: the samples, the texts, the states of the button.  The agent  *)
(* may call start_asr too; a session of its own, next to one of the button,*)
(* is not modelled.                                                        *)
(***************************************************************************)
EXTENDS Naturals

CONSTANTS MaxSessions, MaxReleases \* bounds on the presses and the releases

ASSUME AsrAssumption == {MaxSessions, MaxReleases} \subseteq Nat

Session == 1..MaxSessions

VARIABLES
  pressed,   \* s_asr_queue holds a press
  sessions,  \* how many sessions there have been
  releases,  \* how many releases there have been
  run,       \* where cap_asr_execute is; "idle" while the handler waits,
             \* "gone" once its task has deleted itself
  stopRequested, recording,
  capture,   \* where the capture task is; "none" when there is none
  sem,       \* s_asr_done_sem: "none" (NULL), "empty", "given", or "freed": the
             \* pointer still names the deleted semaphore
  asrActive, asrError,
  heard,     \* the session whose text s_asr_result holds; 0 is no text
  wsOnline,
  owed,      \* sessions that the server still has to answer
  ws,        \* where the websocket task is in a callback: "idle", "partial",
             \* "final" or "error" before the writes, "give" after them
  wsOf,      \* the session that the callback is about
  released   \* history: a release since the reset of this session, or before

buttonVars == <<pressed, sessions, releases, released>>
resultVars == <<sem, asrActive, asrError, heard>>
netVars == <<wsOnline, owed, ws, wsOf>>
asrVars == <<buttonVars, run, stopRequested, recording, capture, resultVars, netVars>>

AsrInit ==
  /\ pressed = FALSE /\ sessions = 0 /\ releases = 0
  /\ run = "idle" /\ stopRequested = FALSE /\ recording = FALSE /\ capture = "none"
  /\ sem = "none" /\ asrActive = FALSE /\ asrError = FALSE /\ heard = 0
  /\ wsOnline = FALSE /\ owed = {} /\ ws = "idle" /\ wsOf = 0
  /\ released = "no"

\* A panic: everything but the bounds starts anew.
Restart ==
  /\ pressed' = FALSE /\ UNCHANGED <<sessions, releases>>
  /\ run' = "idle" /\ stopRequested' = FALSE /\ recording' = FALSE /\ capture' = "none"
  /\ sem' = "none" /\ asrActive' = FALSE /\ asrError' = FALSE /\ heard' = 0
  /\ wsOnline' = FALSE /\ owed' = {} /\ ws' = "idle" /\ wsOf' = 0
  /\ released' = "no"

\* xSemaphoreGive on a semaphore that exists.
Give == sem \in {"empty", "given"} /\ sem' = "given"

-----------------------------------------------------------------------------
(* The button. *)

\* A press while one waits is dropped.
Press ==
  /\ sessions < MaxSessions /\ pressed' = TRUE
  /\ UNCHANGED <<sessions, releases, released, run, stopRequested, recording, capture,
                 resultVars, netVars>>

BeforeReset == {"connect", "open", "reset", "resetError", "resetText", "resetStop"}

\* cap_asr_stop.
Release ==
  /\ releases < MaxReleases /\ releases' = releases + 1
  /\ stopRequested' = TRUE /\ recording' = FALSE
  /\ released' = CASE run = "idle" -> released
                   [] run \in BeforeReset -> "early"
                   [] OTHER -> "late"
  /\ UNCHANGED <<pressed, sessions, run, capture, resultVars, netVars>>

-----------------------------------------------------------------------------
(* cap_asr_execute, in the task of the button. *)

RunTo(at) == run' = at

Begin ==
  /\ run = "idle" /\ pressed
  /\ pressed' = FALSE /\ sessions' = sessions + 1 /\ released' = "no"
  /\ RunTo("connect")
  /\ UNCHANGED <<releases, stopRequested, recording, capture, resultVars, netVars>>

\* voice_ws_connect, up to ten seconds.
ConnectWs ==
  /\ run = "connect"
  /\ \/ (wsOnline \/ ws = "idle") /\ wsOnline' = TRUE /\ RunTo("open")
     \/ ~ wsOnline /\ UNCHANGED wsOnline /\ RunTo("idle")
  /\ UNCHANGED <<buttonVars, stopRequested, recording, capture, resultVars, owed, ws, wsOf>>

\* The microphone and the semaphore.
OpenMic ==
  /\ run = "open"
  /\ \/ sem' = "empty" /\ RunTo("reset")
     \/ UNCHANGED sem /\ RunTo("idle")
  /\ UNCHANGED <<buttonVars, stopRequested, recording, capture, asrActive, asrError, heard, netVars>>

\* One write after the other; the request to stop is forgotten last.
Reset ==
  /\ \/ /\ run = "reset" /\ RunTo("resetError")
        /\ asrActive' = TRUE /\ UNCHANGED <<asrError, heard, stopRequested>>
     \/ /\ run = "resetError" /\ RunTo("resetText")
        /\ asrError' = FALSE /\ UNCHANGED <<asrActive, heard, stopRequested>>
     \/ /\ run = "resetText" /\ RunTo("resetStop")
        /\ heard' = 0 /\ UNCHANGED <<asrActive, asrError, stopRequested>>
     \/ /\ run = "resetStop" /\ RunTo("record")
        /\ stopRequested' = FALSE /\ UNCHANGED <<asrActive, asrError, heard>>
  /\ UNCHANGED <<buttonVars, recording, capture, sem, netVars>>

StartRecording ==
  /\ run = "record"
  /\ recording' = TRUE
  /\ RunTo("create")
  /\ UNCHANGED <<buttonVars, stopRequested, capture, resultVars, netVars>>

CreateCapture ==
  /\ run = "create"
  /\ \/ capture' = "start" /\ RunTo("check")
     \/ UNCHANGED capture /\ RunTo("join")
  /\ UNCHANGED <<buttonVars, stopRequested, recording, resultVars, netVars>>

\* A stop that came before the capture task was there.
CheckStop ==
  /\ run = "check"
  /\ recording' = (recording /\ ~ stopRequested)
  /\ RunTo("wait")
  /\ UNCHANGED <<buttonVars, stopRequested, capture, resultVars, netVars>>

\* The semaphore, or the total timeout.
Await ==
  /\ run = "wait"
  /\ \/ sem = "given" /\ sem' = "empty"
     \/ sem = "empty" /\ UNCHANGED sem
  /\ recording' = FALSE
  /\ RunTo("join")
  /\ UNCHANGED <<buttonVars, stopRequested, capture, asrActive, asrError, heard, netVars>>

\* Variant: a capture task that does not end is left to itself.
JoinOrLeave ==
  /\ run = "join"
  /\ RunTo("close")
  /\ UNCHANGED <<buttonVars, stopRequested, recording, capture, resultVars, netVars>>

\* asr_cleanup waits half a second for s_capture_task to become NULL.
Join ==
  /\ run = "join"
  /\ RunTo(IF capture = "none" THEN "close" ELSE "delete")
  /\ UNCHANGED <<buttonVars, stopRequested, recording, capture, resultVars, netVars>>

\* Then it deletes the task; one that has just set its handle to NULL makes that
\* vTaskDelete(NULL), by which the task of the button deletes itself.
DeleteCapture ==
  /\ run = "delete"
  /\ RunTo(IF capture = "none" THEN "gone" ELSE "close")
  /\ capture' = "none"
  /\ UNCHANGED <<buttonVars, stopRequested, recording, resultVars, netVars>>

\* The semaphore is deleted, then its pointer is cleared.
CloseMic ==
  /\ \/ run = "close" /\ sem' = "freed" /\ RunTo("clear")
     \/ run = "clear" /\ sem' = "none" /\ RunTo("deactivate")
  /\ UNCHANGED <<buttonVars, stopRequested, recording, capture, asrActive, asrError, heard, netVars>>

Deactivate ==
  /\ run = "deactivate"
  /\ asrActive' = FALSE
  /\ RunTo("idle")
  /\ UNCHANGED <<buttonVars, stopRequested, recording, capture, sem, asrError, heard, netVars>>

Execute ==
  \/ ConnectWs \/ OpenMic \/ Reset \/ StartRecording \/ CreateCapture \/ CheckStop
  \/ Await \/ Join \/ DeleteCapture \/ CloseMic \/ Deactivate

-----------------------------------------------------------------------------
(* asr_capture_task. *)

CaptureTo(at) == capture' = at

\* asr_start is sent; without buffers or connection the session is over.
CaptureStart ==
  /\ capture = "start"
  /\ \/ wsOnline /\ CaptureTo("record") /\ owed' = owed \cup {sessions}
        /\ UNCHANGED <<sem, asrError>>
     \/ CaptureTo("end") /\ asrError' = TRUE /\ Give /\ UNCHANGED owed
  /\ UNCHANGED <<buttonVars, run, stopRequested, recording, asrActive, heard, wsOnline,
                 ws, wsOf>>

\* Told to stop, silence, or the longest duration: asr_stop is sent.
CaptureStop ==
  /\ capture = "record"
  /\ CaptureTo("wait")
  /\ UNCHANGED <<buttonVars, run, stopRequested, recording, resultVars, netVars>>

\* The semaphore, or 15 s without a result.
CaptureWait ==
  /\ capture = "wait"
  /\ CaptureTo("end")
  /\ \/ sem = "given" /\ sem' = "empty" /\ UNCHANGED asrError
     \/ sem = "empty" /\ asrError' = TRUE /\ UNCHANGED sem
  /\ UNCHANGED <<buttonVars, run, stopRequested, recording, asrActive, heard, netVars>>

CaptureEnd ==
  /\ capture = "end"
  /\ CaptureTo("none") /\ recording' = FALSE
  /\ UNCHANGED <<buttonVars, run, stopRequested, resultVars, netVars>>

Capture == CaptureStart \/ CaptureStop \/ CaptureWait \/ CaptureEnd

-----------------------------------------------------------------------------
(* The websocket. *)

\* A text or an error arrives; s_asr_active is looked at before it is read.
AsrAnswer(n, kind) ==
  /\ wsOnline /\ n \in owed /\ ws = "idle"
  /\ owed' = IF kind = "partial" THEN owed ELSE owed \ {n}
  /\ IF asrActive THEN ws' = kind /\ wsOf' = n ELSE UNCHANGED <<ws, wsOf>>
  /\ UNCHANGED <<buttonVars, run, stopRequested, recording, capture, resultVars, wsOnline>>

AsrDisconnect ==
  /\ wsOnline /\ ws = "idle" /\ wsOnline' = FALSE /\ owed' = {}
  /\ IF asrActive THEN ws' = "error" /\ wsOf' = sessions ELSE UNCHANGED <<ws, wsOf>>
  /\ UNCHANGED <<buttonVars, run, stopRequested, recording, capture, resultVars>>

\* The result, of whichever session is active by now; a text that is not final
\* replaces the one before and ends nothing.
AsrWrite ==
  /\ ws \in {"partial", "final", "error"}
  /\ heard' = wsOf
  /\ IF ws = "partial"
     THEN ws' = "idle" /\ UNCHANGED <<asrError, asrActive>>
     ELSE ws' = "give" /\ asrError' = (ws = "error") /\ asrActive' = FALSE
  /\ UNCHANGED <<buttonVars, run, stopRequested, recording, capture, sem, wsOnline, owed, wsOf>>

\* The semaphore is given, without a look at whether the session still has it.
\* On NULL the assertion in xQueueGenericSend panics; on a deleted one nothing
\* happens, or the device panics too.
AsrGive ==
  /\ ws = "give"
  /\ \/ /\ Give \/ (sem = "freed" /\ UNCHANGED sem)
        /\ ws' = "idle"
        /\ UNCHANGED <<buttonVars, run, stopRequested, recording, capture, asrActive, asrError,
                       heard, wsOnline, owed, wsOf>>
     \/ sem \in {"freed", "none"} /\ Restart

Ws ==
  \/ \E n \in Session, kind \in {"partial", "final", "error"} : AsrAnswer(n, kind)
  \/ AsrDisconnect \/ AsrWrite \/ AsrGive

AsrNext == Press \/ Release \/ Begin \/ Execute \/ Capture \/ Ws

AsrSpec == AsrInit /\ [][AsrNext]_asrVars

AsrFlagsOK ==
  /\ pressed \in BOOLEAN /\ stopRequested \in BOOLEAN /\ recording \in BOOLEAN
  /\ asrActive \in BOOLEAN /\ asrError \in BOOLEAN /\ wsOnline \in BOOLEAN

AsrTypeOK ==
  /\ AsrFlagsOK
  /\ sessions \in 0..MaxSessions /\ releases \in Nat
  /\ run \in {"idle", "record", "create", "check", "wait", "join", "delete", "close",
              "clear", "deactivate", "gone"} \cup BeforeReset
  /\ capture \in {"none", "start", "record", "wait", "end"}
  /\ sem \in {"none", "empty", "given", "freed"}
  /\ ws \in {"idle", "partial", "final", "error", "give"} /\ wsOf \in 0..MaxSessions
  /\ heard \in 0..MaxSessions /\ owed \subseteq Session

-----------------------------------------------------------------------------
(* Properties. *)

Waiting == run = "wait"

\* A release that comes after the session has reset s_stop_requested ends the
\* recording, also when it comes before the capture task exists.
StopHolds == (Waiting /\ released = "late") => ~ recording

\* The semaphore and the microphone go only when no capture task is left that
\* uses them, and no second one is created (asr_cleanup).  Of the callbacks of
\* the websocket, which nothing waits for, it does not speak: see AsrGive.
CaptureIsWaitedFor == capture # "none" => run \in {"check", "wait", "join", "delete"}
=============================================================================
