--------------------------- MODULE InterfaceProofs ---------------------------
(***************************************************************************)
(* What the components at the edge of the device keep: the video player    *)
(* and the screen, the capture of speech, the speech that is played, the   *)
(* gateways of the messengers and the servos.  They share no state; each   *)
(* section is about one module, for any number of its tasks and any sizes  *)
(* of its queues.                                                          *)
(***************************************************************************)
EXTENDS VideoPlayer, AsrSession, SpeechOut, ImGateway, ServoMotion,
        FiniteSetTheorems, SequenceTheorems, TLAPS

-----------------------------------------------------------------------------
(* VideoPlayer.  Two small invariants: the count of failures is 0 except   *)
(* while the task waits for the command that resets it, and while scripts  *)
(* own the screen no frame can be about to be drawn once one was drawn late. *)

LEMMA QueueTail ==
  ASSUME commands \in Seq(File), Len(commands) <= QueueLen, commands # <<>>
  PROVE  /\ Head(commands) \in File
         /\ Tail(commands) \in Seq(File)
         /\ Len(Tail(commands)) <= QueueLen
BY PlayerAssumption DEF PlayerAssumption

-----------------------------------------------------------------------------
(* OneLateFrame. *)

ScreenInv ==
  /\ owner \in {"none", "lua", "video"} /\ late \in {0, 1}
  /\ (owner = "lua" /\ late = 1) => et # "draw"

LEMMA ScreenStep == ScreenInv /\ [PlayerNext]_playerVars => ScreenInv'
<1> SUFFICES ASSUME ScreenInv, [PlayerNext]_playerVars PROVE ScreenInv'
  OBVIOUS
<1> USE DEF ScreenInv
<1>1. ASSUME NEW c \in Setter, NEW f \in File, SetBegin(c, f) PROVE ScreenInv'
  BY <1>1 DEF SetBegin, screenVars, extractVars
<1>2. ASSUME NEW c \in Setter, Setting(c) PROVE ScreenInv'
  BY <1>2 DEF Setting, SetSend, SetTimeout, SetMark, screenVars, extractVars
<1>3. ASSUME NEW s \in Script, ScriptBegin(s) PROVE ScreenInv'
  BY <1>3 DEF ScriptBegin, screenVars, extractVars
<1>4. ASSUME NEW s \in Script, ScriptStep(s) PROVE ScreenInv'
  <2>1. CASE ScriptAcquire(s)
    BY <2>1 DEF ScriptAcquire, AcquireLua, extractVars
  <2>2. CASE ScriptCreate(s)
    BY <2>2 DEF ScriptCreate, extractVars
  <2>3. CASE ScriptDestroy(s)
    BY <2>3 DEF ScriptDestroy, extractVars
  <2>4. CASE ScriptRelease(s)
    BY <2>4 DEF ScriptRelease, ReleaseLua, extractVars
  <2>5. CASE ScriptEnd(s)
    BY <2>5 DEF ScriptEnd, screenVars, extractVars
  <2> QED
    BY <1>4, <2>1, <2>2, <2>3, <2>4, <2>5 DEF ScriptStep
<1>5. CASE VideoTask
  <2>1. CASE VideoWait
    BY <2>1 DEF VideoWait, screenVars, extractVars
  <2>2. CASE VideoAcquire
    BY <2>2 DEF VideoAcquire, extractVars
  <2>3. CASE VideoStart
    BY <2>3 DEF VideoStart
  <2>4. CASE VideoStartFails
    BY <2>4 DEF VideoStartFails, ReleaseVideo
  <2>5. CASE VideoMonitor
    BY <2>5 DEF VideoMonitor, screenVars
  <2>6. CASE VideoStopped
    BY <2>6 DEF VideoStopped, ReleaseVideo
  <2>7. CASE VideoLost
    BY <2>7 DEF VideoLost, extractVars
  <2> QED
    BY <1>5, <2>1, <2>2, <2>3, <2>4, <2>5, <2>6, <2>7 DEF VideoTask
<1>6. CASE ExtractTask
  <2>1. CASE ExtractWait
    BY <2>1 DEF ExtractWait, ExtractTo, screenVars
  <2>2. CASE ExtractNext
    BY <2>2 DEF ExtractNext, ExtractTo, screenVars
  <2>3. CASE ExtractRead
    BY <2>3 DEF ExtractRead, ExtractTo, screenVars
  <2>4. CASE DrawFrame
    BY <2>4 DEF DrawFrame, ExtractTo, screenVars
  <2>5. CASE DrawBitmap
    BY <2>5 DEF DrawBitmap, ExtractTo
  <2>6. CASE WaitRefresh
    BY <2>6 DEF WaitRefresh, ExtractTo, screenVars
  <2>7. CASE ExtractGone
    BY <2>7 DEF ExtractGone, ExtractTo, screenVars
  <2> QED
    BY <1>6, <2>1, <2>2, <2>3, <2>4, <2>5, <2>6, <2>7 DEF ExtractTask
<1>7. CASE UNCHANGED playerVars
  BY <1>7 DEF playerVars, screenVars, extractVars
<1> QED
  BY <1>1, <1>2, <1>3, <1>4, <1>5, <1>6, <1>7 DEF PlayerNext

\* The video gives way: display_decoded_frame looks for the owner before every
\* frame, so after scripts take the screen at most one frame is still drawn.
THEOREM VideoGivesWay == PlayerSpec => []OneLateFrame
<1>1. PlayerInit => ScreenInv
  BY DEF PlayerInit, ScreenInv
<1>2. ScreenInv => OneLateFrame
  BY DEF ScreenInv, OneLateFrame
<1> QED
  BY <1>1, <1>2, ScreenStep, PTL DEF PlayerSpec

-----------------------------------------------------------------------------
(* VideoTaskStays. *)

FailureInv ==
  /\ vt \in [at : VideoPlaces, file : File, failures : 0..MaxTries, stalls : 0..MaxTries]
  /\ vt.failures = 0 \/ (vt.at = "waitFailed" /\ vt.failures = 1)
  /\ commands \in Seq(File) /\ Len(commands) <= QueueLen
  /\ setter \in [Setter -> [at : {"out", "send", "sent"}, file : File]]

\* What a step makes of the counters, when it leaves the commands alone.
LEMMA VideoUpdate ==
  ASSUME FailureInv, UNCHANGED <<commands, setter>>,
         NEW place \in VideoPlaces, NEW n \in 0..MaxTries, NEW m \in 0..MaxTries,
         vt' = [vt EXCEPT !.at = place, !.failures = n, !.stalls = m],
         n = 0 \/ (place = "waitFailed" /\ n = 1)
  PROVE  FailureInv'
<1>1. vt' \in [at : VideoPlaces, file : File, failures : 0..MaxTries, stalls : 0..MaxTries]
  BY DEF FailureInv
<1>2. vt'.at = place /\ vt'.failures = n
  BY DEF FailureInv
<1> QED
  BY <1>1, <1>2 DEF FailureInv

LEMMA WaitStep == FailureInv /\ VideoWait => FailureInv'
<1> SUFFICES ASSUME FailureInv, VideoWait PROVE FailureInv'
  OBVIOUS
<1>1. commands # <<>> /\ commands' = Tail(commands) /\ setter' = setter
  BY DEF VideoWait, TakeCommand, setterVars
<1>2. PICK n \in 0..MaxTries :
        n = 0 /\ vt' = [vt EXCEPT !.at = "acquire", !.file = Head(commands), !.failures = n]
  <2>1. 0 \in 0..MaxTries
    BY PlayerAssumption DEF PlayerAssumption
  <2>2. CASE vt.at = "wait" /\ TakeCommand(vt.failures)
    BY <2>1, <2>2 DEF TakeCommand, FailureInv
  <2>3. CASE vt.at = "waitFailed" /\ TakeCommand(0)
    BY <2>1, <2>3 DEF TakeCommand
  <2> QED
    BY <2>2, <2>3 DEF VideoWait
<1>3. Head(commands) \in File /\ commands' \in Seq(File) /\ Len(commands') <= QueueLen
  BY <1>1, QueueTail DEF FailureInv
<1>4. vt' \in [at : VideoPlaces, file : File, failures : 0..MaxTries, stalls : 0..MaxTries]
  BY <1>2, <1>3 DEF FailureInv, VideoPlaces
<1>5. vt'.failures = 0
  BY <1>2 DEF FailureInv
<1> QED
  BY <1>1, <1>3, <1>4, <1>5 DEF FailureInv

LEMMA StartFailsStep == FailureInv /\ VideoStartFails => FailureInv'
<1> SUFFICES ASSUME FailureInv, VideoStartFails PROVE FailureInv'
  OBVIOUS
<1>1. vt.failures = 0
  BY DEF FailureInv, VideoStartFails
<1>2. 1 \in 0..MaxTries /\ ~ (0 + 1 >= MaxTries) /\ 0 + 1 = 1
  BY PlayerAssumption DEF PlayerAssumption
<1>3. vt.stalls \in 0..MaxTries /\ "waitFailed" \in VideoPlaces
  BY DEF FailureInv, VideoPlaces
<1>4. vt' = [vt EXCEPT !.failures = 1, !.at = "waitFailed"]
  BY <1>1, <1>2 DEF VideoStartFails
<1>5. vt' = [vt EXCEPT !.at = "waitFailed", !.failures = 1, !.stalls = vt.stalls]
  BY <1>4 DEF FailureInv
<1>6. UNCHANGED <<commands, setter>>
  BY DEF VideoStartFails, setterVars
<1> QED
  BY <1>2, <1>3, <1>5, <1>6, VideoUpdate

LEMMA StoppedStep == FailureInv /\ VideoStopped => FailureInv'
<1> SUFFICES ASSUME FailureInv, VideoStopped PROVE FailureInv'
  OBVIOUS
<1>1. UNCHANGED <<commands, setter>>
  BY DEF VideoStopped, setterVars
<1>2. vt.at \in Stops /\ vt' = AfterStop(vt)
  BY DEF VideoStopped
<1>3. 0 \in 0..MaxTries /\ vt.stalls \in 0..MaxTries /\ vt.failures = 0
  BY <1>2, PlayerAssumption DEF FailureInv, PlayerAssumption, Stops
<1>4. "acquire" \in VideoPlaces /\ "lost" \in VideoPlaces /\ "wait" \in VideoPlaces
  BY DEF VideoPlaces
<1>5. CASE vt.at = "stopSwitch"
  <2>1. vt' = [vt EXCEPT !.at = "acquire", !.failures = 0, !.stalls = vt.stalls]
    BY <1>2, <1>3, <1>5 DEF AfterStop, FailureInv
  <2> QED
    BY <1>1, <1>3, <1>4, <2>1, VideoUpdate
<1>6. CASE vt.at = "stopLost"
  <2>1. vt' = [vt EXCEPT !.at = "lost", !.failures = 0, !.stalls = vt.stalls]
    BY <1>2, <1>3, <1>6 DEF AfterStop, FailureInv
  <2> QED
    BY <1>1, <1>3, <1>4, <2>1, VideoUpdate
<1>7. CASE vt.at = "stopEnded"
  <2>1. vt' = [vt EXCEPT !.at = "acquire", !.failures = 0, !.stalls = 0]
    BY <1>2, <1>7 DEF AfterStop
  <2> QED
    BY <1>1, <1>3, <1>4, <2>1, VideoUpdate
<1>8. CASE vt.at = "stopStalled" /\ vt.stalls + 1 >= MaxTries
  <2>1. vt' = [vt EXCEPT !.at = "wait", !.failures = 0, !.stalls = 0]
    BY <1>2, <1>8 DEF AfterStop
  <2> QED
    BY <1>1, <1>3, <1>4, <2>1, VideoUpdate
<1>9. CASE vt.at = "stopStalled" /\ ~ (vt.stalls + 1 >= MaxTries)
  <2>1. vt' = [vt EXCEPT !.at = "acquire", !.failures = 0, !.stalls = vt.stalls + 1]
    BY <1>2, <1>9 DEF AfterStop
  <2>2. vt.stalls + 1 \in 0..MaxTries
    BY <1>3, <1>9, PlayerAssumption DEF PlayerAssumption
  <2> QED
    BY <1>1, <1>3, <1>4, <2>1, <2>2, VideoUpdate
<1> QED
  BY <1>2, <1>5, <1>6, <1>7, <1>8, <1>9 DEF Stops

LEMMA FailureStep == FailureInv /\ [PlayerNext]_playerVars => FailureInv'
<1> SUFFICES ASSUME FailureInv, [PlayerNext]_playerVars PROVE FailureInv'
  OBVIOUS
<1> USE PlayerAssumption DEF PlayerAssumption, FailureInv, VideoPlaces, Stops
<1>1. ASSUME NEW c \in Setter, NEW f \in File, SetBegin(c, f) PROVE FailureInv'
  BY <1>1 DEF SetBegin
<1>2. ASSUME NEW c \in Setter, Setting(c) PROVE FailureInv'
  <2>1. CASE SetSend(c)
    BY <2>1 DEF SetSend
  <2>2. CASE SetTimeout(c)
    BY <2>2 DEF SetTimeout
  <2>3. CASE SetMark(c)
    BY <2>3 DEF SetMark
  <2> QED
    BY <1>2, <2>1, <2>2, <2>3 DEF Setting
<1>3. ASSUME NEW s \in Script, ScriptBegin(s) PROVE FailureInv'
  BY <1>3 DEF ScriptBegin, setterVars
<1>4. ASSUME NEW s \in Script, ScriptStep(s) PROVE FailureInv'
  BY <1>4 DEF ScriptStep, ScriptAcquire, ScriptCreate, ScriptDestroy, ScriptRelease,
              ScriptEnd, setterVars
<1>5. CASE VideoTask
  <2>1. CASE VideoWait
    BY <2>1, WaitStep
  <2>2. CASE VideoAcquire
    BY <2>2 DEF VideoAcquire, VideoTo, setterVars
  <2>3. CASE VideoStart
    BY <2>3 DEF VideoStart, VideoTo, setterVars
  <2>4. CASE VideoStartFails
    BY <2>4, StartFailsStep
  <2>5. CASE VideoMonitor
    BY <2>5, QueueTail DEF VideoMonitor, StopFor, VideoTo, setterVars
  <2>6. CASE VideoStopped
    BY <2>6, StoppedStep
  <2>7. CASE VideoLost
    BY <2>7, QueueTail DEF VideoLost, TakeCommand, VideoTo, setterVars
  <2> QED
    BY <1>5, <2>1, <2>2, <2>3, <2>4, <2>5, <2>6, <2>7 DEF VideoTask
<1>6. CASE ExtractTask
  BY <1>6 DEF ExtractTask, ExtractWait, ExtractNext, ExtractRead, DrawFrame, DrawBitmap,
              WaitRefresh, ExtractGone, setterVars
<1>7. CASE UNCHANGED playerVars
  BY <1>7 DEF playerVars, setterVars
<1> QED
  BY <1>1, <1>2, <1>3, <1>4, <1>5, <1>6, <1>7 DEF PlayerNext

\* The video task never counts enough failures to leave: each one makes it wait
\* for a command, and the command resets the count (video_task).
THEOREM VideoTaskNeverLeaves == PlayerSpec => []VideoTaskStays
<1>1. PlayerInit => FailureInv
  BY PlayerAssumption DEF PlayerAssumption, PlayerInit, FailureInv, VideoPlaces
<1>2. FailureInv => VideoTaskStays
  BY DEF FailureInv, VideoTaskStays, VideoPlaces, Stops
<1> QED
  BY <1>1, <1>2, FailureStep, PTL DEF PlayerSpec

-----------------------------------------------------------------------------
(* The rest of the player's state. *)

DeviceInv ==
  /\ luaDepth \in Nat
  /\ vsync \in {"video", "lua"} /\ halReady \in BOOLEAN
  /\ emotion \in File
  /\ adapter \in [running : BOOLEAN, eos : BOOLEAN]
  /\ bits \in [start : BOOLEAN, stop : BOOLEAN, stopped : BOOLEAN]
  /\ et \in {"none", "idle", "next", "read", "frame", "draw", "vsync", "refresh", "over"}

LEMMA DeviceStep == FailureInv /\ DeviceInv /\ [PlayerNext]_playerVars => DeviceInv'
<1> SUFFICES ASSUME FailureInv, DeviceInv, [PlayerNext]_playerVars PROVE DeviceInv'
  OBVIOUS
<1> USE DEF DeviceInv
<1>1. ASSUME NEW c \in Setter, NEW f \in File, SetBegin(c, f) PROVE DeviceInv'
  BY <1>1 DEF SetBegin, screenVars, extractVars
<1>2. ASSUME NEW c \in Setter, Setting(c) PROVE DeviceInv'
  <2>1. setter[c].file \in File
    BY DEF FailureInv
  <2> QED
    BY <1>2, <2>1 DEF Setting, SetSend, SetTimeout, SetMark, screenVars, extractVars
<1>3. ASSUME NEW s \in Script, ScriptBegin(s) PROVE DeviceInv'
  BY <1>3 DEF ScriptBegin, screenVars, setterVars, extractVars
<1>4. ASSUME NEW s \in Script, ScriptStep(s) PROVE DeviceInv'
  <2>1. CASE ScriptAcquire(s)
    BY <2>1 DEF ScriptAcquire, AcquireLua, setterVars, extractVars
  <2>2. CASE ScriptCreate(s)
    BY <2>2 DEF ScriptCreate, setterVars, extractVars
  <2>3. CASE ScriptDestroy(s)
    BY <2>3 DEF ScriptDestroy, setterVars, extractVars
  <2>4. CASE ScriptRelease(s)
    BY <2>4 DEF ScriptRelease, ReleaseLua, setterVars, extractVars
  <2>5. CASE ScriptEnd(s)
    BY <2>5 DEF ScriptEnd, screenVars, setterVars, extractVars
  <2> QED
    BY <1>4, <2>1, <2>2, <2>3, <2>4, <2>5 DEF ScriptStep
<1>5. CASE VideoTask
  <2>1. CASE VideoWait
    BY <2>1 DEF VideoWait, screenVars, setterVars, extractVars
  <2>2. CASE VideoAcquire
    BY <2>2 DEF VideoAcquire, setterVars, extractVars
  <2>3. CASE VideoStart
    BY <2>3 DEF VideoStart, NoBits, setterVars
  <2>4. CASE VideoStartFails
    BY <2>4 DEF VideoStartFails, setterVars
  <2>5. CASE VideoMonitor
    BY <2>5 DEF VideoMonitor, screenVars, setterVars
  <2>6. CASE VideoStopped
    BY <2>6 DEF VideoStopped, setterVars
  <2>7. CASE VideoLost
    BY <2>7 DEF VideoLost, setterVars, extractVars
  <2> QED
    BY <1>5, <2>1, <2>2, <2>3, <2>4, <2>5, <2>6, <2>7 DEF VideoTask
<1>6. CASE ExtractTask
  <2>1. CASE ExtractWait
    BY <2>1 DEF ExtractWait, ExtractTo, screenVars, setterVars
  <2>2. CASE ExtractNext
    BY <2>2 DEF ExtractNext, ExtractTo, screenVars, setterVars
  <2>3. CASE ExtractRead
    BY <2>3 DEF ExtractRead, ExtractTo, screenVars, setterVars
  <2>4. CASE DrawFrame \/ WaitRefresh \/ ExtractGone
    BY <2>4 DEF DrawFrame, WaitRefresh, ExtractGone, ExtractTo, screenVars, setterVars
  <2>5. CASE DrawBitmap
    BY <2>5 DEF DrawBitmap, ExtractTo, setterVars
  <2> QED
    BY <1>6, <2>1, <2>2, <2>3, <2>4, <2>5 DEF ExtractTask
<1>7. CASE UNCHANGED playerVars
  BY <1>7 DEF playerVars, screenVars, setterVars, extractVars
<1> QED
  BY <1>1, <1>2, <1>3, <1>4, <1>5, <1>6, <1>7 DEF PlayerNext

\* Every reachable state of the player is well typed: one owner of the screen,
\* the command queue within its length, the counters within their limits
\* (display_arbiter.c, video_player.c, app_stream_adapter.c).
THEOREM PlayerTypeCorrect == PlayerSpec => []PlayerTypeOK
<1>1. PlayerInit => ScreenInv /\ FailureInv /\ DeviceInv
  <2>1. PlayerInit => ScreenInv
    BY DEF PlayerInit, ScreenInv
  <2>2. PlayerInit => FailureInv
    BY PlayerAssumption DEF PlayerAssumption, PlayerInit, FailureInv, VideoPlaces
  <2>3. ASSUME PlayerInit PROVE DeviceInv
    <3>1. luaDepth \in Nat /\ vsync \in {"video", "lua"} /\ et = "none"
      BY <2>3 DEF PlayerInit
    <3>2. adapter \in [running : BOOLEAN, eos : BOOLEAN]
      BY <2>3 DEF PlayerInit
    <3>3. bits \in [start : BOOLEAN, stop : BOOLEAN, stopped : BOOLEAN]
      BY <2>3 DEF PlayerInit, NoBits
    <3>4. halReady \in BOOLEAN /\ emotion \in File
      BY <2>3, PlayerAssumption, Zenon DEF PlayerInit, PlayerAssumption
    <3> QED
      BY <3>1, <3>2, <3>3, <3>4 DEF DeviceInv
  <2> QED
    BY <2>1, <2>2, <2>3
<1>2. ScreenInv /\ FailureInv /\ DeviceInv => PlayerTypeOK
  BY DEF ScreenInv, FailureInv, DeviceInv, PlayerTypeOK
<1> QED
  BY <1>1, <1>2, ScreenStep, FailureStep, DeviceStep, PTL DEF PlayerSpec

-----------------------------------------------------------------------------
(* AsrSession.  The invariant is about the window between the reset of      *)
(* s_stop_requested and the check for it: a release in that window leaves   *)
(* the request standing, and CheckStop makes it a recording that has ended. *)

Window == {"record", "create", "check"}

StopInv ==
  /\ recording \in BOOLEAN /\ stopRequested \in BOOLEAN
  /\ run \in BeforeReset => released # "late"
  /\ (run \in Window /\ released = "late") => stopRequested
  /\ StopHolds

LEMMA StopInit == AsrInit => StopInv
BY DEF AsrInit, StopInv, StopHolds, Waiting, BeforeReset, Window

LEMMA StopStep == StopInv /\ [AsrNext]_asrVars => StopInv'
<1> SUFFICES ASSUME StopInv, [AsrNext]_asrVars PROVE StopInv'
  OBVIOUS
<1> USE DEF StopInv, StopHolds, Waiting, BeforeReset, Window
<1>1. CASE Press
  BY <1>1 DEF Press
<1>2. CASE Release
  BY <1>2 DEF Release
<1>3. CASE Begin
  BY <1>3 DEF Begin, RunTo
<1>4. CASE Execute
  <2>1. CASE ConnectWs
    BY <2>1 DEF ConnectWs, RunTo, buttonVars
  <2>2. CASE OpenMic
    BY <2>2 DEF OpenMic, RunTo, buttonVars
  <2>3. CASE Reset
    BY <2>3 DEF Reset, RunTo, buttonVars
  <2>4. CASE StartRecording
    BY <2>4 DEF StartRecording, RunTo, buttonVars
  <2>5. CASE CreateCapture
    BY <2>5 DEF CreateCapture, RunTo, buttonVars
  <2>6. CASE CheckStop
    BY <2>6 DEF CheckStop, RunTo, buttonVars
  <2>7. CASE Await
    BY <2>7 DEF Await, RunTo, buttonVars
  <2>8. CASE Join \/ DeleteCapture
    BY <2>8 DEF Join, DeleteCapture, RunTo, buttonVars
  <2>9. CASE CloseMic
    BY <2>9 DEF CloseMic, RunTo, buttonVars
  <2>10. CASE Deactivate
    BY <2>10 DEF Deactivate, RunTo, buttonVars
  <2> QED
    BY <1>4, <2>1, <2>2, <2>3, <2>4, <2>5, <2>6, <2>7, <2>8, <2>9, <2>10 DEF Execute
<1>5. CASE Capture
  <2>1. CASE CaptureStart
    BY <2>1 DEF CaptureStart, buttonVars
  <2>2. CASE CaptureStop
    BY <2>2 DEF CaptureStop, buttonVars
  <2>3. CASE CaptureWait
    BY <2>3 DEF CaptureWait, buttonVars
  <2>4. CASE CaptureEnd
    BY <2>4 DEF CaptureEnd, buttonVars
  <2> QED
    BY <1>5, <2>1, <2>2, <2>3, <2>4 DEF Capture
<1>6. CASE Ws
  <2>1. ASSUME NEW n \in Session, NEW kind \in {"partial", "final", "error"}, AsrAnswer(n, kind)
        PROVE StopInv'
    BY <2>1 DEF AsrAnswer, buttonVars
  <2>2. CASE AsrDisconnect
    BY <2>2 DEF AsrDisconnect, buttonVars
  <2>3. CASE AsrWrite
    BY <2>3 DEF AsrWrite, buttonVars
  <2>4. CASE AsrGive
    <3>1. CASE Restart
      BY <3>1 DEF Restart
    <3>2. CASE UNCHANGED <<buttonVars, run, stopRequested, recording>>
      BY <3>2 DEF buttonVars
    <3> QED
      BY <2>4, <3>1, <3>2 DEF AsrGive
  <2> QED
    BY <1>6, <2>1, <2>2, <2>3, <2>4 DEF Ws
<1>7. CASE UNCHANGED asrVars
  BY <1>7 DEF asrVars, buttonVars
<1> QED
  BY <1>1, <1>2, <1>3, <1>4, <1>5, <1>6, <1>7 DEF AsrNext

\* A release that comes once the session has reset s_stop_requested ends the
\* recording, wherever it falls between the reset, the creation of the capture
\* task and the check (cap_asr_execute, cap_asr_stop).
THEOREM LateReleaseHolds == AsrSpec => []StopHolds
<1>1. AsrInit => StopInv
  BY StopInit
<1>2. StopInv /\ [AsrNext]_asrVars => StopInv'
  BY StopStep
<1>3. StopInv => StopHolds
  BY DEF StopInv
<1> QED
  BY <1>1, <1>2, <1>3, PTL DEF AsrSpec

-----------------------------------------------------------------------------
(* The capture task. *)

LEMMA CaptureStep == CaptureIsWaitedFor /\ [AsrNext]_asrVars => CaptureIsWaitedFor'
<1> SUFFICES ASSUME CaptureIsWaitedFor, [AsrNext]_asrVars PROVE CaptureIsWaitedFor'
  OBVIOUS
<1> USE DEF CaptureIsWaitedFor
<1>1. CASE Press \/ Release
  BY <1>1 DEF Press, Release
<1>2. CASE Begin
  BY <1>2 DEF Begin, RunTo
<1>3. CASE Execute
  <2>1. CASE ConnectWs \/ OpenMic \/ Reset \/ StartRecording
    BY <2>1 DEF ConnectWs, OpenMic, Reset, StartRecording, RunTo
  <2>2. CASE CreateCapture
    BY <2>2 DEF CreateCapture, RunTo
  <2>3. CASE CheckStop \/ Await
    BY <2>3 DEF CheckStop, Await, RunTo
  <2>4. CASE Join \/ DeleteCapture
    BY <2>4 DEF Join, DeleteCapture, RunTo
  <2>5. CASE CloseMic \/ Deactivate
    BY <2>5 DEF CloseMic, Deactivate, RunTo
  <2> QED
    BY <1>3, <2>1, <2>2, <2>3, <2>4, <2>5 DEF Execute
<1>4. CASE Capture
  BY <1>4 DEF Capture, CaptureStart, CaptureStop, CaptureWait, CaptureEnd, CaptureTo
<1>5. CASE Ws
  <2>1. ASSUME NEW n \in Session, NEW kind \in {"partial", "final", "error"}, AsrAnswer(n, kind)
        PROVE CaptureIsWaitedFor'
    BY <2>1 DEF AsrAnswer
  <2>2. CASE AsrDisconnect \/ AsrWrite
    BY <2>2 DEF AsrDisconnect, AsrWrite
  <2>3. CASE AsrGive
    BY <2>3 DEF AsrGive, Restart
  <2> QED
    BY <1>5, <2>1, <2>2, <2>3 DEF Ws
<1>6. CASE UNCHANGED asrVars
  BY <1>6 DEF asrVars
<1> QED
  BY <1>1, <1>2, <1>3, <1>4, <1>5, <1>6 DEF AsrNext

\* The semaphore is deleted and the microphone closed only after the capture
\* task of the session is gone (asr_cleanup before vSemaphoreDelete).
THEOREM CaptureEndsFirst == AsrSpec => []CaptureIsWaitedFor
<1>1. AsrInit => CaptureIsWaitedFor
  BY DEF AsrInit, CaptureIsWaitedFor
<1> QED
  BY <1>1, CaptureStep, PTL DEF AsrSpec

-----------------------------------------------------------------------------
(* Types.  That the capture task names an existing session rests on          *)
(* CaptureIsWaitedFor: it runs only while its session does.                  *)

TypeInv ==
  /\ AsrTypeOK /\ CaptureIsWaitedFor
  /\ pressed => sessions < MaxSessions
  /\ run # "idle" => sessions > 0

LEMMA FlagStep == AsrFlagsOK /\ [AsrNext]_asrVars => AsrFlagsOK'
<1> SUFFICES ASSUME AsrFlagsOK, [AsrNext]_asrVars PROVE AsrFlagsOK'
  OBVIOUS
<1> USE DEF AsrFlagsOK, buttonVars, resultVars, netVars
<1>1. CASE Press
  BY <1>1 DEF Press
<1>2. CASE Release
  BY <1>2 DEF Release
<1>3. CASE Begin
  BY <1>3 DEF Begin, RunTo
<1>4. CASE Execute
  <2>1. CASE ConnectWs
    BY <2>1 DEF ConnectWs, RunTo
  <2>2. CASE OpenMic
    BY <2>2 DEF OpenMic, RunTo
  <2>3. CASE Reset
    BY <2>3 DEF Reset, RunTo
  <2>4. CASE StartRecording
    BY <2>4 DEF StartRecording, RunTo
  <2>5. CASE CreateCapture
    BY <2>5 DEF CreateCapture, RunTo
  <2>6. CASE CheckStop
    BY <2>6 DEF CheckStop, RunTo
  <2>7. CASE Await
    BY <2>7 DEF Await, RunTo
  <2>8. CASE Join \/ DeleteCapture
    BY <2>8 DEF Join, DeleteCapture, RunTo
  <2>9. CASE CloseMic
    BY <2>9 DEF CloseMic, RunTo
  <2>10. CASE Deactivate
    BY <2>10 DEF Deactivate, RunTo
  <2> QED
    BY <1>4, <2>1, <2>2, <2>3, <2>4, <2>5, <2>6, <2>7, <2>8, <2>9, <2>10 DEF Execute
<1>5. CASE Capture
  <2>1. CASE CaptureStart
    BY <2>1 DEF CaptureStart, CaptureTo, Give
  <2>2. CASE CaptureStop
    BY <2>2 DEF CaptureStop, CaptureTo
  <2>3. CASE CaptureWait
    BY <2>3 DEF CaptureWait, CaptureTo
  <2>4. CASE CaptureEnd
    BY <2>4 DEF CaptureEnd, CaptureTo
  <2> QED
    BY <1>5, <2>1, <2>2, <2>3, <2>4 DEF Capture
<1>6. CASE Ws
  <2>1. ASSUME NEW n \in Session, NEW kind \in {"partial", "final", "error"}, AsrAnswer(n, kind)
        PROVE AsrFlagsOK'
    BY <2>1 DEF AsrAnswer
  <2>2. CASE AsrDisconnect
    BY <2>2 DEF AsrDisconnect
  <2>3. CASE AsrWrite
    <3>1. CASE ws = "partial"
      BY <2>3, <3>1 DEF AsrWrite
    <3>2. CASE ws # "partial"
      BY <2>3, <3>2 DEF AsrWrite
    <3> QED
      BY <3>1, <3>2
  <2>4. CASE AsrGive
    <3>1. CASE Restart
      BY <3>1 DEF Restart
    <3>2. CASE UNCHANGED <<buttonVars, run, stopRequested, recording, capture, asrActive, asrError,
                           heard, wsOnline, owed, wsOf>>
      BY <3>2
    <3> QED
      BY <2>4, <3>1, <3>2 DEF AsrGive
  <2> QED
    BY <1>6, <2>1, <2>2, <2>3, <2>4 DEF Ws
<1>7. CASE UNCHANGED asrVars
  BY <1>7 DEF asrVars
<1> QED
  BY <1>1, <1>2, <1>3, <1>4, <1>5, <1>6, <1>7 DEF AsrNext

LEMMA TypeStep == TypeInv /\ [AsrNext]_asrVars => TypeInv'
<1> SUFFICES ASSUME TypeInv, [AsrNext]_asrVars PROVE TypeInv'
  OBVIOUS
<1>1. CaptureIsWaitedFor' /\ AsrFlagsOK'
  BY CaptureStep, FlagStep DEF TypeInv, AsrTypeOK
<1>2. MaxSessions \in Nat
  BY AsrAssumption DEF AsrAssumption
<1> USE <1>1, <1>2 DEF TypeInv, AsrTypeOK, Session, BeforeReset, CaptureIsWaitedFor
<1>3. CASE Press
  BY <1>3 DEF Press, resultVars, netVars
<1>4. CASE Release
  BY <1>4 DEF Release, resultVars, netVars
<1>5. CASE Begin
  BY <1>5 DEF Begin, RunTo, resultVars, netVars
<1>6. CASE Execute
  <2>1. CASE ConnectWs
    BY <2>1 DEF ConnectWs, RunTo, buttonVars, resultVars
  <2>2. CASE OpenMic
    BY <2>2 DEF OpenMic, RunTo, buttonVars, netVars
  <2>3. CASE Reset
    BY <2>3 DEF Reset, RunTo, buttonVars, netVars
  <2>4. CASE StartRecording
    BY <2>4 DEF StartRecording, RunTo, buttonVars, resultVars, netVars
  <2>5. CASE CreateCapture
    BY <2>5 DEF CreateCapture, RunTo, buttonVars, resultVars, netVars
  <2>6. CASE CheckStop
    BY <2>6 DEF CheckStop, RunTo, buttonVars, resultVars, netVars
  <2>7. CASE Await
    BY <2>7 DEF Await, RunTo, buttonVars, netVars
  <2>8. CASE Join \/ DeleteCapture
    <3>1. run # "idle" /\ run' \in {"close", "delete", "gone"}
      BY <2>8 DEF Join, DeleteCapture, RunTo
    <3>2. capture' \in {capture, "none"}
      BY <2>8 DEF Join, DeleteCapture
    <3>3. UNCHANGED <<buttonVars, resultVars, netVars>>
      BY <2>8 DEF Join, DeleteCapture
    <3> QED
      BY <3>1, <3>2, <3>3 DEF buttonVars, resultVars, netVars
  <2>9. CASE CloseMic
    BY <2>9 DEF CloseMic, RunTo, buttonVars, netVars
  <2>10. CASE Deactivate
    BY <2>10 DEF Deactivate, RunTo, buttonVars, netVars
  <2> QED
    BY <1>6, <2>1, <2>2, <2>3, <2>4, <2>5, <2>6, <2>7, <2>8, <2>9, <2>10 DEF Execute
<1>7. CASE Capture
  <2>1. CASE CaptureStart
    <3>1. sessions \in 1..MaxSessions
      BY <2>1 DEF CaptureStart
    <3>2. owed' \subseteq 1..MaxSessions
      BY <2>1, <3>1 DEF CaptureStart
    <3>3. sem' \in {"none", "empty", "given", "freed"} /\ capture' \in {"record", "end"}
      BY <2>1 DEF CaptureStart, CaptureTo, Give
    <3>4. UNCHANGED <<pressed, sessions, releases, run, heard, ws, wsOf>>
      BY <2>1 DEF CaptureStart, buttonVars
    <3> QED
      BY <3>2, <3>3, <3>4
  <2>2. CASE CaptureStop
    BY <2>2 DEF CaptureStop, CaptureTo, buttonVars, resultVars, netVars
  <2>3. CASE CaptureWait
    BY <2>3 DEF CaptureWait, CaptureTo, buttonVars, netVars
  <2>4. CASE CaptureEnd
    BY <2>4 DEF CaptureEnd, CaptureTo, buttonVars, resultVars, netVars
  <2> QED
    BY <1>7, <2>1, <2>2, <2>3, <2>4 DEF Capture
<1>8. CASE Ws
  <2>1. ASSUME NEW n \in Session, NEW kind \in {"partial", "final", "error"}, AsrAnswer(n, kind)
        PROVE TypeInv'
    BY <2>1 DEF AsrAnswer, buttonVars, resultVars
  <2>2. CASE AsrDisconnect
    BY <2>2 DEF AsrDisconnect, buttonVars, resultVars
  <2>3. CASE AsrWrite
    BY <2>3 DEF AsrWrite, buttonVars
  <2>4. CASE AsrGive
    <3>1. CASE Restart
      BY <3>1 DEF Restart
    <3>2. CASE /\ Give \/ UNCHANGED sem
               /\ ws' = "idle"
               /\ UNCHANGED <<buttonVars, run, capture, heard, owed, wsOf>>
      BY <3>2 DEF Give, buttonVars
    <3> QED
      BY <2>4, <3>1, <3>2 DEF AsrGive
  <2> QED
    BY <1>8, <2>1, <2>2, <2>3, <2>4 DEF Ws
<1>9. CASE UNCHANGED asrVars
  BY <1>9 DEF asrVars, buttonVars, resultVars, netVars
<1> QED
  BY <1>3, <1>4, <1>5, <1>6, <1>7, <1>8, <1>9 DEF AsrNext

\* Types; in particular the sessions the server owes an answer to exist.
THEOREM AsrTypeCorrect == AsrSpec => []AsrTypeOK
<1>1. AsrInit => TypeInv
  <2>1. AsrInit => AsrFlagsOK
    BY DEF AsrInit, AsrFlagsOK
  <2> QED
    BY <2>1, AsrAssumption
    DEF AsrAssumption, AsrInit, TypeInv, AsrTypeOK, CaptureIsWaitedFor
<1>2. TypeInv => AsrTypeOK
  BY DEF TypeInv
<1> QED
  BY <1>1, <1>2, TypeStep, PTL DEF AsrSpec

-----------------------------------------------------------------------------
(* SpeechOut.  While nothing has disturbed a speech exactly one task is     *)
(* inside do_tts, and what it may find depends on where it is: frames exist *)
(* only from the send on, and each phase of the cleanup leaves one stage of *)
(* the pipeline empty.  Between the websocket and the codec every accepted  *)
(* frame is at one stage.                                                   *)

Phase == {"out", "connect", "open", "arm", "send", "wait", "drainQueue",
          "drainRing", "stop", "close"}

SpeechFlagsOK ==
  /\ online \in BOOLEAN /\ token \in BOOLEAN /\ ttsActive \in BOOLEAN
  /\ ttsError \in BOOLEAN /\ playing \in BOOLEAN /\ codec \in BOOLEAN
  /\ writing \in BOOLEAN /\ disturbed \in BOOLEAN

SpeechNumbersOK ==
  /\ answer \in Int /\ frames \in Nat /\ ring \in Int /\ pending \in Int
  /\ decoder \in {"idle", "decode", "push"}

PhaseOK == speaker \in [Speaker -> Phase]

SpeechVarsOK == PhaseOK /\ SpeechFlagsOK /\ SpeechNumbersOK

\* Nothing comes from the server, and nothing is on its way to the codec.
Silent == answer = -1 /\ ~ ttsActive /\ ~ token
Drained == frames = 0 /\ decoder = "idle" /\ ring = 0

\* Every frame between the websocket and the codec is one not played, and the
\* playback task writes a frame that is in the ring, to an open codec.
Balanced ==
  /\ ring >= 0
  /\ pending = frames + ring + (IF decoder = "idle" THEN 0 ELSE 1)
  /\ writing => ring >= 1 /\ codec

\* What holds while the only speaker is at a phase.
Fits(at) ==
  /\ at \in {"out", "connect", "open", "arm"} => Silent /\ Drained
  /\ at \notin {"out", "connect", "open"} => codec
  /\ at = "send" => answer = -1 /\ ~ token /\ ~ ttsError /\ ttsActive /\ Drained
  /\ at = "wait" =>
       \/ answer >= 0 /\ ~ token /\ ttsActive
       \/ answer = -1 /\ token /\ ~ ttsError /\ ~ ttsActive
  /\ at \in {"drainQueue", "drainRing", "stop", "close"} => Silent
  /\ at = "drainRing" => frames = 0 /\ decoder # "decode"
  /\ at \in {"stop", "close"} => Drained

Only(s) == \A t \in Speaker \ {s} : speaker[t] = "out"

Calm == Balanced /\ \E s \in Speaker : Only(s) /\ Fits(speaker[s])

SpeechInv ==
  /\ SpeechVarsOK
  /\ ~ disturbed => Calm

\* Every task stays at a phase of do_tts.
LEMMA PhaseStep == PhaseOK /\ [SpeechNext]_speechVars => PhaseOK'
<1> SUFFICES ASSUME PhaseOK, [SpeechNext]_speechVars PROVE PhaseOK'
  OBVIOUS
<1>1. MaxFrames \in Nat
  BY SpeechAssumption DEF SpeechAssumption
<1> USE DEF PhaseOK, Phase, SpeakerTo, Speaker, callVars
<1>2. CASE SendMessage
  BY <1>2 DEF SendMessage
<1>3. CASE TakeLatest
  BY <1>3 DEF TakeLatest
<1>4. ASSUME NEW s \in Tool, GetTts(s) PROVE PhaseOK'
  BY <1>4 DEF GetTts
<1>5. ASSUME NEW s \in Speaker, Speak(s) PROVE PhaseOK'
  <2>1. CASE Connect(s)
    BY <2>1 DEF Connect
  <2>2. CASE OpenFails(s)
    BY <2>2 DEF OpenFails
  <2>3. CASE OpenInVain(s)
    BY <2>3 DEF OpenInVain
  <2>4. CASE Open(s)
    BY <2>4 DEF Open
  <2>5. CASE Arm(s)
    BY <2>5 DEF Arm
  <2>6. CASE Send(s)
    BY <1>1, <2>6 DEF Send
  <2>7. CASE Completed(s)
    BY <2>7 DEF Completed
  <2>8. CASE TimesOut(s)
    BY <2>8 DEF TimesOut
  <2>9. CASE DrainQueue(s)
    BY <2>9 DEF DrainQueue
  <2>10. CASE DrainRing(s)
    BY <2>10 DEF DrainRing
  <2>11. CASE Stop(s)
    BY <2>11 DEF Stop
  <2>12. CASE Close(s)
    BY <2>12 DEF Close
  <2> QED
    BY <1>5, <2>1, <2>2, <2>3, <2>4, <2>5, <2>6, <2>7, <2>8, <2>9, <2>10, <2>11, <2>12
    DEF Speak
<1>6. CASE Reconnect
  BY <1>6 DEF Reconnect
<1>7. CASE Disconnect
  BY <1>7 DEF Disconnect
<1>8. CASE Frame
  BY <1>8 DEF Frame
<1>9. CASE AnswerEnds
  BY <1>9 DEF AnswerEnds
<1>10. CASE Decode
  BY <1>10 DEF Decode
<1>11. CASE Push
  BY <1>11 DEF Push
<1>12. CASE Play
  BY <1>12 DEF Play
<1>13. CASE UNCHANGED speechVars
  BY <1>13 DEF speechVars
<1> QED
  BY <1>2, <1>3, <1>4, <1>5, <1>6, <1>7, <1>8, <1>9, <1>10, <1>11, <1>12, <1>13 DEF SpeechNext

\* The flags stay Boolean.
LEMMA SpeechFlagsStep == SpeechFlagsOK /\ [SpeechNext]_speechVars => SpeechFlagsOK'
<1> SUFFICES ASSUME SpeechFlagsOK, [SpeechNext]_speechVars PROVE SpeechFlagsOK'
  OBVIOUS
<1>1. MaxFrames \in Nat
  BY SpeechAssumption DEF SpeechAssumption
<1> USE DEF SpeechFlagsOK, Disturb, Complete, wsVars, audioVars
<1>2. CASE SendMessage
  BY <1>2 DEF SendMessage
<1>3. CASE TakeLatest
  BY <1>3 DEF TakeLatest
<1>4. ASSUME NEW s \in Tool, GetTts(s) PROVE SpeechFlagsOK'
  BY <1>4 DEF GetTts
<1>5. ASSUME NEW s \in Speaker, Speak(s) PROVE SpeechFlagsOK'
  <2>1. CASE Connect(s)
    BY <2>1 DEF Connect
  <2>2. CASE OpenFails(s)
    BY <2>2 DEF OpenFails
  <2>3. CASE OpenInVain(s)
    BY <2>3 DEF OpenInVain
  <2>4. CASE Open(s)
    BY <2>4 DEF Open
  <2>5. CASE Arm(s)
    BY <2>5 DEF Arm
  <2>6. CASE Send(s)
    BY <1>1, <2>6 DEF Send
  <2>7. CASE Completed(s)
    BY <2>7 DEF Completed
  <2>8. CASE TimesOut(s)
    BY <2>8 DEF TimesOut
  <2>9. CASE DrainQueue(s)
    BY <2>9 DEF DrainQueue
  <2>10. CASE DrainRing(s)
    BY <2>10 DEF DrainRing
  <2>11. CASE Stop(s)
    BY <2>11 DEF Stop
  <2>12. CASE Close(s)
    BY <2>12 DEF Close
  <2> QED
    BY <1>5, <2>1, <2>2, <2>3, <2>4, <2>5, <2>6, <2>7, <2>8, <2>9, <2>10, <2>11, <2>12
    DEF Speak
<1>6. CASE Reconnect
  BY <1>6 DEF Reconnect
<1>7. CASE Disconnect
  BY <1>7 DEF Disconnect
<1>8. CASE Frame
  BY <1>8 DEF Frame
<1>9. CASE AnswerEnds
  BY <1>9 DEF AnswerEnds
<1>10. CASE Decode
  BY <1>10 DEF Decode
<1>11. CASE Push
  BY <1>11 DEF Push
<1>12. CASE Play
  BY <1>12 DEF Play
<1>13. CASE UNCHANGED speechVars
  BY <1>13 DEF speechVars
<1> QED
  BY <1>2, <1>3, <1>4, <1>5, <1>6, <1>7, <1>8, <1>9, <1>10, <1>11, <1>12, <1>13 DEF SpeechNext

\* The numbers stay numbers.
LEMMA SpeechNumbersStep == SpeechNumbersOK /\ [SpeechNext]_speechVars => SpeechNumbersOK'
<1> SUFFICES ASSUME SpeechNumbersOK, [SpeechNext]_speechVars PROVE SpeechNumbersOK'
  OBVIOUS
<1>1. MaxFrames \in Nat
  BY SpeechAssumption DEF SpeechAssumption
<1> USE DEF SpeechNumbersOK, Count, Disturb, Complete, wsVars, audioVars
<1>2. CASE SendMessage
  BY <1>2 DEF SendMessage
<1>3. CASE TakeLatest
  BY <1>3 DEF TakeLatest
<1>4. ASSUME NEW s \in Tool, GetTts(s) PROVE SpeechNumbersOK'
  BY <1>4 DEF GetTts
<1>5. ASSUME NEW s \in Speaker, Speak(s) PROVE SpeechNumbersOK'
  <2>1. CASE Connect(s)
    BY <2>1 DEF Connect
  <2>2. CASE OpenFails(s)
    BY <2>2 DEF OpenFails
  <2>3. CASE OpenInVain(s)
    BY <2>3 DEF OpenInVain
  <2>4. CASE Open(s)
    BY <2>4 DEF Open
  <2>5. CASE Arm(s)
    BY <2>5 DEF Arm
  <2>6. CASE Send(s)
    BY <1>1, <2>6 DEF Send
  <2>7. CASE Completed(s)
    BY <2>7 DEF Completed
  <2>8. CASE TimesOut(s)
    BY <2>8 DEF TimesOut
  <2>9. CASE DrainQueue(s)
    BY <2>9 DEF DrainQueue
  <2>10. CASE DrainRing(s)
    BY <2>10 DEF DrainRing
  <2>11. CASE Stop(s)
    BY <2>11 DEF Stop
  <2>12. CASE Close(s)
    BY <2>12 DEF Close
  <2> QED
    BY <1>5, <2>1, <2>2, <2>3, <2>4, <2>5, <2>6, <2>7, <2>8, <2>9, <2>10, <2>11, <2>12
    DEF Speak
<1>6. CASE Reconnect
  BY <1>6 DEF Reconnect
<1>7. CASE Disconnect
  BY <1>7 DEF Disconnect
<1>8. CASE Frame
  BY <1>8 DEF Frame
<1>9. CASE AnswerEnds
  BY <1>9 DEF AnswerEnds
<1>10. CASE Decode
  BY <1>10 DEF Decode
<1>11. CASE Push
  BY <1>11 DEF Push
<1>12. CASE Play
  BY <1>12 DEF Play
<1>13. CASE UNCHANGED speechVars
  BY <1>13 DEF speechVars
<1> QED
  BY <1>2, <1>3, <1>4, <1>5, <1>6, <1>7, <1>8, <1>9, <1>10, <1>11, <1>12, <1>13 DEF SpeechNext

LEMMA SpeechVarsStep == SpeechVarsOK /\ [SpeechNext]_speechVars => SpeechVarsOK'
BY PhaseStep, SpeechFlagsStep, SpeechNumbersStep DEF SpeechVarsOK

\* A step of the only speaker.
LEMMA SpeakCalm ==
  ASSUME SpeechVarsOK, Balanced, NEW s \in Speaker, Only(s), Fits(speaker[s]),
         Speak(s), ~ disturbed'
  PROVE  Balanced' /\ Only(s)' /\ Fits(speaker[s])'
<1> USE DEF SpeechVarsOK, PhaseOK, SpeechFlagsOK, SpeechNumbersOK, Phase, SpeakerTo, Disturb, callVars, wsVars, audioVars
<1>1. ASSUME NEW at, SpeakerTo(s, at) PROVE Only(s)' /\ speaker'[s] = at
  BY <1>1 DEF Only
<1> USE DEF Balanced, Fits, Silent, Drained
<1>2. CASE Connect(s)
  BY <1>1, <1>2 DEF Connect
<1>3. CASE OpenFails(s)
  <2>1. Silent /\ Drained /\ ~ writing
    BY <1>3 DEF OpenFails
  <2>2. Only(s)' /\ speaker'[s] = "out"
    BY <1>1, <1>3 DEF OpenFails
  <2>3. Silent' /\ Drained' /\ UNCHANGED <<writing, pending>>
    BY <1>3, <2>1 DEF OpenFails
  <2>4. Balanced'
    BY <2>1, <2>3
  <2> QED
    BY <2>2, <2>3, <2>4
<1>4. CASE OpenInVain(s)
  BY <1>1, <1>4 DEF OpenInVain
<1>5. CASE Open(s)
  BY <1>1, <1>5 DEF Open
<1>6. CASE Arm(s)
  <2>1. Silent /\ Drained /\ codec
    BY <1>6 DEF Arm
  <2>2. Only(s)' /\ speaker'[s] = "send"
    BY <1>1, <1>6 DEF Arm
  <2>3. Drained' /\ pending' = 0 /\ UNCHANGED <<writing, answer, token, codec, ring>>
    BY <1>6, <2>1 DEF Arm
  <2>4. ~ ttsError' /\ ttsActive'
    BY <1>6 DEF Arm
  <2>5. Balanced'
    BY <2>1, <2>3
  <2> QED
    BY <2>1, <2>2, <2>3, <2>4, <2>5
<1>7. CASE Send(s)
  <2>1. answer = -1 /\ ~ token /\ ttsActive /\ codec
    BY <1>7 DEF Send
  <2>2. /\ SpeakerTo(s, "wait") /\ answer' \in 0..MaxFrames
        /\ UNCHANGED <<ttsActive, token, audioVars, pending>>
    BY <1>7 DEF Send
  <2>3. Only(s)' /\ speaker'[s] = "wait"
    BY <1>1, <2>2
  <2>4. Balanced'
    BY <2>2
  <2>5. answer' >= 0 /\ ~ token' /\ ttsActive' /\ codec'
    BY <2>1, <2>2
  <2> QED
    BY <2>3, <2>4, <2>5
<1>8. CASE Completed(s)
  BY <1>1, <1>8 DEF Completed
<1>9. CASE TimesOut(s)
  BY <1>1, <1>9 DEF TimesOut
<1>10. CASE DrainQueue(s)
  <2>1. Silent /\ codec
    BY <1>10 DEF DrainQueue
  <2>2. Only(s)' /\ speaker'[s] = "drainRing"
    BY <1>1, <1>10 DEF DrainQueue
  <2>3. ~ (frames > 0 \/ decoder = "decode")
    BY <1>10 DEF DrainQueue
  <2>4. UNCHANGED <<wsVars, audioVars, pending>>
    BY <1>10 DEF DrainQueue
  <2>5. Silent' /\ codec' /\ Balanced'
    BY <2>1, <2>4
  <2>6. frames' = 0 /\ decoder' # "decode"
    BY <2>3, <2>4
  <2> QED
    BY <2>2, <2>5, <2>6
<1>11. CASE DrainRing(s)
  BY <1>1, <1>11 DEF DrainRing
<1>12. CASE Stop(s)
  BY <1>1, <1>12 DEF Stop
<1>13. CASE Close(s)
  <2>1. Silent /\ Drained /\ ~ writing
    BY <1>13 DEF Close
  <2>2. Only(s)' /\ speaker'[s] = "out"
    BY <1>1, <1>13 DEF Close
  <2>3. Silent' /\ Drained' /\ UNCHANGED <<writing, pending>>
    BY <1>13, <2>1 DEF Close
  <2>4. Balanced'
    BY <2>1, <2>3
  <2> QED
    BY <2>2, <2>3, <2>4
<1> QED
  BY <1>2, <1>3, <1>4, <1>5, <1>6, <1>7, <1>8, <1>9, <1>10, <1>11, <1>12, <1>13 DEF Speak

\* A step of the websocket or of the pipeline while one speaks.
LEMMA OtherCalm ==
  ASSUME SpeechVarsOK, Balanced, NEW s \in Speaker, Only(s), Fits(speaker[s]),
         Reconnect \/ Disconnect \/ Frame \/ AnswerEnds \/ Decode \/ Push \/ Play,
         ~ disturbed'
  PROVE  Balanced' /\ Only(s)' /\ Fits(speaker[s])'
<1> USE DEF SpeechVarsOK, PhaseOK, SpeechFlagsOK, SpeechNumbersOK, Phase, Disturb, callVars, wsVars, audioVars, Only
<1> USE DEF Balanced, Fits, Silent, Drained
<1>1. CASE Reconnect
  BY <1>1 DEF Reconnect
<1>2. CASE Disconnect
  BY <1>2 DEF Disconnect
<1>3. CASE Frame
  BY <1>3 DEF Frame, Count
<1>4. CASE AnswerEnds
  BY <1>4 DEF AnswerEnds, Complete
<1>5. CASE Decode
  BY <1>5 DEF Decode
<1>6. CASE Push
  BY <1>6 DEF Push
<1>7. CASE Play
  BY <1>7 DEF Play, Count
<1> QED
  BY <1>1, <1>2, <1>3, <1>4, <1>5, <1>6, <1>7

LEMMA SpeechStep == SpeechInv /\ [SpeechNext]_speechVars => SpeechInv'
<1> SUFFICES ASSUME SpeechInv, [SpeechNext]_speechVars, ~ disturbed' PROVE Calm'
  BY SpeechVarsStep DEF SpeechInv
<1>1. SpeechVarsOK /\ SpeechVarsOK'
  BY SpeechVarsStep DEF SpeechInv
<1>2. ~ disturbed
  BY <1>1 DEF SpeechVarsOK, PhaseOK, SpeechFlagsOK, SpeechNext, SendMessage, TakeLatest, GetTts, Speak, Connect, OpenFails,
     OpenInVain, Open, Arm, Send, Completed, TimesOut, DrainQueue, DrainRing, Stop, Close,
     Reconnect, Disconnect, Frame, AnswerEnds, Decode, Push, Play, Disturb, speechVars
<1>3. Balanced /\ \E s \in Speaker : Only(s) /\ Fits(speaker[s])
  BY <1>2 DEF SpeechInv, Calm
<1>4. PICK s \in Speaker : Only(s) /\ Fits(speaker[s])
  BY <1>3
<1>5. ASSUME NEW t \in Speaker, speaker[t] # "out" PROVE t = s
  BY <1>4, <1>5 DEF Only
<1>6. ASSUME NEW t \in Speaker, speaker[t] = "out", SpeakerTo(t, "connect"),
             \A r \in Speaker : speaker[r] = "out",
             UNCHANGED <<wsVars, audioVars, pending, disturbed>>
      PROVE  Calm'
  <2>1. Fits("out")
    BY <1>4, <1>6
  <2>2. Fits("connect")
    BY <2>1 DEF Fits
  <2>3. Only(t)' /\ speaker'[t] = "connect"
    BY <1>1, <1>6 DEF Only, SpeakerTo, SpeechVarsOK, PhaseOK
  <2>4. Balanced' /\ Fits("connect")'
    BY <1>3, <1>6, <2>2 DEF Balanced, Fits, Silent, Drained, wsVars, audioVars
  <2> QED
    BY <2>3, <2>4 DEF Calm
<1>7. CASE SendMessage
  BY <1>3, <1>4, <1>7 DEF SendMessage, Calm, Balanced, Only, Fits, Silent, Drained, wsVars, audioVars
<1>8. CASE TakeLatest
  <2>1. speaker[Async] = "out" /\ SpeakerTo(Async, "connect") /\ UNCHANGED <<wsVars, audioVars, pending>>
    BY <1>8 DEF TakeLatest
  <2>2. ~ \E r \in Tool : speaker[r] # "out"
    BY <1>8 DEF TakeLatest, Disturb
  <2>3. disturbed' = disturbed
    BY <1>1, <1>2 DEF SpeechVarsOK, PhaseOK, SpeechFlagsOK
  <2> QED
    BY <1>6, <2>1, <2>2, <2>3 DEF Speaker
<1>9. ASSUME NEW t \in Tool, GetTts(t) PROVE Calm'
  <2>1. speaker[t] = "out" /\ SpeakerTo(t, "connect") /\ UNCHANGED <<wsVars, audioVars, pending>>
    BY <1>9 DEF GetTts
  <2>2. ~ \E r \in Speaker : speaker[r] # "out"
    BY <1>9 DEF GetTts, Disturb
  <2>3. disturbed' = disturbed
    BY <1>1, <1>2 DEF SpeechVarsOK, PhaseOK, SpeechFlagsOK
  <2> QED
    BY <1>6, <2>1, <2>2, <2>3 DEF Speaker
<1>10. ASSUME NEW t \in Speaker, Speak(t) PROVE Calm'
  <2>1. speaker[t] # "out"
    BY <1>10 DEF Speak, Connect, OpenFails, OpenInVain, Open, Arm, Send, Completed, TimesOut,
       DrainQueue, DrainRing, Stop, Close
  <2>2. t = s
    BY <1>5, <2>1
  <2> QED
    BY <1>1, <1>3, <1>4, <1>10, <2>2, SpeakCalm DEF Calm
<1>11. CASE Reconnect \/ Disconnect \/ Frame \/ AnswerEnds \/ Decode \/ Push \/ Play
  BY <1>1, <1>3, <1>4, <1>11, OtherCalm DEF Calm
<1>12. CASE UNCHANGED speechVars
  BY <1>3, <1>4, <1>12
  DEF speechVars, callVars, wsVars, audioVars, Calm, Balanced, Only, Fits, Silent, Drained
<1> QED
  BY <1>7, <1>8, <1>9, <1>10, <1>11, <1>12 DEF SpeechNext

\* A speech is played to its last frame before the codec is closed, for any
\* sizes of the buffers and any number of frames (voice_cleanup).
THEOREM SpeechIsWhole == SpeechSpec => []SpokenInFull
<1>1. SpeechInit => SpeechInv
  <2> SUFFICES ASSUME SpeechInit PROVE SpeechInv
    OBVIOUS
  <2>1. SpeechVarsOK
    <3>1. speaker \in [Speaker -> Phase]
      BY DEF SpeechInit, Phase
    <3>2. SpeechFlagsOK
      BY DEF SpeechInit, SpeechFlagsOK
    <3>3. SpeechNumbersOK
      BY DEF SpeechInit, SpeechNumbersOK
    <3> QED
      BY <3>1, <3>2, <3>3 DEF SpeechVarsOK, PhaseOK
  <2>2. Balanced /\ Only(Async) /\ Fits(speaker[Async]) /\ Async \in Speaker
    BY DEF SpeechInit, Balanced, Only, Fits, Silent, Drained, Speaker
  <2> QED
    BY <2>1, <2>2 DEF SpeechInv, Calm
<1>2. SpeechInv => SpokenInFull
  <2> SUFFICES ASSUME SpeechInv, ~ disturbed, NEW t \in Speaker, speaker[t] = "close"
               PROVE  pending = 0
    BY DEF SpokenInFull
  <2>1. PICK s \in Speaker : Only(s) /\ Fits(speaker[s])
    BY DEF SpeechInv, Calm
  <2>2. s = t
    BY <2>1 DEF Only
  <2>3. Drained /\ Balanced
    BY <2>1, <2>2 DEF Fits, SpeechInv, Calm
  <2> QED
    BY <2>3 DEF Drained, Balanced
<1> QED
  BY <1>1, <1>2, SpeechStep, PTL DEF SpeechSpec

SpeechLimits == requests \in Seq(Int) /\ SpeechTypeOK

\* The sizes of the queues and of the ring are kept.
LEMMA LimitsStep == SpeechLimits /\ [SpeechNext]_speechVars => SpeechLimits'
<1> SUFFICES ASSUME SpeechLimits, [SpeechNext]_speechVars PROVE SpeechLimits'
  OBVIOUS
<1>1. /\ MaxFrames \in Nat /\ MaxTexts \in Nat /\ RequestLen \in Nat \ {0}
      /\ FrameLen \in Nat \ {0} /\ RingSize \in Nat \ {0}
  BY SpeechAssumption DEF SpeechAssumption
<1> USE DEF SpeechLimits, SpeechTypeOK, Disturb, Complete, callVars, wsVars, audioVars
<1>2. CASE SendMessage
  BY <1>1, <1>2 DEF SendMessage
<1>3. CASE TakeLatest
  BY <1>1, <1>3 DEF TakeLatest
<1>4. ASSUME NEW s \in Tool, GetTts(s) PROVE SpeechLimits'
  BY <1>1, <1>4 DEF GetTts
<1>5. ASSUME NEW s \in Speaker, Speak(s) PROVE SpeechLimits'
  <2>1. CASE Connect(s)
    BY <1>1, <2>1 DEF Connect
  <2>2. CASE OpenFails(s)
    BY <1>1, <2>2 DEF OpenFails
  <2>3. CASE OpenInVain(s)
    BY <1>1, <2>3 DEF OpenInVain
  <2>4. CASE Open(s)
    BY <1>1, <2>4 DEF Open
  <2>5. CASE Arm(s)
    BY <1>1, <2>5 DEF Arm
  <2>6. CASE Send(s)
    BY <1>1, <2>6 DEF Send
  <2>7. CASE Completed(s)
    BY <1>1, <2>7 DEF Completed
  <2>8. CASE TimesOut(s)
    BY <1>1, <2>8 DEF TimesOut
  <2>9. CASE DrainQueue(s)
    BY <1>1, <2>9 DEF DrainQueue
  <2>10. CASE DrainRing(s)
    BY <1>1, <2>10 DEF DrainRing
  <2>11. CASE Stop(s)
    BY <1>1, <2>11 DEF Stop
  <2>12. CASE Close(s)
    BY <1>1, <2>12 DEF Close
  <2> QED
    BY <1>5, <2>1, <2>2, <2>3, <2>4, <2>5, <2>6, <2>7, <2>8, <2>9, <2>10, <2>11, <2>12
    DEF Speak
<1>6. CASE Reconnect
  BY <1>1, <1>6 DEF Reconnect
<1>7. CASE Disconnect
  BY <1>1, <1>7 DEF Disconnect
<1>8. CASE Frame
  BY <1>1, <1>8 DEF Frame
<1>9. CASE AnswerEnds
  BY <1>1, <1>9 DEF AnswerEnds
<1>10. CASE Decode
  BY <1>1, <1>10 DEF Decode
<1>11. CASE Push
  BY <1>1, <1>11 DEF Push
<1>12. CASE Play
  BY <1>1, <1>12 DEF Play
<1>13. CASE UNCHANGED speechVars
  BY <1>1, <1>13 DEF speechVars
<1> QED
  BY <1>2, <1>3, <1>4, <1>5, <1>6, <1>7, <1>8, <1>9, <1>10, <1>11, <1>12, <1>13 DEF SpeechNext


\* Every reachable state of the speech is well typed, its queues and its ring
\* within their sizes and the count of the ring at least -1.
THEOREM SpeechTypeCorrect == SpeechSpec => []SpeechTypeOK
<1>1. SpeechInit => SpeechLimits
  <2>1. /\ MaxFrames \in Nat /\ MaxTexts \in Nat /\ RequestLen \in Nat
        /\ FrameLen \in Nat /\ RingSize \in Nat
    BY SpeechAssumption DEF SpeechAssumption
  <2> QED
    BY <2>1 DEF SpeechInit, SpeechLimits, SpeechTypeOK
<1>2. SpeechLimits => SpeechTypeOK
  BY DEF SpeechLimits
<1> QED
  BY <1>1, <1>2, LimitsStep, PTL DEF SpeechSpec

-----------------------------------------------------------------------------
(* ImGateway.  The handle names the worker that is alive; what waits when no *)
(* worker will come back to it came too late; and what was published and    *)
(* what is on its way to it never exceeds what the ring has recorded of a   *)
(* message, which is what it holds and what it has forgotten.               *)

Handling == {"checked", "written", "recorded"}
WorkerState == [at : WorkerPlaces, job : Message \cup {NoMessage}]

WorkersOK ==
  /\ worker \in [Worker -> WorkerState]
  /\ \A w \in Worker : worker[w].at \in {"busy"} \cup Handling => worker[w].job \in Message
  /\ \A w \in Worker : worker[w].at \in Handling => platform = "qq"

PlacesOK ==
  /\ platform \in {"telegram", "qq", "feishu"}
  /\ main \in {"none", "loop", "connecting", "connected", "polled"}
  /\ handle \in Worker \cup {NoWorker}
  /\ gwAdmin \in {"idle", "start", "undo", "stop"}
  /\ gwAdmin = "undo" => platform # "feishu"
  /\ gwAdmin = "start" => platform = "feishu"
  /\ main = "polled" => platform = "telegram"
  /\ platform = "feishu" => ~ overlapped

TasksOK == WorkersOK /\ PlacesOK

FlagsOK == stopReq \in BOOLEAN /\ hasQueue \in BOOLEAN /\ overlapped \in BOOLEAN

RingOK ==
  /\ seen \in [1..Recent -> Message \cup {NoMessage}] /\ seenIdx \in 1..Recent
  /\ forgotten \in [Message -> Nat]

QueueOK == inbound \in Seq(Message) /\ Len(inbound) <= InboundLen

MailOK ==
  /\ QueueOK /\ RingOK /\ batch \subseteq Update /\ published \in [Message -> Nat]

\* The handle names the worker that is alive.  Feishu keeps this always, the
\* others between a start that found no old worker and the end of the main
\* task, or of the operation that waits for both.
Bound == \A w \in Worker : worker[w] # NotAlive <=> w = handle

Owned ==
  platform = "feishu" \/ (~ overlapped /\ (main # "none" \/ gwAdmin # "idle")) => Bound

OwnerInv == Owned /\ QueueOutlivesWorker

\* What waits when no worker will come back to it came too late.
LateOnly == Unattended => Range(inbound) \subseteq tooLate

Copies(list, m) == {n \in DOMAIN list : list[n] = m}
CopiesOf(list, m) == Cardinality(Copies(list, m))

\* The workers that will publish a message of which the id is in the ring.
Recording == IF platform = "qq" THEN {"written", "recorded"} ELSE {"busy"}
Held(crew, m) == {w \in Worker : crew[w].at \in Recording /\ crew[w].job = m}
HeldOf(crew, m) == Cardinality(Held(crew, m))

Queued(list, m) == IF platform = "qq" THEN 0 ELSE CopiesOf(list, m)
Recorded(m) == forgotten[m] + (IF m \in Range(seen) THEN 1 ELSE 0)
Within(m) == published[m] + Queued(inbound, m) + HeldOf(worker, m) <= Recorded(m)

OnceInv == \A m \in Message \ raced : Within(m)

\* A message a worker found unseen is not in the ring, and no other worker has
\* found it unseen too.
Checking(w, m) == worker[w].at = "checked" /\ worker[w].job = m
UnseenInv ==
  \A m \in Message \ raced, w \in Worker : Checking(w, m) =>
    m \notin Range(seen) /\ \A other \in Worker \ {w} : ~ Checking(other, m)

GatewayInv == TasksOK /\ FlagsOK /\ MailOK /\ OwnerInv /\ LateOnly /\ OnceInv /\ UnseenInv

\* The flags stay Boolean.
LEMMA FlagsStep == FlagsOK /\ [GatewayNext]_gatewayVars => FlagsOK'
<1> SUFFICES ASSUME FlagsOK, [GatewayNext]_gatewayVars PROVE FlagsOK'
  OBVIOUS
<1> USE DEF FlagsOK, Starting, DropQueue, MainTo, taskVars
<1>10. CASE StartNothing
  BY <1>10 DEF StartNothing
<1>11. CASE Start
  BY <1>11 DEF Start
<1>12. CASE StartWithoutWorker
  BY <1>12 DEF StartWithoutWorker
<1>13. CASE StartWithoutMain
  BY <1>13 DEF StartWithoutMain
<1>14. CASE StartUndone
  BY <1>14 DEF StartUndone
<1>15. CASE FeishuStart
  BY <1>15 DEF FeishuStart
<1>16. CASE FeishuStartsMain
  BY <1>16 DEF FeishuStartsMain
<1>17. CASE FeishuStartFails
  BY <1>17 DEF FeishuStartFails
<1>18. CASE StopNothing
  BY <1>18 DEF StopNothing
<1>19. CASE StopBegin
  BY <1>19 DEF StopBegin
<1>20. CASE StopTimeout
  BY <1>20 DEF StopTimeout
<1>21. CASE StopEnd
  BY <1>21 DEF StopEnd
<1>22. CASE MainEnd
  BY <1>22 DEF MainEnd
<1>23. CASE MainConnect
  BY <1>23 DEF MainConnect
<1>24. CASE MainConnected
  BY <1>24 DEF MainConnected
<1>25. CASE MainDisconnect
  BY <1>25 DEF MainDisconnect
<1>26. CASE MainPoll
  BY <1>26 DEF MainPoll
<1>27. CASE HandleUpdate
  BY <1>27 DEF HandleUpdate
<1>28. CASE PollEnd
  BY <1>28 DEF PollEnd
<1>29. ASSUME NEW m \in Message, Receive(m) PROVE FlagsOK'
  BY <1>29 DEF Receive
<1>30. ASSUME NEW w \in Worker, WorkerTake(w) PROVE FlagsOK'
  BY <1>30 DEF WorkerTake
<1>31. ASSUME NEW w \in Worker, WorkerCheck(w) PROVE FlagsOK'
  BY <1>31 DEF WorkerCheck
<1>32. ASSUME NEW w \in Worker, WorkerWrite(w) PROVE FlagsOK'
  BY <1>32 DEF WorkerWrite
<1>33. ASSUME NEW w \in Worker, WorkerAdvance(w) PROVE FlagsOK'
  BY <1>33 DEF WorkerAdvance
<1>34. ASSUME NEW w \in Worker, WorkerDone(w) PROVE FlagsOK'
  BY <1>34 DEF WorkerDone
<1>35. ASSUME NEW w \in Worker, WorkerLook(w) PROVE FlagsOK'
  BY <1>35 DEF WorkerLook
<1>36. ASSUME NEW w \in Worker, WorkerLeave(w) PROVE FlagsOK'
  BY <1>36 DEF WorkerLeave
<1>37. ASSUME NEW w \in Worker, WorkerGone(w) PROVE FlagsOK'
  BY <1>37 DEF WorkerGone
<1>38. CASE UNCHANGED gatewayVars
  BY <1>38 DEF gatewayVars
<1> QED
  BY <1>10, <1>11, <1>12, <1>13, <1>14, <1>15, <1>16, <1>17, <1>18, <1>19, <1>20, <1>21,
     <1>22, <1>23, <1>24, <1>25, <1>26, <1>27, <1>28, <1>29, <1>30, <1>31, <1>32, <1>33,
     <1>34, <1>35, <1>36, <1>37, <1>38
  DEF GatewayNext, MainTask, WorkerStep

\* A gateway stays what it is.
LEMMA PlatformStep == TasksOK /\ [GatewayNext]_gatewayVars => platform' = platform
<1> SUFFICES ASSUME TasksOK, [GatewayNext]_gatewayVars PROVE platform' = platform
  OBVIOUS
<1> USE DEF Starting, MainTo
<1>10. CASE StartNothing
  BY <1>10 DEF StartNothing
<1>11. CASE Start
  BY <1>11 DEF Start
<1>12. CASE StartWithoutWorker
  BY <1>12 DEF StartWithoutWorker
<1>13. CASE StartWithoutMain
  BY <1>13 DEF StartWithoutMain
<1>14. CASE StartUndone
  BY <1>14 DEF StartUndone
<1>15. CASE FeishuStart
  BY <1>15 DEF FeishuStart
<1>16. CASE FeishuStartsMain
  BY <1>16 DEF FeishuStartsMain
<1>17. CASE FeishuStartFails
  BY <1>17 DEF FeishuStartFails
<1>18. CASE StopNothing
  BY <1>18 DEF StopNothing
<1>19. CASE StopBegin
  BY <1>19 DEF StopBegin
<1>20. CASE StopTimeout
  BY <1>20 DEF StopTimeout
<1>21. CASE StopEnd
  BY <1>21 DEF StopEnd
<1>22. CASE MainEnd
  BY <1>22 DEF MainEnd
<1>23. CASE MainConnect
  BY <1>23 DEF MainConnect
<1>24. CASE MainConnected
  BY <1>24 DEF MainConnected
<1>25. CASE MainDisconnect
  BY <1>25 DEF MainDisconnect
<1>26. CASE MainPoll
  BY <1>26 DEF MainPoll
<1>27. CASE HandleUpdate
  BY <1>27 DEF HandleUpdate
<1>28. CASE PollEnd
  BY <1>28 DEF PollEnd
<1>29. ASSUME NEW m \in Message, Receive(m) PROVE platform' = platform
  BY <1>29 DEF Receive
<1>30. ASSUME NEW w \in Worker, WorkerTake(w) PROVE platform' = platform
  BY <1>30 DEF WorkerTake
<1>31. ASSUME NEW w \in Worker, WorkerCheck(w) PROVE platform' = platform
  BY <1>31 DEF WorkerCheck
<1>32. ASSUME NEW w \in Worker, WorkerWrite(w) PROVE platform' = platform
  BY <1>32 DEF WorkerWrite
<1>33. ASSUME NEW w \in Worker, WorkerAdvance(w) PROVE platform' = platform
  BY <1>33 DEF WorkerAdvance
<1>34. ASSUME NEW w \in Worker, WorkerDone(w) PROVE platform' = platform
  BY <1>34 DEF WorkerDone
<1>35. ASSUME NEW w \in Worker, WorkerLook(w) PROVE platform' = platform
  BY <1>35 DEF WorkerLook
<1>36. ASSUME NEW w \in Worker, WorkerLeave(w) PROVE platform' = platform
  BY <1>36 DEF WorkerLeave
<1>37. ASSUME NEW w \in Worker, WorkerGone(w) PROVE platform' = platform
  BY <1>37 DEF WorkerGone
<1>38. CASE UNCHANGED gatewayVars
  BY <1>38 DEF gatewayVars
<1> QED
  BY <1>10, <1>11, <1>12, <1>13, <1>14, <1>15, <1>16, <1>17, <1>18, <1>19, <1>20, <1>21,
     <1>22, <1>23, <1>24, <1>25, <1>26, <1>27, <1>28, <1>29, <1>30, <1>31, <1>32, <1>33,
     <1>34, <1>35, <1>36, <1>37, <1>38
  DEF GatewayNext, MainTask, WorkerStep

LEMMA WorkerToType ==
  ASSUME WorkersOK, NEW w \in Worker, NEW at, NEW job, WorkerTo(w, at, job),
         [at |-> at, job |-> job] \in WorkerState, platform' = platform,
         at \in {"busy"} \cup Handling => job \in Message, at \in Handling => platform = "qq"
  PROVE  WorkersOK'
BY DEF WorkersOK, WorkerTo, WorkerState

\* At rest a worker holds nothing.
LEMMA WorkerToRest ==
  ASSUME WorkersOK, NEW w \in Worker, platform' = platform,
         NEW at \in {"idle", "looked", "leaving"}, WorkerTo(w, at, NoMessage)
  PROVE  WorkersOK'
<1>1. [at |-> at, job |-> NoMessage] \in WorkerState /\ at \notin {"busy"} \cup Handling
  BY DEF WorkerState, WorkerPlaces, Handling
<1> QED
  BY <1>1, WorkerToType

\* At work it holds a message.
LEMMA WorkerToWork ==
  ASSUME WorkersOK, NEW w \in Worker, platform' = platform, NEW job \in Message,
         NEW at \in {"busy"} \cup Handling, at \in Handling => platform = "qq",
         WorkerTo(w, at, job)
  PROVE  WorkersOK'
<1>1. [at |-> at, job |-> job] \in WorkerState
  BY DEF WorkerState, WorkerPlaces, Handling
<1> QED
  BY <1>1, WorkerToType

\* The workers after a worker was deleted or has gone.
LEMMA WorkersEnd ==
  ASSUME WorkersOK, platform' = platform, worker' \in [Worker -> WorkerState],
         \A w \in Worker : worker'[w] \in {worker[w], NotAlive}
  PROVE  WorkersOK'
<1>1. NotAlive.at = "none"
  BY DEF NotAlive
<1>2. NotAlive.at \notin {"busy"} \cup Handling
  BY <1>1 DEF Handling
<1> QED
  BY <1>2 DEF WorkersOK

\* A worker is at one of its places, and holds a message where it needs one.
LEMMA WorkersStep == WorkersOK /\ MailOK /\ [GatewayNext]_gatewayVars => WorkersOK'
<1> SUFFICES ASSUME WorkersOK /\ MailOK, [GatewayNext]_gatewayVars PROVE WorkersOK'
  OBVIOUS
<1> USE DEF Starting, MainTo, taskVars
<1>10. CASE StartNothing
  BY <1>10 DEF StartNothing, WorkersOK
<1>11. CASE Start
  <2>1. worker' = worker \/ \E w \in Worker : WorkerTo(w, "idle", NoMessage)
    BY <1>11 DEF Start, NewWorker
  <2>2. platform' = platform
    BY <1>11 DEF Start
  <2> QED
    BY <2>1, <2>2, WorkerToRest DEF WorkersOK
<1>12. CASE StartWithoutWorker
  BY <1>12 DEF StartWithoutWorker, WorkersOK
<1>13. CASE StartWithoutMain
  <2>1. worker' = worker \/ \E w \in Worker : WorkerTo(w, "idle", NoMessage)
    BY <1>13 DEF StartWithoutMain, NewWorker
  <2>2. platform' = platform
    BY <1>13 DEF StartWithoutMain
  <2> QED
    BY <2>1, <2>2, WorkerToRest DEF WorkersOK
<1>14. CASE StartUndone
  BY <1>14 DEF StartUndone, WorkersOK
<1>15. CASE FeishuStart
  <2>1. worker' = worker \/ \E w \in Worker : WorkerTo(w, "idle", NoMessage)
    BY <1>15 DEF FeishuStart, NewWorker
  <2>2. platform' = platform
    BY <1>15 DEF FeishuStart
  <2> QED
    BY <2>1, <2>2, WorkerToRest DEF WorkersOK
<1>16. CASE FeishuStartsMain
  BY <1>16 DEF FeishuStartsMain, WorkersOK
<1>17. CASE FeishuStartFails
  <2>1. platform' = platform /\ \A w \in Worker : worker'[w] \in {worker[w], NotAlive}
    BY <1>17 DEF FeishuStartFails, WorkersOK
  <2>2. worker' \in [Worker -> WorkerState]
    BY <1>17 DEF FeishuStartFails, WorkersOK, WorkerState, NotAlive, WorkerPlaces
  <2> QED
    BY <2>1, <2>2, WorkersEnd
<1>18. CASE StopNothing
  BY <1>18 DEF StopNothing, WorkersOK
<1>19. CASE StopBegin
  BY <1>19 DEF StopBegin, WorkersOK
<1>20. CASE StopTimeout
  BY <1>20 DEF StopTimeout, WorkersOK
<1>21. CASE StopEnd
  BY <1>21 DEF StopEnd, WorkersOK
<1>22. CASE MainEnd
  BY <1>22 DEF MainEnd, WorkersOK
<1>23. CASE MainConnect
  BY <1>23 DEF MainConnect, WorkersOK
<1>24. CASE MainConnected
  BY <1>24 DEF MainConnected, WorkersOK
<1>25. CASE MainDisconnect
  BY <1>25 DEF MainDisconnect, WorkersOK
<1>26. CASE MainPoll
  BY <1>26 DEF MainPoll, WorkersOK
<1>27. CASE HandleUpdate
  BY <1>27 DEF HandleUpdate, WorkersOK
<1>28. CASE PollEnd
  BY <1>28 DEF PollEnd, WorkersOK
<1>29. ASSUME NEW m \in Message, Receive(m) PROVE WorkersOK'
  BY <1>29 DEF Receive, WorkersOK
<1>30. ASSUME NEW w \in Worker, WorkerTake(w) PROVE WorkersOK'
  <2>1. Head(inbound) \in Message
    BY <1>30 DEF WorkerTake, MailOK, QueueOK
  <2>2. "busy" \notin Handling
    BY DEF Handling
  <2> QED
    BY <1>30, <2>1, <2>2, WorkerToWork DEF WorkerTake
<1>31. ASSUME NEW w \in Worker, WorkerCheck(w) PROVE WorkersOK'
  <2>1. worker[w].job \in Message
    BY <1>31 DEF WorkerCheck, WorkersOK, Handling
  <2> QED
    BY <1>31, <2>1, WorkerToRest, WorkerToWork DEF WorkerCheck, WorkersOK, Handling
<1>32. ASSUME NEW w \in Worker, WorkerWrite(w) PROVE WorkersOK'
  <2>1. worker[w].job \in Message
    BY <1>32 DEF WorkerWrite, WorkersOK, Handling
  <2> QED
    BY <1>32, <2>1, WorkerToRest, WorkerToWork DEF WorkerWrite, WorkersOK, Handling
<1>33. ASSUME NEW w \in Worker, WorkerAdvance(w) PROVE WorkersOK'
  <2>1. worker[w].job \in Message
    BY <1>33 DEF WorkerAdvance, WorkersOK, Handling
  <2> QED
    BY <1>33, <2>1, WorkerToRest, WorkerToWork DEF WorkerAdvance, WorkersOK, Handling
<1>34. ASSUME NEW w \in Worker, WorkerDone(w) PROVE WorkersOK'
  BY <1>34, WorkerToRest DEF WorkerDone
<1>35. ASSUME NEW w \in Worker, WorkerLook(w) PROVE WorkersOK'
  BY <1>35, WorkerToRest DEF WorkerLook
<1>36. ASSUME NEW w \in Worker, WorkerLeave(w) PROVE WorkersOK'
  BY <1>36, WorkerToRest DEF WorkerLeave
<1>37. ASSUME NEW w \in Worker, WorkerGone(w) PROVE WorkersOK'
  <2>1. platform' = platform /\ \A x \in Worker : worker'[x] \in {worker[x], NotAlive}
    BY <1>37 DEF WorkerGone, WorkersOK
  <2>2. worker' \in [Worker -> WorkerState]
    BY <1>37 DEF WorkerGone, WorkersOK, WorkerState, NotAlive, WorkerPlaces
  <2> QED
    BY <2>1, <2>2, WorkersEnd
<1>38. CASE UNCHANGED gatewayVars
  BY <1>38 DEF gatewayVars, WorkersOK
<1> QED
  BY <1>10, <1>11, <1>12, <1>13, <1>14, <1>15, <1>16, <1>17, <1>18, <1>19, <1>20, <1>21,
     <1>22, <1>23, <1>24, <1>25, <1>26, <1>27, <1>28, <1>29, <1>30, <1>31, <1>32, <1>33,
     <1>34, <1>35, <1>36, <1>37, <1>38
  DEF GatewayNext, MainTask, WorkerStep

\* The main task, the handle and the operations of the gateway.
LEMMA PlacesStep == PlacesOK /\ [GatewayNext]_gatewayVars => PlacesOK'
<1> SUFFICES ASSUME PlacesOK, [GatewayNext]_gatewayVars PROVE PlacesOK'
  OBVIOUS
<1> USE DEF PlacesOK, NoWorker, Admin, Starting, NewWorker, MainTo, taskVars
<1>10. CASE StartNothing
  BY <1>10 DEF StartNothing
<1>11. CASE Start
  BY <1>11 DEF Start
<1>12. CASE StartWithoutWorker
  BY <1>12 DEF StartWithoutWorker
<1>13. CASE StartWithoutMain
  BY <1>13 DEF StartWithoutMain
<1>14. CASE StartUndone
  BY <1>14 DEF StartUndone
<1>15. CASE FeishuStart
  BY <1>15 DEF FeishuStart
<1>16. CASE FeishuStartsMain
  BY <1>16 DEF FeishuStartsMain
<1>17. CASE FeishuStartFails
  BY <1>17 DEF FeishuStartFails
<1>18. CASE StopNothing
  BY <1>18 DEF StopNothing
<1>19. CASE StopBegin
  BY <1>19 DEF StopBegin
<1>20. CASE StopTimeout
  BY <1>20 DEF StopTimeout
<1>21. CASE StopEnd
  BY <1>21 DEF StopEnd
<1>22. CASE MainEnd
  BY <1>22 DEF MainEnd
<1>23. CASE MainConnect
  BY <1>23 DEF MainConnect
<1>24. CASE MainConnected
  BY <1>24 DEF MainConnected
<1>25. CASE MainDisconnect
  BY <1>25 DEF MainDisconnect
<1>26. CASE MainPoll
  BY <1>26 DEF MainPoll
<1>27. CASE HandleUpdate
  BY <1>27 DEF HandleUpdate
<1>28. CASE PollEnd
  BY <1>28 DEF PollEnd
<1>29. ASSUME NEW m \in Message, Receive(m) PROVE PlacesOK'
  BY <1>29 DEF Receive
<1>30. ASSUME NEW w \in Worker, WorkerTake(w) PROVE PlacesOK'
  BY <1>30 DEF WorkerTake
<1>31. ASSUME NEW w \in Worker, WorkerCheck(w) PROVE PlacesOK'
  BY <1>31 DEF WorkerCheck
<1>32. ASSUME NEW w \in Worker, WorkerWrite(w) PROVE PlacesOK'
  BY <1>32 DEF WorkerWrite
<1>33. ASSUME NEW w \in Worker, WorkerAdvance(w) PROVE PlacesOK'
  BY <1>33 DEF WorkerAdvance
<1>34. ASSUME NEW w \in Worker, WorkerDone(w) PROVE PlacesOK'
  BY <1>34 DEF WorkerDone
<1>35. ASSUME NEW w \in Worker, WorkerLook(w) PROVE PlacesOK'
  BY <1>35 DEF WorkerLook
<1>36. ASSUME NEW w \in Worker, WorkerLeave(w) PROVE PlacesOK'
  BY <1>36 DEF WorkerLeave
<1>37. ASSUME NEW w \in Worker, WorkerGone(w) PROVE PlacesOK'
  BY <1>37 DEF WorkerGone
<1>38. CASE UNCHANGED gatewayVars
  BY <1>38 DEF gatewayVars
<1> QED
  BY <1>10, <1>11, <1>12, <1>13, <1>14, <1>15, <1>16, <1>17, <1>18, <1>19, <1>20, <1>21,
     <1>22, <1>23, <1>24, <1>25, <1>26, <1>27, <1>28, <1>29, <1>30, <1>31, <1>32, <1>33,
     <1>34, <1>35, <1>36, <1>37, <1>38
  DEF GatewayNext, MainTask, WorkerStep

LEMMA RecentPositive == Recent \in Nat /\ Recent >= 1 /\ InboundLen \in Nat
BY GatewayAssumption DEF GatewayAssumption

LEMMA NoMessageIsNone == NoMessage \notin Message
<1>1. Message \subseteq Nat \ {0}
  BY GatewayAssumption DEF GatewayAssumption, Message
<1> QED
  BY <1>1 DEF NoMessage

LEMMA NextIdxType == ASSUME RingOK PROVE NextIdx \in 1..Recent
<1>1. seenIdx % Recent \in 0..(Recent - 1)
  BY RecentPositive DEF RingOK
<1> QED
  BY <1>1, RecentPositive DEF NextIdx

LEMMA WriteKeyType ==
  ASSUME RingOK, NEW m \in Message, WriteKey(m), seenIdx' \in 1..Recent
  PROVE  RingOK'
<1> DEFINE old == seen[seenIdx]
<1>1. seen' = [seen EXCEPT ![seenIdx] = m] /\ old \in Message \cup {NoMessage}
  BY DEF WriteKey, RingOK
<1>2. CASE forgotten' = forgotten
  BY <1>1, <1>2 DEF RingOK
<1>3. CASE old \in Message /\ forgotten' = [forgotten EXCEPT ![old] = @ + 1]
  <2>1. forgotten' \in [Message -> Nat]
    BY <1>3 DEF RingOK
  <2>2. seen' \in [1..Recent -> Message \cup {NoMessage}]
    BY <1>1 DEF RingOK
  <2> QED
    BY <2>1, <2>2 DEF RingOK
<1> QED
  BY <1>1, <1>2, <1>3 DEF WriteKey

LEMMA RecordType == ASSUME RingOK, NEW m \in Message, Record(m) PROVE RingOK'
BY NextIdxType, WriteKeyType DEF Record

LEMMA EnqueueType == ASSUME QueueOK, NEW m \in Message, Enqueue(m) PROVE QueueOK'
BY RecentPositive DEF QueueOK, Enqueue

LEMMA PublishType ==
  ASSUME MailOK, NEW m \in Message, Publish(m) \/ UNCHANGED published
  PROVE  published' \in [Message -> Nat]
<1>1. published \in [Message -> Nat]
  BY DEF MailOK
<1> QED
  BY <1>1 DEF Publish

LEMMA RingKept == ASSUME RingOK, UNCHANGED ringVars PROVE RingOK'
BY DEF RingOK, ringVars

LEMMA HandleHereType ==
  ASSUME MailOK, NEW m \in Message, HandleHere(m), batch' \subseteq Update
  PROVE  MailOK'
<1>1. RingOK'
  BY RecordType, RingKept DEF HandleHere, MailOK
<1>2. QueueOK'
  <2>1. Enqueue(m) \/ inbound' = inbound
    BY DEF HandleHere
  <2> QED
    BY <2>1, EnqueueType DEF MailOK, QueueOK
<1>3. published' \in [Message -> Nat]
  BY PublishType DEF HandleHere
<1> QED
  BY <1>1, <1>2, <1>3 DEF MailOK

\* A step that leaves the ring and the counts alone.
LEMMA MailKept ==
  ASSUME MailOK, UNCHANGED <<ringVars, published>>, batch' = batch,
         inbound' = inbound \/ inbound' = <<>>
  PROVE  MailOK'
<1>1. CASE inbound' = inbound
  BY <1>1, RingKept DEF MailOK, QueueOK
<1>2. CASE inbound' = <<>>
  <2>1. QueueOK'
    BY <1>2, RecentPositive DEF QueueOK
  <2> QED
    BY <2>1, RingKept DEF MailOK
<1> QED
  BY <1>1, <1>2

\* What waits, and what was recorded, are messages.
LEMMA MailStep == MailOK /\ WorkersOK /\ [GatewayNext]_gatewayVars => MailOK'
<1> SUFFICES ASSUME MailOK /\ WorkersOK, [GatewayNext]_gatewayVars PROVE MailOK'
  OBVIOUS
<1> USE DEF mailVars, Starting, DropQueue, MainTo
<1>10. CASE StartNothing
  BY <1>10, MailKept DEF StartNothing
<1>11. CASE Start
  BY <1>11, MailKept DEF Start
<1>12. CASE StartWithoutWorker
  BY <1>12, MailKept DEF StartWithoutWorker
<1>13. CASE StartWithoutMain
  BY <1>13, MailKept DEF StartWithoutMain
<1>14. CASE StartUndone
  BY <1>14, MailKept DEF StartUndone
<1>15. CASE FeishuStart
  BY <1>15, MailKept DEF FeishuStart
<1>16. CASE FeishuStartsMain
  BY <1>16, MailKept DEF FeishuStartsMain
<1>17. CASE FeishuStartFails
  BY <1>17, MailKept DEF FeishuStartFails
<1>18. CASE StopNothing
  BY <1>18, MailKept DEF StopNothing
<1>19. CASE StopBegin
  BY <1>19, MailKept DEF StopBegin
<1>20. CASE StopTimeout
  BY <1>20, MailKept DEF StopTimeout
<1>21. CASE StopEnd
  BY <1>21, MailKept DEF StopEnd
<1>22. CASE MainEnd
  BY <1>22, MailKept DEF MainEnd
<1>23. CASE MainConnect
  BY <1>23, MailKept DEF MainConnect
<1>24. CASE MainConnected
  BY <1>24, MailKept DEF MainConnected
<1>25. CASE MainDisconnect
  BY <1>25, MailKept DEF MainDisconnect
<1>26. CASE MainPoll
  BY <1>26, RingKept DEF MainPoll, MailOK, QueueOK
<1>27. CASE HandleUpdate
  <2>1. PICK u \in batch :
          /\ batch' = batch \ {u}
          /\ \/ UNCHANGED <<ringVars, published, inbound>>
             \/ u \notin Notice /\ HandleHere(u)
    BY <1>27 DEF HandleUpdate
  <2>2. batch' \subseteq Update
    BY <2>1 DEF MailOK
  <2>3. CASE UNCHANGED <<ringVars, published, inbound>>
    BY <2>2, <2>3, RingKept DEF MailOK, QueueOK
  <2>4. CASE u \notin Notice /\ HandleHere(u)
    <3>1. u \in Message
      BY <2>1, <2>4 DEF MailOK, Update
    <3> QED
      BY <2>2, <2>4, <3>1, HandleHereType
  <2> QED
    BY <2>1, <2>3, <2>4
<1>28. CASE PollEnd
  BY <1>28, MailKept DEF PollEnd
<1>29. ASSUME NEW m \in Message, Receive(m) PROVE MailOK'
  <2>1. CASE Enqueue(m) /\ UNCHANGED <<ringVars, published, batch>>
    BY <2>1, EnqueueType, RingKept DEF MailOK
  <2>2. CASE HandleHere(m) /\ UNCHANGED batch
    BY <2>2, HandleHereType DEF MailOK
  <2> QED
    BY <1>29, <2>1, <2>2 DEF Receive
<1>30. ASSUME NEW w \in Worker, WorkerTake(w) PROVE MailOK'
  <2>1. QueueOK'
    BY <1>30, RecentPositive DEF WorkerTake, MailOK, QueueOK
  <2> QED
    BY <1>30, <2>1, RingKept DEF WorkerTake, MailOK
<1>31. ASSUME NEW w \in Worker, WorkerCheck(w) PROVE MailOK'
  BY <1>31 DEF WorkerCheck, MailOK, QueueOK, RingOK
<1>32. ASSUME NEW w \in Worker, WorkerWrite(w) PROVE MailOK'
  <2>1. worker[w].job \in Message /\ RingOK
    BY <1>32 DEF WorkerWrite, WorkersOK, Handling, MailOK
  <2>2. WriteKey(worker[w].job) /\ UNCHANGED <<inbound, batch, published, seenIdx>>
    BY <1>32 DEF WorkerWrite
  <2>3. RingOK'
    <3>1. seenIdx' \in 1..Recent
      BY <2>1, <2>2 DEF RingOK
    <3> QED
      BY <2>1, <2>2, <3>1, WriteKeyType
  <2> QED
    BY <2>2, <2>3 DEF MailOK, QueueOK
<1>33. ASSUME NEW w \in Worker, WorkerAdvance(w) PROVE MailOK'
  <2>1. UNCHANGED <<inbound, batch, published, seen, forgotten>>
        /\ (seenIdx' = NextIdx \/ seenIdx' = seenIdx)
    BY <1>33 DEF WorkerAdvance
  <2>2. RingOK'
    BY <2>1, NextIdxType DEF MailOK, RingOK
  <2> QED
    BY <2>1, <2>2 DEF MailOK, QueueOK
<1>34. ASSUME NEW w \in Worker, WorkerDone(w) PROVE MailOK'
  <2>1. worker[w].job \in Message
    BY <1>34 DEF WorkerDone, WorkersOK, Handling
  <2>2. published' \in [Message -> Nat]
    BY <1>34, <2>1, PublishType DEF WorkerDone
  <2> QED
    BY <1>34, <2>2, RingKept DEF WorkerDone, MailOK, QueueOK
<1>35. ASSUME NEW w \in Worker, WorkerLook(w) PROVE MailOK'
  BY <1>35, MailKept DEF WorkerLook
<1>36. ASSUME NEW w \in Worker, WorkerLeave(w) PROVE MailOK'
  BY <1>36, MailKept DEF WorkerLeave
<1>37. ASSUME NEW w \in Worker, WorkerGone(w) PROVE MailOK'
  BY <1>37, MailKept DEF WorkerGone
<1>38. CASE UNCHANGED gatewayVars
  BY <1>38, MailKept DEF gatewayVars
<1> QED
  BY <1>10, <1>11, <1>12, <1>13, <1>14, <1>15, <1>16, <1>17, <1>18, <1>19, <1>20, <1>21,
     <1>22, <1>23, <1>24, <1>25, <1>26, <1>27, <1>28, <1>29, <1>30, <1>31, <1>32, <1>33,
     <1>34, <1>35, <1>36, <1>37, <1>38
  DEF GatewayNext, MainTask, WorkerStep

LEMMA NoWorkerIsNone == NoWorker \notin Worker
<1>1. Slots \in Nat
  BY GatewayAssumption DEF GatewayAssumption
<1> QED
  BY <1>1 DEF NoWorker, Worker

LEMMA WorkerToAlive ==
  ASSUME WorkersOK, NEW w \in Worker, NEW at, NEW job, WorkerTo(w, at, job), at # "none"
  PROVE  /\ worker'[w] # NotAlive /\ worker'[w].at = at
         /\ \A other \in Worker : other # w => worker'[other] = worker[other]
BY DEF WorkersOK, WorkerTo, NotAlive

LEMMA NobodyAlive ==
  ASSUME TasksOK, Owned, Starting,
         platform = "feishu" => handle = NoWorker, platform = "feishu" \/ ~ overlapped'
  PROVE  \A w \in Worker : worker[w] = NotAlive
<1>1. CASE platform = "feishu"
  BY <1>1, NoWorkerIsNone DEF Owned, Bound
<1>2. CASE platform # "feishu"
  BY <1>2 DEF Starting, Alive
<1> QED
  BY <1>1, <1>2

\* A start that creates its worker binds the handle to it.
LEMMA NewWorkerIsBound ==
  ASSUME TasksOK, Owned, Starting, NewWorker, platform = "feishu" \/ ~ overlapped'
  PROVE  Bound'
<1>1. CASE platform = "feishu" /\ handle # NoWorker
  BY <1>1 DEF Owned, Bound, NewWorker
<1>2. CASE ~ (platform = "feishu" /\ handle # NoWorker)
  <2>1. PICK w \in Worker \ Alive : WorkerTo(w, "idle", NoMessage) /\ handle' = w
    BY <1>2 DEF NewWorker
  <2>2. \A other \in Worker : worker[other] = NotAlive
    BY <1>2, NobodyAlive
  <2> QED
    BY <2>1, <2>2, WorkerToAlive DEF Bound, TasksOK
<1> QED
  BY <1>1, <1>2

\* The handle keeps naming the worker that is alive.
\* The handle keeps naming the worker that is alive.
LEMMA OwnerStep == TasksOK /\ OwnerInv /\ [GatewayNext]_gatewayVars => OwnerInv'
<1> SUFFICES ASSUME TasksOK /\ OwnerInv, [GatewayNext]_gatewayVars PROVE OwnerInv'
  OBVIOUS
<1> USE DEF OwnerInv, MainTo, taskVars
<1>10. CASE StartNothing
  BY <1>10 DEF StartNothing, Owned, Bound, QueueOutlivesWorker
<1>11. CASE Start
  <2>1. Owned'
    BY <1>11, NewWorkerIsBound DEF Start, Owned, Starting
  <2> QED
    BY <1>11, <2>1 DEF Start, QueueOutlivesWorker
<1>12. CASE StartWithoutWorker
  <2>1. CASE platform = "feishu" \/ ~ overlapped'
    <3>1. \A w \in Worker : worker[w] = NotAlive
      BY <1>12, <2>1, NobodyAlive DEF StartWithoutWorker
    <3>2. worker' = worker /\ handle' = NoWorker
      BY <1>12 DEF StartWithoutWorker
    <3> QED
      BY <3>1, <3>2, NoWorkerIsNone DEF Owned, Bound, QueueOutlivesWorker, NotAlive
  <2>2. CASE platform # "feishu" /\ overlapped'
    BY <1>12, <2>2 DEF StartWithoutWorker, Starting, Owned, QueueOutlivesWorker
  <2> QED
    BY <2>1, <2>2
<1>13. CASE StartWithoutMain
  <2>1. Owned'
    BY <1>13, NewWorkerIsBound DEF StartWithoutMain, Owned, Starting
  <2> QED
    BY <1>13, <2>1 DEF StartWithoutMain, QueueOutlivesWorker
<1>14. CASE StartUndone
  <2>1. handle = NoWorker /\ (platform = "feishu" \/ ~ overlapped => Bound)
    BY <1>14 DEF StartUndone, Owned
  <2>2. UNCHANGED <<platform, worker, handle, overlapped>>
    BY <1>14 DEF StartUndone
  <2> QED
    BY <2>1, <2>2, NoWorkerIsNone DEF Owned, Bound, QueueOutlivesWorker, NotAlive, TasksOK, PlacesOK
<1>15. CASE FeishuStart
  <2>1. Owned'
    BY <1>15, NewWorkerIsBound DEF FeishuStart, Owned, Starting
  <2> QED
    BY <1>15, <2>1 DEF FeishuStart, QueueOutlivesWorker
<1>16. CASE FeishuStartsMain
  <2>1. platform = "feishu" /\ platform' = "feishu"
    BY <1>16 DEF FeishuStartsMain, TasksOK, PlacesOK
  <2> QED
    BY <1>16, <2>1 DEF FeishuStartsMain, Owned, Bound, QueueOutlivesWorker
<1>17. CASE FeishuStartFails
  <2>1. platform = "feishu"
    BY <1>17 DEF FeishuStartFails, TasksOK, PlacesOK
  <2>2. \A w \in Worker : worker'[w] = NotAlive
    BY <1>17, <2>1 DEF FeishuStartFails, Owned, Bound
  <2>3. handle' = NoWorker
    BY <1>17 DEF FeishuStartFails
  <2> QED
    BY <2>2, <2>3, NoWorkerIsNone DEF Owned, Bound, QueueOutlivesWorker, NotAlive
<1>18. CASE StopNothing
  BY <1>18 DEF StopNothing, Admin, Owned, Bound, QueueOutlivesWorker
<1>19. CASE StopBegin
  BY <1>19 DEF StopBegin, Owned, Bound, QueueOutlivesWorker
<1>20. CASE StopTimeout
  BY <1>20 DEF StopTimeout, Owned, Bound, QueueOutlivesWorker
<1>21. CASE StopEnd
  <2>1. handle = NoWorker /\ (platform = "feishu" \/ ~ overlapped => Bound)
    BY <1>21 DEF StopEnd, Owned, StopDone
  <2>2. UNCHANGED <<platform, worker, handle, overlapped>>
    BY <1>21 DEF StopEnd
  <2> QED
    BY <2>1, <2>2, NoWorkerIsNone DEF Owned, Bound, QueueOutlivesWorker, NotAlive, TasksOK, PlacesOK
<1>22. CASE MainEnd
  BY <1>22 DEF MainEnd, Owned, Bound, QueueOutlivesWorker
<1>23. CASE MainConnect
  BY <1>23 DEF MainConnect, Owned, Bound, QueueOutlivesWorker
<1>24. CASE MainConnected
  BY <1>24 DEF MainConnected, Owned, Bound, QueueOutlivesWorker
<1>25. CASE MainDisconnect
  BY <1>25 DEF MainDisconnect, Owned, Bound, QueueOutlivesWorker
<1>26. CASE MainPoll
  BY <1>26 DEF MainPoll, Owned, Bound, QueueOutlivesWorker
<1>27. CASE HandleUpdate
  BY <1>27 DEF HandleUpdate, Owned, Bound, QueueOutlivesWorker
<1>28. CASE PollEnd
  BY <1>28 DEF PollEnd, Owned, Bound, QueueOutlivesWorker
<1>29. ASSUME NEW m \in Message, Receive(m) PROVE OwnerInv'
  BY <1>29 DEF Receive, Owned, Bound, QueueOutlivesWorker
<1>30. ASSUME NEW w \in Worker, WorkerTake(w) PROVE OwnerInv'
  <2>1. PICK at, job : WorkerTo(w, at, job) /\ at \in WorkerPlaces \ {"none"}
    BY <1>30 DEF WorkerTake, WorkerPlaces
  <2>2. worker[w] # NotAlive /\ (hasQueue \/ overlapped)
    BY <1>30 DEF WorkerTake, NotAlive, QueueOutlivesWorker
  <2>3. UNCHANGED <<platform, main, handle, hasQueue, overlapped, gwAdmin>>
    BY <1>30 DEF WorkerTake
  <2> QED
    BY <2>1, <2>2, <2>3, WorkerToAlive DEF Owned, Bound, QueueOutlivesWorker, TasksOK
<1>31. ASSUME NEW w \in Worker, WorkerCheck(w) PROVE OwnerInv'
  <2>1. PICK at, job : WorkerTo(w, at, job) /\ at \in WorkerPlaces \ {"none"}
    BY <1>31 DEF WorkerCheck, WorkerPlaces
  <2>2. worker[w] # NotAlive /\ (hasQueue \/ overlapped)
    BY <1>31 DEF WorkerCheck, NotAlive, QueueOutlivesWorker
  <2>3. UNCHANGED <<platform, main, handle, hasQueue, overlapped, gwAdmin>>
    BY <1>31 DEF WorkerCheck
  <2> QED
    BY <2>1, <2>2, <2>3, WorkerToAlive DEF Owned, Bound, QueueOutlivesWorker, TasksOK
<1>32. ASSUME NEW w \in Worker, WorkerWrite(w) PROVE OwnerInv'
  <2>1. PICK at, job : WorkerTo(w, at, job) /\ at \in WorkerPlaces \ {"none"}
    BY <1>32 DEF WorkerWrite, WorkerPlaces
  <2>2. worker[w] # NotAlive /\ (hasQueue \/ overlapped)
    BY <1>32 DEF WorkerWrite, NotAlive, QueueOutlivesWorker
  <2>3. UNCHANGED <<platform, main, handle, hasQueue, overlapped, gwAdmin>>
    BY <1>32 DEF WorkerWrite
  <2> QED
    BY <2>1, <2>2, <2>3, WorkerToAlive DEF Owned, Bound, QueueOutlivesWorker, TasksOK
<1>33. ASSUME NEW w \in Worker, WorkerAdvance(w) PROVE OwnerInv'
  <2>1. PICK at, job : WorkerTo(w, at, job) /\ at \in WorkerPlaces \ {"none"}
    BY <1>33 DEF WorkerAdvance, WorkerPlaces
  <2>2. worker[w] # NotAlive /\ (hasQueue \/ overlapped)
    BY <1>33 DEF WorkerAdvance, NotAlive, QueueOutlivesWorker
  <2>3. UNCHANGED <<platform, main, handle, hasQueue, overlapped, gwAdmin>>
    BY <1>33 DEF WorkerAdvance
  <2> QED
    BY <2>1, <2>2, <2>3, WorkerToAlive DEF Owned, Bound, QueueOutlivesWorker, TasksOK
<1>34. ASSUME NEW w \in Worker, WorkerDone(w) PROVE OwnerInv'
  <2>1. PICK at, job : WorkerTo(w, at, job) /\ at \in WorkerPlaces \ {"none"}
    BY <1>34 DEF WorkerDone, WorkerPlaces
  <2>2. worker[w] # NotAlive /\ (hasQueue \/ overlapped)
    BY <1>34 DEF WorkerDone, NotAlive, QueueOutlivesWorker
  <2>3. UNCHANGED <<platform, main, handle, hasQueue, overlapped, gwAdmin>>
    BY <1>34 DEF WorkerDone
  <2> QED
    BY <2>1, <2>2, <2>3, WorkerToAlive DEF Owned, Bound, QueueOutlivesWorker, TasksOK
<1>35. ASSUME NEW w \in Worker, WorkerLook(w) PROVE OwnerInv'
  <2>1. PICK at, job : WorkerTo(w, at, job) /\ at \in WorkerPlaces \ {"none"}
    BY <1>35 DEF WorkerLook, WorkerPlaces
  <2>2. worker[w] # NotAlive /\ (hasQueue \/ overlapped)
    BY <1>35 DEF WorkerLook, NotAlive, QueueOutlivesWorker
  <2>3. UNCHANGED <<platform, main, handle, hasQueue, overlapped, gwAdmin>>
    BY <1>35 DEF WorkerLook
  <2> QED
    BY <2>1, <2>2, <2>3, WorkerToAlive DEF Owned, Bound, QueueOutlivesWorker, TasksOK
<1>36. ASSUME NEW w \in Worker, WorkerLeave(w) PROVE OwnerInv'
  <2>1. PICK at, job : WorkerTo(w, at, job) /\ at \in WorkerPlaces \ {"none"}
    BY <1>36 DEF WorkerLeave, WorkerPlaces
  <2>2. worker[w] # NotAlive /\ (hasQueue \/ overlapped)
    BY <1>36 DEF WorkerLeave, NotAlive, QueueOutlivesWorker
  <2>3. UNCHANGED <<platform, main, handle, hasQueue, overlapped, gwAdmin>>
    BY <1>36 DEF WorkerLeave
  <2> QED
    BY <2>1, <2>2, <2>3, WorkerToAlive DEF Owned, Bound, QueueOutlivesWorker, TasksOK
<1>37. ASSUME NEW w \in Worker, WorkerGone(w) PROVE OwnerInv'
  <2>1. worker' = [worker EXCEPT ![w] = NotAlive] /\ handle' = NoWorker /\ worker[w] # NotAlive
    BY <1>37 DEF WorkerGone, NotAlive
  <2>2. UNCHANGED <<platform, main, hasQueue, overlapped, gwAdmin>>
    BY <1>37 DEF WorkerGone
  <2> QED
    BY <2>1, <2>2, NoWorkerIsNone DEF Owned, Bound, QueueOutlivesWorker, NotAlive, TasksOK, WorkersOK
<1>38. CASE UNCHANGED gatewayVars
  BY <1>38 DEF gatewayVars, Owned, Bound, QueueOutlivesWorker
<1> QED
  BY <1>10, <1>11, <1>12, <1>13, <1>14, <1>15, <1>16, <1>17, <1>18, <1>19, <1>20, <1>21,
     <1>22, <1>23, <1>24, <1>25, <1>26, <1>27, <1>28, <1>29, <1>30, <1>31, <1>32, <1>33,
     <1>34, <1>35, <1>36, <1>37, <1>38
  DEF GatewayNext, MainTask, WorkerStep

LEMMA RangeOfEmpty == \A list : list = <<>> => Range(list) = {}
BY DEF Range

LEMMA RangeOfAppend ==
  ASSUME NEW list \in Seq(Message), NEW m
  PROVE  Range(Append(list, m)) = Range(list) \cup {m}
<1>1. DOMAIN Append(list, m) = DOMAIN list \cup {Len(list) + 1}
  OBVIOUS
<1> QED
  BY <1>1 DEF Range

LEMMA EnqueueLate ==
  ASSUME MailOK, LateOnly, NEW m \in Message, Enqueue(m), UNCHANGED worker
  PROVE  LateOnly'
<1>1. CASE UNCHANGED <<inbound, tooLate>>
  BY <1>1 DEF LateOnly, Unattended
<1>2. CASE ~ UNCHANGED <<inbound, tooLate>>
  <2> SUFFICES ASSUME Unattended PROVE Range(inbound') \subseteq tooLate'
    BY DEF LateOnly, Unattended
  <2>1. inbound' = Append(inbound, m) /\ tooLate' = tooLate \cup {m}
    BY <1>2 DEF Enqueue
  <2>2. Range(inbound') = Range(inbound) \cup {m}
    BY <2>1, RangeOfAppend DEF MailOK, QueueOK
  <2> QED
    BY <2>1, <2>2 DEF LateOnly
<1> QED
  BY <1>1, <1>2

LEMMA HandledLate ==
  ASSUME MailOK, LateOnly, NEW m \in Message, HandleHere(m), UNCHANGED worker
  PROVE  LateOnly'
<1>1. CASE UNCHANGED <<inbound, tooLate>>
  BY <1>1 DEF LateOnly, Unattended
<1>2. CASE Enqueue(m)
  BY <1>2, EnqueueLate
<1> QED
  BY <1>1, <1>2 DEF HandleHere

\* Where a worker is going to look at the queue.
LEMMA LooksAgain ==
  ASSUME TasksOK, NEW w \in Worker, NEW at, NEW job, WorkerTo(w, at, job),
         at \notin {"none", "looked", "leaving"}
  PROVE  LateOnly'
<1>1. worker'[w].at = at
  BY WorkerToAlive DEF TasksOK
<1> QED
  BY <1>1 DEF LateOnly, Unattended

\* Where the workers are as they were, or one of them is no more.
LEMMA LateKept ==
  ASSUME TasksOK, LateOnly, UNCHANGED <<inbound, tooLate>>,
         Unattended' => Unattended
  PROVE  LateOnly'
BY DEF LateOnly

LEMMA EmptyIsLate == ASSUME inbound' = <<>> PROVE LateOnly'
BY RangeOfEmpty DEF LateOnly

\* A message that no worker will take came too late.
LEMMA LateOnlyStep == TasksOK /\ MailOK /\ OwnerInv /\ LateOnly /\ [GatewayNext]_gatewayVars => LateOnly'
<1> SUFFICES ASSUME TasksOK /\ MailOK /\ OwnerInv /\ LateOnly, [GatewayNext]_gatewayVars PROVE LateOnly'
  OBVIOUS
<1> USE DEF Starting, MainTo, taskVars, mailVars
<1>10. CASE StartNothing
  BY <1>10 DEF StartNothing, LateOnly, Unattended
<1>11. CASE Start
  <2>1. PICK w \in Worker : WorkerTo(w, "idle", NoMessage)
    BY <1>11 DEF Start, NewWorker
  <2> QED
    BY <2>1, LooksAgain
<1>12. CASE StartWithoutWorker
  BY <1>12, EmptyIsLate DEF StartWithoutWorker, DropQueue
<1>13. CASE StartWithoutMain
  <2>1. PICK w \in Worker : WorkerTo(w, "idle", NoMessage)
    BY <1>13 DEF StartWithoutMain, NewWorker
  <2> QED
    BY <2>1, LooksAgain
<1>14. CASE StartUndone
  BY <1>14, EmptyIsLate DEF StartUndone, DropQueue
<1>15. CASE FeishuStart
  <2>1. CASE \E w \in Worker : WorkerTo(w, "idle", NoMessage)
    BY <2>1, LooksAgain
  <2>2. CASE UNCHANGED <<worker, handle, tooLate>> /\ handle # NoWorker
    BY <1>15, <2>2 DEF FeishuStart, LateOnly, Unattended
  <2> QED
    BY <1>15, <2>1, <2>2 DEF FeishuStart, NewWorker
<1>16. CASE FeishuStartsMain
  BY <1>16 DEF FeishuStartsMain, LateOnly, Unattended
<1>17. CASE FeishuStartFails
  BY <1>17, EmptyIsLate DEF FeishuStartFails, DropQueue
<1>18. CASE StopNothing
  BY <1>18 DEF StopNothing, LateOnly, Unattended
<1>19. CASE StopBegin
  BY <1>19 DEF StopBegin, LateOnly, Unattended
<1>20. CASE StopTimeout
  BY <1>20 DEF StopTimeout, LateOnly, Unattended
<1>21. CASE StopEnd
  BY <1>21, EmptyIsLate DEF StopEnd, DropQueue
<1>22. CASE MainEnd
  BY <1>22 DEF MainEnd, LateOnly, Unattended
<1>23. CASE MainConnect
  BY <1>23 DEF MainConnect, LateOnly, Unattended
<1>24. CASE MainConnected
  BY <1>24 DEF MainConnected, LateOnly, Unattended
<1>25. CASE MainDisconnect
  BY <1>25 DEF MainDisconnect, LateOnly, Unattended
<1>26. CASE MainPoll
  BY <1>26 DEF MainPoll, LateOnly, Unattended
<1>27. CASE HandleUpdate
  <2>1. worker' = worker
    BY <1>27 DEF HandleUpdate
  <2>2. PICK u \in batch : UNCHANGED <<inbound, tooLate>> \/ (u \notin Notice /\ HandleHere(u))
    BY <1>27 DEF HandleUpdate
  <2>3. CASE UNCHANGED <<inbound, tooLate>>
    BY <2>1, <2>3 DEF LateOnly, Unattended
  <2>4. CASE u \notin Notice /\ HandleHere(u)
    <3>1. u \in Message
      BY <2>2, <2>4 DEF MailOK, Update
    <3> QED
      BY <2>1, <2>4, <3>1, HandledLate
  <2> QED
    BY <2>2, <2>3, <2>4
<1>28. CASE PollEnd
  BY <1>28 DEF PollEnd, LateOnly, Unattended
<1>29. ASSUME NEW m \in Message, Receive(m) PROVE LateOnly'
  <2>1. worker' = worker
    BY <1>29 DEF Receive
  <2>2. CASE Enqueue(m)
    BY <2>1, <2>2, EnqueueLate
  <2>3. CASE HandleHere(m)
    BY <2>1, <2>3, HandledLate
  <2> QED
    BY <1>29, <2>2, <2>3 DEF Receive
<1>30. ASSUME NEW w \in Worker, WorkerTake(w) PROVE LateOnly'
  BY <1>30, LooksAgain DEF WorkerTake
<1>31. ASSUME NEW w \in Worker, WorkerCheck(w) PROVE LateOnly'
  BY <1>31, LooksAgain DEF WorkerCheck
<1>32. ASSUME NEW w \in Worker, WorkerWrite(w) PROVE LateOnly'
  BY <1>32, LooksAgain DEF WorkerWrite
<1>33. ASSUME NEW w \in Worker, WorkerAdvance(w) PROVE LateOnly'
  BY <1>33, LooksAgain DEF WorkerAdvance
<1>34. ASSUME NEW w \in Worker, WorkerDone(w) PROVE LateOnly'
  BY <1>34, LooksAgain DEF WorkerDone
<1>35. ASSUME NEW w \in Worker, WorkerLook(w) PROVE LateOnly'
  BY <1>35, EmptyIsLate DEF WorkerLook
<1>36. ASSUME NEW w \in Worker, WorkerLeave(w) PROVE LateOnly'
  <2>1. CASE ~ stopReq
    BY <1>36, <2>1, LooksAgain DEF WorkerLeave
  <2>2. CASE stopReq
    <3>1. Unattended' => Unattended
      BY <1>36 DEF WorkerLeave, WorkerTo, Unattended, TasksOK, WorkersOK
    <3> QED
      BY <1>36, <2>2, <3>1, LateKept DEF WorkerLeave
  <2> QED
    BY <2>1, <2>2
<1>37. ASSUME NEW w \in Worker, WorkerGone(w) PROVE LateOnly'
  <2>1. Unattended' => Unattended
    BY <1>37 DEF WorkerGone, Unattended, TasksOK, WorkersOK
  <2> QED
    BY <1>37, <2>1, LateKept DEF WorkerGone
<1>38. CASE UNCHANGED gatewayVars
  BY <1>38 DEF gatewayVars, LateOnly, Unattended
<1> QED
  BY <1>10, <1>11, <1>12, <1>13, <1>14, <1>15, <1>16, <1>17, <1>18, <1>19, <1>20, <1>21,
     <1>22, <1>23, <1>24, <1>25, <1>26, <1>27, <1>28, <1>29, <1>30, <1>31, <1>32, <1>33,
     <1>34, <1>35, <1>36, <1>37, <1>38
  DEF GatewayNext, MainTask, WorkerStep

LEMMA CopiesFinite ==
  ASSUME NEW list \in Seq(Message), NEW m
  PROVE  IsFiniteSet(Copies(list, m)) /\ Cardinality(Copies(list, m)) \in Nat
<1> DEFINE places == 1..Len(list)
<1>1. IsFiniteSet(places)
  BY FS_Interval
<1> HIDE DEF places
<1>2. Copies(list, m) \in SUBSET places
  BY DEF Copies, places
<1> QED
  BY <1>1, <1>2, FS_Subset, FS_CardinalityType

LEMMA CopiesEmpty == \A m : Cardinality(Copies(<<>>, m)) = 0
<1>1. \A m : Copies(<<>>, m) = {}
  BY DEF Copies
<1> QED
  BY <1>1, FS_EmptySet

LEMMA CopiesAppend ==
  ASSUME NEW list \in Seq(Message), NEW new \in Message, NEW m
  PROVE  Cardinality(Copies(Append(list, new), m))
           = Cardinality(Copies(list, m)) + (IF m = new THEN 1 ELSE 0)
<1> DEFINE longer == Append(list, new)
           last == Len(list) + 1
<1>1. DOMAIN longer = DOMAIN list \cup {last} /\ last \notin DOMAIN list
  OBVIOUS
<1>2. \A n \in DOMAIN list : longer[n] = list[n]
  OBVIOUS
<1>3. longer[last] = new
  OBVIOUS
<1> HIDE DEF longer, last
<1>4. CASE m = new
  <2>1. Copies(longer, m) = Copies(list, m) \cup {last} /\ last \notin Copies(list, m)
    BY <1>1, <1>2, <1>3, <1>4 DEF Copies
  <2> QED
    BY <1>4, <2>1, CopiesFinite, FS_AddElement DEF longer
<1>5. CASE m # new
  <2>1. Copies(longer, m) = Copies(list, m)
    BY <1>1, <1>2, <1>3, <1>5 DEF Copies
  <2> QED
    BY <1>5, <2>1, CopiesFinite DEF longer
<1> QED
  BY <1>4, <1>5

LEMMA CopiesTail ==
  ASSUME NEW list \in Seq(Message), list # <<>>, NEW m
  PROVE  Cardinality(Copies(Tail(list), m))
           <= Cardinality(Copies(list, m)) - (IF m = Head(list) THEN 1 ELSE 0)
<1> DEFINE rest == Copies(list, m) \ {1}
           shift == [n \in Copies(Tail(list), m) |-> n + 1]
<1>1. IsFiniteSet(Copies(list, m)) /\ Cardinality(Copies(list, m)) \in Nat
  BY CopiesFinite
<1>2. IsFiniteSet(rest)
      /\ Cardinality(rest) = Cardinality(Copies(list, m)) - (IF m = Head(list) THEN 1 ELSE 0)
  <2>1. 1 \in Copies(list, m) <=> m = Head(list)
    BY DEF Copies
  <2> QED
    BY <1>1, <2>1, FS_RemoveElement
<1>3. \A n \in DOMAIN Tail(list) :
        n \in Nat \ {0} /\ n + 1 \in DOMAIN list /\ Tail(list)[n] = list[n + 1]
  BY HeadTailProperties
<1>4. shift \in Injection(Copies(Tail(list), m), rest)
  <2>1. \A n \in Copies(Tail(list), m) : n \in Nat \ {0} /\ n + 1 \in rest
    BY <1>3 DEF Copies
  <2>2. \A a, b \in Copies(Tail(list), m) : shift[a] = shift[b] => a = b
    BY <2>1
  <2> QED
    BY <2>1, <2>2 DEF Injection, IsInjective
<1> HIDE DEF rest, shift
<1>5. Cardinality(Copies(Tail(list), m)) <= Cardinality(rest)
  BY <1>2, <1>4, FS_Injection
<1> QED
  BY <1>2, <1>5

LEMMA HeldFinite ==
  \A crew, m : IsFiniteSet(Held(crew, m)) /\ Cardinality(Held(crew, m)) \in Nat
<1>1. Slots \in Nat
  BY GatewayAssumption DEF GatewayAssumption
<1>2. IsFiniteSet(Worker)
  BY <1>1, FS_Interval DEF Worker
<1>3. \A crew, m : Held(crew, m) \in SUBSET Worker
  BY DEF Held
<1> QED
  BY <1>2, <1>3, FS_Subset, FS_CardinalityType

LEMMA HeadTailRange ==
  ASSUME NEW list \in Seq(Message), list # <<>>
  PROVE  Range(list) \subseteq {Head(list)} \cup Range(Tail(list))
<1> SUFFICES ASSUME NEW n \in DOMAIN list PROVE list[n] \in {Head(list)} \cup Range(Tail(list))
  BY DEF Range
<1>1. CASE n = 1
  BY <1>1
<1>2. CASE n # 1
  <2>1. n - 1 \in DOMAIN Tail(list) /\ Tail(list)[n - 1] = list[n]
    BY <1>2, HeadTailProperties
  <2> QED
    BY <2>1 DEF Range
<1> QED
  BY <1>1, <1>2

LEMMA WriteKeyRange ==
  ASSUME RingOK, NEW new \in Message, WriteKey(new)
  PROVE  /\ Range(seen') \subseteq Range(seen) \cup {new}
         /\ new \in Range(seen')
         /\ Range(seen) \subseteq Range(seen') \cup {seen[seenIdx]}
<1>1. seen' = [seen EXCEPT ![seenIdx] = new]
  BY DEF WriteKey
<1>2. DOMAIN seen = 1..Recent /\ DOMAIN seen' = 1..Recent /\ seenIdx \in 1..Recent
  BY <1>1 DEF RingOK
<1>3. \A n \in 1..Recent : seen'[n] = IF n = seenIdx THEN new ELSE seen[n]
  BY <1>1, <1>2
<1> QED
  BY <1>2, <1>3 DEF Range

\* Writing an id records it once more where it was not in the ring, and takes
\* nothing from what is recorded of the others.
LEMMA RecordCounts ==
  ASSUME RingOK, NEW new \in Message, WriteKey(new), NEW m \in Message,
         m = new => m \notin Range(seen)
  PROVE  Recorded(m)' >= Recorded(m) + (IF m = new THEN 1 ELSE 0)
<1> DEFINE old == seen[seenIdx]
<1>1. forgotten[m] \in Nat
  BY DEF RingOK
<1>2. old \in Range(seen)
  BY DEF RingOK, Range
<1>3. forgotten'[m] \in Nat /\ forgotten'[m] >= forgotten[m]
      /\ (m = old /\ m # new => forgotten'[m] = forgotten[m] + 1)
  <2>1. CASE old \in {NoMessage, new}
    BY <1>1, <2>1, NoMessageIsNone DEF WriteKey
  <2>2. CASE old \notin {NoMessage, new}
    <3>1. forgotten' = [forgotten EXCEPT ![old] = @ + 1]
      BY <2>2 DEF WriteKey
    <3>2. forgotten'[m] = IF m = old THEN forgotten[m] + 1 ELSE forgotten[m]
      BY <3>1 DEF RingOK
    <3> QED
      BY <1>1, <3>2
  <2> QED
    BY <2>1, <2>2
<1> HIDE DEF old
<1>4. Range(seen) \subseteq Range(seen') \cup {old} /\ new \in Range(seen')
  BY WriteKeyRange DEF old
<1>5. Recorded(m)' = forgotten'[m] + (IF m \in Range(seen') THEN 1 ELSE 0)
  BY DEF Recorded
<1> QED
  BY <1>1, <1>3, <1>4, <1>5 DEF Recorded

LEMMA PublishCounts ==
  ASSUME MailOK, NEW new \in Message, Publish(new) \/ UNCHANGED published, NEW m \in Message
  PROVE  /\ published'[m] \in Nat
         /\ published'[m] <= published[m] + (IF m = new THEN 1 ELSE 0)
<1>1. published \in [Message -> Nat]
  BY DEF MailOK
<1>2. CASE Publish(new)
  BY <1>1, <1>2 DEF Publish
<1>3. CASE UNCHANGED published
  BY <1>1, <1>3
<1> QED
  BY <1>2, <1>3

LEMMA EnqueueCounts ==
  ASSUME QueueOK, NEW new \in Message, Enqueue(new), NEW m \in Message
  PROVE  CopiesOf(inbound', m) <= CopiesOf(inbound, m) + (IF m = new THEN 1 ELSE 0)
<1>1. inbound \in Seq(Message) /\ CopiesOf(inbound, m) \in Nat
  BY CopiesFinite DEF QueueOK, CopiesOf
<1>2. CASE inbound' = inbound
  BY <1>1, <1>2
<1>3. CASE inbound' = Append(inbound, new)
  BY <1>1, <1>3, CopiesAppend DEF CopiesOf
<1> QED
  BY <1>2, <1>3 DEF Enqueue

LEMMA Naturals ==
  ASSUME MailOK, NEW m \in Message
  PROVE  /\ published[m] \in Nat /\ forgotten[m] \in Nat /\ Recorded(m) \in Nat
         /\ Queued(inbound, m) \in Nat /\ HeldOf(worker, m) \in Nat
<1>1. published[m] \in Nat /\ forgotten[m] \in Nat
  BY DEF MailOK, RingOK
<1>2. CopiesOf(inbound, m) \in Nat
  BY CopiesFinite DEF MailOK, QueueOK, CopiesOf
<1>3. HeldOf(worker, m) \in Nat
  BY HeldFinite DEF HeldOf
<1> QED
  BY <1>1, <1>2, <1>3 DEF Recorded, Queued

LEMMA NaturalsNext ==
  ASSUME MailOK', NEW m \in Message
  PROVE  /\ published'[m] \in Nat /\ Recorded(m)' \in Nat
         /\ Queued(inbound', m) \in Nat /\ HeldOf(worker', m) \in Nat
<1>1. published'[m] \in Nat /\ forgotten'[m] \in Nat
  BY DEF MailOK, RingOK
<1>2. CopiesOf(inbound', m) \in Nat
  BY CopiesFinite DEF MailOK, QueueOK, CopiesOf
<1>3. HeldOf(worker', m) \in Nat
  BY HeldFinite DEF HeldOf
<1> QED
  BY <1>1, <1>2, <1>3 DEF Recorded, Queued

LEMMA WithinNext ==
  ASSUME platform' = platform, NEW m \in Message,
         published'[m] + Queued(inbound', m) + HeldOf(worker', m) <= Recorded(m)'
  PROVE  Within(m)'
BY DEF Within, Queued, HeldOf, Held, Recording

\* One worker moves: what it no longer holds of a message, and what it now holds.
LEMMA HeldAfter ==
  ASSUME WorkersOK, NEW w \in Worker, NEW at, NEW job, WorkerTo(w, at, job), NEW m
  PROVE  HeldOf(worker', m) + (IF worker[w].at \in Recording /\ worker[w].job = m THEN 1 ELSE 0)
           = HeldOf(worker, m) + (IF at \in Recording /\ job = m THEN 1 ELSE 0)
<1> DEFINE before == Held(worker, m)
           after == Held(worker', m)
<1>1. worker'[w] = [at |-> at, job |-> job] /\ \A x \in Worker \ {w} : worker'[x] = worker[x]
  BY DEF WorkersOK, WorkerTo
<1>2. before \ {w} = after \ {w}
  BY <1>1 DEF Held
<1>3. w \in after <=> at \in Recording /\ job = m
  BY <1>1 DEF Held
<1>4. w \in before <=> worker[w].at \in Recording /\ worker[w].job = m
  BY DEF Held
<1>5. IsFiniteSet(before) /\ IsFiniteSet(after)
      /\ Cardinality(before) \in Nat /\ Cardinality(after) \in Nat
  BY HeldFinite
<1> HIDE DEF before, after
<1>6. Cardinality(before \ {w})
        = IF w \in before THEN Cardinality(before) - 1 ELSE Cardinality(before)
  BY <1>5, FS_RemoveElement
<1>7. Cardinality(after \ {w})
        = IF w \in after THEN Cardinality(after) - 1 ELSE Cardinality(after)
  BY <1>5, FS_RemoveElement
<1>8. Cardinality(after) + (IF w \in before THEN 1 ELSE 0)
        = Cardinality(before) + (IF w \in after THEN 1 ELSE 0)
  <2>1. Cardinality(before \ {w}) = Cardinality(after \ {w})
    BY <1>2
  <2>2. CASE w \in before /\ w \in after
    BY <1>5, <1>6, <1>7, <2>1, <2>2
  <2>3. CASE w \in before /\ w \notin after
    BY <1>5, <1>6, <1>7, <2>1, <2>3
  <2>4. CASE w \notin before /\ w \in after
    BY <1>5, <1>6, <1>7, <2>1, <2>4
  <2>5. CASE w \notin before /\ w \notin after
    BY <1>5, <1>6, <1>7, <2>1, <2>5
  <2> QED
    BY <2>2, <2>3, <2>4, <2>5
<1> QED
  BY <1>3, <1>4, <1>8 DEF HeldOf, before, after

\* A step that handles no message.
LEMMA OnceKept ==
  ASSUME MailOK, MailOK', OnceInv, platform' = platform, UNCHANGED <<ringVars, published>>,
         inbound' = inbound \/ inbound' = <<>>,
         ASSUME NEW m \in Message PROVE HeldOf(worker', m) <= HeldOf(worker, m)
  PROVE  OnceInv'
<1> SUFFICES ASSUME NEW m \in Message \ raced PROVE Within(m)'
  BY DEF OnceInv, ringVars
<1>1. HeldOf(worker', m) <= HeldOf(worker, m)
  OBVIOUS
<1>2. Queued(inbound', m) <= Queued(inbound, m)
  <2>1. CASE inbound' = inbound
    BY <2>1, Naturals
  <2>2. CASE inbound' = <<>>
    <3>1. Queued(inbound', m) = 0
      BY <2>2, CopiesEmpty DEF CopiesOf, Queued
    <3> QED
      BY <3>1, Naturals
  <2> QED
    BY <2>1, <2>2
<1>3. Recorded(m)' = Recorded(m) /\ published'[m] = published[m]
  BY DEF Recorded, ringVars
<1>4. published[m] + Queued(inbound, m) + HeldOf(worker, m) <= Recorded(m)
  BY DEF OnceInv, Within
<1>5. published'[m] + Queued(inbound', m) + HeldOf(worker', m) <= Recorded(m)'
  BY <1>1, <1>2, <1>3, <1>4, Naturals, NaturalsNext
<1> QED
  BY <1>5, WithinNext

\* Where the workers stay as they are, or some of them end.
LEMMA HeldFewer ==
  ASSUME WorkersOK, \A w \in Worker : worker'[w] \in {worker[w], NotAlive}, NEW m \in Message
  PROVE  HeldOf(worker', m) <= HeldOf(worker, m)
<1>1. NotAlive.at = "none"
  BY DEF NotAlive
<1>2. "none" \notin Recording
  BY DEF Recording
<1>3. Held(worker', m) \subseteq Held(worker, m)
  BY <1>1, <1>2 DEF Held
<1> QED
  BY <1>3, HeldFinite, FS_Subset DEF HeldOf

\* Where a worker is made, looks, leaves, or finds a message in the ring.
LEMMA HeldByNone ==
  ASSUME WorkersOK, NEW w \in Worker, NEW at, NEW job, WorkerTo(w, at, job),
         at \notin Recording, NEW m \in Message
  PROVE  HeldOf(worker', m) <= HeldOf(worker, m)
<1>1. HeldOf(worker', m) + (IF worker[w].at \in Recording /\ worker[w].job = m THEN 1 ELSE 0)
           = HeldOf(worker, m)
  BY HeldAfter, HeldFinite DEF HeldOf
<1>2. HeldOf(worker', m) \in Nat
  BY HeldFinite DEF HeldOf
<1> QED
  BY <1>1, <1>2

\* A message handled in the task that received it.
LEMMA HandledOnce ==
  ASSUME MailOK, MailOK', OnceInv, NEW new \in Message, HandleHere(new),
         platform # "qq", UNCHANGED <<platform, worker>>
  PROVE  OnceInv'
<1> SUFFICES ASSUME NEW m \in Message \ raced PROVE Within(m)'
  BY DEF OnceInv, HandleHere, Record, ringVars
<1> DEFINE one == IF m = new THEN 1 ELSE 0
<1>1. published[m] + CopiesOf(inbound, m) + HeldOf(worker, m) <= Recorded(m)
  BY DEF OnceInv, Within, Queued
<1>2. SUFFICES published'[m] + CopiesOf(inbound', m) + HeldOf(worker', m) <= Recorded(m)'
  BY WithinNext DEF Queued
<1>3. /\ published[m] \in Nat /\ Recorded(m) \in Nat /\ CopiesOf(inbound, m) \in Nat
      /\ HeldOf(worker, m) \in Nat /\ HeldOf(worker', m) = HeldOf(worker, m)
      /\ published'[m] \in Nat /\ Recorded(m)' \in Nat /\ CopiesOf(inbound', m) \in Nat
  BY Naturals, NaturalsNext DEF Queued
<1>4. CASE UNCHANGED <<ringVars, published, inbound>>
  BY <1>1, <1>3, <1>4 DEF Recorded, ringVars
<1>5. ASSUME ~ Duplicate(new), Record(new) PROVE Recorded(m)' >= Recorded(m) + one
  BY <1>5, RecordCounts DEF Record, Duplicate, MailOK
<1>6. CASE ~ Duplicate(new) /\ Record(new) /\ Enqueue(new) /\ UNCHANGED published
  <2>1. CopiesOf(inbound', m) <= CopiesOf(inbound, m) + one
    BY <1>6, EnqueueCounts DEF MailOK
  <2> QED
    BY <1>1, <1>3, <1>5, <1>6, <2>1
<1>7. CASE ~ Duplicate(new) /\ Record(new) /\ (Publish(new) \/ UNCHANGED published) /\ UNCHANGED inbound
  <2>1. published'[m] <= published[m] + one
    BY <1>7, PublishCounts
  <2> QED
    BY <1>1, <1>3, <1>5, <1>7, <2>1
<1> QED
  BY <1>4, <1>6, <1>7 DEF HandleHere

\* A frame of QQ enters the queue.
LEMMA FrameQueued ==
  ASSUME MailOK, MailOK', OnceInv, platform = "qq",
         UNCHANGED <<platform, worker, ringVars, published>>
  PROVE  OnceInv'
<1> SUFFICES ASSUME NEW m \in Message \ raced PROVE Within(m)'
  BY DEF OnceInv, ringVars
<1>1. published[m] + HeldOf(worker, m) <= Recorded(m)
  BY Naturals DEF OnceInv, Within, Queued
<1>2. Recorded(m)' = Recorded(m) /\ published'[m] = published[m] /\ Queued(inbound', m) = 0
      /\ HeldOf(worker', m) = HeldOf(worker, m)
  BY DEF Recorded, ringVars, Queued
<1>3. published'[m] + Queued(inbound', m) + HeldOf(worker', m) <= Recorded(m)'
  BY <1>1, <1>2, Naturals
<1> QED
  BY <1>3, WithinNext

\* A worker takes a message off the queue.
LEMMA TakenOnce ==
  ASSUME MailOK, MailOK', WorkersOK, OnceInv, NEW w \in Worker, WorkerTake(w)
  PROVE  OnceInv'
<1> SUFFICES ASSUME NEW m \in Message \ raced PROVE Within(m)'
  BY DEF OnceInv, WorkerTake, ringVars
<1>1. WorkerTo(w, "busy", Head(inbound)) /\ inbound # <<>> /\ inbound' = Tail(inbound)
      /\ worker[w].at = "idle" /\ UNCHANGED <<platform, ringVars, published>>
  BY DEF WorkerTake
<1> DEFINE one == IF "busy" \in Recording /\ Head(inbound) = m THEN 1 ELSE 0
<1>2. inbound \in Seq(Message)
  BY DEF MailOK, QueueOK
<1>3. "idle" \notin Recording
  BY DEF Recording
<1>4. HeldOf(worker', m) = HeldOf(worker, m) + one
  <2>1. HeldOf(worker', m) + 0 = HeldOf(worker, m) + one
    BY <1>1, <1>3, HeldAfter
  <2> QED
    BY <2>1, NaturalsNext
<1>5. Queued(inbound', m) + one <= Queued(inbound, m)
  <2>1. CASE platform = "qq"
    BY <2>1 DEF Queued, Recording
  <2>2. CASE platform # "qq"
    <3>1. CopiesOf(inbound', m) <= CopiesOf(inbound, m) - (IF m = Head(inbound) THEN 1 ELSE 0)
      BY <1>1, <1>2, CopiesTail DEF CopiesOf
    <3>2. CopiesOf(inbound, m) \in Nat /\ CopiesOf(inbound', m) \in Nat
      BY <2>2, Naturals, NaturalsNext DEF Queued
    <3> QED
      BY <2>2, <3>1, <3>2 DEF Queued, Recording
  <2> QED
    BY <2>1, <2>2
<1>6. published[m] + Queued(inbound, m) + HeldOf(worker, m) <= Recorded(m)
  BY DEF OnceInv, Within
<1>7. Recorded(m)' = Recorded(m) /\ published'[m] = published[m]
  BY <1>1 DEF Recorded, ringVars
<1>8. one \in Nat
  OBVIOUS
<1> HIDE DEF one
<1>9. published'[m] + Queued(inbound', m) + HeldOf(worker', m) <= Recorded(m)'
  BY <1>4, <1>5, <1>6, <1>7, <1>8, Naturals, NaturalsNext
<1> QED
  BY <1>1, <1>9, WithinNext

\* A worker of QQ writes the id of the message it found unseen.
LEMMA WrittenOnce ==
  ASSUME MailOK, MailOK', WorkersOK, OnceInv, UnseenInv, NEW w \in Worker, WorkerWrite(w)
  PROVE  OnceInv'
<1> SUFFICES ASSUME NEW m \in Message \ raced PROVE Within(m)'
  BY DEF OnceInv, WorkerWrite
<1> DEFINE job == worker[w].job
           one == IF m = job THEN 1 ELSE 0
<1>1. /\ worker[w].at = "checked" /\ WorkerTo(w, "written", job) /\ WriteKey(job)
      /\ UNCHANGED <<platform, inbound, published>>
  BY DEF WorkerWrite
<1>2. job \in Message /\ platform = "qq"
  BY <1>1 DEF WorkersOK, Handling
<1>3. "checked" \notin Recording /\ "written" \in Recording
  BY <1>2 DEF Recording
<1>4. m = job => m \notin Range(seen)
  BY <1>1 DEF UnseenInv, Checking
<1>5. HeldOf(worker', m) = HeldOf(worker, m) + one
  <2>1. HeldOf(worker', m) + 0 = HeldOf(worker, m) + one
    BY <1>1, <1>3, HeldAfter
  <2> QED
    BY <2>1, NaturalsNext
<1> HIDE DEF job
<1>6. Recorded(m)' >= Recorded(m) + one
  BY <1>1, <1>2, <1>4, RecordCounts DEF MailOK
<1>7. published[m] + Queued(inbound, m) + HeldOf(worker, m) <= Recorded(m)
  BY DEF OnceInv, Within
<1>8. published'[m] + Queued(inbound', m) + HeldOf(worker', m) <= Recorded(m)'
  BY <1>1, <1>5, <1>6, <1>7, Naturals, NaturalsNext
<1> QED
  BY <1>1, <1>8, WithinNext

\* It takes the index of the ring one step on.
LEMMA AdvancedOnce ==
  ASSUME MailOK, MailOK', WorkersOK, OnceInv, NEW w \in Worker, WorkerAdvance(w)
  PROVE  OnceInv'
<1> SUFFICES ASSUME NEW m \in Message \ raced PROVE Within(m)'
  BY DEF OnceInv, WorkerAdvance
<1>1. /\ worker[w].at = "written" /\ WorkerTo(w, "recorded", worker[w].job)
      /\ UNCHANGED <<platform, inbound, published, seen, forgotten>>
  BY DEF WorkerAdvance
<1>2. platform = "qq"
  BY <1>1 DEF WorkersOK, Handling
<1>3. "written" \in Recording /\ "recorded" \in Recording
  BY <1>2 DEF Recording
<1>4. HeldOf(worker', m) = HeldOf(worker, m)
  <2>1. HeldOf(worker', m) + (IF worker[w].job = m THEN 1 ELSE 0)
          = HeldOf(worker, m) + (IF worker[w].job = m THEN 1 ELSE 0)
    BY <1>1, <1>3, HeldAfter
  <2> QED
    BY <2>1, Naturals, NaturalsNext
<1>5. Recorded(m)' = Recorded(m)
  BY <1>1 DEF Recorded
<1>6. published[m] + Queued(inbound, m) + HeldOf(worker, m) <= Recorded(m)
  BY DEF OnceInv, Within
<1>7. published'[m] + Queued(inbound', m) + HeldOf(worker', m) <= Recorded(m)'
  BY <1>1, <1>4, <1>5, <1>6
<1> QED
  BY <1>1, <1>7, WithinNext

\* A worker publishes what it holds, or fails to.
LEMMA DoneOnce ==
  ASSUME MailOK, MailOK', WorkersOK, OnceInv, NEW w \in Worker, WorkerDone(w)
  PROVE  OnceInv'
<1> SUFFICES ASSUME NEW m \in Message \ raced PROVE Within(m)'
  BY DEF OnceInv, WorkerDone, ringVars
<1> DEFINE job == worker[w].job
           one == IF m = job THEN 1 ELSE 0
<1>1. /\ WorkerTo(w, "idle", NoMessage) /\ worker[w].at \in Recording /\ job \in Message
      /\ UNCHANGED <<platform, ringVars, inbound>>
      /\ Publish(job) \/ UNCHANGED published
  BY DEF WorkerDone, WorkersOK, Recording, Handling
<1>2. "idle" \notin Recording
  BY DEF Recording
<1>3. HeldOf(worker', m) + one = HeldOf(worker, m)
  <2>1. HeldOf(worker', m) + one = HeldOf(worker, m) + 0
    BY <1>1, <1>2, HeldAfter
  <2> QED
    BY <2>1, Naturals
<1> HIDE DEF job
<1>4. published'[m] <= published[m] + one
  BY <1>1, PublishCounts
<1>5. published[m] + Queued(inbound, m) + HeldOf(worker, m) <= Recorded(m)
  BY DEF OnceInv, Within
<1>6. Recorded(m)' = Recorded(m) /\ Queued(inbound', m) = Queued(inbound, m)
  BY <1>1 DEF Recorded, ringVars
<1>7. published'[m] + Queued(inbound', m) + HeldOf(worker', m) <= Recorded(m)'
  BY <1>3, <1>4, <1>5, <1>6, Naturals, NaturalsNext
<1> QED
  BY <1>1, <1>7, WithinNext

\* A worker of QQ searches the ring: the messages raced by then are exempt.
LEMMA CheckedOnce ==
  ASSUME MailOK, MailOK', WorkersOK, OnceInv, NEW w \in Worker, WorkerCheck(w)
  PROVE  OnceInv'
<1> SUFFICES ASSUME NEW m \in Message \ raced PROVE Within(m)'
  BY DEF OnceInv, WorkerCheck
<1>1. UNCHANGED <<platform, inbound, published, seen, forgotten>> /\ platform = "qq"
  BY DEF WorkerCheck
<1>2. PICK at, job : WorkerTo(w, at, job) /\ at \in {"idle", "checked"}
  BY DEF WorkerCheck
<1>3. at \notin Recording
  BY <1>1, <1>2 DEF Recording
<1>4. HeldOf(worker', m) <= HeldOf(worker, m)
  BY <1>2, <1>3, HeldByNone
<1>5. Recorded(m)' = Recorded(m)
  BY <1>1 DEF Recorded
<1>6. published[m] + Queued(inbound, m) + HeldOf(worker, m) <= Recorded(m)
  BY DEF OnceInv, Within
<1>7. published'[m] + Queued(inbound', m) + HeldOf(worker', m) <= Recorded(m)'
  BY <1>1, <1>4, <1>5, <1>6, Naturals, NaturalsNext
<1> QED
  BY <1>1, <1>7, WithinNext

\* Publishing, queueing and taking a message keep the count within the record.
LEMMA OnceStep == MailOK /\ MailOK' /\ TasksOK /\ OnceInv /\ UnseenInv /\ [GatewayNext]_gatewayVars => OnceInv'
<1> SUFFICES ASSUME MailOK /\ MailOK' /\ TasksOK /\ OnceInv /\ UnseenInv, [GatewayNext]_gatewayVars PROVE OnceInv'
  OBVIOUS
<1>1. WorkersOK
  BY DEF TasksOK
<1>2. "idle" \notin Recording
  BY DEF Recording
<1>3. ASSUME NEW m \in Message, worker' = worker PROVE HeldOf(worker', m) <= HeldOf(worker, m)
  BY <1>3, Naturals
<1> USE DEF Starting, DropQueue, MainTo, taskVars, mailVars
<1>10. CASE StartNothing
  <2>1. platform' = platform /\ UNCHANGED <<ringVars, published>>
        /\ (inbound' = inbound \/ inbound' = <<>>) /\ worker' = worker
    BY <1>10 DEF StartNothing
  <2> QED
    BY <1>3, <2>1, OnceKept
<1>11. CASE Start
  <2>1. platform' = platform /\ UNCHANGED <<ringVars, published>> /\ inbound' = inbound
    BY <1>11 DEF Start
  <2>2. worker' = worker \/ \E w \in Worker : WorkerTo(w, "idle", NoMessage)
    BY <1>11 DEF Start, NewWorker
  <2>3. ASSUME NEW m \in Message PROVE HeldOf(worker', m) <= HeldOf(worker, m)
    BY <1>1, <1>2, <2>2, HeldByNone, Naturals
  <2> QED
    BY <2>1, <2>3, OnceKept
<1>12. CASE StartWithoutWorker
  <2>1. platform' = platform /\ UNCHANGED <<ringVars, published>>
        /\ (inbound' = inbound \/ inbound' = <<>>) /\ worker' = worker
    BY <1>12 DEF StartWithoutWorker
  <2> QED
    BY <1>3, <2>1, OnceKept
<1>13. CASE StartWithoutMain
  <2>1. platform' = platform /\ UNCHANGED <<ringVars, published>> /\ inbound' = inbound
    BY <1>13 DEF StartWithoutMain
  <2>2. worker' = worker \/ \E w \in Worker : WorkerTo(w, "idle", NoMessage)
    BY <1>13 DEF StartWithoutMain, NewWorker
  <2>3. ASSUME NEW m \in Message PROVE HeldOf(worker', m) <= HeldOf(worker, m)
    BY <1>1, <1>2, <2>2, HeldByNone, Naturals
  <2> QED
    BY <2>1, <2>3, OnceKept
<1>14. CASE StartUndone
  <2>1. platform' = platform /\ UNCHANGED <<ringVars, published>>
        /\ (inbound' = inbound \/ inbound' = <<>>) /\ worker' = worker
    BY <1>14 DEF StartUndone
  <2> QED
    BY <1>3, <2>1, OnceKept
<1>15. CASE FeishuStart
  <2>1. platform' = platform /\ UNCHANGED <<ringVars, published>> /\ inbound' = inbound
    BY <1>15 DEF FeishuStart
  <2>2. worker' = worker \/ \E w \in Worker : WorkerTo(w, "idle", NoMessage)
    BY <1>15 DEF FeishuStart, NewWorker
  <2>3. ASSUME NEW m \in Message PROVE HeldOf(worker', m) <= HeldOf(worker, m)
    BY <1>1, <1>2, <2>2, HeldByNone, Naturals
  <2> QED
    BY <2>1, <2>3, OnceKept
<1>16. CASE FeishuStartsMain
  <2>1. platform' = platform /\ UNCHANGED <<ringVars, published>>
        /\ (inbound' = inbound \/ inbound' = <<>>) /\ worker' = worker
    BY <1>16 DEF FeishuStartsMain
  <2> QED
    BY <1>3, <2>1, OnceKept
<1>17. CASE FeishuStartFails
  <2>1. platform' = platform /\ UNCHANGED <<ringVars, published>>
        /\ (inbound' = inbound \/ inbound' = <<>>)
        /\ \A x \in Worker : worker'[x] \in {worker[x], NotAlive}
    BY <1>17 DEF FeishuStartFails, WorkersOK
  <2> QED
    BY <1>1, <2>1, HeldFewer, OnceKept
<1>18. CASE StopNothing
  <2>1. platform' = platform /\ UNCHANGED <<ringVars, published>>
        /\ (inbound' = inbound \/ inbound' = <<>>) /\ worker' = worker
    BY <1>18 DEF StopNothing
  <2> QED
    BY <1>3, <2>1, OnceKept
<1>19. CASE StopBegin
  <2>1. platform' = platform /\ UNCHANGED <<ringVars, published>>
        /\ (inbound' = inbound \/ inbound' = <<>>) /\ worker' = worker
    BY <1>19 DEF StopBegin
  <2> QED
    BY <1>3, <2>1, OnceKept
<1>20. CASE StopTimeout
  <2>1. platform' = platform /\ UNCHANGED <<ringVars, published>>
        /\ (inbound' = inbound \/ inbound' = <<>>) /\ worker' = worker
    BY <1>20 DEF StopTimeout
  <2> QED
    BY <1>3, <2>1, OnceKept
<1>21. CASE StopEnd
  <2>1. platform' = platform /\ UNCHANGED <<ringVars, published>>
        /\ (inbound' = inbound \/ inbound' = <<>>) /\ worker' = worker
    BY <1>21 DEF StopEnd
  <2> QED
    BY <1>3, <2>1, OnceKept
<1>22. CASE MainEnd
  <2>1. platform' = platform /\ UNCHANGED <<ringVars, published>>
        /\ (inbound' = inbound \/ inbound' = <<>>) /\ worker' = worker
    BY <1>22 DEF MainEnd
  <2> QED
    BY <1>3, <2>1, OnceKept
<1>23. CASE MainConnect
  <2>1. platform' = platform /\ UNCHANGED <<ringVars, published>>
        /\ (inbound' = inbound \/ inbound' = <<>>) /\ worker' = worker
    BY <1>23 DEF MainConnect
  <2> QED
    BY <1>3, <2>1, OnceKept
<1>24. CASE MainConnected
  <2>1. platform' = platform /\ UNCHANGED <<ringVars, published>>
        /\ (inbound' = inbound \/ inbound' = <<>>) /\ worker' = worker
    BY <1>24 DEF MainConnected
  <2> QED
    BY <1>3, <2>1, OnceKept
<1>25. CASE MainDisconnect
  <2>1. platform' = platform /\ UNCHANGED <<ringVars, published>>
        /\ (inbound' = inbound \/ inbound' = <<>>) /\ worker' = worker
    BY <1>25 DEF MainDisconnect
  <2> QED
    BY <1>3, <2>1, OnceKept
<1>26. CASE MainPoll
  <2>1. platform' = platform /\ UNCHANGED <<ringVars, published>>
        /\ (inbound' = inbound \/ inbound' = <<>>) /\ worker' = worker
    BY <1>26 DEF MainPoll
  <2> QED
    BY <1>3, <2>1, OnceKept
<1>27. CASE HandleUpdate
  <2>1. UNCHANGED <<platform, worker>> /\ platform # "qq"
    BY <1>27 DEF HandleUpdate, TasksOK, PlacesOK
  <2>2. PICK u \in batch :
          UNCHANGED <<ringVars, published, inbound>> \/ (u \notin Notice /\ HandleHere(u))
    BY <1>27 DEF HandleUpdate
  <2>3. CASE UNCHANGED <<ringVars, published, inbound>>
    BY <1>3, <2>1, <2>3, OnceKept
  <2>4. CASE u \notin Notice /\ HandleHere(u)
    <3>1. u \in Message
      BY <2>2, <2>4 DEF MailOK, Update
    <3> QED
      BY <2>1, <2>4, <3>1, HandledOnce
  <2> QED
    BY <2>2, <2>3, <2>4
<1>28. CASE PollEnd
  <2>1. platform' = platform /\ UNCHANGED <<ringVars, published>>
        /\ (inbound' = inbound \/ inbound' = <<>>) /\ worker' = worker
    BY <1>28 DEF PollEnd
  <2> QED
    BY <1>3, <2>1, OnceKept
<1>29. ASSUME NEW m \in Message, Receive(m) PROVE OnceInv'
  <2>1. UNCHANGED <<platform, worker>>
    BY <1>29 DEF Receive
  <2>2. CASE platform = "qq" /\ UNCHANGED <<ringVars, published>>
    BY <2>1, <2>2, FrameQueued
  <2>3. CASE platform = "feishu" /\ HandleHere(m)
    BY <2>1, <2>3, HandledOnce
  <2> QED
    BY <1>29, <2>2, <2>3 DEF Receive
<1>30. ASSUME NEW w \in Worker, WorkerTake(w) PROVE OnceInv'
  BY <1>30, <1>1, TakenOnce
<1>31. ASSUME NEW w \in Worker, WorkerCheck(w) PROVE OnceInv'
  BY <1>31, <1>1, CheckedOnce
<1>32. ASSUME NEW w \in Worker, WorkerWrite(w) PROVE OnceInv'
  BY <1>32, <1>1, WrittenOnce
<1>33. ASSUME NEW w \in Worker, WorkerAdvance(w) PROVE OnceInv'
  BY <1>33, <1>1, AdvancedOnce
<1>34. ASSUME NEW w \in Worker, WorkerDone(w) PROVE OnceInv'
  BY <1>34, <1>1, DoneOnce
<1>35. ASSUME NEW w \in Worker, WorkerLook(w) PROVE OnceInv'
  <2>1. PICK at \in {"idle", "looked", "leaving"} : WorkerTo(w, at, NoMessage)
    BY <1>35 DEF WorkerLook
  <2>2. at \notin Recording
    BY DEF Recording
  <2>3. platform' = platform /\ UNCHANGED <<ringVars, published, inbound>>
    BY <1>35 DEF WorkerLook
  <2>4. ASSUME NEW m \in Message PROVE HeldOf(worker', m) <= HeldOf(worker, m)
    BY <1>1, <2>1, <2>2, HeldByNone
  <2> QED
    BY <2>3, <2>4, OnceKept
<1>36. ASSUME NEW w \in Worker, WorkerLeave(w) PROVE OnceInv'
  <2>1. PICK at \in {"idle", "looked", "leaving"} : WorkerTo(w, at, NoMessage)
    BY <1>36 DEF WorkerLeave
  <2>2. at \notin Recording
    BY DEF Recording
  <2>3. platform' = platform /\ UNCHANGED <<ringVars, published, inbound>>
    BY <1>36 DEF WorkerLeave
  <2>4. ASSUME NEW m \in Message PROVE HeldOf(worker', m) <= HeldOf(worker, m)
    BY <1>1, <2>1, <2>2, HeldByNone
  <2> QED
    BY <2>3, <2>4, OnceKept
<1>37. ASSUME NEW w \in Worker, WorkerGone(w) PROVE OnceInv'
  <2>1. platform' = platform /\ UNCHANGED <<ringVars, published>>
        /\ (inbound' = inbound \/ inbound' = <<>>)
        /\ \A x \in Worker : worker'[x] \in {worker[x], NotAlive}
    BY <1>37 DEF WorkerGone, WorkersOK
  <2> QED
    BY <1>1, <2>1, HeldFewer, OnceKept
<1>38. CASE UNCHANGED gatewayVars
  <2>1. platform' = platform /\ UNCHANGED <<ringVars, published>>
        /\ (inbound' = inbound \/ inbound' = <<>>) /\ worker' = worker
    BY <1>38 DEF gatewayVars
  <2> QED
    BY <1>3, <2>1, OnceKept
<1> QED
  BY <1>10, <1>11, <1>12, <1>13, <1>14, <1>15, <1>16, <1>17, <1>18, <1>19, <1>20, <1>21,
     <1>22, <1>23, <1>24, <1>25, <1>26, <1>27, <1>28, <1>29, <1>30, <1>31, <1>32, <1>33,
     <1>34, <1>35, <1>36, <1>37, <1>38
  DEF GatewayNext, MainTask, WorkerStep

\* Where no worker of QQ comes to hold a message it found unseen, and the ring
\* is as it was.
LEMMA UnseenKept ==
  ASSUME UnseenInv, seen' = seen, raced \subseteq raced',
         \A w \in Worker : worker'[w].at = "checked" => worker'[w] = worker[w]
  PROVE  UnseenInv'
BY DEF UnseenInv, Checking

\* The same, where one worker moves.
LEMMA UnseenMoved ==
  ASSUME WorkersOK, UnseenInv, seen' = seen, raced \subseteq raced', NEW w \in Worker,
         NEW at, NEW job, WorkerTo(w, at, job), at # "checked"
  PROVE  UnseenInv'
<1>1. worker'[w].at = at /\ \A x \in Worker \ {w} : worker'[x] = worker[x]
  BY DEF WorkersOK, WorkerTo
<1> QED
  BY <1>1, UnseenKept

\* Where nobody handles a frame of QQ.
LEMMA UnseenElsewhere == ASSUME WorkersOK', platform' # "qq" PROVE UnseenInv'
BY DEF UnseenInv, Checking, WorkersOK, Handling

LEMMA UnseenChecked ==
  ASSUME WorkersOK, UnseenInv, NEW w \in Worker, WorkerCheck(w)
  PROVE  UnseenInv'
<1> DEFINE job == worker[w].job
<1>1. seen' = seen /\ raced \subseteq raced' /\ worker[w].at = "busy"
  BY DEF WorkerCheck
<1>2. CASE Duplicate(job)
  BY <1>1, <1>2, UnseenMoved DEF WorkerCheck
<1>3. CASE ~ Duplicate(job)
  <2>1. /\ worker'[w] = [at |-> "checked", job |-> job]
        /\ \A x \in Worker \ {w} : worker'[x] = worker[x]
        /\ worker' \in [Worker -> [at : WorkerPlaces, job : Message \cup {NoMessage}]]
    BY <1>3 DEF WorkerCheck, WorkerTo, WorkersOK, WorkerState, WorkerPlaces
  <2>2. job \notin raced' => \A x \in Worker : ~ Checking(x, job)
    <3> SUFFICES ASSUME NEW x \in Worker, Checking(x, job) PROVE job \in raced'
      OBVIOUS
    <3>1. worker[x] = [at |-> "checked", job |-> job]
      BY DEF Checking, WorkersOK, WorkerState
    <3> QED
      BY <1>3, <3>1 DEF WorkerCheck
  <2>3. job \notin Range(seen')
    BY <1>1, <1>3 DEF Duplicate
  <2> SUFFICES ASSUME NEW m \in Message \ raced', NEW x \in Worker, Checking(x, m)'
               PROVE  m \notin Range(seen') /\ \A y \in Worker \ {x} : ~ Checking(y, m)'
    BY DEF UnseenInv
  <2>4. CASE m = job
    BY <2>1, <2>2, <2>3, <2>4 DEF Checking
  <2>5. CASE m # job
    <3>1. \A y \in Worker : Checking(y, m)' => y # w /\ Checking(y, m)
      BY <2>1, <2>5 DEF Checking
    <3> QED
      BY <1>1, <3>1 DEF UnseenInv
  <2> QED
    BY <2>4, <2>5
<1> QED
  BY <1>2, <1>3

LEMMA UnseenWritten ==
  ASSUME WorkersOK, MailOK, UnseenInv, NEW w \in Worker, WorkerWrite(w)
  PROVE  UnseenInv'
<1> DEFINE job == worker[w].job
<1>1. /\ worker[w].at = "checked" /\ job \in Message
      /\ WorkerTo(w, "written", job) /\ WriteKey(job) /\ raced' = raced
  BY DEF WorkerWrite, WorkersOK, Handling
<1>2. worker'[w].at = "written" /\ \A x \in Worker \ {w} : worker'[x] = worker[x]
  BY <1>1 DEF WorkersOK, WorkerTo
<1> SUFFICES ASSUME NEW m \in Message \ raced, NEW x \in Worker, Checking(x, m)'
             PROVE  m \notin Range(seen') /\ \A y \in Worker \ {x} : ~ Checking(y, m)'
  BY <1>1 DEF UnseenInv
<1>3. \A y \in Worker : Checking(y, m)' => y # w /\ Checking(y, m)
  BY <1>2 DEF Checking
<1>4. m # job
  BY <1>1, <1>3 DEF UnseenInv, Checking
<1>5. Range(seen') \subseteq Range(seen) \cup {job}
  BY <1>1, WriteKeyRange DEF MailOK
<1> QED
  BY <1>3, <1>4, <1>5 DEF UnseenInv

\* What a worker found unseen stays unseen until it writes it.
LEMMA UnseenStep == TasksOK /\ WorkersOK' /\ MailOK /\ UnseenInv /\ [GatewayNext]_gatewayVars => UnseenInv'
<1> SUFFICES ASSUME TasksOK /\ WorkersOK' /\ MailOK /\ UnseenInv, [GatewayNext]_gatewayVars PROVE UnseenInv'
  OBVIOUS
<1>1. WorkersOK /\ WorkersOK'
  BY DEF TasksOK
<1> USE DEF Starting, MainTo, taskVars, mailVars, ringVars
<1>10. CASE StartNothing
  BY <1>10, UnseenKept DEF StartNothing
<1>11. CASE Start
  <2>1. worker' = worker \/ \E w \in Worker : WorkerTo(w, "idle", NoMessage)
    BY <1>11 DEF Start, NewWorker
  <2>2. seen' = seen /\ raced' = raced
    BY <1>11 DEF Start
  <2> QED
    BY <1>1, <2>1, <2>2, UnseenKept, UnseenMoved
<1>12. CASE StartWithoutWorker
  BY <1>12, UnseenKept DEF StartWithoutWorker
<1>13. CASE StartWithoutMain
  <2>1. worker' = worker \/ \E w \in Worker : WorkerTo(w, "idle", NoMessage)
    BY <1>13 DEF StartWithoutMain, NewWorker
  <2>2. seen' = seen /\ raced' = raced
    BY <1>13 DEF StartWithoutMain
  <2> QED
    BY <1>1, <2>1, <2>2, UnseenKept, UnseenMoved
<1>14. CASE StartUndone
  BY <1>14, UnseenKept DEF StartUndone
<1>15. CASE FeishuStart
  <2>1. worker' = worker \/ \E w \in Worker : WorkerTo(w, "idle", NoMessage)
    BY <1>15 DEF FeishuStart, NewWorker
  <2>2. seen' = seen /\ raced' = raced
    BY <1>15 DEF FeishuStart
  <2> QED
    BY <1>1, <2>1, <2>2, UnseenKept, UnseenMoved
<1>16. CASE FeishuStartsMain
  BY <1>16, UnseenKept DEF FeishuStartsMain
<1>17. CASE FeishuStartFails
  <2>1. platform' # "qq"
    BY <1>17 DEF FeishuStartFails, TasksOK, PlacesOK
  <2> QED
    BY <1>1, <2>1, UnseenElsewhere
<1>18. CASE StopNothing
  BY <1>18, UnseenKept DEF StopNothing
<1>19. CASE StopBegin
  BY <1>19, UnseenKept DEF StopBegin
<1>20. CASE StopTimeout
  BY <1>20, UnseenKept DEF StopTimeout
<1>21. CASE StopEnd
  BY <1>21, UnseenKept DEF StopEnd
<1>22. CASE MainEnd
  BY <1>22, UnseenKept DEF MainEnd
<1>23. CASE MainConnect
  BY <1>23, UnseenKept DEF MainConnect
<1>24. CASE MainConnected
  BY <1>24, UnseenKept DEF MainConnected
<1>25. CASE MainDisconnect
  BY <1>25, UnseenKept DEF MainDisconnect
<1>26. CASE MainPoll
  BY <1>26, UnseenKept DEF MainPoll
<1>27. CASE HandleUpdate
  <2>1. platform' # "qq"
    BY <1>27 DEF HandleUpdate, TasksOK, PlacesOK
  <2> QED
    BY <1>1, <2>1, UnseenElsewhere
<1>28. CASE PollEnd
  BY <1>28, UnseenKept DEF PollEnd
<1>29. ASSUME NEW m \in Message, Receive(m) PROVE UnseenInv'
  <2>1. CASE platform' # "qq"
    BY <1>1, <2>1, UnseenElsewhere
  <2>2. CASE platform' = "qq"
    BY <1>29, <2>2, UnseenKept DEF Receive
  <2> QED
    BY <2>1, <2>2
<1>30. ASSUME NEW w \in Worker, WorkerTake(w) PROVE UnseenInv'
  BY <1>30, <1>1, UnseenMoved DEF WorkerTake
<1>31. ASSUME NEW w \in Worker, WorkerCheck(w) PROVE UnseenInv'
  BY <1>31, <1>1, UnseenChecked
<1>32. ASSUME NEW w \in Worker, WorkerWrite(w) PROVE UnseenInv'
  BY <1>32, <1>1, UnseenWritten
<1>33. ASSUME NEW w \in Worker, WorkerAdvance(w) PROVE UnseenInv'
  BY <1>33, <1>1, UnseenMoved DEF WorkerAdvance
<1>34. ASSUME NEW w \in Worker, WorkerDone(w) PROVE UnseenInv'
  BY <1>34, <1>1, UnseenMoved DEF WorkerDone
<1>35. ASSUME NEW w \in Worker, WorkerLook(w) PROVE UnseenInv'
  BY <1>35, <1>1, UnseenMoved DEF WorkerLook
<1>36. ASSUME NEW w \in Worker, WorkerLeave(w) PROVE UnseenInv'
  <2>1. PICK at \in {"idle", "leaving"} : WorkerTo(w, at, NoMessage)
    BY <1>36 DEF WorkerLeave
  <2> QED
    BY <1>36, <1>1, <2>1, UnseenMoved DEF WorkerLeave
<1>37. ASSUME NEW w \in Worker, WorkerGone(w) PROVE UnseenInv'
  <2>1. \A x \in Worker : worker'[x].at = "checked" => worker'[x] = worker[x]
    BY <1>37, <1>1 DEF WorkerGone, WorkersOK, NotAlive
  <2> QED
    BY <1>37, <2>1, UnseenKept DEF WorkerGone
<1>38. CASE UNCHANGED gatewayVars
  BY <1>38, UnseenKept DEF gatewayVars
<1> QED
  BY <1>10, <1>11, <1>12, <1>13, <1>14, <1>15, <1>16, <1>17, <1>18, <1>19, <1>20, <1>21,
     <1>22, <1>23, <1>24, <1>25, <1>26, <1>27, <1>28, <1>29, <1>30, <1>31, <1>32, <1>33,
     <1>34, <1>35, <1>36, <1>37, <1>38
  DEF GatewayNext, MainTask, WorkerStep

LEMMA GatewayInitInv == GatewayInit => GatewayInv
<1> SUFFICES ASSUME GatewayInit PROVE GatewayInv
  OBVIOUS
<1>1. TasksOK /\ FlagsOK
  BY DEF GatewayInit, TasksOK, WorkersOK, WorkerState, WorkerPlaces, Handling, PlacesOK,
         FlagsOK, NotAlive
<1>2. MailOK
  <2>1. QueueOK
    BY RecentPositive DEF GatewayInit, QueueOK
  <2>2. RingOK
    BY RecentPositive DEF GatewayInit, RingOK
  <2> QED
    BY <2>1, <2>2 DEF GatewayInit, MailOK
<1>3. OwnerInv
  BY NoWorkerIsNone DEF GatewayInit, OwnerInv, Owned, Bound, QueueOutlivesWorker, NotAlive
<1>4. LateOnly
  BY RangeOfEmpty DEF GatewayInit, LateOnly
<1>5. OnceInv
  <2> SUFFICES ASSUME NEW m \in Message PROVE Within(m)
    BY DEF OnceInv
  <2>1. inbound = <<>> /\ published[m] = 0
    BY DEF GatewayInit
  <2>2. Queued(inbound, m) = 0
    BY <2>1, CopiesEmpty DEF CopiesOf, Queued
  <2>3. Held(worker, m) = {}
    BY DEF Held, GatewayInit, NotAlive, Recording
  <2>4. HeldOf(worker, m) = 0
    BY <2>3, FS_EmptySet DEF HeldOf
  <2>5. Recorded(m) \in Nat
    BY <1>2, Naturals
  <2> QED
    BY <2>1, <2>2, <2>4, <2>5 DEF Within
<1>6. UnseenInv
  BY DEF GatewayInit, UnseenInv, Checking, NotAlive
<1> QED
  BY <1>1, <1>2, <1>3, <1>4, <1>5, <1>6 DEF GatewayInv

LEMMA GatewayStep == GatewayInv /\ [GatewayNext]_gatewayVars => GatewayInv'
<1> SUFFICES ASSUME GatewayInv, [GatewayNext]_gatewayVars PROVE GatewayInv'
  OBVIOUS
<1> USE DEF GatewayInv
<1>1. TasksOK'
  BY WorkersStep, PlacesStep DEF TasksOK
<1>2. FlagsOK'
  BY FlagsStep
<1>3. MailOK'
  BY MailStep DEF TasksOK
<1>4. OwnerInv'
  BY OwnerStep
<1>5. LateOnly'
  BY LateOnlyStep
<1>6. OnceInv'
  BY <1>3, OnceStep
<1>7. UnseenInv'
  BY <1>1, UnseenStep DEF TasksOK
<1> QED
  BY <1>1, <1>2, <1>3, <1>4, <1>5, <1>6, <1>7

LEMMA GatewayKeeps == GatewaySpec => []GatewayInv
BY GatewayInitInv, GatewayStep, PTL DEF GatewaySpec

\* Every reachable state of a gateway is well typed.
THEOREM GatewayTypeCorrect == GatewaySpec => []GatewayTypeOK
<1>1. GatewayInv => GatewayTypeOK
  BY DEF GatewayInv, TasksOK, WorkersOK, WorkerState, PlacesOK, FlagsOK, MailOK, RingOK,
         QueueOK, GatewayTypeOK
<1> QED
  BY <1>1, GatewayKeeps, PTL

\* The queue is deleted only when no worker can come back to it, for any number
\* of workers and of starts and stops and any deadline that was missed, as long
\* as the last start of Telegram or QQ found no old worker alive
\* (cap_im_tg_gateway_stop, cap_im_qq_gateway_stop, cap_im_feishu_stop).
THEOREM QueueStaysUp == GatewaySpec => []QueueOutlivesWorker
<1>1. GatewayInv => QueueOutlivesWorker
  BY DEF GatewayInv, OwnerInv
<1> QED
  BY <1>1, GatewayKeeps, PTL

\* A message is published at most once more than the ring of recent ids has
\* forgotten it, for any size of the ring, any number of workers that use it at
\* the same time and any repetition of messages, unless two workers of QQ found
\* it unseen at the same time (cap_im_qq_dedup_check_and_record).
THEOREM PublishedOnceEach == GatewaySpec => []PublishedOnce
<1>1. GatewayInv => PublishedOnce
  <2> SUFFICES ASSUME GatewayInv, NEW m \in Message \ raced
               PROVE  published[m] <= 1 + forgotten[m]
    BY DEF PublishedOnce
  <2>1. /\ published[m] \in Nat /\ forgotten[m] \in Nat /\ Recorded(m) \in Nat
        /\ Queued(inbound, m) \in Nat /\ HeldOf(worker, m) \in Nat
    BY Naturals DEF GatewayInv
  <2>2. published[m] + Queued(inbound, m) + HeldOf(worker, m) <= Recorded(m)
    BY DEF GatewayInv, OnceInv, Within
  <2> QED
    BY <2>1, <2>2 DEF Recorded
<1> QED
  BY <1>1, GatewayKeeps, PTL

LEMMA NobodyLeft ==
  ASSUME LateOnly, NEW m \in Range(inbound), \A w \in Worker : worker[w] = NotAlive
  PROVE  m \in tooLate
BY DEF LateOnly, Unattended, NotAlive

\* What waits in the queue leaves it in the hands of a worker, unless it came
\* when no worker was going to look again, the last start of Telegram or QQ
\* found an old worker alive, or a start of Feishu fails to create its main task.
THEOREM StopIsLossless == GatewaySpec => StopLosesNothing
<1> DEFINE Safe == \A m \in Range(inbound) \ Range(inbound') :
                     \/ \E w \in Worker : worker'[w] = [at |-> "busy", job |-> m]
                     \/ m \in tooLate \/ overlapped' \/ gwAdmin = "start"
<1>1. GatewayInv /\ [GatewayNext]_gatewayVars => Safe
  <2> SUFFICES ASSUME GatewayInv, [GatewayNext]_gatewayVars,
                      NEW m \in Range(inbound) \ Range(inbound'),
                      ~ overlapped', gwAdmin # "start"
               PROVE  (\E w \in Worker : worker'[w] = [at |-> "busy", job |-> m]) \/ m \in tooLate
    OBVIOUS
  <2>1. TasksOK /\ Owned /\ LateOnly
    BY DEF GatewayInv, OwnerInv
  <2>2. inbound' # inbound
    OBVIOUS
  <2>3. CASE StartWithoutWorker
    <3>1. \A w \in Worker : worker[w] = NotAlive
      BY <2>1, <2>3, NobodyAlive DEF StartWithoutWorker
    <3> QED
      BY <2>1, <3>1, NobodyLeft
  <2>4. CASE StartUndone \/ StopEnd
    <3>1. handle = NoWorker /\ ~ overlapped /\ gwAdmin # "idle"
      BY <2>4 DEF StartUndone, StopEnd, StopDone
    <3>2. \A w \in Worker : worker[w] = NotAlive
      BY <2>1, <3>1, NoWorkerIsNone DEF Owned, Bound
    <3> QED
      BY <2>1, <3>1, <3>2, NobodyLeft
  <2>5. ASSUME NEW w \in Worker, WorkerTake(w)
        PROVE  (\E other \in Worker : worker'[other] = [at |-> "busy", job |-> m]) \/ m \in tooLate
    <3>1. inbound \in Seq(Message) /\ inbound # <<>> /\ inbound' = Tail(inbound)
          /\ WorkerTo(w, "busy", Head(inbound))
      BY <2>5 DEF WorkerTake, GatewayInv, MailOK, QueueOK
    <3>2. m = Head(inbound)
      BY <3>1, HeadTailRange
    <3> QED
      BY <2>1, <3>1, <3>2 DEF WorkerTo, TasksOK, WorkersOK
  <2>6. ASSUME NEW new \in Message, Enqueue(new) PROVE m \in Range(inbound')
    BY <2>6, RangeOfAppend DEF Enqueue, GatewayInv, MailOK, QueueOK
  <2>7. ASSUME NEW new \in Message, HandleHere(new) PROVE m \in Range(inbound')
    BY <2>6, <2>7 DEF HandleHere
  <2>8. CASE HandleUpdate
    <3>1. PICK u \in batch : inbound' = inbound \/ (u \notin Notice /\ HandleHere(u))
      BY <2>8 DEF HandleUpdate
    <3>2. u \notin Notice => u \in Message
      BY <3>1 DEF GatewayInv, MailOK, Update
    <3> QED
      BY <2>2, <2>7, <3>1, <3>2
  <2>9. CASE \E new \in Message : Receive(new)
    BY <2>6, <2>7, <2>9 DEF Receive
  <2>10. CASE FeishuStartFails
    BY <2>10 DEF FeishuStartFails
  <2> QED
    BY <2>2, <2>3, <2>4, <2>5, <2>8, <2>9, <2>10
    DEF GatewayNext, MainTask, WorkerStep, gatewayVars, mailVars, taskVars, Starting, MainTo,
        StartNothing, Start, StartWithoutMain, FeishuStart, FeishuStartsMain, StopNothing,
        StopBegin, StopTimeout, MainEnd, MainConnect, MainConnected, MainDisconnect, MainPoll,
        PollEnd, WorkerCheck, WorkerWrite, WorkerAdvance, WorkerDone, WorkerLook,
        WorkerLeave, WorkerGone
<1> QED
  BY <1>1, GatewayKeeps, PTL DEF StopLosesNothing, GatewaySpec
-----------------------------------------------------------------------------
(* ServoMotion.  The tasks that play sequences outlive their handle and may   *)
(* be many; what breathes is one task, because the manager that makes it is  *)
(* the only one to stop it and does not count down before it is gone.        *)

\* The task that is awaited is one that was read.
AwaitsATask == \A p \in Stopper : servoAt[p] = "await" => sees[p] \in MotionTask

\* The servos breathe only while the idle manager waits to be told of activity,
\* or is stopping them.
OneBreath == breath # "gone" => servoAt["manager"] \in {"block", "readBreath", "awaitBreath"}

ServoInv == ServoTypeOK /\ AwaitsATask /\ OneBreath

LEMMA CrashTypes == ASSUME Crash PROVE ServoInv'
BY DEF Crash, Started, ServoInv, ServoTypeOK, AwaitsATask, OneBreath, Stopper

LEMMA StopMotionTypes ==
  ASSUME ServoInv, NEW p \in Stopper, StopMotion(p)
  PROVE  ServoInv'
<1> USE DEF ServoInv, ServoTypeOK, AwaitsATask, OneBreath, Stopper, ServoTo
<1>1. CASE SignalMotion(p)
  <2>1. servoAt' = [servoAt EXCEPT ![p] = servoAt'[p]]
        /\ servoAt'[p] \in {"turn", "create", "read"} /\ servoAt[p] = "signal"
    BY <1>1 DEF SignalMotion, AfterStopMotion
  <2>2. UNCHANGED <<tool, sees, notified, idleEnabled, motionTask, sequence, breath>>
        /\ stopFlag' \in BOOLEAN /\ runFlag' \in BOOLEAN
    BY <1>1 DEF SignalMotion, PlayerReset, PlayerStop
  <2>3. ServoTypeOK'
    BY <2>1, <2>2
  <2>4. AwaitsATask'
    BY <2>1, <2>2
  <2>5. OneBreath'
    BY <2>1, <2>2
  <2> QED
    BY <2>3, <2>4, <2>5
<1>2. CASE ReadMotion(p)
  BY <1>2, CrashTypes DEF ReadMotion, moverVars, flagVars
<1>3. CASE DeleteMotion(p)
  BY <1>3, CrashTypes DEF DeleteMotion, flagVars
<1>4. CASE ClearMotion(p)
  BY <1>4 DEF ClearMotion, PlayerReset, AfterStopMotion
<1> QED
  BY <1>1, <1>2, <1>3, <1>4 DEF StopMotion

LEMMA AgentTypes ==
  ASSUME ServoInv,
         \/ Activity \/ ResponseComplete \/ SetIdleMotion
         \/ \E name \in {"turn", "play"} : CallTool(name)
         \/ TurnServo \/ CreateMotion
  PROVE  ServoInv'
<1> USE DEF ServoInv, ServoTypeOK, AwaitsATask, OneBreath, Stopper, ServoTo
<1>1. CASE Activity
  BY <1>1 DEF Activity, moverVars, flagVars
<1>2. CASE ResponseComplete
  BY <1>2 DEF ResponseComplete, moverVars, flagVars
<1>3. CASE SetIdleMotion
  BY <1>3 DEF SetIdleMotion, moverVars, flagVars
<1>4. CASE \E name \in {"turn", "play"} : CallTool(name)
  BY <1>4 DEF CallTool, moverVars, flagVars
<1>5. CASE TurnServo
  BY <1>5 DEF TurnServo, moverVars, flagVars
<1>6. CASE CreateMotion
  BY <1>6 DEF CreateMotion, flagVars
<1> QED
  BY <1>1, <1>2, <1>3, <1>4, <1>5, <1>6

LEMMA ManagerTypes ==
  ASSUME ServoInv, IdleManager
  PROVE  ServoInv'
<1> USE DEF ServoInv, ServoTypeOK, AwaitsATask, OneBreath, Stopper, ServoTo
<1>1. CASE CountAgain
  BY <1>1 DEF CountAgain, moverVars, flagVars
<1>2. CASE CountedDown
  BY <1>2 DEF CountedDown, moverVars, flagVars
<1>3. CASE CreateBreath
  BY <1>3 DEF CreateBreath, flagVars
<1>4. CASE Wake
  BY <1>4 DEF Wake, flagVars, PlayerStop
<1>5. CASE ReadBreath
  BY <1>5, CrashTypes DEF ReadBreath, moverVars, flagVars
<1>6. CASE DeleteBreath
  BY <1>6, CrashTypes DEF DeleteBreath, flagVars
<1>7. CASE ClearBreath
  BY <1>7 DEF ClearBreath, PlayerReset
<1>8. CASE StopMotion("manager")
  BY <1>8, StopMotionTypes
<1> QED
  BY <1>1, <1>2, <1>3, <1>4, <1>5, <1>6, <1>7, <1>8 DEF IdleManager

LEMMA MotionTypes ==
  ASSUME ServoInv, BreathStep \/ \E s \in MotionTask : SequenceStep(s)
  PROVE  ServoInv'
<1> USE DEF ServoInv, ServoTypeOK, AwaitsATask, OneBreath, Stopper
<1>1. CASE BreathStep
  BY <1>1 DEF BreathStep
<1>2. CASE \E s \in MotionTask : SequenceStep(s)
  BY <1>2 DEF SequenceStep
<1> QED
  BY <1>1, <1>2

LEMMA ServoStarts == ServoInit => ServoInv
BY DEF ServoInit, Started, ServoInv, ServoTypeOK, AwaitsATask, OneBreath, Stopper

LEMMA ServoStep == ServoInv /\ [ServoNext]_servoVars => ServoInv'
<1> SUFFICES ASSUME ServoInv, [ServoNext]_servoVars PROVE ServoInv'
  OBVIOUS
<1>1. CASE StopMotion("agent")
  BY <1>1, StopMotionTypes DEF Stopper
<1>2. CASE UNCHANGED servoVars
  BY <1>2 DEF servoVars, moverVars, flagVars, ServoInv, ServoTypeOK, AwaitsATask, OneBreath
<1> QED
  BY <1>1, <1>2, AgentTypes, ManagerTypes, MotionTypes DEF ServoNext

\* Tools and idle manager never leave a handle, a flag or a task of the servos in
\* a state the code does not know (cap_servo.c).
THEOREM ServoTypeCorrect == ServoSpec => []ServoTypeOK
<1>1. ServoInv => ServoTypeOK
  BY DEF ServoInv
<1> QED
  BY <1>1, ServoStarts, ServoStep, PTL DEF ServoSpec

\* The idle manager never counts down, and so never makes a breathing task, while
\* another one exists: its one handle is enough, whatever the tools of the agent
\* do to the flags in between (idle_motion_start and idle_motion_stop).
THEOREM BreathsOneAtATime == ServoSpec => []OneBreath
<1>1. ServoInv => OneBreath
  BY DEF ServoInv
<1> QED
  BY <1>1, ServoStarts, ServoStep, PTL DEF ServoSpec
=============================================================================
