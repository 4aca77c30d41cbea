----------------------------- MODULE SpeechOut -----------------------------
(***************************************************************************)
(* Speech of cap_voice.c: a text goes to a server over the websocket of    *)
(* voice_ws_common.c, which answers with Opus frames and tts_end; the      *)
(* frames pass a queue, the task voice_process_task, a ring buffer and the *)
(* task playback_task on their way to the codec.                           *)
(*                                                                         *)
(* Texts for the voice channel are queued and spoken by one task, the      *)
(* latest only; the tool get_tts speaks in the task that calls it.         *)
(* Nothing keeps the two apart: they share the completion semaphore, the   *)
(* flags and the pipeline.                                                 *)
(*                                                                         *)
(* Left out: what texts say and how they are cleaned, except that nothing  *)
(* may be left of one; decoding and resampling; the creation of the two    *)
(* tasks at the first speech.  The ring counts frames; -1 is what its      *)
(* unsigned count becomes below 0.                                         *)
(***************************************************************************)
EXTENDS Integers, SequencesExt

CONSTANTS
  Tool,        \* tasks that call get_tts
  Async,       \* tts_playback_task
  RequestLen,  \* TTS_REQUEST_QUEUE_LEN
  FrameLen,    \* OPUS_FRAME_QUEUE_LEN
  RingSize,    \* frames that fit in the ring buffer
  MaxFrames,   \* bound on the frames of an answer
  MaxTexts     \* bound on the texts

ASSUME SpeechAssumption ==
  /\ Async \notin Tool
  /\ {RequestLen, FrameLen, RingSize} \subseteq Nat \ {0}
  /\ {MaxFrames, MaxTexts} \subseteq Nat

Speaker == Tool \cup {Async}

VARIABLES
  requests,   \* s_tts_request_queue: the texts, numbered
  texts,      \* how many texts there have been
  speaker,    \* where do_tts is in each task, "out" when it does not run
  online,     \* s_ws_connected
  answer,     \* frames the server still has to send; -1 when it is silent
  token,      \* s_tts_done_sem
  ttsActive, ttsError,
  playing,    \* s_playback_running
  codec,      \* s_codec_dev is set
  frames,     \* length of s_opus_frame_queue
  decoder,    \* voice_process_task: has a frame to decode, or to push
  ring,       \* s_playback_available
  writing,    \* playback_task is in esp_codec_dev_write
  pending,    \* history: frames accepted and not played since the last start
  disturbed   \* history: something went wrong, or two spoke at once

callVars == <<requests, texts, speaker>>
wsVars == <<online, answer, token, ttsActive, ttsError>>
audioVars == <<playing, codec, frames, decoder, ring, writing>>
speechVars == <<callVars, wsVars, audioVars, pending, disturbed>>

SpeechInit ==
  /\ requests = <<>> /\ texts = 0
  /\ speaker = [s \in Speaker |-> "out"]
  /\ online = FALSE /\ answer = -1
  /\ token = FALSE /\ ttsActive = FALSE /\ ttsError = FALSE
  /\ playing = FALSE /\ codec = FALSE
  /\ frames = 0 /\ decoder = "idle" /\ ring = 0 /\ writing = FALSE
  /\ pending = 0 /\ disturbed = FALSE

SpeakerTo(s, at) == speaker' = [speaker EXCEPT ![s] = at]
Disturb(bad) == disturbed' = (disturbed \/ bad)
Count(n) == pending' = IF disturbed THEN 0 ELSE pending + n

-----------------------------------------------------------------------------
(* Requests. *)

\* voice_send_message never waits: it drops the oldest until the new one fits.
SendMessage ==
  /\ texts < MaxTexts /\ texts' = texts + 1
  /\ requests' = Append(IF Len(requests) = RequestLen THEN Tail(requests) ELSE requests,
                        texts')
  /\ UNCHANGED <<speaker, wsVars, audioVars, pending, disturbed>>

\* Everything that waits is taken and the latest is spoken.
TakeLatest ==
  /\ speaker[Async] = "out" /\ requests # <<>>
  /\ requests' = <<>>
  /\ SpeakerTo(Async, "connect")
  /\ Disturb(\E s \in Tool : speaker[s] # "out")
  /\ UNCHANGED <<texts, wsVars, audioVars, pending>>

GetTts(s) ==
  /\ speaker[s] = "out" /\ texts < MaxTexts
  /\ texts' = texts + 1
  /\ SpeakerTo(s, "connect")
  /\ Disturb(\E t \in Speaker : speaker[t] # "out")
  /\ UNCHANGED <<requests, wsVars, audioVars, pending>>

-----------------------------------------------------------------------------
(* do_tts. *)

Connect(s) ==
  /\ speaker[s] = "connect"
  /\ \/ SpeakerTo(s, "open") /\ online' = TRUE
     \/ ~ online /\ SpeakerTo(s, "out") /\ UNCHANGED online
  /\ UNCHANGED <<requests, texts, answer, token, ttsActive, ttsError, audioVars,
                 pending, disturbed>>

\* The codec is closed and opened again.
OpenFails(s) ==
  /\ speaker[s] = "open"
  /\ SpeakerTo(s, "out")
  /\ codec' = FALSE
  /\ UNCHANGED <<requests, texts, wsVars, playing, frames, decoder, ring, writing,
                 pending, disturbed>>

\* Nothing is left of the text, or there is no buffer for the playback: do_tts
\* returns with the codec open.
OpenInVain(s) ==
  /\ speaker[s] = "open"
  /\ SpeakerTo(s, "out")
  /\ codec' = TRUE
  /\ UNCHANGED <<requests, texts, wsVars, playing, frames, decoder, ring, writing,
                 pending, disturbed>>

Open(s) ==
  /\ speaker[s] = "open"
  /\ SpeakerTo(s, "arm")
  /\ codec' = TRUE /\ playing' = TRUE /\ ring' = 0
  /\ UNCHANGED <<requests, texts, wsVars, frames, decoder, writing, pending, disturbed>>

Arm(s) ==
  /\ speaker[s] = "arm"
  /\ SpeakerTo(s, "send")
  /\ ttsActive' = TRUE /\ ttsError' = FALSE
  /\ pending' = 0
  /\ UNCHANGED <<requests, texts, online, answer, token, audioVars, disturbed>>

\* A failed send gives up at once; a completion given meanwhile stays.
Send(s) ==
  /\ speaker[s] = "send"
  /\ \/ /\ online /\ SpeakerTo(s, "wait")
        /\ answer' \in 0..MaxFrames
        /\ UNCHANGED <<ttsActive, disturbed>>
     \/ /\ SpeakerTo(s, "stop") /\ ttsActive' = FALSE
        /\ Disturb(TRUE) /\ UNCHANGED answer
  /\ UNCHANGED <<requests, texts, online, token, ttsError, audioVars, pending>>

Completed(s) ==
  /\ speaker[s] = "wait" /\ token
  /\ token' = FALSE
  /\ SpeakerTo(s, IF ttsError THEN "stop" ELSE "drainQueue")
  /\ UNCHANGED <<requests, texts, online, answer, ttsActive, ttsError, audioVars,
                 pending, disturbed>>

\* 120 s without tts_end.
TimesOut(s) ==
  /\ speaker[s] = "wait" /\ ~ token
  /\ SpeakerTo(s, "stop")
  /\ ttsActive' = FALSE
  /\ Disturb(TRUE)
  /\ UNCHANGED <<requests, texts, online, answer, token, ttsError, audioVars, pending>>

\* voice_cleanup(true) lets the pipeline drain in order: the queue of frames,
\* then 100 ms for the frame that is decoded, then the ring; ten seconds each.
DrainQueue(s) ==
  /\ speaker[s] = "drainQueue"
  /\ SpeakerTo(s, "drainRing")
  /\ Disturb(frames > 0 \/ decoder = "decode")
  /\ UNCHANGED <<requests, texts, wsVars, audioVars, pending>>

\* Variant: the ring is not waited for.
DrainRingSkipped(s) ==
  /\ speaker[s] = "drainRing"
  /\ SpeakerTo(s, "stop")
  /\ UNCHANGED <<requests, texts, wsVars, audioVars, pending, disturbed>>

DrainRing(s) ==
  /\ speaker[s] = "drainRing"
  /\ SpeakerTo(s, "stop")
  /\ Disturb(ring # 0 \/ decoder = "push")
  /\ UNCHANGED <<requests, texts, wsVars, audioVars, pending>>

\* Where every cleanup comes to: stop, discard, and close the codec.
Stop(s) ==
  /\ speaker[s] = "stop"
  /\ SpeakerTo(s, "close")
  /\ playing' = FALSE /\ frames' = 0
  /\ UNCHANGED <<requests, texts, wsVars, codec, decoder, ring, writing, pending, disturbed>>

Close(s) ==
  /\ speaker[s] = "close"
  /\ SpeakerTo(s, "out")
  /\ ring' = 0 /\ codec' = FALSE /\ ttsActive' = FALSE
  /\ UNCHANGED <<requests, texts, online, answer, token, ttsError, playing, frames,
                 decoder, writing, pending, disturbed>>
-----------------------------------------------------------------------------
(* The websocket: its callbacks run in the task of its client. *)

Complete(error) == token' = TRUE /\ ttsError' = error

Reconnect ==
  /\ ~ online /\ online' = TRUE
  /\ UNCHANGED <<callVars, answer, token, ttsActive, ttsError, audioVars, pending, disturbed>>

\* The speech that is active is completed, but stays active.
Disconnect ==
  /\ online /\ online' = FALSE /\ answer' = -1
  /\ IF ttsActive THEN Complete(TRUE) ELSE UNCHANGED <<token, ttsError>>
  /\ Disturb(TRUE)
  /\ UNCHANGED <<callVars, ttsActive, audioVars, pending>>

\* A frame is queued, or dropped without room or without an active speech.
Frame ==
  /\ answer > 0 /\ answer' = answer - 1
  /\ IF ttsActive /\ frames < FrameLen
     THEN frames' = frames + 1 /\ Count(1) /\ UNCHANGED disturbed
     ELSE Disturb(TRUE) /\ UNCHANGED <<frames, pending>>
  /\ UNCHANGED <<callVars, online, token, ttsActive, ttsError, playing, codec, decoder,
                 ring, writing>>

\* tts_end after the last frame, or an error at any time.
AnswerEnds ==
  /\ answer >= 0 /\ answer' = -1
  /\ \E error \in BOOLEAN :
       /\ error \/ answer = 0
       /\ IF ttsActive THEN Complete(error) ELSE UNCHANGED <<token, ttsError>>
       /\ Disturb(error)
  /\ ttsActive' = FALSE
  /\ UNCHANGED <<callVars, online, audioVars, pending>>

-----------------------------------------------------------------------------
(* The pipeline. *)

Decode ==
  /\ \/ decoder = "idle" /\ frames > 0 /\ frames' = frames - 1
        /\ decoder' = "decode" /\ UNCHANGED disturbed
     \/ decoder = "decode" /\ decoder' = "push" /\ UNCHANGED <<frames, disturbed>>
     \/ decoder = "decode" /\ decoder' = "idle" /\ Disturb(TRUE) /\ UNCHANGED frames
  /\ UNCHANGED <<callVars, wsVars, playing, codec, ring, writing, pending>>

\* push_pcm_async waits for room; the frame is lost when the playback is
\* stopped, or after five seconds.
Push ==
  /\ decoder = "push" /\ decoder' = "idle"
  /\ IF playing /\ ring < RingSize
     THEN ring' = ring + 1 /\ UNCHANGED disturbed
     ELSE Disturb(TRUE) /\ UNCHANGED ring
  /\ UNCHANGED <<callVars, wsVars, playing, codec, frames, writing, pending>>

\* The count is read, the codec written without the mutex, and only then is
\* the count lowered, whatever it has become meanwhile.
Play ==
  /\ \/ ~ writing /\ playing /\ ring # 0 /\ writing' = TRUE
        /\ UNCHANGED <<ring, pending>>
     \/ /\ writing /\ writing' = FALSE
        /\ IF codec THEN ring' = (IF ring < 0 THEN ring ELSE ring - 1) /\ Count(-1)
                    ELSE UNCHANGED <<ring, pending>>
  /\ UNCHANGED <<callVars, wsVars, playing, codec, frames, decoder, disturbed>>

-----------------------------------------------------------------------------
Speak(s) ==
  \/ Connect(s) \/ OpenFails(s) \/ OpenInVain(s) \/ Open(s) \/ Arm(s) \/ Send(s)
  \/ Completed(s) \/ TimesOut(s) \/ DrainQueue(s) \/ DrainRing(s) \/ Stop(s) \/ Close(s)

SpeechNext ==
  \/ SendMessage \/ TakeLatest
  \/ \E s \in Tool : GetTts(s)
  \/ \E s \in Speaker : Speak(s)
  \/ Reconnect \/ Disconnect \/ Frame \/ AnswerEnds
  \/ Decode \/ Push \/ Play

SpeechSpec == SpeechInit /\ [][SpeechNext]_speechVars

SpeechTypeOK ==
  /\ Len(requests) <= RequestLen /\ texts \in 0..MaxTexts
  /\ answer \in -1..MaxFrames
  /\ frames \in 0..FrameLen /\ ring \in -1..RingSize
  /\ decoder \in {"idle", "decode", "push"}

-----------------------------------------------------------------------------
(* Properties. *)

\* A speech is not cut off: when the codec is about to be closed, every frame
\* the server has sent was played, as long as no connection was lost, no
\* deadline missed, no frame dropped and no two texts spoken at once.
SpokenInFull ==
  (~ disturbed /\ \E s \in Speaker : speaker[s] = "close") => pending = 0
=============================================================================
