---------------------------- MODULE ServoMotion ----------------------------
(***************************************************************************)
(* The two servos (cap_servo.c, motion.c).  A tool of the agent turns a    *)
(* servo in the agent's own task or plays a sequence in a task made for    *)
(* it; when nothing has happened for a while the idle manager makes a task *)
(* that lets the servos breathe, until it is told of activity.  Sequence   *)
(* and breathing run the same player and are stopped through its two flags *)
(* s_stop_requested and s_running, without a lock.                         *)
(*                                                                         *)
(* Left out: angles and their timing.  The servos have been initialised,   *)
(* which happens once at start-up, and the tools are called by one task    *)
(* (the architecture document relies on it).  What a read of the control   *)
(* block of a deleted task yields is open: the task counts as deleted, or  *)
(* the program crashes.                                                    *)
(***************************************************************************)
EXTENDS Naturals

CONSTANTS
  MotionTask,   \* the tasks that play sequences, by their control blocks
  NoTask        \* the NULL handle

ASSUME ServoAssumption == NoTask \notin MotionTask

Stopper == {"agent", "manager"}

VARIABLES
  servoAt,     \* where the agent is in its request, and the idle manager
  tool,        \* the tool the agent is in
  sees,        \* the handle each has read
  notified,    \* the notification of the idle manager
  idleEnabled,
  motionTask,  \* s_motion_task
  sequence,    \* what each task of a sequence does
  breath,      \* what the task of s_idle_breath_task does
  stopFlag,    \* s_stop_requested
  runFlag      \* s_running

flagVars == <<stopFlag, runFlag>>
moverVars == <<motionTask, sequence, breath, flagVars>>
servoVars == <<servoAt, tool, sees, notified, idleEnabled, moverVars>>

\* After start-up, with the manager counting down.
Started ==
  [servoAt |-> [p \in Stopper |-> IF p = "agent" THEN "out" ELSE "count"],
   sequence |-> [s \in MotionTask |-> "gone"]]

ServoInit ==
  /\ servoAt = Started.servoAt /\ tool = "none" /\ sees = [p \in Stopper |-> NoTask]
  /\ notified = FALSE /\ idleEnabled = TRUE
  /\ motionTask = NoTask /\ sequence = Started.sequence /\ breath = "gone"
  /\ stopFlag = FALSE /\ runFlag = FALSE

\* An assertion of the kernel, or a deleted task's memory, ends it all.
Crash ==
  /\ servoAt' = Started.servoAt /\ tool' = "none" /\ sees' = [p \in Stopper |-> NoTask]
  /\ notified' = FALSE /\ idleEnabled' = TRUE
  /\ motionTask' = NoTask /\ sequence' = Started.sequence /\ breath' = "gone"
  /\ stopFlag' = FALSE /\ runFlag' = FALSE

ServoTo(p, at) == servoAt' = [servoAt EXCEPT ![p] = at]

\* motion_player_stop and motion_player_reset.
PlayerStop == stopFlag' = TRUE /\ UNCHANGED runFlag
PlayerReset == stopFlag' = FALSE /\ runFlag' = FALSE

-----------------------------------------------------------------------------
(* stop_motion_task, in the agent's task and in the manager's. *)

AfterStopMotion(p) ==
  IF p = "agent" /\ tool # "play" THEN "turn" ELSE "create"

SignalMotion(p) ==
  /\ servoAt[p] = "signal"
  /\ IF motionTask = NoTask
     THEN PlayerReset /\ ServoTo(p, AfterStopMotion(p))
     ELSE PlayerStop /\ ServoTo(p, "read")
  /\ UNCHANGED <<tool, sees, notified, idleEnabled, motionTask, sequence, breath>>

\* The handle is read after the signal; a sequence that has ended in between
\* has cleared it, and the kernel does not take NULL.
ReadMotion(p) ==
  /\ servoAt[p] = "read"
  /\ \/ motionTask = NoTask /\ Crash
     \/ /\ motionTask # NoTask
        /\ sees' = [sees EXCEPT ![p] = motionTask]
        /\ ServoTo(p, "await")
        /\ UNCHANGED <<tool, notified, idleEnabled, moverVars>>

\* s_running is FALSE, or 500 ms are over; the task is deleted if need be.
DeleteMotion(p) ==
  /\ servoAt[p] = "await"
  /\ \/ sequence[sees[p]] = "gone" /\ Crash
     \/ /\ sequence' = [sequence EXCEPT ![sees[p]] = "gone"]
        /\ sees' = [sees EXCEPT ![p] = NoTask]
        /\ ServoTo(p, "clear")
        /\ UNCHANGED <<tool, notified, idleEnabled, motionTask, breath, flagVars>>

ClearMotion(p) ==
  /\ servoAt[p] = "clear"
  /\ motionTask' = NoTask
  /\ PlayerReset
  /\ ServoTo(p, AfterStopMotion(p))
  /\ UNCHANGED <<tool, sees, notified, idleEnabled, sequence, breath>>

StopMotion(p) == SignalMotion(p) \/ ReadMotion(p) \/ DeleteMotion(p) \/ ClearMotion(p)

-----------------------------------------------------------------------------
(* The agent: request start, tools, completion. *)

Activity ==
  /\ servoAt["agent"] = "out" /\ ServoTo("agent", "serving")
  /\ notified' = TRUE
  /\ UNCHANGED <<tool, sees, idleEnabled, moverVars>>

ResponseComplete ==
  /\ servoAt["agent"] = "serving" /\ ServoTo("agent", "out")
  /\ notified' = (notified \/ idleEnabled)
  /\ UNCHANGED <<tool, sees, idleEnabled, moverVars>>

SetIdleMotion ==
  /\ servoAt["agent"] = "serving"
  /\ idleEnabled' \in BOOLEAN /\ notified' = TRUE
  /\ UNCHANGED <<servoAt, tool, sees, moverVars>>

\* set_servo_angle, stop_servo and play_motion_sequence.
CallTool(name) ==
  /\ servoAt["agent"] = "serving" /\ ServoTo("agent", "signal")
  /\ tool' = name
  /\ UNCHANGED <<sees, notified, idleEnabled, moverVars>>

\* The servo is turned, or set to its home, in the agent's own task.
TurnServo ==
  /\ servoAt["agent"] = "turn" /\ ServoTo("agent", "serving")
  /\ tool' = "none"
  /\ UNCHANGED <<sees, notified, idleEnabled, moverVars>>

CreateMotion ==
  /\ servoAt["agent"] = "create" /\ ServoTo("agent", "serving")
  /\ tool' = "none"
  /\ \/ \E s \in MotionTask :
          /\ sequence[s] = "gone"
          /\ sequence' = [sequence EXCEPT ![s] = "born"]
          /\ motionTask' = s
     \/ motionTask' = NoTask /\ UNCHANGED sequence
  /\ UNCHANGED <<sees, notified, idleEnabled, breath, flagVars>>

-----------------------------------------------------------------------------
(* idle_manager_task_fn. *)

\* Activity starts the countdown afresh.
CountAgain ==
  /\ servoAt["manager"] = "count" /\ notified
  /\ notified' = FALSE
  /\ UNCHANGED <<servoAt, tool, sees, idleEnabled, moverVars>>

\* idle_motion_start, unless disabled: a sequence that plays is stopped.
CountedDown ==
  /\ servoAt["manager"] = "count" /\ ~ notified
  /\ ServoTo("manager", IF ~ idleEnabled \/ breath # "gone" THEN "block"
                        ELSE IF motionTask = NoTask THEN "create" ELSE "signal")
  /\ UNCHANGED <<tool, sees, notified, idleEnabled, moverVars>>

CreateBreath ==
  /\ servoAt["manager"] = "create" /\ ServoTo("manager", "block")
  /\ breath' \in {"born", "gone"}
  /\ UNCHANGED <<tool, sees, notified, idleEnabled, motionTask, sequence, flagVars>>

\* idle_motion_stop, in the same steps as stop_motion_task.
Wake ==
  /\ servoAt["manager"] = "block" /\ notified
  /\ notified' = FALSE
  /\ IF breath = "gone"
     THEN ServoTo("manager", "count") /\ UNCHANGED flagVars
     ELSE ServoTo("manager", "readBreath") /\ PlayerStop
  /\ UNCHANGED <<tool, sees, idleEnabled, motionTask, sequence, breath>>

ReadBreath ==
  /\ servoAt["manager"] = "readBreath"
  /\ \/ breath = "gone" /\ Crash
     \/ breath # "gone" /\ ServoTo("manager", "awaitBreath")
        /\ UNCHANGED <<tool, sees, notified, idleEnabled, moverVars>>

\* Variant: a task that does not end in time is left to itself.
LeaveBreath ==
  /\ servoAt["manager"] = "awaitBreath"
  /\ ServoTo("manager", "clearBreath")
  /\ UNCHANGED <<tool, sees, notified, idleEnabled, moverVars>>

DeleteBreath ==
  /\ servoAt["manager"] = "awaitBreath"
  /\ \/ breath = "gone" /\ Crash
     \/ /\ breath' = "gone"
        /\ ServoTo("manager", "clearBreath")
        /\ UNCHANGED <<tool, sees, notified, idleEnabled, motionTask, sequence, flagVars>>

ClearBreath ==
  /\ servoAt["manager"] = "clearBreath" /\ ServoTo("manager", "count")
  /\ PlayerReset
  /\ UNCHANGED <<tool, sees, notified, idleEnabled, motionTask, sequence, breath>>

-----------------------------------------------------------------------------
(* motion_task_fn and idle_breathing_task_fn: the player sets s_running,   *)
(* looks at s_stop_requested in every frame, and a sequence ends also by   *)
(* itself; both clear their handle before they go.                         *)

SequenceStep(s) ==
  /\ \/ sequence[s] = "born" /\ sequence' = [sequence EXCEPT ![s] = "moving"]
        /\ runFlag' = TRUE /\ UNCHANGED motionTask
     \/ sequence[s] = "moving" /\ sequence' = [sequence EXCEPT ![s] = "home"]
        /\ runFlag' = FALSE /\ UNCHANGED motionTask
     \/ sequence[s] = "home" /\ sequence' = [sequence EXCEPT ![s] = "gone"]
        /\ motionTask' = NoTask /\ UNCHANGED runFlag
  /\ UNCHANGED <<servoAt, tool, sees, notified, idleEnabled, breath, stopFlag>>

BreathStep ==
  /\ \/ breath = "born" /\ breath' = "moving" /\ runFlag' = TRUE
     \/ breath = "moving" /\ stopFlag /\ breath' = "home" /\ runFlag' = FALSE
     \/ breath = "home" /\ breath' = "gone" /\ UNCHANGED runFlag
  /\ UNCHANGED <<servoAt, tool, sees, notified, idleEnabled, motionTask, sequence, stopFlag>>

-----------------------------------------------------------------------------
IdleManager ==
  \/ CountAgain \/ CountedDown \/ CreateBreath
  \/ Wake \/ ReadBreath \/ DeleteBreath \/ ClearBreath
  \/ StopMotion("manager")

ServoNext ==
  \/ Activity \/ ResponseComplete \/ SetIdleMotion
  \/ \E name \in {"turn", "play"} : CallTool(name)
  \/ StopMotion("agent") \/ TurnServo \/ CreateMotion
  \/ IdleManager
  \/ \E s \in MotionTask : SequenceStep(s)
  \/ BreathStep

ServoSpec == ServoInit /\ [][ServoNext]_servoVars

\* The manager is scheduled: every frame of a motion waits 20 ms at least.
ServoFairSpec == ServoSpec /\ WF_servoVars(IdleManager) /\ WF_servoVars(BreathStep)

-----------------------------------------------------------------------------
ServoTypeOK ==
  /\ servoAt \in [Stopper -> {"out", "serving", "turn", "count", "block", "create",
                              "signal", "read", "await", "clear",
                              "readBreath", "awaitBreath", "clearBreath"}]
  /\ tool \in {"none", "turn", "play"}
  /\ sees \in [Stopper -> MotionTask \cup {NoTask}]
  /\ notified \in BOOLEAN /\ idleEnabled \in BOOLEAN
  /\ motionTask \in MotionTask \cup {NoTask}
  /\ sequence \in [MotionTask -> {"born", "moving", "home", "gone"}]
  /\ breath \in {"born", "moving", "home", "gone"}
  /\ stopFlag \in BOOLEAN /\ runFlag \in BOOLEAN

\* Activity that the idle manager is told of while the servos breathe ends the
\* breathing, although a tool of the agent may take back the flag that asks for
\* it, and a sequence that plays at the same time clears the flag that is waited
\* for: the manager deletes what has not ended by itself.
ActivityStopsBreathing == (notified /\ breath # "gone") ~> breath = "gone"
============================================================================
