------------------------------ MODULE MCDevice ------------------------------
(* Components that share no state, in one run: a behaviour is one of the    *)
(* registry, of the player, of a gateway and so on, and part says of which. *)
EXTENDS CapRegistry, VideoPlayer, ImGateway, SpeechOut, AsrSession,
        MemoryStore, SessionHistory, ExtractJobs, LockOrder, ServoMotion

VARIABLE part

deviceVars == <<registryVars, playerVars, gatewayVars, speechVars, asrVars,
                memoryVars, historyVars, jobVars, lockVars, servoVars, part>>

MCInit ==
  /\ RegistryInit /\ PlayerInit /\ GatewayInit /\ SpeechInit /\ AsrInit
  /\ MemoryInit /\ HistoryInit /\ ExtractInit /\ LockInit /\ ServoInit
  /\ \/ part \in {"registry", "player", "speech", "asr", "memory", "history", "jobs",
                  "locks", "servo"}
        /\ platform = "qq"
     \/ part = "gateway"

MCNext ==
  \/ /\ part = "registry" /\ RegistryNext
     /\ UNCHANGED <<playerVars, gatewayVars, speechVars, asrVars, memoryVars, historyVars,
                    jobVars, lockVars, servoVars, part>>
  \/ /\ part = "player" /\ PlayerNext
     /\ UNCHANGED <<registryVars, gatewayVars, speechVars, asrVars, memoryVars, historyVars,
                    jobVars, lockVars, servoVars, part>>
  \/ /\ part = "gateway" /\ GatewayNext
     /\ UNCHANGED <<registryVars, playerVars, speechVars, asrVars, memoryVars, historyVars,
                    jobVars, lockVars, servoVars, part>>
  \/ /\ part = "speech" /\ SpeechNext
     /\ UNCHANGED <<registryVars, playerVars, gatewayVars, asrVars, memoryVars, historyVars,
                    jobVars, lockVars, servoVars, part>>
  \/ /\ part = "asr" /\ AsrNext
     /\ UNCHANGED <<registryVars, playerVars, gatewayVars, speechVars, memoryVars, historyVars,
                    jobVars, lockVars, servoVars, part>>
  \/ /\ part = "memory" /\ MemoryNext
     /\ UNCHANGED <<registryVars, playerVars, gatewayVars, speechVars, asrVars, historyVars,
                    jobVars, lockVars, servoVars, part>>
  \/ /\ part = "history" /\ HistoryNext
     /\ UNCHANGED <<registryVars, playerVars, gatewayVars, speechVars, asrVars, memoryVars,
                    jobVars, lockVars, servoVars, part>>
  \/ /\ part = "jobs" /\ JobNext
     /\ UNCHANGED <<registryVars, playerVars, gatewayVars, speechVars, asrVars, memoryVars,
                    historyVars, lockVars, servoVars, part>>
  \/ /\ part = "locks" /\ LockNext
     /\ UNCHANGED <<registryVars, playerVars, gatewayVars, speechVars, asrVars, memoryVars,
                    historyVars, jobVars, servoVars, part>>
  \/ /\ part = "servo" /\ ServoNext
     /\ UNCHANGED <<registryVars, playerVars, gatewayVars, speechVars, asrVars, memoryVars,
                    historyVars, jobVars, lockVars, part>>

\* The fairness of each component, in its own part.  Tasks that can go on are
\* scheduled; the call of a setter ends by a place in the queue or after a
\* second; the display's functions return to the script that calls them, but the
\* script itself may go on for ever.
\* No message, speech, call of a capability, emotion or script need ever come.
MCFairness ==
  /\ WF_registryVars(part = "registry" /\ AdminStep)
  /\ \A c \in Setter : WF_setter(part = "player" /\ Setting(c))
  /\ \A s \in Script : WF_script(part = "player" /\ InDisplay(s) /\ ScriptStep(s))
  /\ WF_vt(part = "player" /\ VideoTask)
  /\ WF_et(part = "player" /\ ExtractTask)
  /\ WF_jobVars(part = "jobs" /\ Agent)
  /\ WF_jobVars(part = "jobs" /\ JobTask)
  /\ WF_lockVars(part = "locks" /\ Going)
  /\ WF_servoVars(part = "servo" /\ IdleManager)
  /\ WF_servoVars(part = "servo" /\ BreathStep)

MCSpec == MCInit /\ [][MCNext]_deviceVars /\ MCFairness

\* LastEmotionShows, where the player moves at all.
EmotionShows == part = "player" => LastEmotionShows
=============================================================================
