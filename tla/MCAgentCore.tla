----------------------------- MODULE MCAgentCore ----------------------------
(***************************************************************************)
(* Instances of AgentCore for TLC: one request of the event router, which  *)
(* skips the response queue, and three asks of two console tasks.          *)
(***************************************************************************)
EXTENDS AgentCore, TLC

CONSTANTS r1, a1, a2, a3, router, console1, console2

MCRequest == {r1, a1, a2, a3}
MCCaller == {router, console1, console2}
MCCallerOf == (r1 :> router) @@
              (a1 :> console1) @@ (a2 :> console1) @@ (a3 :> console2)
MCSkipResponse == {r1}
=============================================================================
