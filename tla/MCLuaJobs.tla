----------------------------- MODULE MCLuaJobs -----------------------------
(***************************************************************************)
(* The instance of LuaJobs for TLC: j1 and j2 share an exclusive group, j2 *)
(* and j3 a name, and j2 takes over.  Two slots, so that slots are reused. *)
(***************************************************************************)
EXTENDS LuaJobs, TLC

CONSTANTS j1, j2, j3, stopper, watcher, name, group

MCJob == {j1, j2, j3}
MCName == (j1 :> Nothing) @@ (j2 :> name) @@ (j3 :> name)
MCGroup == (j1 :> group) @@ (j2 :> group) @@ (j3 :> Nothing)
TwoJobs == {j1, j2}
NoNames == [j \in TwoJobs |-> Nothing]
OneGroup == [j \in TwoJobs |-> group]
MCReplace == {j2}
MCStopper == {stopper}
MCWatcher == {watcher}
NoProc == {}
=============================================================================
