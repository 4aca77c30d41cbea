---------------------------- MODULE MCEventRouter ---------------------------
(***************************************************************************)
(* Instances of EventRouter for TLC.  Four events; e4 is emitted by a rule *)
(* and carries the router's own source_cap.  With UniqueIdOf no two events *)
(* have the same id and e3 has none, which the publishers allow; with      *)
(* SharedIdOf e1 and e2 have the same one, the way events published in one *)
(* millisecond do.                                                         *)
(***************************************************************************)
EXTENDS EventRouter, TLC

CONSTANTS e1, e2, e3, e4, i1, i2, i3, k1, k2

MCEvent == {e1, e2, e3, e4}
MCEventId == {i1, i2, i3}
MCKind == {k1, k2}
MCKindOf == (e1 :> k1) @@ (e2 :> k2) @@ (e3 :> k1) @@ (e4 :> k2)
UniqueIdOf == (e1 :> i1) @@ (e2 :> i2) @@ (e3 :> NoId) @@ (e4 :> i3)
SharedIdOf == (e1 :> i1) @@ (e2 :> i1) @@ (e3 :> i2) @@ (e4 :> i3)
OneEmitted == {e4}
=============================================================================
