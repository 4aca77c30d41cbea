----------------------------- MODULE MCRuleStore ----------------------------
(***************************************************************************)
(* An instance of RuleStore for TLC: two callers, and a store of two       *)
(* rules, one of which can have two bodies.                                *)
(***************************************************************************)
EXTENDS RuleStore, TLC

CONSTANTS c1, c2, i1, i2, b1, b2

MCCaller == {c1, c2}
MCId     == {i1, i2}
MCBody   == {b1, b2}
R1 == [id |-> i1, body |-> b1]
R2 == [id |-> i2, body |-> b1]
MCRule   == {R1, R2, [id |-> i1, body |-> b2]}
MCInitialFiles == {Missing, <<R1>>, <<R1, R2>>}
CallersAlike   == Permutations(MCCaller)
=============================================================================
