-------------------------- MODULE MCCommandLedger --------------------------
(***************************************************************************)
(* An instance of CommandLedger for TLC: three calls, any of which may    *)
(* meet any other, and two actions with one hash.                          *)
(***************************************************************************)
EXTENDS CommandLedger

CONSTANTS c1, c2, c3, a1, a2, h1

MCCalls == {c1, c2, c3}
MCActions == {a1, a2}
MCHashes == {h1}
MCHashOf == [a \in MCActions |-> h1]
MCFaulty == {c1}
=============================================================================
