----------------------------- MODULE MCMcpHttp -----------------------------
(***************************************************************************)
(* An instance of McpHttp for TLC: two requests of the client, each of     *)
(* which may open a session, and events beyond the replay buffer.          *)
(***************************************************************************)
EXTENDS McpHttp, TLC

CONSTANTS r1, r2

MCRequests == {r1, r2}
MCSymmetry == Permutations(MCRequests)
=============================================================================
