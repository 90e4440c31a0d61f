--------------------------- MODULE MCMcpServers ---------------------------
(***************************************************************************)
(* An instance of McpServers for TLC: two launch configurations, one of    *)
(* them proposed, two proposals, requests and instances at a time.         *)
(***************************************************************************)
EXTENDS McpServers, TLC

CONSTANTS p1, p2, r1, r2, i1, i2

MCProposed == {[launch |-> 2, tool |-> TRUE]}
MCProposals == {p1, p2}
MCRequests == {r1, r2}
MCInstances == {i1, i2}
MCSymmetry == Permutations(MCProposals) \cup Permutations(MCRequests) \cup Permutations(MCInstances)
=============================================================================
