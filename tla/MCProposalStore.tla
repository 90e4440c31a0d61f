-------------------------- MODULE MCProposalStore --------------------------
(***************************************************************************)
(* An instance of ProposalStore for TLC: two proposals and two servers,    *)
(* the writes of one of which may fail.                                    *)
(***************************************************************************)
EXTENDS ProposalStore

CONSTANTS i1, i2, p1, p2

MCIds == {i1, i2}
MCProcs == {p1, p2}
MCFaulty == {p1}
=============================================================================
