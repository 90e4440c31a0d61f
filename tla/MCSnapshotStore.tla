-------------------------- MODULE MCSnapshotStore --------------------------
(***************************************************************************)
(* An instance of SnapshotStore for TLC: three processes, the system calls *)
(* of two of which may fail, and two versions.                             *)
(***************************************************************************)
EXTENDS SnapshotStore

CONSTANTS p1, p2, p3, v1, v2

MCProcs == {p1, p2, p3}
MCFaulty == {p1, p2}
MCVersions == {v1, v2}
=============================================================================
