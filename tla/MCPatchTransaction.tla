------------------------ MODULE MCPatchTransaction ------------------------
(***************************************************************************)
(* An instance of PatchTransaction: one patch that takes c0 to c1 in both  *)
(* of its files, of which git ignores the second.  Other programs write x, *)
(* which no hunk matches.                                                  *)
(***************************************************************************)
EXTENDS PatchTransaction

CONSTANTS t1, f1, f2, c0, c1, x

MCTxs == {t1}
MCFiles == {f1, f2}
MCHashed == {f1}
MCContents == {c0, c1, x}
MCEdited == {x}
MCTargets == [t \in MCTxs |-> MCFiles]
MCPatched == [t \in MCTxs |-> [c \in MCContents |-> IF c = c0 THEN c1 ELSE None]]
=============================================================================
