-------------------------- MODULE PatchTransaction --------------------------
(***************************************************************************)
(* Patch transactions on the files of a workspace:                         *)
(*   - applyPatchTransaction (runtime/change-transaction.mjs);             *)
(*   - executeRecovery, decideRecovery and finalizeAlreadyCommitted        *)
(*     (runtime/recovery.mjs);                                             *)
(*   - the start-up scan (runtime/startup-recovery.mjs) and the recovery   *)
(*     proposals an operator approves (runtime/http-server.mjs).           *)
(* A process may die between any two steps, every write and read may fail  *)
(* (Faults), and other programs may edit the files at any moment.          *)
(*                                                                         *)
(* Simplifications:                                                        *)
(*   - One operation runs at a time, under the workspace write lock, which *)
(*     WriteLock.tla models; the lock of a dead process is free again.     *)
(*   - A hash stands for the content it is the hash of.  A patch is the    *)
(*     function Patched[t] on contents, None where its hunks do not match. *)
(*   - The files of a patch are worked through in any order, not in that   *)
(*     of the patch.                                                       *)
(*   - The temporary files that the code renames in the step after it      *)
(*     wrote them (manifests, restored contents) are not kept.             *)
(*   - Of the recovery proposals for a transaction the latest is kept.     *)
(*     A crash of the running operation leaves proposals and scans alone:  *)
(*     they may belong to other server processes.                          *)
(* An operator named ...Mutant is a faulty variation of the definition     *)
(* after it; the specification does not use it.                            *)
(***************************************************************************)
EXTENDS Integers, FiniteSets

CONSTANTS
  Txs,          \* the patch transactions
  Files,        \* the files of the workspace
  Contents,     \* what a file may hold
  Hashed,       \* the files a workspace revision covers
  Targets,      \* the files each patch declares
  Patched,      \* what each patch makes of a content
  Edited,       \* the contents other programs write
  Initial,      \* the content of every file to begin with
  MaxEdits,     \* bound: the number of edits by other programs
  Faults,       \* whether reads, writes and renames may fail
  VerifyFaults, \* whether the read that verifies a replacement may fail
  None

ASSUME ConstantsAssumption ==
  /\ Hashed \subseteq Files
  /\ Targets \in [Txs -> SUBSET Files]
  /\ Patched \in [Txs -> [Contents -> Contents \cup {None}]]
  /\ Edited \subseteq Contents
  /\ Initial \in Contents
  /\ MaxEdits \in Nat
  /\ Faults \in BOOLEAN
  /\ VerifyFaults \in BOOLEAN

\* parseUnifiedPatch refuses a patch without files (PATCH_NO_FILES).
ASSUME TargetsAssumption == \A t \in Txs : Targets[t] # {}

VARIABLES
  file,       \* the content of each file
  manifest,   \* the state in each transaction's manifest, None before it exists
  before,     \* the beforeHash of each file of each transaction
  after,      \* the afterHash of each file of each transaction
  snapshot,   \* the snapshots on disk, None where absent
  temp,       \* the staged files on disk, None where absent
  expected,   \* the workspace revision bound to each action, None before
  applied,    \* the transactions whose patch has been approved: each runs once
  scanned,    \* the transactions a start-up scan has read as pending
  proposal,   \* the recovery proposal of each transaction, None if there is none
  op,         \* the operation that holds the write lock, or None
  edits,      \* the number of edits by other programs
  late        \* history: the file op is about to replace was edited after its check

disk == <<manifest, snapshot, temp>>
plan == <<before, after>>
queue == <<expected, applied, scanned, proposal>>
vars == <<file, disk, plan, queue, op, edits, late>>

Final == {"committed", "rolled_back"}
Pending == {"prepared", "committing", "rollback_partial", "finalize_failed",
            "recovery_apply_failed"}

ASSUME NoneAssumption == None \notin Contents \cup Pending \cup Final

Modes == {"resume", "rollback"}
Kinds == Modes \cup {"apply", "finalize"}
Stages == {"revision", "read", "prepare", "snapshot", "stage", "recheck", "mark",
           "check", "rename", "verify", "undo", "undone", "finish", "cleanup"}

Ops == [tx: Txs, kind: Kinds, stage: Stages, todo: SUBSET Files,
        done: SUBSET Files, cur: Files \cup {None}, errors: BOOLEAN]

\* What inspectPendingTransaction reports of transaction t.
Report(t) ==
  [state |-> manifest[t],
   file |-> [f \in Targets[t] |-> file[f]],
   snapshot |-> [f \in Targets[t] |-> snapshot[t][f] # None],
   temp |-> [f \in Targets[t] |-> temp[t][f]]]

AtBefore(t, f) == file[f] = before[t][f]
AtAfter(t, f) == file[f] = after[t][f]
CanResume(t, f) == AtAfter(t, f) \/ (AtBefore(t, f) /\ temp[t][f] = after[t][f])

Conflict(t) ==
  \E f \in Targets[t] :
    snapshot[t][f] # None /\ ~AtAfter(t, f) /\ ~AtBefore(t, f)

\* Mutant: one file at its after content is enough.
decideRecoveryMutant(t) ==
  CASE Conflict(t) -> "blocked"
    [] ~Conflict(t) /\ \E f \in Targets[t] : snapshot[t][f] = None -> "blocked"
    [] ~Conflict(t) /\ (\A f \in Targets[t] : snapshot[t][f] # None)
         /\ \E f \in Targets[t] : AtAfter(t, f) -> "mark_committed"
    [] OTHER -> "requires_approval"

decideRecovery(t) ==
  CASE Conflict(t) -> "blocked"
    [] ~Conflict(t) /\ \E f \in Targets[t] : snapshot[t][f] = None -> "blocked"
    [] ~Conflict(t) /\ \A f \in Targets[t] : snapshot[t][f] # None /\ AtAfter(t, f)
         -> "mark_committed"
    [] OTHER -> "requires_approval"

\* The revision of the workspace, as computed for transaction t: a hash over its
\* files and the staged files next to them, except those that git ignores or
\* whose names are sensitive.  The staged files of t itself are left out, those
\* another transaction left behind are not.  A scan that meets a file while it
\* changes, a limit or a failing call throws.
workspaceRevision(t) ==
  [f \in Hashed |-> <<file[f], [u \in Txs \ {t} |-> temp[u][f]]>>]

Running(kinds, stage) == op # None /\ op.kind \in kinds /\ op.stage = stage

Begin(t, kind, stage, todo) ==
  op' = [tx |-> t, kind |-> kind, stage |-> stage, todo |-> todo,
         done |-> {}, cur |-> None, errors |-> FALSE]

Goto(stage) == op' = [op EXCEPT !.stage = stage]

\* Goes on to the next stage, which works through the files of the patch.
GotoEach(stage) == op' = [op EXCEPT !.stage = stage, !.todo = Targets[op.tx]]

\* One file of this stage is through.
Tick(f) == op' = [op EXCEPT !.todo = @ \ {f}]

\* The catch block: undo what has been replaced so far.
Undo(done) == op' = [op EXCEPT !.stage = "undo", !.todo = done, !.cur = None]
-----------------------------------------------------------------------------
Init ==
  /\ file = [f \in Files |-> Initial]
  /\ manifest = [t \in Txs |-> None]
  /\ before = [t \in Txs |-> [f \in Files |-> None]]
  /\ after = [t \in Txs |-> [f \in Files |-> None]]
  /\ snapshot = [t \in Txs |-> [f \in Files |-> None]]
  /\ temp = [t \in Txs |-> [f \in Files |-> None]]
  /\ expected = [t \in Txs |-> None]
  /\ applied = {}
  /\ scanned = {}
  /\ proposal = [t \in Txs |-> None]
  /\ op = None
  /\ edits = 0
  /\ late = FALSE

(* Applying a patch. *)

\* createPatchProposal binds the action to the revision of the workspace.
Propose(t) ==
  /\ expected[t] = None
  /\ expected' = [expected EXCEPT ![t] = workspaceRevision(t)]
  /\ UNCHANGED <<file, disk, plan, applied, scanned, proposal, op, edits, late>>

\* The approved patch gets the write lock.
ApplyBegin(t) ==
  /\ op = None
  /\ expected[t] # None
  /\ t \notin applied
  /\ applied' = applied \cup {t}
  /\ Begin(t, "apply", "revision", {})
  /\ UNCHANGED <<file, disk, plan, expected, scanned, proposal, edits, late>>

\* A revision that differs or cannot be computed ends the apply.
CheckRevision ==
  /\ Running({"apply"}, "revision")
  /\ \/ workspaceRevision(op.tx) = expected[op.tx] /\ GotoEach("read")
     \/ /\ Faults \/ workspaceRevision(op.tx) # expected[op.tx]
        /\ Goto("cleanup")
  /\ UNCHANGED <<file, disk, plan, queue, edits, late>>

\* A target is read and its hunks are applied in memory.
ReadTarget(f) ==
  /\ Running({"apply"}, "read")
  /\ f \in op.todo
  /\ Patched[op.tx][file[f]] # None
  /\ before' = [before EXCEPT ![op.tx][f] = file[f]]
  /\ after' = [after EXCEPT ![op.tx][f] = Patched[op.tx][file[f]]]
  /\ Tick(f)
  /\ UNCHANGED <<file, disk, queue, edits, late>>

\* The hunks do not match, or the target cannot be read (TARGET_UNAVAILABLE).
HunksMismatch(f) ==
  /\ Running({"apply"}, "read")
  /\ f \in op.todo
  /\ Faults \/ Patched[op.tx][file[f]] = None
  /\ Goto("cleanup")
  /\ UNCHANGED <<file, disk, plan, queue, edits, late>>

AllRead ==
  /\ Running({"apply"}, "read")
  /\ op.todo = {}
  /\ Goto("prepare")
  /\ UNCHANGED <<file, disk, plan, queue, edits, late>>

\* writeManifest(state), then the audit record.  A fault in either aborts the
\* transaction, with or without the state on disk.
WriteManifest(state) ==
  manifest' = [manifest EXCEPT ![op.tx] = state]

\* Mutant: the manifest claims to be committing before there are snapshots.
PrepareMutant ==
  /\ Running({"apply"}, "prepare")
  /\ WriteManifest("committing")
  /\ GotoEach("snapshot")
  /\ UNCHANGED <<file, snapshot, temp, plan, queue, edits, late>>

Prepare ==
  /\ Running({"apply"}, "prepare")
  /\ \/ WriteManifest("prepared") /\ GotoEach("snapshot")
     \/ Faults /\ WriteManifest("prepared") /\ Goto("cleanup")
     \/ Faults /\ UNCHANGED manifest /\ Goto("cleanup")
  /\ UNCHANGED <<file, snapshot, temp, plan, queue, edits, late>>

WriteSnapshot(f) ==
  /\ Running({"apply"}, "snapshot")
  /\ f \in op.todo
  /\ snapshot' = [snapshot EXCEPT ![op.tx][f] = before[op.tx][f]]
  /\ Tick(f)
  /\ UNCHANGED <<file, manifest, temp, plan, queue, edits, late>>

AllSnapshots ==
  /\ Running({"apply"}, "snapshot")
  /\ op.todo = {}
  /\ GotoEach("stage")
  /\ UNCHANGED <<file, disk, plan, queue, edits, late>>

WriteTemp(f) ==
  /\ Running({"apply"}, "stage")
  /\ f \in op.todo
  /\ temp' = [temp EXCEPT ![op.tx][f] = after[op.tx][f]]
  /\ Tick(f)
  /\ UNCHANGED <<file, manifest, snapshot, plan, queue, edits, late>>

AllStaged ==
  /\ Running({"apply"}, "stage")
  /\ op.todo = {}
  /\ Goto("recheck")
  /\ UNCHANGED <<file, disk, plan, queue, edits, late>>

\* A snapshot or a staged file cannot be written.
StagingFails ==
  /\ Faults
  /\ Running({"apply"}, "snapshot") \/ Running({"apply"}, "stage")
  /\ Goto("cleanup")
  /\ UNCHANGED <<file, disk, plan, queue, edits, late>>

RecheckRevision ==
  /\ Running({"apply"}, "recheck")
  /\ \/ workspaceRevision(op.tx) = expected[op.tx] /\ Goto("mark")
     \/ /\ Faults \/ workspaceRevision(op.tx) # expected[op.tx]
        /\ Goto("cleanup")
  /\ UNCHANGED <<file, disk, plan, queue, edits, late>>

MarkCommitting ==
  /\ Running({"apply"}, "mark")
  /\ \/ WriteManifest("committing") /\ GotoEach("check")
     \/ Faults /\ WriteManifest("committing") /\ Goto("cleanup")
     \/ Faults /\ UNCHANGED manifest /\ Goto("cleanup")
  /\ UNCHANGED <<file, snapshot, temp, plan, queue, edits, late>>

\* The finally block removes the staged files, as far as it can.
Cleanup ==
  /\ Running({"apply"}, "cleanup")
  /\ \E left \in SUBSET Targets[op.tx] :
       /\ left = {} \/ Faults
       /\ temp' = [temp EXCEPT ![op.tx] =
                     [f \in Files |-> IF f \in left THEN @[f] ELSE None]]
  /\ op' = None
  /\ UNCHANGED <<file, manifest, snapshot, plan, queue, edits, late>>

(* Replacing the files one by one: an approved patch and both recoveries. *)

\* What the replacement of f puts there, where it takes it from, and what it
\* expects to find.
Wanted(f) == IF op.kind = "rollback" THEN before[op.tx][f] ELSE after[op.tx][f]
Source(f) == IF op.kind = "rollback" THEN snapshot[op.tx][f] ELSE temp[op.tx][f]
Present(f) == IF op.kind = "rollback" THEN after[op.tx][f] ELSE before[op.tx][f]

Replacing == Modes \cup {"apply"}

\* replaceWithinStableParent compares source and target with their hashes ...
CheckReplace(f) ==
  /\ Running(Replacing, "check")
  /\ f \in op.todo
  /\ Source(f) = Wanted(f)
  /\ file[f] = Present(f)
  /\ op' = [op EXCEPT !.stage = "rename", !.cur = f]
  /\ late' = FALSE
  /\ UNCHANGED <<file, disk, plan, queue, edits>>

\* Mutant: a check that fails is tried again.
CheckFailsMutant(f) ==
  /\ Running(Replacing, "check")
  /\ f \in op.todo
  /\ Faults \/ Source(f) # Wanted(f) \/ file[f] # Present(f)
  /\ UNCHANGED vars

\* ... a hash differs, a read fails, or the directory cannot be opened stably ...
CheckFails(f) ==
  /\ Running(Replacing, "check")
  /\ f \in op.todo
  /\ Faults \/ Source(f) # Wanted(f) \/ file[f] # Present(f)
  /\ Undo(op.done)
  /\ UNCHANGED <<file, disk, plan, queue, edits, late>>

\* ... renames the source onto the target ...
Rename ==
  /\ Running(Replacing, "rename")
  /\ file' = [file EXCEPT ![op.cur] = Source(op.cur)]
  /\ temp' = IF op.kind = "rollback" THEN temp
             ELSE [temp EXCEPT ![op.tx][op.cur] = None]
  /\ Goto("verify")
  /\ UNCHANGED <<manifest, snapshot, plan, queue, edits, late>>

RenameFails ==
  /\ Faults
  /\ Running(Replacing, "rename")
  /\ Undo(op.done)
  /\ UNCHANGED <<file, disk, plan, queue, edits, late>>

\* ... and reads the target back.  A content that differs counts as replaced,
\* a read that fails does not (its error has no details.replaced).
Verify ==
  /\ Running(Replacing, "verify")
  /\ \/ /\ file[op.cur] = Wanted(op.cur)
        /\ op' = [op EXCEPT !.stage = "check", !.todo = @ \ {op.cur},
                            !.done = @ \cup {op.cur}, !.cur = None]
     \/ file[op.cur] # Wanted(op.cur) /\ Undo(op.done \cup {op.cur})
     \/ VerifyFaults /\ Undo(op.done)
  /\ UNCHANGED <<file, disk, plan, queue, edits, late>>

AllReplaced ==
  /\ Running(Replacing, "check")
  /\ op.todo = {}
  /\ Goto("finish")
  /\ UNCHANGED <<file, disk, plan, queue, edits, late>>

\* What undoing the replacement of f restores.  An apply restores its snapshot
\* whatever the file holds by now (restoreFileAtomically passes no
\* expectedTargetHash); a recovery expects what it has put there.
Restored(f) == IF op.kind = "rollback" THEN after[op.tx][f] ELSE before[op.tx][f]

MayRestore(f) ==
  CASE op.kind = "apply" -> TRUE
    [] op.kind = "resume" -> snapshot[op.tx][f] = before[op.tx][f] /\ file[f] = Wanted(f)
    [] OTHER -> file[f] = Wanted(f)

\* The restore is refused or fails; the others are tried all the same.
Unrestored(f) == op' = [op EXCEPT !.todo = @ \ {f}, !.errors = TRUE]

\* A restore counts as failed, too, if only the read that verifies it fails.
UndoFile(f) ==
  /\ Running(Replacing, "undo")
  /\ f \in op.todo
  /\ MayRestore(f)
  /\ file' = [file EXCEPT ![f] = Restored(f)]
  /\ Tick(f) \/ (VerifyFaults /\ Unrestored(f))
  /\ late' = FALSE
  /\ UNCHANGED <<disk, plan, queue, edits>>

UndoFails(f) ==
  /\ Running(Replacing, "undo")
  /\ f \in op.todo
  /\ Faults \/ ~MayRestore(f)
  /\ Unrestored(f)
  /\ UNCHANGED <<file, disk, plan, queue, edits, late>>

AllUndone ==
  /\ Running(Replacing, "undo")
  /\ op.todo = {}
  /\ Goto("undone")
  /\ UNCHANGED <<file, disk, plan, queue, edits, late>>

\* An apply goes on to its finally block, a recovery just releases the lock.
Leave == IF op.kind = "apply" THEN Goto("cleanup") ELSE op' = None

\* Mutant: the errors of the undo are forgotten.
RecordFailureMutant ==
  /\ Running(Replacing, "undone")
  /\ WriteManifest(IF op.kind = "apply" THEN "rolled_back" ELSE "recovery_apply_failed")
  /\ Leave
  /\ UNCHANGED <<file, snapshot, temp, plan, queue, edits, late>>

RecordFailure ==
  /\ Running(Replacing, "undone")
  /\ \/ WriteManifest(IF op.errors THEN "rollback_partial"
                      ELSE IF op.kind = "apply" THEN "rolled_back"
                      ELSE "recovery_apply_failed")
     \/ Faults /\ UNCHANGED manifest
  /\ Leave
  /\ UNCHANGED <<file, snapshot, temp, plan, queue, edits, late>>

\* The final state is written.  A recovery that cannot write it tries to write
\* finalize_failed.
RecordSuccess ==
  /\ Running(Kinds, "finish")
  /\ \/ WriteManifest(IF op.kind = "rollback" THEN "rolled_back" ELSE "committed")
     \/ Faults /\ op.kind \in Modes /\ WriteManifest("finalize_failed")
     \/ Faults /\ UNCHANGED manifest
  /\ Leave
  /\ UNCHANGED <<file, snapshot, temp, plan, queue, edits, late>>

(* Recovering a transaction whose process died or that failed half-way. *)

\* scanPendingTransactions at start-up reads manifests without the lock.
StartupScan(t) ==
  /\ manifest[t] \in Pending
  /\ scanned' = scanned \cup {t}
  /\ UNCHANGED <<file, disk, plan, expected, applied, proposal, op, edits, late>>

\* The scan then finalises what is complete: finalizeAlreadyCommitted inspects
\* the files again under the lock, but not the manifest.
FinalizeBegin(t) ==
  /\ op = None
  /\ t \in scanned
  /\ decideRecovery(t) = "mark_committed"
  /\ scanned' = scanned \ {t}
  /\ Begin(t, "finalize", "finish", {})
  /\ UNCHANGED <<file, disk, plan, expected, applied, proposal, edits, late>>

FinalizeSkips(t) ==
  /\ t \in scanned
  /\ decideRecovery(t) # "mark_committed"
  /\ scanned' = scanned \ {t}
  /\ UNCHANGED <<file, disk, plan, expected, applied, proposal, op, edits, late>>

\* recoveryModeApplicable and the resume / rollback guards of executeRecovery.
ModeApplicable(t, mode) ==
  \A f \in Targets[t] :
    IF mode = "resume" THEN CanResume(t, f) ELSE AtBefore(t, f) \/ AtAfter(t, f)

\* An operator proposes a recovery, bound to the manifest and the report.
ProposeRecovery(t, mode) ==
  /\ manifest[t] \in Pending
  /\ decideRecovery(t) = "requires_approval"
  /\ ModeApplicable(t, mode)
  /\ proposal' = [proposal EXCEPT ![t] = [mode |-> mode, report |-> Report(t)]]
  /\ UNCHANGED <<file, disk, plan, expected, applied, scanned, op, edits, late>>

\* The operator approves: executeRecovery takes the lock and compares again.
RecoverBegin(t) ==
  /\ op = None
  /\ proposal[t] # None
  /\ proposal[t].report = Report(t)
  /\ decideRecovery(t) # "blocked"
  /\ ModeApplicable(t, proposal[t].mode)
  /\ proposal' = [proposal EXCEPT ![t] = None]
  /\ Begin(t, proposal[t].mode, "check",
           IF proposal[t].mode = "resume"
           THEN {f \in Targets[t] : ~AtAfter(t, f)}
           ELSE {f \in Targets[t] : ~AtBefore(t, f)})
  /\ UNCHANGED <<file, disk, plan, expected, applied, scanned, edits, late>>

\* What the proposal was bound to has changed: it is refused and dropped.
RecoverStale(t) ==
  /\ proposal[t] # None
  /\ proposal[t].report # Report(t)
  /\ proposal' = [proposal EXCEPT ![t] = None]
  /\ UNCHANGED <<file, disk, plan, expected, applied, scanned, op, edits, late>>

(* The environment. *)

\* The process of the running operation dies.
Crash ==
  /\ op # None
  /\ op' = None
  /\ UNCHANGED <<file, disk, plan, queue, edits, late>>

\* Another program writes a file.
Edit(f) ==
  /\ edits < MaxEdits
  /\ edits' = edits + 1
  /\ \E c \in Edited : file' = [file EXCEPT ![f] = c]
  /\ late' = IF Running(Replacing, "rename") /\ op.cur = f THEN TRUE ELSE late
  /\ UNCHANGED <<disk, plan, queue, op>>

\* The steps of the operation that holds the lock.
Continue ==
  \/ CheckRevision \/ AllRead \/ Prepare \/ AllSnapshots \/ AllStaged
  \/ StagingFails \/ RecheckRevision \/ MarkCommitting \/ Cleanup
  \/ Rename \/ RenameFails \/ Verify \/ AllReplaced \/ AllUndone
  \/ RecordFailure \/ RecordSuccess
  \/ \E f \in Files :
       \/ ReadTarget(f) \/ HunksMismatch(f) \/ WriteSnapshot(f) \/ WriteTemp(f)
       \/ CheckReplace(f) \/ CheckFails(f) \/ UndoFile(f) \/ UndoFails(f)

Next ==
  \/ Continue
  \/ \E t \in Txs :
       \/ Propose(t) \/ ApplyBegin(t)
       \/ StartupScan(t) \/ FinalizeBegin(t) \/ FinalizeSkips(t)
       \/ \E mode \in Modes : ProposeRecovery(t, mode)
       \/ RecoverBegin(t) \/ RecoverStale(t)
  \/ Crash
  \/ \E f \in Files : Edit(f)

Spec == Init /\ [][Next]_vars

\* An operation that has begun runs on, unless its process dies.
FairSpec == Spec /\ WF_vars(Continue)
-----------------------------------------------------------------------------
Reports(t) ==
  [state: Pending,
   file: [Targets[t] -> Contents],
   snapshot: [Targets[t] -> BOOLEAN],
   temp: [Targets[t] -> Contents \cup {None}]]

Proposals == [mode: Modes, report: UNION {Reports(t) : t \in Txs}]

TypeOK ==
  /\ file \in [Files -> Contents]
  /\ manifest \in [Txs -> Pending \cup Final \cup {None}]
  /\ before \in [Txs -> [Files -> Contents \cup {None}]]
  /\ after \in [Txs -> [Files -> Contents \cup {None}]]
  /\ snapshot \in [Txs -> [Files -> Contents \cup {None}]]
  /\ temp \in [Txs -> [Files -> Contents \cup {None}]]
  /\ proposal \in [Txs -> Proposals \cup {None}]
  /\ applied \in SUBSET Txs
  /\ scanned \in SUBSET Txs
  /\ op \in Ops \cup {None}
  /\ edits \in 0..MaxEdits
  /\ late \in BOOLEAN

(***************************************************************************)
(* The parts of the inductive invariant (PatchTransactionProofs).          *)
(***************************************************************************)

\* All that an undo or a recovery of transaction t can need is known or on disk.
Ready(t) ==
  \A g \in Targets[t] :
    /\ snapshot[t][g] # None
    /\ snapshot[t][g] = before[t][g]
    /\ after[t][g] # None

Preparing == {"revision", "read", "prepare"}
Staging == {"stage", "recheck", "mark"}
Committing == {"check", "rename", "verify", "undo", "undone"}

\* An operation works on the targets of its transaction, in the stages of its kind.
OperationShape ==
  op # None =>
    /\ op.todo \subseteq Targets[op.tx]
    /\ op.done \subseteq Targets[op.tx]
    /\ op.stage \in {"rename", "verify"} => op.cur \in Targets[op.tx]
    /\ op.tx \in applied
    /\ op.kind \in Modes => op.stage \in Committing \cup {"finish"}
    /\ op.kind = "finalize" => op.stage = "finish"

\* A snapshot on disk is what the manifest calls before.
SnapshotIsBefore ==
  \A t \in Txs : \A f \in Files :
    snapshot[t][f] # None => /\ snapshot[t][f] = before[t][f]
                             /\ after[t][f] # None

\* A transaction that is not past its reading has nothing on disk, and no scan
\* has seen it.
NothingOnDisk ==
  \A t \in Txs :
    t \notin applied \/ (op # None /\ op.tx = t /\ op.stage \in Preparing) =>
      /\ manifest[t] = None
      /\ \A f \in Files : snapshot[t][f] = None
      /\ t \notin scanned

\* What the running operation has prepared so far.
Prepared ==
  op # None =>
    /\ op.stage \in {"read", "prepare", "snapshot"} =>
         \A g \in Targets[op.tx] :
           g \notin op.todo \/ op.stage # "read" =>
             before[op.tx][g] # None /\ after[op.tx][g] # None
    /\ op.stage = "snapshot" =>
         \A g \in Targets[op.tx] \ op.todo : snapshot[op.tx][g] # None
    /\ op.stage \in Staging \cup Committing => Ready(op.tx)

\* The manifest of the running operation is the one it wrote or was approved for.
ManifestKept ==
  op # None =>
    /\ op.kind = "apply" /\ op.stage \in Staging \cup {"snapshot"} =>
         manifest[op.tx] = "prepared"
    /\ op.kind = "apply" /\ op.stage \in Committing \cup {"finish"} =>
         manifest[op.tx] = "committing"
    /\ op.kind \in Modes => manifest[op.tx] \in Pending

\* Between check and rename, only an edit changes what has been compared.
RenameChecked ==
  op # None /\ op.stage = "rename" =>
    /\ Source(op.cur) = Wanted(op.cur)
    /\ ~late => file[op.cur] = Present(op.cur)

IInv ==
  /\ TypeOK
  /\ OperationShape
  /\ SnapshotIsBefore
  /\ NothingOnDisk
  /\ Prepared
  /\ ManifestKept
  /\ RenameChecked
-----------------------------------------------------------------------------
\* The running operation, and no other program, changes file f in this step.
Replaces(f) == op # None /\ edits' = edits /\ file'[f] # file[f]

\* No file of the workspace changes before the manifest on disk says that a
\* transaction is under way and every snapshot holds what was there: after a
\* crash at any point a rollback has all it needs.
SnapshotsFirst ==
  [][ \A f \in Files :
        Replaces(f) =>
          /\ manifest[op.tx] \in Pending \ {"prepared"}
             \/ op.kind \in Modes
          /\ f \in Targets[op.tx]
          /\ \A g \in Targets[op.tx] :
               snapshot[op.tx][g] # None /\ snapshot[op.tx][g] = before[op.tx][g] ]_vars

\* A replacement takes the place only of a content that its transaction knows,
\* whatever was edited while the operation ran or its proposal waited: an edit
\* is lost only if it falls between the check and the rename of its file.  The
\* undo of a failed apply is left out: it overwrites blindly.
KnownContentOnly ==
  [][ \A f \in Files :
        Replaces(f) /\ ~late /\ ~(op.kind = "apply" /\ op.stage = "undo") =>
          file[f] \in {before[op.tx][f], after[op.tx][f]} ]_vars

\* Without edits by others, a manifest becomes "committed" only when every file
\* of the patch holds its new content, whoever writes the manifest.
CommittedIsComplete ==
  [][ \A t \in Txs :
        manifest'[t] = "committed" /\ manifest[t] # "committed" /\ edits = 0 =>
          \A f \in Targets[t] : AtAfter(t, f) ]_vars

\* Without edits by others, a manifest becomes "rolled_back" only when every
\* file of the patch holds its old content, but for the one whose verification
\* could not be read, which the undo leaves out.
RolledBackIsUntouched ==
  [][ \A t \in Txs :
        manifest'[t] = "rolled_back" /\ manifest[t] # "rolled_back" /\ edits = 0 =>
          \E unread \in Targets[t] :
            /\ AtBefore(t, unread) \/ (VerifyFaults /\ AtAfter(t, unread))
            /\ \A f \in Targets[t] \ {unread} : AtBefore(t, f) ]_vars

\* The files of t are its own: nobody edits, no other patch with them has run.
Alone(t) ==
  /\ edits = 0
  /\ \A u \in Txs \ {t} : u \in applied => Targets[u] \cap Targets[t] = {}

\* Once a transaction is past its preparation, no crash and no failure, of it
\* or of any number of recoveries, leaves it where a rollback is refused.
RollbackStaysPossible ==
  \A t \in Txs :
    op = None /\ Alone(t) /\ manifest[t] \in Pending \ {"prepared"} =>
      /\ decideRecovery(t) # "blocked"
      /\ ModeApplicable(t, "rollback")

\* A final manifest is never pending again, and a rolled back one becomes
\* committed only by a finalisation that the start-up scan had queued before.
FinalStays ==
  [][ \A t \in Txs :
        manifest[t] \in Final =>
          /\ manifest'[t] \in Final
          /\ manifest'[t] # manifest[t] => op.kind = "finalize" ]_vars

(***************************************************************************)
(* PatchTransaction implements AtomicPatch as long as nobody else edits    *)
(* and no patch gets under way while another that is not over has files    *)
(* in common with it.                                                      *)
(***************************************************************************)

\* Transaction t is not over: a recovery may still go either way.
Ongoing(t) == manifest[t] \in Pending \/ (op # None /\ op.tx = t)

Apart ==
  \A t \in Txs : \A u \in Txs \ {t} :
    Ongoing(t) /\ Ongoing(u) => Targets[t] \cap Targets[u] = {}

\* The content of a file as whoever approves patches is to think of it: what a
\* pending transaction has found there, until its manifest says how it ended.
Holds(t, f) == manifest[t] \in Pending /\ f \in Targets[t]

Content ==
  [f \in Files |-> IF \E t \in Txs : Holds(t, f)
                   THEN before[CHOOSE t \in Txs : Holds(t, f)][f]
                   ELSE file[f]]

Status == [t \in Txs |-> IF manifest[t] \in Final THEN manifest[t] ELSE "open"]

Atomic ==
  INSTANCE AtomicPatch WITH content <- Content, status <- Status, MayMiss <- VerifyFaults

\* Each step of an apply, of a recovery, of a start-up scan or of a crash is a
\* step of AtomicPatch or changes nothing there: in the end a patch has changed
\* all of its files or none, by whatever crashes and recoveries it got there.
ActsAtomically ==
  [][ edits' = 0 /\ Apart /\ Apart' => [Atomic!Next]_(Atomic!vars) ]_vars

\* The write lock is always released: by an end of the operation that holds it
\* -- success, refusal, failure, undo -- or by the death of its process.
OperationEnds == op # None ~> op = None
=============================================================================
