----------------------- MODULE PatchTransactionProofs -----------------------
(***************************************************************************)
(* What holds of PatchTransaction for all transactions, files, contents,   *)
(* patches, and any number of edits, faults and crashes.  The inductive    *)
(* invariant IInv is proved conjunct by conjunct: one lemma says that      *)
(* every step keeps one conjunct.  The action properties follow from IInv  *)
(* and a step, and so does the refinement of AtomicPatch.  At the end,     *)
(* what holds of the lock under which all this runs, WriteLock, for any    *)
(* number of workers, processes and restarts.                              *)
(***************************************************************************)
EXTENDS PatchTransaction, WriteLock, TLAPS

\* The initial values have their types.
LEMMA InitTypeOK == Init => TypeOK
<1> SUFFICES ASSUME Init
             PROVE  TypeOK
  OBVIOUS
<1> USE ConstantsAssumption, NoneAssumption DEF ConstantsAssumption, NoneAssumption
<1>1. file \in [Files -> Contents] /\ op \in Ops \cup {None} /\ edits \in 0..MaxEdits
  BY DEF Init
<1>2. manifest \in [Txs -> Pending \cup Final \cup {None}]
  BY DEF Init
<1>3. /\ before \in [Txs -> [Files -> Contents \cup {None}]]
      /\ after \in [Txs -> [Files -> Contents \cup {None}]]
  BY DEF Init
<1>4. /\ snapshot \in [Txs -> [Files -> Contents \cup {None}]]
      /\ temp \in [Txs -> [Files -> Contents \cup {None}]]
  BY DEF Init
<1>5. proposal \in [Txs -> Proposals \cup {None}]
  BY DEF Init
<1>6. applied \in SUBSET Txs /\ scanned \in SUBSET Txs /\ late \in BOOLEAN
  BY DEF Init
<1> QED
  BY <1>1, <1>2, <1>3, <1>4, <1>5, <1>6 DEF TypeOK

\* The report of a pending transaction has the type of a report.
LEMMA ReportType ==
  ASSUME TypeOK, NEW t \in Txs, manifest[t] \in Pending
  PROVE  Report(t) \in Reports(t)
<1> USE ConstantsAssumption, NoneAssumption DEF ConstantsAssumption, NoneAssumption, TypeOK
<1>1. [f \in Targets[t] |-> file[f]] \in [Targets[t] -> Contents]
  OBVIOUS
<1>2. [f \in Targets[t] |-> snapshot[t][f] # None] \in [Targets[t] -> BOOLEAN]
  OBVIOUS
<1>3. [f \in Targets[t] |-> temp[t][f]] \in [Targets[t] -> Contents \cup {None}]
  BY SMTT(30)
<1> QED
  BY <1>1, <1>2, <1>3 DEF Report, Reports

\* The updates of the running operation keep its type.
LEMMA OpUpdates ==
  ASSUME TypeOK, op # None
  PROVE  /\ op \in Ops
         /\ \A stage \in Stages :
              /\ [op EXCEPT !.stage = stage] \in Ops
              /\ [op EXCEPT !.stage = stage, !.todo = Targets[op.tx]] \in Ops
              /\ \A f \in Files : [op EXCEPT !.stage = stage, !.cur = f] \in Ops
              /\ \A done \in SUBSET Files :
                   [op EXCEPT !.stage = stage, !.todo = done, !.cur = None] \in Ops
              /\ \A f \in Files :
                   [op EXCEPT !.stage = stage, !.todo = @ \ {f},
                              !.done = @ \cup {f}, !.cur = None] \in Ops
         /\ \A f \in Files :
              /\ [op EXCEPT !.todo = @ \ {f}] \in Ops
              /\ [op EXCEPT !.todo = @ \ {f}, !.errors = TRUE] \in Ops
<1> USE ConstantsAssumption, NoneAssumption DEF ConstantsAssumption, NoneAssumption
<1>1. op \in Ops
  BY DEF TypeOK
<1>2. Targets[op.tx] \in SUBSET Files
  BY <1>1 DEF Ops
<1> QED
  BY ZenonT(30), <1>1, <1>2 DEF Ops

\* Every step keeps the type of the running operation.
LEMMA OpTypeStep ==
  ASSUME IInv, [Next]_vars
  PROVE  op' \in Ops \cup {None}
<1> USE ConstantsAssumption, NoneAssumption
    DEF ConstantsAssumption, NoneAssumption, Goto, GotoEach, Tick, Unrestored, Undo, Running, Replacing
<1>0. TypeOK /\ op \in Ops \cup {None}
  BY DEF IInv, TypeOK
<1> USE <1>0
<1>1. ASSUME NEW f \in Files,
             ReadTarget(f) \/ WriteSnapshot(f) \/ WriteTemp(f) \/ UndoFile(f)
      PROVE  op' \in Ops \cup {None}
  BY ZenonT(30), <1>1, OpUpdates DEF ReadTarget, WriteSnapshot, WriteTemp, UndoFile
<1>2. ASSUME NEW f \in Files, HunksMismatch(f) \/ UndoFails(f)
      PROVE  op' \in Ops \cup {None}
  BY ZenonT(30), <1>2, OpUpdates DEF HunksMismatch, UndoFails, Stages
<1>3. ASSUME NEW f \in Files, CheckReplace(f)
      PROVE  op' \in Ops \cup {None}
  <2>1. op # None /\ "rename" \in Stages
    BY <1>3 DEF CheckReplace, Stages
  <2> QED
    BY <1>3, <2>1, OpUpdates DEF CheckReplace
<1>4. ASSUME op # None, NEW done \in SUBSET Files, Undo(done)
      PROVE  op' \in Ops \cup {None}
  BY <1>4, OpUpdates DEF Stages
<1>5. ASSUME NEW f \in Files, CheckFails(f)
      PROVE  op' \in Ops \cup {None}
  <2>1. op # None /\ op.done \in SUBSET Files /\ Undo(op.done)
    BY <1>5 DEF CheckFails, Ops
  <2> QED
    BY <1>4, <2>1
<1>6. CASE RenameFails \/ Verify
  <2>1. op # None /\ op.done \in SUBSET Files
    BY <1>6 DEF RenameFails, Verify, Ops
  <2>2. Verify => op.cur \in Files
    BY <1>0 DEF Verify, IInv, OperationShape, Ops
  <2>3. ASSUME Undo(op.done) \/ (op.cur \in Files /\ Undo(op.done \cup {op.cur}))
        PROVE  op' \in Ops \cup {None}
    <3>1. op.cur \in Files => op.done \cup {op.cur} \in SUBSET Files
      BY SMTT(30), <2>1
    <3> QED
      BY <1>4, <2>1, <2>3, <3>1
  <2>4. CASE /\ op.cur \in Files
             /\ op' = [op EXCEPT !.stage = "check", !.todo = @ \ {op.cur},
                                 !.done = @ \cup {op.cur}, !.cur = None]
    BY ZenonT(30), <2>1, <2>4, OpUpdates DEF Stages
  <2> QED
    BY <1>6, <2>2, <2>3, <2>4 DEF RenameFails, Verify
<1>7. CASE CheckRevision \/ AllRead \/ Prepare \/ AllSnapshots \/ AllStaged
             \/ StagingFails \/ RecheckRevision \/ MarkCommitting
  BY ZenonT(30), <1>7, OpUpdates DEF CheckRevision, AllRead, Prepare, AllSnapshots, AllStaged,
     StagingFails, RecheckRevision, MarkCommitting, Stages
<1>8. CASE Rename \/ AllReplaced \/ AllUndone
  BY ZenonT(30), <1>8, OpUpdates DEF Rename, AllReplaced, AllUndone, Stages
<1>9. CASE RecordFailure \/ RecordSuccess
  BY <1>9, OpUpdates DEF RecordFailure, RecordSuccess, Leave, Stages
<1>10. CASE Cleanup \/ Crash
  BY <1>10 DEF Cleanup, Crash
<1>11. ASSUME NEW t \in Txs, NEW kind \in Kinds, NEW stage \in Stages,
              NEW todo \in SUBSET Files, Begin(t, kind, stage, todo)
       PROVE  op' \in Ops \cup {None}
  BY <1>11 DEF Begin, Ops
<1>12. ASSUME NEW t \in Txs, ApplyBegin(t) \/ FinalizeBegin(t)
       PROVE  op' \in Ops \cup {None}
  <2>1. /\ {"apply", "finalize"} \subseteq Kinds
        /\ {"revision", "finish"} \subseteq Stages
        /\ {} \in SUBSET Files
    BY DEF Kinds, Stages
  <2>2. Begin(t, "apply", "revision", {}) \/ Begin(t, "finalize", "finish", {})
    BY <1>12 DEF ApplyBegin, FinalizeBegin
  <2> QED
    BY <1>11, <2>1, <2>2
<1>13. ASSUME NEW t \in Txs, RecoverBegin(t)
       PROVE  op' \in Ops \cup {None}
  <2>1. proposal[t].mode \in Kinds
    BY <1>13 DEF RecoverBegin, TypeOK, Proposals, Kinds
  <2>2. /\ {f \in Targets[t] : ~AtAfter(t, f)} \in SUBSET Files
        /\ {f \in Targets[t] : ~AtBefore(t, f)} \in SUBSET Files
    OBVIOUS
  <2> QED
    BY <1>11, <1>13, <2>1, <2>2 DEF RecoverBegin, Stages
<1>14. CASE UNCHANGED op
  BY <1>14
<1> QED
  BY <1>1, <1>2, <1>3, <1>5, <1>6, <1>7, <1>8, <1>9, <1>10, <1>12, <1>13, <1>14
     DEF Next, Continue, vars, queue, Propose, StartupScan, FinalizeSkips,
         ProposeRecovery, RecoverStale, Edit

\* Every step keeps every variable to its type.
LEMMA TypeStep ==
  ASSUME IInv, [Next]_vars
  PROVE  TypeOK'
<1> USE ConstantsAssumption, NoneAssumption DEF ConstantsAssumption, NoneAssumption, TypeOK, Running, disk, plan, queue
<1>0. TypeOK /\ op' \in Ops \cup {None} /\ (op # None => op.tx \in Txs)
  BY OpTypeStep DEF IInv, Ops
<1> USE <1>0
<1>1. ASSUME NEW t \in Txs, Propose(t) \/ ApplyBegin(t)
      PROVE  TypeOK'
  BY <1>1 DEF Propose, ApplyBegin
<1>2. CASE CheckRevision \/ RecheckRevision \/ AllRead \/ AllSnapshots \/ AllStaged
  BY <1>2 DEF CheckRevision, RecheckRevision, AllRead, AllSnapshots, AllStaged
<1>3. CASE StagingFails \/ RenameFails \/ Verify \/ AllReplaced \/ AllUndone \/ Crash
  BY <1>3 DEF StagingFails, RenameFails, Verify, AllReplaced, AllUndone, Crash
<1>4. ASSUME NEW f \in Files, ReadTarget(f)
      PROVE  TypeOK'
  <2>1. Patched[op.tx][file[f]] \in Contents
    BY <1>0, <1>4 DEF ReadTarget
  <2> QED
    BY <1>0, <1>4, <2>1 DEF ReadTarget
<1>5. ASSUME NEW f \in Files,
             HunksMismatch(f) \/ CheckReplace(f) \/ CheckFails(f) \/ UndoFails(f)
      PROVE  TypeOK'
  BY <1>5 DEF HunksMismatch, CheckReplace, CheckFails, UndoFails
<1>6. CASE Prepare \/ MarkCommitting \/ RecordFailure \/ RecordSuccess
  BY <1>0, <1>6 DEF Prepare, MarkCommitting, RecordFailure, RecordSuccess,
     WriteManifest, Pending, Final
<1>7. ASSUME NEW f \in Files, WriteSnapshot(f) \/ WriteTemp(f)
      PROVE  TypeOK'
  <2>1. op.tx \in Txs
    BY <1>7 DEF WriteSnapshot, WriteTemp
  <2>2. CASE WriteSnapshot(f)
    BY <2>1, <2>2 DEF WriteSnapshot
  <2>3. CASE WriteTemp(f)
    BY <2>1, <2>3 DEF WriteTemp
  <2> QED
    BY <1>7, <2>2, <2>3
<1>8. CASE Cleanup
  BY <1>0, <1>8 DEF Cleanup
<1>9. CASE Rename
  <2>1. /\ op.cur \in Files
        /\ Source(op.cur) = after[op.tx][op.cur] \/ Source(op.cur) = before[op.tx][op.cur]
        /\ Ready(op.tx) /\ op.cur \in Targets[op.tx] /\ op.tx \in Txs
    BY <1>0, <1>9 DEF Rename, IInv, OperationShape, RenameChecked, Prepared,
       Committing, Wanted
  <2>2. Source(op.cur) \in Contents
    BY <1>0, <2>1 DEF Ready
  <2> QED
    BY <1>0, <1>9, <2>2 DEF Rename
<1>10. ASSUME NEW f \in Files, UndoFile(f)
       PROVE  TypeOK'
  <2>1. Ready(op.tx) /\ f \in Targets[op.tx] /\ op.tx \in Txs
    BY <1>0, <1>10 DEF UndoFile, IInv, OperationShape, Prepared, Committing
  <2>2. Restored(f) \in Contents
    BY <1>0, <2>1 DEF Restored, Ready
  <2> QED
    BY <1>0, <1>10, <2>2 DEF UndoFile
<1>11. ASSUME NEW t \in Txs,
              StartupScan(t) \/ FinalizeBegin(t) \/ FinalizeSkips(t)
       PROVE  TypeOK'
  BY <1>11 DEF StartupScan, FinalizeBegin, FinalizeSkips
<1>12. ASSUME NEW t \in Txs, NEW mode \in Modes, ProposeRecovery(t, mode)
       PROVE  TypeOK'
  BY <1>12, ReportType DEF ProposeRecovery, Proposals
<1>13. ASSUME NEW t \in Txs, RecoverBegin(t) \/ RecoverStale(t)
       PROVE  TypeOK'
  BY <1>13 DEF RecoverBegin, RecoverStale
<1>14. ASSUME NEW f \in Files, Edit(f)
       PROVE  TypeOK'
  <2>1. late' \in BOOLEAN
    BY <1>14 DEF Edit
  <2>2. file' \in [Files -> Contents] /\ edits' \in 0..MaxEdits
    BY <1>14 DEF Edit
  <2>3. UNCHANGED <<disk, plan, queue, op>>
    BY <1>14 DEF Edit
  <2> QED
    BY <2>1, <2>2, <2>3
<1>15. CASE UNCHANGED vars
  BY <1>15 DEF vars
<1> QED
  BY <1>1, <1>2, <1>3, <1>4, <1>5, <1>6, <1>7, <1>8, <1>9, <1>10, <1>11, <1>12,
     <1>13, <1>14, <1>15 DEF Next, Continue

\* What the updates of the running operation do to its fields.
LEMMA GotoFields ==
  ASSUME op \in Ops, NEW stage, Goto(stage)
  PROVE  /\ op'.tx = op.tx /\ op'.kind = op.kind /\ op'.stage = stage
         /\ op'.todo = op.todo /\ op'.done = op.done /\ op'.cur = op.cur
  BY DEF Goto, Ops

\* Going over all targets starts with all of them.
LEMMA GotoEachFields ==
  ASSUME op \in Ops, NEW stage, GotoEach(stage)
  PROVE  /\ op'.tx = op.tx /\ op'.kind = op.kind /\ op'.stage = stage
         /\ op'.todo = Targets[op.tx] /\ op'.done = op.done /\ op'.cur = op.cur
  BY DEF GotoEach, Ops

\* A target that is done with leaves those to do.
LEMMA TickFields ==
  ASSUME op \in Ops, NEW f, Tick(f)
  PROVE  /\ op'.tx = op.tx /\ op'.kind = op.kind /\ op'.stage = op.stage
         /\ op'.todo = op.todo \ {f} /\ op'.done = op.done /\ op'.cur = op.cur
  BY DEF Tick, Ops

\* The undo goes over what it is given.
LEMMA UndoFields ==
  ASSUME op \in Ops, NEW done, Undo(done)
  PROVE  /\ op'.tx = op.tx /\ op'.kind = op.kind /\ op'.stage = "undo"
         /\ op'.todo = done /\ op'.done = op.done
  BY DEF Undo, Ops

\* A target that has been compared is the one to replace.
LEMMA CheckFields ==
  ASSUME op \in Ops, NEW f, CheckReplace(f)
  PROVE  /\ op'.tx = op.tx /\ op'.kind = op.kind /\ op'.stage = "rename"
         /\ op'.todo = op.todo /\ op'.done = op.done /\ op'.cur = f
  BY DEF CheckReplace, Ops

\* The two outcomes of a verification.
LEMMA VerifyFields ==
  ASSUME op \in Ops, Verify
  PROVE  /\ op'.tx = op.tx /\ op'.kind = op.kind
         /\ \/ /\ op'.stage = "check" /\ op'.todo = op.todo \ {op.cur}
               /\ op'.done = op.done \cup {op.cur}
               /\ file[op.cur] = Wanted(op.cur)
            \/ /\ op'.stage = "undo" /\ op'.done = op.done
               /\ \/ /\ op'.todo = op.done \cup {op.cur}
                     /\ file[op.cur] # Wanted(op.cur)
                  \/ VerifyFaults /\ op'.todo = op.done
<1>1. CASE /\ file[op.cur] = Wanted(op.cur)
           /\ op' = [op EXCEPT !.stage = "check", !.todo = @ \ {op.cur},
                               !.done = @ \cup {op.cur}, !.cur = None]
  BY <1>1 DEF Ops
<1>2. CASE file[op.cur] # Wanted(op.cur) /\ Undo(op.done \cup {op.cur})
  BY <1>2, UndoFields
<1>3. CASE VerifyFaults /\ Undo(op.done)
  BY <1>3, UndoFields
<1> QED
  BY <1>1, <1>2, <1>3 DEF Verify

\* A target that cannot be undone is passed over.
LEMMA FailFields ==
  ASSUME op \in Ops, NEW f, Unrestored(f)
  PROVE  /\ op'.tx = op.tx /\ op'.kind = op.kind /\ op'.stage = op.stage
         /\ op'.todo = op.todo \ {f} /\ op'.done = op.done /\ op'.cur = op.cur
  BY DEF Unrestored, Ops

\* The step that records the outcome only leaves the loop.
LEMMA LeaveFields ==
  ASSUME TypeOK, RecordFailure \/ RecordSuccess
  PROVE  op' = None \/ (op'.tx = op.tx /\ op'.kind = "apply" /\ op'.stage = "cleanup")
<1>1. op \in Ops
  BY DEF RecordFailure, RecordSuccess, Running, TypeOK
<1>2. CASE op.kind = "apply" /\ Goto("cleanup")
  BY <1>1, <1>2, GotoFields
<1> QED
  BY <1>2 DEF RecordFailure, RecordSuccess, Leave

\* A recovery begins only while the manifest is the pending one it was approved
\* for, and only with every snapshot on disk.
LEMMA ApprovedIsPending ==
  ASSUME TypeOK, NEW t \in Txs, RecoverBegin(t)
  PROVE  /\ manifest[t] \in Pending
         /\ \A f \in Targets[t] : snapshot[t][f] # None
<1>1. proposal[t].report.state \in Pending
  BY DEF RecoverBegin, TypeOK, Proposals, Reports
<1>2. proposal[t].report.state = manifest[t]
  BY DEF RecoverBegin, Report
<1>3. \A f \in Targets[t] : snapshot[t][f] # None
  BY DEF RecoverBegin, decideRecovery
<1> QED
  BY <1>1, <1>2, <1>3

\* Every step keeps the operation on the targets and in the stages of its kind.
LEMMA ShapeStep ==
  ASSUME IInv, [Next]_vars
  PROVE  OperationShape'
<1> USE ConstantsAssumption, NoneAssumption
    DEF ConstantsAssumption, NoneAssumption, OperationShape, Running, Replacing, Committing, Modes, queue
<1>0. /\ TypeOK /\ OperationShape
      /\ op # None => op \in Ops /\ op.tx \in Txs
  BY DEF IInv, TypeOK, Ops
<1> USE <1>0
<1>1. ASSUME NEW f \in Files, ReadTarget(f) \/ WriteSnapshot(f) \/ WriteTemp(f)
      PROVE  OperationShape'
  BY <1>1, TickFields DEF ReadTarget, WriteSnapshot, WriteTemp
<1>2. ASSUME NEW f \in Files, HunksMismatch(f)
      PROVE  OperationShape'
  BY <1>2, GotoFields DEF HunksMismatch
<1>3. ASSUME NEW f \in Files, CheckReplace(f)
      PROVE  OperationShape'
  <2>1. /\ op # None /\ op.kind \in Replacing /\ f \in op.todo
        /\ applied' = applied
    BY <1>3 DEF CheckReplace
  <2> QED
    BY <1>3, <2>1, CheckFields
<1>4. ASSUME NEW f \in Files, UndoFile(f) \/ UndoFails(f)
      PROVE  OperationShape'
  <2>1. CASE UndoFile(f)
    BY <2>1, TickFields, FailFields DEF UndoFile
  <2>2. CASE UndoFails(f)
    <3>1. op # None /\ op.kind \in Replacing /\ op.stage = "undo" /\ applied' = applied
      BY <2>2 DEF UndoFails
    <3> QED
      BY <2>2, <3>1, FailFields DEF UndoFails
  <2> QED
    BY <1>4, <2>1, <2>2
<1>5. CASE RenameFails \/ \E f \in Files : CheckFails(f)
  BY <1>5, UndoFields DEF RenameFails, CheckFails
<1>6. CASE CheckRevision \/ RecheckRevision \/ AllRead \/ AllSnapshots
  BY <1>6, GotoFields, GotoEachFields
     DEF CheckRevision, RecheckRevision, AllRead, AllSnapshots
<1>7. CASE AllStaged \/ StagingFails
  BY <1>7, GotoFields DEF AllStaged, StagingFails
<1>8. CASE Prepare \/ MarkCommitting
  BY <1>8, GotoFields, GotoEachFields DEF Prepare, MarkCommitting
<1>9. CASE Rename \/ AllReplaced \/ AllUndone
  BY <1>9, GotoFields DEF Rename, AllReplaced, AllUndone
<1>10. CASE Verify
  <2>1. op # None /\ op.kind \in Replacing /\ op.stage = "verify" /\ applied' = applied
    BY <1>10 DEF Verify
  <2> QED
    BY <1>10, <2>1, VerifyFields
<1>11. CASE RecordFailure \/ RecordSuccess
  BY <1>11, GotoFields DEF RecordFailure, RecordSuccess, Leave
<1>12. CASE Cleanup \/ Crash
  BY <1>12 DEF Cleanup, Crash
<1>13. ASSUME NEW t \in Txs, ApplyBegin(t) \/ FinalizeBegin(t)
       PROVE  OperationShape'
  BY <1>13 DEF ApplyBegin, FinalizeBegin, Begin, IInv, NothingOnDisk
<1>14. ASSUME NEW t \in Txs, RecoverBegin(t)
       PROVE  OperationShape'
  <2>1. proposal[t].mode \in Modes
    BY <1>14 DEF RecoverBegin, TypeOK, Proposals
  <2>2. t \in applied
    BY <1>14, ApprovedIsPending DEF IInv, NothingOnDisk
  <2> QED
    BY <1>14, <2>1, <2>2 DEF RecoverBegin, Begin
<1>15. CASE UNCHANGED <<op, applied>>
  BY <1>15
<1> QED
  BY <1>1, <1>2, <1>3, <1>4, <1>5, <1>6, <1>7, <1>8, <1>9, <1>10, <1>11, <1>12,
     <1>13, <1>14, <1>15
     DEF Next, Continue, vars, Propose, StartupScan, FinalizeSkips,
         ProposeRecovery, RecoverStale, Edit

\* Only the reading and the snapshot writing of the transaction itself touch
\* what its snapshots are compared with.
LEMMA SnapshotStep ==
  ASSUME IInv, [Next]_vars
  PROVE  SnapshotIsBefore'
<1> USE ConstantsAssumption, NoneAssumption
    DEF ConstantsAssumption, NoneAssumption, SnapshotIsBefore, Running, disk, plan
<1>0. /\ TypeOK /\ SnapshotIsBefore
      /\ op # None => op \in Ops /\ op.tx \in Txs
  BY DEF IInv, TypeOK, Ops
<1> USE <1>0
<1>1. ASSUME NEW f \in Files, ReadTarget(f)
      PROVE  SnapshotIsBefore'
  <2>1. op.tx \in Txs /\ \A g \in Files : snapshot[op.tx][g] = None
    BY <1>1 DEF ReadTarget, IInv, NothingOnDisk, Preparing
  <2> QED
    BY <1>1, <2>1 DEF ReadTarget, TypeOK
<1>2. ASSUME NEW f \in Files, WriteSnapshot(f)
      PROVE  SnapshotIsBefore'
  <2>1. op.tx \in Txs /\ after[op.tx][f] # None
    BY <1>2 DEF WriteSnapshot, IInv, Prepared, OperationShape
  <2> QED
    BY <1>2, <2>1 DEF WriteSnapshot, TypeOK
<1>3. ASSUME NEW f \in Files,
             HunksMismatch(f) \/ WriteTemp(f) \/ CheckReplace(f) \/ CheckFails(f)
             \/ UndoFile(f) \/ UndoFails(f) \/ Edit(f)
      PROVE  UNCHANGED <<before, after, snapshot>>
  BY <1>3 DEF HunksMismatch, WriteTemp, CheckReplace, CheckFails, UndoFile,
     UndoFails, Edit
<1>4. CASE CheckRevision \/ AllRead \/ Prepare \/ AllSnapshots \/ AllStaged
             \/ StagingFails \/ RecheckRevision \/ MarkCommitting \/ Cleanup
  BY <1>4 DEF CheckRevision, AllRead, Prepare, AllSnapshots, AllStaged,
     StagingFails, RecheckRevision, MarkCommitting, Cleanup
<1>5. CASE Rename \/ RenameFails \/ Verify \/ AllReplaced \/ AllUndone
             \/ RecordFailure \/ RecordSuccess \/ Crash
  BY <1>5 DEF Rename, RenameFails, Verify, AllReplaced, AllUndone, RecordFailure,
     RecordSuccess, Crash
<1>6. ASSUME NEW t \in Txs,
             \/ Propose(t) \/ ApplyBegin(t)
             \/ StartupScan(t) \/ FinalizeBegin(t) \/ FinalizeSkips(t)
             \/ \E mode \in Modes : ProposeRecovery(t, mode)
             \/ RecoverBegin(t) \/ RecoverStale(t)
      PROVE  UNCHANGED <<before, after, snapshot>>
  BY <1>6 DEF Propose, ApplyBegin, StartupScan, FinalizeBegin, FinalizeSkips,
     ProposeRecovery, RecoverBegin, RecoverStale
<1>7. CASE UNCHANGED <<before, after, snapshot>>
  BY <1>7
<1> QED
  BY <1>1, <1>2, <1>3, <1>4, <1>5, <1>6, <1>7 DEF Next, Continue, vars

\* Every step keeps the disk free of transactions that are not past their reading.
LEMMA NothingStep ==
  ASSUME IInv, [Next]_vars
  PROVE  NothingOnDisk'
<1> USE ConstantsAssumption, NoneAssumption
    DEF ConstantsAssumption, NoneAssumption, NothingOnDisk, Running, Preparing,
        WriteManifest, disk, plan, queue
<1>0. /\ TypeOK /\ NothingOnDisk
      /\ op # None => op \in Ops /\ op.tx \in Txs /\ op.tx \in applied
  BY DEF IInv, TypeOK, Ops, OperationShape
<1> USE <1>0
<1>1. CASE Prepare
  <2>1. op'.tx = op.tx /\ op'.stage \in {"snapshot", "cleanup"}
    BY <1>1, GotoFields, GotoEachFields DEF Prepare
  <2> QED
    BY <1>1, <2>1 DEF Prepare, TypeOK
<1>2. CASE MarkCommitting \/ RecordFailure \/ RecordSuccess
  <2>1. op' = None \/ (op'.tx = op.tx /\ op'.stage \in {"check", "cleanup"})
    <3>1. CASE MarkCommitting
      <4>1. op # None /\ (GotoEach("check") \/ Goto("cleanup"))
        BY <3>1 DEF MarkCommitting
      <4> QED
        BY <4>1, GotoFields, GotoEachFields
    <3>2. CASE RecordFailure \/ RecordSuccess
      BY <3>2, LeaveFields
    <3> QED
      BY <1>2, <3>1, <3>2
  <2> QED
    BY <1>2, <2>1 DEF MarkCommitting, RecordFailure, RecordSuccess, TypeOK
<1>3. ASSUME NEW f \in Files, WriteSnapshot(f)
      PROVE  NothingOnDisk'
  <2>1. op'.tx = op.tx /\ op'.stage = "snapshot"
    BY <1>3, TickFields DEF WriteSnapshot
  <2> QED
    BY <1>3, <2>1 DEF WriteSnapshot, TypeOK
<1>4. ASSUME UNCHANGED <<manifest, snapshot, applied, scanned>>, op # None,
             \/ op' = None
             \/ op'.tx = op.tx /\ (op'.stage \in Preparing => op.stage \in Preparing)
      PROVE  NothingOnDisk'
  BY SMTT(30), <1>4
<1>5. ASSUME NEW f \in Files,
             HunksMismatch(f) \/ CheckReplace(f) \/ CheckFails(f) \/ ReadTarget(f)
      PROVE  NothingOnDisk'
  BY ZenonT(30), <1>5, <1>4, GotoFields, CheckFields, UndoFields, TickFields
     DEF HunksMismatch, CheckReplace, CheckFails, ReadTarget
<1>6. ASSUME NEW f \in Files, WriteTemp(f) \/ UndoFile(f) \/ UndoFails(f)
      PROVE  NothingOnDisk'
  BY <1>6, <1>4, TickFields, FailFields DEF WriteTemp, UndoFile, UndoFails
<1>7. CASE CheckRevision \/ RecheckRevision \/ AllRead \/ AllSnapshots
  BY <1>7, <1>4, GotoFields, GotoEachFields
     DEF CheckRevision, RecheckRevision, AllRead, AllSnapshots
<1>8. CASE AllStaged \/ StagingFails \/ Rename \/ AllReplaced \/ AllUndone
  BY <1>8, <1>4, GotoFields DEF AllStaged, StagingFails, Rename, AllReplaced, AllUndone
<1>9. CASE RenameFails \/ Verify \/ Cleanup \/ Crash
  BY <1>9, <1>4, UndoFields, VerifyFields DEF RenameFails, Verify, Cleanup, Crash
<1>10. ASSUME NEW t \in Txs, ApplyBegin(t) \/ FinalizeBegin(t) \/ RecoverBegin(t)
       PROVE  NothingOnDisk'
  BY <1>10 DEF ApplyBegin, FinalizeBegin, RecoverBegin, Begin
<1>11. ASSUME NEW t \in Txs, StartupScan(t) \/ FinalizeSkips(t)
       PROVE  NothingOnDisk'
  BY <1>11 DEF StartupScan, FinalizeSkips
<1>12. CASE UNCHANGED <<manifest, snapshot, applied, scanned, op>>
  BY SMTT(30), <1>12
<1> QED
  BY <1>1, <1>2, <1>3, <1>5, <1>6, <1>7, <1>8, <1>9, <1>10, <1>11, <1>12
     DEF Next, Continue, vars, Propose, ProposeRecovery, RecoverStale, Edit

\* Every step of an operation leads to a stage for which it has prepared.
LEMMA PreparedStep ==
  ASSUME IInv, [Next]_vars
  PROVE  Prepared'
<1> USE ConstantsAssumption, NoneAssumption
    DEF ConstantsAssumption, NoneAssumption, Prepared, Ready, Running, Staging,
        Committing, disk, plan
<1>0. /\ TypeOK /\ Prepared /\ SnapshotIsBefore
      /\ op # None => op \in Ops /\ op.tx \in Txs
  BY DEF IInv, TypeOK, Ops
<1> USE <1>0
<1>1. CASE CheckRevision
  BY <1>1, GotoFields, GotoEachFields DEF CheckRevision
<1>2. ASSUME NEW f \in Files, ReadTarget(f)
      PROVE  Prepared'
  <2>1. op'.tx = op.tx /\ op'.stage = "read" /\ op'.todo = op.todo \ {f}
    BY <1>2, TickFields DEF ReadTarget
  <2>2. file[f] # None
    BY <1>2 DEF TypeOK
  <2> QED
    BY <1>2, <2>1, <2>2 DEF ReadTarget, TypeOK
<1>3. CASE AllRead
  BY <1>3, GotoFields DEF AllRead
<1>4. CASE Prepare
  BY <1>4, GotoFields, GotoEachFields DEF Prepare
<1>5. ASSUME NEW f \in Files, WriteSnapshot(f)
      PROVE  Prepared'
  <2>1. op'.tx = op.tx /\ op'.stage = "snapshot" /\ op'.todo = op.todo \ {f}
    BY <1>5, TickFields DEF WriteSnapshot
  <2>2. f \in Targets[op.tx]
    BY <1>5 DEF WriteSnapshot, IInv, OperationShape
  <2> QED
    BY <1>5, <2>1, <2>2 DEF WriteSnapshot, TypeOK
<1>6. CASE AllSnapshots
  <2>1. op'.tx = op.tx /\ op'.stage = "stage"
    BY <1>6, GotoEachFields DEF AllSnapshots
  <2>2. Ready(op.tx)
    BY <1>6 DEF AllSnapshots, SnapshotIsBefore
  <2> QED
    BY <1>6, <2>1, <2>2 DEF AllSnapshots
<1>7. ASSUME UNCHANGED <<before, after, snapshot>>, op # None,
             op.stage \in Staging \cup Committing,
             \/ op' = None
             \/ op'.tx = op.tx /\ op'.stage \notin {"read", "prepare", "snapshot"}
      PROVE  Prepared'
  BY <1>7
<1>8. ASSUME UNCHANGED <<before, after, snapshot>>,
             op' = None \/ op'.stage \in {"revision", "finish", "cleanup"}
      PROVE  Prepared'
  BY SMTT(30), <1>8
<1>9. ASSUME NEW f \in Files, WriteTemp(f) \/ CheckReplace(f) \/ CheckFails(f)
      PROVE  Prepared'
  BY ZenonT(30), <1>9, <1>7, TickFields, CheckFields, UndoFields
     DEF WriteTemp, CheckReplace, CheckFails
<1>10. ASSUME NEW f \in Files, UndoFile(f) \/ UndoFails(f)
      PROVE  Prepared'
  BY <1>10, <1>7, TickFields, FailFields DEF UndoFile, UndoFails
<1>11. CASE AllStaged \/ RecheckRevision \/ MarkCommitting
  BY <1>11, <1>7, GotoFields, GotoEachFields DEF AllStaged, RecheckRevision, MarkCommitting
<1>12. CASE Rename \/ RenameFails \/ Verify \/ AllUndone
  BY <1>12, <1>7, GotoFields, UndoFields, VerifyFields
     DEF Rename, RenameFails, Verify, AllUndone
<1>13. CASE StagingFails \/ AllReplaced \/ RecordFailure \/ RecordSuccess
              \/ \E f \in Files : HunksMismatch(f)
  BY <1>13, <1>8, GotoFields
     DEF StagingFails, AllReplaced, RecordFailure, RecordSuccess, Leave, HunksMismatch
<1>14. CASE Cleanup \/ Crash
  BY <1>14, <1>8 DEF Cleanup, Crash
<1>15. ASSUME NEW t \in Txs, ApplyBegin(t) \/ FinalizeBegin(t)
       PROVE  Prepared'
  BY <1>15, <1>8 DEF ApplyBegin, FinalizeBegin, Begin
<1>16. ASSUME NEW t \in Txs, RecoverBegin(t)
       PROVE  Prepared'
  <2>1. op'.tx = t /\ op'.stage = "check"
    BY <1>16 DEF RecoverBegin, Begin
  <2>2. Ready(t)
    BY <1>16, ApprovedIsPending DEF SnapshotIsBefore
  <2> QED
    BY <1>16, <2>1, <2>2 DEF RecoverBegin
<1>17. CASE UNCHANGED <<before, after, snapshot, op>>
  BY <1>17
<1> QED
  BY <1>1, <1>2, <1>3, <1>4, <1>5, <1>6, <1>9, <1>10, <1>11, <1>12, <1>13, <1>14,
     <1>15, <1>16, <1>17
     DEF Next, Continue, vars, Propose, StartupScan, FinalizeSkips, ProposeRecovery,
         RecoverStale, Edit

\* Every step of an operation leaves the manifest as its next stage expects it.
LEMMA ManifestStep ==
  ASSUME IInv, [Next]_vars
  PROVE  ManifestKept'
<1> USE DEF ManifestKept, Running, Staging, Committing, Replacing, Modes, WriteManifest,
            disk, plan
<1>0. /\ TypeOK /\ ManifestKept /\ OperationShape
      /\ op # None => op \in Ops /\ op.tx \in Txs
  BY DEF IInv, TypeOK, Ops
<1> USE <1>0
<1>1. CASE Prepare
  BY <1>1, GotoFields, GotoEachFields DEF Prepare, TypeOK
<1>2. CASE MarkCommitting
  BY <1>2, GotoFields, GotoEachFields DEF MarkCommitting, TypeOK
<1>3. ASSUME \/ op' = None \/ op'.kind = "finalize"
             \/ /\ op'.kind = "apply"
                /\ op'.stage \in {"revision", "read", "prepare", "cleanup"}
      PROVE  ManifestKept'
  BY <1>3
<1>4. CASE RecordFailure \/ RecordSuccess
  <2>1. op' = None \/ (op'.kind = "apply" /\ op'.stage = "cleanup")
    BY <1>4, LeaveFields
  <2> QED
    BY <1>3, <2>1
<1>5. ASSUME UNCHANGED manifest, op # None, op'.tx = op.tx, op'.kind = op.kind,
             \/ op'.stage = op.stage
             \/ op.stage \in Staging \cup {"snapshot"} /\ op'.stage \in Staging
             \/ op.stage \in Committing /\ op'.stage \in Committing \cup {"finish"}
      PROVE  ManifestKept'
  BY <1>5
<1>6. ASSUME NEW f \in Files,
             ReadTarget(f) \/ WriteSnapshot(f) \/ WriteTemp(f) \/ UndoFile(f)
      PROVE  ManifestKept'
  BY SMTT(30), <1>6, <1>5, TickFields, FailFields
     DEF ReadTarget, WriteSnapshot, WriteTemp, UndoFile
<1>7. ASSUME NEW f \in Files, CheckReplace(f) \/ CheckFails(f) \/ UndoFails(f)
      PROVE  ManifestKept'
  BY <1>7, <1>5, CheckFields, UndoFields, FailFields DEF CheckReplace, CheckFails, UndoFails
<1>8. CASE AllSnapshots \/ AllStaged
  BY <1>8, <1>5, GotoFields, GotoEachFields DEF AllSnapshots, AllStaged
<1>9. CASE RecheckRevision
  BY <1>9, <1>3, <1>5, GotoFields DEF RecheckRevision
<1>10. CASE Rename \/ RenameFails \/ Verify
  BY <1>10, <1>5, GotoFields, UndoFields, VerifyFields DEF Rename, RenameFails, Verify
<1>11. CASE AllReplaced \/ AllUndone
  BY <1>11, <1>5, GotoFields DEF AllReplaced, AllUndone
<1>12. CASE \/ CheckRevision \/ AllRead \/ StagingFails
            \/ \E f \in Files : HunksMismatch(f)
  BY <1>12, <1>3, GotoFields, GotoEachFields
     DEF CheckRevision, AllRead, StagingFails, HunksMismatch
<1>13. CASE Cleanup \/ Crash
  BY <1>13, <1>3 DEF Cleanup, Crash
<1>14. ASSUME NEW t \in Txs, ApplyBegin(t) \/ FinalizeBegin(t)
       PROVE  ManifestKept'
  BY <1>14, <1>3 DEF ApplyBegin, FinalizeBegin, Begin
<1>15. ASSUME NEW t \in Txs, RecoverBegin(t)
       PROVE  ManifestKept'
  <2>1. op'.tx = t /\ op'.kind \in Modes /\ op'.stage = "check"
    BY <1>15 DEF RecoverBegin, Begin, TypeOK, Proposals
  <2> QED
    BY <1>15, <2>1, ApprovedIsPending DEF RecoverBegin
<1>16. CASE UNCHANGED <<manifest, op>>
  BY <1>16
<1> QED
  BY <1>1, <1>2, <1>4, <1>6, <1>7, <1>8, <1>9, <1>10, <1>11, <1>12, <1>13, <1>14,
     <1>15, <1>16
     DEF Next, Continue, vars, Propose, StartupScan, FinalizeSkips, ProposeRecovery,
         RecoverStale, Edit

\* Between a check and its rename, only an edit changes what was compared.
LEMMA RenameStep ==
  ASSUME IInv, [Next]_vars
  PROVE  RenameChecked'
<1> USE DEF RenameChecked, Running, Replacing, disk, plan
<1>0. /\ TypeOK /\ RenameChecked
      /\ op # None => op \in Ops /\ op.tx \in Txs
  BY DEF IInv, TypeOK, Ops
<1> USE <1>0
<1>1. ASSUME NEW f \in Files, CheckReplace(f)
      PROVE  RenameChecked'
  <2>1. op'.tx = op.tx /\ op'.kind = op.kind /\ op'.cur = f
    BY <1>1, CheckFields DEF CheckReplace
  <2> QED
    BY <1>1, <2>1 DEF CheckReplace, Source, Wanted, Present
<1>2. ASSUME NEW f \in Files, Edit(f)
      PROVE  RenameChecked'
  <2>1. UNCHANGED <<op, before, after, snapshot, temp>> /\ late' \in BOOLEAN
    BY <1>2 DEF Edit, TypeOK
  <2>2. ASSUME op # None, op.stage = "rename", ~late'
        PROVE  ~late /\ file'[op.cur] = file[op.cur]
    <3>1. op.kind \in Replacing
      BY <2>2 DEF IInv, OperationShape, Ops, Kinds, Modes
    <3> QED
      BY <1>2, <2>2, <3>1 DEF Edit, TypeOK, Modes
  <2> QED
    BY <2>1, <2>2 DEF Source, Wanted, Present
<1>3. ASSUME op' = None \/ op'.stage # "rename"
      PROVE  RenameChecked'
  BY <1>3
<1>4. ASSUME NEW f \in Files,
             ReadTarget(f) \/ WriteSnapshot(f) \/ WriteTemp(f) \/ UndoFile(f)
      PROVE  RenameChecked'
  BY <1>4, <1>3, TickFields, FailFields DEF ReadTarget, WriteSnapshot, WriteTemp, UndoFile
<1>5. ASSUME NEW f \in Files, HunksMismatch(f) \/ CheckFails(f) \/ UndoFails(f)
      PROVE  RenameChecked'
  <2>1. CASE HunksMismatch(f) \/ CheckFails(f)
    BY <2>1, <1>3, GotoFields, UndoFields DEF HunksMismatch, CheckFails
  <2>2. CASE UndoFails(f)
    <3>1. op # None /\ op.stage = "undo"
      BY <2>2 DEF UndoFails
    <3> QED
      BY <2>2, <3>1, <1>3, FailFields DEF UndoFails
  <2> QED
    BY <1>5, <2>1, <2>2
<1>6. CASE CheckRevision \/ AllRead \/ Prepare \/ AllSnapshots
  BY <1>6, <1>3, GotoFields, GotoEachFields DEF CheckRevision, AllRead, Prepare, AllSnapshots
<1>7. CASE AllStaged \/ StagingFails \/ RecheckRevision \/ MarkCommitting
  BY <1>7, <1>3, GotoFields, GotoEachFields
     DEF AllStaged, StagingFails, RecheckRevision, MarkCommitting
<1>8. CASE Rename \/ RenameFails \/ Verify
  BY <1>8, <1>3, GotoFields, UndoFields, VerifyFields DEF Rename, RenameFails, Verify
<1>9. CASE AllReplaced \/ AllUndone \/ RecordFailure \/ RecordSuccess
  BY <1>9, <1>3, GotoFields DEF AllReplaced, AllUndone, RecordFailure, RecordSuccess, Leave
<1>10. CASE Cleanup \/ Crash
  BY <1>10, <1>3 DEF Cleanup, Crash
<1>11. ASSUME NEW t \in Txs, ApplyBegin(t) \/ FinalizeBegin(t) \/ RecoverBegin(t)
       PROVE  RenameChecked'
  BY <1>11, <1>3 DEF ApplyBegin, FinalizeBegin, RecoverBegin, Begin
<1>12. CASE UNCHANGED <<file, snapshot, temp, before, after, op, late>>
  BY <1>12 DEF Source, Wanted, Present
<1> QED
  BY <1>1, <1>2, <1>4, <1>5, <1>6, <1>7, <1>8, <1>9, <1>10, <1>11, <1>12
     DEF Next, Continue, vars, Propose, StartupScan, FinalizeSkips, ProposeRecovery,
         RecoverStale

\* The inductive invariant holds of every reachable state.
THEOREM Invariance == Spec => []IInv
<1> USE ConstantsAssumption, NoneAssumption DEF ConstantsAssumption, NoneAssumption
<1>1. Init => IInv
  <2> SUFFICES ASSUME Init
               PROVE  IInv
    OBVIOUS
  <2>1. TypeOK
    BY InitTypeOK
  <2>2. op = None /\ scanned = {} /\ \A t \in Txs : manifest[t] = None
    BY DEF Init
  <2>3. \A t \in Txs : \A f \in Files : snapshot[t][f] = None
    BY DEF Init
  <2> QED
    BY <2>1, <2>2, <2>3 DEF IInv, OperationShape, SnapshotIsBefore, NothingOnDisk,
       Prepared, ManifestKept, RenameChecked
<1>2. IInv /\ [Next]_vars => IInv'
  BY TypeStep, ShapeStep, SnapshotStep, NothingStep, PreparedStep, ManifestStep,
     RenameStep DEF IInv
<1> QED
  BY <1>1, <1>2, PTL DEF Spec

\* Every variable keeps to its type.
THEOREM TypeCorrect == Spec => []TypeOK
<1>1. IInv => TypeOK
  BY DEF IInv
<1> QED
  BY <1>1, Invariance, PTL

\* Apart from edits, only a rename and an undo change files.
LEMMA ReplacingSteps ==
  ASSUME [Next]_vars, edits' = edits, file' # file, edits \in 0..MaxEdits
  PROVE  Rename \/ \E f \in Files : UndoFile(f)
<1> USE ConstantsAssumption DEF ConstantsAssumption
<1>1. ASSUME NEW f \in Files,
             \/ ReadTarget(f) \/ HunksMismatch(f) \/ WriteSnapshot(f) \/ WriteTemp(f)
             \/ CheckReplace(f) \/ CheckFails(f) \/ UndoFails(f)
      PROVE  FALSE
  BY <1>1 DEF ReadTarget, HunksMismatch, WriteSnapshot, WriteTemp, CheckReplace,
     CheckFails, UndoFails
<1>2. ASSUME \/ CheckRevision \/ AllRead \/ Prepare \/ AllSnapshots \/ AllStaged
             \/ StagingFails \/ RecheckRevision \/ MarkCommitting \/ Cleanup
             \/ RenameFails \/ Verify \/ AllReplaced \/ AllUndone
             \/ RecordFailure \/ RecordSuccess \/ Crash \/ UNCHANGED vars
      PROVE  FALSE
  BY <1>2 DEF CheckRevision, AllRead, Prepare, AllSnapshots, AllStaged, StagingFails,
     RecheckRevision, MarkCommitting, Cleanup, RenameFails, Verify, AllReplaced,
     AllUndone, RecordFailure, RecordSuccess, Crash, vars
<1>3. ASSUME NEW t \in Txs,
             \/ Propose(t) \/ ApplyBegin(t)
             \/ StartupScan(t) \/ FinalizeBegin(t) \/ FinalizeSkips(t)
             \/ \E mode \in Modes : ProposeRecovery(t, mode)
             \/ RecoverBegin(t) \/ RecoverStale(t)
      PROVE  FALSE
  BY <1>3 DEF Propose, ApplyBegin, StartupScan, FinalizeBegin, FinalizeSkips,
     ProposeRecovery, RecoverBegin, RecoverStale
<1>4. ASSUME NEW f \in Files, Edit(f)
      PROVE  FALSE
  <2>1. edits' = edits + 1
    BY <1>4 DEF Edit
  <2> QED
    BY <2>1
<1> QED
  BY <1>1, <1>2, <1>3, <1>4 DEF Next, Continue

\* Only four actions write a manifest.
LEMMA ManifestSteps ==
  ASSUME [Next]_vars
  PROVE  UNCHANGED manifest \/ Prepare \/ MarkCommitting \/ RecordFailure \/ RecordSuccess
<1> USE DEF disk
<1>1. ASSUME NEW f \in Files,
             \/ ReadTarget(f) \/ HunksMismatch(f) \/ WriteSnapshot(f) \/ WriteTemp(f)
             \/ CheckReplace(f) \/ CheckFails(f) \/ UndoFile(f) \/ UndoFails(f) \/ Edit(f)
      PROVE  UNCHANGED manifest
  BY <1>1 DEF ReadTarget, HunksMismatch, WriteSnapshot, WriteTemp, CheckReplace,
     CheckFails, UndoFile, UndoFails, Edit
<1>2. ASSUME \/ CheckRevision \/ AllRead \/ AllSnapshots \/ AllStaged
             \/ StagingFails \/ RecheckRevision \/ Cleanup \/ Rename
             \/ RenameFails \/ Verify \/ AllReplaced \/ AllUndone
             \/ Crash \/ UNCHANGED vars
      PROVE  UNCHANGED manifest
  BY <1>2 DEF CheckRevision, AllRead, AllSnapshots, AllStaged, StagingFails,
     RecheckRevision, Cleanup, Rename, RenameFails, Verify, AllReplaced, AllUndone,
     Crash, vars
<1>3. ASSUME NEW t \in Txs,
             \/ Propose(t) \/ ApplyBegin(t)
             \/ StartupScan(t) \/ FinalizeBegin(t) \/ FinalizeSkips(t)
             \/ \E mode \in Modes : ProposeRecovery(t, mode)
             \/ RecoverBegin(t) \/ RecoverStale(t)
      PROVE  UNCHANGED manifest
  BY <1>3 DEF Propose, ApplyBegin, StartupScan, FinalizeBegin, FinalizeSkips,
     ProposeRecovery, RecoverBegin, RecoverStale
<1> QED
  BY <1>1, <1>2, <1>3 DEF Next, Continue

\* Whatever the patches, faults, edits and crashes: a file is replaced only once
\* every snapshot of its transaction is on disk (executeRecovery and the commit
\* loop of applyPatchTransaction never outrun the write-ahead record).
THEOREM SnapshotsFirstTheorem == Spec => SnapshotsFirst
<1> DEFINE Ahead ==
      \A f \in Files :
        Replaces(f) =>
          /\ manifest[op.tx] \in Pending \ {"prepared"}
             \/ op.kind \in Modes
          /\ f \in Targets[op.tx]
          /\ \A g \in Targets[op.tx] :
               snapshot[op.tx][g] # None /\ snapshot[op.tx][g] = before[op.tx][g]
<1>1. ASSUME IInv, [Next]_vars
      PROVE  Ahead
  <2> SUFFICES ASSUME NEW f \in Files, Replaces(f)
               PROVE  /\ manifest[op.tx] \in Pending \ {"prepared"}
                         \/ op.kind \in Modes
                      /\ f \in Targets[op.tx] /\ Ready(op.tx)
    BY DEF Ready
  <2>1. file \in [Files -> Contents] /\ file'[f] # file[f]
    BY <1>1 DEF Replaces, IInv, TypeOK
  <2>2. CASE Rename
    BY <1>1, <2>1, <2>2 DEF Rename, Running, Replacing, IInv, OperationShape, Prepared,
       ManifestKept, Committing, Pending
  <2>3. ASSUME NEW g \in Files, UndoFile(g)
        PROVE  /\ manifest[op.tx] \in Pending \ {"prepared"}
                  \/ op.kind \in Modes
               /\ f \in Targets[op.tx] /\ Ready(op.tx)
    <3>1. g = f
      BY <2>1, <2>3 DEF UndoFile
    <3> QED
      BY <1>1, <2>3, <3>1 DEF UndoFile, Running, Replacing, IInv, OperationShape,
         Prepared, ManifestKept, Committing, Pending
  <2>4. Rename \/ \E g \in Files : UndoFile(g)
    BY <1>1, <2>1, ReplacingSteps DEF Replaces, IInv, TypeOK
  <2> QED
    BY <2>2, <2>3, <2>4
<1>2. IInv /\ [Next]_vars => [Ahead]_vars
  BY <1>1
<1> QED
  BY <1>2, Invariance, PTL DEF Spec, SnapshotsFirst

\* Whatever the patches, faults, edits and crashes: outside the undo of a failed
\* apply, a file is replaced only while it holds a content its transaction
\* knows, unless it was edited after its check.
THEOREM KnownContentTheorem == Spec => KnownContentOnly
<1> DEFINE Known ==
      \A f \in Files :
        Replaces(f) /\ ~late /\ ~(op.kind = "apply" /\ op.stage = "undo") =>
          file[f] \in {before[op.tx][f], after[op.tx][f]}
<1>1. ASSUME IInv, [Next]_vars
      PROVE  Known
  <2> SUFFICES ASSUME NEW f \in Files, Replaces(f), ~late,
                      ~(op.kind = "apply" /\ op.stage = "undo")
               PROVE  file[f] \in {before[op.tx][f], after[op.tx][f]}
    OBVIOUS
  <2>1. file \in [Files -> Contents] /\ file'[f] # file[f]
    BY <1>1 DEF Replaces, IInv, TypeOK
  <2>2. CASE Rename
    <3>1. f = op.cur
      BY <2>1, <2>2 DEF Rename
    <3> QED
      BY <1>1, <2>2, <3>1 DEF Rename, Running, IInv, RenameChecked, Present
  <2>3. ASSUME NEW g \in Files, UndoFile(g)
        PROVE  file[f] \in {before[op.tx][f], after[op.tx][f]}
    <3>1. g = f
      BY <2>1, <2>3 DEF UndoFile
    <3>2. op.kind # "apply" /\ MayRestore(f)
      BY <2>3, <3>1 DEF UndoFile, Running
    <3> QED
      BY <3>2 DEF MayRestore, Wanted
  <2>4. Rename \/ \E g \in Files : UndoFile(g)
    BY <1>1, <2>1, ReplacingSteps DEF Replaces, IInv, TypeOK
  <2> QED
    BY <2>2, <2>3, <2>4
<1>2. IInv /\ [Next]_vars => [Known]_vars
  BY <1>1
<1> QED
  BY <1>2, Invariance, PTL DEF Spec, KnownContentOnly

\* A final manifest changes only to another final one, and only by a finalisation.
THEOREM FinalStaysTheorem == Spec => FinalStays
<1> DEFINE Stays ==
      \A t \in Txs :
        manifest[t] \in Final =>
          /\ manifest'[t] \in Final
          /\ manifest'[t] # manifest[t] => op.kind = "finalize"
<1>1. ASSUME IInv, [Next]_vars
      PROVE  Stays
  <2> USE ConstantsAssumption, NoneAssumption
      DEF ConstantsAssumption, NoneAssumption, Running, Final, Pending
  <2> SUFFICES ASSUME NEW t \in Txs, manifest[t] \in Final
               PROVE  /\ manifest'[t] \in Final
                      /\ manifest'[t] # manifest[t] => op.kind = "finalize"
    OBVIOUS
  <2>1. /\ op # None => op \in Ops /\ op.tx \in Txs
        /\ manifest \in [Txs -> Pending \cup Final \cup {None}]
    BY <1>1 DEF IInv, TypeOK, Ops
  <2>2. CASE UNCHANGED manifest
    BY <2>2
  <2>3. CASE Prepare
    <3>1. manifest[op.tx] = None
      BY <1>1, <2>1, <2>3 DEF Prepare, IInv, NothingOnDisk, Preparing
    <3> QED
      BY <2>1, <2>3, <3>1 DEF Prepare, WriteManifest
  <2>4. CASE MarkCommitting
    <3>1. manifest[op.tx] = "prepared"
      BY <1>1, <2>1, <2>4 DEF MarkCommitting, IInv, ManifestKept, Staging
    <3> QED
      BY <2>1, <2>4, <3>1 DEF MarkCommitting, WriteManifest
  <2>5. CASE RecordFailure
    <3>1. manifest[op.tx] \in Pending
      BY <1>1, <2>1, <2>5 DEF RecordFailure, Replacing, IInv, ManifestKept, Committing
    <3> QED
      BY <2>1, <2>5, <3>1 DEF RecordFailure, WriteManifest
  <2>6. CASE RecordSuccess
    <3>1. op.kind # "finalize" => manifest[op.tx] \in Pending
      BY <1>1, <2>1, <2>6 DEF RecordSuccess, Kinds, IInv, ManifestKept
    <3> QED
      BY <2>1, <2>6, <3>1 DEF RecordSuccess, WriteManifest, Modes
  <2> QED
    BY <1>1, <2>2, <2>3, <2>4, <2>5, <2>6, ManifestSteps
<1>2. IInv /\ [Next]_vars => [Stays]_vars
  BY <1>1
<1> QED
  BY <1>2, Invariance, PTL DEF Spec, FinalStays

(***************************************************************************)
(* How far an operation has come.  As long as nobody else edits, what the  *)
(* files hold follows from the stage of the operation and its todo list.   *)
(* These invariants are proved on top of IInv.                             *)
(***************************************************************************)

\* Until its first replacement the files of an apply still hold what it read.
Untouched ==
  op # None /\ edits = 0 /\ op.kind = "apply"
    /\ op.stage \in {"read", "prepare", "snapshot"} \cup Staging =>
    \A f \in Targets[op.tx] :
      (op.stage = "read" /\ f \in op.todo) \/ AtBefore(op.tx, f)

\* What is no longer to do has been replaced, and nothing else is there to do at
\* the end; a finalisation finds all files replaced.
Replaced ==
  op # None /\ edits = 0 =>
    /\ op.kind \in Replacing /\ op.stage \in {"check", "rename", "verify", "finish"} =>
         \A f \in Targets[op.tx] \ op.todo : file[f] = Wanted(f)
    /\ op.kind \in Replacing /\ op.stage \in {"finish", "undone"} => op.todo = {}
    /\ op.kind = "finalize" => \A f \in Targets[op.tx] : AtAfter(op.tx, f)

\* What an apply has replaced it will undo, and the rest holds its old content;
\* an undo misses one file at most, and only where its verification failed.
Undoing ==
  op # None /\ edits = 0 /\ op.kind = "apply" =>
    /\ op.stage \in Preparing \cup {"snapshot"} \cup Staging => op.done = {}
    /\ op.stage \in {"check", "rename", "verify"} => op.done = Targets[op.tx] \ op.todo
    /\ op.stage \in {"check", "rename"} => \A f \in op.todo : AtBefore(op.tx, f)
    /\ op.stage \in {"rename", "verify"} => op.cur \in op.todo
    /\ op.stage = "verify" => /\ AtAfter(op.tx, op.cur)
                              /\ \A f \in op.todo \ {op.cur} : AtBefore(op.tx, f)
    /\ op.stage \in {"undo", "undone"} /\ ~op.errors =>
         \E unread \in Targets[op.tx] :
           /\ AtBefore(op.tx, unread) \/ (VerifyFaults /\ AtAfter(op.tx, unread))
           /\ \A f \in Targets[op.tx] \ (op.todo \cup {unread}) : AtBefore(op.tx, f)

\* Only an edit changes the number of edits.
LEMMA EditSteps ==
  ASSUME [Next]_vars, edits \in 0..MaxEdits
  PROVE  \/ UNCHANGED edits
         \/ edits' # 0 /\ \E f \in Files : Edit(f)
<1>1. ASSUME NEW f \in Files,
             \/ ReadTarget(f) \/ HunksMismatch(f) \/ WriteSnapshot(f) \/ WriteTemp(f)
             \/ CheckReplace(f) \/ CheckFails(f) \/ UndoFile(f) \/ UndoFails(f)
      PROVE  UNCHANGED edits
  BY <1>1 DEF ReadTarget, HunksMismatch, WriteSnapshot, WriteTemp, CheckReplace,
     CheckFails, UndoFile, UndoFails
<1>2. ASSUME \/ CheckRevision \/ AllRead \/ Prepare \/ AllSnapshots \/ AllStaged
             \/ StagingFails \/ RecheckRevision \/ MarkCommitting \/ Cleanup \/ Rename
             \/ RenameFails \/ Verify \/ AllReplaced \/ AllUndone
             \/ RecordFailure \/ RecordSuccess \/ Crash \/ UNCHANGED vars
      PROVE  UNCHANGED edits
  BY <1>2 DEF CheckRevision, AllRead, Prepare, AllSnapshots, AllStaged, StagingFails,
     RecheckRevision, MarkCommitting, Cleanup, Rename, RenameFails, Verify, AllReplaced,
     AllUndone, RecordFailure, RecordSuccess, Crash, vars
<1>3. ASSUME NEW t \in Txs,
             \/ Propose(t) \/ ApplyBegin(t)
             \/ StartupScan(t) \/ FinalizeBegin(t) \/ FinalizeSkips(t)
             \/ \E mode \in Modes : ProposeRecovery(t, mode)
             \/ RecoverBegin(t) \/ RecoverStale(t)
      PROVE  UNCHANGED edits
  BY <1>3 DEF Propose, ApplyBegin, StartupScan, FinalizeBegin, FinalizeSkips,
     ProposeRecovery, RecoverBegin, RecoverStale
<1>4. ASSUME NEW f \in Files, Edit(f)
      PROVE  edits' # 0
  <2>1. edits' = edits + 1
    BY <1>4 DEF Edit
  <2> QED
    BY <2>1, ConstantsAssumption DEF ConstantsAssumption
<1> QED
  BY <1>1, <1>2, <1>3, <1>4 DEF Next, Continue

\* As long as nobody has edited, nobody edits in this step.
LEMMA NoEdit ==
  ASSUME TypeOK, [Next]_vars, edits' = 0
  PROVE  edits = 0 /\ ~\E f \in Files : Edit(f)
<1>1. edits \in 0..MaxEdits /\ MaxEdits \in Nat
  BY ConstantsAssumption DEF TypeOK, ConstantsAssumption
<1>2. ASSUME NEW f \in Files, Edit(f)
      PROVE  FALSE
  <2>1. edits' = edits + 1
    BY <1>2 DEF Edit
  <2> QED
    BY <1>1, <2>1
<1>3. edits = 0
  BY <1>1, EditSteps
<1> QED
  BY <1>2, <1>3

\* Every step of an apply before its first replacement leaves its files as read.
LEMMA UntouchedStep ==
  ASSUME IInv, Untouched, [Next]_vars, edits' = 0
  PROVE  Untouched'
<1> USE ConstantsAssumption, NoneAssumption
    DEF ConstantsAssumption, NoneAssumption, Untouched, AtBefore, Running, Replacing,
        Staging, disk, plan
<1>0. /\ TypeOK /\ edits = 0
      /\ op # None => op \in Ops /\ op.tx \in Txs
      /\ op # None => op.todo \subseteq Targets[op.tx]
      /\ ~\E f \in Files : Edit(f)
  BY NoEdit DEF IInv, TypeOK, Ops, OperationShape
<1> USE <1>0
<1>1. ASSUME NEW f \in Files, ReadTarget(f)
      PROVE  Untouched'
  <2>1. /\ op'.tx = op.tx /\ op'.kind = op.kind /\ op'.stage = "read"
        /\ op'.todo = op.todo \ {f} /\ op # None /\ op.stage = "read"
    BY <1>1, TickFields DEF ReadTarget
  <2>2. /\ file' = file /\ before'[op.tx][f] = file[f]
        /\ \A g \in Files : g # f => before'[op.tx][g] = before[op.tx][g]
    BY <1>1 DEF ReadTarget, TypeOK
  <2> QED
    BY <2>1, <2>2
<1>2. CASE CheckRevision
  BY <1>2, GotoFields, GotoEachFields DEF CheckRevision
<1>3. CASE AllRead
  BY <1>3, GotoFields DEF AllRead
<1>4. ASSUME UNCHANGED <<file, before>>, op # None, op'.tx = op.tx, op'.kind = op.kind,
             op.stage \in {"prepare", "snapshot"} \cup Staging
      PROVE  Untouched'
  BY <1>4
<1>5. ASSUME \/ op' = None \/ op'.kind # "apply"
             \/ op'.stage \notin {"read", "prepare", "snapshot"} \cup Staging
      PROVE  Untouched'
  BY <1>5
<1>6. ASSUME NEW f \in Files, WriteSnapshot(f) \/ WriteTemp(f)
      PROVE  Untouched'
  BY <1>6, <1>4, TickFields DEF WriteSnapshot, WriteTemp
<1>7. CASE Prepare \/ AllSnapshots \/ AllStaged \/ RecheckRevision \/ StagingFails
  BY <1>7, <1>4, GotoFields, GotoEachFields
     DEF Prepare, AllSnapshots, AllStaged, RecheckRevision, StagingFails
<1>8. ASSUME NEW f \in Files, HunksMismatch(f) \/ UndoFile(f)
      PROVE  Untouched'
  BY <1>8, <1>5, GotoFields, TickFields, FailFields DEF HunksMismatch, UndoFile
<1>9. ASSUME NEW f \in Files, CheckReplace(f) \/ CheckFails(f)
      PROVE  Untouched'
  BY <1>9, <1>5, CheckFields, UndoFields DEF CheckReplace, CheckFails
<1>10. ASSUME NEW f \in Files, UndoFails(f)
       PROVE  Untouched'
  <2>1. op # None /\ op.stage = "undo"
    BY <1>10 DEF UndoFails
  <2> QED
    BY <2>1, <1>5, <1>10, FailFields DEF UndoFails
<1>11. CASE MarkCommitting
  BY <1>11, <1>5, GotoFields, GotoEachFields DEF MarkCommitting
<1>12. CASE Rename \/ RenameFails \/ Verify
  BY <1>12, <1>5, GotoFields, UndoFields, VerifyFields DEF Rename, RenameFails, Verify
<1>13. CASE AllReplaced \/ AllUndone
  BY <1>13, <1>5, GotoFields DEF AllReplaced, AllUndone
<1>14. CASE RecordFailure \/ RecordSuccess
  BY <1>14, <1>5, LeaveFields
<1>15. CASE Cleanup \/ Crash
  BY <1>15, <1>5 DEF Cleanup, Crash
<1>16. ASSUME NEW t \in Txs, ApplyBegin(t) \/ FinalizeBegin(t) \/ RecoverBegin(t)
       PROVE  Untouched'
  BY <1>16, <1>5 DEF ApplyBegin, FinalizeBegin, RecoverBegin, Begin
<1>17. CASE UNCHANGED <<file, before, op>>
  BY SMTT(30), <1>17
<1> QED
  BY <1>1, <1>2, <1>3, <1>6, <1>7, <1>8, <1>9, <1>10, <1>11, <1>12, <1>13, <1>14,
     <1>15, <1>16, <1>17
     DEF Next, Continue, vars, Propose, StartupScan, FinalizeSkips, ProposeRecovery,
         RecoverStale

\* Every step of an operation replaces what it takes off its list.
LEMMA ReplacedStep ==
  ASSUME IInv, Replaced, [Next]_vars, edits' = 0
  PROVE  Replaced'
<1> USE ConstantsAssumption, NoneAssumption
    DEF ConstantsAssumption, NoneAssumption, Replaced, AtAfter, AtBefore, Running,
        Replacing, Modes, Wanted, disk, plan
<1>0. /\ TypeOK /\ edits = 0
      /\ op # None => op \in Ops /\ op.tx \in Txs
      /\ op # None /\ op.kind = "finalize" => op.stage = "finish"
      /\ ~\E f \in Files : Edit(f)
  BY NoEdit DEF IInv, TypeOK, Ops, OperationShape
<1> USE <1>0
<1>1. ASSUME \/ op' = None
             \/ /\ op'.kind # "finalize"
                /\ op'.stage \notin {"check", "rename", "verify", "finish", "undone"}
      PROVE  Replaced'
  BY <1>1
<1>2. CASE MarkCommitting
  <2>1. op # None /\ op.kind = "apply" /\ (GotoEach("check") \/ Goto("cleanup"))
    BY <1>2 DEF MarkCommitting
  <2>2. op'.tx = op.tx /\ op'.kind = op.kind
    BY <2>1, GotoEachFields, GotoFields
  <2>3. (op'.stage = "check" /\ op'.todo = Targets[op.tx]) \/ op'.stage = "cleanup"
    BY <2>1, GotoEachFields, GotoFields
  <2> QED
    BY <2>1, <2>2, <2>3
<1>3. ASSUME NEW t \in Txs, RecoverBegin(t)
      PROVE  Replaced'
  <2>1. /\ op'.tx = t /\ op'.kind = proposal[t].mode /\ op'.stage = "check"
        /\ op'.todo = IF proposal[t].mode = "resume"
                      THEN {f \in Targets[t] : ~AtAfter(t, f)}
                      ELSE {f \in Targets[t] : ~AtBefore(t, f)}
        /\ UNCHANGED <<file, before, after>>
    BY <1>3 DEF RecoverBegin, Begin
  <2>2. proposal[t].mode \in {"resume", "rollback"}
    BY <1>3 DEF RecoverBegin, TypeOK, Proposals
  <2> QED
    BY <2>1, <2>2
<1>4. ASSUME NEW t \in Txs, FinalizeBegin(t)
      PROVE  Replaced'
  <2>1. \A f \in Targets[t] : AtAfter(t, f)
    BY <1>4 DEF FinalizeBegin, decideRecovery
  <2>2. /\ op'.tx = t /\ op'.kind = "finalize"
        /\ UNCHANGED <<file, before, after>>
    BY <1>4 DEF FinalizeBegin, Begin
  <2> QED
    BY <2>1, <2>2
<1>5. ASSUME NEW f \in Files, CheckReplace(f)
      PROVE  Replaced'
  <2>1. /\ op # None /\ op.stage = "check" /\ op.kind \in Replacing
        /\ UNCHANGED <<file, before, after>>
    BY <1>5 DEF CheckReplace
  <2> QED
    BY <1>5, <2>1, CheckFields
<1>6. CASE Rename
  <2>1. /\ op # None /\ op.stage = "rename" /\ op.kind \in Replacing
        /\ UNCHANGED <<before, after>> /\ Goto("verify")
    BY <1>6 DEF Rename
  <2>2. \A f \in Files : file'[f] = IF f = op.cur THEN Wanted(op.cur) ELSE file[f]
    BY <1>6, <2>1 DEF Rename, TypeOK, IInv, RenameChecked
  <2>3. /\ op'.tx = op.tx /\ op'.kind = op.kind /\ op'.stage = "verify"
        /\ op'.todo = op.todo
    BY <2>1, GotoFields
  <2> QED
    BY <2>1, <2>2, <2>3
<1>7. CASE Verify
  <2>1. /\ op # None /\ op.stage = "verify" /\ op.kind \in Replacing
        /\ UNCHANGED <<file, before, after>>
    BY <1>7 DEF Verify
  <2>2. op'.tx = op.tx /\ op'.kind = op.kind
    BY <1>7, <2>1, VerifyFields
  <2>3. CASE /\ op'.stage = "check" /\ op'.todo = op.todo \ {op.cur}
             /\ file[op.cur] = Wanted(op.cur)
    BY <2>1, <2>2, <2>3
  <2>4. CASE op'.stage = "undo"
    BY <1>1, <2>1, <2>2, <2>4
  <2> QED
    BY <1>7, <2>1, <2>3, <2>4, VerifyFields
<1>8. CASE AllReplaced
  <2>1. /\ op # None /\ op.stage = "check" /\ op.kind \in Replacing /\ op.todo = {}
        /\ UNCHANGED <<file, before, after>> /\ Goto("finish")
    BY <1>8 DEF AllReplaced
  <2> QED
    BY <2>1, GotoFields
<1>9. CASE AllUndone
  <2>1. /\ op # None /\ op.kind \in Replacing /\ op.todo = {} /\ Goto("undone")
    BY <1>9 DEF AllUndone
  <2> QED
    BY <2>1, GotoFields
<1>10. ASSUME NEW f \in Files, CheckFails(f) \/ UndoFile(f) \/ UndoFails(f)
       PROVE  Replaced'
  <2>1. op # None /\ op.kind \in Replacing
    BY <1>10 DEF CheckFails, UndoFile, UndoFails
  <2>2. op'.kind = op.kind /\ op'.stage = "undo"
    <3>1. CASE CheckFails(f)
      BY <2>1, <3>1, UndoFields DEF CheckFails
    <3>2. CASE UndoFile(f)
      BY <2>1, <3>2, TickFields, FailFields DEF UndoFile
    <3>3. CASE UndoFails(f)
      <4>1. op.stage = "undo"
        BY <3>3 DEF UndoFails
      <4> QED
        BY <2>1, <3>3, <4>1, FailFields DEF UndoFails
    <3> QED
      BY <1>10, <3>1, <3>2, <3>3
  <2> QED
    BY <1>1, <2>1, <2>2
<1>11. CASE RenameFails
  <2>1. op # None /\ op.kind \in Replacing /\ Undo(op.done)
    BY <1>11 DEF RenameFails
  <2> QED
    BY <1>1, <2>1, UndoFields
<1>12. CASE RecordFailure \/ RecordSuccess
  BY <1>1, <1>12, LeaveFields
<1>13. CASE Cleanup \/ Crash
  BY <1>13, <1>1 DEF Cleanup, Crash
<1>14. ASSUME NEW t \in Txs, ApplyBegin(t)
       PROVE  Replaced'
  BY <1>14, <1>1 DEF ApplyBegin, Begin
<1>15. ASSUME NEW f \in Files,
              ReadTarget(f) \/ WriteSnapshot(f) \/ WriteTemp(f) \/ HunksMismatch(f)
       PROVE  Replaced'
  BY <1>15, <1>1, TickFields, GotoFields
     DEF ReadTarget, WriteSnapshot, WriteTemp, HunksMismatch
<1>16. CASE CheckRevision \/ AllRead \/ Prepare \/ AllSnapshots
  BY <1>16, <1>1, GotoFields, GotoEachFields
     DEF CheckRevision, AllRead, Prepare, AllSnapshots
<1>17. CASE AllStaged \/ StagingFails \/ RecheckRevision
  BY <1>17, <1>1, GotoFields DEF AllStaged, StagingFails, RecheckRevision
<1>18. CASE UNCHANGED <<file, before, after, op>>
  BY SMTT(30), <1>18
<1> QED
  BY <1>2, <1>3, <1>4, <1>5, <1>6, <1>7, <1>8, <1>9, <1>10, <1>11, <1>12, <1>13,
     <1>14, <1>15, <1>16, <1>17, <1>18
     DEF Next, Continue, vars, Propose, StartupScan, FinalizeSkips, ProposeRecovery,
         RecoverStale

\* Every step of an apply keeps count of what is left to do and to undo.
LEMMA UndoingStep ==
  ASSUME IInv, Untouched, Replaced, Undoing, [Next]_vars, edits' = 0
  PROVE  Undoing'
<1> USE ConstantsAssumption, NoneAssumption
    DEF ConstantsAssumption, NoneAssumption, Undoing, AtAfter, AtBefore, Running,
        Replacing, Modes, Preparing, Staging, disk, plan
<1>0. /\ TypeOK /\ edits = 0
      /\ op # None => op \in Ops /\ op.tx \in Txs
      /\ op # None => op.todo \subseteq Targets[op.tx]
      /\ ~\E f \in Files : Edit(f)
  BY NoEdit DEF IInv, TypeOK, Ops, OperationShape
<1> USE <1>0
<1>1. ASSUME \/ op' = None \/ op'.kind # "apply"
             \/ op'.stage \in {"finish", "cleanup"}
      PROVE  Undoing'
  BY <1>1
<1>2. ASSUME op # None, op.stage \in Preparing \cup {"snapshot"} \cup Staging,
             op'.kind = op.kind, op'.done = op.done,
             op'.stage \in Preparing \cup {"snapshot"} \cup Staging
      PROVE  Undoing'
  BY <1>2
<1>3. ASSUME NEW f \in Files, ReadTarget(f) \/ WriteSnapshot(f) \/ WriteTemp(f)
      PROVE  Undoing'
  BY <1>3, <1>2, TickFields DEF ReadTarget, WriteSnapshot, WriteTemp
<1>4. CASE CheckRevision \/ AllRead \/ Prepare \/ AllSnapshots
  BY <1>4, <1>1, <1>2, GotoFields, GotoEachFields
     DEF CheckRevision, AllRead, Prepare, AllSnapshots
<1>5. CASE AllStaged \/ StagingFails \/ RecheckRevision \/ \E f \in Files : HunksMismatch(f)
  BY <1>5, <1>1, <1>2, GotoFields
     DEF AllStaged, StagingFails, RecheckRevision, HunksMismatch
<1>6. ASSUME NEW t \in Txs, ApplyBegin(t)
      PROVE  Undoing'
  BY <1>6 DEF ApplyBegin, Begin
<1>7. CASE MarkCommitting
  <2>1. /\ op # None /\ op.kind = "apply" /\ (GotoEach("check") \/ Goto("cleanup"))
        /\ op.stage = "mark" /\ UNCHANGED <<file, before, after>>
    BY <1>7 DEF MarkCommitting
  <2>2. op'.tx = op.tx /\ op'.kind = op.kind /\ op'.done = op.done
    BY <2>1, GotoEachFields, GotoFields
  <2>3. (op'.stage = "check" /\ op'.todo = Targets[op.tx]) \/ op'.stage = "cleanup"
    BY <2>1, GotoEachFields, GotoFields
  <2>4. op.done = {} /\ \A f \in Targets[op.tx] : AtBefore(op.tx, f)
    BY <2>1 DEF Untouched
  <2> QED
    BY <2>1, <2>2, <2>3, <2>4, <1>1
<1>8. ASSUME NEW f \in Files, CheckReplace(f)
      PROVE  Undoing'
  <2>1. /\ op # None /\ op.stage = "check" /\ f \in op.todo
        /\ UNCHANGED <<file, before, after>>
    BY <1>8 DEF CheckReplace
  <2> QED
    BY <1>8, <2>1, CheckFields
<1>9. CASE Rename /\ op.kind = "apply"
  <2>1. /\ op # None /\ op.stage = "rename"
        /\ UNCHANGED <<before, after>> /\ Goto("verify")
    BY <1>9 DEF Rename
  <2>2. \A f \in Files : file'[f] = IF f = op.cur THEN after[op.tx][f] ELSE file[f]
    BY <1>9, <2>1 DEF Rename, TypeOK, IInv, RenameChecked, Wanted
  <2>3. /\ op'.tx = op.tx /\ op'.kind = op.kind /\ op'.stage = "verify"
        /\ op'.todo = op.todo /\ op'.done = op.done /\ op'.cur = op.cur
    BY <2>1, GotoFields
  <2> QED
    BY <1>9, <2>1, <2>2, <2>3
<1>10. CASE Verify /\ op.kind = "apply"
  <2>1. /\ op # None /\ op.stage = "verify" /\ UNCHANGED <<file, before, after>>
    BY <1>10 DEF Verify
  <2>2. op'.tx = op.tx /\ op'.kind = op.kind
    BY <1>10, <2>1, VerifyFields
  <2>3. CASE /\ op'.stage = "check" /\ op'.todo = op.todo \ {op.cur}
             /\ op'.done = op.done \cup {op.cur}
    BY <1>10, <2>1, <2>2, <2>3
  <2>4. CASE op'.stage = "undo" /\ VerifyFaults /\ op'.todo = op.done
    BY <1>10, <2>1, <2>2, <2>4
  <2>5. file[op.cur] = Wanted(op.cur)
    BY <1>10, <2>1 DEF Wanted
  <2> QED
    BY <1>10, <2>1, <2>3, <2>4, <2>5, VerifyFields
<1>11. ASSUME op # None, op.kind = "apply", UNCHANGED <<file, before, after>>,
              Undo(op.done), op.stage \in {"check", "rename"}, op.todo # {}
       PROVE  Undoing'
  <2>1. PICK unread \in op.todo : TRUE
    BY <1>11
  <2>2. /\ op'.tx = op.tx /\ op'.kind = op.kind /\ op'.stage = "undo"
        /\ op'.todo = op.done
    BY <1>11, UndoFields
  <2>3. /\ unread \in Targets[op.tx] /\ AtBefore(op.tx, unread)
        /\ \A f \in Targets[op.tx] \ (op.done \cup {unread}) : AtBefore(op.tx, f)
    BY <1>11, <2>1
  <2> QED
    BY <1>11, <2>2, <2>3
<1>12. ASSUME op.kind = "apply", RenameFails \/ \E f \in Files : CheckFails(f)
       PROVE  Undoing'
  <2>1. CASE RenameFails
    BY <1>11, <1>12, <2>1 DEF RenameFails
  <2>2. ASSUME NEW f \in Files, CheckFails(f)
        PROVE  Undoing'
    BY <1>11, <1>12, <2>2 DEF CheckFails
  <2> QED
    BY <1>12, <2>1, <2>2
<1>13. ASSUME NEW f \in Files, UndoFile(f), op.kind = "apply"
       PROVE  Undoing'
  <2>1. /\ op # None /\ op.stage = "undo" /\ UNCHANGED <<before, after>>
        /\ op'.tx = op.tx /\ op'.kind = op.kind /\ op'.stage = "undo"
        /\ op'.todo = op.todo \ {f} /\ (op.errors => op'.errors)
    BY <1>13, TickFields, FailFields DEF UndoFile, Tick, Unrestored, Ops
  <2>2. \A g \in Files : file'[g] = IF g = f THEN before[op.tx][f] ELSE file[g]
    BY <1>13 DEF UndoFile, Restored, TypeOK
  <2>3. ASSUME ~op.errors
        PROVE  \E unread \in Targets[op.tx] :
                 /\ \/ file'[unread] = before[op.tx][unread]
                    \/ VerifyFaults /\ file'[unread] = after[op.tx][unread]
                 /\ \A g \in Targets[op.tx] \ ((op.todo \ {f}) \cup {unread}) :
                      file'[g] = before[op.tx][g]
    <3>1. PICK unread \in Targets[op.tx] :
            /\ AtBefore(op.tx, unread) \/ (VerifyFaults /\ AtAfter(op.tx, unread))
            /\ \A g \in Targets[op.tx] \ (op.todo \cup {unread}) : AtBefore(op.tx, g)
      BY <1>13, <2>1, <2>3
    <3>2. \/ file'[unread] = before[op.tx][unread]
          \/ VerifyFaults /\ file'[unread] = after[op.tx][unread]
      BY <2>1, <2>2, <3>1
    <3>3. \A g \in Targets[op.tx] \ ((op.todo \ {f}) \cup {unread}) :
            file'[g] = before[op.tx][g]
      BY <2>1, <2>2, <3>1
    <3> QED
      BY <3>2, <3>3
  <2> QED
    BY <1>13, <2>1, <2>3
<1>14. ASSUME NEW f \in Files, UndoFails(f), op.kind = "apply"
       PROVE  Undoing'
  <2>1. /\ op # None /\ op.stage = "undo"
        /\ Unrestored(f)
    BY <1>14 DEF UndoFails
  <2>2. op'.stage = "undo" /\ op'.errors
    BY <2>1 DEF Unrestored, Ops
  <2> QED
    BY <2>2
<1>15. CASE AllUndone /\ op.kind = "apply"
  <2>1. /\ op # None /\ op.stage = "undo" /\ op.todo = {}
        /\ UNCHANGED <<file, before, after>>
        /\ op'.errors = op.errors /\ op'.tx = op.tx /\ op'.kind = op.kind
        /\ op'.stage = "undone" /\ op'.todo = {}
    BY <1>15, GotoFields DEF AllUndone, Goto, Ops
  <2> QED
    BY <1>15, <2>1
<1>16. CASE AllReplaced
  BY <1>16, <1>1, GotoFields DEF AllReplaced
<1>17. CASE RecordFailure \/ RecordSuccess
  BY <1>17, <1>1, LeaveFields
<1>18. CASE Cleanup \/ Crash
  BY <1>18, <1>1 DEF Cleanup, Crash
<1>19. ASSUME NEW t \in Txs, FinalizeBegin(t) \/ RecoverBegin(t)
       PROVE  Undoing'
  <2>1. op'.kind # "apply"
    BY <1>19 DEF FinalizeBegin, RecoverBegin, Begin, TypeOK, Proposals
  <2> QED
    BY <2>1, <1>1
<1>20. ASSUME op.kind # "apply",
              \/ Rename \/ Verify \/ RenameFails \/ AllUndone
              \/ \E f \in Files : CheckFails(f) \/ UndoFile(f) \/ UndoFails(f)
       PROVE  Undoing'
  <2>1. op # None
    BY <1>20 DEF Rename, Verify, RenameFails, AllUndone, CheckFails, UndoFile, UndoFails
  <2>2. op'.kind = op.kind
    BY <1>20, <2>1, GotoFields, VerifyFields, UndoFields, TickFields, FailFields
       DEF Rename, RenameFails, AllUndone, CheckFails, UndoFile, UndoFails
  <2> QED
    BY SMTT(30), <1>1, <1>20, <2>2
<1>21. CASE UNCHANGED <<file, before, after, op>>
  BY <1>21
<1> QED
  BY <1>3, <1>4, <1>5, <1>6, <1>7, <1>8, <1>9, <1>10, <1>12, <1>13, <1>14, <1>15,
     <1>16, <1>17, <1>18, <1>19, <1>20, <1>21
     DEF Next, Continue, vars, Propose, StartupScan, FinalizeSkips, ProposeRecovery,
         RecoverStale

\* How far an operation has come, in every reachable state.
LEMMA ProgressInvariance == Spec => [](Untouched /\ Replaced /\ Undoing)
<1> DEFINE Progress == Untouched /\ Replaced /\ Undoing
<1>1. Init => Progress
  BY DEF Init, Untouched, Replaced, Undoing
<1>2. IInv /\ Progress /\ [Next]_vars => Progress'
  <2> SUFFICES ASSUME IInv, Progress, [Next]_vars
               PROVE  Progress'
    OBVIOUS
  <2>1. CASE edits' # 0
    BY <2>1 DEF Untouched, Replaced, Undoing
  <2>2. CASE edits' = 0
    BY <2>2, UntouchedStep, ReplacedStep, UndoingStep
  <2> QED
    BY <2>1, <2>2
<1> QED
  BY <1>1, <1>2, Invariance, PTL DEF Spec

\* Whatever the patches, faults and crashes: without edits by others, a manifest
\* becomes "committed" only when every file of the patch holds its new content,
\* whoever writes it: the apply, a resume, or the finalisation of the start-up scan.
THEOREM CommittedTheorem == Spec => CommittedIsComplete
<1> DEFINE Complete ==
      \A t \in Txs :
        manifest'[t] = "committed" /\ manifest[t] # "committed" /\ edits = 0 =>
          \A f \in Targets[t] : AtAfter(t, f)
<1>1. ASSUME IInv, Replaced, [Next]_vars
      PROVE  Complete
  <2> SUFFICES ASSUME NEW t \in Txs, manifest'[t] = "committed",
                      manifest[t] # "committed", edits = 0
               PROVE  \A f \in Targets[t] : AtAfter(t, f)
    OBVIOUS
  <2>1. manifest \in [Txs -> Pending \cup Final \cup {None}]
    BY <1>1 DEF IInv, TypeOK
  <2>2. /\ RecordSuccess /\ op.tx = t /\ op.kind # "rollback"
    BY <1>1, <2>1, ManifestSteps
       DEF Prepare, MarkCommitting, RecordFailure, RecordSuccess, WriteManifest
  <2>3. op # None /\ op.stage = "finish" /\ op.kind \in {"apply", "resume", "finalize"}
    BY <2>2 DEF RecordSuccess, Running, Kinds, Modes
  <2>4. CASE op.kind = "finalize"
    BY <1>1, <2>2, <2>3, <2>4 DEF Replaced
  <2>5. CASE op.kind \in {"apply", "resume"}
    BY <1>1, <2>2, <2>3, <2>5 DEF Replaced, Replacing, Modes, Wanted, AtAfter
  <2> QED
    BY <2>3, <2>4, <2>5
<1>2. IInv /\ Replaced /\ [Next]_vars => [Complete]_vars
  BY <1>1
<1> QED
  BY <1>2, Invariance, ProgressInvariance, PTL DEF Spec, CommittedIsComplete

\* Whatever the patches, faults and crashes: without edits by others, a manifest
\* becomes "rolled_back" only when every file holds its old content, but for one
\* whose verification could not be read.
THEOREM RolledBackTheorem == Spec => RolledBackIsUntouched
<1> DEFINE Back ==
      \A t \in Txs :
        manifest'[t] = "rolled_back" /\ manifest[t] # "rolled_back" /\ edits = 0 =>
          \E unread \in Targets[t] :
            /\ AtBefore(t, unread) \/ (VerifyFaults /\ AtAfter(t, unread))
            /\ \A f \in Targets[t] \ {unread} : AtBefore(t, f)
<1>1. ASSUME IInv, Replaced, Undoing, [Next]_vars
      PROVE  Back
  <2> SUFFICES ASSUME NEW t \in Txs, manifest'[t] = "rolled_back",
                      manifest[t] # "rolled_back", edits = 0
               PROVE  \E unread \in Targets[t] :
                        /\ AtBefore(t, unread) \/ (VerifyFaults /\ AtAfter(t, unread))
                        /\ \A f \in Targets[t] \ {unread} : AtBefore(t, f)
    OBVIOUS
  <2>1. manifest \in [Txs -> Pending \cup Final \cup {None}]
    BY <1>1 DEF IInv, TypeOK
  <2>2. /\ op.tx = t
        /\ \/ RecordSuccess /\ op.kind = "rollback"
           \/ RecordFailure /\ op.kind = "apply" /\ ~op.errors
    BY <1>1, <2>1, ManifestSteps
       DEF Prepare, MarkCommitting, RecordFailure, RecordSuccess, WriteManifest
  <2>3. CASE RecordSuccess /\ op.kind = "rollback"
    <3>1. op # None /\ op.stage = "finish"
      BY <2>3 DEF RecordSuccess, Running
    <3>2. \A f \in Targets[t] : AtBefore(t, f)
      BY <1>1, <2>2, <2>3, <3>1 DEF Replaced, Replacing, Modes, Wanted, AtBefore
    <3>3. PICK f \in Targets[t] : TRUE
      BY TargetsAssumption DEF TargetsAssumption
    <3> QED
      BY <3>2, <3>3
  <2>4. CASE RecordFailure /\ op.kind = "apply" /\ ~op.errors
    <3>1. op # None /\ op.stage = "undone"
      BY <2>4 DEF RecordFailure, Running
    <3>2. op.todo = {}
      BY <1>1, <2>4, <3>1 DEF Replaced, Replacing
    <3>3. PICK unread \in Targets[t] :
            /\ AtBefore(t, unread) \/ (VerifyFaults /\ AtAfter(t, unread))
            /\ \A f \in Targets[t] \ (op.todo \cup {unread}) : AtBefore(t, f)
      BY <1>1, <2>2, <2>4, <3>1 DEF Undoing
    <3> QED
      BY <3>2, <3>3
  <2> QED
    BY <2>2, <2>3, <2>4
<1>2. IInv /\ Replaced /\ Undoing /\ [Next]_vars => [Back]_vars
  BY <1>1
<1> QED
  BY <1>2, Invariance, ProgressInvariance, PTL DEF Spec, RolledBackIsUntouched

(***************************************************************************)
(* A rollback stays possible.                                              *)
(***************************************************************************)

\* Transaction t is past its preparation.
UnderWay(t) ==
  \/ manifest[t] \in Pending \ {"prepared"}
  \/ op # None /\ op.tx = t /\ (op.stage \in Committing \/ op.kind \in Modes)

AllKnown(t) == \A f \in Targets[t] : AtBefore(t, f) \/ AtAfter(t, f)

\* A transaction under way has all its snapshots; if it is alone with its files,
\* each of them holds a content it knows, also while an operation replaces them.
Recoverable ==
  \A t \in Txs :
    UnderWay(t) =>
      /\ \A f \in Targets[t] : snapshot[t][f] # None
      /\ Alone(t) => AllKnown(t)

\* A transaction that is not alone with its files never will be again.
LEMMA AloneStays ==
  ASSUME TypeOK, [Next]_vars, NEW t \in Txs, Alone(t)'
  PROVE  Alone(t)
<1>1. edits' = 0 /\ edits = 0
  BY NoEdit DEF Alone
<1>2. applied \subseteq applied'
  <2>1. ASSUME NEW f \in Files,
               \/ ReadTarget(f) \/ HunksMismatch(f) \/ WriteSnapshot(f) \/ WriteTemp(f)
               \/ CheckReplace(f) \/ CheckFails(f) \/ UndoFile(f) \/ UndoFails(f)
               \/ Edit(f)
        PROVE  applied' = applied
    BY <2>1 DEF ReadTarget, HunksMismatch, WriteSnapshot, WriteTemp, CheckReplace,
       CheckFails, UndoFile, UndoFails, Edit, queue
  <2>2. ASSUME \/ CheckRevision \/ AllRead \/ Prepare \/ AllSnapshots \/ AllStaged
               \/ StagingFails \/ RecheckRevision \/ MarkCommitting \/ Cleanup \/ Rename
               \/ RenameFails \/ Verify \/ AllReplaced \/ AllUndone
               \/ RecordFailure \/ RecordSuccess \/ Crash \/ UNCHANGED vars
        PROVE  applied' = applied
    BY <2>2 DEF CheckRevision, AllRead, Prepare, AllSnapshots, AllStaged, StagingFails,
       RecheckRevision, MarkCommitting, Cleanup, Rename, RenameFails, Verify,
       AllReplaced, AllUndone, RecordFailure, RecordSuccess, Crash, vars, queue
  <2>3. ASSUME NEW u \in Txs,
               \/ Propose(u) \/ StartupScan(u) \/ FinalizeBegin(u) \/ FinalizeSkips(u)
               \/ \E mode \in Modes : ProposeRecovery(u, mode)
               \/ RecoverBegin(u) \/ RecoverStale(u)
        PROVE  applied' = applied
    BY <2>3 DEF Propose, StartupScan, FinalizeBegin, FinalizeSkips, ProposeRecovery,
       RecoverBegin, RecoverStale
  <2>4. ASSUME NEW u \in Txs, ApplyBegin(u)
        PROVE  applied \subseteq applied'
    BY <2>4 DEF ApplyBegin
  <2> QED
    BY <2>1, <2>2, <2>3, <2>4 DEF Next, Continue
<1> QED
  BY <1>1, <1>2 DEF Alone

\* Only the operation of a transaction changes what its files are compared with,
\* and before its manifest says that it is under way.
LEMMA PlanKept ==
  ASSUME IInv, [Next]_vars, NEW t \in Txs, manifest[t] # None
  PROVE  \A f \in Targets[t] :
           /\ before'[t][f] = before[t][f] /\ after'[t][f] = after[t][f]
           /\ snapshot[t][f] # None => snapshot'[t][f] # None
<1> USE ConstantsAssumption, NoneAssumption
    DEF ConstantsAssumption, NoneAssumption, disk, plan, Running
<1>0. /\ TypeOK /\ (op # None => op.tx \in Txs /\ op.todo \subseteq Targets[op.tx])
  BY DEF IInv, TypeOK, Ops, OperationShape
<1>1. ASSUME NEW f \in Files,
             \/ HunksMismatch(f) \/ WriteTemp(f)
             \/ CheckReplace(f) \/ CheckFails(f) \/ UndoFile(f) \/ UndoFails(f) \/ Edit(f)
      PROVE  UNCHANGED <<before, after, snapshot>>
  BY <1>1 DEF HunksMismatch, WriteTemp, CheckReplace, CheckFails, UndoFile, UndoFails, Edit
<1>2. ASSUME \/ CheckRevision \/ AllRead \/ Prepare \/ AllSnapshots \/ AllStaged
             \/ StagingFails \/ RecheckRevision \/ MarkCommitting \/ Cleanup \/ Rename
             \/ RenameFails \/ Verify \/ AllReplaced \/ AllUndone
             \/ RecordFailure \/ RecordSuccess \/ Crash \/ UNCHANGED vars
      PROVE  UNCHANGED <<before, after, snapshot>>
  BY <1>2 DEF CheckRevision, AllRead, Prepare, AllSnapshots, AllStaged, StagingFails,
     RecheckRevision, MarkCommitting, Cleanup, Rename, RenameFails, Verify,
     AllReplaced, AllUndone, RecordFailure, RecordSuccess, Crash, vars
<1>3. ASSUME NEW u \in Txs,
             \/ Propose(u) \/ ApplyBegin(u)
             \/ StartupScan(u) \/ FinalizeBegin(u) \/ FinalizeSkips(u)
             \/ \E mode \in Modes : ProposeRecovery(u, mode)
             \/ RecoverBegin(u) \/ RecoverStale(u)
      PROVE  UNCHANGED <<before, after, snapshot>>
  BY <1>3 DEF Propose, ApplyBegin, StartupScan, FinalizeBegin, FinalizeSkips,
     ProposeRecovery, RecoverBegin, RecoverStale
<1>4. ASSUME NEW f \in Files, ReadTarget(f)
      PROVE  \A g \in Targets[t] :
               /\ before'[t][g] = before[t][g] /\ after'[t][g] = after[t][g]
               /\ snapshot' = snapshot
  <2>1. op.tx # t
    BY <1>4 DEF ReadTarget, IInv, NothingOnDisk, Preparing
  <2> QED
    BY <1>0, <1>4, <2>1 DEF ReadTarget, TypeOK
<1>5. ASSUME NEW f \in Files, WriteSnapshot(f)
      PROVE  \A g \in Targets[t] :
               /\ before'[t][g] = before[t][g] /\ after'[t][g] = after[t][g]
               /\ snapshot[t][g] # None => snapshot'[t][g] # None
  <2>1. /\ op.tx \in Txs /\ f \in Targets[op.tx] /\ before[op.tx][f] # None
        /\ UNCHANGED <<before, after>>
    BY <1>0, <1>5 DEF WriteSnapshot, IInv, Prepared
  <2>2. \A g \in Files :
          snapshot'[t][g] = IF t = op.tx /\ g = f THEN before[op.tx][f] ELSE snapshot[t][g]
    BY <1>0, <1>5, <2>1 DEF WriteSnapshot, TypeOK
  <2> QED
    BY <2>1, <2>2
<1> QED
  BY <1>1, <1>2, <1>3, <1>4, <1>5 DEF Next, Continue

\* A step that replaces a file puts there a content that its transaction knows,
\* and a transaction that is alone with its files keeps theirs.
LEMMA KnownStep ==
  ASSUME IInv, [Next]_vars, NEW t \in Txs, manifest[t] # None, Alone(t)', AllKnown(t)
  PROVE  AllKnown(t)'
<1> USE ConstantsAssumption, NoneAssumption DEF ConstantsAssumption, NoneAssumption
<1>0. /\ TypeOK /\ edits = 0 /\ edits' = 0 /\ Alone(t)
      /\ op # None => op.tx \in Txs /\ op.todo \subseteq Targets[op.tx] /\ op.tx \in applied
  BY AloneStays DEF IInv, TypeOK, Ops, OperationShape, Alone
<1>1. \A f \in Targets[t] : before'[t][f] = before[t][f] /\ after'[t][f] = after[t][f]
  BY PlanKept
<1>2. \A f \in Targets[t] :
        file'[f] = file[f] \/ file'[f] = before[t][f] \/ file'[f] = after[t][f]
  <2>1. CASE file' = file
    BY <2>1
  <2>2. CASE Rename
    <3>1. /\ op # None /\ op.cur \in Targets[op.tx]
          /\ \A f \in Files : file'[f] = IF f = op.cur THEN Wanted(op.cur) ELSE file[f]
      BY <1>0, <2>2 DEF Rename, Running, IInv, OperationShape, RenameChecked, TypeOK
    <3>2. op.tx # t => op.cur \notin Targets[t]
      BY <1>0, <3>1 DEF Alone
    <3> QED
      BY <3>1, <3>2 DEF Wanted
  <2>3. ASSUME NEW g \in Files, UndoFile(g)
        PROVE  \A f \in Targets[t] :
                 file'[f] = file[f] \/ file'[f] = before[t][f] \/ file'[f] = after[t][f]
    <3>1. /\ op # None /\ g \in Targets[op.tx]
          /\ \A f \in Files : file'[f] = IF f = g THEN Restored(g) ELSE file[f]
      BY <1>0, <2>3 DEF UndoFile, Running, TypeOK
    <3>2. op.tx # t => g \notin Targets[t]
      BY <1>0, <3>1 DEF Alone
    <3> QED
      BY <3>1, <3>2 DEF Restored
  <2> QED
    BY <1>0, <2>1, <2>2, <2>3, ReplacingSteps DEF TypeOK
<1> QED
  BY <1>1, <1>2 DEF AllKnown, AtBefore, AtAfter

\* A transaction comes under way with the mark of its apply or with a recovery:
\* then its snapshots are on disk and its files hold what it knows.
LEMMA ComesUnderWay ==
  ASSUME IInv, Untouched, [Next]_vars, NEW t \in Txs, ~UnderWay(t), UnderWay(t)'
  PROVE  /\ manifest[t] # None
         /\ \A f \in Targets[t] : snapshot[t][f] # None
         /\ Alone(t) => AllKnown(t)
<1> USE ConstantsAssumption, NoneAssumption
    DEF ConstantsAssumption, NoneAssumption, Running, Replacing, Modes, Committing,
        UnderWay
<1>0. /\ TypeOK /\ manifest \in [Txs -> Pending \cup Final \cup {None}]
      /\ op # None => op \in Ops /\ op.tx \in Txs
  BY DEF IInv, TypeOK, Ops
<1> USE <1>0
<1>1. ASSUME op # None, op.tx = t, MarkCommitting
      PROVE  /\ manifest[t] # None
             /\ \A f \in Targets[t] : snapshot[t][f] # None
             /\ Alone(t) => AllKnown(t)
  <2>1. op.kind = "apply" /\ op.stage = "mark"
    BY <1>1 DEF MarkCommitting
  <2>2. manifest[t] = "prepared" /\ Ready(t)
    BY <1>1, <2>1 DEF IInv, ManifestKept, Prepared, Staging
  <2>3. Alone(t) => AllKnown(t)
    BY <1>1, <2>1 DEF Untouched, Staging, Alone, AllKnown
  <2> QED
    BY <2>2, <2>3 DEF Ready, Pending
<1>2. ASSUME RecoverBegin(t)
      PROVE  /\ manifest[t] # None
             /\ \A f \in Targets[t] : snapshot[t][f] # None
             /\ Alone(t) => AllKnown(t)
  <2>1. proposal[t].mode \in {"resume", "rollback"} /\ ModeApplicable(t, proposal[t].mode)
    BY <1>2 DEF RecoverBegin, TypeOK, Proposals
  <2>2. AllKnown(t)
    BY <2>1 DEF ModeApplicable, CanResume, AllKnown
  <2> QED
    BY <1>2, <2>2, ApprovedIsPending
<1>3. manifest'[t] = manifest[t] \/ (MarkCommitting /\ op # None /\ op.tx = t)
  <2>1. CASE MarkCommitting
    <3>1. op # None /\ (manifest' = manifest \/ WriteManifest("committing"))
      BY <2>1 DEF MarkCommitting
    <3> QED
      BY <2>1, <3>1 DEF WriteManifest
  <2>2. CASE Prepare
    <3>1. /\ op # None /\ op.kind = "apply"
          /\ GotoEach("snapshot") \/ Goto("cleanup")
          /\ manifest' = manifest \/ WriteManifest("prepared")
      BY <2>2 DEF Prepare
    <3>2. op'.tx = op.tx /\ op'.kind = "apply" /\ op'.stage \in {"snapshot", "cleanup"}
      BY <3>1, GotoFields, GotoEachFields
    <3>3. CASE op.tx # t
      BY <3>1, <3>3 DEF WriteManifest
    <3>4. CASE op.tx = t
      BY <3>1, <3>2, <3>4 DEF WriteManifest
    <3> QED
      BY <3>3, <3>4
  <2>3. CASE RecordFailure
    BY <2>3 DEF RecordFailure, WriteManifest
  <2>4. CASE RecordSuccess
    <3>1. op # None /\ op.stage = "finish" /\ op.kind \in Kinds
      BY <2>4 DEF RecordSuccess
    <3>2. CASE op.tx # t
      BY <2>4, <3>2 DEF RecordSuccess, WriteManifest
    <3>3. CASE op.tx = t
      <4>1. op.kind \in {"apply", "finalize"}
        BY <3>1, <3>3 DEF Kinds
      <4>2. op' = None \/ (op'.kind = "apply" /\ op'.stage = "cleanup")
        BY <2>4, LeaveFields
      <4>3. manifest'[t] \in Final \/ manifest'[t] = manifest[t]
        BY <2>4, <3>3, <4>1 DEF RecordSuccess, WriteManifest, Final
      <4> QED
        BY <4>2, <4>3 DEF Final, Pending
    <3> QED
      BY <3>2, <3>3
  <2> QED
    BY <2>1, <2>2, <2>3, <2>4, ManifestSteps DEF TypeOK
<1>4. CASE MarkCommitting /\ op # None /\ op.tx = t
  BY <1>1, <1>4
<1>5. CASE manifest'[t] = manifest[t]
  <2>1. op' # None /\ op'.tx = t /\ (op'.stage \in Committing \/ op'.kind \in Modes)
    BY <1>5
  <2>2. ASSUME op # None, op'.tx = op.tx, op'.kind = op.kind,
               op'.stage \in Committing => op.stage \in Committing
        PROVE  FALSE
    BY <1>5, <2>1, <2>2
  <2>3. ~(UNCHANGED op)
    BY <1>5
  <2>4. ASSUME NEW f \in Files,
               \/ ReadTarget(f) \/ WriteSnapshot(f) \/ WriteTemp(f) \/ UndoFile(f)
               \/ HunksMismatch(f)
        PROVE  FALSE
    BY <2>2, <2>4, TickFields, FailFields, GotoFields
       DEF ReadTarget, WriteSnapshot, WriteTemp, UndoFile, HunksMismatch
  <2>5. ASSUME NEW f \in Files, CheckReplace(f) \/ CheckFails(f) \/ UndoFails(f)
        PROVE  FALSE
    BY <2>2, <2>5, CheckFields, UndoFields, FailFields
       DEF CheckReplace, CheckFails, UndoFails
  <2>6. ASSUME CheckRevision \/ AllRead \/ Prepare \/ AllSnapshots
        PROVE  FALSE
    BY <2>2, <2>6, GotoFields, GotoEachFields
       DEF CheckRevision, AllRead, Prepare, AllSnapshots
  <2>7. ASSUME AllStaged \/ StagingFails \/ RecheckRevision
        PROVE  FALSE
    BY <2>2, <2>7, GotoFields DEF AllStaged, StagingFails, RecheckRevision
  <2>8. ASSUME Rename \/ RenameFails \/ Verify \/ AllReplaced \/ AllUndone
        PROVE  FALSE
    BY <2>2, <2>8, GotoFields, UndoFields, VerifyFields
       DEF Rename, RenameFails, Verify, AllReplaced, AllUndone
  <2>9. ASSUME RecordFailure \/ RecordSuccess \/ Cleanup \/ Crash
        PROVE  FALSE
    BY <2>1, <2>9, LeaveFields DEF Cleanup, Crash
  <2>10. ASSUME NEW u \in Txs, ApplyBegin(u) \/ FinalizeBegin(u)
         PROVE  FALSE
    BY <2>1, <2>10 DEF ApplyBegin, FinalizeBegin, Begin
  <2>11. CASE MarkCommitting
    <3>1. op # None /\ (GotoEach("check") \/ Goto("cleanup"))
      BY <2>11 DEF MarkCommitting
    <3>2. op'.tx = op.tx
      BY <3>1, GotoFields, GotoEachFields
    <3> QED
      BY <1>1, <2>1, <2>11, <3>1, <3>2
  <2>12. ASSUME NEW u \in Txs, RecoverBegin(u)
         PROVE  u = t
    BY <2>1, <2>12 DEF RecoverBegin, Begin
  <2> QED
    BY <1>2, <2>3, <2>4, <2>5, <2>6, <2>7, <2>8, <2>9, <2>10, <2>11, <2>12
       DEF Next, Continue, vars, queue, Propose, StartupScan, FinalizeSkips,
           ProposeRecovery, RecoverStale, Edit
<1> QED
  BY <1>3, <1>4, <1>5

\* Every step keeps what a rollback needs.
LEMMA RecoverableStep ==
  ASSUME IInv, Untouched, Recoverable, [Next]_vars
  PROVE  Recoverable'
<1> SUFFICES ASSUME NEW t \in Txs, UnderWay(t)'
             PROVE  /\ \A f \in Targets[t] : snapshot'[t][f] # None
                    /\ Alone(t)' => AllKnown(t)'
  BY DEF Recoverable
<1>1. /\ manifest[t] # None
      /\ \A f \in Targets[t] : snapshot[t][f] # None
      /\ Alone(t) => AllKnown(t)
  <2>1. CASE UnderWay(t)
    <3>1. ASSUME op # None, op.tx = t, op.stage \in Committing \/ op.kind \in Modes
          PROVE  manifest[t] \in Pending
      <4>1. op.kind = "apply" => manifest[t] = "committing"
        BY <3>1 DEF IInv, ManifestKept, Committing, Modes
      <4>2. op.kind \in Modes => manifest[t] \in Pending
        BY <3>1 DEF IInv, ManifestKept
      <4>3. op.kind # "finalize"
        BY <3>1 DEF IInv, OperationShape, Committing, Modes
      <4>4. op.kind \in Kinds
        BY <3>1 DEF IInv, TypeOK, Ops
      <4> QED
        BY <4>1, <4>2, <4>3, <4>4 DEF Kinds, Pending
    <3>2. manifest[t] \in Pending
      BY <2>1, <3>1 DEF UnderWay
    <3>3. manifest[t] # None
      BY <3>2, NoneAssumption DEF NoneAssumption
    <3> QED
      BY <2>1, <3>3 DEF Recoverable
  <2>2. CASE ~UnderWay(t)
    BY <2>2, ComesUnderWay
  <2> QED
    BY <2>1, <2>2
<1>2. \A f \in Targets[t] : snapshot'[t][f] # None
  BY <1>1, PlanKept
<1>3. Alone(t)' => AllKnown(t)'
  BY <1>1, AloneStays, KnownStep DEF IInv
<1> QED
  BY <1>2, <1>3

\* A transaction under way keeps what a rollback needs in every reachable state.
LEMMA RecoverableInvariance == Spec => []Recoverable
<1>1. Init => Recoverable
  BY NoneAssumption DEF Init, Recoverable, UnderWay, NoneAssumption
<1>2. IInv /\ Untouched /\ Recoverable /\ [Next]_vars => Recoverable'
  BY RecoverableStep
<1> QED
  BY <1>1, <1>2, Invariance, ProgressInvariance, PTL DEF Spec

\* Whatever the patches, faults and crashes, of the apply or of any number of
\* recoveries: a transaction past its preparation is never left where a rollback
\* is refused, as long as its files are its own.
THEOREM RollbackTheorem == Spec => []RollbackStaysPossible
<1>1. Recoverable => RollbackStaysPossible
  BY DEF Recoverable, RollbackStaysPossible, UnderWay, AllKnown, decideRecovery,
     Conflict, ModeApplicable
<1> QED
  BY <1>1, RecoverableInvariance, PTL

(***************************************************************************)
(* A patch changes all of its files or none: PatchTransaction implements   *)
(* AtomicPatch.                                                            *)
(***************************************************************************)

\* What a transaction is to write is what its patch makes of what it has read;
\* a manifest lists what was read of every file; and a finalisation, which does
\* not look at the manifest again, only ever deals with one that is there.
Planned ==
  \A t \in Txs :
    /\ \A f \in Targets[t] :
         /\ before[t][f] # None =>
              after[t][f] # None /\ after[t][f] = Patched[t][before[t][f]]
         /\ manifest[t] # None => before[t][f] # None
    /\ t \in scanned \/ (op # None /\ op.tx = t /\ op.kind = "finalize") =>
         manifest[t] # None

\* Only the reading of a target changes the plan.
LEMMA PlanSteps ==
  ASSUME [Next]_vars
  PROVE  UNCHANGED plan \/ \E f \in Files : ReadTarget(f)
<1>1. ASSUME NEW f \in Files,
             \/ HunksMismatch(f) \/ WriteSnapshot(f) \/ WriteTemp(f)
             \/ CheckReplace(f) \/ CheckFails(f) \/ UndoFile(f) \/ UndoFails(f) \/ Edit(f)
      PROVE  UNCHANGED plan
  BY <1>1 DEF HunksMismatch, WriteSnapshot, WriteTemp, CheckReplace, CheckFails,
     UndoFile, UndoFails, Edit
<1>2. ASSUME \/ CheckRevision \/ AllRead \/ Prepare \/ AllSnapshots \/ AllStaged
             \/ StagingFails \/ RecheckRevision \/ MarkCommitting \/ Cleanup \/ Rename
             \/ RenameFails \/ Verify \/ AllReplaced \/ AllUndone
             \/ RecordFailure \/ RecordSuccess \/ Crash \/ UNCHANGED vars
      PROVE  UNCHANGED plan
  BY <1>2 DEF CheckRevision, AllRead, Prepare, AllSnapshots, AllStaged, StagingFails,
     RecheckRevision, MarkCommitting, Cleanup, Rename, RenameFails, Verify,
     AllReplaced, AllUndone, RecordFailure, RecordSuccess, Crash, vars
<1>3. ASSUME NEW u \in Txs,
             \/ Propose(u) \/ ApplyBegin(u)
             \/ StartupScan(u) \/ FinalizeBegin(u) \/ FinalizeSkips(u)
             \/ \E mode \in Modes : ProposeRecovery(u, mode)
             \/ RecoverBegin(u) \/ RecoverStale(u)
      PROVE  UNCHANGED plan
  BY <1>3 DEF Propose, ApplyBegin, StartupScan, FinalizeBegin, FinalizeSkips,
     ProposeRecovery, RecoverBegin, RecoverStale
<1> QED
  BY <1>1, <1>2, <1>3 DEF Next, Continue

\* A scan finds only manifests that are there, and only what a scan has found
\* is finalised.
LEMMA ScannedStep ==
  ASSUME IInv, Planned, [Next]_vars, NEW t \in Txs,
         t \in scanned' \/ (op' # None /\ op'.tx = t /\ op'.kind = "finalize")
  PROVE  manifest[t] # None
<1> USE ConstantsAssumption, NoneAssumption
    DEF ConstantsAssumption, NoneAssumption, Running, Replacing, Modes, queue
<1>0. TypeOK /\ (op # None => op \in Ops)
  BY DEF IInv, TypeOK
<1> USE <1>0
<1>1. ASSUME scanned' = scanned, op' = op \/ op' = None \/ op'.kind # "finalize"
      PROVE  manifest[t] # None
  BY <1>1 DEF Planned
<1>2. ASSUME scanned' = scanned, op # None, op.kind # "finalize", op'.kind = op.kind
      PROVE  manifest[t] # None
  BY <1>1, <1>2
<1>3. ASSUME NEW f \in Files, ReadTarget(f) \/ HunksMismatch(f) \/ WriteSnapshot(f) \/ WriteTemp(f)
      PROVE  manifest[t] # None
  BY <1>2, <1>3, GotoFields, TickFields DEF ReadTarget, HunksMismatch, WriteSnapshot, WriteTemp
<1>4. CASE CheckRevision \/ AllRead \/ Prepare \/ AllSnapshots
  BY <1>2, <1>4, GotoFields, GotoEachFields DEF CheckRevision, AllRead, Prepare, AllSnapshots
<1>5. CASE AllStaged \/ StagingFails \/ RecheckRevision \/ MarkCommitting
  BY <1>2, <1>5, GotoFields, GotoEachFields
     DEF AllStaged, StagingFails, RecheckRevision, MarkCommitting
<1>6. ASSUME NEW f \in Files, CheckReplace(f) \/ CheckFails(f)
      PROVE  manifest[t] # None
  BY <1>2, <1>6, CheckFields, UndoFields DEF CheckReplace, CheckFails
<1>7. ASSUME NEW f \in Files, UndoFile(f) \/ UndoFails(f)
      PROVE  manifest[t] # None
  BY <1>2, <1>7, TickFields, FailFields DEF UndoFile, UndoFails
<1>8. CASE Rename \/ RenameFails \/ Verify
  BY <1>2, <1>8, GotoFields, UndoFields, VerifyFields DEF Rename, RenameFails, Verify
<1>9. CASE AllReplaced \/ AllUndone
  BY <1>2, <1>9, GotoFields DEF AllReplaced, AllUndone
<1>10. CASE RecordFailure \/ RecordSuccess
  BY <1>1, <1>10, LeaveFields DEF RecordFailure, RecordSuccess
<1>11. CASE Cleanup \/ Crash \/ UNCHANGED vars \/ \E f \in Files : Edit(f)
  BY <1>1, <1>11 DEF Cleanup, Crash, Edit, vars
<1>12. ASSUME NEW u \in Txs, ApplyBegin(u) \/ RecoverBegin(u)
       PROVE  manifest[t] # None
  <2>1. CASE ApplyBegin(u)
    BY <1>1, <2>1 DEF ApplyBegin, Begin
  <2>2. CASE RecoverBegin(u)
    BY <1>1, <2>2 DEF RecoverBegin, Begin, TypeOK, Proposals
  <2> QED
    BY <1>12, <2>1, <2>2
<1>13. ASSUME NEW u \in Txs,
              \/ Propose(u) \/ (\E mode \in Modes : ProposeRecovery(u, mode)) \/ RecoverStale(u)
       PROVE  manifest[t] # None
  BY <1>1, <1>13 DEF Propose, ProposeRecovery, RecoverStale
<1>14. ASSUME NEW u \in Txs, StartupScan(u)
       PROVE  manifest[t] # None
  BY <1>14 DEF StartupScan, Planned
<1>15. ASSUME NEW u \in Txs, FinalizeBegin(u) \/ FinalizeSkips(u)
       PROVE  manifest[t] # None
  BY <1>15 DEF FinalizeBegin, FinalizeSkips, Begin, Planned
<1> QED
  BY <1>3, <1>4, <1>5, <1>6, <1>7, <1>8, <1>9, <1>10, <1>11, <1>12, <1>13, <1>14, <1>15
     DEF Next, Continue

\* A manifest that is there stays, and a new one is that of the operation.
LEMMA ManifestStays ==
  ASSUME IInv, [Next]_vars, NEW t \in Txs
  PROVE  /\ manifest[t] # None => manifest'[t] # None
         /\ manifest'[t] # None => manifest[t] # None \/ (Prepare /\ op.tx = t)
                                   \/ (RecordSuccess /\ op.tx = t /\ op.kind = "finalize")
<1> USE NoneAssumption DEF NoneAssumption, Running, Final, Pending
<1>0. /\ manifest \in [Txs -> Pending \cup Final \cup {None}]
      /\ op # None => op \in Ops /\ op.tx \in Txs
  BY DEF IInv, TypeOK, Ops
<1>1. CASE UNCHANGED manifest
  BY <1>1
<1>2. CASE Prepare
  BY <1>0, <1>2 DEF Prepare, WriteManifest
<1>3. CASE MarkCommitting
  <2>1. manifest[op.tx] = "prepared"
    BY <1>3 DEF MarkCommitting, IInv, ManifestKept, Staging
  <2> QED
    BY <1>0, <1>3, <2>1 DEF MarkCommitting, WriteManifest
<1>4. CASE RecordFailure
  <2>1. manifest[op.tx] \in Pending
    BY <1>0, <1>4 DEF RecordFailure, Replacing, IInv, ManifestKept, Committing
  <2> QED
    BY <1>0, <1>4, <2>1 DEF RecordFailure, WriteManifest
<1>5. CASE RecordSuccess
  <2>1. op.kind # "finalize" => manifest[op.tx] \in Pending
    BY <1>0, <1>5 DEF RecordSuccess, Kinds, IInv, ManifestKept
  <2> QED
    BY <1>0, <1>5, <2>1 DEF RecordSuccess, WriteManifest
<1> QED
  BY <1>1, <1>2, <1>3, <1>4, <1>5, ManifestSteps

\* Every step keeps what is planned.
LEMMA PlannedStep ==
  ASSUME IInv, Planned, [Next]_vars
  PROVE  Planned'
<1> USE ConstantsAssumption, NoneAssumption DEF ConstantsAssumption, NoneAssumption, Running, plan
<1>0. TypeOK /\ (op # None => op \in Ops /\ op.tx \in Txs /\ op.todo \subseteq Targets[op.tx])
  BY DEF IInv, TypeOK, Ops, OperationShape
<1> SUFFICES ASSUME NEW t \in Txs
             PROVE  /\ \A f \in Targets[t] :
                         /\ before'[t][f] # None =>
                              /\ after'[t][f] # None
                              /\ after'[t][f] = Patched[t][before'[t][f]]
                         /\ manifest'[t] # None => before'[t][f] # None
                    /\ t \in scanned' \/ (op' # None /\ op'.tx = t /\ op'.kind = "finalize") =>
                         manifest'[t] # None
  BY DEF Planned
<1>1. t \in scanned' \/ (op' # None /\ op'.tx = t /\ op'.kind = "finalize") =>
        manifest'[t] # None
  BY ScannedStep, ManifestStays
<1>2. ASSUME UNCHANGED plan, NEW f \in Targets[t]
      PROVE  /\ before'[t][f] # None =>
                  after'[t][f] # None /\ after'[t][f] = Patched[t][before'[t][f]]
             /\ manifest'[t] # None => before'[t][f] # None
  <2>1. CASE Prepare /\ op.tx = t
    BY <1>2, <2>1 DEF Prepare, IInv, Prepared, Planned
  <2>2. CASE RecordSuccess /\ op.tx = t /\ op.kind = "finalize"
    BY <1>2, <2>2 DEF RecordSuccess, Planned
  <2>3. CASE manifest[t] # None \/ manifest'[t] = None
    BY <1>2, <2>3 DEF Planned
  <2> QED
    BY <2>1, <2>2, <2>3, ManifestStays
<1>3. ASSUME NEW g \in Files, ReadTarget(g), NEW f \in Targets[t]
      PROVE  /\ before'[t][f] # None =>
                  after'[t][f] # None /\ after'[t][f] = Patched[t][before'[t][f]]
             /\ manifest'[t] # None => before'[t][f] # None
  <2>1. /\ op # None /\ Patched[op.tx][file[g]] # None /\ file[g] # None
        /\ UNCHANGED manifest
        /\ before'[t][f] = IF t = op.tx /\ f = g THEN file[g] ELSE before[t][f]
        /\ after'[t][f] = IF t = op.tx /\ f = g THEN Patched[t][file[g]] ELSE after[t][f]
    BY <1>0, <1>3 DEF ReadTarget, TypeOK, disk
  <2> QED
    BY <2>1 DEF Planned
<1> QED
  BY <1>1, <1>2, <1>3, PlanSteps

\* What is planned, in every reachable state.
LEMMA PlannedInvariance == Spec => []Planned
<1>1. Init => Planned
  BY ConstantsAssumption DEF Init, Planned, ConstantsAssumption
<1>2. IInv /\ Planned /\ [Next]_vars => Planned'
  BY PlannedStep
<1> QED
  BY <1>1, <1>2, Invariance, PTL DEF Spec

\* What Content is: of a file that a pending transaction holds, what that one
\* transaction found there.
ContentIs ==
  \A f \in Files :
    /\ \A t \in Txs : Holds(t, f) => Content[f] = before[t][f]
    /\ (\A t \in Txs : ~Holds(t, f)) => Content[f] = file[f]

\* Transactions that are apart do not hold the same file.
LEMMA ContentFacts == Apart => ContentIs
<1> SUFFICES ASSUME Apart, NEW f \in Files
             PROVE  /\ \A t \in Txs : Holds(t, f) => Content[f] = before[t][f]
                    /\ (\A t \in Txs : ~Holds(t, f)) => Content[f] = file[f]
  BY DEF ContentIs
<1>1. ASSUME NEW t \in Txs, Holds(t, f)
      PROVE  Content[f] = before[t][f]
  <2> DEFINE u == CHOOSE u \in Txs : Holds(u, f)
  <2>1. u \in Txs /\ Holds(u, f)
    BY <1>1
  <2>2. u = t
    BY <1>1, <2>1 DEF Apart, Ongoing, Holds
  <2> QED
    BY <1>1, <2>2 DEF Content
<1>2. (\A t \in Txs : ~Holds(t, f)) => Content[f] = file[f]
  BY DEF Content
<1> QED
  BY <1>1, <1>2

\* As long as nobody else edits, a file changes only while the transaction that
\* changes it is pending and holds it.
LEMMA FileSteps ==
  ASSUME IInv, [Next]_vars, edits' = 0, NEW f \in Files, file'[f] # file[f]
  PROVE  op # None /\ op.tx \in Txs /\ Holds(op.tx, f)
<1>0. /\ TypeOK /\ edits \in 0..MaxEdits /\ edits' = edits
      /\ op # None => op \in Ops /\ op.tx \in Txs
  BY NoEdit DEF IInv, TypeOK, Ops
<1>1. CASE Rename
  <2>1. /\ op # None /\ op.stage = "rename" /\ op.kind \in Replacing
        /\ f = op.cur /\ f \in Targets[op.tx]
    BY <1>0, <1>1 DEF Rename, Running, IInv, OperationShape, TypeOK
  <2> QED
    BY <1>0, <2>1 DEF Holds, IInv, ManifestKept, Committing, Replacing, Pending
<1>2. ASSUME NEW g \in Files, UndoFile(g)
      PROVE  op # None /\ op.tx \in Txs /\ Holds(op.tx, f)
  <2>1. /\ op # None /\ op.stage = "undo" /\ op.kind \in Replacing
        /\ f = g /\ f \in Targets[op.tx]
    BY <1>0, <1>2 DEF UndoFile, Running, IInv, OperationShape, TypeOK
  <2> QED
    BY <1>0, <2>1 DEF Holds, IInv, ManifestKept, Committing, Replacing, Pending
<1> QED
  BY <1>0, <1>1, <1>2, ReplacingSteps

\* A step that writes no manifest changes nothing that is promised.
LEMMA QuietStep ==
  ASSUME IInv, ContentIs, ContentIs', [Next]_vars, edits' = 0, UNCHANGED manifest
  PROVE  UNCHANGED (Atomic!vars)
<1> USE NoneAssumption DEF NoneAssumption
<1>1. Status' = Status
  BY DEF Status
<1>2. ASSUME NEW f \in Files
      PROVE  Content'[f] = Content[f]
  <2>1. ASSUME NEW t \in Txs, Holds(t, f)
        PROVE  Content'[f] = Content[f]
    <3>1. before'[t][f] = before[t][f]
      BY <2>1, PlanKept DEF Holds, Pending
    <3>2. Holds(t, f)'
      BY <2>1 DEF Holds
    <3>3. Content[f] = before[t][f] /\ Content'[f] = before'[t][f]
      BY <1>2, <2>1, <3>2 DEF ContentIs
    <3> QED
      BY <3>1, <3>3
  <2>2. CASE \A t \in Txs : ~Holds(t, f)
    <3>1. file'[f] = file[f]
      BY <2>2, FileSteps
    <3>2. \A t \in Txs : ~Holds(t, f)'
      BY <2>2 DEF Holds
    <3>3. Content[f] = file[f] /\ Content'[f] = file'[f]
      BY <1>2, <2>2, <3>2 DEF ContentIs
    <3> QED
      BY <3>1, <3>3
  <2> QED
    BY <2>1, <2>2
<1>3. Content' = Content
  <2>1. /\ Content = [f \in Files |-> Content[f]]
        /\ Content' = [f \in Files |-> Content'[f]]
    BY DEF Content
  <2> QED
    BY <1>2, <2>1
<1> QED
  BY <1>1, <1>3 DEF Atomic!vars

\* What a step that writes the manifest of its transaction does to its files
\* and to those of the others.
LEMMA WritingStep ==
  ASSUME IInv, ContentIs, ContentIs', Apart, [Next]_vars, NEW t \in Txs, op # None, op.tx = t,
         UNCHANGED <<file, before>>, NEW state,
         manifest' = [manifest EXCEPT ![t] = state]
  PROVE  /\ \A f \in Files \ Targets[t] : Content'[f] = Content[f]
         /\ \A f \in Targets[t] :
              /\ Content[f] = IF manifest[t] \in Pending THEN before[t][f] ELSE file[f]
              /\ Content'[f] = IF state \in Pending THEN before[t][f] ELSE file[f]
         /\ state \notin Final => Status' = [Status EXCEPT ![t] = "open"]
         /\ state \in Final => Status' = [Status EXCEPT ![t] = state]
<1> USE ConstantsAssumption DEF ConstantsAssumption
<1>0. manifest \in [Txs -> Pending \cup Final \cup {None}] /\ Targets[t] \subseteq Files
  BY DEF IInv, TypeOK
<1>1. \A u \in Txs \ {t} : \A f \in Files : Holds(u, f)' = Holds(u, f)
  BY <1>0 DEF Holds
<1>2. \A f \in Targets[t] : \A u \in Txs \ {t} : ~Holds(u, f)
  BY DEF Apart, Ongoing, Holds
<1>3. \A f \in Targets[t] :
        /\ Holds(t, f) <=> manifest[t] \in Pending
        /\ Holds(t, f)' <=> state \in Pending
  BY <1>0 DEF Holds
<1>4. ASSUME NEW f \in Files \ Targets[t]
      PROVE  Content'[f] = Content[f]
  <2>1. ~Holds(t, f) /\ ~Holds(t, f)'
    BY <1>4 DEF Holds
  <2>2. ASSUME NEW u \in Txs, Holds(u, f)
        PROVE  Content'[f] = Content[f]
    <3>1. Holds(u, f)'
      BY <1>1, <2>1, <2>2
    <3> QED
      BY <2>2, <3>1 DEF ContentIs
  <2>3. CASE \A u \in Txs : ~Holds(u, f)
    <3>1. \A u \in Txs : ~Holds(u, f)'
      BY <1>1, <2>1, <2>3
    <3> QED
      BY <2>3, <3>1 DEF ContentIs
  <2> QED
    BY <2>2, <2>3
<1>5. ASSUME NEW f \in Targets[t]
      PROVE  Content[f] = IF manifest[t] \in Pending THEN before[t][f] ELSE file[f]
  BY <1>0, <1>2, <1>3 DEF ContentIs
<1>6. ASSUME NEW f \in Targets[t]
      PROVE  Content'[f] = IF state \in Pending THEN before[t][f] ELSE file[f]
  <2>1. \A u \in Txs \ {t} : ~Holds(u, f)'
    BY <1>0, <1>1, <1>2
  <2> QED
    BY <1>0, <1>3, <2>1 DEF ContentIs
<1>7. state \notin Final => Status' = [Status EXCEPT ![t] = "open"]
  BY <1>0 DEF Status
<1>8. state \in Final => Status' = [Status EXCEPT ![t] = state]
  BY <1>0 DEF Status
<1> QED
  BY <1>4, <1>5, <1>6, <1>7, <1>8

\* A pending transaction that becomes final with what it wrote in some of its
\* files and what it found in the others.
LEMMA EndingStep ==
  ASSUME IInv, Planned, ContentIs, ContentIs', Apart, [Next]_vars,
         NEW t \in Txs, op # None, op.tx = t, UNCHANGED <<file, before>>,
         NEW state \in Final, manifest' = [manifest EXCEPT ![t] = state],
         manifest[t] \in Pending, NEW fs \in SUBSET Targets[t],
         \A f \in fs : AtAfter(t, f), \A f \in Targets[t] \ fs : AtBefore(t, f)
  PROVE  /\ Content' = Atomic!With(t, fs)
         /\ Status[t] = "open" /\ Status' = [Status EXCEPT ![t] = state]
         /\ \A f \in Targets[t] : Patched[t][Content[f]] # None
<1> USE ConstantsAssumption, NoneAssumption DEF ConstantsAssumption, NoneAssumption
<1>1. Targets[t] \subseteq Files /\ fs \subseteq Files
  OBVIOUS
<1>2. /\ \A f \in Files \ Targets[t] : Content'[f] = Content[f]
      /\ \A f \in Targets[t] : Content[f] = before[t][f] /\ Content'[f] = file[f]
      /\ Status' = [Status EXCEPT ![t] = state]
  <2>1. state \notin Pending
    BY DEF Final, Pending
  <2> QED
    BY ZenonT(30), <2>1, WritingStep
<1>3. \A f \in Targets[t] : after[t][f] # None /\ after[t][f] = Patched[t][before[t][f]]
  BY DEF Planned, Pending
<1>4. ASSUME NEW f \in Files
      PROVE  Content'[f] = IF f \in fs THEN Patched[t][Content[f]] ELSE Content[f]
  <2>1. CASE f \in fs
    BY <1>2, <1>3, <2>1 DEF AtAfter
  <2>2. CASE f \in Targets[t] \ fs
    BY <1>2, <2>2 DEF AtBefore
  <2>3. CASE f \notin Targets[t]
    BY <1>2, <1>4, <2>3
  <2> QED
    BY <2>1, <2>2, <2>3
<1>5. Content' = Atomic!With(t, fs)
  <2>1. Content' = [f \in Files |-> Content'[f]]
    BY DEF Content
  <2> QED
    BY <1>4, <2>1 DEF Atomic!With
<1>6. Status[t] = "open"
  BY DEF Status, Final, Pending
<1> QED
  BY <1>2, <1>3, <1>5, <1>6

\* Every step of an operation, a scan, a proposal or a crash is one of AtomicPatch,
\* or changes nothing there.
LEMMA AtomicStep ==
  ASSUME IInv, Untouched, Replaced, Undoing, Planned, ContentIs, ContentIs', Apart,
         [Next]_vars, edits' = 0
  PROVE  [Atomic!Next]_(Atomic!vars)
<1> USE ConstantsAssumption, NoneAssumption DEF ConstantsAssumption, NoneAssumption, Running
<1>0. /\ edits = 0 /\ (op # None => op \in Ops /\ op.tx \in Txs)
      /\ manifest \in [Txs -> Pending \cup Final \cup {None}]
      /\ before \in [Txs -> [Files -> Contents \cup {None}]]
  BY NoEdit DEF IInv, TypeOK, Ops
<1>1. CASE UNCHANGED manifest
  BY <1>1, QuietStep
<1>2. ASSUME op # None, UNCHANGED <<file, before>>, NEW state \in Pending, NEW t \in Txs, op.tx = t,
             manifest' = [manifest EXCEPT ![t] = state], manifest[t] \notin Final,
             \A f \in Targets[t] : manifest[t] \in Pending \/ AtBefore(t, f)
      PROVE  UNCHANGED (Atomic!vars)
  <2>1. state \notin Final
    BY DEF Final, Pending
  <2>2. /\ \A f \in Files \ Targets[t] : Content'[f] = Content[f]
        /\ \A f \in Targets[t] :
             /\ Content[f] = IF manifest[t] \in Pending THEN before[t][f] ELSE file[f]
             /\ Content'[f] = IF state \in Pending THEN before[t][f] ELSE file[f]
        /\ state \notin Final => Status' = [Status EXCEPT ![t] = "open"]
    <3> HIDE DEF Running
    <3> HIDE ConstantsAssumption
    <3> QED
      BY <1>2, WritingStep
  <2>3. \A f \in Files : Content'[f] = Content[f]
    BY <1>2, <2>2 DEF AtBefore
  <2>4. Content' = Content
    <3>1. /\ Content = [f \in Files |-> Content[f]]
          /\ Content' = [f \in Files |-> Content'[f]]
      BY DEF Content
    <3> QED
      BY <2>3, <3>1
  <2>5. Status' = Status
    BY <1>2, <2>1, <2>2 DEF Status
  <2> QED
    BY <2>4, <2>5 DEF Atomic!vars
<1>3. ASSUME op # None, UNCHANGED <<file, before>>, manifest[op.tx] \in Pending,
             manifest' = [manifest EXCEPT ![op.tx] = "rolled_back"],
             NEW fs, fs \in SUBSET Targets[op.tx],
             \A f \in fs : AtAfter(op.tx, f), \A f \in Targets[op.tx] \ fs : AtBefore(op.tx, f)
      PROVE  /\ Content' = Atomic!With(op.tx, fs)
             /\ Status[op.tx] = "open" /\ Status' = [Status EXCEPT ![op.tx] = "rolled_back"]
  <2>1. "rolled_back" \in Final
    BY DEF Final
  <2> QED
    BY <1>0, <1>3, <2>1, EndingStep
<1>4. ASSUME op # None, UNCHANGED <<file, before>>, manifest[op.tx] \in Pending,
             manifest' = [manifest EXCEPT ![op.tx] = "rolled_back"],
             \A f \in Targets[op.tx] : AtBefore(op.tx, f)
      PROVE  Atomic!Next
  <2> DEFINE none == {f \in Targets[op.tx] : FALSE}
  <2>1. /\ none \in SUBSET Targets[op.tx]
        /\ \A f \in none : AtAfter(op.tx, f)
        /\ \A f \in Targets[op.tx] \ none : AtBefore(op.tx, f)
    BY <1>4
  <2>2. Atomic!With(op.tx, none) = Content
    BY DEF Atomic!With, Content
  <2> HIDE DEF none
  <2>3. /\ Content' = Atomic!With(op.tx, none)
        /\ Status[op.tx] = "open" /\ Status' = [Status EXCEPT ![op.tx] = "rolled_back"]
    BY <1>3, <1>4, <2>1
  <2> QED
    BY <1>0, <1>4, <2>2, <2>3 DEF Atomic!Next, Atomic!RollBack
<1>5. CASE Prepare
  <2>1. op # None /\ op.kind = "apply" /\ op.stage = "prepare" /\ UNCHANGED <<file, before>>
    BY <1>5 DEF Prepare, plan
  <2>2. manifest[op.tx] = None /\ \A f \in Targets[op.tx] : AtBefore(op.tx, f)
    BY <1>0, <2>1 DEF IInv, NothingOnDisk, Preparing, Untouched
  <2>3. CASE manifest' = [manifest EXCEPT ![op.tx] = "prepared"]
    BY <1>0, <1>2, <2>1, <2>2, <2>3 DEF Pending, Final
  <2> QED
    BY <1>1, <1>5, <2>3 DEF Prepare, WriteManifest
<1>6. CASE MarkCommitting
  <2>1. op # None /\ op.kind = "apply" /\ op.stage = "mark" /\ UNCHANGED <<file, before>>
    BY <1>6 DEF MarkCommitting, plan
  <2>2. manifest[op.tx] = "prepared"
    BY <2>1 DEF IInv, ManifestKept, Staging
  <2>3. CASE manifest' = [manifest EXCEPT ![op.tx] = "committing"]
    BY <1>0, <1>2, <2>1, <2>2, <2>3 DEF Pending, Final
  <2> QED
    BY <1>1, <1>6, <2>3 DEF MarkCommitting, WriteManifest
<1>7. CASE RecordFailure
  <2>1. op # None /\ op.kind \in Replacing /\ op.stage = "undone" /\ UNCHANGED <<file, before>>
    BY <1>7 DEF RecordFailure, plan
  <2>2. manifest[op.tx] \in Pending
    BY <1>0, <2>1 DEF Replacing, IInv, ManifestKept, Committing, Pending
  <2>3. ASSUME NEW state \in {"rollback_partial", "recovery_apply_failed"},
               manifest' = [manifest EXCEPT ![op.tx] = state]
        PROVE  [Atomic!Next]_(Atomic!vars)
    <3>1. state \in Pending /\ manifest[op.tx] \notin Final
      BY <2>2 DEF Pending, Final
    <3> QED
      BY <1>0, <1>2, <2>1, <2>2, <2>3, <3>1
  <2>4. CASE op.kind = "apply" /\ ~op.errors /\ manifest' = [manifest EXCEPT ![op.tx] = "rolled_back"]
    <3>1. op.todo = {}
      BY <1>0, <2>1 DEF Replaced
    <3>2. PICK unread \in Targets[op.tx] :
            /\ AtBefore(op.tx, unread) \/ (VerifyFaults /\ AtAfter(op.tx, unread))
            /\ \A f \in Targets[op.tx] \ (op.todo \cup {unread}) : AtBefore(op.tx, f)
      BY <1>0, <2>1, <2>4 DEF Undoing
    <3>3. CASE AtBefore(op.tx, unread)
      <4>1. \A f \in Targets[op.tx] : AtBefore(op.tx, f)
        BY <3>1, <3>2, <3>3
      <4> QED
        BY <1>4, <2>1, <2>2, <2>4, <4>1
    <3>4. CASE VerifyFaults /\ AtAfter(op.tx, unread)
      <4>1. /\ {unread} \in SUBSET Targets[op.tx]
            /\ \A f \in Targets[op.tx] \ {unread} : AtBefore(op.tx, f)
            /\ \A f \in {unread} : AtAfter(op.tx, f)
        BY <3>1, <3>2, <3>4 DEF Final
      <4>2. /\ Content' = Atomic!With(op.tx, {unread})
            /\ Status[op.tx] = "open" /\ Status' = [Status EXCEPT ![op.tx] = "rolled_back"]
        BY <1>3, <2>1, <2>2, <2>4, <4>1
      <4> QED
        BY <1>0, <2>1, <3>4, <4>2 DEF Atomic!Next, Atomic!RollBack
    <3> QED
      BY <3>2, <3>3, <3>4
  <2> QED
    BY <1>1, <1>7, <2>3, <2>4 DEF RecordFailure, WriteManifest
<1>8. CASE RecordSuccess
  <2>1. op # None /\ op.kind \in Kinds /\ op.stage = "finish" /\ UNCHANGED <<file, before>>
    BY <1>8 DEF RecordSuccess, plan
  <2>2. op.kind # "finalize" => manifest[op.tx] \in Pending
    BY <1>0, <2>1 DEF Kinds, IInv, ManifestKept, Committing, Pending
  <2>3. CASE op.kind \in Modes /\ manifest' = [manifest EXCEPT ![op.tx] = "finalize_failed"]
    <3>1. manifest[op.tx] \in Pending /\ manifest[op.tx] \notin Final
      BY <2>2, <2>3 DEF Modes, Pending, Final
    <3> QED
      BY <1>0, <1>2, <2>1, <2>3, <3>1 DEF Pending
  <2>4. CASE op.kind = "rollback" /\ manifest' = [manifest EXCEPT ![op.tx] = "rolled_back"]
    <3>1. \A f \in Targets[op.tx] : AtBefore(op.tx, f)
      BY <1>0, <2>1, <2>4 DEF Replaced, Replacing, Modes, Wanted, AtBefore
    <3> QED
      BY <1>4, <2>1, <2>2, <2>4, <3>1
  <2>5. CASE op.kind # "rollback" /\ manifest' = [manifest EXCEPT ![op.tx] = "committed"]
    <3>1. \A f \in Targets[op.tx] : AtAfter(op.tx, f)
      BY <1>0, <2>1, <2>5 DEF Replaced, Replacing, Kinds, Modes, Wanted, AtAfter
    <3>2. CASE manifest[op.tx] \in Pending
      <4>1. /\ Content' = Atomic!With(op.tx, Targets[op.tx])
            /\ Status[op.tx] = "open" /\ Status' = [Status EXCEPT ![op.tx] = "committed"]
            /\ \A f \in Targets[op.tx] : Patched[op.tx][Content[f]] # None
        BY <1>0, <2>1, <2>5, <3>1, <3>2, EndingStep DEF Final
      <4> QED
        BY <1>0, <2>1, <4>1 DEF Atomic!Next, Atomic!Commit
    <3>3. CASE manifest[op.tx] = "committed"
      BY <1>0, <1>1, <2>1, <2>5, <3>3
    <3>4. CASE manifest[op.tx] = "rolled_back"
      <4>1. manifest[op.tx] \notin Pending /\ "committed" \notin Pending /\ "committed" \in Final
        BY <3>4 DEF Pending, Final
      <4>2. /\ \A f \in Files \ Targets[op.tx] : Content'[f] = Content[f]
            /\ \A f \in Targets[op.tx] : Content[f] = file[f] /\ Content'[f] = file[f]
            /\ Status' = [Status EXCEPT ![op.tx] = "committed"]
        BY <1>0, <2>1, <2>5, <4>1, WritingStep
      <4>3. Content' = Content
        <5>1. \A f \in Files : Content'[f] = Content[f]
          BY <4>2
        <5>2. /\ Content = [f \in Files |-> Content[f]]
              /\ Content' = [f \in Files |-> Content'[f]]
          BY DEF Content
        <5> QED
          BY <5>1, <5>2
      <4>4. Status[op.tx] = "rolled_back"
        BY <1>0, <2>1, <3>4 DEF Status, Final
      <4>5. ASSUME NEW f \in Targets[op.tx]
            PROVE  \E c \in Contents : Content[f] = Patched[op.tx][c]
        <5>1. /\ before[op.tx][f] \in Contents
              /\ after[op.tx][f] = Patched[op.tx][before[op.tx][f]]
          <6>1. manifest[op.tx] # None
            BY <3>4 DEF Final
          <6> QED
            BY <1>0, <2>1, <6>1 DEF Planned
        <5>2. Content[f] = after[op.tx][f]
          BY <3>1, <4>2 DEF AtAfter
        <5> QED
          BY <5>1, <5>2
      <4> QED
        BY <1>0, <2>1, <4>2, <4>3, <4>4, <4>5 DEF Atomic!Next, Atomic!Recognise
    <3>5. manifest[op.tx] # None
      BY <1>0, <2>1, <2>2 DEF Planned, Pending
    <3> QED
      BY <1>0, <2>1, <3>2, <3>3, <3>4, <3>5 DEF Final
  <2> QED
    BY <1>1, <1>8, <2>1, <2>3, <2>4, <2>5 DEF RecordSuccess, WriteManifest
<1> QED
  BY <1>1, <1>5, <1>6, <1>7, <1>8, ManifestSteps

\* Whatever the patches, faults and crashes: as long as nobody else edits and
\* the transactions that are not over are apart, what an operation does, in
\* however many steps and recoveries, is at one moment a whole patch or none.
THEOREM ActsAtomicallyTheorem == Spec => ActsAtomically
<1> DEFINE Acts == edits' = 0 /\ Apart /\ Apart' => [Atomic!Next]_(Atomic!vars)
<1>1. Apart' => ContentIs'
  BY ContentFacts, PTL
<1>2. IInv /\ Untouched /\ Replaced /\ Undoing /\ Planned /\ [Next]_vars => Acts
  BY <1>1, AtomicStep, ContentFacts
<1>3. Acts => [Acts]_vars
  OBVIOUS
<1> QED
  BY <1>2, Invariance, ProgressInvariance, PlannedInvariance, PTL DEF Spec, ActsAtomically

\* In such a run all that happens is a run of AtomicPatch.
THEOREM AtomicRefinement == Spec /\ [](edits = 0 /\ Apart) => Atomic!Spec
<1>1. Init => Atomic!Init
  BY NoneAssumption DEF Init, Atomic!Init, Content, Status, Holds, Pending, Final, NoneAssumption
<1>2. Apart' => ContentIs'
  BY ContentFacts, PTL
<1>3. IInv /\ Untouched /\ Replaced /\ Undoing /\ Planned /\ [Next]_vars
        /\ Apart /\ Apart' /\ (edits = 0)' => [Atomic!Next]_(Atomic!vars)
  BY <1>2, AtomicStep, ContentFacts
<1>4. Spec /\ [](edits = 0 /\ Apart) => Atomic!Init /\ [][Atomic!Next]_(Atomic!vars)
  BY <1>1, <1>3, Invariance, ProgressInvariance, PlannedInvariance, PTL DEF Spec
<1> QED
  BY <1>4 DEF Atomic!Spec

-----------------------------------------------------------------------------
(***************************************************************************)
(* The lock under which a transaction runs: WriteLock, with and without    *)
(* I/O errors and reused pids.                                             *)
(*                                                                         *)
(* The inductive invariant LockIInv adds to the type invariant             *)
(*   - JudgedDead: what a worker is about to rename had a dead owner, and  *)
(*     an owner does not come back to life (epochs only grow);             *)
(*   - OwnLockAtPath: as long as no takeover has raced, the lock file of   *)
(*     an owner is at lockPath.                                            *)
(* A takeover that renames what it judged therefore never takes the lock   *)
(* of an owner, and two owners would both be the one worker lock.by.       *)
(***************************************************************************)
USE LockAssumption, NoLockAssumption DEF LockAssumption, NoLockAssumption

LockIInv == LockTypeOK /\ JudgedDead /\ OwnLockAtPath

\* The initial values have their types.
LEMMA LockInitTypeOK ==
  ASSUME LockInit
  PROVE  LockTypeOK
<1>1. lock \in Locks \cup {NoLock} /\ raced \in BOOLEAN
  BY DEF LockInit
<1>2. pc \in [Workers -> LockStages]
  BY DEF LockInit, LockStages
<1>3. epoch \in [Procs -> Nat] /\ judged \in [Workers -> Judgements \cup {NoLock}]
  BY DEF LockInit
<1> QED
  BY <1>1, <1>2, <1>3 DEF LockTypeOK

\* Every variable of WriteLock keeps to its type: the basis of the other proofs.
THEOREM LockTypesTheorem == LockSpec => []LockTypeOK
<1>1. LockInit => LockTypeOK
  BY LockInitTypeOK
<1>2. LockTypeOK /\ [LockNext]_lockVars => LockTypeOK'
  <2> SUFFICES ASSUME LockTypeOK, [LockNext]_lockVars
               PROVE  LockTypeOK'
    OBVIOUS
  <2> USE DEF LockTypeOK, LockStages, Locks, Judgements, Enter
  <2>1. ASSUME NEW w \in Workers, Open(w)
        PROVE  LockTypeOK'
    BY <2>1 DEF Open, CreateAt
  <2>2. ASSUME NEW w \in Workers, OpenExists(w)
        PROVE  LockTypeOK'
    BY <2>2 DEF OpenExists
  <2>3. ASSUME NEW w \in Workers, InspectStale(w)
        PROVE  LockTypeOK'
    BY <2>3 DEF InspectStale, Stale
  <2>4. ASSUME NEW w \in Workers, InspectBusy(w)
        PROVE  LockTypeOK'
    BY <2>4 DEF InspectBusy
  <2>5. ASSUME NEW w \in Workers, Quarantine(w)
        PROVE  LockTypeOK'
    BY <2>5 DEF Quarantine
  <2>6. ASSUME NEW w \in Workers, QuarantineFails(w)
        PROVE  LockTypeOK'
    BY <2>6 DEF QuarantineFails
  <2>7. ASSUME NEW w \in Workers, Recreate(w)
        PROVE  LockTypeOK'
    BY <2>7 DEF Recreate, CreateAt
  <2>8. ASSUME NEW w \in Workers, RecreateExists(w)
        PROVE  LockTypeOK'
    BY <2>8 DEF RecreateExists
  <2>9. ASSUME NEW w \in Workers, WriteMetadata(w)
        PROVE  LockTypeOK'
    BY <2>9 DEF WriteMetadata, Owns
  <2>10. ASSUME NEW w \in Workers, WriteFails(w) \/ LockCleanup(w)
         PROVE  LockTypeOK'
    BY <2>10 DEF WriteFails, LockCleanup
  <2>11. ASSUME NEW w \in Workers, Release(w) \/ Unlink(w)
         PROVE  LockTypeOK'
    BY <2>11 DEF Release, Unlink
  <2>12. ASSUME NEW p \in Procs, LockCrash(p)
         PROVE  LockTypeOK'
    BY <2>12 DEF LockCrash
  <2>13. CASE Age
    BY <2>13 DEF Age
  <2>14. CASE UNCHANGED lockVars
    BY <2>14 DEF lockVars
  <2> QED
    BY <2>1, <2>2, <2>3, <2>4, <2>5, <2>6, <2>7, <2>8, <2>9, <2>10, <2>11,
       <2>12, <2>13, <2>14 DEF LockNext, LockContinue
<1> QED
  BY <1>1, <1>2, PTL DEF LockSpec

\* A dead process's lock stays dead: no step lowers an epoch.
LEMMA LockDeadStaysDead ==
  ASSUME LockTypeOK, [LockNext]_lockVars,
         NEW l \in Judgements, Dead(l)
  PROVE  Dead(l)'
<1> USE DEF LockTypeOK, Judgements, Dead
<1>1. ASSUME NEW p \in Procs, LockCrash(p)
      PROVE  Dead(l)'
  BY <1>1 DEF LockCrash
<1>2. CASE UNCHANGED epoch
  BY <1>2
<1> QED
  BY <1>1, <1>2
  DEF LockNext, LockContinue, lockVars, Open, OpenExists, InspectStale,
      InspectBusy, Quarantine, QuarantineFails, Recreate, RecreateExists,
      WriteMetadata, WriteFails, LockCleanup, Release, Unlink, Age

\* Every step keeps JudgedDead: a judgement is made of a dead lock only.
LEMMA LockJudgedDeadStep ==
  ASSUME LockTypeOK, JudgedDead, [LockNext]_lockVars
  PROVE  JudgedDead'
<1> SUFFICES ASSUME NEW v \in Workers, (pc[v] = "quarantine")'
             PROVE  /\ (judged[v] # NoLock /\ Dead(judged[v]))'
                    /\ (lock # NoLock /\ Judged(v) => lock.full)'
  BY DEF JudgedDead
<1>1. CASE pc[v] = "quarantine" /\ judged'[v] = judged[v]
  <2> USE DEF LockTypeOK, Locks, Judgements
  <2>1. judged[v] \in Judgements /\ Dead(judged[v])
    BY <1>1 DEF JudgedDead
  <2>2. Dead(judged[v])'
    BY <1>1, <2>1, LockDeadStaysDead DEF Dead
  <2>3. ASSUME NEW w \in Workers, Open(w) \/ Recreate(w)
        PROVE  (lock # NoLock /\ Judged(v) => lock.full)'
    BY <1>1, <2>1, <2>3 DEF Open, Recreate, CreateAt, Judged, Dead
  <2>4. ASSUME lock' # NoLock, lock # NoLock,
               lock'.by = lock.by, lock'.born = lock.born, lock.full => lock'.full
        PROVE  (lock # NoLock /\ Judged(v) => lock.full)'
    BY <1>1, <2>4 DEF JudgedDead, Judged
  <2>5. ASSUME lock' = lock \/ lock' = NoLock
        PROVE  (lock # NoLock /\ Judged(v) => lock.full)'
    <3>1. CASE lock' = NoLock
      BY <3>1
    <3>2. CASE lock' = lock
      BY <1>1, <3>2 DEF JudgedDead, Judged
    <3> QED
      BY <2>5, <3>1, <3>2
  <2>6. ASSUME Age \/ \E w \in Workers : WriteMetadata(w)
        PROVE  (lock # NoLock /\ Judged(v) => lock.full)'
    BY <1>1, <2>4, <2>5, <2>6 DEF Age, WriteMetadata, Owns
  <2>7. (lock # NoLock /\ Judged(v) => lock.full)'
    BY <2>3, <2>5, <2>6
    DEF LockNext, LockContinue, lockVars, OpenExists, InspectStale, InspectBusy,
        Quarantine, QuarantineFails, RecreateExists, WriteFails, LockCleanup,
        Release, Unlink, LockCrash
  <2> QED
    BY <1>1, <2>1, <2>2, <2>7
<1>2. CASE InspectStale(v)
  BY <1>2
  DEF InspectStale, Stale, Dead, Judged, LockTypeOK, Locks,
      Judgements
<1> QED
  BY ZenonT(30), <1>1, <1>2
  DEF LockTypeOK, Enter, LockNext, LockContinue, lockVars, Open, CreateAt,
      OpenExists, InspectStale, InspectBusy, Quarantine, QuarantineFails,
      Recreate, RecreateExists, WriteMetadata, WriteFails, LockCleanup,
      Release, Unlink, LockCrash, Age

\* Every step keeps the lock of an owner at lockPath, until a takeover races.
LEMMA OwnLockStep ==
  ASSUME LockIInv, [LockNext]_lockVars
  PROVE  OwnLockAtPath'
<1> USE DEF LockIInv, LockTypeOK,
            OwnLockAtPath, Owning, Owns, Enter
<1> SUFFICES ASSUME ~raced', NEW v \in Workers, pc'[v] \in Owning
             PROVE  Owns(v)'
  OBVIOUS
<1>1. ASSUME NEW w \in Workers, Open(w) \/ Recreate(w)
      PROVE  Owns(v)'
  <2>1. CreateAt(w) /\ UNCHANGED <<epoch, raced>>
    BY <1>1 DEF Open, Recreate
  <2>2. lock'.by = w /\ lock'.born = epoch[Proc[w]] /\ lock' \in Locks
    BY <2>1 DEF CreateAt, Locks
  <2>3. v = w
    BY <2>1 DEF CreateAt
  <2> QED
    BY <2>1, <2>2, <2>3
<1>2. ASSUME NEW w \in Workers,
             OpenExists(w) \/ InspectStale(w) \/ InspectBusy(w)
               \/ QuarantineFails(w) \/ RecreateExists(w)
      PROVE  Owns(v)'
  BY <1>2
  DEF OpenExists, InspectStale, InspectBusy, QuarantineFails,
      RecreateExists
<1>3. ASSUME NEW w \in Workers, Quarantine(w)
      PROVE  Owns(v)'
  <2>1. pc[v] \in Owning /\ ~raced
    BY <1>3 DEF Quarantine
  <2>2. Owns(v)
    BY <2>1
  <2>3. Dead(judged[w])
    BY <1>3 DEF Quarantine, JudgedDead
  <2>4. judged[w].by = v /\ judged[w].born = epoch[Proc[v]]
    BY <1>3, <2>2 DEF Quarantine, Judged
  <2>5. epoch[Proc[v]] \in Nat
    OBVIOUS
  <2> QED
    BY <2>3, <2>4, <2>5 DEF Dead
<1>4. ASSUME NEW w \in Workers, WriteMetadata(w)
      PROVE  Owns(v)'
  BY ZenonT(30), <1>4 DEF WriteMetadata, Locks
<1>5. ASSUME NEW w \in Workers, WriteFails(w)
      PROVE  Owns(v)'
  BY <1>5 DEF WriteFails
<1>6. ASSUME NEW w \in Workers, LockCleanup(w) \/ Unlink(w)
      PROVE  Owns(v)'
  BY <1>6 DEF LockCleanup, Unlink
<1>7. ASSUME NEW w \in Workers, Release(w)
      PROVE  Owns(v)'
  BY <1>7 DEF Release, Holding
<1>8. ASSUME NEW p \in Procs, LockCrash(p)
      PROVE  Owns(v)'
  BY <1>8 DEF LockCrash
<1>9. CASE Age
  BY <1>9 DEF Age, Locks
<1>10. CASE UNCHANGED lockVars
  BY <1>10 DEF lockVars
<1> QED
  BY <1>1, <1>2, <1>3, <1>4, <1>5, <1>6, <1>7, <1>8, <1>9, <1>10 DEF LockNext, LockContinue

\* The inductive invariant holds in every reachable state.
THEOREM LockInvariance == LockSpec => []LockIInv
<1>1. LockInit => LockIInv
  BY LockInitTypeOK DEF LockInit, LockIInv, JudgedDead, OwnLockAtPath, Owning
<1>2. LockTypeOK /\ LockTypeOK' /\ LockIInv /\ [LockNext]_lockVars => LockIInv'
  BY LockJudgedDeadStep, OwnLockStep DEF LockIInv
<1> QED
  BY <1>1, <1>2, LockTypesTheorem, PTL DEF LockSpec

\* Neither unlink of the code deletes another worker's lock, as long as no
\* takeover has renamed a lock it did not judge.
THEOREM OwnLockTheorem == LockSpec => []OwnLockAtPath
<1>1. LockIInv => OwnLockAtPath
  BY DEF LockIInv
<1> QED
  BY <1>1, LockInvariance, PTL

\* Mutual exclusion of the workers that act on the workspace: the one way to
\* lose it is a takeover that renames a lock it did not judge.
THEOREM ExclusionTheorem == LockSpec => []Exclusion
<1>1. LockIInv => Exclusion
  BY DEF LockIInv, OwnLockAtPath, Exclusion, Holding, Owning, Owns
<1> QED
  BY <1>1, LockInvariance, PTL

\* The lock of a live process and a malformed lock are removed or replaced by
\* nobody but their worker, unless a takeover races.
THEOREM OthersLockTheorem == LockSpec => OthersLockKept
<1> DEFINE Kept ==
      \A w \in Workers :
        /\ lock # NoLock /\ lock.by = w /\ (~Dead(lock) \/ ~lock.full)
        /\ ~raced'
        /\ lock' = NoLock \/ lock'.by # w
        => pc[w] \in {"cleanup", "unlink"}
<1>1. LockIInv /\ [LockNext]_lockVars => [Kept]_lockVars
  <2> SUFFICES ASSUME LockIInv, [LockNext]_lockVars,
                      NEW w \in Workers,
                      lock # NoLock, lock.by = w, ~Dead(lock) \/ ~lock.full,
                      ~raced',
                      lock' = NoLock \/ lock'.by # w
               PROVE  pc[w] \in {"cleanup", "unlink"}
    OBVIOUS
  <2> USE DEF LockIInv, LockTypeOK
  <2>1. lock \in Locks /\ lock' # lock
    OBVIOUS
  <2>2. ASSUME NEW v \in Workers, Quarantine(v)
        PROVE  FALSE
    <3>1. Judged(v) /\ Dead(judged[v]) /\ lock.full
      BY <2>2 DEF Quarantine, JudgedDead
    <3>2. Dead(lock)
      BY <3>1 DEF Judged, Dead
    <3> QED
      BY <3>1, <3>2
  <2>3. ASSUME NEW v \in Workers, LockCleanup(v) \/ Unlink(v)
        PROVE  v = w
    BY <2>1, <2>3 DEF LockCleanup, Unlink, OwnLockAtPath, Owning, Owns
  <2>4. ASSUME NEW v \in Workers, Open(v) \/ Recreate(v) \/ WriteMetadata(v)
        PROVE  FALSE
    <3>1. lock' \in Locks /\ lock'.by = lock.by
      BY <2>1, <2>4 DEF Open, Recreate, CreateAt, WriteMetadata, Locks
    <3> QED
      BY <3>1
  <2>5. ~Age
    <3>1. Age => lock' \in Locks /\ lock'.by = lock.by
      BY <2>1 DEF Age, Locks
    <3> QED
      BY <3>1
  <2>6. PICK v \in Workers : LockCleanup(v) \/ Unlink(v)
    BY <2>1, <2>2, <2>4, <2>5
    DEF LockNext, LockContinue, lockVars, OpenExists, InspectStale, InspectBusy,
        QuarantineFails, RecreateExists, WriteFails, Release, LockCrash
  <2> QED
    BY <2>3, <2>6 DEF LockCleanup, Unlink
<1> QED
  BY <1>1, LockInvariance, PTL DEF LockSpec, OthersLockKept
=============================================================================
