----------------------------- MODULE WriteLock -----------------------------
(***************************************************************************)
(* The workspace write lock of runtime/change-transaction.mjs              *)
(* (acquireWorkspaceWriteLock): the file .openclaw-workbench/write.lock,   *)
(* created exclusively, taken over when it is stale, and removed by the    *)
(* closure the acquisition returns.  Every writer of the workspace -- a    *)
(* patch transaction, a recovery, the finalisation at start-up -- runs     *)
(* between an acquisition and its release, in any number of processes.     *)
(*                                                                         *)
(* One action is one system call of the code, so that the calls of several *)
(* workers interleave freely.  Simplifications:                            *)
(*   - The random token is the pair <<worker, epoch of its process>>.  A   *)
(*     worker never has two locks at lockPath, so the pair tells apart     *)
(*     what the token tells apart.                                         *)
(*   - Time is one bit, lock.old: the lock has reached staleAfterMs.       *)
(*   - The quarantined file is nobody's business once it is renamed: it is *)
(*     not kept, and its unlink (whose errors are ignored) is no step.     *)
(* Names that other components have as well begin with Lock, so that a     *)
(* module can extend this one beside another (PatchTransactionProofs).     *)
(* An operator named ...Mutant is a faulty variation of the definition     *)
(* after it; the specification does not use it.                            *)
(***************************************************************************)
EXTENDS Integers, FiniteSets

CONSTANTS
  Workers,    \* the calls that want the lock
  Procs,      \* the processes they run in
  Proc,       \* the process of each worker
  MaxEpoch,   \* bound: how often a process may be restarted
  PidReuse,   \* whether the pid of a dead process may belong to another one
  Faulty,     \* the workers whose rename, write, read and unlink may fail
  NoLock      \* no lock file, no judgement

ASSUME LockAssumption ==
  /\ Proc \in [Workers -> Procs]
  /\ MaxEpoch \in Nat
  /\ PidReuse \in BOOLEAN
  /\ Faulty \subseteq Workers

Locks == [by: Workers, born: Nat, full: BOOLEAN, old: BOOLEAN]
Judgements == [by: Workers, born: Nat]

ASSUME NoLockAssumption == NoLock \notin Locks /\ NoLock \notin Judgements

VARIABLES
  lock,     \* the file at lockPath, or NoLock
  pc,       \* where each worker is in the code
  epoch,    \* the incarnation of each process
  judged,   \* history: the lock a worker found stale, until it renames it
  raced     \* history: a worker has renamed a lock it had not judged

lockVars == <<lock, pc, epoch, judged, raced>>

LockStages == {"idle", "inspect", "quarantine", "recreate",
               "write", "cleanup", "held", "unlink"}

\* The stages in which the lock file at lockPath should be the worker's own.
Owning == {"write", "cleanup", "held", "unlink"}

\* The stages in which the worker acts on the workspace under the lock.
Holding(w) == pc[w] = "held"

\* The incarnation of the process that created lock l has ended.
Dead(l) == l.born < epoch[Proc[l.by]]

\* Mutant: the liveness of the pid is not looked at.
StaleAliveMutant == lock # NoLock /\ lock.full /\ lock.old

\* The lock at lockPath has metadata, has aged, and its process is gone.
Stale == lock # NoLock /\ lock.full /\ lock.old /\ Dead(lock)

\* The lock at lockPath is the one worker w created.
Owns(w) == lock # NoLock /\ lock.by = w /\ lock.born = epoch[Proc[w]]

\* The lock at lockPath is the one worker w judged.
Judged(w) == lock.by = judged[w].by /\ lock.born = judged[w].born

Enter(w, stage) == pc' = [pc EXCEPT ![w] = stage]
-----------------------------------------------------------------------------
LockInit ==
  /\ lock = NoLock
  /\ pc = [w \in Workers |-> "idle"]
  /\ epoch = [p \in Procs |-> 0]
  /\ judged = [w \in Workers |-> NoLock]
  /\ raced = FALSE

\* open(lockPath, 'wx') finds no file and leaves an empty one.
CreateAt(w) ==
  /\ lock = NoLock
  /\ lock' = [by |-> w, born |-> epoch[Proc[w]], full |-> FALSE, old |-> FALSE]
  /\ Enter(w, "write")

Open(w) ==
  /\ pc[w] = "idle"
  /\ CreateAt(w)
  /\ UNCHANGED <<epoch, judged, raced>>

OpenExists(w) ==
  /\ pc[w] = "idle"
  /\ lock # NoLock
  /\ Enter(w, "inspect")
  /\ UNCHANGED <<lock, epoch, judged, raced>>

\* The metadata parses, is old enough, and names a process that is not alive.
InspectStale(w) ==
  /\ pc[w] = "inspect"
  /\ Stale
  /\ judged' = [judged EXCEPT ![w] = [by |-> lock.by, born |-> lock.born]]
  /\ Enter(w, "quarantine")
  /\ UNCHANGED <<lock, epoch, raced>>

\* The lock is gone, malformed, young or alive: the call throws BUSY.
InspectBusy(w) ==
  /\ pc[w] = "inspect"
  /\ ~Stale \/ PidReuse
  /\ Enter(w, "idle")
  /\ UNCHANGED <<lock, epoch, judged, raced>>

\* rename(lockPath, quarantine) moves whatever file is at lockPath by now.
Quarantine(w) ==
  /\ pc[w] = "quarantine"
  /\ lock # NoLock
  /\ raced' = IF Judged(w) THEN raced ELSE TRUE
  /\ lock' = NoLock
  /\ judged' = [judged EXCEPT ![w] = NoLock]
  /\ Enter(w, "recreate")
  /\ UNCHANGED epoch

\* The rename finds nothing (BUSY), or fails.
QuarantineFails(w) ==
  /\ pc[w] = "quarantine"
  /\ lock = NoLock \/ w \in Faulty
  /\ judged' = [judged EXCEPT ![w] = NoLock]
  /\ Enter(w, "idle")
  /\ UNCHANGED <<lock, epoch, raced>>

Recreate(w) ==
  /\ pc[w] = "recreate"
  /\ CreateAt(w)
  /\ UNCHANGED <<epoch, judged, raced>>

RecreateExists(w) ==
  /\ pc[w] = "recreate"
  /\ lock # NoLock
  /\ Enter(w, "idle")
  /\ UNCHANGED <<lock, epoch, judged, raced>>

\* The metadata goes through the handle: to the file the worker created,
\* wherever that file is by now.
WriteMetadata(w) ==
  /\ pc[w] = "write"
  /\ lock' = IF Owns(w) THEN [lock EXCEPT !.full = TRUE] ELSE lock
  /\ Enter(w, "held")
  /\ UNCHANGED <<epoch, judged, raced>>

WriteFails(w) ==
  /\ w \in Faulty
  /\ pc[w] = "write"
  /\ Enter(w, "cleanup")
  /\ UNCHANGED <<lock, epoch, judged, raced>>

\* After a failed write the file at lockPath is unlinked, whoever owns it.
LockCleanup(w) ==
  /\ pc[w] = "cleanup"
  /\ \/ lock' = NoLock
     \/ w \in Faulty /\ lock' = lock
  /\ Enter(w, "idle")
  /\ UNCHANGED <<epoch, judged, raced>>

\* The release reads the lock and goes on only if the token is its own.
Release(w) ==
  /\ Holding(w)
  /\ \/ Owns(w) /\ lock.full /\ Enter(w, "unlink")
     \/ (w \in Faulty \/ ~(Owns(w) /\ lock.full)) /\ Enter(w, "idle")
  /\ UNCHANGED <<lock, epoch, judged, raced>>

\* Mutant: the unlink misses the lock.
UnlinkMutant(w) ==
  /\ pc[w] = "unlink"
  /\ Enter(w, "idle")
  /\ UNCHANGED <<lock, epoch, judged, raced>>

\* ... and then unlinks lockPath; an error is swallowed.
Unlink(w) ==
  /\ pc[w] = "unlink"
  /\ \/ lock' = NoLock
     \/ w \in Faulty /\ lock' = lock
  /\ Enter(w, "idle")
  /\ UNCHANGED <<epoch, judged, raced>>

\* Process p dies at any point and is started again: its workers are gone,
\* its lock file stays.
LockCrash(p) ==
  /\ epoch[p] < MaxEpoch
  /\ epoch' = [epoch EXCEPT ![p] = @ + 1]
  /\ pc' = [w \in Workers |-> IF Proc[w] = p THEN "idle" ELSE pc[w]]
  /\ judged' = [w \in Workers |-> IF Proc[w] = p THEN NoLock ELSE judged[w]]
  /\ UNCHANGED <<lock, raced>>

\* The lock reaches staleAfterMs.
Age ==
  /\ lock # NoLock
  /\ ~lock.old
  /\ lock' = [lock EXCEPT !.old = TRUE]
  /\ UNCHANGED <<pc, epoch, judged, raced>>

\* What a call does once it has begun, up to the end of its release.
LockContinue(w) ==
  \/ InspectStale(w) \/ InspectBusy(w)
  \/ Quarantine(w) \/ QuarantineFails(w)
  \/ Recreate(w) \/ RecreateExists(w)
  \/ WriteMetadata(w) \/ WriteFails(w) \/ LockCleanup(w)
  \/ Release(w) \/ Unlink(w)

LockNext ==
  \/ \E w \in Workers : Open(w) \/ OpenExists(w) \/ LockContinue(w)
  \/ \E p \in Procs : LockCrash(p)
  \/ Age

LockSpec == LockInit /\ [][LockNext]_lockVars

\* Once called, the code runs on; a holder releases (applyPatchTransaction and
\* the recoveries do so in a finally block).  No caller has to call.
LockFairSpec == LockSpec /\ \A w \in Workers : WF_lockVars(LockContinue(w))
-----------------------------------------------------------------------------
LockTypeOK ==
  /\ lock \in Locks \cup {NoLock}
  /\ pc \in [Workers -> LockStages]
  /\ epoch \in [Procs -> Nat]
  /\ judged \in [Workers -> Judgements \cup {NoLock}]
  /\ raced \in BOOLEAN

\* Two workers never act on the workspace at once -- as the code has it, only
\* until a takeover renames a lock it did not judge: of two contenders that
\* found one lock stale, the slower one moves away the new lock of the other.
Exclusion ==
  ~raced => \A v, w \in Workers : Holding(v) /\ Holding(w) => v = w

\* A worker between the creation of its lock and the removal of it, in either
\* the release or the cleanup after a failed write, finds its own lock at
\* lockPath: neither unlink deletes another worker's lock.
OwnLockAtPath ==
  ~raced => \A w \in Workers : pc[w] \in Owning => Owns(w)

\* A worker about to rename the lock has judged a lock with metadata, whose
\* process is dead.
JudgedDead ==
  \A w \in Workers :
    pc[w] = "quarantine" =>
      /\ judged[w] # NoLock /\ Dead(judged[w])
      /\ lock # NoLock /\ Judged(w) => lock.full

\* The lock of a live process and a malformed lock are only ever removed or
\* replaced by the worker that created them: no contender deletes them.
OthersLockKept ==
  [][ \A w \in Workers :
        /\ lock # NoLock /\ lock.by = w /\ (~Dead(lock) \/ ~lock.full)
        /\ ~raced'
        /\ lock' = NoLock \/ lock'.by # w
        => pc[w] \in {"cleanup", "unlink"} ]_lockVars

\* A lock of a live process, created by a worker that meets no I/O errors, is in
\* the end removed, or its process dies: neither a release nor a refusal leaves
\* one behind.
LiveLock == lock # NoLock /\ ~Dead(lock) /\ lock.by \notin Faulty

LiveLockReleased == LiveLock ~> ~LiveLock
=============================================================================
