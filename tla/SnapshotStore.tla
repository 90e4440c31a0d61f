--------------------------- MODULE SnapshotStore ---------------------------
(***************************************************************************)
(* writeSnapshotAtomically and readSnapshot of runtime/snapshot-store.mjs: *)
(* how the session manager, the proposal store and the event bus of        *)
(* several processes share one snapshot file.  A write makes the lock      *)
(* directory <file>.lock, puts owner.json in it, compares the digest of    *)
(* the file with the one its manager knows (persistedDigest), renames a    *)
(* temporary file onto it and removes the lock again.  Its steps are       *)
(* system calls, between which other processes run and any process dies.   *)
(*                                                                         *)
(* Simplifications:                                                        *)
(*   - A digest stands for the content it is the digest of, None for a     *)
(*     file that does not exist.                                           *)
(*   - A write that finds the lock directory throws BUSY at once           *)
(*     (recoverStaleLock never recovers): it changes nothing and is no     *)
(*     action.                                                             *)
(*   - Temporary files have unique names and are read by nobody.           *)
(* Names that other components have as well begin with Store, so that a    *)
(* module can extend this one beside another (EventLogProofs).             *)
(* An operator named ...Mutant is a faulty variation of the definition     *)
(* after it; the specification does not use it.                            *)
(***************************************************************************)
EXTENDS Integers

CONSTANTS
  Procs,       \* the processes, one manager of the file in each
  Versions,    \* what a manager may write
  MaxCrashes,  \* bound: the number of crashes
  Faulty,      \* the processes whose system calls may fail
  None

ASSUME StoreAssumption ==
  /\ MaxCrashes \in Nat
  /\ Faulty \subseteq Procs

Locks == [by: Procs, owner: BOOLEAN, live: BOOLEAN]

ASSUME NoneAssumption == None \notin Versions \cup Procs \cup Locks

VARIABLES
  content,  \* the snapshot file
  author,   \* history: who wrote it
  lock,     \* the lock directory: its maker, whether owner.json is in it, and
            \* whether the process that made it is still running
  pc,       \* where each manager is
  known,    \* its persistedDigest
  payload,  \* what it is writing
  wrote,    \* whether its rename is done
  crashes   \* the number of crashes so far

storeVars == <<content, author, lock, pc, known, payload, wrote, crashes>>

Stages == {"down", "idle", "claim", "compare", "rename", "unlink", "rmdir"}
Inside == {"claim", "compare", "rename", "unlink", "rmdir"}

\* The lock directory is the one the running write of p has made.
Holds(p) == lock # None /\ lock.by = p /\ lock.live

Goto(p, stage) == pc' = [pc EXCEPT ![p] = stage]

\* The write returns the digest of its payload, or throws.
Return(p) ==
  /\ Goto(p, "idle")
  /\ known' = IF wrote[p] THEN [known EXCEPT ![p] = payload[p]] ELSE known

Throw(p) ==
  /\ Goto(p, "idle")
  /\ UNCHANGED known
-----------------------------------------------------------------------------
StoreInit ==
  /\ content = None
  /\ author = None
  /\ lock = None
  /\ pc = [p \in Procs |-> "down"]
  /\ known = [p \in Procs |-> None]
  /\ payload = [p \in Procs |-> None]
  /\ wrote = [p \in Procs |-> FALSE]
  /\ crashes = 0

\* A process starts and its manager restores the snapshot, without the lock.
Restore(p) ==
  /\ pc[p] = "down"
  /\ known' = [known EXCEPT ![p] = content]
  /\ Goto(p, "idle")
  /\ UNCHANGED <<content, author, lock, payload, wrote, crashes>>

\* The missing parents are made and mkdir of the lock directory succeeds.  If it
\* does not, the write is BUSY and nothing has changed.
MakeLock(p, v) ==
  /\ pc[p] = "idle"
  /\ lock = None
  /\ lock' = [by |-> p, owner |-> FALSE, live |-> TRUE]
  /\ payload' = [payload EXCEPT ![p] = v]
  /\ wrote' = [wrote EXCEPT ![p] = FALSE]
  /\ Goto(p, "claim")
  /\ UNCHANGED <<content, author, known, crashes>>

WriteOwner(p) ==
  /\ pc[p] = "claim"
  /\ lock' = [lock EXCEPT !.owner = TRUE]
  /\ Goto(p, "compare")
  /\ UNCHANGED <<content, author, known, payload, wrote, crashes>>

\* The directory cannot be opened or owner.json not be written: removeOwnedLock
\* finds no owner and leaves the directory there.
WriteOwnerFails(p) ==
  /\ p \in Faulty
  /\ pc[p] = "claim"
  /\ Throw(p)
  /\ UNCHANGED <<content, author, lock, payload, wrote, crashes>>

\* Mutant: the digest is not compared.
CompareMutant(p) ==
  /\ pc[p] = "compare"
  /\ Goto(p, "rename")
  /\ UNCHANGED <<content, author, lock, known, payload, wrote, crashes>>

\* The file holds what the manager knows; the temporary file is written.
Compare(p) ==
  /\ pc[p] = "compare"
  /\ content = known[p]
  /\ Goto(p, "rename")
  /\ UNCHANGED <<content, author, lock, known, payload, wrote, crashes>>

\* CONFLICT, or a failing call: nothing is written.
Refuse(p) ==
  /\ \/ pc[p] = "compare" /\ (content # known[p] \/ p \in Faulty)
     \/ pc[p] = "rename" /\ p \in Faulty
  /\ Goto(p, "unlink")
  /\ UNCHANGED <<content, author, lock, known, payload, wrote, crashes>>

Rename(p) ==
  /\ pc[p] = "rename"
  /\ content' = payload[p]
  /\ author' = p
  /\ wrote' = [wrote EXCEPT ![p] = TRUE]
  /\ Goto(p, "unlink")
  /\ UNCHANGED <<lock, known, payload, crashes>>

(* removeOwnedLock *)

UnlinkOwner(p) ==
  /\ pc[p] = "unlink"
  /\ lock' = [lock EXCEPT !.owner = FALSE]
  /\ Goto(p, "rmdir")
  /\ UNCHANGED <<content, author, known, payload, wrote, crashes>>

\* An owner.json that cannot be read is no error, one that cannot be removed
\* is.  Either way the lock stays.
UnlinkFails(p) ==
  /\ p \in Faulty
  /\ pc[p] = "unlink"
  /\ Return(p) \/ Throw(p)
  /\ UNCHANGED <<content, author, lock, payload, wrote, crashes>>

\* Mutant: the lock directory is not removed when the write was refused.
RemoveLockMutant(p) ==
  /\ pc[p] = "rmdir"
  /\ lock' = IF wrote[p] THEN None ELSE lock
  /\ Return(p)
  /\ UNCHANGED <<content, author, payload, wrote, crashes>>

RemoveLock(p) ==
  /\ pc[p] = "rmdir"
  /\ lock' = None
  /\ Return(p)
  /\ UNCHANGED <<content, author, payload, wrote, crashes>>

\* The write throws although its content is in place: the manager's digest
\* stays behind, and its next write will be a CONFLICT.
RemoveLockFails(p) ==
  /\ p \in Faulty
  /\ pc[p] = "rmdir"
  /\ Throw(p)
  /\ UNCHANGED <<content, author, lock, payload, wrote, crashes>>

StoreCrash(p) ==
  /\ pc[p] # "down"
  /\ crashes < MaxCrashes
  /\ crashes' = crashes + 1
  /\ lock' = IF Holds(p) THEN [lock EXCEPT !.live = FALSE] ELSE lock
  /\ Goto(p, "down")
  /\ UNCHANGED <<content, author, known, payload, wrote>>

\* The operator removes a lock that no running write has made: recoverStaleLock
\* never does it, a stale lock is left for manual recovery.
OperatorRemovesLock ==
  /\ lock # None
  /\ lock.live => pc[lock.by] = "idle"
  /\ lock' = None
  /\ UNCHANGED <<content, author, pc, known, payload, wrote, crashes>>

\* The steps of a write that has its lock.
Continue(p) ==
  \/ WriteOwner(p) \/ WriteOwnerFails(p)
  \/ Compare(p) \/ Refuse(p) \/ Rename(p)
  \/ UnlinkOwner(p) \/ UnlinkFails(p) \/ RemoveLock(p) \/ RemoveLockFails(p)

StoreNext ==
  \/ \E p \in Procs :
       \/ Restore(p) \/ Continue(p) \/ StoreCrash(p)
       \/ \E v \in Versions : MakeLock(p, v)
  \/ OperatorRemovesLock

StoreSpec == StoreInit /\ [][StoreNext]_storeVars

\* The calls of a write are synchronous: once begun it runs to its end.
StoreFairSpec == StoreSpec /\ \A p \in Procs : WF_storeVars(Continue(p))
-----------------------------------------------------------------------------
StoreTypeOK ==
  /\ content \in Versions \cup {None}
  /\ author \in Procs \cup {None}
  /\ lock \in Locks \cup {None}
  /\ pc \in [Procs -> Stages]
  /\ known \in [Procs -> Versions \cup {None}]
  /\ payload \in [Procs -> Versions \cup {None}]
  /\ wrote \in [Procs -> BOOLEAN]
  /\ crashes \in 0..MaxCrashes

\* The parts of the inductive invariant.

\* A write that has begun holds the lock it has made, to its end.
InsideHolds == \A p \in Procs : pc[p] \in Inside => Holds(p) /\ payload[p] \in Versions

\* Between the comparison and the rename nobody else writes the file.
NothingBetween ==
  \A p \in Procs :
    /\ pc[p] = "rename" => content = known[p]
    /\ pc[p] \in {"claim", "compare", "rename"} => ~wrote[p]

\* From the rename to the removal of the lock the file holds the payload.
StillThere ==
  \A p \in Procs :
    pc[p] \in {"unlink", "rmdir"} /\ wrote[p] => content = payload[p] /\ author = p

StoreIInv == StoreTypeOK /\ InsideHolds /\ NothingBetween /\ StillThere
-----------------------------------------------------------------------------
\* The snapshot file is a register that a manager overwrites only if it holds
\* what that manager has loaded or written last: no committed version is lost,
\* whatever crashes and fails in whatever order.
Register ==
  INSTANCE SnapshotRegister WITH running <- {p \in Procs : pc[p] # "down"}

Implements == Register!Spec

\* Two writes are never inside the lock at once, locks left by crashes and
\* failed clean-ups and their removal by hand included.
OneWriter == \A p, q \in Procs : pc[p] \in Inside /\ pc[q] \in Inside => p = q

\* A lock directory of a process that keeps running and whose system calls do not
\* fail is removed: to be BUSY forever takes a crash or a fault.
LiveLock == lock # None /\ lock.live /\ lock.by \notin Faulty

LockRemoved == LiveLock ~> ~LiveLock
=============================================================================
