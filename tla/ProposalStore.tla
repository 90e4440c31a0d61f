--------------------------- MODULE ProposalStore ---------------------------
(***************************************************************************)
(* Proposals and their approval: the proposal store                        *)
(* (runtime/proposal-store.mjs), the transitions of actions                *)
(* (runtime/action.mjs) and the HTTP handlers that create, approve, deny   *)
(* and cancel proposals (runtime/http-server.mjs), in any number of server *)
(* processes on one workspace, which crash and are started again.          *)
(*                                                                         *)
(* The handlers await the checks and the execution of an approved          *)
(* proposal, so each has its stage, run[p][i]; the store itself is         *)
(* synchronous.  Simplifications:                                          *)
(*   - Writing the snapshot is one step with the outcomes SnapshotRegister *)
(*     has: written and known to be, written and reported as failed, or    *)
(*     not written (BUSY, CONFLICT, a failing call).                       *)
(*   - A digest stands for its content.  Approvals carry the right hash;   *)
(*     a wrong one is refused before anything changes.                     *)
(*   - "failed" stands for failed, timed_out and cancelled commands.       *)
(*   - A claim token is unique to its request and never leaves it, so that *)
(*     the token check is the check that the record has a claim.           *)
(* An operator named ...Mutant is a faulty variation of the definition     *)
(* after it; the specification does not use it.                            *)
(***************************************************************************)
EXTENDS Integers

CONSTANTS
  Ids,         \* the proposals
  Procs,       \* the server processes
  MaxCrashes,  \* bound: the number of crashes
  Faulty,      \* the processes whose writes of the snapshot may fail
  None

ASSUME ConstantsAssumption ==
  /\ MaxCrashes \in Nat
  /\ Faulty \subseteq Procs

VARIABLES
  disk,     \* proposals.json
  mem,      \* the records of each process
  known,    \* its persistedDigest
  up,       \* the processes that run
  open,     \* the proposals each process has created and may approve
  run,      \* the stage of the approval of each proposal in each process
  ran,      \* history: how often each proposal was executed
  crashes,  \* the number of crashes so far
  overlapped  \* history: whether a server was started while another one ran

store == <<disk, mem, known>>
vars == <<store, up, open, run, ran, crashes, overlapped>>

Ended == {"verified", "failed"}
Closed == {"denied", "cancelled"}
TERMINAL == Ended \cup Closed
Statuses == TERMINAL \cup {"awaiting_approval", "executing", "manual_review"}
Reasons == {"restarted_before_terminal", "approval_precondition_failed"}

Records == [status: Statuses, claim: BOOLEAN, reason: Reasons \cup {None}]
Snapshots == [Ids -> Records \cup {None}]

ASSUME NoneAssumption == None \notin Records \cup Reasons

Stages == {"none", "claimed", "executing", "verified", "failed", "review"}

NoRecords == [i \in Ids |-> None]

\* The record of proposal i in process p has status s.
Has(p, i, s) == mem[p][i] # None /\ mem[p][i].status = s

Record(status) == [status |-> status, claim |-> FALSE, reason |-> None]

\* action.mjs: which rejections the status of an action allows.
MayClose(status, closed) ==
  \/ status = "awaiting_approval"
  \/ status = "manual_review" /\ closed = "cancelled"

\* What a process that starts makes of a record: interrupted proposals are kept
\* for manual review and are not executable any more.
Restored(r) ==
  IF r = None \/ r.status \in TERMINAL THEN r
  ELSE [r EXCEPT !.status = "manual_review",
                 !.reason = IF @ = None THEN "restarted_before_terminal" ELSE @]
-----------------------------------------------------------------------------
Init ==
  /\ disk = NoRecords
  /\ mem = [p \in Procs |-> NoRecords]
  /\ known = [p \in Procs |-> NoRecords]
  /\ up = {}
  /\ open = [p \in Procs |-> {}]
  /\ run = [p \in Procs |-> [i \in Ids |-> "none"]]
  /\ ran = [i \in Ids |-> 0]
  /\ crashes = 0
  /\ overlapped = FALSE

(* replace and persist: the new record goes to memory and the whole memory   *)
(* to disk; if that throws, the record is taken back.                        *)

Persisted(p, i, r) ==
  /\ known[p] = disk
  /\ disk' = [mem[p] EXCEPT ![i] = r]
  /\ mem' = [mem EXCEPT ![p] = disk']
  /\ known' = [known EXCEPT ![p] = disk']

PersistFails(p, i, r) ==
  \/ /\ known[p] # disk \/ p \in Faulty
     /\ UNCHANGED store
  \/ /\ p \in Faulty
     /\ known[p] = disk
     /\ disk' = [mem[p] EXCEPT ![i] = r]
     /\ UNCHANGED <<mem, known>>

(* The server process. *)

Start(p) ==
  /\ p \notin up
  /\ up' = up \cup {p}
  /\ overlapped' = IF up = {} THEN overlapped ELSE TRUE
  /\ mem' = [mem EXCEPT ![p] = [i \in Ids |-> Restored(disk[i])]]
  /\ known' = [known EXCEPT ![p] = disk]
  /\ open' = [open EXCEPT ![p] = {}]
  /\ UNCHANGED <<disk, run, ran, crashes>>

Crash(p) ==
  /\ p \in up
  /\ crashes < MaxCrashes
  /\ crashes' = crashes + 1
  /\ up' = up \ {p}
  /\ run' = [run EXCEPT ![p] = [i \in Ids |-> "none"]]
  /\ mem' = [mem EXCEPT ![p] = NoRecords]
  /\ known' = [known EXCEPT ![p] = NoRecords]
  /\ open' = [open EXCEPT ![p] = {}]
  /\ UNCHANGED <<disk, ran, overlapped>>

\* POST /v1/proposals/...: a proposal with a new random id is put.
Create(p, i) ==
  /\ p \in up
  /\ disk[i] = None
  /\ \A q \in Procs : mem[q][i] = None
  /\ \/ /\ Persisted(p, i, Record("awaiting_approval"))
        /\ open' = [open EXCEPT ![p] = @ \cup {i}]
     \/ /\ PersistFails(p, i, Record("awaiting_approval"))
        /\ UNCHANGED open
  /\ UNCHANGED <<up, run, ran, crashes, overlapped>>

(* POST /v1/proposals/:id/approve *)

Claimed == [Record("executing") EXCEPT !.claim = TRUE]

\* Mutant: the status is not looked at.
ClaimAgainMutant(p, i) ==
  /\ p \in up
  /\ i \in open[p]
  /\ Persisted(p, i, Claimed)
  /\ run' = [run EXCEPT ![p][i] = "claimed"]
  /\ UNCHANGED <<up, open, ran, crashes, overlapped>>

\* The proposal is claimed before anything else happens; if the claim cannot be
\* written the approval is refused.
Claim(p, i) ==
  /\ p \in up
  /\ i \in open[p]
  /\ Has(p, i, "awaiting_approval") /\ ~mem[p][i].claim
  /\ \/ /\ Persisted(p, i, Claimed)
        /\ run' = [run EXCEPT ![p][i] = "claimed"]
     \/ PersistFails(p, i, Claimed) /\ UNCHANGED run
  /\ UNCHANGED <<up, open, ran, crashes, overlapped>>

\* A check of the workflow fails: revision, policy, ledger, audit.
Precheck(p, i) ==
  /\ run[p][i] = "claimed"
  /\ run' = [run EXCEPT ![p][i] = "review"]
  /\ UNCHANGED <<store, up, open, ran, crashes, overlapped>>

\* The patch is applied or the command spawned.
Execute(p, i) ==
  /\ run[p][i] = "claimed"
  /\ run' = [run EXCEPT ![p][i] = "executing"]
  /\ ran' = [ran EXCEPT ![i] = @ + 1]
  /\ UNCHANGED <<store, up, open, crashes, overlapped>>

\* It ends: verified, a command with its terminal status, or with an error: a
\* patch that fails, whose action stays "executing", or one whose audit entry
\* cannot be written after it has been applied.
Finish(p, i) ==
  /\ run[p][i] = "executing"
  /\ \E s \in Ended \cup {"review"} : run' = [run EXCEPT ![p][i] = s]
  /\ UNCHANGED <<store, up, open, ran, crashes, overlapped>>

\* markTerminal(verified).  If it throws, the handler's catch takes the error
\* for a failed check and turns to manual review.
RecordVerified(p, i) ==
  /\ run[p][i] = "verified"
  /\ \/ /\ Persisted(p, i, Record("verified"))
        /\ run' = [run EXCEPT ![p][i] = "none"]
        /\ open' = [open EXCEPT ![p] = @ \ {i}]
     \/ /\ PersistFails(p, i, Record("verified"))
        /\ run' = [run EXCEPT ![p][i] = "review"]
        /\ UNCHANGED open
  /\ UNCHANGED <<up, ran, crashes, overlapped>>

\* Mutant: the catch does not record what a failed command ended with.
RecordFailedMutant(p, i) ==
  /\ run[p][i] = "failed"
  /\ run' = [run EXCEPT ![p][i] = "none"]
  /\ UNCHANGED <<store, up, open, ran, crashes, overlapped>>

\* markTerminal of a failed command, in the catch.
RecordFailed(p, i) ==
  /\ run[p][i] = "failed"
  /\ \/ Persisted(p, i, Record("failed"))
     \/ PersistFails(p, i, Record("failed"))
  /\ run' = [run EXCEPT ![p][i] = "none"]
  /\ UNCHANGED <<up, open, ran, crashes, overlapped>>

\* markManualReview, in the catch; its record keeps the claim.
RecordReview(p, i) ==
  LET r == [Claimed EXCEPT !.status = "manual_review",
                           !.reason = "approval_precondition_failed"]
  IN /\ run[p][i] = "review"
     /\ \/ /\ Persisted(p, i, r)
           /\ open' = [open EXCEPT ![p] = @ \ {i}]
        \/ PersistFails(p, i, r) /\ UNCHANGED open
     /\ run' = [run EXCEPT ![p][i] = "none"]
     /\ UNCHANGED <<up, ran, crashes, overlapped>>

(* POST /v1/proposals/:id/deny and /cancel *)

\* Mutant: the store lets a claimed proposal be rejected.
RejectMutant(p, i, closed) ==
  /\ p \in up
  /\ mem[p][i] # None
  /\ i \in open[p] \/ MayClose(mem[p][i].status, closed)
  /\ mem[p][i].status \in {"awaiting_approval", "manual_review", "executing"}
  /\ Persisted(p, i, Record(closed))
  /\ open' = [open EXCEPT ![p] = @ \ {i}]
  /\ UNCHANGED <<up, run, ran, crashes, overlapped>>

\* The handler looks at the proposal as it was created, if this process has
\* created it, and at the record otherwise; the store looks at the record.
Reject(p, i, closed) ==
  /\ p \in up
  /\ mem[p][i] # None
  /\ i \in open[p] \/ MayClose(mem[p][i].status, closed)
  /\ \/ Has(p, i, "awaiting_approval") /\ ~mem[p][i].claim
     \/ Has(p, i, "manual_review")
  /\ \/ /\ Persisted(p, i, Record(closed))
        /\ open' = [open EXCEPT ![p] = @ \ {i}]
     \/ PersistFails(p, i, Record(closed)) /\ UNCHANGED open
  /\ UNCHANGED <<up, run, ran, crashes, overlapped>>

\* What an approval does once it has its claim.
Continue(p, i) ==
  \/ Precheck(p, i) \/ Execute(p, i) \/ Finish(p, i)
  \/ RecordVerified(p, i) \/ RecordFailed(p, i) \/ RecordReview(p, i)

Next ==
  \E p \in Procs :
    \/ Start(p) \/ Crash(p)
    \/ \E i \in Ids :
         \/ Create(p, i) \/ Claim(p, i) \/ Continue(p, i)
         \/ \E closed \in Closed : Reject(p, i, closed)

Spec == Init /\ [][Next]_vars

\* An approved proposal is worked off: its command has a timeout, and no step
\* of the handler waits for anybody.
FairSpec == Spec /\ \A p \in Procs, i \in Ids : WF_vars(Continue(p, i))
-----------------------------------------------------------------------------
TypeOK ==
  /\ disk \in Snapshots
  /\ mem \in [Procs -> Snapshots]
  /\ known \in [Procs -> Snapshots]
  /\ up \in SUBSET Procs
  /\ open \in [Procs -> SUBSET Ids]
  /\ run \in [Procs -> [Ids -> Stages]]
  /\ ran \in [Ids -> Nat]
  /\ crashes \in 0..MaxCrashes
  /\ overlapped \in BOOLEAN

(***************************************************************************)
(* The parts of the inductive invariant (ProposalStoreProofs).  A record   *)
(* only ever moves on, so that no content of the store comes back and a    *)
(* process whose digest is behind stays behind.                            *)
(***************************************************************************)
Rank(r) ==
  IF r = None THEN 0
  ELSE IF r.status = "awaiting_approval" THEN 1
  ELSE IF r.status = "executing" THEN 2
  ELSE IF r.status = "manual_review" THEN 3
  ELSE 4

\* What a process knows of the store is what the store holds or has held.
KnownBehind == \A p \in Procs, i \in Ids : Rank(known[p][i]) <= Rank(disk[i])

\* A process whose digest is that of the store has the store's records, or what
\* it made of them when it started.
MemoryIsKnown ==
  \A p \in up : known[p] = disk =>
    \A i \in Ids : mem[p][i] \in {disk[i], Restored(disk[i])}

\* An approval under way has its claim, in memory and on disk.
ClaimHeld ==
  \A p \in Procs, i \in Ids :
    run[p][i] # "none" => p \in up /\ mem[p][i] = Claimed /\ Rank(disk[i]) >= 2

\* No proposal has two approvals under way.
OneClaim ==
  \A p, q \in Procs, i \in Ids : run[p][i] # "none" /\ run[q][i] # "none" => p = q

\* A claimed proposal has not been executed yet, an executed one not twice.
RanOnce ==
  \A i \in Ids :
    /\ ran[i] \in {0, 1}
    /\ ran[i] = 1 => Rank(disk[i]) >= 2
    /\ \A p \in Procs : run[p][i] = "claimed" => ran[i] = 0

IInv == TypeOK /\ KnownBehind /\ MemoryIsKnown /\ ClaimHeld /\ OneClaim /\ RanOnce
-----------------------------------------------------------------------------
\* No proposal is executed twice, by whatever processes, approvals, restarts
\* and failed writes of the store.
RunsOnce == \A i \in Ids : ran[i] \in {0, 1}

\* A proposal that has been executed does not wait for approval on disk: what
\* starts later cannot take it for one that has not run.
RunIsDurable ==
  \A i \in Ids : ran[i] > 0 => disk[i] # None /\ disk[i].status # "awaiting_approval"

\* What has ended stays as it ended, and no proposal gets lost, whichever
\* process writes the store with whatever it has in memory.
EndIsFinal ==
  [][ \A i \in Ids :
        disk[i] # None =>
          /\ disk'[i] # None
          /\ disk[i].status \in TERMINAL => disk'[i] = disk[i] ]_vars

\* As long as one server runs at a time, an execution starts only when the store
\* on disk says that it does: never after the proposal was denied or cancelled.
StartsClaimed ==
  [][ ~overlapped =>
        \A i \in Ids : ran'[i] # ran[i] => disk[i].status = "executing" ]_vars

\* As long as one server runs at a time and its writes succeed, a proposal that
\* is executing belongs to an approval that ends with the claim.
AloneExecuting(p, i) == ~overlapped /\ p \notin Faulty /\ Has(p, i, "executing")

ClaimSettles ==
  \A p \in Procs, i \in Ids : AloneExecuting(p, i) ~> ~AloneExecuting(p, i)
=============================================================================
