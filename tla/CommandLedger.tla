--------------------------- MODULE CommandLedger ---------------------------
(***************************************************************************)
(* Running an approved command: approveAndRunCommand                       *)
(* (runtime/workflow.mjs) over the ledger of action hashes                 *)
(* (runtime/command-ledger.mjs) and the process it spawns                  *)
(* (runtime/terminal.mjs, on POSIX), called any number of times, in one    *)
(* process or several, of which any may crash.                             *)
(*                                                                         *)
(* The ledger is a directory with one file per hash.  A file is linked     *)
(* into place complete, and replaced by a rename; only the call that       *)
(* linked it replaces it.  Simplifications:                                *)
(*   - An action is its id; HashOf is the hash of the rest of it.  Two     *)
(*     proposals of one command in one session have one hash and two ids.  *)
(*   - An update of a record reads, writes and renames in one step, as no  *)
(*     other call writes this record in between (OneHolder).               *)
(*   - The checks before the claim (approval, limits, revision, policy,    *)
(*     hash) change nothing and are one choice: the call goes on or not.   *)
(*   - Crash(c) ends one call; a process takes several with it.  The child *)
(*     is detached and lives on.                                           *)
(* Names that other components have as well begin with Ledger, so that a   *)
(* module can extend this one beside another (BridgeTunnelProofs).         *)
(* An operator named ...Mutant is a faulty variation of the definition     *)
(* after it; the specification does not use it.                            *)
(***************************************************************************)
EXTENDS Integers

CONSTANTS
  Calls,    \* the calls of approveAndRunCommand
  Actions,  \* the actions of the proposals they are called with
  Hashes,   \* the action hashes
  HashOf,   \* the hash of each action
  Faulty,   \* the calls whose file operations and audit entries may fail
  None

Outcomes == {"verified", "failed", "timed_out", "cancelled"}
Statuses == {"claimed", "executing"} \cup Outcomes
Records == [action: Actions, status: Statuses]

ASSUME LedgerAssumption ==
  /\ HashOf \in [Actions -> Hashes]
  /\ Faulty \subseteq Calls
  /\ None \notin Records \cup Actions \cup Calls \cup Outcomes

VARIABLES
  ledger,   \* the record of each hash
  pc,       \* the point each call has reached
  action,   \* the action it is called with
  outcome,  \* the terminal status it is about to record, in its catch
  answer,   \* what it returns or throws
  childOf,  \* the process it has spawned: "ok" and "bad" have ended
  holder    \* history: the call that created the record of each hash

ledgerVars == <<ledger, pc, action, outcome, answer, childOf, holder>>

Working == {"approve", "mark", "spawn", "wait", "record", "audit", "fail", "report"}
Points == {"idle", "claim", "done", "crashed"} \cup Working
Answers == Outcomes \cup
  {"refused", "COMMAND_REPLAYED", "COMMAND_LEDGER_FAILED", "error"}
Children == {"none", "running", "ok", "bad"}

Hash(c) == HashOf[action[c]]

Goto(c, point) == pc' = [pc EXCEPT ![c] = point]

Ends(c, a) == Goto(c, "done") /\ answer' = [answer EXCEPT ![c] = a]
-----------------------------------------------------------------------------
LedgerInit ==
  /\ ledger = [h \in Hashes |-> None]
  /\ pc = [c \in Calls |-> "idle"]
  /\ action = [c \in Calls |-> None]
  /\ outcome = [c \in Calls |-> None]
  /\ answer = [c \in Calls |-> None]
  /\ childOf = [c \in Calls |-> "none"]
  /\ holder = [h \in Hashes |-> None]

\* The call passes the checks or not.
Begin(c, a) ==
  /\ pc[c] = "idle"
  /\ action' = [action EXCEPT ![c] = a]
  /\ \/ Goto(c, "claim") /\ UNCHANGED answer
     \/ Ends(c, "refused")
  /\ UNCHANGED <<ledger, outcome, childOf, holder>>

(* claimCommandAction *)

Linked(c) ==
  /\ ledger' = [ledger EXCEPT ![Hash(c)] = [action |-> action[c], status |-> "claimed"]]
  /\ holder' = [holder EXCEPT ![Hash(c)] = c]

\* Mutant: the record is renamed into place instead of linked.
ClaimMutant(c) ==
  /\ pc[c] = "claim"
  /\ Linked(c)
  /\ Goto(c, "approve")
  /\ UNCHANGED <<action, outcome, answer, childOf>>

\* The link creates the record if there is none.
Claim(c) ==
  /\ pc[c] = "claim"
  /\ ledger[Hash(c)] = None
  /\ Linked(c)
  /\ Goto(c, "approve")
  /\ UNCHANGED <<action, outcome, answer, childOf>>

\* The record exists: it is of the same action, or it does not match.
Replayed(c) ==
  /\ pc[c] = "claim"
  /\ ledger[Hash(c)] # None
  /\ Ends(c, IF ledger[Hash(c)].action = action[c]
               THEN "COMMAND_REPLAYED" ELSE "COMMAND_LEDGER_FAILED")
  /\ UNCHANGED <<ledger, action, outcome, childOf, holder>>

\* A file operation fails: before the link, after it (the temporary file cannot
\* be unlinked), or while the existing record is read.
ClaimFails(c) ==
  /\ pc[c] = "claim"
  /\ c \in Faulty
  /\ \/ UNCHANGED <<ledger, holder>>
     \/ ledger[Hash(c)] = None /\ Linked(c)
  /\ Ends(c, "COMMAND_LEDGER_FAILED")
  /\ UNCHANGED <<action, outcome, childOf>>

(* Between the claim and the try: an error is thrown as it is. *)

Approve(c) ==
  /\ pc[c] = "approve"
  /\ \/ Goto(c, "mark") /\ UNCHANGED answer
     \/ c \in Faulty /\ Ends(c, "error")
  /\ UNCHANGED <<ledger, action, outcome, childOf, holder>>

\* updateCommandAction
Updated(c, status) ==
  /\ ledger[Hash(c)] # None
  /\ ledger' = [ledger EXCEPT ![Hash(c)] = [@ EXCEPT !.status = status]]

MarkExecuting(c) ==
  /\ pc[c] = "mark"
  /\ \/ Updated(c, "executing") /\ Goto(c, "spawn") /\ UNCHANGED answer
     \/ c \in Faulty /\ Ends(c, "error") /\ UNCHANGED ledger
  /\ UNCHANGED <<action, outcome, childOf, holder>>

(* runControlledCommand.  What it rejects with decides the terminal status. *)

Catches(c, status) ==
  /\ Goto(c, "fail")
  /\ outcome' = [outcome EXCEPT ![c] = status]

Spawn(c) ==
  /\ pc[c] = "spawn"
  /\ Goto(c, "wait")
  /\ childOf' = [childOf EXCEPT ![c] = "running"]
  /\ UNCHANGED <<ledger, action, outcome, answer, holder>>

\* The directory or the executable is missing, the spawn fails, or the signal
\* is aborted already.
SpawnFails(c) ==
  /\ pc[c] = "spawn"
  /\ \E status \in {"failed", "cancelled"} : Catches(c, status)
  /\ UNCHANGED <<ledger, action, answer, childOf, holder>>

\* The child ends: with code 0 and output within its limit, or otherwise, as
\* after a kill.  Nobody has to be there any more.
ChildEnds(c) ==
  /\ childOf[c] = "running"
  /\ \E end \in {"ok", "bad"} : childOf' = [childOf EXCEPT ![c] = end]
  /\ UNCHANGED <<ledger, pc, action, outcome, answer, holder>>

\* The close event, while nothing else has settled the promise.
ChildCloses(c) ==
  /\ pc[c] = "wait"
  /\ \/ childOf[c] = "ok" /\ Goto(c, "record") /\ UNCHANGED outcome
     \/ childOf[c] = "bad" /\ Catches(c, "failed")
  /\ UNCHANGED <<ledger, action, answer, childOf, holder>>

\* Mutants: no timer is set; the code of the error is recorded as the status.
InterruptMutant(c) == FALSE

\* The timer fires or the signal is aborted: SIGTERM is sent and the promise
\* settles without waiting for the child, which may have ended or may live on.
Interrupt(c) ==
  /\ pc[c] = "wait"
  /\ \E status \in {"timed_out", "cancelled"} : Catches(c, status)
  /\ UNCHANGED <<ledger, action, answer, childOf, holder>>

(* The rest of the try, and its catch, which takes every error of the try. *)

\* Mutant: the answer does not wait for the record.
RecordVerifiedMutant(c) ==
  /\ pc[c] = "record"
  /\ Goto(c, "audit")
  /\ UNCHANGED <<ledger, action, outcome, answer, childOf, holder>>

RecordVerified(c) ==
  /\ pc[c] = "record"
  /\ \/ Updated(c, "verified") /\ Goto(c, "audit") /\ UNCHANGED outcome
     \/ c \in Faulty /\ Catches(c, "failed") /\ UNCHANGED ledger
  /\ UNCHANGED <<action, answer, childOf, holder>>

AuditVerified(c) ==
  /\ pc[c] = "audit"
  /\ \/ Ends(c, "verified") /\ UNCHANGED outcome
     \/ c \in Faulty /\ Catches(c, "failed") /\ UNCHANGED answer
  /\ UNCHANGED <<ledger, action, childOf, holder>>

RecordFailed(c) ==
  /\ pc[c] = "fail"
  /\ \/ Updated(c, outcome[c]) /\ Goto(c, "report") /\ UNCHANGED answer
     \/ c \in Faulty /\ Ends(c, "error") /\ UNCHANGED ledger
  /\ UNCHANGED <<action, outcome, childOf, holder>>

AuditFailed(c) ==
  /\ pc[c] = "report"
  /\ \/ Ends(c, outcome[c])
     \/ c \in Faulty /\ Ends(c, "error")
  /\ UNCHANGED <<ledger, action, outcome, childOf, holder>>

Crash(c) ==
  /\ pc[c] \in Working \cup {"claim"}
  /\ Goto(c, "crashed")
  /\ UNCHANGED <<ledger, action, outcome, answer, childOf, holder>>

Continue(c) ==
  \/ Claim(c) \/ Replayed(c) \/ ClaimFails(c)
  \/ Approve(c) \/ MarkExecuting(c)
  \/ Spawn(c) \/ SpawnFails(c) \/ ChildCloses(c) \/ Interrupt(c)
  \/ RecordVerified(c) \/ AuditVerified(c) \/ RecordFailed(c) \/ AuditFailed(c)

LedgerNext ==
  \E c \in Calls :
    \/ \E a \in Actions : Begin(c, a)
    \/ Continue(c) \/ ChildEnds(c) \/ Crash(c)

LedgerSpec == LedgerInit /\ [][LedgerNext]_ledgerVars

\* A call goes on: it waits for nobody but its child, and for that no longer
\* than its timer.
LedgerFairSpec == LedgerSpec /\ \A c \in Calls : WF_ledgerVars(Continue(c))

\* scanCommandLedger: what a start says of a record.
Decision(r) == IF r.status \in Outcomes THEN "recorded" ELSE "manual_review"
-----------------------------------------------------------------------------
LedgerTypeOK ==
  /\ ledger \in [Hashes -> Records \cup {None}]
  /\ pc \in [Calls -> Points]
  /\ action \in [Calls -> Actions \cup {None}]
  /\ outcome \in [Calls -> Outcomes \cup {None}]
  /\ answer \in [Calls -> Answers \cup {None}]
  /\ childOf \in [Calls -> Children]
  /\ holder \in [Hashes -> Calls \cup {None}]

(* The parts of the inductive invariant (BridgeTunnelProofs). *)

\* A call that has begun has its action, and a record is of an action of its hash.
ActionKnown ==
  /\ \A c \in Calls : pc[c] # "idle" => action[c] \in Actions
  /\ \A h \in Hashes : ledger[h] # None => HashOf[ledger[h].action] = h

\* A call that works on a hash holds it.
OneHolder ==
  /\ \A h \in Hashes : ledger[h] = None <=> holder[h] = None
  /\ \A h \in Hashes : holder[h] # None =>
       pc[holder[h]] \notin {"idle", "claim"} /\ Hash(holder[h]) = h
  /\ \A c \in Calls :
       pc[c] \in Working \/ childOf[c] # "none" \/ answer[c] \in Outcomes =>
         pc[c] # "idle" /\ holder[Hash(c)] = c

\* How far a record is, seen from the point of the call that holds it.
Follows(c) ==
  LET status == ledger[Hash(c)].status IN
  /\ pc[c] \in {"idle", "claim", "approve", "mark", "spawn"} => childOf[c] = "none"
  /\ childOf[c] # "none" => status # "claimed"
  /\ pc[c] \in {"approve", "mark"} => status = "claimed"
  /\ pc[c] \in {"spawn", "wait", "record"} => status = "executing"
  /\ pc[c] \in {"record", "audit"} => childOf[c] = "ok"
  /\ pc[c] = "audit" => status = "verified"
  /\ pc[c] = "fail" => \/ status = "executing"
                       \/ status = "verified" /\ outcome[c] = "failed"
  /\ pc[c] \in {"fail", "report"} => outcome[c] \in Outcomes \ {"verified"}
  /\ pc[c] = "report" => status = outcome[c]
  /\ answer[c] \in Outcomes => pc[c] = "done" /\ status = answer[c]

RecordFollows == \A c \in Calls : Follows(c)

\* A record says verified only of a child that has succeeded.
VerifiedSucceeded ==
  \A h \in Hashes :
    ledger[h] # None /\ ledger[h].status = "verified" => childOf[holder[h]] = "ok"

LedgerIInv == LedgerTypeOK /\ ActionKnown /\ OneHolder /\ RecordFollows /\ VerifiedSucceeded
-----------------------------------------------------------------------------
Spawned(h) == {c \in Calls : childOf[c] # "none" /\ Hash(c) = h}

\* At most one process is ever spawned for an action hash, by whatever calls,
\* with whatever proposals, after whatever failures and crashes.
SpawnedOnce == \A h \in Hashes : \A c, d \in Spawned(h) : c = d

\* Whatever has been spawned is on disk as more than claimed: after a crash the
\* ledger does not take a command that may have run for one that has not.
RunIsRecorded ==
  \A c \in Calls : childOf[c] # "none" => ledger[Hash(c)].status # "claimed"

\* verified on disk means that a process of this hash has ended with success.
VerifiedIsTrue ==
  \A h \in Hashes :
    ledger[h] # None /\ ledger[h].status = "verified" =>
      \E c \in Spawned(h) : childOf[c] = "ok"

\* The terminal status that a caller is given is, from then on, the one on disk.
AnswerIsRecorded ==
  \A c \in Calls : answer[c] \in Outcomes => ledger[Hash(c)].status = answer[c]

\* A record that a start reports as finished is: no call will still spawn its
\* command or wait for it.
RecordedIsOver ==
  \A h \in Hashes :
    ledger[h] # None /\ Decision(ledger[h]) = "recorded" =>
      \A c \in Calls :
        pc[c] \in {"approve", "mark", "spawn", "wait", "record"} => Hash(c) # h

\* A record stays of the action that claimed it, and goes on from claimed to
\* executing to an outcome; an outcome changes only from verified to failed.
MovesOn(h) ==
  /\ ledger'[h] # None /\ ledger'[h].action = ledger[h].action
  /\ <<ledger[h].status, ledger'[h].status>> \in
       {<<"claimed", "executing">>, <<"verified", "failed">>}
         \cup ({"executing"} \X Outcomes)

RecordMovesOn ==
  [][ \A h \in Hashes :
        ledger[h] # None /\ ledger'[h] # ledger[h] => MovesOn(h) ]_ledgerVars

\* A record that is left for manual review has a call under way, unless that call
\* crashed or one of its file operations or audit entries failed.
ReviewHasReason ==
  \A h \in Hashes :
    ledger[h] # None /\ Decision(ledger[h]) = "manual_review" =>
      LET c == holder[h] IN pc[c] \in Working \cup {"crashed"} \/ c \in Faulty

\* Every call ends, if its process does not: with an answer.
CallEnds == \A c \in Calls : pc[c] = "claim" ~> pc[c] \in {"done", "crashed"}
=============================================================================
