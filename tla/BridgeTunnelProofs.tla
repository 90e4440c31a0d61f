------------------------- MODULE BridgeTunnelProofs -------------------------
(***************************************************************************)
(* Proofs about the programs the runtime spawns for others: BridgeTunnel,  *)
(* for any number of processes, and at the end CommandLedger, for any      *)
(* calls, actions and hashes.                                              *)
(*                                                                         *)
(* The inductive invariant IInv of BridgeTunnel adds to the type invariant *)
(*   - HandleKept: a process that runs is the last one spawned, and child  *)
(*     is its handle, since start never spawns while there is a handle;    *)
(*   - StopKept: a stop or a reset has put an end to the generation, waits *)
(*     for the child, and leaves an idle adapter without one;              *)
(*   - StartKept: a start that no stop has interrupted, and then the ready *)
(*     adapter, has a routed process that has not exited.                  *)
(***************************************************************************)
EXTENDS BridgeTunnel, CommandLedger, FiniteSetTheorems, TLAPS

\* The initial state satisfies the invariant.
LEMMA InitIInv == Init => IInv
<1> SUFFICES ASSUME Init
             PROVE  IInv
  OBVIOUS
<1> USE MaxSpawnsAssumption DEF MaxSpawnsAssumption, Init, Processes
<1>1. TypeOK
  <2>1. {child, generation, url, target} \subseteq 0..spawns /\ watched \subseteq 1..spawns
    OBVIOUS
  <2>2. process \in [Processes -> {"none", "running", "coded", "signalled", "closed"}]
    OBVIOUS
  <2>3. /\ state \in {"idle", "starting", "ready", "stopping", "failed"}
        /\ spawns \in 0..MaxSpawns
    OBVIOUS
  <2>4. routed \in BOOLEAN
    OBVIOUS
  <2> QED
    BY <2>1, <2>2, <2>3, <2>4 DEF TypeOK
<1>2. HandleKept /\ StopKept
  BY DEF HandleKept, StopKept
<1>3. StartKept
  BY DEF StartKept, Current
<1> QED
  BY <1>1, <1>2, <1>3 DEF IInv

\* Every step keeps the types.
LEMMA TypeStep ==
  ASSUME TypeOK, HandleKept, StopKept, [Next]_vars
  PROVE  TypeOK'
<1> USE MaxSpawnsAssumption DEF MaxSpawnsAssumption, Processes, TypeOK, HandleKept,
StopKept
<1>1. CASE Start
  <2>1. CASE child # 0
    BY <1>1, <2>1 DEF Start, Busy, StopProcess, MustWait, CleanUp
  <2>2. CASE child = 0
    <3>1. spawns' \in 0..MaxSpawns /\ spawns <= spawns'
      BY <1>1, <2>2 DEF Start
    <3>2. process' \in [Processes -> {"none", "running", "coded", "signalled", "closed"}]
      BY <1>1, <2>2 DEF Start
    <3>3. {child', generation', url', target'} \subseteq 0..spawns'
      BY <1>1, <2>2, <3>1 DEF Start
    <3>4. watched' \subseteq 1..spawns'
      BY <1>1, <2>2, <3>1 DEF Start
    <3> QED
      BY <1>1, <2>2, <3>1, <3>2, <3>3, <3>4 DEF Start
  <2> QED
    BY <2>1, <2>2
<1>2. CASE StartContinues
  BY <1>2 DEF StartContinues, Current, StopProcess, MustWait, CleanUp
<1>3. CASE UrlTimeout
  BY <1>3 DEF UrlTimeout, Continues
<1>4. CASE Stop
  BY <1>4 DEF Stop, Down, IdleStop, StopCalled, StopProcess, MustWait, CleanUp
<1>5. CASE StopContinues
  BY <1>5 DEF StopContinues, ResetGoes, StopProcess, MustWait, CleanUp
<1>6. CASE Reset
  BY <1>6 DEF Reset, Down, IdleStop, StopCalled, StopProcess, MustWait, CleanUp
<1>7. CASE ResetContinues
  BY <1>7 DEF ResetContinues
<1>8. CASE StopTimeout
  <2>1. target \in 1..spawns
    BY <1>8 DEF StopTimeout
  <2>2. watched' \subseteq 1..spawns'
    BY <1>8, <2>1 DEF StopTimeout
  <2> QED
    BY <1>8, <2>2 DEF StopTimeout
<1>9. ASSUME NEW p \in Processes, Report(p)
      PROVE  TypeOK'
  BY <1>9 DEF Report, Continues
<1>10. ASSUME NEW p \in Processes, Exit(p)
       PROVE  TypeOK'
  BY <1>10 DEF Exit, Gone, Continues
<1>11. ASSUME NEW p \in Processes, Close(p)
       PROVE  TypeOK'
  BY <1>11 DEF Close, Gone, Continues
<1>12. ASSUME NEW p \in Processes, SpawnError(p)
       PROVE  TypeOK'
  BY <1>12 DEF SpawnError, Continues
<1>13. CASE UNCHANGED vars
  BY <1>13 DEF vars
<1> QED
  BY <1>1, <1>2, <1>3, <1>4, <1>5, <1>6, <1>7, <1>8, <1>9, <1>10, <1>11, <1>12,
  <1>13 DEF Next

\* Every step keeps the handle of what runs: only a start without a handle
\* spawns, and a handle is dropped only when its process has exited.
LEMMA HandleStep ==
  ASSUME TypeOK, HandleKept, StopKept, [Next]_vars
  PROVE  HandleKept'
<1> USE MaxSpawnsAssumption DEF MaxSpawnsAssumption, Processes, TypeOK, HandleKept,
StopKept
<1>1. CASE Start
  BY <1>1 DEF Start, Busy, StopProcess, MustWait, CleanUp
<1>2. CASE StartContinues
  BY <1>2 DEF StartContinues, Current, StopProcess, MustWait, CleanUp
<1>3. CASE UrlTimeout
  BY <1>3 DEF UrlTimeout, Continues
<1>4. CASE Stop
  BY <1>4 DEF Stop, Down, IdleStop, StopCalled, StopProcess, MustWait, CleanUp
<1>5. CASE StopContinues
  BY <1>5 DEF StopContinues, ResetGoes, StopProcess, MustWait, CleanUp
<1>6. CASE Reset
  BY <1>6 DEF Reset, Down, IdleStop, StopCalled, StopProcess, MustWait, CleanUp
<1>7. CASE ResetContinues
  BY <1>7 DEF ResetContinues
<1>8. CASE StopTimeout
  BY <1>8 DEF StopTimeout, Continues
<1>9. ASSUME NEW p \in Processes, Report(p)
      PROVE  HandleKept'
  BY <1>9 DEF Report, Continues
<1>10. ASSUME NEW p \in Processes, Exit(p)
       PROVE  HandleKept'
  BY <1>10 DEF Exit, Gone, Continues
<1>11. ASSUME NEW p \in Processes, Close(p)
       PROVE  HandleKept'
  BY <1>11 DEF Close, Gone, Continues
<1>12. ASSUME NEW p \in Processes, SpawnError(p)
       PROVE  HandleKept'
  BY <1>12 DEF SpawnError, Continues
<1>13. CASE UNCHANGED vars
  BY <1>13 DEF vars
<1> QED
  BY <1>1, <1>2, <1>3, <1>4, <1>5, <1>6, <1>7, <1>8, <1>9, <1>10, <1>11, <1>12,
  <1>13 DEF Next

\* Every step keeps StopKept: the shared promises exclude each other.
LEMMA StopStep ==
  ASSUME IInv, [Next]_vars
  PROVE  StopKept'
<1> USE MaxSpawnsAssumption DEF MaxSpawnsAssumption, Processes, IInv, TypeOK,
HandleKept, StopKept, StartKept, Open
<1>1. CASE Start
  BY <1>1 DEF Start, Busy, StopProcess, MustWait, CleanUp
<1>2. CASE StartContinues
  BY <1>2 DEF StartContinues, Current, StopProcess, MustWait, CleanUp
<1>3. CASE UrlTimeout
  BY <1>3 DEF UrlTimeout, Continues
<1>4. CASE Stop
  BY <1>4 DEF Stop, Down, IdleStop, StopCalled, StopProcess, MustWait, CleanUp
<1>5. CASE StopContinues
  BY <1>5 DEF StopContinues, ResetGoes, StopProcess, MustWait, CleanUp
<1>6. CASE Reset
  BY <1>6 DEF Reset, Down, IdleStop, StopCalled, StopProcess, MustWait, CleanUp
<1>7. CASE ResetContinues
  BY <1>7 DEF ResetContinues
<1>8. CASE StopTimeout
  BY <1>8 DEF StopTimeout, Continues
<1>9. ASSUME NEW p \in Processes, Report(p)
      PROVE  StopKept'
  BY <1>9 DEF Report, Continues
<1>10. ASSUME NEW p \in Processes, Exit(p)
       PROVE  StopKept'
  BY <1>10 DEF Exit, Gone, Continues
<1>11. ASSUME NEW p \in Processes, Close(p)
       PROVE  StopKept'
  BY <1>11 DEF Close, Gone, Continues
<1>12. ASSUME NEW p \in Processes, SpawnError(p)
       PROVE  StopKept'
  BY <1>12 DEF SpawnError, Continues
<1>13. CASE UNCHANGED vars
  BY <1>13 DEF vars
<1> QED
  BY <1>1, <1>2, <1>3, <1>4, <1>5, <1>6, <1>7, <1>8, <1>9, <1>10, <1>11, <1>12,
  <1>13 DEF Next

\* Every step keeps StartKept: the first call of stop ends the generation, and
\* an exit in it is noticed.
LEMMA StartStep ==
  ASSUME IInv, [Next]_vars
  PROVE  StartKept'
<1> USE MaxSpawnsAssumption DEF MaxSpawnsAssumption, Processes, IInv, TypeOK,
HandleKept, StopKept, StartKept, Open, Current
<1>1. CASE Start
  BY <1>1 DEF Start, Busy, StopProcess, MustWait, CleanUp
<1>2. CASE StartContinues
  BY <1>2 DEF StartContinues, Current, StopProcess, MustWait, CleanUp
<1>3. CASE UrlTimeout
  BY <1>3 DEF UrlTimeout, Continues
<1>4. CASE Stop
  BY <1>4 DEF Stop, Down, IdleStop, StopCalled, StopProcess, MustWait, CleanUp
<1>5. CASE StopContinues
  BY <1>5 DEF StopContinues, ResetGoes, StopProcess, MustWait, CleanUp
<1>6. CASE Reset
  BY <1>6 DEF Reset, Down, IdleStop, StopCalled, StopProcess, MustWait, CleanUp
<1>7. CASE ResetContinues
  BY <1>7 DEF ResetContinues
<1>8. CASE StopTimeout
  BY <1>8 DEF StopTimeout, Continues
<1>9. ASSUME NEW p \in Processes, Report(p)
      PROVE  StartKept'
  BY <1>9 DEF Report, Continues
<1>10. ASSUME NEW p \in Processes, Exit(p)
       PROVE  StartKept'
  BY <1>10 DEF Exit, Gone, Continues
<1>11. ASSUME NEW p \in Processes, Close(p)
       PROVE  StartKept'
  BY <1>11 DEF Close, Gone, Continues
<1>12. ASSUME NEW p \in Processes, SpawnError(p)
       PROVE  StartKept'
  BY <1>12 DEF SpawnError, Continues
<1>13. CASE UNCHANGED vars
  BY <1>13 DEF vars
<1> QED
  BY <1>1, <1>2, <1>3, <1>4, <1>5, <1>6, <1>7, <1>8, <1>9, <1>10, <1>11, <1>12,
  <1>13 DEF Next

\* The invariant holds in every state.
THEOREM Invariance == Spec => []IInv
<1>1. IInv /\ [Next]_vars => IInv'
  BY TypeStep, HandleStep, StopStep, StartStep DEF IInv
<1> QED
  BY InitIInv, <1>1, PTL DEF Spec

\* Every variable of BridgeTunnel keeps to its type.
THEOREM TypeCorrect == Spec => []TypeOK
<1>1. IInv => TypeOK
  BY DEF IInv
<1> QED
  BY Invariance, <1>1, PTL

\* OneTunnel: no process is spawned beside one that runs, and an idle adapter
\* has none.
THEOREM OneTunnelTheorem == Spec => []OneTunnel
<1>1. IInv => OneTunnel
  <2> SUFFICES ASSUME IInv
               PROVE  OneTunnel
    OBVIOUS
  <2>1. Running \subseteq {child}
    BY DEF IInv, HandleKept, Running
  <2>2. IsFiniteSet({child}) /\ Cardinality({child}) = 1
    BY FS_Singleton
  <2>3. Cardinality(Running) \in Nat /\ Cardinality(Running) <= Cardinality({child})
    BY <2>1, <2>2, FS_Subset, FS_CardinalityType
  <2>4. Cardinality(Running) <= 1
    BY <2>2, <2>3
  <2>5. state = "idle" => 0 \notin Running /\ child = 0
    BY DEF IInv, StopKept, Running, Processes
  <2> QED
    BY <2>1, <2>4, <2>5 DEF OneTunnel
<1> QED
  BY Invariance, <1>1, PTL

\* EndpointIsLive: what a ready adapter hands out is withdrawn with its process.
THEOREM EndpointIsLiveTheorem == Spec => []EndpointIsLive
<1>1. IInv => EndpointIsLive
  BY MaxSpawnsAssumption DEF MaxSpawnsAssumption, IInv, TypeOK, StartKept, Open, EndpointIsLive,
     Running, Processes
<1> QED
  BY Invariance, <1>1, PTL

\* StopWins: a start that a stop or a reset has interrupted does not succeed.
THEOREM StopWinsTheorem == Spec => StopWins
<1>1. IInv /\ IInv' /\ [Next]_vars => (state # "ready" /\ state' = "ready" => stop = "no" /\ reset = "no")
  <2> SUFFICES ASSUME IInv, IInv', [Next]_vars, state # "ready", state' = "ready"
               PROVE  stop = "no" /\ reset = "no"
    OBVIOUS
  <2>1. StartContinues
    BY DEF Next, vars, Start, UrlTimeout, Stop, IdleStop, StopCalled, StopContinues, Reset,
       ResetContinues, StopTimeout, Report, Exit, Close, SpawnError, Gone, Busy
  <2>2. generation # 0
    BY <2>1 DEF IInv, TypeOK, HandleKept, StartContinues, Current
  <2> QED
    BY <2>2 DEF IInv, StopKept
<1> QED
  BY Invariance, <1>1, PTL DEF Spec, StopWins

-----------------------------------------------------------------------------
(***************************************************************************)
(* The other component that spawns a child process: CommandLedger, for any *)
(* calls, actions and hashes.                                              *)
(*                                                                         *)
(* The inductive invariant LedgerIInv says that whoever works on a hash    *)
(* created its record, that the record follows its holder's steps, and     *)
(* that verified is only on disk after the process has succeeded.  From it *)
(* follow that a command is spawned at most once per action hash, that the *)
(* ledger knows before it is, and that what it and the answers say of the  *)
(* outcome is true.                                                        *)
(***************************************************************************)
USE LedgerAssumption DEF LedgerAssumption

\* Initially the inductive invariant holds.
LEMMA LedgerInitHolds == LedgerInit => LedgerIInv
<1> USE DEF Hash
<1> SUFFICES ASSUME LedgerInit PROVE LedgerIInv
  OBVIOUS
<1> USE DEF LedgerInit
<1>1. LedgerTypeOK
  BY DEF LedgerTypeOK, Points, Children
<1>2. ActionKnown /\ OneHolder
  BY DEF ActionKnown, OneHolder, Working, Outcomes, Records
<1>3. RecordFollows /\ VerifiedSucceeded
  BY DEF RecordFollows, Follows, VerifiedSucceeded, Outcomes, Records
<1> QED
  BY <1>1, <1>2, <1>3 DEF LedgerIInv

\* Every step keeps every variable to its type.
LEMMA LedgerTypeStep ==
  ASSUME LedgerTypeOK, ActionKnown, RecordFollows,
         [LedgerNext]_ledgerVars
  PROVE  LedgerTypeOK'
<1> USE DEF Hash
<1> USE DEF LedgerTypeOK, Goto, Points, Working, Outcomes, Statuses
<1>1. ASSUME NEW c \in Calls, NEW a \in Actions, Begin(c, a) PROVE LedgerTypeOK'
  BY <1>1 DEF Begin, Ends, Answers
<1>2. ASSUME NEW c \in Calls, Continue(c) PROVE LedgerTypeOK'
  <2> USE DEF Ends, Answers, Catches, ActionKnown
  <2>0. ASSUME NEW r \in Records, pc[c] # "idle"
        PROVE [ledger EXCEPT ![Hash(c)] = r] \in [Hashes -> Records \cup {None}]
    BY <2>0
  <2>1. CASE Claim(c)
    <3>1. [action |-> action[c], status |-> "claimed"] \in Records
      BY <2>1 DEF Claim, Records
    <3> QED
      BY <2>1, <2>0, <3>1 DEF Claim, Linked
  <2>2. CASE Replayed(c)
    BY <2>2 DEF Replayed
  <2>3. CASE ClaimFails(c)
    <3>1. [action |-> action[c], status |-> "claimed"] \in Records
      BY <2>3 DEF ClaimFails, Records
    <3> QED
      BY <2>3, <2>0, <3>1 DEF ClaimFails, Linked
  <2>4. CASE Approve(c)
    BY <2>4 DEF Approve
  <2>5. ASSUME NEW status \in Statuses, pc[c] # "idle", Updated(c, status)
        PROVE ledger' \in [Hashes -> Records \cup {None}]
    <3>1. [ledger[Hash(c)] EXCEPT !.status = status] \in Records
      BY <2>5 DEF Updated, Records
    <3> QED
      BY <2>5, <2>0, <3>1 DEF Updated
  <2>6. CASE MarkExecuting(c)
    BY <2>6, <2>5 DEF MarkExecuting
  <2>7. CASE Spawn(c) \/ SpawnFails(c) \/ ChildCloses(c) \/ Interrupt(c)
    BY <2>7 DEF Spawn, SpawnFails, ChildCloses, Interrupt, Children
  <2>8. CASE RecordVerified(c)
    BY <2>8, <2>5 DEF RecordVerified
  <2>9. CASE AuditVerified(c)
    BY <2>9 DEF AuditVerified
  <2>10. CASE RecordFailed(c)
    <3>1. outcome[c] \in Statuses
      BY <2>10 DEF RecordFailed, RecordFollows, Follows
    <3> QED
      BY <2>10, <2>5, <3>1 DEF RecordFailed
  <2>11. CASE AuditFailed(c)
    BY <2>11 DEF AuditFailed
  <2> QED
    BY <1>2, <2>1, <2>2, <2>3, <2>4, <2>6, <2>7, <2>8, <2>9, <2>10, <2>11 DEF Continue
<1>3. ASSUME NEW c \in Calls, ChildEnds(c) PROVE LedgerTypeOK'
  BY <1>3 DEF ChildEnds, Children
<1>4. ASSUME NEW c \in Calls, Crash(c) PROVE LedgerTypeOK'
  BY <1>4 DEF Crash
<1>5. CASE UNCHANGED ledgerVars
  BY <1>5 DEF ledgerVars
<1> QED
  BY <1>1, <1>2, <1>3, <1>4, <1>5 DEF LedgerNext

\* The steps that touch a record or a point keep the ledger's link to its holders.
LEMMA HolderStep ==
  ASSUME LedgerIInv, [LedgerNext]_ledgerVars
  PROVE  (ActionKnown /\ OneHolder)'
<1> USE DEF Hash
<1> USE DEF LedgerIInv, LedgerTypeOK, ActionKnown, OneHolder, Goto, Points, Working, Outcomes
<1>1. ASSUME NEW c \in Calls, NEW a \in Actions, Begin(c, a)
      PROVE (ActionKnown /\ OneHolder)'
  BY <1>1 DEF Begin, Ends
<1>2. ASSUME NEW c \in Calls, Continue(c) PROVE (ActionKnown /\ OneHolder)'
  <2> USE DEF Ends, Catches
  <2>1. ASSUME Linked(c), ledger[Hash(c)] = None, pc[c] = "claim",
               \/ pc' = [pc EXCEPT ![c] = "approve"] /\ answer' = answer
               \/ Ends(c, "COMMAND_LEDGER_FAILED"),
               action' = action, childOf' = childOf
        PROVE (ActionKnown /\ OneHolder)'
    <3>1. Hash(c) \in Hashes /\ action[c] \in Actions
      BY <2>1
    <3>2. ledger'[Hash(c)] = [action |-> action[c], status |-> "claimed"]
          /\ holder'[Hash(c)] = c
      BY <2>1, <3>1 DEF Linked
    <3>3. ledger'[Hash(c)] \in Records /\ ledger'[Hash(c)].action = action[c]
      BY <3>1, <3>2 DEF Records, Statuses
    <3>4. \A h \in Hashes \ {Hash(c)} : ledger'[h] = ledger[h] /\ holder'[h] = holder[h]
      BY <2>1, <3>1 DEF Linked
    <3>5. pc'[c] \in {"approve", "done"} /\ \A d \in Calls \ {c} : pc'[d] = pc[d]
      BY <2>1
    <3>6. \A d \in Calls : answer'[d] \in Outcomes => answer[d] \in Outcomes
      BY <2>1
    <3>7. holder[Hash(c)] = None
      BY <2>1, <3>1
    <3>8. ActionKnown'
      BY <2>1, <3>1, <3>3, <3>4, <3>5
    <3>9. \A h \in Hashes : /\ (ledger[h] = None <=> holder[h] = None)'
                            /\ (holder[h] # None => pc[holder[h]] \notin {"idle", "claim"}
                                                     /\ Hash(holder[h]) = h)'
      BY <2>1, <3>2, <3>3, <3>4, <3>5
    <3>10. ASSUME NEW d \in Calls,
                  pc'[d] \in Working \/ childOf'[d] # "none" \/ answer'[d] \in Outcomes
           PROVE  (pc[d] # "idle" /\ holder[Hash(d)] = d)'
      <4>1. CASE d = c
        BY <2>1, <3>2, <3>5, <4>1
      <4>2. CASE d # c
        <5>1. pc[d] # "idle" /\ holder[Hash(d)] = d /\ action'[d] \in Actions
          BY <2>1, <3>5, <3>6, <3>10, <4>2
        <5>2. Hash(d) # Hash(c) /\ Hash(d) \in Hashes
          BY <2>1, <3>7, <5>1
        <5> QED
          BY <2>1, <3>4, <3>5, <4>2, <5>1, <5>2
      <4> QED
        BY <4>1, <4>2
    <3> QED
      BY <3>8, <3>9, <3>10
  <2>2. CASE Claim(c) \/ ClaimFails(c)
    <3>1. CASE UNCHANGED <<ledger, holder>>
      BY <2>2, <3>1 DEF Claim, ClaimFails, Linked
    <3>2. CASE ledger[Hash(c)] = None /\ Linked(c)
      BY <2>1, <2>2, <3>2 DEF Claim, ClaimFails
    <3> QED
      BY <2>2, <3>1, <3>2 DEF Claim, ClaimFails
  <2>3. CASE Replayed(c)
    BY <2>3 DEF Replayed
  <2>4. CASE Approve(c)
    BY <2>4 DEF Approve
  <2>5. ASSUME NEW status \in Statuses, Updated(c, status),
               action' = action, holder' = holder,
               pc[c] \in Working, NEW point \in Working \cup {"done"},
               pc' = [pc EXCEPT ![c] = point], childOf' = childOf, answer' = answer
        PROVE (ActionKnown /\ OneHolder)'
    <3>1. /\ ledger'[Hash(c)].action = ledger[Hash(c)].action
          /\ ledger'[Hash(c)] # None
      <4>1. Hash(c) \in Hashes /\ ledger[Hash(c)] \in Records
        BY <2>5 DEF Updated
      <4>2. ledger'[Hash(c)] = [ledger[Hash(c)] EXCEPT !.status = status]
        BY <2>5, <4>1 DEF Updated
      <4>3. ledger'[Hash(c)] \in Records
        BY <4>1, <4>2 DEF Records
      <4> QED
        BY <4>1, <4>2, <4>3 DEF Records
    <3>2. \A h \in Hashes : h # Hash(c) => ledger'[h] = ledger[h]
      BY SMTT(30), <2>5 DEF Updated
    <3> QED
      BY <2>5, <3>1, <3>2 DEF Updated
  <2>6. CASE MarkExecuting(c)
    BY <2>6, <2>5 DEF MarkExecuting, Statuses
  <2>7. CASE Spawn(c) \/ SpawnFails(c) \/ ChildCloses(c) \/ Interrupt(c)
    BY SMTT(30), <2>7 DEF Spawn, SpawnFails, ChildCloses, Interrupt
  <2>8. CASE RecordVerified(c)
    BY <2>8, <2>5 DEF RecordVerified, Statuses
  <2>9. CASE AuditVerified(c)
    BY <2>9 DEF AuditVerified
  <2>10. CASE RecordFailed(c)
    <3>1. outcome[c] \in Statuses
      BY <2>10 DEF RecordFailed, RecordFollows, Follows, Statuses
    <3> QED
      BY <2>10, <2>5, <3>1 DEF RecordFailed
  <2>11. CASE AuditFailed(c)
    BY <2>11 DEF AuditFailed
  <2> QED
    BY <1>2, <2>2, <2>3, <2>4, <2>6, <2>7, <2>8, <2>9, <2>10, <2>11 DEF Continue
<1>3. ASSUME NEW c \in Calls, ChildEnds(c) PROVE (ActionKnown /\ OneHolder)'
  BY <1>3 DEF ChildEnds
<1>4. ASSUME NEW c \in Calls, Crash(c) PROVE (ActionKnown /\ OneHolder)'
  BY <1>4 DEF Crash
<1>5. CASE UNCHANGED ledgerVars
  BY <1>5 DEF ledgerVars
<1> QED
  BY <1>1, <1>2, <1>3, <1>4, <1>5 DEF LedgerNext

\* A call that has nothing to do with the hash of c does not notice what c does.
LEMMA OthersFollow ==
  ASSUME LedgerIInv, NEW c \in Calls, pc[c] # "idle",
         holder[Hash(c)] \in {None, c},
         \A h \in Hashes \ {Hash(c)} : ledger'[h] = ledger[h],
         NEW d \in Calls, d # c,
         action'[d] = action[d], pc'[d] = pc[d], outcome'[d] = outcome[d],
         answer'[d] = answer[d], childOf'[d] = childOf[d]
  PROVE  Follows(d)'
<1> USE DEF Hash
<1> USE DEF LedgerIInv, LedgerTypeOK, ActionKnown, OneHolder, RecordFollows
<1>1. CASE pc[d] \in Working \/ childOf[d] # "none" \/ answer[d] \in Outcomes
  <2>1. Hash(d) \in Hashes /\ Hash(d) # Hash(c)
    BY <1>1
  <2>2. ledger'[Hash(d)] = ledger[Hash(d)] /\ action'[d] = action[d]
    BY <2>1
  <2> QED
    BY <2>2 DEF Follows
<1>2. CASE ~(pc[d] \in Working \/ childOf[d] # "none" \/ answer[d] \in Outcomes)
  BY <1>2 DEF Follows, Working
<1> QED
  BY <1>1, <1>2

\* Every step of a call keeps its record in step with it.
LEMMA FollowStep ==
  ASSUME LedgerIInv, [LedgerNext]_ledgerVars
  PROVE  RecordFollows'
<1> USE DEF Hash
<1> USE DEF LedgerIInv, LedgerTypeOK, ActionKnown, OneHolder, RecordFollows, Goto, Points
<1>1. ASSUME NEW c \in Calls, NEW a \in Actions, Begin(c, a), NEW d \in Calls
      PROVE Follows(d)'
  BY <1>1 DEF Begin, Ends, Follows, Outcomes, Working
<1>2. ASSUME NEW c \in Calls, Continue(c), NEW d \in Calls PROVE Follows(d)'
  <2> USE DEF Ends, Catches, Working, Outcomes
  <2>1. CASE d # c
    <3>1. pc'[d] = pc[d] /\ action'[d] = action[d] /\ outcome'[d] = outcome[d]
          /\ answer'[d] = answer[d] /\ childOf'[d] = childOf[d]
      BY <1>2, <2>1 DEF Continue, Claim, Replayed, ClaimFails, Approve,
          MarkExecuting, Spawn, SpawnFails, ChildCloses, Interrupt,
          RecordVerified, AuditVerified, RecordFailed, AuditFailed
    <3>2. CASE ledger' = ledger
      BY <2>1, <3>1, <3>2 DEF Follows
    <3>3. CASE ledger' # ledger
      <4>1. pc[c] # "idle" /\ holder[Hash(c)] \in {None, c}
        BY <1>2, <3>3 DEF Continue, Claim, Replayed, ClaimFails, Approve,
            MarkExecuting, Spawn, SpawnFails, ChildCloses, Interrupt,
            RecordVerified, AuditVerified, RecordFailed, AuditFailed
      <4>2. \A h \in Hashes \ {Hash(c)} : ledger'[h] = ledger[h]
        BY <1>2, <3>3 DEF Continue, Claim, Replayed, ClaimFails, Approve,
            MarkExecuting, Spawn, SpawnFails, ChildCloses, Interrupt,
            RecordVerified, AuditVerified, RecordFailed, AuditFailed,
            Linked, Updated
      <4> QED
        BY <2>1, <3>1, <4>1, <4>2, OthersFollow
    <3> QED
      BY <3>2, <3>3
  <2>2. CASE d = c
    <3>1. Hash(c) \in Hashes /\ action[c] \in Actions /\ pc[c] # "idle"
      BY <1>2 DEF Continue, Claim, Replayed, ClaimFails, Approve,
          MarkExecuting, Spawn, SpawnFails, ChildCloses, Interrupt,
          RecordVerified, AuditVerified, RecordFailed, AuditFailed
    <3>2. ASSUME NEW status, Updated(c, status) PROVE ledger'[Hash(c)].status = status
      <4>1. ledger[Hash(c)] \in Records
        BY <3>1, <3>2 DEF Updated
      <4> QED
        BY <3>1, <3>2, <4>1 DEF Updated, Records
    <3>3. ASSUME Linked(c) PROVE ledger'[Hash(c)].status = "claimed"
      BY <3>1, <3>3 DEF Linked
    <3>4. CASE Claim(c) \/ Replayed(c) \/ ClaimFails(c)
      BY <3>4, <2>2, <3>1, <3>3 DEF Claim, Replayed, ClaimFails, Follows
    <3>5. CASE Approve(c)
      BY <3>5, <2>2, <3>1 DEF Approve, Follows
    <3>6. CASE MarkExecuting(c)
      BY <3>6, <2>2, <3>1, <3>2 DEF MarkExecuting, Follows
    <3>7. CASE Spawn(c) \/ SpawnFails(c) \/ ChildCloses(c) \/ Interrupt(c)
      BY <3>7, <2>2, <3>1 DEF Spawn, SpawnFails, ChildCloses, Interrupt, Follows
    <3>8. CASE RecordVerified(c) \/ AuditVerified(c)
      BY <3>8, <2>2, <3>1, <3>2 DEF RecordVerified, AuditVerified, Follows
    <3>9. CASE RecordFailed(c) \/ AuditFailed(c)
      BY <3>9, <2>2, <3>1, <3>2 DEF RecordFailed, AuditFailed, Follows
    <3> QED
      BY <1>2, <3>4, <3>5, <3>6, <3>7, <3>8, <3>9 DEF Continue
  <2> QED
    BY <2>1, <2>2
<1>3. ASSUME NEW c \in Calls, ChildEnds(c), NEW d \in Calls PROVE Follows(d)'
  BY <1>3 DEF ChildEnds, Follows
<1>4. ASSUME NEW c \in Calls, Crash(c), NEW d \in Calls PROVE Follows(d)'
  BY <1>4 DEF Crash, Follows, Working
<1>5. CASE UNCHANGED ledgerVars
  BY <1>5 DEF ledgerVars, Follows
<1> QED
  BY <1>1, <1>2, <1>3, <1>4, <1>5 DEF LedgerNext

\* verified is only ever written for a child that has succeeded, which it stays.
LEMMA VerifiedStep ==
  ASSUME LedgerIInv, [LedgerNext]_ledgerVars
  PROVE  VerifiedSucceeded'
<1> USE DEF Hash
<1> USE DEF LedgerIInv, LedgerTypeOK, ActionKnown, OneHolder, RecordFollows, VerifiedSucceeded
<1> SUFFICES ASSUME NEW h \in Hashes,
                    ledger'[h] # None, ledger'[h].status = "verified"
             PROVE  childOf'[holder'[h]] = "ok"
  OBVIOUS
<1>1. CASE ledger'[h] = ledger[h]
  <2>1. holder[h] \in Calls /\ childOf[holder[h]] = "ok"
    BY <1>1
  <2>2. ASSUME NEW c \in Calls, Linked(c), ledger[Hash(c)] = None, pc[c] = "claim"
        PROVE holder'[h] = holder[h]
    <3>1. h # Hash(c)
      BY <1>1, <2>2
    <3> QED
      BY <2>2, <3>1 DEF Linked
  <2>3. holder'[h] = holder[h]
    BY <2>2 DEF LedgerNext, ledgerVars, Begin, Continue, Claim, Replayed,
        ClaimFails, Approve, MarkExecuting, Spawn, SpawnFails,
        ChildCloses, Interrupt, RecordVerified, AuditVerified,
        RecordFailed, AuditFailed, ChildEnds, Crash
  <2>4. ASSUME NEW c \in Calls, childOf[c] = "ok" PROVE childOf'[c] = "ok"
    BY <2>4 DEF LedgerNext, ledgerVars, Begin, Continue, Claim, Replayed,
        ClaimFails, Approve, MarkExecuting, Spawn, SpawnFails,
        ChildCloses, Interrupt, RecordVerified, AuditVerified,
        RecordFailed, AuditFailed, ChildEnds, Crash, Follows
  <2> QED
    BY <2>1, <2>3, <2>4
<1>2. CASE ledger'[h] # ledger[h]
  <2>1. PICK c \in Calls : Continue(c)
    BY <1>2 DEF LedgerNext, ledgerVars, Begin, ChildEnds, Crash
  <2>2. Hash(c) \in Hashes
    BY <2>1 DEF Continue, Claim, Replayed, ClaimFails, Approve,
        MarkExecuting, Spawn, SpawnFails, ChildCloses, Interrupt,
        RecordVerified, AuditVerified, RecordFailed, AuditFailed
  <2>3. ASSUME NEW status, Updated(c, status)
        PROVE h = Hash(c) /\ status = "verified"
    <3>1. h = Hash(c) /\ ledger[h] \in Records
      BY <1>2, <2>2, <2>3 DEF Updated
    <3> QED
      BY <2>2, <2>3, <3>1 DEF Updated, Records
  <2>4. ~Linked(c)
    BY <1>2, <2>2 DEF Linked
  <2>5. outcome[c] = "verified" => ~RecordFailed(c)
    BY DEF RecordFailed, Follows
  <2>6. RecordVerified(c) /\ h = Hash(c)
    BY <1>2, <2>1, <2>3, <2>4, <2>5 DEF Continue, Claim, Replayed, ClaimFails, Approve,
        MarkExecuting, Spawn, SpawnFails, ChildCloses, Interrupt,
        AuditVerified, RecordVerified, RecordFailed, AuditFailed
  <2>7. holder'[h] = c /\ childOf'[c] = "ok"
    BY <2>6 DEF RecordVerified, Follows, Working
  <2> QED
    BY <2>7
<1> QED
  BY <1>1, <1>2

\* Every step preserves the inductive invariant.
LEMMA LedgerInvStep == LedgerIInv /\ [LedgerNext]_ledgerVars => LedgerIInv'
BY LedgerTypeStep, HolderStep, FollowStep, VerifiedStep DEF LedgerIInv

\* The inductive invariant holds in every reachable state.
THEOREM LedgerInvariance == LedgerSpec => []LedgerIInv
BY LedgerInitHolds, LedgerInvStep, PTL DEF LedgerSpec

\* Every variable keeps to its type.
THEOREM LedgerTypes == LedgerSpec => []LedgerTypeOK
BY LedgerInvariance, PTL DEF LedgerIInv

\* At most one process is spawned for an action hash.
THEOREM SpawnedOnceTheorem == LedgerSpec => []SpawnedOnce
<1> USE DEF Hash
<1>1. LedgerIInv => SpawnedOnce
  BY DEF LedgerIInv, OneHolder, SpawnedOnce, Spawned
<1> QED
  BY <1>1, LedgerInvariance, PTL

\* What has been spawned is recorded as more than claimed.
THEOREM RunIsRecordedTheorem == LedgerSpec => []RunIsRecorded
<1> USE DEF Hash
<1>1. LedgerIInv => RunIsRecorded
  BY DEF LedgerIInv, RecordFollows, Follows, RunIsRecorded
<1> QED
  BY <1>1, LedgerInvariance, PTL

\* verified on disk means that the process of this hash has succeeded.
THEOREM VerifiedIsTrueTheorem == LedgerSpec => []VerifiedIsTrue
<1> USE DEF Hash
<1>1. ASSUME LedgerIInv PROVE VerifiedIsTrue
  <2> SUFFICES ASSUME NEW h \in Hashes, ledger[h] # None, ledger[h].status = "verified"
               PROVE  \E c \in Spawned(h) : childOf[c] = "ok"
    BY DEF VerifiedIsTrue
  <2>1. holder[h] \in Calls /\ childOf[holder[h]] = "ok"
    BY <1>1 DEF LedgerIInv, LedgerTypeOK, OneHolder, VerifiedSucceeded
  <2>2. Hash(holder[h]) = h
    BY <1>1, <2>1 DEF LedgerIInv, OneHolder
  <2> QED
    BY <2>1, <2>2 DEF Spawned
<1> QED
  BY <1>1, LedgerInvariance, PTL

\* The terminal status that a caller was given is the one on disk.
THEOREM AnswerIsRecordedTheorem == LedgerSpec => []AnswerIsRecorded
<1> USE DEF Hash
<1>1. LedgerIInv => AnswerIsRecorded
  BY DEF LedgerIInv, RecordFollows, Follows, AnswerIsRecorded
<1> QED
  BY <1>1, LedgerInvariance, PTL

\* No call will still spawn or wait for a command that is recorded as finished.
THEOREM RecordedIsOverTheorem == LedgerSpec => []RecordedIsOver
<1> USE DEF Hash
<1>1. LedgerIInv => RecordedIsOver
  BY DEF LedgerIInv, RecordFollows, Follows, RecordedIsOver, Decision, Outcomes
<1> QED
  BY <1>1, LedgerInvariance, PTL

\* A step that changes a record moves it on.
LEMMA MovesOnStep ==
  ASSUME LedgerIInv, [LedgerNext]_ledgerVars, NEW h \in Hashes,
         ledger[h] # None, ledger'[h] # ledger[h]
  PROVE  MovesOn(h)
<1> USE DEF Hash
<1> USE DEF LedgerIInv, LedgerTypeOK, ActionKnown, OneHolder, RecordFollows, MovesOn
<1>1. PICK c \in Calls : Continue(c)
  BY DEF LedgerNext, ledgerVars, Begin, ChildEnds, Crash
<1>2. Hash(c) \in Hashes
  BY <1>1 DEF Continue, Claim, Replayed, ClaimFails, Approve,
      MarkExecuting, Spawn, SpawnFails, ChildCloses, Interrupt,
      RecordVerified, AuditVerified, RecordFailed, AuditFailed
<1>3. ~(Linked(c) /\ ledger[Hash(c)] = None)
  BY <1>2 DEF Linked
<1>4. ASSUME NEW status \in Statuses, Updated(c, status)
      PROVE /\ h = Hash(c) /\ ledger'[h] # None
            /\ ledger'[h].action = ledger[h].action /\ ledger'[h].status = status
  <2>1. h = Hash(c) /\ ledger[h] \in Records
    BY <1>2, <1>4 DEF Updated
  <2>2. ledger'[h] = [ledger[h] EXCEPT !.status = status]
    BY <1>2, <1>4, <2>1 DEF Updated
  <2>3. ledger'[h] \in Records
    BY <2>1, <2>2 DEF Records
  <2> QED
    BY <2>1, <2>2, <2>3 DEF Records
<1>5. CASE MarkExecuting(c)
  BY <1>4, <1>5 DEF MarkExecuting, Follows, Statuses
<1>6. CASE RecordVerified(c)
  BY <1>4, <1>6 DEF RecordVerified, Follows, Statuses, Outcomes
<1>7. CASE RecordFailed(c)
  <2>1. Follows(c) /\ pc[c] = "fail" /\ outcome[c] \in Outcomes
    BY <1>7 DEF RecordFailed, Follows
  <2>2. Updated(c, outcome[c])
    BY <1>7, <1>2 DEF RecordFailed
  <2>3. outcome[c] \in Statuses
    BY <2>1 DEF Statuses
  <2>4. h = Hash(c) /\ ledger'[h] # None
        /\ ledger'[h].action = ledger[h].action /\ ledger'[h].status = outcome[c]
    BY <1>4, <2>2, <2>3
  <2> QED
    BY <2>1, <2>4 DEF Follows
<1> QED
  BY <1>1, <1>2, <1>3, <1>5, <1>6, <1>7 DEF Continue, Claim, Replayed, ClaimFails, Approve,
      Spawn, SpawnFails, ChildCloses, Interrupt, AuditVerified,
      AuditFailed

\* A record goes on from claimed over executing to its outcome.
THEOREM RecordMovesOnTheorem == LedgerSpec => RecordMovesOn
<1> USE DEF Hash
<1> DEFINE A == \A h \in Hashes : ledger[h] # None /\ ledger'[h] # ledger[h] => MovesOn(h)
<1>1. ASSUME LedgerIInv, [LedgerNext]_ledgerVars PROVE A
  BY <1>1, MovesOnStep
<1>2. LedgerIInv /\ [LedgerNext]_ledgerVars => [A]_ledgerVars
  BY <1>1
<1> QED
  BY <1>2, LedgerInvariance, PTL DEF LedgerSpec, RecordMovesOn

\* A record left for manual review has a call that works on it, that crashed or
\* one of whose operations may have failed.
THEOREM ReviewHasReasonTheorem == LedgerSpec => []ReviewHasReason
<1> USE DEF Hash
<1>1. LedgerInit => ReviewHasReason
  BY DEF LedgerInit, ReviewHasReason
<1>2. ASSUME LedgerIInv, ReviewHasReason, [LedgerNext]_ledgerVars, LedgerIInv'
      PROVE  ReviewHasReason'
  <2> USE DEF LedgerIInv, LedgerTypeOK, ActionKnown, OneHolder,
              RecordFollows, Goto, Outcomes, Working
  <2> SUFFICES ASSUME NEW h \in Hashes, ledger'[h] # None,
                      Decision(ledger'[h]) = "manual_review"
               PROVE  \/ pc'[holder'[h]] \in Working \cup {"crashed"}
                      \/ holder'[h] \in Faulty
    BY DEF ReviewHasReason
  <2>0. ledger'[h].status \notin Outcomes
    BY DEF Decision
  <2>1. holder'[h] \in Calls
    BY <1>2
  <2>2. CASE holder'[h] # holder[h]
    <3>1. PICK d \in Calls : Linked(d) /\ (Claim(d) \/ ClaimFails(d))
      BY <1>2, <2>2 DEF LedgerNext, ledgerVars, Begin, Continue, Claim, Replayed,
          ClaimFails, Approve, MarkExecuting, Spawn, SpawnFails,
          ChildCloses, Interrupt, RecordVerified, AuditVerified,
          RecordFailed, AuditFailed, ChildEnds, Crash
    <3>2. holder'[h] = d
      BY <2>2, <3>1 DEF Linked
    <3> QED
      BY <1>2, <3>1, <3>2 DEF Claim, ClaimFails
  <2>3. CASE holder'[h] = holder[h]
    <3> DEFINE c == holder[h]
    <3>1. c \in Calls /\ Hash(c) = h /\ pc[c] \notin {"idle", "claim"} /\ ledger[h] # None
      BY <1>2, <2>1, <2>3
    <3>2. ledger[h].status \notin Outcomes
      BY <1>2, <2>0, <3>1, MovesOnStep DEF MovesOn
    <3>3. pc[c] \in Working \cup {"crashed"} \/ c \in Faulty
      BY <1>2, <3>1, <3>2 DEF ReviewHasReason, Decision
    <3>4. pc[c] # "audit" /\ pc[c] # "report"
      BY <1>2, <3>1, <3>2 DEF Follows
    <3>5. pc'[c] = pc[c] \/ pc'[c] \in Working \cup {"crashed"} \/ c \in Faulty
      BY <1>2, <3>1, <3>4 DEF LedgerNext, ledgerVars, Begin, Continue, Claim, Replayed,
          ClaimFails, Approve, MarkExecuting, Spawn, SpawnFails,
          ChildCloses, Interrupt, RecordVerified, AuditVerified,
          RecordFailed, AuditFailed, ChildEnds, Crash, Ends,
          Catches
    <3> QED
      BY <2>3, <3>3, <3>5
  <2> QED
    BY <2>2, <2>3
<1>3. LedgerIInv /\ ReviewHasReason /\ [LedgerNext]_ledgerVars /\ LedgerIInv'
        => ReviewHasReason'
  BY <1>2
<1> QED
  BY <1>1, <1>3, LedgerInvariance, PTL DEF LedgerSpec
=============================================================================
