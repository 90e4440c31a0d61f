------------------------ MODULE TerminalSessionProofs ------------------------
(***************************************************************************)
(* Proofs about TerminalSession, for any finite set of sessions, with and  *)
(* without a provider, on either platform.                                 *)
(*                                                                         *)
(* The inductive invariant IInv adds to the type invariant and NoOrphan    *)
(*   - DiskKept: a session that has had a process has a file, so that no   *)
(*     second process is started under its id after a restart;             *)
(*   - ProcessKept: what has a process has been started, and what is being *)
(*     cancelled has been signalled;                                       *)
(*   - CountKept: the sessions that run or are being created are no more   *)
(*     than the limit, of which LimitHolds is the half that runs.          *)
(***************************************************************************)
EXTENDS TerminalSession, FiniteSetTheorems, TLAPS

\* The initial state satisfies the invariant.
LEMMA InitIInv == Init => IInv
<1> SUFFICES ASSUME Init
             PROVE  IInv
  OBVIOUS
<1> USE ConstantsAssumption, NoneAssumption DEF ConstantsAssumption, Init, Always, Ended
<1>1. TypeOK
  BY DEF TypeOK, Processes
<1>2. DiskKept /\ ProcessKept /\ NoOrphan
  BY DEF DiskKept, ProcessKept, NoOrphan
<1>3. CountKept
  <2>1. Counted = {}
    BY DEF Counted, Running
  <2> QED
    BY <2>1, FS_EmptySet DEF CountKept
<1> QED
  BY <1>1, <1>2, <1>3 DEF IInv

\* A signal leaves a process in one of its states.
LEMMA SignalledType ==
  ASSUME TypeOK, NEW s \in Sessions
  PROVE  /\ [process EXCEPT ![s] = Signalled(s)] \in [Sessions -> Processes]
         /\ CancelRuntime(s) => process' \in [Sessions -> Processes]
<1>1. process[s] \in Processes
  BY DEF TypeOK
<1>2. Signalled(s) \in Processes
  BY <1>1 DEF Signalled, Terminated, KilledTree, Aborted, Processes
<1> QED
  BY <1>2 DEF TypeOK, CancelRuntime, Set

\* Every step keeps the types.
LEMMA TypeStep ==
  ASSUME TypeOK, [Next]_vars
  PROVE  TypeOK'
<1> USE ConstantsAssumption DEF ConstantsAssumption, TypeOK, Processes, Ended, Set
<1>1. ASSUME NEW s \in Sessions, Create(s)
       PROVE  TypeOK'
  BY <1>1 DEF Create
<1>2. ASSUME NEW s \in Sessions, OpenCwd(s)
       PROVE  TypeOK'
  BY <1>2 DEF OpenCwd
<1>3. ASSUME NEW s \in Sessions, Launch(s)
       PROVE  TypeOK'
  BY ZenonT(30), <1>3 DEF Launch, LaunchOnWindows, OnWindows
<1>4. ASSUME NEW s \in Sessions, LaunchFails(s)
       PROVE  TypeOK'
  BY <1>4 DEF LaunchFails, Fail
<1>5. ASSUME NEW s \in Sessions, ProviderReady(s)
       PROVE  TypeOK'
  BY <1>5 DEF ProviderReady, LateHandle
<1>6. ASSUME NEW s \in Sessions, ProviderFails(s)
       PROVE  TypeOK'
  BY ZenonT(30), <1>6 DEF ProviderFails, OnExit, Finish
<1>7. ASSUME NEW s \in Sessions, ProviderTimeout(s)
       PROVE  TypeOK'
  BY <1>7 DEF ProviderTimeout, OnExit, Finish
<1>8. ASSUME NEW s \in Sessions, Output(s)
       PROVE  TypeOK'
  <2>1. CASE output[s] < MaxOutput
    <3>1. output' \in [Sessions -> 0..MaxOutput]
      BY <1>8, <2>1 DEF Output
    <3>2. dirty' \in [Sessions -> BOOLEAN]
      BY <1>8, <2>1 DEF Output
    <3> QED
      BY <1>8, <2>1, <3>1, <3>2 DEF Output
  <2>2. CASE ~(output[s] < MaxOutput)
    <3>1. process' \in [Sessions -> Processes]
      BY <1>8, <2>2, SignalledType DEF Output
    <3>2. /\ status' \in [Sessions -> Ended \cup {"running", None}]
          /\ dirty' \in [Sessions -> BOOLEAN]
      BY <1>8, <2>2 DEF Output, Finish
    <3> QED
      BY <1>8, <2>2, <3>1, <3>2 DEF Output
  <2> QED
    BY <2>1, <2>2
<1>9. ASSUME NEW s \in Sessions, Timeout(s)
       PROVE  TypeOK'
  BY ZenonT(30), <1>9 DEF Timeout, Finish, CancelRuntime, Signalled, Terminated, KilledTree, Aborted
<1>10. ASSUME NEW s \in Sessions, Cancel(s)
        PROVE  TypeOK'
  BY ZenonT(30), <1>10 DEF Cancel, Finish, Signalled, Terminated, KilledTree, Aborted
<1>11. ASSUME NEW s \in Sessions, CancelReturns(s)
        PROVE  TypeOK'
  BY <1>11 DEF CancelReturns, Finish
<1>12. ASSUME NEW s \in Sessions, Persist(s)
        PROVE  TypeOK'
  BY <1>12 DEF Persist
<1>13. ASSUME NEW s \in Sessions, PersistFails(s)
        PROVE  TypeOK'
  <2>1. process' \in [Sessions -> Processes]
    BY <1>13, SignalledType DEF PersistFails
  <2>2. failures' \in 0..MaxFailures
    BY <1>13 DEF PersistFails, Fail
  <2> QED
    BY ZenonT(30), <1>13, <2>1, <2>2 DEF PersistFails
<1>14. ASSUME NEW s \in Sessions, Write(s)
        PROVE  TypeOK'
  BY <1>14 DEF Write, OnExit, Finish, OnWindows
<1>15. ASSUME NEW s \in Sessions, Forward(s)
        PROVE  TypeOK'
  BY <1>15 DEF Forward
<1>16. ASSUME NEW s \in Sessions, Exit(s)
        PROVE  TypeOK'
  BY ZenonT(30), <1>16 DEF Exit, Reported, OnExit, Finish
<1>17. ASSUME NEW s \in Sessions, HelperStarts(s)
        PROVE  TypeOK'
  BY <1>17 DEF HelperStarts, Becomes, OnWindows
<1>18. ASSUME NEW s \in Sessions, ChildEnds(s)
        PROVE  TypeOK'
  BY <1>18 DEF ChildEnds, Becomes, OnWindows
<1>19. ASSUME NEW s \in Sessions, HelperExits(s)
        PROVE  TypeOK'
  BY <1>19 DEF HelperExits, Becomes, OnWindows
<1>20. ASSUME NEW s \in Sessions, HelperCloses(s)
        PROVE  TypeOK'
  BY ZenonT(30), <1>20 DEF HelperCloses, Reported, OnExit, Finish
<1>21. CASE Crash
  <2>1. process' \in [Sessions -> Processes]
    BY <1>21 DEF Crash
  <2>2. failures' \in 0..MaxFailures
    BY <1>21 DEF Crash, Fail
  <2>3. /\ up' \in BOOLEAN /\ closing' \in {"no", "waiting", "cancelling", "done"}
        /\ status' \in [Sessions -> Ended \cup {"running", None}]
    BY <1>21 DEF Crash, Always
  <2>6. output' \in [Sessions -> 0..MaxOutput]
    <3>1. 0 \in 0..MaxOutput
      OBVIOUS
    <3> QED
      BY <1>21, <3>1 DEF Crash, Always
  <2>4. /\ input' \in [Sessions -> BOOLEAN]
        /\ dirty' \in [Sessions -> BOOLEAN]
        /\ timer' \in [Sessions -> BOOLEAN]
        /\ cancelling' \in [Sessions -> BOOLEAN]
    BY <1>21 DEF Crash, Always
  <2>5. /\ creating' \in [Sessions -> {"no", "reserved", "persisting", "starting"}]
        /\ runtime' \in [Sessions -> {"none", "waiting", "held"}]
    BY <1>21 DEF Crash, Always
  <2> QED
    BY <1>21, <2>1, <2>2, <2>3, <2>4, <2>5, <2>6 DEF Crash
<1>22. CASE Restore
  BY <1>22 DEF Restore, Restored
<1>23. CASE Close
  BY <1>23 DEF Close
<1>24. CASE CloseProceeds
  BY <1>24 DEF CloseProceeds
<1>25. CASE UNCHANGED vars
  BY <1>25 DEF vars
<1>26. ASSUME NEW s \in Sessions, CommandExits(s)
        PROVE  TypeOK'
  <2>1. output' \in [Sessions -> 0..MaxOutput]
    <3>1. PICK n \in output[s]..MaxOutput : output' = [output EXCEPT ![s] = n]
      BY <1>26 DEF CommandExits
    <3>2. n \in 0..MaxOutput
      <4>1. output[s] \in 0..MaxOutput
        OBVIOUS
      <4> QED
        BY <3>1, <4>1
    <3> QED
      BY <3>1, <3>2
  <2>2. process' \in [Sessions -> Processes]
    BY <1>26 DEF CommandExits
  <2>3. /\ status' \in [Sessions -> Ended \cup {"running", None}]
        /\ dirty' \in [Sessions -> BOOLEAN] /\ timer' \in [Sessions -> BOOLEAN]
        /\ runtime' \in [Sessions -> {"none", "waiting", "held"}]
    <3>1. PICK end \in {"exited", "failed"} : Reported(s, end)
      BY <1>26 DEF CommandExits
    <3> QED
      BY ZenonT(30), <3>1 DEF Reported, OnExit, Finish
  <2> QED
    BY <1>26, <2>1, <2>2, <2>3 DEF CommandExits
<1>27. ASSUME NEW s \in Sessions, CommandTimeout(s)
        PROVE  TypeOK'
  BY ZenonT(30), <1>27 DEF CommandTimeout, OnExit, Finish
<1>28. ASSUME NEW s \in Sessions, Leaves(s)
        PROVE  TypeOK'
  BY ZenonT(30), <1>28 DEF Leaves, Reported, OnExit, Finish
<1>29. ASSUME NEW s \in Sessions, ToldEnds(s)
        PROVE  TypeOK'
  BY ZenonT(30), <1>29 DEF ToldEnds, Becomes
<1> QED
  BY <1>1, <1>2, <1>3, <1>4, <1>5, <1>6, <1>7, <1>8, <1>9, <1>10, <1>11, <1>12, <1>13,
  <1>14, <1>15, <1>16, <1>17, <1>18, <1>19, <1>20, <1>21, <1>22, <1>23, <1>24, <1>25,
  <1>26, <1>27, <1>28, <1>29 DEF Next

\* Every step keeps DiskKept: start comes after the first write, and a file is
\* never taken back.
LEMMA DiskStep ==
  ASSUME TypeOK, DiskKept, ProcessKept, [Next]_vars
  PROVE  DiskKept'
<1> USE NoneAssumption DEF TypeOK, DiskKept, Ended, Set
<1>1. ASSUME NEW s \in Sessions, Create(s)
       PROVE  DiskKept'
  BY <1>1 DEF Create
<1>2. ASSUME NEW s \in Sessions, OpenCwd(s)
       PROVE  DiskKept'
  BY <1>2 DEF OpenCwd
<1>3. ASSUME NEW s \in Sessions, Launch(s)
       PROVE  DiskKept'
  BY <1>3 DEF Launch, LaunchOnWindows, OnWindows
<1>4. ASSUME NEW s \in Sessions, LaunchFails(s)
       PROVE  DiskKept'
  BY <1>4 DEF LaunchFails, Fail
<1>5. ASSUME NEW s \in Sessions, ProviderReady(s)
       PROVE  DiskKept'
  BY <1>5 DEF ProviderReady, LateHandle
<1>6. ASSUME NEW s \in Sessions, ProviderFails(s)
       PROVE  DiskKept'
  BY <1>6 DEF ProviderFails, OnExit, Finish
<1>7. ASSUME NEW s \in Sessions, ProviderTimeout(s)
       PROVE  DiskKept'
  BY <1>7 DEF ProviderTimeout, OnExit, Finish
<1>8. ASSUME NEW s \in Sessions, Output(s)
       PROVE  DiskKept'
  BY <1>8 DEF Output, Finish, CancelRuntime, Signalled, Terminated, KilledTree,
      Aborted, Printing
<1>9. ASSUME NEW s \in Sessions, Timeout(s)
       PROVE  DiskKept'
  BY <1>9 DEF Timeout, Finish, CancelRuntime, Signalled, Terminated, KilledTree, Aborted
<1>10. ASSUME NEW s \in Sessions, Cancel(s)
        PROVE  DiskKept'
  BY <1>10 DEF Cancel, Finish, Signalled, Terminated, KilledTree, Aborted
<1>11. ASSUME NEW s \in Sessions, CancelReturns(s)
        PROVE  DiskKept'
  BY <1>11 DEF CancelReturns, Finish
<1>12. ASSUME NEW s \in Sessions, Persist(s)
        PROVE  DiskKept'
  BY <1>12 DEF Persist
<1>13. ASSUME NEW s \in Sessions, PersistFails(s)
        PROVE  DiskKept'
  BY <1>13 DEF PersistFails, Fail, CancelRuntime, Signalled, Terminated, KilledTree,
      Aborted
<1>14. ASSUME NEW s \in Sessions, Write(s)
        PROVE  DiskKept'
  BY <1>14 DEF Write, OnExit, Finish, OnWindows
<1>15. ASSUME NEW s \in Sessions, Forward(s)
        PROVE  DiskKept'
  BY <1>15 DEF Forward
<1>16. ASSUME NEW s \in Sessions, Exit(s)
        PROVE  DiskKept'
  BY <1>16 DEF Exit, Reported, OnExit, Finish, OnWindows
<1>17. ASSUME NEW s \in Sessions, HelperStarts(s)
        PROVE  DiskKept'
  BY <1>17 DEF HelperStarts, Becomes, OnWindows
<1>18. ASSUME NEW s \in Sessions, ChildEnds(s)
        PROVE  DiskKept'
  BY <1>18 DEF ChildEnds, Becomes, OnWindows
<1>19. ASSUME NEW s \in Sessions, HelperExits(s)
        PROVE  DiskKept'
  BY <1>19 DEF HelperExits, Becomes, OnWindows
<1>20. ASSUME NEW s \in Sessions, HelperCloses(s)
        PROVE  DiskKept'
  BY <1>20 DEF HelperCloses, Reported, OnExit, Finish
<1>21. CASE Crash
  <2>1. ASSUME NEW s \in Sessions
        PROVE  /\ runtime'[s] = "none" /\ ~cancelling'[s] /\ disk'[s] = disk[s]
               /\ creating'[s] = "no" /\ ~dirty'[s]
    BY <1>21 DEF Crash, Always
  <2>2. ASSUME NEW s \in Sessions
        PROVE  process'[s] # "none" => process[s] # "none"
    BY <1>21 DEF Crash
  <2> QED
    BY <2>1, <2>2
<1>22. CASE Restore
  <2>1. ASSUME NEW s \in Sessions
        PROVE  dirty'[s] => status'[s] # None
    BY <1>22 DEF Restore, Restored
  <2>2. ASSUME NEW s \in Sessions
        PROVE  creating'[s] = "no"
    BY <1>22 DEF Restore
  <2> QED
    BY <1>22, <2>1, <2>2 DEF Restore
<1>23. CASE Close
  BY <1>23 DEF Close
<1>24. CASE CloseProceeds
  BY <1>24 DEF CloseProceeds
<1>25. CASE UNCHANGED vars
  BY <1>25 DEF vars
<1>26. ASSUME NEW s \in Sessions, CommandExits(s)
        PROVE  DiskKept'
  BY <1>26 DEF CommandExits, Reported, OnExit, Finish
<1>27. ASSUME NEW s \in Sessions, CommandTimeout(s)
        PROVE  DiskKept'
  BY <1>27 DEF CommandTimeout, OnExit, Finish
<1>28. ASSUME NEW s \in Sessions, Leaves(s)
        PROVE  DiskKept'
  BY <1>28 DEF Leaves, Reported, OnExit, Finish
<1>29. ASSUME NEW s \in Sessions, ToldEnds(s)
        PROVE  DiskKept'
  BY <1>29 DEF ToldEnds, Becomes
<1> QED
  BY <1>1, <1>2, <1>3, <1>4, <1>5, <1>6, <1>7, <1>8, <1>9, <1>10, <1>11, <1>12, <1>13,
  <1>14, <1>15, <1>16, <1>17, <1>18, <1>19, <1>20, <1>21, <1>22, <1>23, <1>24, <1>25,
  <1>26, <1>27, <1>28, <1>29 DEF Next

\* Every step keeps ProcessKept: a process is spawned at the launch only, and a
\* cancel signals what its handle holds.
LEMMA ProcessStep ==
  ASSUME TypeOK, DiskKept, ProcessKept, NoOrphan, [Next]_vars
  PROVE  ProcessKept'
<1> USE ConstantsAssumption, NoneAssumption
    DEF ConstantsAssumption, TypeOK, DiskKept, ProcessKept, NoOrphan, Set
<1>1. ASSUME NEW s \in Sessions, Create(s)
       PROVE  ProcessKept'
  BY <1>1 DEF Create
<1>2. ASSUME NEW s \in Sessions, OpenCwd(s)
       PROVE  ProcessKept'
  BY <1>2 DEF OpenCwd
<1>3. ASSUME NEW s \in Sessions, Launch(s)
       PROVE  ProcessKept'
  BY <1>3 DEF Launch, LaunchOnWindows, OnWindows
<1>4. ASSUME NEW s \in Sessions, LaunchFails(s)
       PROVE  ProcessKept'
  BY <1>4 DEF LaunchFails, Fail
<1>5. ASSUME NEW s \in Sessions, ProviderReady(s)
       PROVE  ProcessKept'
  BY <1>5 DEF ProviderReady, LateHandle
<1>6. ASSUME NEW s \in Sessions, ProviderFails(s)
       PROVE  ProcessKept'
  BY <1>6 DEF ProviderFails, OnExit, Finish
<1>7. ASSUME NEW s \in Sessions, ProviderTimeout(s)
       PROVE  ProcessKept'
  BY <1>7 DEF ProviderTimeout, OnExit, Finish
<1>8. ASSUME NEW s \in Sessions, Output(s)
       PROVE  ProcessKept'
  BY <1>8 DEF Output, Finish, CancelRuntime, Signalled, Terminated, KilledTree,
      Aborted, Printing
<1>9. ASSUME NEW s \in Sessions, Timeout(s)
       PROVE  ProcessKept'
  BY <1>9 DEF Timeout, Finish, CancelRuntime, Signalled, Terminated, KilledTree, Aborted
<1>10. ASSUME NEW s \in Sessions, Cancel(s)
        PROVE  ProcessKept'
  BY <1>10 DEF Cancel, Finish, Signalled, Terminated, KilledTree, Aborted
<1>11. ASSUME NEW s \in Sessions, CancelReturns(s)
        PROVE  ProcessKept'
  BY <1>11 DEF CancelReturns, Finish
<1>12. ASSUME NEW s \in Sessions, Persist(s)
        PROVE  ProcessKept'
  BY <1>12 DEF Persist
<1>13. ASSUME NEW s \in Sessions, PersistFails(s)
        PROVE  ProcessKept'
  BY <1>13 DEF PersistFails, Fail, CancelRuntime, Signalled, Terminated, KilledTree,
      Aborted
<1>14. ASSUME NEW s \in Sessions, Write(s)
        PROVE  ProcessKept'
  BY <1>14 DEF Write, OnExit, Finish, OnWindows
<1>15. ASSUME NEW s \in Sessions, Forward(s)
        PROVE  ProcessKept'
  BY <1>15 DEF Forward
<1>16. ASSUME NEW s \in Sessions, Exit(s)
        PROVE  ProcessKept'
  BY <1>16 DEF Exit, Reported, OnExit, Finish, OnWindows
<1>17. ASSUME NEW s \in Sessions, HelperStarts(s)
        PROVE  ProcessKept'
  BY <1>17 DEF HelperStarts, Becomes, OnWindows
<1>18. ASSUME NEW s \in Sessions, ChildEnds(s)
        PROVE  ProcessKept'
  BY <1>18 DEF ChildEnds, Becomes, OnWindows
<1>19. ASSUME NEW s \in Sessions, HelperExits(s)
        PROVE  ProcessKept'
  BY <1>19 DEF HelperExits, Becomes, OnWindows
<1>20. ASSUME NEW s \in Sessions, HelperCloses(s)
        PROVE  ProcessKept'
  BY <1>20 DEF HelperCloses, Reported, OnExit, Finish
<1>21. CASE Crash
  BY <1>21 DEF Crash, Always, Fail
<1>22. CASE Restore
  BY <1>22 DEF Restore, Restored
<1>23. CASE Close
  BY <1>23 DEF Close
<1>24. CASE CloseProceeds
  BY <1>24 DEF CloseProceeds
<1>25. CASE UNCHANGED vars
  BY <1>25 DEF vars
<1>26. ASSUME NEW s \in Sessions, CommandExits(s)
        PROVE  ProcessKept'
  BY <1>26 DEF CommandExits, Reported, OnExit, Finish
<1>27. ASSUME NEW s \in Sessions, CommandTimeout(s)
        PROVE  ProcessKept'
  BY <1>27 DEF CommandTimeout, OnExit, Finish
<1>28. ASSUME NEW s \in Sessions, Leaves(s)
        PROVE  ProcessKept'
  BY <1>28 DEF Leaves, Reported, OnExit, Finish
<1>29. ASSUME NEW s \in Sessions, ToldEnds(s)
        PROVE  ProcessKept'
  BY <1>29 DEF ToldEnds, Becomes
<1> QED
  BY <1>1, <1>2, <1>3, <1>4, <1>5, <1>6, <1>7, <1>8, <1>9, <1>10, <1>11, <1>12, <1>13,
  <1>14, <1>15, <1>16, <1>17, <1>18, <1>19, <1>20, <1>21, <1>22, <1>23, <1>24, <1>25,
  <1>26, <1>27, <1>28, <1>29 DEF Next

\* Every step keeps NoOrphan: what ends a session signals its process, and a
\* late handle is not taken.
LEMMA OrphanStep ==
  ASSUME TypeOK, DiskKept, ProcessKept, NoOrphan, [Next]_vars
  PROVE  NoOrphan'
<1> USE ConstantsAssumption, NoneAssumption
    DEF ConstantsAssumption, TypeOK, DiskKept, ProcessKept, NoOrphan, Set
<1>1. ASSUME NEW s \in Sessions, Create(s)
       PROVE  NoOrphan'
  BY <1>1 DEF Create
<1>2. ASSUME NEW s \in Sessions, OpenCwd(s)
       PROVE  NoOrphan'
  BY <1>2 DEF OpenCwd
<1>3. ASSUME NEW s \in Sessions, Launch(s)
       PROVE  NoOrphan'
  BY <1>3 DEF Launch, LaunchOnWindows, OnWindows
<1>4. ASSUME NEW s \in Sessions, LaunchFails(s)
       PROVE  NoOrphan'
  BY <1>4 DEF LaunchFails, Fail
<1>5. ASSUME NEW s \in Sessions, ProviderReady(s)
       PROVE  NoOrphan'
  BY <1>5 DEF ProviderReady, LateHandle
<1>6. ASSUME NEW s \in Sessions, ProviderFails(s)
       PROVE  NoOrphan'
  BY <1>6 DEF ProviderFails, OnExit, Finish
<1>7. ASSUME NEW s \in Sessions, ProviderTimeout(s)
       PROVE  NoOrphan'
  BY <1>7 DEF ProviderTimeout, OnExit, Finish
<1>8. ASSUME NEW s \in Sessions, Output(s)
       PROVE  NoOrphan'
  BY <1>8 DEF Output, Finish, CancelRuntime, Signalled, Terminated, KilledTree,
      Aborted, Printing
<1>9. ASSUME NEW s \in Sessions, Timeout(s)
       PROVE  NoOrphan'
  BY <1>9 DEF Timeout, Finish, CancelRuntime, Signalled, Terminated, KilledTree, Aborted
<1>10. ASSUME NEW s \in Sessions, Cancel(s)
        PROVE  NoOrphan'
  BY <1>10 DEF Cancel, Finish, Signalled, Terminated, KilledTree, Aborted
<1>11. ASSUME NEW s \in Sessions, CancelReturns(s)
        PROVE  NoOrphan'
  BY <1>11 DEF CancelReturns, Finish
<1>12. ASSUME NEW s \in Sessions, Persist(s)
        PROVE  NoOrphan'
  BY <1>12 DEF Persist
<1>13. ASSUME NEW s \in Sessions, PersistFails(s)
        PROVE  NoOrphan'
  BY <1>13 DEF PersistFails, Fail, CancelRuntime, Signalled, Terminated, KilledTree,
      Aborted
<1>14. ASSUME NEW s \in Sessions, Write(s)
        PROVE  NoOrphan'
  BY <1>14 DEF Write, OnExit, Finish, OnWindows
<1>15. ASSUME NEW s \in Sessions, Forward(s)
        PROVE  NoOrphan'
  BY <1>15 DEF Forward
<1>16. ASSUME NEW s \in Sessions, Exit(s)
        PROVE  NoOrphan'
  BY <1>16 DEF Exit, Reported, OnExit, Finish, OnWindows
<1>17. ASSUME NEW s \in Sessions, HelperStarts(s)
        PROVE  NoOrphan'
  BY <1>17 DEF HelperStarts, Becomes, OnWindows
<1>18. ASSUME NEW s \in Sessions, ChildEnds(s)
        PROVE  NoOrphan'
  BY <1>18 DEF ChildEnds, Becomes, OnWindows
<1>19. ASSUME NEW s \in Sessions, HelperExits(s)
        PROVE  NoOrphan'
  BY <1>19 DEF HelperExits, Becomes, OnWindows
<1>20. ASSUME NEW s \in Sessions, HelperCloses(s)
        PROVE  NoOrphan'
  BY <1>20 DEF HelperCloses, Reported, OnExit, Finish
<1>21. CASE Crash
  BY <1>21 DEF Crash, Always, Fail
<1>22. CASE Restore
  BY <1>22 DEF Restore, Restored
<1>23. CASE Close
  BY <1>23 DEF Close
<1>24. CASE CloseProceeds
  BY <1>24 DEF CloseProceeds
<1>25. CASE UNCHANGED vars
  BY <1>25 DEF vars
<1>26. ASSUME NEW s \in Sessions, CommandExits(s)
        PROVE  NoOrphan'
  BY <1>26 DEF CommandExits, Reported, OnExit, Finish
<1>27. ASSUME NEW s \in Sessions, CommandTimeout(s)
        PROVE  NoOrphan'
  BY <1>27 DEF CommandTimeout, OnExit, Finish
<1>28. ASSUME NEW s \in Sessions, Leaves(s)
        PROVE  NoOrphan'
  BY <1>28 DEF Leaves, Reported, OnExit, Finish
<1>29. ASSUME NEW s \in Sessions, ToldEnds(s)
        PROVE  NoOrphan'
  BY <1>29 DEF ToldEnds, Becomes
<1> QED
  BY <1>1, <1>2, <1>3, <1>4, <1>5, <1>6, <1>7, <1>8, <1>9, <1>10, <1>11, <1>12, <1>13,
  <1>14, <1>15, <1>16, <1>17, <1>18, <1>19, <1>20, <1>21, <1>22, <1>23, <1>24, <1>25,
  <1>26, <1>27, <1>28, <1>29 DEF Next

\* The counted sessions are a finite set, and so is every part of it.
LEMMA CountedIsFinite ==
  /\ IsFiniteSet(Counted)
  /\ IsFiniteSet(Running)
  /\ IsFiniteSet({s \in Sessions : creating[s] # "no"})
  /\ Cardinality(Counted) \in Nat
<1> USE ConstantsAssumption DEF ConstantsAssumption
<1>1. /\ Counted \subseteq Sessions
      /\ Running \subseteq Sessions
      /\ {s \in Sessions : creating[s] # "no"} \subseteq Sessions
  BY DEF Counted, Running
<1>2. /\ IsFiniteSet(Counted)
      /\ IsFiniteSet(Running)
      /\ IsFiniteSet({s \in Sessions : creating[s] # "no"})
  BY <1>1, FS_Subset
<1> QED
  BY <1>2, FS_CardinalityType

\* If a step counts no session that was not counted, the limit is kept.
LEMMA CountedShrinks ==
  ASSUME CountKept, Counted' \subseteq Counted
  PROVE  CountKept'
<1>1. Cardinality(Counted') <= Cardinality(Counted)
  BY CountedIsFinite, FS_Subset
<1>2. Cardinality(Counted) \in Nat /\ Cardinality(Counted') \in Nat
  <2>1. IsFiniteSet(Counted')
    BY CountedIsFinite, FS_Subset
  <2> QED
    BY <2>1, CountedIsFinite, FS_CardinalityType
<1> QED
  BY <1>1, <1>2, ConstantsAssumption DEF CountKept, ConstantsAssumption

\* Every step keeps the limit: a creation needs room, and a session only runs
\* that was being created.
LEMMA CountStep ==
  ASSUME TypeOK, CountKept, [Next]_vars
  PROVE  CountKept'
<1> USE NoneAssumption DEF TypeOK, Ended, Set, Counted, Running
<1>1. ASSUME NEW s \in Sessions, Create(s)
       PROVE  CountKept'
  <2> DEFINE Reserved == {t \in Sessions : creating[t] # "no"}
  <2>1. Counted' = Counted \cup {s}
    <3>1. Running' = Running
      BY <1>1 DEF Create
    <3>2. {t \in Sessions : creating'[t] # "no"} = Reserved \cup {s}
      BY <1>1 DEF Create
    <3> QED
      BY <3>1, <3>2
  <2>2. Cardinality(Counted') <= Cardinality(Counted) + 1
    <3>1. /\ Cardinality(Counted) \in Nat
          /\ \/ Cardinality(Counted \cup {s}) = Cardinality(Counted)
             \/ Cardinality(Counted \cup {s}) = Cardinality(Counted) + 1
      BY CountedIsFinite, FS_AddElement
    <3> HIDE DEF Counted
    <3> QED
      BY <2>1, <3>1
  <2>3. Cardinality(Counted) <= Cardinality(Running) + Cardinality(Reserved)
    <3>1. IsFiniteSet(Running \cap Reserved)
      BY CountedIsFinite, FS_Intersection
    <3>2. /\ Cardinality(Running \cap Reserved) \in Nat
          /\ Cardinality(Running) \in Nat
          /\ Cardinality(Reserved) \in Nat
      BY <3>1, CountedIsFinite, FS_CardinalityType
    <3>3. Cardinality(Running \cup Reserved)
            = Cardinality(Running) + Cardinality(Reserved) - Cardinality(Running \cap Reserved)
      BY CountedIsFinite, FS_Union
    <3> QED
      BY <3>2, <3>3
  <2>4. Cardinality(Running) + Cardinality(Reserved) < MaxSessions
    BY <1>1 DEF Create, HasRoom
  <2>5. /\ Cardinality(Counted') \in Nat
        /\ Cardinality(Counted) \in Nat
        /\ Cardinality(Running) \in Nat
        /\ Cardinality(Reserved) \in Nat
    BY <2>1, CountedIsFinite, FS_AddElement, FS_CardinalityType
  <2> QED
    BY <2>2, <2>3, <2>4, <2>5, ConstantsAssumption DEF CountKept, ConstantsAssumption
<1>2. ASSUME NEW s \in Sessions, OpenCwd(s)
       PROVE  CountKept'
  <2>1. Counted' \subseteq Counted
    BY <1>2 DEF OpenCwd
  <2> QED
    BY <2>1, CountedShrinks
<1>3. ASSUME NEW s \in Sessions, Launch(s)
       PROVE  CountKept'
  <2>1. Counted' \subseteq Counted
    BY <1>3 DEF Launch, LaunchOnWindows, OnWindows
  <2> QED
    BY <2>1, CountedShrinks
<1>4. ASSUME NEW s \in Sessions, LaunchFails(s)
       PROVE  CountKept'
  <2>1. Counted' \subseteq Counted
    BY <1>4 DEF LaunchFails, Fail
  <2> QED
    BY <2>1, CountedShrinks
<1>5. ASSUME NEW s \in Sessions, ProviderReady(s)
       PROVE  CountKept'
  <2>1. Counted' \subseteq Counted
    BY <1>5 DEF ProviderReady, LateHandle
  <2> QED
    BY <2>1, CountedShrinks
<1>6. ASSUME NEW s \in Sessions, ProviderFails(s)
       PROVE  CountKept'
  <2>1. Counted' \subseteq Counted
    BY <1>6 DEF ProviderFails, OnExit, Finish
  <2> QED
    BY <2>1, CountedShrinks
<1>7. ASSUME NEW s \in Sessions, ProviderTimeout(s)
       PROVE  CountKept'
  <2>1. Counted' \subseteq Counted
    BY <1>7 DEF ProviderTimeout, OnExit, Finish
  <2> QED
    BY <2>1, CountedShrinks
<1>8. ASSUME NEW s \in Sessions, Output(s)
       PROVE  CountKept'
  <2>1. Counted' \subseteq Counted
    BY <1>8 DEF Output, Finish, CancelRuntime, Signalled, Terminated, KilledTree,
       Aborted, Printing
  <2> QED
    BY <2>1, CountedShrinks
<1>9. ASSUME NEW s \in Sessions, Timeout(s)
       PROVE  CountKept'
  <2>1. Counted' \subseteq Counted
    BY <1>9 DEF Timeout, Finish, CancelRuntime, Signalled, Terminated, KilledTree, Aborted
  <2> QED
    BY <2>1, CountedShrinks
<1>10. ASSUME NEW s \in Sessions, Cancel(s)
        PROVE  CountKept'
  <2>1. Counted' \subseteq Counted
    BY <1>10 DEF Cancel, Finish, Signalled, Terminated, KilledTree, Aborted
  <2> QED
    BY <2>1, CountedShrinks
<1>11. ASSUME NEW s \in Sessions, CancelReturns(s)
        PROVE  CountKept'
  <2>1. Counted' \subseteq Counted
    BY <1>11 DEF CancelReturns, Finish
  <2> QED
    BY <2>1, CountedShrinks
<1>12. ASSUME NEW s \in Sessions, Persist(s)
        PROVE  CountKept'
  <2>1. Counted' \subseteq Counted
    BY <1>12 DEF Persist
  <2> QED
    BY <2>1, CountedShrinks
<1>13. ASSUME NEW s \in Sessions, PersistFails(s)
        PROVE  CountKept'
  <2>1. Counted' \subseteq Counted
    BY <1>13 DEF PersistFails, Fail, CancelRuntime, Signalled, Terminated, KilledTree,
       Aborted
  <2> QED
    BY <2>1, CountedShrinks
<1>14. ASSUME NEW s \in Sessions, Write(s)
        PROVE  CountKept'
  <2>1. Counted' \subseteq Counted
    BY <1>14 DEF Write, OnExit, Finish, OnWindows
  <2> QED
    BY <2>1, CountedShrinks
<1>15. ASSUME NEW s \in Sessions, Forward(s)
        PROVE  CountKept'
  <2>1. Counted' \subseteq Counted
    BY <1>15 DEF Forward
  <2> QED
    BY <2>1, CountedShrinks
<1>16. ASSUME NEW s \in Sessions, Exit(s)
        PROVE  CountKept'
  <2>1. Counted' \subseteq Counted
    BY <1>16 DEF Exit, Reported, OnExit, Finish, OnWindows
  <2> QED
    BY <2>1, CountedShrinks
<1>17. ASSUME NEW s \in Sessions, HelperStarts(s)
        PROVE  CountKept'
  <2>1. Counted' \subseteq Counted
    BY <1>17 DEF HelperStarts, Becomes, OnWindows
  <2> QED
    BY <2>1, CountedShrinks
<1>18. ASSUME NEW s \in Sessions, ChildEnds(s)
        PROVE  CountKept'
  <2>1. Counted' \subseteq Counted
    BY <1>18 DEF ChildEnds, Becomes, OnWindows
  <2> QED
    BY <2>1, CountedShrinks
<1>19. ASSUME NEW s \in Sessions, HelperExits(s)
        PROVE  CountKept'
  <2>1. Counted' \subseteq Counted
    BY <1>19 DEF HelperExits, Becomes, OnWindows
  <2> QED
    BY <2>1, CountedShrinks
<1>20. ASSUME NEW s \in Sessions, HelperCloses(s)
        PROVE  CountKept'
  <2>1. Counted' \subseteq Counted
    BY <1>20 DEF HelperCloses, Reported, OnExit, Finish
  <2> QED
    BY <2>1, CountedShrinks
<1>21. CASE Crash
  <2>1. Counted' \subseteq Counted
    BY <1>21 DEF Crash, Always, Fail
  <2> QED
    BY <2>1, CountedShrinks
<1>22. CASE Restore
  <2>1. Running' = {} /\ UNCHANGED creating
    BY <1>22 DEF Restore, Restored
  <2>2. Counted' \subseteq Counted
    BY <2>1
  <2> QED
    BY <2>2, CountedShrinks
<1>23. CASE Close
  <2>1. Counted' \subseteq Counted
    BY <1>23 DEF Close
  <2> QED
    BY <2>1, CountedShrinks
<1>24. CASE CloseProceeds
  <2>1. Counted' \subseteq Counted
    BY <1>24 DEF CloseProceeds
  <2> QED
    BY <2>1, CountedShrinks
<1>25. CASE UNCHANGED vars
  <2>1. Counted' \subseteq Counted
    BY <1>25 DEF vars
  <2> QED
    BY <2>1, CountedShrinks
<1>26. ASSUME NEW s \in Sessions, CommandExits(s)
        PROVE  CountKept'
  <2>1. Counted' \subseteq Counted
    BY <1>26 DEF CommandExits, Reported, OnExit, Finish
  <2> QED
    BY <2>1, CountedShrinks
<1>27. ASSUME NEW s \in Sessions, CommandTimeout(s)
        PROVE  CountKept'
  <2>1. Counted' \subseteq Counted
    BY <1>27 DEF CommandTimeout, OnExit, Finish
  <2> QED
    BY <2>1, CountedShrinks
<1>28. ASSUME NEW s \in Sessions, Leaves(s)
        PROVE  CountKept'
  <2>1. Counted' \subseteq Counted
    BY <1>28 DEF Leaves, Reported, OnExit, Finish
  <2> QED
    BY <2>1, CountedShrinks
<1>29. ASSUME NEW s \in Sessions, ToldEnds(s)
        PROVE  CountKept'
  <2>1. Counted' \subseteq Counted
    BY <1>29 DEF ToldEnds, Becomes
  <2> QED
    BY <2>1, CountedShrinks
<1> QED
  BY <1>1, <1>2, <1>3, <1>4, <1>5, <1>6, <1>7, <1>8, <1>9, <1>10, <1>11, <1>12, <1>13,
  <1>14, <1>15, <1>16, <1>17, <1>18, <1>19, <1>20, <1>21, <1>22, <1>23, <1>24, <1>25,
  <1>26, <1>27, <1>28, <1>29 DEF Next

\* IInv is an inductive invariant of the specification.
THEOREM Invariance == Spec => []IInv
<1>1. ASSUME IInv, [Next]_vars
      PROVE  IInv'
  BY <1>1, TypeStep, DiskStep, ProcessStep, OrphanStep, CountStep DEF IInv
<1> QED
  BY InitIInv, <1>1, PTL DEF Spec

\* Every variable keeps its type.
THEOREM TypeCorrect == Spec => []TypeOK
<1>1. IInv => TypeOK
  BY DEF IInv
<1> QED
  BY Invariance, <1>1, PTL

\* A process that a provider has spawned runs on only for a session that runs
\* and holds its handle.
THEOREM NoOrphanTheorem == Spec => []NoOrphan
<1>1. IInv => NoOrphan
  BY DEF IInv
<1> QED
  BY Invariance, <1>1, PTL

\* No more sessions run than the manager allows, however creations overlap.
THEOREM LimitHoldsTheorem == Spec => []LimitHolds
<1>1. ASSUME IInv
      PROVE  LimitHolds
  <2>1. Running \subseteq Counted
    BY DEF Counted
  <2>2. Cardinality(Running) <= Cardinality(Counted)
    BY <2>1, CountedIsFinite, FS_Subset
  <2>3. Cardinality(Running) \in Nat /\ Cardinality(Counted) \in Nat
    BY CountedIsFinite, FS_CardinalityType
  <2> QED
    BY <1>1, <2>2, <2>3, ConstantsAssumption
    DEF IInv, CountKept, LimitHolds, ConstantsAssumption
<1> QED
  BY Invariance, <1>1, PTL

=============================================================================
