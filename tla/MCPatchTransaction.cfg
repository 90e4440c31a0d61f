SPECIFICATION FairSpec
CONSTANTS
  t1 = t1
  f1 = f1
  f2 = f2
  c0 = c0
  c1 = c1
  x = x
  None = None
  Txs <- MCTxs
  Files <- MCFiles
  Hashed <- MCHashed
  Contents <- MCContents
  Targets <- MCTargets
  Patched <- MCPatched
  Edited <- MCEdited
  Initial = c0
  MaxEdits = 2
  Faults = TRUE
  VerifyFaults = TRUE
INVARIANT RollbackStaysPossible
PROPERTIES
  RolledBackIsUntouched
  ActsAtomically
  OperationEnds
CHECK_DEADLOCK FALSE
