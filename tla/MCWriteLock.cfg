SPECIFICATION LockFairSpec
CONSTANTS
  w1 = w1
  w2 = w2
  w3 = w3
  p1 = p1
  p2 = p2
  NoLock = NoLock
  Workers <- MCWorkers
  Procs <- MCProcs
  Proc <- MCProc
  Faulty = {w2}
  MaxEpoch = 2
  PidReuse = TRUE
INVARIANT Exclusion
PROPERTY LiveLockReleased
