SPECIFICATION FairSpec
CONSTANTS
  i1 = i1
  i2 = i2
  p1 = p1
  p2 = p2
  Ids <- MCIds
  Procs <- MCProcs
  Faulty <- MCFaulty
  MaxCrashes = 2
  None = None
INVARIANT RunsOnce
PROPERTIES StartsClaimed ClaimSettles
CHECK_DEADLOCK FALSE
