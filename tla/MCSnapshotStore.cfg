SPECIFICATION StoreFairSpec
CONSTANTS
  p1 = p1
  p2 = p2
  p3 = p3
  v1 = v1
  v2 = v2
  Procs <- MCProcs
  Versions <- MCVersions
  MaxCrashes = 1
  Faulty <- MCFaulty
  None = None
PROPERTIES Implements LockRemoved
