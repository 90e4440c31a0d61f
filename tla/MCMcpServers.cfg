SPECIFICATION Spec
CONSTANTS
  p1 = p1
  p2 = p2
  r1 = r1
  r2 = r2
  i1 = i1
  i2 = i2
  Launches = {1, 2}
  Proposed <- MCProposed
  Proposals <- MCProposals
  Requests <- MCRequests
  Instances <- MCInstances
  Operations = {"register", "update", "authorize", "enable", "remove", "start", "stop", "call"}
  MaxFailures = 1
  None = None
INVARIANTS RunsItsConfig OthersToldToEnd RecordIsStored CallHasChild
SYMMETRY MCSymmetry
CHECK_DEADLOCK FALSE
