SPECIFICATION Spec
CONSTANTS
  r1 = r1
  r2 = r2
  Requests <- MCRequests
  MaxSessionIds = 2
  MaxSessions = 1
  MaxIds = 1
  MaxReplay = 1
  MaxEvents = 2
  MaxFaults = 2
  None = None
INVARIANTS ToolRunsOnce FramesInOrder
PROPERTIES LiveSessionKept TombstoneStays
SYMMETRY MCSymmetry
CHECK_DEADLOCK FALSE
