SPECIFICATION FairSpec
CONSTANTS
  pty = pty
  command = command
  Sessions <- MCSessions
  Provided <- MCProvided
  MaxSessions = 1
  MaxOutput = 1
  MaxFailures = 1
  None = None
INVARIANTS NoOrphan LimitHolds
PROPERTIES SessionEnds
CHECK_DEADLOCK FALSE
