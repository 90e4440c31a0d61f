SPECIFICATION FairSpec
CONSTANTS
  s1 = s1
  s2 = s2
  t1 = t1
  t2 = t2
  t3 = t3
  Sessions <- MCOneSession
  Turns <- MCTurns
  Reviews <- MCReviews
  Resolves <- MCResolves
  MaxCrashes = 1
  MaxFaults = 1
  None = None
INVARIANTS RunningIsTrue InterruptionIsOnDisk AnswerIsStored
PROPERTIES CancelledIsSilent BecomesFree
CHECK_DEADLOCK FALSE
