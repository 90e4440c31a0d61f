SPECIFICATION LedgerFairSpec
CONSTANTS
  c1 = c1
  c2 = c2
  c3 = c3
  a1 = a1
  a2 = a2
  h1 = h1
  Calls <- MCCalls
  Actions <- MCActions
  Hashes <- MCHashes
  HashOf <- MCHashOf
  Faulty <- MCFaulty
  None = None
INVARIANTS SpawnedOnce AnswerIsRecorded
PROPERTY CallEnds
CHECK_DEADLOCK FALSE
