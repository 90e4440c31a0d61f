SPECIFICATION LspSpec
CONSTANTS
  MaxSpawns = 2
  MaxCalls = 3
  MaxVersion = 1
  MaxDocument = 9
  Texts <- MCTexts
  Changes <- MCChanges
  Items <- MCItems
  Edits <- MCEdits
  MaxCallsAtEdit = 1
  InRoot <- MCInRoot
  NoVersion = NoVersion
  Invalid = Invalid
INVARIANTS InSync CallsMatch ProposalIsExact
CHECK_DEADLOCK FALSE
