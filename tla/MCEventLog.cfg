SPECIFICATION FairSpec
CONSTANTS
  panel = panel
  poller = poller
  Panels <- MCPanels
  Pollers <- MCPollers
  Retention = 2
  PageLimit = 1
  MaxEvents = 4
  MaxFailures = 3
INVARIANTS ShownIsStored CursorCoversHistory
PROPERTY PanelCatchesUp
CHECK_DEADLOCK FALSE
