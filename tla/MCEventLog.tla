----------------------------- MODULE MCEventLog -----------------------------
(***************************************************************************)
(* An instance of EventLog for TLC: one panel and one poller, four events  *)
(* of which two are kept, pages of one.                                    *)
(***************************************************************************)
EXTENDS EventLog

CONSTANTS panel, poller

MCPanels == {panel}
MCPollers == {poller}
=============================================================================
