------------------------- MODULE MCTerminalSession -------------------------
(***************************************************************************)
(* An instance of TerminalSession for TLC: a session with a PTY, of either *)
(* platform, and a controlled command, of which one may run at a time.     *)
(***************************************************************************)
EXTENDS TerminalSession

CONSTANTS pty, command

MCSessions == {pty, command}
MCProvided == {pty}
=============================================================================
