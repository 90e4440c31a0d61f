--------------------------- MODULE MCBridgeTunnel ---------------------------
(***************************************************************************)
(* An instance of BridgeTunnel for TLC.  Its one constant is given in the  *)
(* configuration.                                                          *)
(***************************************************************************)
EXTENDS BridgeTunnel
=============================================================================
