---------------------------- MODULE MCPiManager ----------------------------
(* Clients for the runs of PiManager.                                      *)
EXTENDS PiManager

CONSTANTS game, load, audio, leo, raw
=============================================================================
