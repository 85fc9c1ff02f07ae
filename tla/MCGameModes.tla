---------------------------- MODULE MCGameModes ----------------------------
(* GameModes for TLC.                                                      *)
EXTENDS GameModes
=============================================================================
