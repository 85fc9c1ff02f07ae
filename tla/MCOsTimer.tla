------------------------------ MODULE MCOsTimer ------------------------------
(* Small instances of the timers.                                          *)
EXTENDS OsTimer

CONSTANTS a, b, c
=============================================================================
