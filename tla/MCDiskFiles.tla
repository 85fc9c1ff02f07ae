----------------------------- MODULE MCDiskFiles -----------------------------
(* DiskFiles for TLC: two disks of the game and two files.                 *)
EXTENDS DiskFiles

CONSTANTS d1, d2, f1, f2
=============================================================================
