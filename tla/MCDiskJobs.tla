----------------------------- MODULE MCDiskJobs -----------------------------
(* Small instances of the service thread of the Expansion Kit.             *)
EXTENDS DiskJobs

CONSTANTS load, saveA, saveB, menu
=============================================================================
