----------------------------- MODULE MCRcpSched -----------------------------
(* RcpSched for TLC.  MaxPendingVi bounds the retraces that may wait while *)
(* the main thread has not handled them.                                   *)
EXTENDS RcpSched
=============================================================================
