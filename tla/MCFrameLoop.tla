---------------------------- MODULE MCFrameLoop ----------------------------
(* FrameLoop for TLC: MaxFrames is large enough for every index of a buffer *)
(* to come round again in both modes, and between them.                     *)
EXTENDS FrameLoop
=============================================================================
