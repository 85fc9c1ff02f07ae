---------------------------- MODULE FrameService ----------------------------
(***************************************************************************)
(* What the game thread may rely on when it hands a frame to the scheduler *)
(* (Gfx_SetTask, and the wait for the message of the RDP in the next       *)
(* frame): a frame that is set is drawn once, drawing is never reported    *)
(* for a frame that was not set, and it is reported in the end.            *)
(***************************************************************************)
VARIABLE frame    \* "none", "set" (the RCP has it) or "drawn" (and reported)

Init == frame = "none"

Set     == frame = "none"  /\ frame' = "set"
Draw    == frame = "set"   /\ frame' = "drawn"
Collect == frame = "drawn" /\ frame' = "none"

Next == Set \/ Draw \/ Collect

Spec == Init /\ [][Next]_frame

FairSpec == Spec /\ WF_frame(Draw)
=============================================================================
