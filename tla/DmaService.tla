----------------------------- MODULE DmaService -----------------------------
(***************************************************************************)
(* What a thread may rely on that copies from the cartridge and waits      *)
(* (Dma_RomCopy, Sram_ReadWrite): the data has been moved when the wait    *)
(* returns, and the wait returns in the end.                               *)
(***************************************************************************)
CONSTANT User

VARIABLE copy    \* "none", "asked", or "moved": the data is where it belongs

Init == copy = [u \in User |-> "none"]

Ask(u)    == copy[u] = "none"  /\ copy' = [copy EXCEPT ![u] = "asked"]
Move(u)   == copy[u] = "asked" /\ copy' = [copy EXCEPT ![u] = "moved"]
Return(u) == copy[u] = "moved" /\ copy' = [copy EXCEPT ![u] = "none"]

Next == \E u \in User : Ask(u) \/ Move(u) \/ Return(u)

Spec == Init /\ [][Next]_copy

FairSpec == Spec /\ \A u \in User : WF_copy(Move(u)) /\ WF_copy(Return(u))
=============================================================================
