----------------------------- MODULE MesgQueue -----------------------------
(***************************************************************************)
(* What a message queue promises to those who use it: messages come out in *)
(* the order in which they went in, except that a jammed one comes out     *)
(* next, and there are never more than Capacity of them.                   *)
(***************************************************************************)
EXTENDS Naturals, Sequences

CONSTANTS Messages, Capacity

VARIABLE queue

Init == queue = <<>>

Send(m) == Len(queue) < Capacity /\ queue' = Append(queue, m)
Jam(m)  == Len(queue) < Capacity /\ queue' = <<m>> \o queue
Receive == queue # <<>> /\ queue' = Tail(queue)

Next == Receive \/ \E m \in Messages : Send(m) \/ Jam(m)

Spec == Init /\ [][Next]_queue
=============================================================================
