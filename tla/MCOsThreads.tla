---------------------------- MODULE MCOsThreads ----------------------------
(* OsThreads for TLC: the idle thread, two threads of equal priority and a  *)
(* more urgent one.                                                         *)
EXTENDS OsThreads

MCPri == [t \in AllThreads |->
            CASE t = "idle" -> 0 [] t \in {"a", "b"} -> 1 [] t = "c" -> 2]
MCTwo  == [q \in Queues |-> 2]
=============================================================================
