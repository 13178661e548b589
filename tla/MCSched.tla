------------------------------ MODULE MCSched -------------------------------
(***************************************************************************)
(* A kernel main thread, init, and one process of two threads.             *)
(***************************************************************************)
EXTENDS Sched

KM == 2     \* kernel main thread
IM == 1     \* init
AM == 3     \* main thread of process A
AT == 4     \* second thread of process A

MCProcOf == [t \in Threads \cup {Idle} |->
               CASE t \in {KM, Idle} -> "kernel" [] t = IM -> "init" [] OTHER -> "a"]
MCMainOf == [p \in {"init", "a"} |-> IF p = "init" THEN IM ELSE AM]
=============================================================================
