------------------------------- MODULE MCPipe -------------------------------
(***************************************************************************)
(* Instances of Pipe: the threads are interchangeable.                     *)
(***************************************************************************)
EXTENDS Pipe, TLC

PipeSymmetry == Permutations(Threads)
=============================================================================
