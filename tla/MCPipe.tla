------------------------------- MODULE MCPipe -------------------------------
(* Pipe on small instances. *)
EXTENDS PipeProps, TLC

CONSTANTS a, b

(* A write is longer than a pipe of two bytes. *)
Writes == {<<a, b, a>>}

(* The processes but for the first are interchangeable. *)
ProcessesAlike == Permutations(Process \ {initproc})
=============================================================================
