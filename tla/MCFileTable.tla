---------------------------- MODULE MCFileTable ----------------------------
(* FileTable on small instances. *)
EXTENDS FileTableProps

(* Files, pages and the processes but for the first are interchangeable.   *)
Symmetric == Permutations(File) \cup Permutations(Page) \cup Permutations(Process \ {initproc})
=============================================================================
