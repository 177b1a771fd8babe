------------------------------- MODULE MCProc -------------------------------
(* Proc on small instances. *)
EXTENDS ProcProps
=============================================================================
