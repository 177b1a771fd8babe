----------------------------- MODULE MCBlockIO -----------------------------
(* BlockIO on small instances. *)
EXTENDS BlockIOProps
=============================================================================
