------------------------------ MODULE MCMfsDisk ------------------------------
(* MfsDisk on small instances.  No two names differ in what the server does *)
(* with them, and every property checked treats them alike.                 *)
EXTENDS MfsDiskProps, TLC

NamesAlike == Permutations(Name)

(* The entries of a checkpoint region are in use, as those with imap_p[14] *)
(* = 0 for an inum, under names that no client gives.                      *)
OtherNames(c) ==
    [entry |-> [e \in 0 .. MAX_DIR_ENTRIES - 1 |-> [name |-> None, inum |-> 0]]]
=============================================================================
