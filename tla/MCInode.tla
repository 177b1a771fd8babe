------------------------------ MODULE MCInode ------------------------------
(* An instance of Inode for TLC.                                           *)
EXTENDS InodeProps, TLC

CONSTANTS a, b

Absolute(names) == [absolute |-> TRUE, names |-> names]
Relative(names) == [absolute |-> FALSE, names |-> names]

SomePaths == {Relative(<<a>>), Absolute(<<a, a>>)}
Symmetry  == Permutations(Process)
=============================================================================
