---------------------------- MODULE MfsDiskProps ----------------------------
(***************************************************************************)
(* What the server of MfsDisk promises.                                    *)
(***************************************************************************)
EXTENDS MfsDisk

Live == {i \in Inum : Exists(i)}

MapAddrs   == {cr.imap_p[k] : k \in 0 .. MAX_IMAPS - 1} \ {0}
InodeAddrs == {InodeAddr(i) : i \in Live}
BlockAddrs == UNION {{InodeOf(i).dp[b] : b \in Offset} : i \in Live} \ {0}

(* Each pointer on the disk leads below log_end, to a block of the kind it *)
(* is a pointer to: what the next operation appends overwrites nothing that*)
(* can be reached, whatever crash came before (helper.c:355, :670, :971).  *)
ReachableIsLogged ==
    /\ \A a \in MapAddrs : a < cr.log_end /\ disk[a] \in Imap
    /\ \A a \in InodeAddrs : a < cr.log_end /\ disk[a] \in Inode
    /\ \A i \in Live, b \in Offset : InodeOf(i).dp[b] # 0 =>
         /\ InodeOf(i).dp[b] < cr.log_end
         /\ disk[InodeOf(i).dp[b]] \in IF IsDir(i) THEN DirBlock ELSE DataBlock

(* No block has two owners: inodes and data blocks belong to one inode     *)
(* number, though every operation copies inodes and pieces of the map.     *)
OneOwner ==
    \A i, j \in Live : i # j =>
        /\ InodeAddr(i) # InodeAddr(j)
        /\ \A b, c \in Offset : InodeOf(i).dp[b] = InodeOf(j).dp[c] => InodeOf(i).dp[b] = 0

Entries(i) == {EntryAt(i, k) : k \in Used(i)}
Sons(i) == {e.inum : e \in {f \in Entries(i) : f.name \notin {Dot, DotDot}}}

(* The directories make a tree: each entry leads to an inode that exists,  *)
(* each inode but the root's is in one directory under one name, . is the  *)
(* directory itself and .. the one it is in (dirs.py:42, dirs.py:45), and  *)
(* no directory is below itself.  It is so as long as NoNameSpelled is: a  *)
(* request to unlink a name that the checkpoint region spells removes an   *)
(* inode, the root's too, and leaves its entries (Misled).                 *)
DirectoriesMakeATree ==
    /\ \A d \in Live : IsDir(d) =>
         /\ Sons(d) \subseteq Live \ {0, d}
         /\ [name |-> Dot, inum |-> d] \in Entries(d)
         /\ \A s \in Sons(d) : IsDir(s) => [name |-> DotDot, inum |-> d] \in Entries(s)
         /\ \A k, l \in Used(d) :
              EntryAt(d, k).name = EntryAt(d, l).name \/
              (EntryAt(d, k).inum = EntryAt(d, l).inum /\ EntryAt(d, k).inum \in Sons(d)) => k = l
    /\ \A i \in Live \ {0} : \E d \in Live : IsDir(d) /\ i \in Sons(d) /\
          \A e \in Live : IsDir(e) /\ i \in Sons(e) => e = d
    /\ \A S \in (SUBSET Live) \ {{}} : \E i \in S : \A d \in S : IsDir(d) => i \notin Sons(d)

-----------------------------------------------------------------------------
(* What can be at a node of the tree; None is where nothing is.            *)
Node ==
         [type : {"dir"}, entries : SUBSET [name : Name \cup {Dot, DotDot, None}, inum : Inum \cup {-1}]]
    \cup [type : {"file"}, blocks : [Offset -> Data \cup {None}]]

ASSUME NodeAssumption == None \notin Node

(* The tree on the disk. *)
Tree ==
    [i \in Inum |->
        CASE ~Exists(i) -> None
          [] Exists(i) /\ IsDir(i) -> [type |-> "dir", entries |-> Entries(i)]
          [] Exists(i) /\ ~IsDir(i) ->
               [type |-> "file",
                blocks |-> [b \in Offset |-> IF InodeOf(i).dp[b] = 0
                                             THEN None
                                             ELSE disk[InodeOf(i).dp[b]].data]]]

Service == INSTANCE MfsTree WITH
    Block <- Offset,
    DirCapacity <- MAX_DIRECT_P * MAX_DIR_ENTRIES,
    tree <- Tree

(* The server implements the tree: every request takes effect at once and  *)
(* as a whole, or not at all when the server is killed; a success that was *)
(* answered survives; and every reply says what is in the tree.  This too  *)
(* is so as long as NoNameSpelled is: else a lookup answers with imap_p[14]*)
(* for a name that is in no directory.                                     *)
ImplementsTree == Service!Spec
=============================================================================
