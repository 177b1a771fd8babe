--------------------------- MODULE MfsDiskProofs ---------------------------
(***************************************************************************)
(* Proofs that the image of the file server stays consistent, through any  *)
(* requests and crashes, and that the server implements the tree of        *)
(* MfsTree, for images, directories and files of any size, where no client *)
(* gives a name that the checkpoint region spells (NoNameSpelled).         *)
(***************************************************************************)
EXTENDS MfsDiskProps, Integers, SequencesExt, SequenceTheorems, FiniteSetTheorems, WellFoundedInduction, TLAPS

(* A set of natural numbers has a least one.                               *)
LEMMA LeastNatural ==
    ASSUME NEW S \in SUBSET Nat, S # {}
    PROVE  \E x \in S : \A y \in S : x <= y
<1> DEFINE Segments == {1 .. n : n \in S}
<1>1. Segments \subseteq FiniteSubsetsOf(Nat) /\ Segments # {}
  <2>1. \A n \in Nat : IsFiniteSet(1 .. n) /\ 1 .. n \in SUBSET Nat
    BY FS_Interval
  <2>2. QED
    BY <2>1 DEF FiniteSubsetsOf
<1>2. PICK X \in Segments : \A Y \in Segments : <<Y, X>> \notin StrictSubsetOrdering(Nat)
  <2>1. IsWellFoundedOn(StrictSubsetOrdering(Nat), FiniteSubsetsOf(Nat))
    BY FS_StrictSubsetOrderingWellFounded
  <2> HIDE DEF Segments
  <2>2. QED
    BY <1>1, <2>1, WFMin
<1>3. PICK x \in S : X = 1 .. x
  BY <1>2
<1>4. ASSUME NEW y \in S, ~(x <= y) PROVE FALSE
  <2>1. 1 .. y \subseteq 1 .. x /\ x \in 1 .. x /\ x \notin 1 .. y
    BY <1>4
  <2>2. <<1 .. y, 1 .. x>> \in StrictSubsetOrdering(Nat)
    BY <2>1 DEF StrictSubsetOrdering
  <2>3. QED
    BY <1>2, <1>3, <2>2
<1>5. QED
  BY <1>4


-----------------------------------------------------------------------------
(* Numbers: an inode and its place in the map, an entry and its block.     *)

LEMMA DivMod ==
    ASSUME NEW n \in Nat, NEW s \in Nat \ {0}
    PROVE  n \div s \in Nat /\ n % s \in 0 .. s - 1 /\ n = s * (n \div s) + (n % s)
<1>1. n \div s \in Nat
  OBVIOUS
<1>2. n % s \in 0 .. s - 1
  OBVIOUS
<1>3. n = s * (n \div s) + (n % s)
  OBVIOUS
<1>4. QED
  BY <1>1, <1>2, <1>3

USE DiskAssumption

LEMMA DivBound ==
    ASSUME NEW s \in Nat \ {0}, NEW m \in Nat, NEW n \in 0 .. m * s - 1
    PROVE  n \div s \in 0 .. m - 1 /\ n % s \in 0 .. s - 1
<1>1. n \div s \in Nat /\ n % s \in 0 .. s - 1 /\ n = s * (n \div s) + (n % s)
  <2>1. n \in Nat
    OBVIOUS
  <2>2. QED
    BY <2>1, DivMod, Zenon
<1>2. ASSUME NEW q \in Nat, NEW r \in Nat, s * q + r < m * s PROVE q < m
  BY <1>2
<1>3. QED
  BY <1>1, <1>2

LEMMA InumPlace ==
    ASSUME NEW i \in Inum
    PROVE  i \in Nat /\ Piece(i) \in 0 .. MAX_IMAPS - 1 /\ i % IMAP_SIZE \in 0 .. IMAP_SIZE - 1
<1>1. i \in 0 .. MAX_IMAPS * IMAP_SIZE - 1
  BY DEF Inum, MAX_INODES
<1>2. QED
  BY <1>1, DivBound DEF Piece

LEMMA InumIsPlace ==
    ASSUME NEW i \in Inum, NEW j \in Inum, Piece(i) = Piece(j), i % IMAP_SIZE = j % IMAP_SIZE
    PROVE  i = j
<1>1. i \in Nat /\ j \in Nat /\ i \div IMAP_SIZE = j \div IMAP_SIZE
  BY InumPlace DEF Piece
<1>2. i = IMAP_SIZE * (i \div IMAP_SIZE) + (i % IMAP_SIZE) /\ j = IMAP_SIZE * (j \div IMAP_SIZE) + (j % IMAP_SIZE)
  BY <1>1, DivMod
<1>3. QED
  BY <1>1, <1>2, Zenon

LEMMA PositionPlace ==
    ASSUME NEW k \in Position
    PROVE  k \in Nat /\ BlockOf(k) \in Offset /\ k % MAX_DIR_ENTRIES \in 0 .. MAX_DIR_ENTRIES - 1
<1>1. k \in 0 .. MAX_DIRECT_P * MAX_DIR_ENTRIES - 1 /\ k \in Nat
  BY DEF Position
<1>2. k \div MAX_DIR_ENTRIES \in 0 .. MAX_DIRECT_P - 1 /\ k % MAX_DIR_ENTRIES \in 0 .. MAX_DIR_ENTRIES - 1
  BY <1>1, DivBound
<1>3. QED
  BY <1>1, <1>2 DEF BlockOf, Offset

LEMMA PositionIsPlace ==
    ASSUME NEW k \in Position, NEW l \in Position, BlockOf(k) = BlockOf(l), k % MAX_DIR_ENTRIES = l % MAX_DIR_ENTRIES
    PROVE  k = l
<1>1. k \in Nat /\ l \in Nat /\ k \div MAX_DIR_ENTRIES = l \div MAX_DIR_ENTRIES
  BY PositionPlace DEF BlockOf
<1>2. /\ k = MAX_DIR_ENTRIES * (k \div MAX_DIR_ENTRIES) + (k % MAX_DIR_ENTRIES)
      /\ l = MAX_DIR_ENTRIES * (l \div MAX_DIR_ENTRIES) + (l % MAX_DIR_ENTRIES)
  BY <1>1, DivMod
<1>3. QED
  BY <1>1, <1>2, Zenon

(* The first two entries are in the first block.                           *)
LEMMA FirstPositions ==
    /\ 0 \in Position /\ BlockOf(0) = 0 /\ 0 % MAX_DIR_ENTRIES = 0
    /\ 1 \in Position /\ BlockOf(1) = 0 /\ 1 % MAX_DIR_ENTRIES = 1
    /\ 0 \in Offset
<1>1. MAX_DIR_ENTRIES \in Nat /\ MAX_DIR_ENTRIES >= 2 /\ MAX_DIRECT_P \in Nat /\ MAX_DIRECT_P >= 1
  OBVIOUS
<1>2. MAX_DIRECT_P * MAX_DIR_ENTRIES >= 2 /\ MAX_DIRECT_P * MAX_DIR_ENTRIES \in Nat
  BY <1>1
<1>3. ASSUME NEW n \in {0, 1} PROVE n \div MAX_DIR_ENTRIES = 0 /\ n % MAX_DIR_ENTRIES = n
  BY <1>1
<1>4. QED
  BY <1>1, <1>2, <1>3 DEF Position, BlockOf, Offset

-----------------------------------------------------------------------------
(* Images.  An image is what is on the disk, d, seen from a checkpoint     *)
(* region, c; the operators of MfsDisk for an image that need not be the   *)
(* one on the disk now.                                                    *)

MapAt(d, c, k)  == IF c.imap_p[k] = 0 THEN NoInodes ELSE d[c.imap_p[k]]
AddrAt(d, c, i) == MapAt(d, c, Piece(i)).inode_p[i % IMAP_SIZE]
NodeAt(d, c, i) == d[AddrAt(d, c, i)]

(* The blocks of an inode n, and what is in them.                          *)
Blocks(n)    == {b \in Offset : n.dp[b] # 0}
EntOf(d, n, k) == IF n.dp[BlockOf(k)] = 0 THEN NoEntry ELSE d[n.dp[BlockOf(k)]].entry[k % MAX_DIR_ENTRIES]
DatOf(d, n, b) == IF n.dp[b] = 0 THEN None ELSE d[n.dp[b]].data

LEMMA Views ==
    ASSUME NEW i \in Inum
    PROVE  /\ InodeAddr(i) = AddrAt(disk, cr, i)
           /\ InodeOf(i) = NodeAt(disk, cr, i)
           /\ Exists(i) <=> AddrAt(disk, cr, i) # 0
           /\ \A k \in Position : EntryAt(i, k) = EntOf(disk, NodeAt(disk, cr, i), k)
<1>1. InodeAddr(i) = AddrAt(disk, cr, i)
  BY DEF InodeAddr, MapOf, AddrAt, MapAt, Piece
<1>2. InodeOf(i) = NodeAt(disk, cr, i)
  BY <1>1 DEF InodeOf, NodeAt
<1>3. Exists(i) <=> AddrAt(disk, cr, i) # 0
  BY <1>1, InumPlace DEF Exists, Inum, MAX_INODES
<1>4. ASSUME NEW k \in Position PROVE EntryAt(i, k) = EntOf(disk, NodeAt(disk, cr, i), k)
  BY <1>2, PositionPlace DEF EntryAt, DirBlockAt, EntOf
<1>5. QED
  BY <1>1, <1>2, <1>3, <1>4

(* An inode n on the image d, whose log ends at e.                         *)
NodeOK(d, e, n) ==
    /\ n \in Inode /\ n.size = Cardinality(Blocks(n))
    /\ n.type = "dir" => n.dp[0] # 0
    /\ \A b \in Blocks(n) : n.dp[b] < e /\ d[n.dp[b]] \in IF n.type = "dir" THEN DirBlock ELSE DataBlock

(* Two inodes that have no block in common.                                *)
Apart(n, m) == \A a, b \in Offset : n.dp[a] = m.dp[b] => n.dp[a] = 0

ImageOK(d, c) ==
    /\ c \in CR
    /\ \A k \in 0 .. MAX_IMAPS - 1 : c.imap_p[k] # 0 => c.imap_p[k] < c.log_end /\ d[c.imap_p[k]] \in Imap
    /\ \A i \in Inum : AddrAt(d, c, i) # 0 => AddrAt(d, c, i) < c.log_end /\ NodeOK(d, c.log_end, NodeAt(d, c, i))
    /\ \A i, j \in Inum : i # j /\ AddrAt(d, c, i) # 0 /\ AddrAt(d, c, j) # 0 =>
         AddrAt(d, c, i) # AddrAt(d, c, j) /\ Apart(NodeAt(d, c, i), NodeAt(d, c, j))

LEMMA ImageTypes ==
    ASSUME NEW d, NEW c, ImageOK(d, c)
    PROVE  /\ c.log_end \in Nat /\ c.log_end >= 1 /\ c.log_end <= MaxLog + 1
           /\ \A k \in 0 .. MAX_IMAPS - 1 : c.imap_p[k] \in Addr \cup {0} /\ MapAt(d, c, k) \in Imap
           /\ \A i \in Inum : AddrAt(d, c, i) \in Addr \cup {0}
<1>1. /\ c.log_end \in 1 .. MaxLog + 1
      /\ \A k \in 0 .. MAX_IMAPS - 1 : c.imap_p[k] \in Addr \cup {0}
  BY DEF ImageOK, CR
<1>2. NoInodes \in Imap
  BY DEF NoInodes, Imap
<1>3. \A k \in 0 .. MAX_IMAPS - 1 : MapAt(d, c, k) \in Imap
  BY <1>1, <1>2 DEF ImageOK, MapAt
<1>4. ASSUME NEW i \in Inum PROVE AddrAt(d, c, i) \in Addr \cup {0}
  <2>1. MapAt(d, c, Piece(i)) \in Imap /\ i % IMAP_SIZE \in 0 .. IMAP_SIZE - 1
    BY <1>3, InumPlace
  <2>2. QED
    BY <2>1 DEF AddrAt, Imap
<1>5. QED
  BY <1>1, <1>3, <1>4

LEMMA NodeTypes ==
    ASSUME NEW d, NEW e, NEW n, NodeOK(d, e, n)
    PROVE  /\ n.type \in {"dir", "file"} /\ n.size \in 0 .. MAX_DIRECT_P
           /\ \A b \in Offset : n.dp[b] \in Addr \cup {0}
           /\ n.type = "dir" => \A k \in Position : EntOf(d, n, k).name \in Name \cup {Dot, DotDot, None}
                                                    /\ EntOf(d, n, k).inum \in Inum \cup {-1}
           /\ n.type = "file" => \A b \in Offset : DatOf(d, n, b) \in Data \cup {None} /\ (DatOf(d, n, b) # None <=> n.dp[b] # 0)
<1>1. /\ n.type \in {"dir", "file"} /\ n.size \in 0 .. MAX_DIRECT_P
      /\ \A b \in Offset : n.dp[b] \in Addr \cup {0}
  BY DEF NodeOK, Inode
<1>2. ASSUME n.type = "dir", NEW k \in Position
      PROVE  EntOf(d, n, k).name \in Name \cup {Dot, DotDot, None} /\ EntOf(d, n, k).inum \in Inum \cup {-1}
  <2>1. CASE n.dp[BlockOf(k)] = 0
    BY <2>1 DEF EntOf, NoEntry
  <2>2. CASE n.dp[BlockOf(k)] # 0
    <3>1. d[n.dp[BlockOf(k)]] \in DirBlock
      BY <1>2, <2>2, PositionPlace DEF NodeOK, Blocks
    <3>2. QED
      BY <2>2, <3>1, PositionPlace DEF EntOf, DirBlock
  <2>3. QED
    BY <2>1, <2>2
<1>3. ASSUME n.type = "file", NEW b \in Offset
      PROVE  DatOf(d, n, b) \in Data \cup {None} /\ (DatOf(d, n, b) # None <=> n.dp[b] # 0)
  BY <1>3 DEF NodeOK, Blocks, DatOf, DataBlock
<1>4. QED
  BY <1>1, <1>2, <1>3

(* What is written at the end of the log and beyond changes nothing.       *)
Agree(d, D, e) == \A a \in Addr : a < e => D[a] = d[a]

SameNode(d, c, D, C, i) ==
    /\ AddrAt(D, C, i) = AddrAt(d, c, i)
    /\ AddrAt(d, c, i) # 0 =>
         /\ NodeAt(D, C, i) = NodeAt(d, c, i)
         /\ \A k \in Position : EntOf(D, NodeAt(D, C, i), k) = EntOf(d, NodeAt(d, c, i), k)
         /\ \A b \in Offset : DatOf(D, NodeAt(D, C, i), b) = DatOf(d, NodeAt(d, c, i), b)

LEMMA NodeKept ==
    ASSUME NEW d, NEW D, NEW e, NEW E, Agree(d, D, e), e \in Nat, E \in Nat, e <= E, NEW n, NodeOK(d, e, n)
    PROVE  /\ NodeOK(D, E, n)
           /\ \A k \in Position : EntOf(D, n, k) = EntOf(d, n, k)
           /\ \A b \in Offset : DatOf(D, n, b) = DatOf(d, n, b)
<1>1. ASSUME NEW b \in Offset, n.dp[b] # 0 PROVE n.dp[b] \in Addr /\ n.dp[b] < e /\ D[n.dp[b]] = d[n.dp[b]]
  <2>1. n.dp[b] \in Addr
    BY <1>1, NodeTypes
  <2>2. n.dp[b] < e
    BY <1>1 DEF NodeOK, Blocks
  <2>3. QED
    BY <2>1, <2>2 DEF Agree
<1>2. NodeOK(D, E, n)
  <2>1. ASSUME NEW b \in Blocks(n)
        PROVE  n.dp[b] < E /\ D[n.dp[b]] \in IF n.type = "dir" THEN DirBlock ELSE DataBlock
    <3>1. n.dp[b] \in Addr /\ n.dp[b] < e /\ D[n.dp[b]] = d[n.dp[b]]
      BY <1>1 DEF Blocks
    <3>2. n.dp[b] < E
      BY <3>1 DEF Addr
    <3>3. QED
      BY <3>1, <3>2 DEF NodeOK
  <2>2. QED
    BY <2>1 DEF NodeOK
<1>3. ASSUME NEW k \in Position PROVE EntOf(D, n, k) = EntOf(d, n, k)
  BY <1>1, PositionPlace DEF EntOf
<1>4. QED
  BY <1>1, <1>2, <1>3 DEF DatOf

LEMMA SameAddr ==
    ASSUME NEW d, NEW c, ImageOK(d, c), NEW D, NEW C, Agree(d, D, c.log_end), NEW i \in Inum,
           AddrAt(D, C, i) = AddrAt(d, c, i)
    PROVE  SameNode(d, c, D, C, i)
<1>1. CASE AddrAt(d, c, i) # 0
  <2>1. AddrAt(d, c, i) \in Addr /\ AddrAt(d, c, i) < c.log_end /\ NodeOK(d, c.log_end, NodeAt(d, c, i)) /\ c.log_end \in Nat
    BY <1>1, ImageTypes DEF ImageOK
  <2>2. NodeAt(D, C, i) = NodeAt(d, c, i)
    BY <2>1 DEF NodeAt, Agree
  <2>3. QED
    BY <2>1, <2>2, NodeKept DEF SameNode
<1>2. QED
  BY <1>1 DEF SameNode

LEMMA SameMaps ==
    ASSUME NEW d, NEW c, ImageOK(d, c), NEW D, Agree(d, D, c.log_end)
    PROVE  /\ \A k \in 0 .. MAX_IMAPS - 1 : MapAt(D, c, k) = MapAt(d, c, k)
           /\ \A i \in Inum : SameNode(d, c, D, c, i)
<1>1. \A k \in 0 .. MAX_IMAPS - 1 : MapAt(D, c, k) = MapAt(d, c, k)
  BY ImageTypes DEF MapAt, Agree, ImageOK
<1>2. ASSUME NEW i \in Inum PROVE AddrAt(D, c, i) = AddrAt(d, c, i)
  BY <1>1, InumPlace DEF AddrAt
<1>3. QED
  BY <1>1, <1>2, SameAddr

(* A step from an image to the next one: each inode is where it was, or    *)
(* gone, or written anew with its old blocks and new ones.                 *)
Anew(d, c, D, C, i) ==
    LET a == AddrAt(D, C, i)
        n == NodeAt(D, C, i)
    IN
    /\ a >= c.log_end /\ a < C.log_end /\ NodeOK(D, C.log_end, n)
    /\ \A b \in Blocks(n) : n.dp[b] >= c.log_end \/ (AddrAt(d, c, i) # 0 /\ n.dp[b] = NodeAt(d, c, i).dp[b])

LEMMA NextImage ==
    ASSUME NEW d, NEW c, ImageOK(d, c), NEW D, NEW C, C \in CR, c.log_end <= C.log_end, Agree(d, D, c.log_end),
           \A k \in 0 .. MAX_IMAPS - 1 : C.imap_p[k] # 0 => C.imap_p[k] < C.log_end /\ D[C.imap_p[k]] \in Imap,
           \A i \in Inum : AddrAt(D, C, i) \in {0, AddrAt(d, c, i)} \/ Anew(d, c, D, C, i),
           \A i, j \in Inum : i # j /\ Anew(d, c, D, C, i) /\ Anew(d, c, D, C, j) =>
               /\ AddrAt(D, C, i) # AddrAt(D, C, j)
               /\ \A a, b \in Offset : NodeAt(D, C, i).dp[a] = NodeAt(D, C, j).dp[b] => NodeAt(D, C, i).dp[a] < c.log_end
    PROVE  ImageOK(D, C)
<1> DEFINE e == c.log_end
<1>0. e \in Nat /\ C.log_end \in Nat
  BY ImageTypes DEF CR
<1>1. ASSUME NEW i \in Inum, AddrAt(D, C, i) # 0, ~Anew(d, c, D, C, i)
      PROVE  /\ AddrAt(D, C, i) = AddrAt(d, c, i) /\ AddrAt(D, C, i) < e
             /\ NodeAt(D, C, i) = NodeAt(d, c, i) /\ NodeOK(d, e, NodeAt(d, c, i))
  <2>1. AddrAt(D, C, i) = AddrAt(d, c, i)
    BY <1>1
  <2>2. QED
    BY <1>1, <2>1, SameAddr DEF SameNode, ImageOK
<1>2. ASSUME NEW i \in Inum, AddrAt(D, C, i) # 0
      PROVE  AddrAt(D, C, i) < C.log_end /\ NodeOK(D, C.log_end, NodeAt(D, C, i))
  <2>1. CASE Anew(d, c, D, C, i)
    BY <2>1 DEF Anew
  <2>2. CASE ~Anew(d, c, D, C, i)
    <3>1. /\ AddrAt(D, C, i) = AddrAt(d, c, i) /\ AddrAt(D, C, i) < e
          /\ NodeAt(D, C, i) = NodeAt(d, c, i) /\ NodeOK(d, e, NodeAt(d, c, i))
      BY <1>1, <1>2, <2>2
    <3>2. NodeOK(D, C.log_end, NodeAt(d, c, i))
      BY <1>0, <3>1, NodeKept
    <3>3. AddrAt(d, c, i) \in Addr \cup {0}
      BY ImageTypes
    <3>4. QED
      BY <1>0, <3>1, <3>2, <3>3 DEF Addr
  <2>3. QED
    BY <2>1, <2>2
(* Where the blocks of an inode are: below e they are the old ones.        *)
<1>3. ASSUME NEW i \in Inum, AddrAt(D, C, i) # 0, NEW b \in Offset, NodeAt(D, C, i).dp[b] # 0
      PROVE  /\ NodeAt(D, C, i).dp[b] \in Addr
             /\ NodeAt(D, C, i).dp[b] < e => AddrAt(d, c, i) # 0 /\ NodeAt(D, C, i).dp[b] = NodeAt(d, c, i).dp[b]
             /\ NodeAt(D, C, i).dp[b] >= e => Anew(d, c, D, C, i)
  <2>1. NodeAt(D, C, i).dp[b] \in Addr
    BY <1>2, <1>3, NodeTypes
  <2>2. CASE Anew(d, c, D, C, i)
    <3>1. NodeAt(D, C, i).dp[b] >= e \/ (AddrAt(d, c, i) # 0 /\ NodeAt(D, C, i).dp[b] = NodeAt(d, c, i).dp[b])
      BY <1>3, <2>2 DEF Anew, Blocks
    <3>2. QED
      BY <1>0, <2>1, <2>2, <3>1 DEF Addr
  <2>3. CASE ~Anew(d, c, D, C, i)
    <3>1. /\ AddrAt(D, C, i) = AddrAt(d, c, i) /\ NodeAt(D, C, i) = NodeAt(d, c, i) /\ NodeOK(d, e, NodeAt(d, c, i))
      BY <1>1, <1>3, <2>3
    <3>2. NodeAt(D, C, i).dp[b] < e
      BY <1>3, <3>1 DEF NodeOK, Blocks
    <3>3. QED
      BY <1>0, <1>3, <2>1, <3>1, <3>2 DEF Addr
  <2>4. QED
    BY <2>2, <2>3
<1>4. ASSUME NEW i \in Inum, NEW j \in Inum, i # j, AddrAt(D, C, i) # 0, AddrAt(D, C, j) # 0
      PROVE  AddrAt(D, C, i) # AddrAt(D, C, j) /\ Apart(NodeAt(D, C, i), NodeAt(D, C, j))
  <2>1. AddrAt(D, C, i) # AddrAt(D, C, j)
    <3>1. CASE Anew(d, c, D, C, i) /\ Anew(d, c, D, C, j)
      BY <1>4, <3>1
    <3>2. CASE ~Anew(d, c, D, C, i) /\ ~Anew(d, c, D, C, j)
      BY <1>1, <1>4, <3>2 DEF ImageOK
    <3>3. ASSUME NEW x \in Inum, NEW y \in Inum, Anew(d, c, D, C, x), ~Anew(d, c, D, C, y), AddrAt(D, C, y) # 0
          PROVE  AddrAt(D, C, x) # AddrAt(D, C, y)
      <4>1. AddrAt(D, C, y) < e /\ AddrAt(D, C, y) \in Addr
        BY <1>1, <3>3, ImageTypes
      <4>2. QED
        BY <1>0, <3>3, <4>1 DEF Anew, Addr
    <3>4. QED
      BY <1>4, <3>1, <3>2, <3>3
  <2>2. ASSUME NEW a \in Offset, NEW b \in Offset, NodeAt(D, C, i).dp[a] = NodeAt(D, C, j).dp[b],
               NodeAt(D, C, i).dp[a] # 0
        PROVE  FALSE
    <3>1. NodeAt(D, C, i).dp[a] \in Addr
      BY <1>3, <1>4, <2>2
    <3>2. CASE NodeAt(D, C, i).dp[a] < e
      <4>1. /\ AddrAt(d, c, i) # 0 /\ NodeAt(D, C, i).dp[a] = NodeAt(d, c, i).dp[a]
            /\ AddrAt(d, c, j) # 0 /\ NodeAt(D, C, j).dp[b] = NodeAt(d, c, j).dp[b]
        BY <1>3, <1>4, <2>2, <3>2
      <4>2. Apart(NodeAt(d, c, i), NodeAt(d, c, j))
        BY <1>4, <4>1 DEF ImageOK
      <4>3. QED
        BY <2>2, <4>1, <4>2 DEF Apart
    <3>3. CASE NodeAt(D, C, i).dp[a] >= e
      <4>1. Anew(d, c, D, C, i) /\ Anew(d, c, D, C, j)
        BY <1>3, <1>4, <2>2, <3>3
      <4>2. NodeAt(D, C, i).dp[a] < e
        BY <1>4, <2>2, <4>1
      <4>3. QED
        BY <1>0, <3>1, <3>3, <4>2 DEF Addr
    <3>4. QED
      BY <1>0, <3>1, <3>2, <3>3 DEF Addr
  <2>3. QED
    BY <2>1, <2>2 DEF Apart
<1>5. QED
  BY <1>2, <1>4 DEF ImageOK

LEMMA OldIsOld ==
    ASSUME NEW d, NEW c, ImageOK(d, c), NEW D, NEW C, NEW j \in Inum, AddrAt(D, C, j) = AddrAt(d, c, j)
    PROVE  ~Anew(d, c, D, C, j)
<1>1. AddrAt(d, c, j) \in Addr \cup {0} /\ c.log_end \in Nat /\ c.log_end >= 1
  BY ImageTypes
<1>2. AddrAt(d, c, j) # 0 => AddrAt(d, c, j) < c.log_end
  BY DEF ImageOK
<1>3. QED
  BY <1>1, <1>2 DEF Anew, Addr

-----------------------------------------------------------------------------
(* What the operations write.  A piece of the map.                         *)

LEMMA SettingIs ==
    ASSUME NEW m \in Imap, NEW i \in Inum, NEW x \in Addr \cup {0}
    PROVE  /\ Setting(m, i, x) \in Imap
           /\ \A o \in 0 .. IMAP_SIZE - 1 : Setting(m, i, x).inode_p[o] = IF o = i % IMAP_SIZE THEN x ELSE m.inode_p[o]
<1>1. m.inode_p \in [0 .. IMAP_SIZE - 1 -> Addr \cup {0}] /\ m = [inode_p |-> m.inode_p]
  BY DEF Imap
<1>2. Setting(m, i, x) = [inode_p |-> [m.inode_p EXCEPT ![i % IMAP_SIZE] = x]]
  BY <1>1 DEF Setting
<1>3. i % IMAP_SIZE \in 0 .. IMAP_SIZE - 1
  BY InumPlace
<1>4. QED
  BY <1>1, <1>2, <1>3 DEF Imap

LEMMA OneSet ==
    ASSUME NEW d, NEW c, ImageOK(d, c), NEW D, NEW C, NEW i \in Inum, NEW x \in Addr \cup {0},
           \A k \in 0 .. MAX_IMAPS - 1 :
               MapAt(D, C, k) = IF k = Piece(i) THEN Setting(MapAt(d, c, k), i, x) ELSE MapAt(d, c, k)
    PROVE  \A h \in Inum : AddrAt(D, C, h) = IF h = i THEN x ELSE AddrAt(d, c, h)
<1> SUFFICES ASSUME NEW h \in Inum PROVE AddrAt(D, C, h) = IF h = i THEN x ELSE AddrAt(d, c, h)
  OBVIOUS
<1>1. Piece(h) \in 0 .. MAX_IMAPS - 1 /\ h % IMAP_SIZE \in 0 .. IMAP_SIZE - 1 /\ MapAt(d, c, Piece(h)) \in Imap
  BY InumPlace, ImageTypes
<1>2. CASE Piece(h) # Piece(i)
  BY <1>1, <1>2 DEF AddrAt
<1>3. CASE Piece(h) = Piece(i)
  <2>1. AddrAt(D, C, h) = IF h % IMAP_SIZE = i % IMAP_SIZE THEN x ELSE AddrAt(d, c, h)
    BY <1>1, <1>3, SettingIs DEF AddrAt
  <2>2. QED
    BY <1>3, <2>1, InumIsPlace
<1>4. QED
  BY <1>2, <1>3

(* The pieces of C are those of c and some at the addresses of S.          *)
PiecesOK(c, D, C, S) ==
    /\ C.imap_p \in [0 .. MAX_IMAPS - 1 -> Addr \cup {0}]
    /\ \A k \in 0 .. MAX_IMAPS - 1 : C.imap_p[k] # 0 =>
         (C.imap_p[k] \in S \/ C.imap_p[k] < c.log_end) /\ D[C.imap_p[k]] \in Imap

LEMMA PiecesBelow ==
    ASSUME NEW c, NEW D, NEW C, NEW S, PiecesOK(c, D, C, S), c.log_end \in Nat, C.log_end \in Nat,
           c.log_end <= C.log_end, \A s \in S : s < C.log_end
    PROVE  \A k \in 0 .. MAX_IMAPS - 1 : C.imap_p[k] # 0 => C.imap_p[k] < C.log_end /\ D[C.imap_p[k]] \in Imap
<1> SUFFICES ASSUME NEW k \in 0 .. MAX_IMAPS - 1, C.imap_p[k] # 0
             PROVE  C.imap_p[k] < C.log_end /\ D[C.imap_p[k]] \in Imap
  OBVIOUS
<1>1. C.imap_p[k] \in Addr /\ (C.imap_p[k] \in S \/ C.imap_p[k] < c.log_end) /\ D[C.imap_p[k]] \in Imap
  BY DEF PiecesOK
<1>2. C.imap_p[k] < C.log_end
  BY <1>1 DEF Addr
<1>3. QED
  BY <1>1, <1>2

(* One piece written, at u.                                                *)
OnePut(d, c, D, C, i, x, u) ==
    /\ ImageOK(d, c) /\ Agree(d, D, c.log_end)
    /\ i \in Inum /\ x \in Addr \cup {0} /\ u \in Addr /\ u >= c.log_end
    /\ D[u] = Setting(MapAt(d, c, Piece(i)), i, x)
    /\ C.imap_p = [c.imap_p EXCEPT ![Piece(i)] = u]

LEMMA OnePiece ==
    ASSUME NEW d, NEW c, NEW D, NEW C, NEW i, NEW x, NEW u, OnePut(d, c, D, C, i, x, u)
    PROVE  /\ \A h \in Inum : AddrAt(D, C, h) = IF h = i THEN x ELSE AddrAt(d, c, h)
           /\ PiecesOK(c, D, C, {u})
<1> /\ ImageOK(d, c) /\ Agree(d, D, c.log_end)
    /\ i \in Inum /\ x \in Addr \cup {0} /\ u \in Addr /\ u >= c.log_end
    /\ D[u] = Setting(MapAt(d, c, Piece(i)), i, x)
    /\ C.imap_p = [c.imap_p EXCEPT ![Piece(i)] = u]
  BY DEF OnePut
<1>1. Piece(i) \in 0 .. MAX_IMAPS - 1
  BY InumPlace
<1>2. c.imap_p \in [0 .. MAX_IMAPS - 1 -> Addr \cup {0}]
  BY DEF ImageOK, CR
<1>3. C.imap_p \in [0 .. MAX_IMAPS - 1 -> Addr \cup {0}] /\ C.imap_p[Piece(i)] = u
      /\ \A k \in 0 .. MAX_IMAPS - 1 : k # Piece(i) => C.imap_p[k] = c.imap_p[k]
  BY <1>1, <1>2
<1>4. D[u] \in Imap
  BY <1>1, SettingIs, ImageTypes
<1>5. ASSUME NEW k \in 0 .. MAX_IMAPS - 1, c.imap_p[k] # 0
      PROVE  c.imap_p[k] < c.log_end /\ D[c.imap_p[k]] = d[c.imap_p[k]] /\ D[c.imap_p[k]] \in Imap
  BY <1>5, ImageTypes DEF ImageOK, Agree
<1>6. \A k \in 0 .. MAX_IMAPS - 1 :
          MapAt(D, C, k) = IF k = Piece(i) THEN Setting(MapAt(d, c, k), i, x) ELSE MapAt(d, c, k)
  BY <1>3, <1>5 DEF MapAt, Addr
<1>7. \A h \in Inum : AddrAt(D, C, h) = IF h = i THEN x ELSE AddrAt(d, c, h)
  BY <1>6, OneSet
<1>8. QED
  BY <1>3, <1>4, <1>5, <1>7 DEF PiecesOK

(* Two, at u and at v: the second made from the first if it is the same.   *)
TwoPut(d, c, D, C, i, x, u, j, y, v) ==
    /\ ImageOK(d, c) /\ Agree(d, D, c.log_end)
    /\ i \in Inum /\ x \in Addr \cup {0} /\ u \in Addr /\ u >= c.log_end
    /\ j \in Inum /\ y \in Addr \cup {0} /\ v \in Addr /\ v >= c.log_end
    /\ D[u] = Setting(MapAt(d, c, Piece(i)), i, x)
    /\ D[v] = Setting(IF Piece(i) = Piece(j) THEN D[u] ELSE MapAt(d, c, Piece(j)), j, y)
    /\ C.imap_p = [c.imap_p EXCEPT ![Piece(i)] = u, ![Piece(j)] = v]

LEMMA TwoPieces ==
    ASSUME NEW d, NEW c, NEW D, NEW C, NEW i, NEW x, NEW u, NEW j, NEW y, NEW v,
           TwoPut(d, c, D, C, i, x, u, j, y, v)
    PROVE  /\ \A h \in Inum : AddrAt(D, C, h) = IF h = j THEN y ELSE IF h = i THEN x ELSE AddrAt(d, c, h)
           /\ PiecesOK(c, D, C, {u, v})
<1> /\ ImageOK(d, c) /\ Agree(d, D, c.log_end)
    /\ i \in Inum /\ x \in Addr \cup {0} /\ u \in Addr /\ u >= c.log_end
    /\ j \in Inum /\ y \in Addr \cup {0} /\ v \in Addr /\ v >= c.log_end
    /\ D[u] = Setting(MapAt(d, c, Piece(i)), i, x)
    /\ D[v] = Setting(IF Piece(i) = Piece(j) THEN D[u] ELSE MapAt(d, c, Piece(j)), j, y)
    /\ C.imap_p = [c.imap_p EXCEPT ![Piece(i)] = u, ![Piece(j)] = v]
  BY DEF TwoPut
<1>1. Piece(i) \in 0 .. MAX_IMAPS - 1 /\ Piece(j) \in 0 .. MAX_IMAPS - 1
  BY InumPlace
<1>2. c.imap_p \in [0 .. MAX_IMAPS - 1 -> Addr \cup {0}]
  BY DEF ImageOK, CR
<1>3. /\ C.imap_p \in [0 .. MAX_IMAPS - 1 -> Addr \cup {0}]
      /\ C.imap_p[Piece(j)] = v
      /\ Piece(i) # Piece(j) => C.imap_p[Piece(i)] = u
      /\ \A k \in 0 .. MAX_IMAPS - 1 : k \notin {Piece(i), Piece(j)} => C.imap_p[k] = c.imap_p[k]
  <2>1. \A S, T : \A f \in [S -> T], a \in S, b \in S, s \in T, t \in T :
          LET g == [f EXCEPT ![a] = s, ![b] = t] IN
          /\ g \in [S -> T] /\ g[b] = t /\ (a # b => g[a] = s)
          /\ \A k \in S : k \notin {a, b} => g[k] = f[k]
    BY ONLY TRUE
  <2> DEFINE S == 0 .. MAX_IMAPS - 1
             T == Addr \cup {0}
  <2>2. c.imap_p \in [S -> T] /\ Piece(i) \in S /\ Piece(j) \in S /\ u \in T /\ v \in T
    BY <1>1, <1>2
  <2> HIDE DEF S, T
  <2>3. /\ C.imap_p \in [S -> T] /\ C.imap_p[Piece(j)] = v
        /\ Piece(i) # Piece(j) => C.imap_p[Piece(i)] = u
        /\ \A k \in S : k \notin {Piece(i), Piece(j)} => C.imap_p[k] = c.imap_p[k]
    BY <2>1, <2>2
  <2>4. QED
    BY <2>3 DEF S, T
<1>4. /\ MapAt(d, c, Piece(i)) \in Imap /\ MapAt(d, c, Piece(j)) \in Imap /\ D[u] \in Imap /\ D[v] \in Imap
  BY <1>1, SettingIs, ImageTypes
<1>5. ASSUME NEW k \in 0 .. MAX_IMAPS - 1, c.imap_p[k] # 0
      PROVE  c.imap_p[k] < c.log_end /\ D[c.imap_p[k]] = d[c.imap_p[k]] /\ D[c.imap_p[k]] \in Imap
  BY <1>5, ImageTypes DEF ImageOK, Agree
<1>6. \A k \in 0 .. MAX_IMAPS - 1 :
          MapAt(D, C, k) = IF k = Piece(j) THEN D[v] ELSE IF k = Piece(i) THEN D[u] ELSE MapAt(d, c, k)
  BY <1>3, <1>5 DEF MapAt, Addr
<1>7. ASSUME NEW h \in Inum PROVE AddrAt(D, C, h) = IF h = j THEN y ELSE IF h = i THEN x ELSE AddrAt(d, c, h)
  <2> DEFINE o == h % IMAP_SIZE
  <2>1. Piece(h) \in 0 .. MAX_IMAPS - 1 /\ o \in 0 .. IMAP_SIZE - 1
    BY InumPlace
  <2>2. /\ D[u].inode_p[o] = IF o = i % IMAP_SIZE THEN x ELSE MapAt(d, c, Piece(i)).inode_p[o]
        /\ D[v].inode_p[o] = IF o = j % IMAP_SIZE THEN y
                             ELSE IF Piece(i) = Piece(j) THEN D[u].inode_p[o] ELSE MapAt(d, c, Piece(j)).inode_p[o]
    <3>1. ASSUME NEW m \in Imap, NEW g \in Inum, NEW z \in Addr \cup {0}
          PROVE  Setting(m, g, z).inode_p[o] = IF o = g % IMAP_SIZE THEN z ELSE m.inode_p[o]
      <4>1. \A q \in 0 .. IMAP_SIZE - 1 : Setting(m, g, z).inode_p[q] = IF q = g % IMAP_SIZE THEN z ELSE m.inode_p[q]
        BY SettingIs
      <4> HIDE DEF o
      <4>2. QED
        BY <2>1, <4>1
    <3> HIDE DEF o
    <3>2. D[u].inode_p[o] = IF o = i % IMAP_SIZE THEN x ELSE MapAt(d, c, Piece(i)).inode_p[o]
      BY <1>4, <3>1
    <3>3. D[v].inode_p[o] = IF o = j % IMAP_SIZE THEN y
                            ELSE IF Piece(i) = Piece(j) THEN D[u].inode_p[o] ELSE MapAt(d, c, Piece(j)).inode_p[o]
      <4>1. PICK m \in Imap : m = IF Piece(i) = Piece(j) THEN D[u] ELSE MapAt(d, c, Piece(j))
        BY <1>4
      <4>2. D[v].inode_p[o] = IF o = j % IMAP_SIZE THEN y ELSE m.inode_p[o]
        BY <3>1, <4>1
      <4>3. QED
        BY <4>1, <4>2
    <3>4. QED
      BY <3>2, <3>3
  <2>3. (h = i <=> Piece(h) = Piece(i) /\ o = i % IMAP_SIZE) /\ (h = j <=> Piece(h) = Piece(j) /\ o = j % IMAP_SIZE)
    BY InumIsPlace
  <2>4. AddrAt(D, C, h) = MapAt(D, C, Piece(h)).inode_p[o] /\ AddrAt(d, c, h) = MapAt(d, c, Piece(h)).inode_p[o]
    BY DEF AddrAt
  <2> HIDE DEF o
  <2>5. CASE Piece(h) = Piece(j)
    BY <1>6, <2>1, <2>2, <2>3, <2>4, <2>5
  <2>6. CASE Piece(h) = Piece(i) /\ Piece(h) # Piece(j)
    BY <1>6, <2>1, <2>2, <2>3, <2>4, <2>6
  <2>7. CASE Piece(h) # Piece(i) /\ Piece(h) # Piece(j)
    BY <1>6, <2>1, <2>3, <2>4, <2>7
  <2>8. QED
    BY <2>5, <2>6, <2>7
<1>8. ASSUME NEW k \in 0 .. MAX_IMAPS - 1, C.imap_p[k] # 0
      PROVE  (C.imap_p[k] \in {u, v} \/ C.imap_p[k] < c.log_end) /\ D[C.imap_p[k]] \in Imap
  <2>1. C.imap_p[k] \in {u, v, c.imap_p[k]}
    BY <1>3
  <2>2. QED
    BY <1>4, <1>5, <1>8, <2>1
<1>9. QED
  BY <1>3, <1>7, <1>8 DEF PiecesOK

(* An inode with another block at b.                                       *)
Rewritten(n, m, b, x) ==
    /\ m \in Inode /\ m.type = n.type /\ m.dp[b] = x /\ \A o \in Offset \ {b} : m.dp[o] = n.dp[o]
    /\ m.size = n.size + (IF n.dp[b] = 0 THEN 1 ELSE 0)

LEMMA FiniteOffset == IsFiniteSet(Offset) /\ Cardinality(Offset) = MAX_DIRECT_P
<1>1. MAX_DIRECT_P \in Nat /\ 0 \in Int /\ MAX_DIRECT_P - 1 \in Int /\ ~(0 > MAX_DIRECT_P - 1)
  OBVIOUS
<1>2. /\ IsFiniteSet(0 .. MAX_DIRECT_P - 1)
      /\ Cardinality(0 .. MAX_DIRECT_P - 1) = MAX_DIRECT_P - 1 - 0 + 1
  BY <1>1, FS_Interval
<1>3. QED
  BY <1>1, <1>2 DEF Offset

LEMMA FinitePosition == IsFiniteSet(Position) /\ Cardinality(Position) = MAX_DIRECT_P * MAX_DIR_ENTRIES
<1>1. PICK m \in Nat : m = MAX_DIRECT_P * MAX_DIR_ENTRIES /\ m >= 1
  BY FirstPositions DEF Position
<1>2. /\ 0 \in Int /\ m - 1 \in Int /\ ~(0 > m - 1)
  BY <1>1
<1>3. IsFiniteSet(0 .. m - 1) /\ Cardinality(0 .. m - 1) = m - 1 - 0 + 1
  BY <1>2, FS_Interval
<1>4. QED
  BY <1>1, <1>3 DEF Position

LEMMA BlocksMore ==
    ASSUME NEW d, NEW e, NEW n, NodeOK(d, e, n), NEW b \in Offset
    PROVE  /\ n.size + (IF n.dp[b] = 0 THEN 1 ELSE 0) \in 0 .. MAX_DIRECT_P
           /\ n.size + (IF n.dp[b] = 0 THEN 1 ELSE 0) = Cardinality(Blocks(n) \cup {b})
<1>1. Blocks(n) \in SUBSET Offset /\ Blocks(n) \cup {b} \in SUBSET Offset /\ (b \in Blocks(n) <=> n.dp[b] # 0)
  BY DEF Blocks
<1>2. /\ IsFiniteSet(Blocks(n)) /\ IsFiniteSet(Blocks(n) \cup {b})
      /\ Cardinality(Blocks(n) \cup {b}) <= MAX_DIRECT_P
  BY <1>1, FiniteOffset, FS_Subset
<1>3. Cardinality(Blocks(n)) \in Nat /\ Cardinality(Blocks(n) \cup {b}) \in Nat
  BY <1>2, FS_CardinalityType
<1>4. Cardinality(Blocks(n) \cup {b}) = IF b \in Blocks(n) THEN Cardinality(Blocks(n)) ELSE Cardinality(Blocks(n)) + 1
  BY <1>2, FS_AddElement
<1>5. n.size = Cardinality(Blocks(n))
  BY DEF NodeOK
<1>6. QED
  BY <1>1, <1>2, <1>3, <1>4, <1>5

LEMMA InodeWritten ==
    ASSUME NEW d, NEW e, NEW n, NodeOK(d, e, n), NEW b \in Offset, NEW x \in Addr, NEW m,
           \/ m = [n EXCEPT !.dp[b] = x, !.size = n.size + (IF n.dp[b] = 0 THEN 1 ELSE 0)]
           \/ n.dp[b] # 0 /\ m = [n EXCEPT !.dp[b] = x]
    PROVE  Rewritten(n, m, b, x)
<1> DEFINE s == n.size + (IF n.dp[b] = 0 THEN 1 ELSE 0)
<1>1. n \in Inode /\ n.size \in 0 .. MAX_DIRECT_P /\ n.dp \in [Offset -> Addr \cup {0}] /\ n.type \in {"dir", "file"}
      /\ n = [type |-> n.type, size |-> n.size, dp |-> n.dp]
  BY DEF NodeOK, Inode
<1>2. s \in 0 .. MAX_DIRECT_P
  BY BlocksMore
<1>3. n.dp[b] # 0 => s = n.size
  BY <1>1
<1>4. m = [type |-> n.type, size |-> s, dp |-> [n.dp EXCEPT ![b] = x]]
  <2> HIDE DEF s
  <2>1. CASE m = [n EXCEPT !.dp[b] = x, !.size = s]
    BY <1>1, <2>1
  <2>2. CASE n.dp[b] # 0 /\ m = [n EXCEPT !.dp[b] = x]
    BY <1>1, <1>3, <2>2
  <2>3. QED
    BY <2>1, <2>2 DEF s
<1>5. m.type = n.type /\ m.size = s /\ m.dp = [n.dp EXCEPT ![b] = x]
  BY <1>4
<1>6. m \in Inode
  BY <1>1, <1>2, <1>4 DEF Inode
<1>7. QED
  BY <1>1, <1>5, <1>6 DEF Rewritten

NodePut(d, e, n, D, E, m, b, x) ==
    /\ NodeOK(d, e, n) /\ Agree(d, D, e) /\ e \in Nat /\ e >= 1 /\ E \in Nat
    /\ b \in Offset /\ x \in Addr /\ e <= x /\ x < E /\ Rewritten(n, m, b, x)
    /\ D[x] \in IF n.type = "dir" THEN DirBlock ELSE DataBlock

LEMMA NodeRewritten ==
    ASSUME NEW d, NEW e, NEW n, NEW D, NEW E, NEW m, NEW b, NEW x, NodePut(d, e, n, D, E, m, b, x)
    PROVE  /\ NodeOK(D, E, m)
           /\ \A o \in Blocks(m) : m.dp[o] >= e \/ m.dp[o] = n.dp[o]
           /\ \A o \in Offset : m.dp[o] >= e => m.dp[o] = x
           /\ \A k \in Position : EntOf(D, m, k) = IF BlockOf(k) = b THEN D[x].entry[k % MAX_DIR_ENTRIES] ELSE EntOf(d, n, k)
           /\ \A o \in Offset : DatOf(D, m, o) = IF o = b THEN D[x].data ELSE DatOf(d, n, o)
<1> /\ NodeOK(d, e, n) /\ Agree(d, D, e) /\ e \in Nat /\ e >= 1 /\ E \in Nat
    /\ b \in Offset /\ x \in Addr /\ e <= x /\ x < E /\ Rewritten(n, m, b, x)
    /\ D[x] \in IF n.type = "dir" THEN DirBlock ELSE DataBlock
  BY DEF NodePut
<1>1. x # 0 /\ m.dp[b] = x /\ m.type = n.type /\ m \in Inode /\ \A o \in Offset \ {b} : m.dp[o] = n.dp[o]
  BY DEF Rewritten, Addr
<1>2. ASSUME NEW o \in Offset, n.dp[o] # 0
      PROVE  n.dp[o] \in Addr /\ n.dp[o] < e /\ n.dp[o] < E /\ D[n.dp[o]] = d[n.dp[o]]
             /\ d[n.dp[o]] \in IF n.type = "dir" THEN DirBlock ELSE DataBlock
  <2>1. n.dp[o] \in Addr
    BY <1>2, NodeTypes
  <2>2. n.dp[o] < e /\ d[n.dp[o]] \in IF n.type = "dir" THEN DirBlock ELSE DataBlock
    BY <1>2 DEF NodeOK, Blocks
  <2>3. n.dp[o] < E
    BY <2>1, <2>2 DEF Addr
  <2>4. QED
    BY <2>1, <2>2, <2>3 DEF Agree
<1>3. Blocks(m) = Blocks(n) \cup {b}
  BY <1>1 DEF Blocks
<1>4. m.size = Cardinality(Blocks(m))
  BY <1>3, BlocksMore DEF Rewritten
<1>5. m.type = "dir" => m.dp[0] # 0
  BY <1>1, FirstPositions DEF NodeOK
<1>6. ASSUME NEW o \in Blocks(m)
      PROVE  m.dp[o] < E /\ D[m.dp[o]] \in IF m.type = "dir" THEN DirBlock ELSE DataBlock
  BY <1>1, <1>2 DEF Blocks
<1>7. NodeOK(D, E, m)
  BY <1>1, <1>4, <1>5, <1>6 DEF NodeOK
<1>8. ASSUME NEW k \in Position
      PROVE  EntOf(D, m, k) = IF BlockOf(k) = b THEN D[x].entry[k % MAX_DIR_ENTRIES] ELSE EntOf(d, n, k)
  BY <1>1, <1>2, PositionPlace DEF EntOf
<1>9. ASSUME NEW o \in Offset PROVE DatOf(D, m, o) = IF o = b THEN D[x].data ELSE DatOf(d, n, o)
  BY <1>1, <1>2 DEF DatOf
<1>10. \A o \in Blocks(m) : m.dp[o] >= e \/ m.dp[o] = n.dp[o]
  BY <1>1 DEF Blocks
<1>11. ASSUME NEW o \in Offset, m.dp[o] >= e PROVE m.dp[o] = x
  <2>1. CASE o # b /\ n.dp[o] # 0
    BY <1>1, <1>2, <1>11, <2>1 DEF Addr
  <2>2. CASE o # b /\ n.dp[o] = 0
    BY <1>1, <1>11, <2>2
  <2>3. QED
    BY <1>1, <2>1, <2>2
<1>12. QED
  BY <1>7, <1>8, <1>9, <1>10, <1>11

(* A block of a directory with another entry.                              *)
EntryType == [name : Name \cup {Dot, DotDot, None}, inum : Inum \cup {-1}]

DirBlk(d, n, b) == IF n.dp[b] = 0 THEN [entry |-> [q \in 0 .. MAX_DIR_ENTRIES - 1 |-> NoEntry]] ELSE d[n.dp[b]]

LEMMA NoEntryType == NoEntry \in EntryType
BY DEF NoEntry, EntryType

LEMMA DirBlockIs == DirBlock = [entry : [0 .. MAX_DIR_ENTRIES - 1 -> EntryType]]
BY DEF DirBlock, EntryType

EntrySet(d, n, blk, k, f) ==
    /\ blk \in DirBlock
    /\ \A l \in Position : BlockOf(l) = BlockOf(k) =>
         blk.entry[l % MAX_DIR_ENTRIES] = IF l = k THEN f ELSE EntOf(d, n, l)

LEMMA EntryWritten ==
    ASSUME NEW d, NEW e, NEW n, NodeOK(d, e, n), n.type = "dir", NEW k \in Position, NEW f \in EntryType
    PROVE  EntrySet(d, n, [DirBlk(d, n, BlockOf(k)) EXCEPT !.entry[k % MAX_DIR_ENTRIES] = f], k, f)
<1>0. PICK blk : blk = [DirBlk(d, n, BlockOf(k)) EXCEPT !.entry[k % MAX_DIR_ENTRIES] = f]
  OBVIOUS
<1>1. PICK old : old = DirBlk(d, n, BlockOf(k))
  OBVIOUS
<1>2. BlockOf(k) \in Offset /\ k % MAX_DIR_ENTRIES \in 0 .. MAX_DIR_ENTRIES - 1
  BY PositionPlace
<1>3. old \in DirBlock
  <2>1. CASE n.dp[BlockOf(k)] = 0
    BY <1>1, <2>1, NoEntryType DEF DirBlk, DirBlock, EntryType
  <2>2. CASE n.dp[BlockOf(k)] # 0
    BY <1>1, <1>2, <2>2 DEF DirBlk, NodeOK, Blocks
  <2>3. QED
    BY <2>1, <2>2
<1>4. old = [entry |-> old.entry] /\ old.entry \in [0 .. MAX_DIR_ENTRIES - 1 -> EntryType]
  BY <1>3 DEF DirBlock, EntryType
<1>5. blk = [entry |-> [old.entry EXCEPT ![k % MAX_DIR_ENTRIES] = f]]
  BY <1>0, <1>1, <1>4
<1>6. blk \in DirBlock
  <2>1. PICK g \in [0 .. MAX_DIR_ENTRIES - 1 -> EntryType] : g = [old.entry EXCEPT ![k % MAX_DIR_ENTRIES] = f]
    BY <1>2, <1>4
  <2>2. blk = [entry |-> g]
    BY <1>5, <2>1
  <2>3. QED
    BY <2>2, DirBlockIs
<1>7. ASSUME NEW l \in Position, BlockOf(l) = BlockOf(k)
      PROVE  blk.entry[l % MAX_DIR_ENTRIES] = IF l = k THEN f ELSE EntOf(d, n, l)
  <2>1. l % MAX_DIR_ENTRIES \in 0 .. MAX_DIR_ENTRIES - 1 /\ (l % MAX_DIR_ENTRIES = k % MAX_DIR_ENTRIES <=> l = k)
    BY <1>7, PositionPlace, PositionIsPlace
  <2>2. EntOf(d, n, l) = old.entry[l % MAX_DIR_ENTRIES]
    BY <1>1, <1>7, <2>1 DEF EntOf, DirBlk
  <2>3. blk.entry = [old.entry EXCEPT ![k % MAX_DIR_ENTRIES] = f]
    BY <1>5
  <2>4. QED
    BY <1>2, <1>4, <2>1, <2>2, <2>3
<1>8. QED
  BY <1>0, <1>6, <1>7 DEF EntrySet

(* The inode and the first block of what is created.                       *)
LEMMA NewFileOK ==
    ASSUME NEW D, NEW E
    PROVE  /\ NodeOK(D, E, FileInode) /\ FileInode.type = "file" /\ Blocks(FileInode) = {}
           /\ \A b \in Offset : FileInode.dp[b] = 0 /\ DatOf(D, FileInode, b) = None
<1>1. FileInode.type = "file" /\ FileInode.size = 0 /\ \A b \in Offset : FileInode.dp[b] = 0
  BY DEF FileInode
<1>2. Blocks(FileInode) = {}
  BY <1>1 DEF Blocks
<1>3. FileInode \in Inode
  BY DEF FileInode, Inode
<1>4. QED
  BY <1>1, <1>2, <1>3, FS_EmptySet DEF NodeOK, DatOf

NewEntry(i, p, k) == CASE k = 0 -> [name |-> Dot, inum |-> i]
                       [] k = 1 -> [name |-> DotDot, inum |-> p]
                       [] OTHER -> NoEntry

LEMMA NewDirOK ==
    ASSUME NEW D, NEW E, NEW a \in Addr, a < E, NEW i \in Inum, NEW p \in Inum, D[a] = EmptyDir(i, p)
    PROVE  /\ NodeOK(D, E, DirInode(a)) /\ DirInode(a).type = "dir"
           /\ \A b \in Offset : DirInode(a).dp[b] = IF b = 0 THEN a ELSE 0
           /\ \A k \in Position : EntOf(D, DirInode(a), k) = NewEntry(i, p, k)
<1>1. DirInode(a).type = "dir" /\ DirInode(a).size = 1 /\ \A b \in Offset : DirInode(a).dp[b] = IF b = 0 THEN a ELSE 0
  BY DEF DirInode
<1>2. a # 0
  BY DEF Addr
<1>3. Blocks(DirInode(a)) = {0}
  BY <1>1, <1>2, FirstPositions DEF Blocks
<1>4. DirInode(a) \in Inode
  BY DEF DirInode, Inode
<1>5. D[a] \in DirBlock
  <2>1. \A q \in 0 .. MAX_DIR_ENTRIES - 1 : NewEntry(i, p, q) \in EntryType
    BY NoEntryType DEF NewEntry, EntryType
  <2>2. D[a] = [entry |-> [q \in 0 .. MAX_DIR_ENTRIES - 1 |-> NewEntry(i, p, q)]]
    BY DEF EmptyDir, NewEntry
  <2>3. QED
    BY <2>1, <2>2 DEF DirBlock, EntryType
<1>6. NodeOK(D, E, DirInode(a))
  BY <1>1, <1>2, <1>3, <1>4, <1>5, FS_Singleton, FirstPositions DEF NodeOK
<1>7. ASSUME NEW k \in Position PROVE EntOf(D, DirInode(a), k) = NewEntry(i, p, k)
  <2>0. BlockOf(k) \in Offset /\ k % MAX_DIR_ENTRIES \in 0 .. MAX_DIR_ENTRIES - 1 /\ k \in Nat
    BY PositionPlace
  <2>1. CASE BlockOf(k) = 0
    <3>1. k % MAX_DIR_ENTRIES = k
      <4>1. k = MAX_DIR_ENTRIES * (k \div MAX_DIR_ENTRIES) + (k % MAX_DIR_ENTRIES)
        BY <2>0, DivMod
      <4>2. QED
        BY <2>0, <2>1, <4>1 DEF BlockOf
    <3>2. EntOf(D, DirInode(a), k) = D[a].entry[k]
      BY <1>1, <1>2, <2>0, <2>1, <3>1 DEF EntOf
    <3>3. QED
      BY <2>0, <3>1, <3>2 DEF EmptyDir, NewEntry
  <2>2. CASE BlockOf(k) # 0
    <3>1. EntOf(D, DirInode(a), k) = NoEntry
      BY <1>1, <2>0, <2>2 DEF EntOf
    <3>2. k # 0 /\ k # 1
      BY <2>2, FirstPositions
    <3>3. QED
      BY <3>1, <3>2 DEF NewEntry
  <2>3. QED
    BY <2>1, <2>2
<1>8. QED
  BY <1>1, <1>6, <1>7

-----------------------------------------------------------------------------
(* The images that the operations make.                                    *)

(* A data block, the inode and its piece of the map, from at on.           *)
WriteMade(d, c, D, C, i, b, x) ==
    LET at == c.log_end
    IN  /\ Agree(d, D, at) /\ at + 3 <= MaxLog + 1
        /\ D[at] = [data |-> x]
        /\ Rewritten(NodeAt(d, c, i), D[at + 1], b, at)
        /\ D[at + 2] = Setting(MapAt(d, c, Piece(i)), i, at + 1)
        /\ C = [log_end |-> at + 3, imap_p |-> [c.imap_p EXCEPT ![Piece(i)] = at + 2]]

LEMMA WriteImage ==
    ASSUME NEW d, NEW c, ImageOK(d, c), NEW i \in Inum, AddrAt(d, c, i) # 0, NodeAt(d, c, i).type = "file",
           NEW b \in Offset, NEW x \in Data, NEW D, NEW C, WriteMade(d, c, D, C, i, b, x)
    PROVE  /\ ImageOK(D, C)
           /\ \A j \in Inum \ {i} : SameNode(d, c, D, C, j)
           /\ AddrAt(D, C, i) # 0 /\ NodeAt(D, C, i).type = "file"
           /\ \A o \in Offset : DatOf(D, NodeAt(D, C, i), o) = IF o = b THEN x ELSE DatOf(d, NodeAt(d, c, i), o)
<1>0. PICK n, m, im : n = NodeAt(d, c, i) /\ m = D[c.log_end + 1] /\ im = C.imap_p
  OBVIOUS
<1>1. PICK at \in Nat, E \in Nat, y \in Addr, u \in Addr :
         at = c.log_end /\ E = C.log_end /\ y = at + 1 /\ u = at + 2 /\ m = D[y]
  <2>1. c.log_end \in Nat /\ c.log_end >= 1 /\ c.log_end + 3 <= MaxLog + 1
    BY ImageTypes DEF WriteMade
  <2>2. C.log_end = c.log_end + 3 /\ c.log_end + 1 \in Addr /\ c.log_end + 2 \in Addr /\ C.log_end \in Nat
    BY <2>1 DEF WriteMade, Addr
  <2>3. QED
    BY <1>0, <2>1, <2>2
<1>2. at >= 1 /\ at + 3 <= MaxLog + 1 /\ E = at + 3 /\ at \in Addr /\ NodeOK(d, at, n) /\ n.type = "file"
  <2>1. at >= 1
    BY <1>1, ImageTypes
  <2>2. at + 3 <= MaxLog + 1 /\ E = at + 3
    BY <1>1 DEF WriteMade
  <2>3. NodeOK(d, at, n) /\ n.type = "file"
    BY <1>0, <1>1 DEF ImageOK
  <2>4. QED
    BY <1>1, <2>1, <2>2, <2>3 DEF Addr
<1>3. /\ Agree(d, D, at) /\ D[at] = [data |-> x] /\ Rewritten(n, m, b, at)
      /\ D[u] = Setting(MapAt(d, c, Piece(i)), i, y)
  BY <1>0, <1>1 DEF WriteMade
<1>4. im = [c.imap_p EXCEPT ![Piece(i)] = u] /\ C = [log_end |-> E, imap_p |-> im]
  BY <1>0, <1>1, <1>2 DEF WriteMade
<1>5. /\ NodeOK(D, E, m) /\ m.type = "file"
      /\ \A o \in Blocks(m) : m.dp[o] >= at \/ m.dp[o] = n.dp[o]
      /\ \A o \in Offset : DatOf(D, m, o) = IF o = b THEN x ELSE DatOf(d, n, o)
  <2>1. D[at] \in DataBlock /\ D[at].data = x
    BY <1>3 DEF DataBlock
  <2>2. at <= at /\ at < E /\ D[at] \in IF n.type = "dir" THEN DirBlock ELSE DataBlock
    BY <1>2, <2>1
  <2>3. Agree(d, D, at) /\ Rewritten(n, m, b, at) /\ at >= 1 /\ at \in Addr /\ NodeOK(d, at, n)
    BY <1>2, <1>3
  <2>4. /\ NodeOK(D, E, m)
        /\ \A o \in Blocks(m) : m.dp[o] >= at \/ m.dp[o] = n.dp[o]
        /\ \A o \in Offset : DatOf(D, m, o) = IF o = b THEN D[at].data ELSE DatOf(d, n, o)
    <3>1. NodePut(d, at, n, D, E, m, b, at)
      BY <1>2, <2>2, <2>3 DEF NodePut
    <3>2. QED
      BY <3>1, NodeRewritten
  <2>5. QED
    BY <1>2, <2>1, <2>3, <2>4 DEF Rewritten
<1>6. /\ \A h \in Inum : AddrAt(D, C, h) = IF h = i THEN y ELSE AddrAt(d, c, h)
      /\ PiecesOK(c, D, C, {u})
  <2>1. /\ Agree(d, D, c.log_end) /\ u >= c.log_end /\ D[u] = Setting(MapAt(d, c, Piece(i)), i, y)
        /\ C.imap_p = [c.imap_p EXCEPT ![Piece(i)] = u]
    BY <1>0, <1>1, <1>3, <1>4
  <2>2. OnePut(d, c, D, C, i, y, u)
    BY <2>1 DEF OnePut
  <2>3. QED
    BY <2>2, OnePiece
<1>7. C \in CR
  BY <1>0, <1>2, <1>4, <1>6 DEF CR, PiecesOK
<1>8. NodeAt(D, C, i) = m /\ AddrAt(D, C, i) = y /\ y # 0
  BY <1>1, <1>6 DEF NodeAt, Addr
<1>9. \A j \in Inum \ {i} : SameNode(d, c, D, C, j)
  BY <1>1, <1>3, <1>6, SameAddr
<1>10. Anew(d, c, D, C, i)
  <2>1. y >= c.log_end /\ y < C.log_end /\ NodeOK(D, C.log_end, m)
    BY <1>1, <1>2, <1>5
  <2>2. \A o \in Blocks(m) : m.dp[o] >= c.log_end \/ (AddrAt(d, c, i) # 0 /\ m.dp[o] = NodeAt(d, c, i).dp[o])
    BY <1>0, <1>1, <1>5
  <2>3. QED
    BY <1>8, <2>1, <2>2 DEF Anew
<1>11. \A j \in Inum : Anew(d, c, D, C, j) => j = i
  BY <1>6, OldIsOld
<1>12. ImageOK(D, C)
  <2>1. \A j \in Inum : AddrAt(D, C, j) \in {0, AddrAt(d, c, j)} \/ Anew(d, c, D, C, j)
    BY <1>6, <1>10
  <2>2. c.log_end <= C.log_end /\ Agree(d, D, c.log_end)
    BY <1>1, <1>2, <1>3
  <2>3. \A k \in 0 .. MAX_IMAPS - 1 : C.imap_p[k] # 0 => C.imap_p[k] < C.log_end /\ D[C.imap_p[k]] \in Imap
    <3>1. \A s \in {u} : s < C.log_end
      BY <1>1, <1>2
    <3>2. c.log_end \in Nat /\ C.log_end \in Nat
      BY <1>1
    <3>3. QED
      BY <1>6, <2>2, <3>1, <3>2, PiecesBelow
  <2>4. QED
    BY <1>7, <1>11, <2>1, <2>2, <2>3, NextImage
<1>13. QED
  BY <1>0, <1>1, <1>5, <1>8, <1>9, <1>12

(* A directory with the entry f at k, its new block at x.                  *)
DirPut(d, e, n, D, E, m, k, f, x) ==
    /\ NodeOK(d, e, n) /\ n.type = "dir" /\ Agree(d, D, e) /\ e \in Nat /\ e >= 1 /\ E \in Nat
    /\ k \in Position /\ x \in Addr /\ e <= x /\ x < E
    /\ EntrySet(d, n, D[x], k, f) /\ Rewritten(n, m, BlockOf(k), x)

LEMMA DirRewritten ==
    ASSUME NEW d, NEW e, NEW n, NEW D, NEW E, NEW m, NEW k, NEW f, NEW x, DirPut(d, e, n, D, E, m, k, f, x)
    PROVE  /\ NodeOK(D, E, m) /\ m.type = "dir"
           /\ \A o \in Blocks(m) : m.dp[o] >= e \/ m.dp[o] = n.dp[o]
           /\ \A o \in Offset : m.dp[o] >= e => m.dp[o] = x
           /\ \A l \in Position : EntOf(D, m, l) = IF l = k THEN f ELSE EntOf(d, n, l)
<1>1. /\ k \in Position /\ BlockOf(k) \in Offset /\ n.type = "dir"
      /\ EntrySet(d, n, D[x], k, f) /\ Rewritten(n, m, BlockOf(k), x)
  BY PositionPlace DEF DirPut
<1>2. NodePut(d, e, n, D, E, m, BlockOf(k), x)
  BY <1>1 DEF DirPut, NodePut, EntrySet
<1>3. /\ NodeOK(D, E, m)
      /\ \A o \in Blocks(m) : m.dp[o] >= e \/ m.dp[o] = n.dp[o]
      /\ \A o \in Offset : m.dp[o] >= e => m.dp[o] = x
      /\ \A l \in Position : EntOf(D, m, l) = IF BlockOf(l) = BlockOf(k) THEN D[x].entry[l % MAX_DIR_ENTRIES] ELSE EntOf(d, n, l)
  BY <1>2, NodeRewritten
<1>4. ASSUME NEW l \in Position PROVE EntOf(D, m, l) = IF l = k THEN f ELSE EntOf(d, n, l)
  <2>1. CASE BlockOf(l) = BlockOf(k)
    <3>1. D[x].entry[l % MAX_DIR_ENTRIES] = IF l = k THEN f ELSE EntOf(d, n, l)
      BY <1>1, <2>1 DEF EntrySet
    <3>2. QED
      BY <1>3, <2>1, <3>1
  <2>2. CASE BlockOf(l) # BlockOf(k)
    BY <1>3, <2>2
  <2>3. QED
    BY <2>1, <2>2
<1>5. QED
  BY <1>1, <1>3, <1>4 DEF Rewritten

(* What creat appends: the block and the inode of the new file, its piece  *)
(* of the map, the block and the inode of its directory, and their piece.  *)
CreateMade(d, c, D, C, p, t, new, k, f) ==
    LET e  == c.log_end
        at == IF t = "dir" THEN e + 1 ELSE e
    IN  /\ Agree(d, D, e) /\ at + 5 <= MaxLog + 1
        /\ t = "dir" => D[e] = EmptyDir(new, p)
        /\ D[at] = IF t = "dir" THEN DirInode(e) ELSE FileInode
        /\ D[at + 1] = Setting(MapAt(d, c, Piece(new)), new, at)
        /\ EntrySet(d, NodeAt(d, c, p), D[at + 2], k, f)
        /\ Rewritten(NodeAt(d, c, p), D[at + 3], BlockOf(k), at + 2)
        /\ D[at + 4] = Setting(IF Piece(new) = Piece(p) THEN D[at + 1] ELSE MapAt(d, c, Piece(p)), p, at + 3)
        /\ C = [log_end |-> at + 5, imap_p |-> [c.imap_p EXCEPT ![Piece(new)] = at + 1, ![Piece(p)] = at + 4]]

LEMMA CreateImage ==
    ASSUME NEW d, NEW c, ImageOK(d, c), NEW p \in Inum, AddrAt(d, c, p) # 0, NodeAt(d, c, p).type = "dir",
           NEW new \in Inum, AddrAt(d, c, new) = 0, NEW k \in Position, NEW f \in EntryType, NEW t \in {"dir", "file"},
           NEW D, NEW C, CreateMade(d, c, D, C, p, t, new, k, f)
    PROVE  /\ ImageOK(D, C)
           /\ \A j \in Inum \ {p, new} : SameNode(d, c, D, C, j)
           /\ AddrAt(D, C, p) # 0 /\ NodeAt(D, C, p).type = "dir"
           /\ \A l \in Position : EntOf(D, NodeAt(D, C, p), l) = IF l = k THEN f ELSE EntOf(d, NodeAt(d, c, p), l)
           /\ AddrAt(D, C, new) # 0 /\ NodeAt(D, C, new).type = t
           /\ t = "dir" => \A l \in Position : EntOf(D, NodeAt(D, C, new), l) = NewEntry(new, p, l)
           /\ t = "file" => \A b \in Offset : DatOf(D, NodeAt(D, C, new), b) = None
<1>0. new # p
  OBVIOUS
<1>1. PICK e \in Nat : e = c.log_end /\ e >= 1
  BY ImageTypes
<1>2. PICK at \in Nat : at = (IF t = "dir" THEN e + 1 ELSE e) /\ at + 5 <= MaxLog + 1
  BY <1>1 DEF CreateMade
<1>3. PICK xn \in Addr, u \in Addr, xb \in Addr, xp \in Addr, v \in Addr, E \in Nat :
         xn = at /\ u = at + 1 /\ xb = at + 2 /\ xp = at + 3 /\ v = at + 4 /\ E = at + 5
  <2>1. at \in Addr /\ at + 1 \in Addr /\ at + 2 \in Addr /\ at + 3 \in Addr /\ at + 4 \in Addr /\ at + 5 \in Nat
    BY <1>1, <1>2 DEF Addr
  <2>2. QED
    BY <2>1
<1>4. PICK n, m, r, im : n = NodeAt(d, c, p) /\ m = D[xp] /\ r = D[xn] /\ im = C.imap_p
  OBVIOUS
<1>5. /\ Agree(d, D, e) /\ (t = "dir" => D[e] = EmptyDir(new, p))
      /\ r = (IF t = "dir" THEN DirInode(e) ELSE FileInode)
      /\ D[u] = Setting(MapAt(d, c, Piece(new)), new, xn)
      /\ EntrySet(d, n, D[xb], k, f) /\ Rewritten(n, m, BlockOf(k), xb)
      /\ D[v] = Setting(IF Piece(new) = Piece(p) THEN D[u] ELSE MapAt(d, c, Piece(p)), p, xp)
      /\ im = [c.imap_p EXCEPT ![Piece(new)] = u, ![Piece(p)] = v] /\ C = [log_end |-> E, imap_p |-> im]
  BY <1>1, <1>2, <1>3, <1>4 DEF CreateMade
<1>6. C.log_end = E
  BY <1>5
<1>7. e <= xn /\ (t = "dir" => e < xn) /\ xn < u /\ u < xb /\ xb < xp /\ xp < v /\ v < E /\ E <= MaxLog + 1 /\ e <= E
  BY <1>1, <1>2, <1>3
<1>8. NodeOK(d, e, n) /\ n.type = "dir"
  BY <1>1, <1>4 DEF ImageOK
<1>9. /\ NodeOK(D, E, m) /\ m.type = "dir"
      /\ \A o \in Blocks(m) : m.dp[o] >= e \/ m.dp[o] = n.dp[o]
      /\ \A o \in Offset : m.dp[o] >= e => m.dp[o] = xb
      /\ \A l \in Position : EntOf(D, m, l) = IF l = k THEN f ELSE EntOf(d, n, l)
  <2>1. e <= xb /\ xb < E
    BY <1>3, <1>7 DEF Addr
  <2>2. DirPut(d, e, n, D, E, m, k, f, xb)
    BY <1>1, <1>5, <1>8, <2>1 DEF DirPut
  <2>3. QED
    BY <2>2, DirRewritten
(* The new inode: its only block, if any, is at e.                         *)
<1>10. /\ NodeOK(D, E, r) /\ r.type = t /\ \A b \in Offset : r.dp[b] \in {0, e} /\ (t = "file" => r.dp[b] = 0)
       /\ t = "dir" => \A l \in Position : EntOf(D, r, l) = NewEntry(new, p, l)
       /\ t = "file" => \A b \in Offset : DatOf(D, r, b) = None
  <2>1. CASE t = "dir"
    <3>1. e \in Addr /\ e < E /\ D[e] = EmptyDir(new, p) /\ r = DirInode(e)
      BY <1>1, <1>3, <1>5, <1>7, <2>1 DEF Addr
    <3>2. QED
      BY <2>1, <3>1, NewDirOK
  <2>2. CASE t = "file"
    BY <1>5, <2>2, NewFileOK
  <2>3. QED
    BY <2>1, <2>2
<1>11. (\A h \in Inum : AddrAt(D, C, h) = IF h = p THEN xp ELSE IF h = new THEN xn ELSE AddrAt(d, c, h)) /\ PiecesOK(c, D, C, {u, v})
  <2>1. u >= c.log_end /\ v >= c.log_end
    BY <1>1, <1>3, <1>7 DEF Addr
  <2>2. Agree(d, D, c.log_end) /\ C.imap_p = [c.imap_p EXCEPT ![Piece(new)] = u, ![Piece(p)] = v]
    BY <1>1, <1>4, <1>5
  <2>3. TwoPut(d, c, D, C, new, xn, u, p, xp, v)
    BY <1>5, <2>1, <2>2 DEF TwoPut
  <2>4. QED
    BY <2>3, TwoPieces
<1>12. C \in CR
  <2>1. E \in 1 .. MaxLog + 1
    BY <1>1, <1>7
  <2>2. im \in [0 .. MAX_IMAPS - 1 -> Addr \cup {0}]
    BY <1>4, <1>11 DEF PiecesOK
  <2>3. QED
    BY <1>5, <2>1, <2>2 DEF CR
<1>13. /\ NodeAt(D, C, p) = m /\ AddrAt(D, C, p) = xp /\ xp # 0
       /\ NodeAt(D, C, new) = r /\ AddrAt(D, C, new) = xn /\ xn # 0
  <2>1. AddrAt(D, C, p) = xp /\ AddrAt(D, C, new) = xn
    BY <1>0, <1>11
  <2>2. QED
    BY <1>4, <2>1 DEF NodeAt, Addr
<1>14. \A j \in Inum \ {p, new} : SameNode(d, c, D, C, j)
  BY <1>1, <1>5, <1>11, SameAddr
<1>15. Anew(d, c, D, C, p)
  <2>1. xp >= c.log_end /\ xp < C.log_end /\ NodeOK(D, C.log_end, m)
    BY <1>1, <1>3, <1>6, <1>7, <1>9 DEF Addr
  <2>2. \A o \in Blocks(m) : m.dp[o] >= c.log_end \/ (AddrAt(d, c, p) # 0 /\ m.dp[o] = NodeAt(d, c, p).dp[o])
    BY <1>1, <1>4, <1>9
  <2>3. QED
    BY <1>13, <2>1, <2>2 DEF Anew
<1>16. Anew(d, c, D, C, new)
  <2>1. xn >= c.log_end /\ xn < C.log_end /\ NodeOK(D, C.log_end, r)
    BY <1>1, <1>3, <1>6, <1>7, <1>10 DEF Addr
  <2>2. \A o \in Blocks(r) : r.dp[o] >= c.log_end
    BY <1>1, <1>10 DEF Blocks
  <2>3. QED
    BY <1>13, <2>1, <2>2 DEF Anew
<1>17. \A j \in Inum : Anew(d, c, D, C, j) => j \in {p, new}
  BY <1>11, OldIsOld
<1>18. xp # xn /\ \A a, b \in Offset : m.dp[a] = r.dp[b] => m.dp[a] < e
  <2>1. ASSUME NEW a \in Offset, NEW b \in Offset, m.dp[a] = r.dp[b], ~(m.dp[a] < e) PROVE FALSE
    <3>1. m.dp[a] = e
      BY <1>1, <1>10, <2>1
    <3>2. m.dp[a] = xb
      BY <1>1, <1>9, <3>1
    <3>3. t = "dir"
      <4>1. r.dp[b] # 0
        BY <1>1, <2>1, <3>1
      <4>2. QED
        BY <1>10, <4>1
    <3>4. QED
      BY <1>1, <1>3, <1>7, <3>1, <3>2, <3>3
  <2>2. QED
    BY <1>3, <2>1
<1>19. ImageOK(D, C)
  <2>1. \A j \in Inum : AddrAt(D, C, j) \in {0, AddrAt(d, c, j)} \/ Anew(d, c, D, C, j)
    BY <1>11, <1>15, <1>16
  <2>2. c.log_end <= C.log_end /\ Agree(d, D, c.log_end)
    BY <1>1, <1>5, <1>6, <1>7
  <2>3. \A i, j \in Inum : i # j /\ Anew(d, c, D, C, i) /\ Anew(d, c, D, C, j) =>
               /\ AddrAt(D, C, i) # AddrAt(D, C, j)
               /\ \A a, b \in Offset : NodeAt(D, C, i).dp[a] = NodeAt(D, C, j).dp[b] => NodeAt(D, C, i).dp[a] < c.log_end
    BY <1>1, <1>13, <1>17, <1>18
  <2>4. \A k1 \in 0 .. MAX_IMAPS - 1 : C.imap_p[k1] # 0 => C.imap_p[k1] < C.log_end /\ D[C.imap_p[k1]] \in Imap
    <3>1. \A s \in {u, v} : s < C.log_end
      BY <1>3, <1>6, <1>7 DEF Addr
    <3>2. c.log_end \in Nat /\ C.log_end \in Nat
      BY <1>1, <1>6
    <3>3. QED
      BY <1>11, <2>2, <3>1, <3>2, PiecesBelow
  <2>5. QED
    BY <1>12, <2>1, <2>2, <2>3, <2>4, NextImage
<1>20. QED
  BY <1>4, <1>9, <1>10, <1>13, <1>14, <1>19

(* What unlink appends: the block and the inode of the directory, its      *)
(* piece of the map, and the piece of the inode that goes.                 *)
RemoveMade(d, c, D, C, p, del, k) ==
    LET e == c.log_end
    IN  /\ Agree(d, D, e) /\ e + 4 <= MaxLog + 1
        /\ EntrySet(d, NodeAt(d, c, p), D[e], k, NoEntry)
        /\ Rewritten(NodeAt(d, c, p), D[e + 1], BlockOf(k), e)
        /\ D[e + 2] = Setting(MapAt(d, c, Piece(p)), p, e + 1)
        /\ D[e + 3] = Setting(IF Piece(p) = Piece(del) THEN D[e + 2] ELSE MapAt(d, c, Piece(del)), del, 0)
        /\ C = [log_end |-> e + 4, imap_p |-> [c.imap_p EXCEPT ![Piece(p)] = e + 2, ![Piece(del)] = e + 3]]

LEMMA RemoveImage ==
    ASSUME NEW d, NEW c, ImageOK(d, c), NEW p \in Inum, AddrAt(d, c, p) # 0, NodeAt(d, c, p).type = "dir",
           NEW del \in Inum, del # p, NEW k \in Position,
           NEW D, NEW C, RemoveMade(d, c, D, C, p, del, k)
    PROVE  /\ ImageOK(D, C)
           /\ \A j \in Inum \ {p, del} : SameNode(d, c, D, C, j)
           /\ AddrAt(D, C, p) # 0 /\ NodeAt(D, C, p).type = "dir"
           /\ \A l \in Position : EntOf(D, NodeAt(D, C, p), l) = IF l = k THEN NoEntry ELSE EntOf(d, NodeAt(d, c, p), l)
           /\ AddrAt(D, C, del) = 0
<1>1. PICK e \in Nat : e = c.log_end /\ e >= 1 /\ e + 4 <= MaxLog + 1
  BY ImageTypes DEF RemoveMade
<1>2. PICK xb \in Addr, xp \in Addr, u \in Addr, v \in Addr, E \in Nat :
         xb = e /\ xp = e + 1 /\ u = e + 2 /\ v = e + 3 /\ E = e + 4
  <2>1. e \in Addr /\ e + 1 \in Addr /\ e + 2 \in Addr /\ e + 3 \in Addr /\ e + 4 \in Nat
    BY <1>1 DEF Addr
  <2>2. QED
    BY <2>1
<1>3. PICK n, m, im : n = NodeAt(d, c, p) /\ m = D[xp] /\ im = C.imap_p
  OBVIOUS
<1>4. /\ Agree(d, D, e)
      /\ EntrySet(d, n, D[xb], k, NoEntry) /\ Rewritten(n, m, BlockOf(k), xb)
      /\ D[u] = Setting(MapAt(d, c, Piece(p)), p, xp)
      /\ D[v] = Setting(IF Piece(p) = Piece(del) THEN D[u] ELSE MapAt(d, c, Piece(del)), del, 0)
      /\ im = [c.imap_p EXCEPT ![Piece(p)] = u, ![Piece(del)] = v] /\ C = [log_end |-> E, imap_p |-> im]
  BY <1>1, <1>2, <1>3 DEF RemoveMade
<1>5. C.log_end = E
  BY <1>4
<1>6. e = xb /\ xb < xp /\ xp < u /\ u < v /\ v < E /\ E <= MaxLog + 1 /\ e <= E
  BY <1>1, <1>2
<1>7. NodeOK(d, e, n) /\ n.type = "dir"
  BY <1>1, <1>3 DEF ImageOK
<1>8. /\ NodeOK(D, E, m) /\ m.type = "dir"
      /\ \A o \in Blocks(m) : m.dp[o] >= e \/ m.dp[o] = n.dp[o]
      /\ \A l \in Position : EntOf(D, m, l) = IF l = k THEN NoEntry ELSE EntOf(d, n, l)
  <2>1. e <= xb /\ xb < E
    BY <1>2, <1>6 DEF Addr
  <2>2. DirPut(d, e, n, D, E, m, k, NoEntry, xb)
    BY <1>1, <1>4, <1>7, <2>1 DEF DirPut
  <2>3. QED
    BY <2>2, DirRewritten
<1>9. /\ \A h \in Inum : AddrAt(D, C, h) = IF h = del THEN 0 ELSE IF h = p THEN xp ELSE AddrAt(d, c, h)
      /\ PiecesOK(c, D, C, {u, v})
  <2>1. u >= c.log_end /\ v >= c.log_end
    BY <1>1, <1>2, <1>6 DEF Addr
  <2>2. Agree(d, D, c.log_end) /\ C.imap_p = [c.imap_p EXCEPT ![Piece(p)] = u, ![Piece(del)] = v]
    BY <1>1, <1>3, <1>4
  <2>3. TwoPut(d, c, D, C, p, xp, u, del, 0, v)
    BY <1>4, <2>1, <2>2 DEF TwoPut
  <2>4. QED
    BY <2>3, TwoPieces
<1>10. C \in CR
  <2>1. E \in 1 .. MaxLog + 1
    BY <1>1, <1>6
  <2>2. im \in [0 .. MAX_IMAPS - 1 -> Addr \cup {0}]
    BY <1>3, <1>9 DEF PiecesOK
  <2>3. QED
    BY <1>4, <2>1, <2>2 DEF CR
<1>11. NodeAt(D, C, p) = m /\ AddrAt(D, C, p) = xp /\ xp # 0 /\ AddrAt(D, C, del) = 0
  <2>1. AddrAt(D, C, p) = xp /\ AddrAt(D, C, del) = 0
    BY <1>9
  <2>2. QED
    BY <1>3, <2>1 DEF NodeAt, Addr
<1>12. \A j \in Inum \ {p, del} : SameNode(d, c, D, C, j)
  BY <1>1, <1>4, <1>9, SameAddr
<1>13. Anew(d, c, D, C, p)
  <2>1. xp >= c.log_end /\ xp < C.log_end /\ NodeOK(D, C.log_end, m)
    BY <1>1, <1>2, <1>5, <1>6, <1>8 DEF Addr
  <2>2. \A o \in Blocks(m) : m.dp[o] >= c.log_end \/ (AddrAt(d, c, p) # 0 /\ m.dp[o] = NodeAt(d, c, p).dp[o])
    BY <1>1, <1>3, <1>8
  <2>3. QED
    BY <1>11, <2>1, <2>2 DEF Anew
<1>14. \A j \in Inum : Anew(d, c, D, C, j) => j = p
  <2>1. ~Anew(d, c, D, C, del)
    BY <1>1, <1>11 DEF Anew
  <2>2. \A j \in Inum \ {p, del} : ~Anew(d, c, D, C, j)
    BY <1>9, OldIsOld
  <2>3. QED
    BY <2>1, <2>2
<1>15. ImageOK(D, C)
  <2>1. \A j \in Inum : AddrAt(D, C, j) \in {0, AddrAt(d, c, j)} \/ Anew(d, c, D, C, j)
    BY <1>9, <1>13
  <2>2. c.log_end <= C.log_end /\ Agree(d, D, c.log_end)
    BY <1>1, <1>4, <1>5, <1>6
  <2>3. \A k1 \in 0 .. MAX_IMAPS - 1 : C.imap_p[k1] # 0 => C.imap_p[k1] < C.log_end /\ D[C.imap_p[k1]] \in Imap
    <3>1. \A s \in {u, v} : s < C.log_end
      BY <1>2, <1>5, <1>6 DEF Addr
    <3>2. c.log_end \in Nat /\ C.log_end \in Nat
      BY <1>1, <1>5
    <3>3. QED
      BY <1>9, <2>2, <3>1, <3>2, PiecesBelow
  <2>4. QED
    BY <1>10, <1>14, <2>1, <2>2, <2>3, NextImage
<1>16. QED
  BY <1>3, <1>8, <1>11, <1>12, <1>15

-----------------------------------------------------------------------------
(* The tree of an image.                                                   *)

LiveAt(d, c, i) == AddrAt(d, c, i) # 0
DirAt(d, c, i)  == LiveAt(d, c, i) /\ NodeAt(d, c, i).type = "dir"
Ent(d, c, i, k) == EntOf(d, NodeAt(d, c, i), k)

(* The first two entries of a directory are . and ..; the others are its   *)
(* sons.                                                                   *)
SonAt(d, c, i, k) == DirAt(d, c, i) /\ k \in Position \ {0, 1} /\ Ent(d, c, i, k).inum # -1

DirOK(d, c, i) ==
    /\ Ent(d, c, i, 0) = [name |-> Dot, inum |-> i]
    /\ \E q \in Inum : Ent(d, c, i, 1) = [name |-> DotDot, inum |-> q]
    /\ \A k, l \in Position :
         Ent(d, c, i, k).inum # -1 /\ Ent(d, c, i, l).inum # -1 /\ Ent(d, c, i, k).name = Ent(d, c, i, l).name => k = l

SonOK(d, c, i, k) ==
    LET s == Ent(d, c, i, k).inum
    IN  /\ Ent(d, c, i, k).name \in Name /\ s \in Inum \ {0, i} /\ LiveAt(d, c, s)
        /\ DirAt(d, c, s) => Ent(d, c, s, 1) = [name |-> DotDot, inum |-> i]

(* Each son is deeper than the directory it is in: no directory is below   *)
(* itself.                                                                 *)
Ranked(d, c) ==
    \E depth \in [Inum -> Nat] :
        \A i \in Inum, k \in Position : SonAt(d, c, i, k) => depth[Ent(d, c, i, k).inum] > depth[i]

TreeOK(d, c) ==
    /\ DirAt(d, c, 0) /\ Ent(d, c, 0, 1) = [name |-> DotDot, inum |-> 0] /\ Ranked(d, c)
    /\ \A i \in Inum : DirAt(d, c, i) => DirOK(d, c, i)
    /\ \A i \in Inum, k \in Position : SonAt(d, c, i, k) => SonOK(d, c, i, k)
    /\ \A i, j \in Inum, k, l \in Position :
         SonAt(d, c, i, k) /\ SonAt(d, c, j, l) /\ Ent(d, c, i, k).inum = Ent(d, c, j, l).inum => i = j /\ k = l
    /\ \A h \in Inum \ {0} : LiveAt(d, c, h) =>
         \E i \in Inum, k \in Position : SonAt(d, c, i, k) /\ Ent(d, c, i, k).inum = h

LEMMA ZeroInum == 0 \in Inum
<1>1. IMAP_SIZE * MAX_IMAPS >= 1 /\ IMAP_SIZE * MAX_IMAPS \in Nat
  <2>1. IMAP_SIZE \in Nat \ {0} /\ MAX_IMAPS \in Nat \ {0}
    OBVIOUS
  <2>2. QED
    BY <2>1
<1>2. QED
  BY <1>1 DEF Inum, MAX_INODES

LEMMA SameAt ==
    ASSUME NEW d, NEW c, NEW D, NEW C, NEW i, SameNode(d, c, D, C, i)
    PROVE  /\ LiveAt(D, C, i) <=> LiveAt(d, c, i)
           /\ DirAt(D, C, i) <=> DirAt(d, c, i)
           /\ LiveAt(d, c, i) => \A k \in Position : Ent(D, C, i, k) = Ent(d, c, i, k)
BY DEF SameNode, LiveAt, DirAt, Ent

(* Nothing but the contents of files has changed.                          *)
SameDirs(d, c, D, C) ==
    \A i \in Inum :
        /\ LiveAt(D, C, i) <=> LiveAt(d, c, i)
        /\ DirAt(D, C, i) <=> DirAt(d, c, i)
        /\ DirAt(d, c, i) => \A k \in Position : Ent(D, C, i, k) = Ent(d, c, i, k)

LEMMA SameTree ==
    ASSUME NEW d, NEW c, NEW D, NEW C, TreeOK(d, c), SameDirs(d, c, D, C)
    PROVE  TreeOK(D, C)
<1>0. \A i \in Inum :
        /\ LiveAt(D, C, i) <=> LiveAt(d, c, i)
        /\ DirAt(D, C, i) <=> DirAt(d, c, i)
        /\ DirAt(d, c, i) => \A k \in Position : Ent(D, C, i, k) = Ent(d, c, i, k)
  BY DEF SameDirs
<1>1. \A i \in Inum, k \in Position : SonAt(D, C, i, k) => SonAt(d, c, i, k) /\ Ent(D, C, i, k) = Ent(d, c, i, k)
  BY <1>0 DEF SonAt
<1>2. \A i \in Inum, k \in Position : SonAt(d, c, i, k) => SonAt(D, C, i, k) /\ Ent(D, C, i, k) = Ent(d, c, i, k)
  BY <1>0 DEF SonAt
<1>3. ASSUME NEW i \in Inum, DirAt(D, C, i) PROVE DirOK(D, C, i)
  <2>1. DirOK(d, c, i) /\ \A k \in Position : Ent(D, C, i, k) = Ent(d, c, i, k)
    BY <1>0, <1>3 DEF TreeOK
  <2>2. QED
    BY <2>1, FirstPositions DEF DirOK
<1>4. ASSUME NEW i \in Inum, NEW k \in Position, SonAt(D, C, i, k) PROVE SonOK(D, C, i, k)
  <2>1. SonOK(d, c, i, k) /\ Ent(D, C, i, k) = Ent(d, c, i, k)
    BY <1>1, <1>4 DEF TreeOK
  <2>2. QED
    BY <1>0, <2>1, FirstPositions DEF SonOK
<1>5. ASSUME NEW i \in Inum, NEW j \in Inum, NEW k \in Position, NEW l \in Position,
             SonAt(D, C, i, k), SonAt(D, C, j, l), Ent(D, C, i, k).inum = Ent(D, C, j, l).inum
      PROVE  i = j /\ k = l
  BY <1>1, <1>5 DEF TreeOK
<1>6. ASSUME NEW h \in Inum \ {0}, LiveAt(D, C, h)
      PROVE  \E i \in Inum, k \in Position : SonAt(D, C, i, k) /\ Ent(D, C, i, k).inum = h
  <2>1. PICK i \in Inum, k \in Position : SonAt(d, c, i, k) /\ Ent(d, c, i, k).inum = h
    BY <1>0, <1>6 DEF TreeOK
  <2>2. QED
    BY <1>2, <2>1
<1>7. DirAt(D, C, 0) /\ Ent(D, C, 0, 1) = [name |-> DotDot, inum |-> 0]
  BY <1>0, ZeroInum, FirstPositions DEF TreeOK
<1>8. Ranked(D, C)
  BY <1>1 DEF TreeOK, Ranked
<1>9. QED
  BY <1>3, <1>4, <1>5, <1>6, <1>7, <1>8 DEF TreeOK

(* A new file or directory new, under the name n in the entry k of p.      *)
Added(d, c, D, C, p, t, new, k, n) ==
    /\ p \in Inum /\ DirAt(d, c, p) /\ new \in Inum /\ ~LiveAt(d, c, new) /\ t \in {"dir", "file"}
    /\ k \in Position /\ Ent(d, c, p, k).inum = -1 /\ n \in Name
    /\ \A l \in Position : Ent(d, c, p, l).inum # -1 => Ent(d, c, p, l).name # n
    /\ \A j \in Inum \ {p, new} : SameNode(d, c, D, C, j)
    /\ DirAt(D, C, p)
    /\ \A l \in Position : Ent(D, C, p, l) = IF l = k THEN [name |-> n, inum |-> new] ELSE Ent(d, c, p, l)
    /\ LiveAt(D, C, new) /\ NodeAt(D, C, new).type = t
    /\ t = "dir" => \A l \in Position : Ent(D, C, new, l) = NewEntry(new, p, l)
    /\ t = "file" => \A b \in Offset : DatOf(D, NodeAt(D, C, new), b) = None

LEMMA InumNotMinus == \A i \in Inum : i # -1
BY DEF Inum

LEMMA AddedTree ==
    ASSUME NEW d, NEW c, NEW D, NEW C, NEW p, NEW t, NEW new, NEW k, NEW n, TreeOK(d, c), Added(d, c, D, C, p, t, new, k, n)
    PROVE  TreeOK(D, C)
<1>0. /\ p \in Inum /\ DirAt(d, c, p) /\ new \in Inum /\ ~LiveAt(d, c, new) /\ t \in {"dir", "file"}
      /\ k \in Position /\ Ent(d, c, p, k).inum = -1 /\ n \in Name
      /\ \A l \in Position : Ent(d, c, p, l).inum # -1 => Ent(d, c, p, l).name # n
      /\ DirAt(D, C, p) /\ LiveAt(D, C, new) /\ (DirAt(D, C, new) <=> t = "dir")
      /\ \A l \in Position : Ent(D, C, p, l) = IF l = k THEN [name |-> n, inum |-> new] ELSE Ent(d, c, p, l)
      /\ t = "dir" => \A l \in Position : Ent(D, C, new, l) = NewEntry(new, p, l)
  BY DEF Added, DirAt
<1>1. p # new /\ LiveAt(d, c, p) /\ LiveAt(D, C, p)
  BY <1>0 DEF DirAt
<1>2. \A j \in Inum \ {p, new} :
        /\ LiveAt(D, C, j) <=> LiveAt(d, c, j)
        /\ DirAt(D, C, j) <=> DirAt(d, c, j)
        /\ LiveAt(d, c, j) => \A l \in Position : Ent(D, C, j, l) = Ent(d, c, j, l)
  BY SameAt DEF Added
<1>3. DirOK(d, c, p) /\ new # 0 /\ new # -1 /\ p # -1
  BY <1>0, InumNotMinus DEF TreeOK, DirAt
<1>4. k # 0 /\ k # 1
  BY <1>0, <1>3, InumNotMinus DEF DirOK
(* The sons are the old ones and the new one.                              *)
<1>5. ASSUME NEW i \in Inum, NEW l \in Position, SonAt(D, C, i, l)
      PROVE  \/ i = p /\ l = k /\ Ent(D, C, i, l) = [name |-> n, inum |-> new]
             \/ SonAt(d, c, i, l) /\ Ent(D, C, i, l) = Ent(d, c, i, l) /\ i # new /\ (i # p \/ l # k)
  <2>1. l # 0 /\ l # 1 /\ DirAt(D, C, i) /\ Ent(D, C, i, l).inum # -1
    BY <1>5 DEF SonAt
  <2>2. CASE i = p
    BY <1>0, <1>1, <2>1, <2>2 DEF SonAt
  <2>3. CASE i = new
    <3>1. Ent(D, C, i, l) = NewEntry(new, p, l)
      BY <1>0, <2>1, <2>3
    <3>2. Ent(D, C, i, l) = NoEntry
      BY <2>1, <3>1 DEF NewEntry
    <3>3. QED
      BY <2>1, <3>2 DEF NoEntry
  <2>4. CASE i # p /\ i # new
    BY <1>2, <2>1, <2>4 DEF SonAt, DirAt
  <2>5. QED
    BY <2>2, <2>3, <2>4
<1>6. \A i \in Inum, l \in Position : SonAt(d, c, i, l) =>
        SonAt(D, C, i, l) /\ Ent(D, C, i, l) = Ent(d, c, i, l) /\ i # new /\ Ent(d, c, i, l).inum # new
  <2> SUFFICES ASSUME NEW i \in Inum, NEW l \in Position, SonAt(d, c, i, l)
               PROVE  SonAt(D, C, i, l) /\ Ent(D, C, i, l) = Ent(d, c, i, l) /\ i # new /\ Ent(d, c, i, l).inum # new
    OBVIOUS
  <2>1. DirAt(d, c, i) /\ LiveAt(d, c, i) /\ Ent(d, c, i, l).inum # -1 /\ l \notin {0, 1} /\ i # new
    BY <1>0 DEF SonAt, DirAt
  <2>2. SonOK(d, c, i, l)
    BY DEF TreeOK
  <2>3. Ent(d, c, i, l).inum # new
    BY <1>0, <2>2 DEF SonOK
  <2>4. Ent(D, C, i, l) = Ent(d, c, i, l) /\ DirAt(D, C, i)
    BY <1>0, <1>2, <2>1
  <2>5. QED
    BY <2>1, <2>3, <2>4 DEF SonAt
<1>7. SonAt(D, C, p, k) /\ Ent(D, C, p, k) = [name |-> n, inum |-> new] /\ Ent(D, C, p, k).inum = new
  BY <1>0, <1>3, <1>4 DEF SonAt
<1>8. ASSUME NEW i \in Inum, DirAt(D, C, i) PROVE DirOK(D, C, i)
  <2>1. CASE i = p
    <3>1. Ent(D, C, p, 0) = Ent(d, c, p, 0) /\ Ent(D, C, p, 1) = Ent(d, c, p, 1)
      BY <1>0, <1>4, FirstPositions
    <3>2. ASSUME NEW l \in Position, NEW m \in Position, Ent(D, C, p, l).inum # -1, Ent(D, C, p, m).inum # -1,
                 Ent(D, C, p, l).name = Ent(D, C, p, m).name
          PROVE  l = m
      <4>1. CASE l # k /\ m # k
        BY <1>0, <1>3, <3>2, <4>1 DEF DirOK
      <4>2. CASE l = k /\ m # k
        BY <1>0, <3>2, <4>2
      <4>3. CASE l # k /\ m = k
        BY <1>0, <3>2, <4>3
      <4>4. QED
        BY <4>1, <4>2, <4>3
    <3>3. QED
      BY <1>3, <2>1, <3>1, <3>2 DEF DirOK
  <2>2. CASE i = new
    <3>1. \A l \in Position : Ent(D, C, new, l) = NewEntry(new, p, l)
      BY <1>0, <1>8, <2>2
    <3>2. Ent(D, C, new, 0) = [name |-> Dot, inum |-> new] /\ Ent(D, C, new, 1) = [name |-> DotDot, inum |-> p]
      BY <3>1, FirstPositions DEF NewEntry
    <3>3. \A l \in Position \ {0, 1} : Ent(D, C, new, l).inum = -1
      BY <3>1 DEF NewEntry, NoEntry
    <3>4. QED
      BY <1>0, <2>2, <3>2, <3>3 DEF DirOK
  <2>3. CASE i # p /\ i # new
    <3>1. DirOK(d, c, i) /\ \A l \in Position : Ent(D, C, i, l) = Ent(d, c, i, l)
      BY <1>2, <1>8, <2>3 DEF TreeOK, DirAt
    <3>2. QED
      BY <3>1, FirstPositions DEF DirOK
  <2>4. QED
    BY <2>1, <2>2, <2>3
<1>9. ASSUME NEW i \in Inum, NEW l \in Position, SonAt(D, C, i, l) PROVE SonOK(D, C, i, l)
  <2>1. CASE i = p /\ l = k
    <3>1. DirAt(D, C, new) => Ent(D, C, new, 1) = [name |-> DotDot, inum |-> p]
      BY <1>0, FirstPositions DEF NewEntry
    <3>2. QED
      BY <1>0, <1>1, <1>3, <1>7, <2>1, <3>1 DEF SonOK
  <2>2. CASE ~(i = p /\ l = k)
    <3>1. SonAt(d, c, i, l) /\ Ent(D, C, i, l) = Ent(d, c, i, l) /\ i # new
      BY <1>5, <1>9, <2>2
    <3>2. SonOK(d, c, i, l)
      BY <3>1 DEF TreeOK
    <3>3. PICK s \in Inum : s = Ent(d, c, i, l).inum /\ s # new /\ s # 0 /\ s # i /\ LiveAt(d, c, s)
      BY <1>6, <3>1, <3>2 DEF SonOK
    <3>4. LiveAt(D, C, s) /\ (DirAt(D, C, s) => Ent(D, C, s, 1) = [name |-> DotDot, inum |-> i])
      <4>1. CASE s = p
        <5>1. Ent(D, C, p, 1) = Ent(d, c, p, 1)
          BY <1>0, <1>4, FirstPositions
        <5>2. QED
          BY <1>0, <1>1, <3>2, <3>3, <4>1, <5>1 DEF SonOK
      <4>2. CASE s # p
        BY <1>2, <3>2, <3>3, <4>2, FirstPositions DEF SonOK
      <4>3. QED
        BY <4>1, <4>2
    <3>5. QED
      BY <3>1, <3>2, <3>3, <3>4 DEF SonOK
  <2>3. QED
    BY <2>1, <2>2
<1>10. ASSUME NEW i \in Inum, NEW j \in Inum, NEW l \in Position, NEW m \in Position,
              SonAt(D, C, i, l), SonAt(D, C, j, m), Ent(D, C, i, l).inum = Ent(D, C, j, m).inum
       PROVE  i = j /\ l = m
  <2>1. \A a \in Inum, b \in Position : SonAt(D, C, a, b) /\ ~(a = p /\ b = k) => Ent(D, C, a, b).inum # new
    BY <1>5, <1>6
  <2>2. CASE (i = p /\ l = k) \/ (j = p /\ m = k)
    BY <1>7, <1>10, <2>1, <2>2
  <2>3. CASE ~(i = p /\ l = k) /\ ~(j = p /\ m = k)
    <3>1. /\ SonAt(d, c, i, l) /\ Ent(D, C, i, l) = Ent(d, c, i, l)
          /\ SonAt(d, c, j, m) /\ Ent(D, C, j, m) = Ent(d, c, j, m)
      BY <1>5, <1>10, <2>3
    <3>2. QED
      BY <1>10, <3>1 DEF TreeOK
  <2>4. QED
    BY <2>2, <2>3
<1>11. ASSUME NEW h \in Inum \ {0}, LiveAt(D, C, h)
       PROVE  \E i \in Inum, l \in Position : SonAt(D, C, i, l) /\ Ent(D, C, i, l).inum = h
  <2>1. CASE h = new
    BY <1>0, <1>7, <2>1
  <2>2. CASE h # new
    <3>1. LiveAt(d, c, h)
      BY <1>1, <1>2, <1>11, <2>2
    <3>2. PICK i \in Inum, l \in Position : SonAt(d, c, i, l) /\ Ent(d, c, i, l).inum = h
      BY <3>1 DEF TreeOK
    <3>3. QED
      BY <1>6, <3>2
  <2>3. QED
    BY <2>1, <2>2
<1>12. DirAt(D, C, 0) /\ Ent(D, C, 0, 1) = [name |-> DotDot, inum |-> 0]
  <2>1. DirAt(d, c, 0) /\ LiveAt(d, c, 0) /\ Ent(d, c, 0, 1) = [name |-> DotDot, inum |-> 0]
    BY DEF TreeOK, DirAt
  <2>2. CASE p = 0
    BY <1>0, <1>4, <2>1, <2>2, FirstPositions
  <2>3. CASE p # 0
    BY <1>2, <1>3, <2>1, <2>3, ZeroInum, FirstPositions
  <2>4. QED
    BY <2>2, <2>3
<1>13. Ranked(D, C)
  <2>1. PICK depth \in [Inum -> Nat] :
          \A i \in Inum, l \in Position : SonAt(d, c, i, l) => depth[Ent(d, c, i, l).inum] > depth[i]
    BY DEF TreeOK, Ranked
  <2>2. PICK deeper \in [Inum -> Nat] : deeper = [depth EXCEPT ![new] = depth[p] + 1]
    <3>1. depth \in [Inum -> Nat] /\ depth[p] + 1 \in Nat
      BY <1>0, <2>1
    <3>2. QED
      BY <3>1
  <2>3. deeper[new] = depth[p] + 1 /\ \A i \in Inum \ {new} : deeper[i] = depth[i]
    BY <1>0, <2>1, <2>2
  <2>4. ASSUME NEW i \in Inum, NEW l \in Position, SonAt(D, C, i, l)
        PROVE  deeper[Ent(D, C, i, l).inum] > deeper[i]
    <3>1. CASE i = p /\ l = k
      BY <1>0, <1>1, <1>7, <2>1, <2>3, <3>1
    <3>2. CASE ~(i = p /\ l = k)
      <4>1. SonAt(d, c, i, l) /\ Ent(D, C, i, l) = Ent(d, c, i, l) /\ i # new
        BY <1>5, <2>4, <3>2
      <4>2. PICK s \in Inum : s = Ent(d, c, i, l).inum /\ s # new
        <5>1. SonOK(d, c, i, l)
          BY <4>1 DEF TreeOK
        <5>2. QED
          BY <1>6, <4>1, <5>1 DEF SonOK
      <4>3. QED
        BY <2>1, <2>3, <4>1, <4>2
    <3>3. QED
      BY <3>1, <3>2
  <2>5. QED
    BY <2>2, <2>4 DEF Ranked
<1>14. QED
  BY <1>8, <1>9, <1>10, <1>11, <1>12, <1>13 DEF TreeOK

(* The son del of p, at its entry k, is gone; it had no sons.              *)
Dropped(d, c, D, C, p, del, k) ==
    /\ p \in Inum /\ k \in Position /\ SonAt(d, c, p, k) /\ Ent(d, c, p, k).inum = del
    /\ DirAt(d, c, del) => \A l \in Position \ {0, 1} : Ent(d, c, del, l).inum = -1
    /\ \A j \in Inum \ {p, del} : SameNode(d, c, D, C, j)
    /\ DirAt(D, C, p)
    /\ \A l \in Position : Ent(D, C, p, l) = IF l = k THEN NoEntry ELSE Ent(d, c, p, l)
    /\ ~LiveAt(D, C, del)

LEMMA DroppedTree ==
    ASSUME NEW d, NEW c, NEW D, NEW C, NEW p, NEW del, NEW k, TreeOK(d, c), Dropped(d, c, D, C, p, del, k)
    PROVE  TreeOK(D, C)
<1>0. /\ p \in Inum /\ k \in Position /\ SonAt(d, c, p, k) /\ Ent(d, c, p, k).inum = del
      /\ DirAt(d, c, del) => \A l \in Position \ {0, 1} : Ent(d, c, del, l).inum = -1
      /\ DirAt(D, C, p) /\ ~LiveAt(D, C, del) /\ ~DirAt(D, C, del)
      /\ \A l \in Position : Ent(D, C, p, l) = IF l = k THEN NoEntry ELSE Ent(d, c, p, l)
  BY DEF Dropped, DirAt
<1>1. /\ DirAt(d, c, p) /\ LiveAt(d, c, p) /\ LiveAt(D, C, p) /\ k # 0 /\ k # 1
      /\ del \in Inum /\ del # 0 /\ del # p
  <2>1. SonOK(d, c, p, k)
    BY <1>0 DEF TreeOK
  <2>2. QED
    BY <1>0, <2>1 DEF SonOK, SonAt, DirAt
<1>2. \A j \in Inum \ {p, del} :
        /\ LiveAt(D, C, j) <=> LiveAt(d, c, j)
        /\ DirAt(D, C, j) <=> DirAt(d, c, j)
        /\ LiveAt(d, c, j) => \A l \in Position : Ent(D, C, j, l) = Ent(d, c, j, l)
  BY SameAt DEF Dropped
<1>3. DirOK(d, c, p) /\ NoEntry.inum = -1
  BY <1>0, <1>1 DEF TreeOK, NoEntry
(* The sons are the old ones without del.                                  *)
<1>4. ASSUME NEW i \in Inum, NEW l \in Position, SonAt(D, C, i, l)
      PROVE  SonAt(d, c, i, l) /\ Ent(D, C, i, l) = Ent(d, c, i, l) /\ i # del /\ (i # p \/ l # k)
  <2>1. l # 0 /\ l # 1 /\ DirAt(D, C, i) /\ Ent(D, C, i, l).inum # -1 /\ i # del
    BY <1>0, <1>4 DEF SonAt
  <2>2. CASE i = p
    BY <1>0, <1>1, <1>3, <2>1, <2>2 DEF SonAt
  <2>3. CASE i # p
    BY <1>2, <2>1, <2>3 DEF SonAt, DirAt
  <2>4. QED
    BY <2>2, <2>3
<1>5. ASSUME NEW i \in Inum, NEW l \in Position, SonAt(d, c, i, l), i # p \/ l # k
      PROVE  SonAt(D, C, i, l) /\ Ent(D, C, i, l) = Ent(d, c, i, l) /\ Ent(d, c, i, l).inum # del
  <2>1. DirAt(d, c, i) /\ LiveAt(d, c, i) /\ Ent(d, c, i, l).inum # -1 /\ l \notin {0, 1}
    BY <1>5 DEF SonAt, DirAt
  <2>2. i # del
    BY <1>0, <2>1
  <2>3. Ent(d, c, i, l).inum # del
    BY <1>0, <1>5 DEF TreeOK
  <2>4. Ent(D, C, i, l) = Ent(d, c, i, l) /\ DirAt(D, C, i)
    BY <1>0, <1>2, <1>5, <2>1, <2>2
  <2>5. QED
    BY <2>1, <2>3, <2>4 DEF SonAt
<1>6. ASSUME NEW i \in Inum, DirAt(D, C, i) PROVE DirOK(D, C, i)
  <2>1. CASE i = p
    <3>1. Ent(D, C, p, 0) = Ent(d, c, p, 0) /\ Ent(D, C, p, 1) = Ent(d, c, p, 1)
      BY <1>0, <1>1, FirstPositions
    <3>2. \A l \in Position : Ent(D, C, p, l).inum # -1 => l # k /\ Ent(D, C, p, l) = Ent(d, c, p, l)
      BY <1>0, <1>3
    <3>3. QED
      BY <1>3, <2>1, <3>1, <3>2 DEF DirOK
  <2>2. CASE i # p
    <3>1. DirOK(d, c, i) /\ \A l \in Position : Ent(D, C, i, l) = Ent(d, c, i, l)
      BY <1>0, <1>2, <1>6, <2>2 DEF TreeOK, DirAt
    <3>2. QED
      BY <3>1, FirstPositions DEF DirOK
  <2>3. QED
    BY <2>1, <2>2
<1>7. ASSUME NEW i \in Inum, NEW l \in Position, SonAt(D, C, i, l) PROVE SonOK(D, C, i, l)
  <2>1. SonAt(d, c, i, l) /\ Ent(D, C, i, l) = Ent(d, c, i, l) /\ (i # p \/ l # k)
    BY <1>4, <1>7
  <2>2. SonOK(d, c, i, l)
    BY <2>1 DEF TreeOK
  <2>3. PICK s \in Inum : s = Ent(d, c, i, l).inum /\ s # del /\ s # 0 /\ s # i /\ LiveAt(d, c, s)
    BY <1>5, <2>1, <2>2 DEF SonOK
  <2>4. LiveAt(D, C, s) /\ (DirAt(D, C, s) => Ent(D, C, s, 1) = [name |-> DotDot, inum |-> i])
    <3>1. CASE s = p
      <4>1. Ent(D, C, p, 1) = Ent(d, c, p, 1)
        BY <1>0, <1>1, FirstPositions
      <4>2. QED
        BY <1>1, <2>2, <2>3, <3>1, <4>1 DEF SonOK
    <3>2. CASE s # p
      BY <1>2, <2>2, <2>3, <3>2, FirstPositions DEF SonOK
    <3>3. QED
      BY <3>1, <3>2
  <2>5. QED
    BY <2>1, <2>2, <2>3, <2>4 DEF SonOK
<1>8. ASSUME NEW i \in Inum, NEW j \in Inum, NEW l \in Position, NEW m \in Position,
             SonAt(D, C, i, l), SonAt(D, C, j, m), Ent(D, C, i, l).inum = Ent(D, C, j, m).inum
      PROVE  i = j /\ l = m
  <2>1. /\ SonAt(d, c, i, l) /\ Ent(D, C, i, l) = Ent(d, c, i, l)
        /\ SonAt(d, c, j, m) /\ Ent(D, C, j, m) = Ent(d, c, j, m)
    BY <1>4, <1>8
  <2>2. QED
    BY <1>8, <2>1 DEF TreeOK
<1>9. ASSUME NEW h \in Inum \ {0}, LiveAt(D, C, h)
      PROVE  \E i \in Inum, l \in Position : SonAt(D, C, i, l) /\ Ent(D, C, i, l).inum = h
  <2>1. h # del /\ LiveAt(d, c, h)
    BY <1>0, <1>1, <1>2, <1>9
  <2>2. PICK i \in Inum, l \in Position : SonAt(d, c, i, l) /\ Ent(d, c, i, l).inum = h
    BY <2>1 DEF TreeOK
  <2>3. i # p \/ l # k
    BY <1>0, <2>1, <2>2
  <2>4. SonAt(D, C, i, l) /\ Ent(D, C, i, l).inum = h
    BY <1>5, <2>2, <2>3
  <2>5. QED
    BY <2>4
<1>10. DirAt(D, C, 0) /\ Ent(D, C, 0, 1) = [name |-> DotDot, inum |-> 0]
  <2>1. DirAt(d, c, 0) /\ LiveAt(d, c, 0) /\ Ent(d, c, 0, 1) = [name |-> DotDot, inum |-> 0]
    BY DEF TreeOK, DirAt
  <2>2. CASE p = 0
    BY <1>0, <1>1, <2>1, <2>2, FirstPositions
  <2>3. CASE p # 0
    BY <1>1, <1>2, <2>1, <2>3, ZeroInum, FirstPositions
  <2>4. QED
    BY <2>2, <2>3
<1>11. Ranked(D, C)
  BY <1>4 DEF TreeOK, Ranked
<1>12. QED
  BY <1>6, <1>7, <1>8, <1>9, <1>10, <1>11 DEF TreeOK

-----------------------------------------------------------------------------
(* The same tree as a value, and what an operation may make of it.         *)

UsedAt(d, c, i)    == {k \in Position : Ent(d, c, i, k).inum # -1}
EntriesAt(d, c, i) == {Ent(d, c, i, k) : k \in UsedAt(d, c, i)}
BlocksAt(d, c, i)  == [b \in Offset |-> DatOf(d, NodeAt(d, c, i), b)]

DirWith(entries) == [type |-> "dir", entries |-> entries]
FileWith(blocks) == [type |-> "file", blocks |-> blocks]

TreeNode(d, c, i) ==
    IF ~LiveAt(d, c, i) THEN None
    ELSE IF DirAt(d, c, i) THEN DirWith(EntriesAt(d, c, i)) ELSE FileWith(BlocksAt(d, c, i))

TreeAt(d, c) == [i \in Inum |-> TreeNode(d, c, i)]

IsDirIn(T, i)  == i \in Inum /\ T[i] # None /\ T[i].type = "dir"
IsFileIn(T, i) == i \in Inum /\ T[i] # None /\ T[i].type = "file"

(* U is T after the request r, which writes, creates or removes.           *)
PromisedWrite(T, U, r) ==
    /\ r.op = "write" /\ IsFileIn(T, r.inum) /\ r.block \in Offset
    /\ U = [T EXCEPT ![r.inum] = FileWith([T[r.inum].blocks EXCEPT ![r.block] = r.data])]

PromisedCreat(T, U, r) ==
    /\ r.op = "creat" /\ IsDirIn(T, r.inum) /\ {e \in T[r.inum].entries : e.name = r.name} = {}
    /\ Cardinality(T[r.inum].entries) # MAX_DIRECT_P * MAX_DIR_ENTRIES
    /\ \E i \in Inum : T[i] = None /\ i # r.inum /\
         U = [T EXCEPT ![r.inum] = DirWith(T[r.inum].entries \cup {[name |-> r.name, inum |-> i]}),
                       ![i] = IF r.type = "dir"
                              THEN DirWith({[name |-> Dot, inum |-> i], [name |-> DotDot, inum |-> r.inum]})
                              ELSE FileWith([b \in Offset |-> None])]

PromisedUnlink(T, U, r) ==
    /\ r.op = "unlink" /\ IsDirIn(T, r.inum)
    /\ \E e \in T[r.inum].entries :
         /\ e.name = r.name /\ e.inum \in Inum \ {r.inum}
         /\ ~(IsDirIn(T, e.inum) /\ Cardinality(T[e.inum].entries) > 2)
         /\ U = [T EXCEPT ![r.inum] = DirWith(T[r.inum].entries \ {e}), ![e.inum] = None]

Promised(T, U, r) == PromisedWrite(T, U, r) \/ PromisedCreat(T, U, r) \/ PromisedUnlink(T, U, r)

LEMMA SameTreeNode ==
    ASSUME NEW d, NEW c, NEW D, NEW C, NEW i, SameNode(d, c, D, C, i)
    PROVE  TreeNode(D, C, i) = TreeNode(d, c, i)
<1>1. /\ LiveAt(D, C, i) <=> LiveAt(d, c, i)
      /\ DirAt(D, C, i) <=> DirAt(d, c, i)
      /\ LiveAt(d, c, i) => \A k \in Position : Ent(D, C, i, k) = Ent(d, c, i, k)
  BY SameAt
<1>2. LiveAt(d, c, i) => EntriesAt(D, C, i) = EntriesAt(d, c, i)
  BY <1>1 DEF EntriesAt, UsedAt
<1>3. LiveAt(d, c, i) => BlocksAt(D, C, i) = BlocksAt(d, c, i)
  BY DEF SameNode, BlocksAt, LiveAt
<1>4. QED
  BY <1>1, <1>2, <1>3 DEF TreeNode

LEMMA SameTreeAt ==
    ASSUME NEW d, NEW c, NEW D, NEW C, \A i \in Inum : SameNode(d, c, D, C, i)
    PROVE  TreeAt(D, C) = TreeAt(d, c)
BY SameTreeNode DEF TreeAt

(* No two entries of a directory are the same.                             *)
LEMMA EntriesDiffer ==
    ASSUME NEW d, NEW c, NEW i, DirOK(d, c, i)
    PROVE  /\ \A k, l \in UsedAt(d, c, i) : Ent(d, c, i, k) = Ent(d, c, i, l) => k = l
           /\ IsFiniteSet(UsedAt(d, c, i)) /\ Cardinality(UsedAt(d, c, i)) \in Nat
           /\ Cardinality(EntriesAt(d, c, i)) = Cardinality(UsedAt(d, c, i))
<1>1. \A k, l \in UsedAt(d, c, i) : Ent(d, c, i, k) = Ent(d, c, i, l) => k = l
  BY DEF DirOK, UsedAt
<1>2. IsFiniteSet(UsedAt(d, c, i)) /\ Cardinality(UsedAt(d, c, i)) \in Nat
  BY FinitePosition, FS_Subset, FS_CardinalityType DEF UsedAt
<1>3. PICK f : f = [k \in UsedAt(d, c, i) |-> Ent(d, c, i, k)]
  OBVIOUS
<1>4. f \in Bijection(UsedAt(d, c, i), EntriesAt(d, c, i))
  <2>1. f \in [UsedAt(d, c, i) -> EntriesAt(d, c, i)] /\ \A k \in UsedAt(d, c, i) : f[k] = Ent(d, c, i, k)
    BY <1>3 DEF EntriesAt
  <2>2. f \in Injection(UsedAt(d, c, i), EntriesAt(d, c, i))
    BY <1>1, <2>1 DEF Injection, IsInjective
  <2>3. f \in Surjection(UsedAt(d, c, i), EntriesAt(d, c, i))
    BY <2>1 DEF Surjection, EntriesAt
  <2>4. QED
    BY <2>2, <2>3 DEF Bijection
<1>5. ExistsBijection(UsedAt(d, c, i), EntriesAt(d, c, i))
  BY <1>4 DEF ExistsBijection
<1>6. QED
  BY <1>1, <1>2, <1>5, FS_Bijection

LEMMA NodeType ==
    ASSUME NEW d, NEW c, ImageOK(d, c), NEW i \in Inum
    PROVE  /\ DirAt(d, c, i) => EntriesAt(d, c, i) \subseteq EntryType
           /\ LiveAt(d, c, i) /\ ~DirAt(d, c, i) => BlocksAt(d, c, i) \in [Offset -> Data \cup {None}]
           /\ LiveAt(d, c, i) => TreeNode(d, c, i) \in Node
<1>1. ASSUME LiveAt(d, c, i) PROVE NodeOK(d, c.log_end, NodeAt(d, c, i))
  BY <1>1 DEF ImageOK, LiveAt
<1>2. ASSUME DirAt(d, c, i) PROVE EntriesAt(d, c, i) \subseteq EntryType
  <2>1. ASSUME NEW k \in Position PROVE Ent(d, c, i, k) \in EntryType
    <3>1. NodeOK(d, c.log_end, NodeAt(d, c, i)) /\ NodeAt(d, c, i).type = "dir"
      BY <1>1, <1>2 DEF DirAt
    <3>2. CASE NodeAt(d, c, i).dp[BlockOf(k)] = 0
      BY <3>2, NoEntryType DEF Ent, EntOf
    <3>3. CASE NodeAt(d, c, i).dp[BlockOf(k)] # 0
      <4>1. d[NodeAt(d, c, i).dp[BlockOf(k)]] \in DirBlock
        BY <3>1, <3>3, PositionPlace DEF NodeOK, Blocks
      <4>2. QED
        BY <3>3, <4>1, DirBlockIs, PositionPlace DEF Ent, EntOf
    <3>4. QED
      BY <3>2, <3>3
  <2>2. QED
    BY <2>1 DEF EntriesAt, UsedAt
<1>3. ASSUME LiveAt(d, c, i), ~DirAt(d, c, i) PROVE BlocksAt(d, c, i) \in [Offset -> Data \cup {None}]
  <2>1. NodeOK(d, c.log_end, NodeAt(d, c, i)) /\ NodeAt(d, c, i).type = "file"
    BY <1>1, <1>3, NodeTypes DEF DirAt
  <2>2. \A b \in Offset : DatOf(d, NodeAt(d, c, i), b) \in Data \cup {None}
    BY <2>1, NodeTypes
  <2>3. QED
    BY <2>2 DEF BlocksAt
<1>4. DirAt(d, c, i) => DirWith(EntriesAt(d, c, i)) \in Node
  BY <1>2 DEF Node, DirWith, EntryType
<1>5. LiveAt(d, c, i) /\ ~DirAt(d, c, i) => FileWith(BlocksAt(d, c, i)) \in Node
  BY <1>3 DEF Node, FileWith
<1>6. QED
  BY <1>2, <1>3, <1>4, <1>5 DEF TreeNode

LEMMA NodeInTree ==
    ASSUME NEW d, NEW c, ImageOK(d, c), NEW i \in Inum
    PROVE  /\ TreeAt(d, c)[i] = TreeNode(d, c, i)
           /\ TreeAt(d, c)[i] = None <=> ~LiveAt(d, c, i)
           /\ IsDirIn(TreeAt(d, c), i) <=> DirAt(d, c, i)
           /\ IsFileIn(TreeAt(d, c), i) <=> LiveAt(d, c, i) /\ ~DirAt(d, c, i)
           /\ DirAt(d, c, i) => TreeAt(d, c)[i].entries = EntriesAt(d, c, i)
           /\ IsFileIn(TreeAt(d, c), i) => TreeAt(d, c)[i].blocks = BlocksAt(d, c, i)
<1>1. TreeAt(d, c)[i] = TreeNode(d, c, i)
  BY DEF TreeAt
<1>2. LiveAt(d, c, i) => TreeNode(d, c, i) # None
  BY NodeType, NodeAssumption
<1>3. ~LiveAt(d, c, i) => TreeNode(d, c, i) = None
  BY DEF TreeNode
<1>4. ASSUME DirAt(d, c, i) PROVE TreeNode(d, c, i).type = "dir" /\ TreeNode(d, c, i).entries = EntriesAt(d, c, i)
  BY <1>4 DEF TreeNode, DirAt, DirWith
<1>5. ASSUME LiveAt(d, c, i), ~DirAt(d, c, i)
      PROVE  TreeNode(d, c, i).type = "file" /\ TreeNode(d, c, i).blocks = BlocksAt(d, c, i)
  BY <1>5 DEF TreeNode, FileWith
<1>6. DirAt(d, c, i) => LiveAt(d, c, i)
  BY DEF DirAt
<1>7. QED
  BY <1>1, <1>2, <1>3, <1>4, <1>5, <1>6 DEF IsDirIn, IsFileIn

(* The contents x in block b of the file i.                                *)
Wrote(d, c, D, C, i, b, x) ==
    /\ i \in Inum /\ LiveAt(d, c, i) /\ ~DirAt(d, c, i) /\ b \in Offset
    /\ \A j \in Inum \ {i} : SameNode(d, c, D, C, j)
    /\ LiveAt(D, C, i) /\ ~DirAt(D, C, i)
    /\ \A o \in Offset : DatOf(D, NodeAt(D, C, i), o) = IF o = b THEN x ELSE DatOf(d, NodeAt(d, c, i), o)

LEMMA WrotePromise ==
    ASSUME NEW d, NEW c, ImageOK(d, c), NEW D, NEW C, NEW i, NEW b, NEW x, Wrote(d, c, D, C, i, b, x),
           NEW r, r.op = "write", r.inum = i, r.block = b, r.data = x
    PROVE  SameDirs(d, c, D, C) /\ PromisedWrite(TreeAt(d, c), TreeAt(D, C), r)
<1>0. /\ i \in Inum /\ LiveAt(d, c, i) /\ ~DirAt(d, c, i) /\ b \in Offset
      /\ LiveAt(D, C, i) /\ ~DirAt(D, C, i)
      /\ \A o \in Offset : DatOf(D, NodeAt(D, C, i), o) = IF o = b THEN x ELSE DatOf(d, NodeAt(d, c, i), o)
  BY DEF Wrote
<1>1. \A j \in Inum \ {i} : /\ SameNode(d, c, D, C, j)
                            /\ TreeNode(D, C, j) = TreeNode(d, c, j)
  BY SameTreeNode DEF Wrote
<1>2. SameDirs(d, c, D, C)
  <2>1. ASSUME NEW j \in Inum
        PROVE  /\ LiveAt(D, C, j) <=> LiveAt(d, c, j)
               /\ DirAt(D, C, j) <=> DirAt(d, c, j)
               /\ DirAt(d, c, j) => \A k \in Position : Ent(D, C, j, k) = Ent(d, c, j, k)
    <3>1. CASE j = i
      BY <1>0, <3>1
    <3>2. CASE j # i
      BY <1>1, <3>2, SameAt DEF DirAt
    <3>3. QED
      BY <3>1, <3>2
  <2>2. QED
    BY <2>1 DEF SameDirs
<1>3. BlocksAt(D, C, i) = [BlocksAt(d, c, i) EXCEPT ![b] = x]
  BY <1>0 DEF BlocksAt
<1>4. TreeNode(D, C, i) = FileWith([BlocksAt(d, c, i) EXCEPT ![b] = x])
  BY <1>0, <1>3 DEF TreeNode
<1>5. IsFileIn(TreeAt(d, c), i) /\ TreeAt(d, c)[i].blocks = BlocksAt(d, c, i)
  BY <1>0, NodeInTree
<1>6. TreeAt(D, C) = [TreeAt(d, c) EXCEPT ![i] = FileWith([TreeAt(d, c)[i].blocks EXCEPT ![b] = x])]
  BY <1>0, <1>1, <1>4, <1>5 DEF TreeAt
<1>7. QED
  BY <1>0, <1>2, <1>5, <1>6 DEF PromisedWrite

LEMMA AddedPromise ==
    ASSUME NEW d, NEW c, ImageOK(d, c), TreeOK(d, c), NEW D, NEW C, NEW p, NEW t, NEW new, NEW k, NEW n,
           Added(d, c, D, C, p, t, new, k, n),
           NEW r, r.op = "creat", r.inum = p, r.name = n, r.type = t
    PROVE  PromisedCreat(TreeAt(d, c), TreeAt(D, C), r)
<1>0. /\ p \in Inum /\ DirAt(d, c, p) /\ new \in Inum /\ ~LiveAt(d, c, new) /\ t \in {"dir", "file"}
      /\ k \in Position /\ Ent(d, c, p, k).inum = -1 /\ n \in Name
      /\ \A l \in Position : Ent(d, c, p, l).inum # -1 => Ent(d, c, p, l).name # n
      /\ DirAt(D, C, p) /\ LiveAt(D, C, new) /\ NodeAt(D, C, new).type = t
      /\ \A l \in Position : Ent(D, C, p, l) = IF l = k THEN [name |-> n, inum |-> new] ELSE Ent(d, c, p, l)
      /\ t = "dir" => \A l \in Position : Ent(D, C, new, l) = NewEntry(new, p, l)
      /\ t = "file" => \A b \in Offset : DatOf(D, NodeAt(D, C, new), b) = None
  BY DEF Added
<1>1. p # new /\ LiveAt(D, C, p) /\ DirOK(d, c, p) /\ new # -1 /\ p # -1
  BY <1>0, InumNotMinus DEF DirAt, TreeOK
<1>2. \A j \in Inum \ {p, new} : TreeNode(D, C, j) = TreeNode(d, c, j)
  BY SameTreeNode DEF Added
<1>3. EntriesAt(D, C, p) = EntriesAt(d, c, p) \cup {[name |-> n, inum |-> new]}
  <2>1. UsedAt(D, C, p) = UsedAt(d, c, p) \cup {k} /\ k \notin UsedAt(d, c, p)
    BY <1>0, <1>1 DEF UsedAt
  <2>2. \A l \in UsedAt(d, c, p) : Ent(D, C, p, l) = Ent(d, c, p, l)
    BY <1>0, <2>1 DEF UsedAt
  <2>3. QED
    BY <1>0, <2>1, <2>2 DEF EntriesAt
<1>4. TreeNode(D, C, p) = DirWith(EntriesAt(d, c, p) \cup {[name |-> n, inum |-> new]})
  BY <1>0, <1>1, <1>3 DEF TreeNode
<1>5. TreeNode(D, C, new) = IF t = "dir"
                            THEN DirWith({[name |-> Dot, inum |-> new], [name |-> DotDot, inum |-> p]})
                            ELSE FileWith([b \in Offset |-> None])
  <2>1. CASE t = "dir"
    <3>1. DirAt(D, C, new)
      BY <1>0, <2>1 DEF DirAt
    <3>2. UsedAt(D, C, new) = {0, 1}
      BY <1>0, <1>1, <2>1, FirstPositions DEF UsedAt, NewEntry, NoEntry
    <3>3. Ent(D, C, new, 0) = [name |-> Dot, inum |-> new] /\ Ent(D, C, new, 1) = [name |-> DotDot, inum |-> p]
      BY <1>0, <2>1, FirstPositions DEF NewEntry
    <3>4. EntriesAt(D, C, new) = {[name |-> Dot, inum |-> new], [name |-> DotDot, inum |-> p]}
      BY <3>2, <3>3 DEF EntriesAt
    <3>5. QED
      BY <1>0, <2>1, <3>1, <3>4 DEF TreeNode
  <2>2. CASE t = "file"
    <3>1. ~DirAt(D, C, new)
      BY <1>0, <2>2 DEF DirAt
    <3>2. BlocksAt(D, C, new) = [b \in Offset |-> None]
      BY <1>0, <2>2 DEF BlocksAt
    <3>3. QED
      BY <1>0, <2>2, <3>1, <3>2 DEF TreeNode
  <2>3. QED
    BY <1>0, <2>1, <2>2
<1>6. IsDirIn(TreeAt(d, c), p) /\ TreeAt(d, c)[p].entries = EntriesAt(d, c, p) /\ TreeAt(d, c)[new] = None
  BY <1>0, NodeInTree
<1>7. {e \in EntriesAt(d, c, p) : e.name = n} = {}
  BY <1>0 DEF EntriesAt, UsedAt
<1>8. Cardinality(EntriesAt(d, c, p)) # MAX_DIRECT_P * MAX_DIR_ENTRIES
  <2>1. UsedAt(d, c, p) \in SUBSET Position /\ UsedAt(d, c, p) # Position
    BY <1>0 DEF UsedAt
  <2>2. Cardinality(UsedAt(d, c, p)) # Cardinality(Position)
    BY <2>1, FinitePosition, FS_Subset
  <2>3. QED
    BY <1>1, <2>2, FinitePosition, EntriesDiffer
<1>9. PICK x, y : x = TreeNode(D, C, p) /\ y = TreeNode(D, C, new)
  OBVIOUS
<1>10. TreeAt(D, C) = [TreeAt(d, c) EXCEPT ![p] = x, ![new] = y]
  BY <1>0, <1>1, <1>2, <1>9 DEF TreeAt
<1>11. PICK T, U : T = TreeAt(d, c) /\ U = TreeAt(D, C)
  OBVIOUS
<1>12. /\ IsDirIn(T, p) /\ {e \in T[p].entries : e.name = n} = {}
       /\ Cardinality(T[p].entries) # MAX_DIRECT_P * MAX_DIR_ENTRIES
  BY <1>6, <1>7, <1>8, <1>11
<1>13. /\ T[new] = None /\ new # p
       /\ U = [T EXCEPT ![p] = DirWith(T[p].entries \cup {[name |-> n, inum |-> new]}),
                        ![new] = IF t = "dir"
                                 THEN DirWith({[name |-> Dot, inum |-> new], [name |-> DotDot, inum |-> p]})
                                 ELSE FileWith([b \in Offset |-> None])]
  <2>1. x = DirWith(T[p].entries \cup {[name |-> n, inum |-> new]})
    BY <1>4, <1>6, <1>9, <1>11
  <2>2. QED
    BY <1>1, <1>5, <1>6, <1>9, <1>10, <1>11, <2>1
<1>14. PromisedCreat(T, U, r)
  BY <1>0, <1>12, <1>13 DEF PromisedCreat
<1>15. QED
  BY <1>11, <1>14

LEMMA DroppedPromise ==
    ASSUME NEW d, NEW c, ImageOK(d, c), TreeOK(d, c), NEW D, NEW C, NEW p, NEW del, NEW k,
           Dropped(d, c, D, C, p, del, k),
           NEW r, r.op = "unlink", r.inum = p, r.name = Ent(d, c, p, k).name
    PROVE  PromisedUnlink(TreeAt(d, c), TreeAt(D, C), r)
<1>0. /\ p \in Inum /\ k \in Position /\ SonAt(d, c, p, k) /\ Ent(d, c, p, k).inum = del
      /\ DirAt(d, c, del) => \A l \in Position \ {0, 1} : Ent(d, c, del, l).inum = -1
      /\ DirAt(D, C, p) /\ ~LiveAt(D, C, del)
      /\ \A l \in Position : Ent(D, C, p, l) = IF l = k THEN NoEntry ELSE Ent(d, c, p, l)
  BY DEF Dropped
<1>1. /\ DirAt(d, c, p) /\ LiveAt(D, C, p) /\ Ent(d, c, p, k).inum # -1
      /\ del \in Inum /\ del # 0 /\ del # p /\ DirOK(d, c, p) /\ NoEntry.inum = -1
  <2>1. SonOK(d, c, p, k)
    BY <1>0 DEF TreeOK
  <2>2. QED
    BY <1>0, <2>1 DEF SonOK, SonAt, DirAt, TreeOK, NoEntry
<1>2. \A j \in Inum \ {p, del} : TreeNode(D, C, j) = TreeNode(d, c, j)
  BY SameTreeNode DEF Dropped
<1>3. PICK e : e = Ent(d, c, p, k)
  OBVIOUS
<1>4. EntriesAt(D, C, p) = EntriesAt(d, c, p) \ {e}
  <2>1. UsedAt(D, C, p) = UsedAt(d, c, p) \ {k} /\ k \in UsedAt(d, c, p)
    BY <1>0, <1>1 DEF UsedAt
  <2>2. \A l \in UsedAt(D, C, p) : Ent(D, C, p, l) = Ent(d, c, p, l)
    BY <1>0, <2>1 DEF UsedAt
  <2>3. \A l \in UsedAt(d, c, p) : Ent(d, c, p, l) = e <=> l = k
    BY <1>1, <1>3, <2>1, EntriesDiffer
  <2>4. QED
    BY <2>1, <2>2, <2>3 DEF EntriesAt
<1>5. TreeNode(D, C, p) = DirWith(EntriesAt(d, c, p) \ {e}) /\ TreeNode(D, C, del) = None
  BY <1>0, <1>1, <1>4 DEF TreeNode
<1>6. IsDirIn(TreeAt(d, c), p) /\ TreeAt(d, c)[p].entries = EntriesAt(d, c, p)
  BY <1>0, <1>1, NodeInTree
<1>7. e \in EntriesAt(d, c, p) /\ e.name = r.name /\ e.inum = del
  BY <1>0, <1>1, <1>3 DEF EntriesAt, UsedAt
<1>8. ASSUME IsDirIn(TreeAt(d, c), del) PROVE ~(Cardinality(TreeAt(d, c)[del].entries) > 2)
  <2>1. DirAt(d, c, del) /\ TreeAt(d, c)[del].entries = EntriesAt(d, c, del)
    BY <1>1, <1>8, NodeInTree
  <2>2. DirOK(d, c, del) /\ UsedAt(d, c, del) \subseteq {0, 1}
    BY <1>0, <1>1, <2>1 DEF TreeOK, UsedAt
  <2>3. IsFiniteSet({0, 1}) /\ Cardinality({0, 1}) = 2
    <3>1. IsFiniteSet({0}) /\ Cardinality({0}) = 1
      BY FS_Singleton
    <3>2. PICK S, m : S = {0} /\ m = 1
      OBVIOUS
    <3>3. IsFiniteSet(S \cup {m}) /\ Cardinality(S \cup {m}) = 2
      <4>1. IsFiniteSet(S) /\ Cardinality(S) = 1 /\ m \notin S
        BY <3>1, <3>2
      <4>2. QED
        BY <4>1, FS_AddElement
    <3>4. S \cup {m} = {0, 1}
      BY <3>2
    <3>5. QED
      BY <3>3, <3>4, Zenon
  <2>4. Cardinality(UsedAt(d, c, del)) <= 2
    BY <2>2, <2>3, FS_Subset
  <2>5. QED
    BY <2>1, <2>2, <2>4, EntriesDiffer
<1>9. PICK x, y : x = TreeNode(D, C, p) /\ y = TreeNode(D, C, del)
  OBVIOUS
<1>10. TreeAt(D, C) = [TreeAt(d, c) EXCEPT ![p] = x, ![del] = y]
  BY <1>0, <1>1, <1>2, <1>9 DEF TreeAt
<1>11. PICK T, U : T = TreeAt(d, c) /\ U = TreeAt(D, C)
  OBVIOUS
<1>12. /\ IsDirIn(T, p) /\ e \in T[p].entries /\ e.name = r.name /\ e.inum = del /\ e.inum \in Inum \ {p}
       /\ ~(IsDirIn(T, e.inum) /\ Cardinality(T[e.inum].entries) > 2)
  BY <1>1, <1>6, <1>7, <1>8, <1>11
<1>13. U = [T EXCEPT ![p] = DirWith(T[p].entries \ {e}), ![e.inum] = None]
  BY <1>5, <1>6, <1>7, <1>9, <1>10, <1>11
<1>14. PromisedUnlink(T, U, r)
  BY <1>12, <1>13 DEF PromisedUnlink
<1>15. QED
  BY <1>11, <1>14

-----------------------------------------------------------------------------
(* The running operation: the blocks t it has yet to append, before e, over*)
(* what is on the disk.                                                    *)

Overlaid(d, t, e) == [a \in Addr |-> IF e - Len(t) <= a /\ a < e THEN t[a - (e - Len(t)) + 1] ELSE d[a]]

Pending(d, c, t, C, r) ==
    /\ C \in CR /\ c.log_end + Len(t) <= C.log_end
    /\ ImageOK(Overlaid(d, t, C.log_end), C) /\ TreeOK(Overlaid(d, t, C.log_end), C)
    /\ Promised(TreeAt(d, c), TreeAt(Overlaid(d, t, C.log_end), C), r)

(* The image on the disk is good whatever has been appended, and so will be*)
(* the image with all the blocks of the running operation, seen from its   *)
(* checkpoint region.                                                      *)
IInv ==
    /\ disk \in [Addr -> LogBlock \cup {None}] /\ todo \in Seq(LogBlock)
    /\ ImageOK(disk, cr) /\ TreeOK(disk, cr)
    /\ call \in Request \cup {None}
    /\ call = None => newcr = None /\ reply = None
    /\ newcr = None => todo = <<>>
    /\ newcr # None => reply = None /\ Pending(disk, cr, todo, newcr, call)

Overlays(d, O, t, e, E) ==
    /\ t \in Seq(LogBlock) /\ e \in Nat /\ e >= 1 /\ E \in Nat /\ E = e + Len(t) /\ E <= MaxLog + 1
    /\ O = Overlaid(d, t, E)

LEMMA OverlaidIs ==
    ASSUME NEW d, NEW O, NEW t, NEW e, NEW E, Overlays(d, O, t, e, E)
    PROVE  Agree(d, O, e) /\ \A j \in Nat : j < Len(t) => O[e + j] = t[j + 1]
<1>1. /\ t \in Seq(LogBlock) /\ e \in Nat /\ e >= 1 /\ E \in Nat /\ E = e + Len(t) /\ E <= MaxLog + 1
      /\ O = Overlaid(d, t, E) /\ Len(t) \in Nat /\ E - Len(t) = e
  BY LenProperties DEF Overlays
<1>2. ASSUME NEW a \in Addr, a < e PROVE O[a] = d[a]
  BY <1>1, <1>2 DEF Overlaid, Addr
<1>3. ASSUME NEW j \in Nat, j < Len(t) PROVE O[e + j] = t[j + 1]
  <2>1. e + j \in Addr /\ e <= e + j /\ e + j < E /\ e + j - e + 1 = j + 1
    BY <1>1, <1>3 DEF Addr
  <2>2. QED
    BY <1>1, <2>1 DEF Overlaid
<1>4. QED
  BY <1>2, <1>3 DEF Agree

Appends(d, t, e, E, D) ==
    /\ d \in [Addr -> LogBlock \cup {None}] /\ t \in Seq(LogBlock) /\ t # <<>> /\ E \in Nat /\ E <= MaxLog + 1
    /\ e \in Nat /\ e >= 1 /\ e + Len(t) <= E /\ D = [d EXCEPT ![E - Len(t)] = Head(t)]

LEMMA OverlaidNext ==
    ASSUME NEW d, NEW t, NEW e, NEW E, NEW D, Appends(d, t, e, E, D)
    PROVE  /\ Overlaid(D, Tail(t), E) = Overlaid(d, t, E) /\ Tail(t) \in Seq(LogBlock)
           /\ Agree(d, D, e) /\ e + Len(Tail(t)) <= E
<1> /\ d \in [Addr -> LogBlock \cup {None}] /\ t \in Seq(LogBlock) /\ t # <<>> /\ E \in Nat /\ E <= MaxLog + 1
    /\ e \in Nat /\ e >= 1 /\ e + Len(t) <= E /\ D = [d EXCEPT ![E - Len(t)] = Head(t)]
  BY DEF Appends
<1>1. /\ Len(t) \in Nat /\ Len(t) >= 1 /\ Len(Tail(t)) = Len(t) - 1 /\ Head(t) = t[1] /\ Tail(t) \in Seq(LogBlock)
      /\ \A j \in 1 .. Len(t) - 1 : Tail(t)[j] = t[j + 1]
  BY LenProperties, EmptySeq, HeadTailProperties
<1>2. PICK x \in Nat : x = E - Len(t) /\ e <= x /\ x + 1 <= E /\ x + Len(t) = E
  <2>1. PICK n \in Nat : n = Len(t) /\ n >= 1 /\ e + n <= E
    BY <1>1, Zenon
  <2>2. E - n \in Nat /\ e <= E - n /\ E - n + 1 <= E /\ E - n + n = E
    BY <2>1
  <2>3. QED
    BY <2>1, <2>2, Zenon
<1>3. x \in Addr
  BY <1>1, <1>2 DEF Addr
<1>4. \A a \in Addr : D[a] = IF a = x THEN t[1] ELSE d[a]
  BY <1>1, <1>2, <1>3
<1>0. PICK s : s = Tail(t)
  OBVIOUS
<1>5. PICK n \in Nat : s = Tail(t) /\ n = Len(s) /\ E - n = x + 1
  <2>1. Len(s) \in Nat /\ Len(s) = Len(t) - 1
    BY <1>0, <1>1
  <2>2. E - Len(s) = x + 1
    BY <1>1, <1>2, <2>1
  <2>3. QED
    BY <1>0, <2>1, <2>2
<1>6. ASSUME NEW a \in Addr
      PROVE  (IF E - n <= a /\ a < E THEN s[a - (E - n) + 1] ELSE D[a])
             = IF E - Len(t) <= a /\ a < E THEN t[a - (E - Len(t)) + 1] ELSE d[a]
  <2>0. a \in Nat
    BY DEF Addr
  <2>1. CASE a < x
    BY <1>2, <1>4, <1>5, <2>0, <2>1
  <2>2. CASE a = x
    BY <1>1, <1>2, <1>4, <1>5, <2>0, <2>2
  <2>3. CASE a > x /\ a < E
    <3>1. a - (x + 1) + 1 \in 1 .. Len(t) - 1 /\ a - (x + 1) + 1 + 1 = a - x + 1
      BY <1>1, <1>2, <2>0, <2>3
    <3>2. s[a - (x + 1) + 1] = t[a - (x + 1) + 1 + 1]
      BY <1>1, <1>5, <3>1
    <3>3. QED
      BY <1>1, <1>2, <1>5, <2>0, <2>3, <3>1, <3>2
  <2>4. CASE a >= E
    BY <1>1, <1>2, <1>4, <1>5, <2>0, <2>4
  <2>5. QED
    BY <1>2, <2>0, <2>1, <2>2, <2>3, <2>4
<1>7. Overlaid(D, s, E) = Overlaid(d, t, E)
  BY <1>5, <1>6 DEF Overlaid
<1>8. Agree(d, D, e)
  BY <1>2, <1>4 DEF Agree, Addr
<1>9. QED
  BY <1>1, <1>5, <1>7, <1>8

LEMMA OverlaidNothing ==
    ASSUME NEW S, NEW d \in [Addr -> S], NEW E \in Nat
    PROVE  Overlaid(d, <<>>, E) = d
<1>1. \A a \in Addr : ~(E - Len(<<>>) <= a /\ a < E)
  BY DEF Addr
<1>2. QED
  BY <1>1 DEF Overlaid

(* The three operations that append.                                       *)
LEMMA WritePending ==
    ASSUME NEW d, NEW c, ImageOK(d, c), TreeOK(d, c), NEW i \in Inum, LiveAt(d, c, i), ~DirAt(d, c, i),
           NEW b \in Offset, NEW x \in Data, NEW m, Rewritten(NodeAt(d, c, i), m, b, c.log_end),
           NEW z, z = Setting(MapAt(d, c, Piece(i)), i, c.log_end + 1),
           NEW t, t = <<[data |-> x], m, z>>, c.log_end + Len(t) <= MaxLog + 1,
           NEW C, C = [log_end |-> c.log_end + Len(t), imap_p |-> [c.imap_p EXCEPT ![Piece(i)] = c.log_end + 2]],
           NEW r, r.op = "write", r.inum = i, r.block = b, r.data = x
    PROVE  t \in Seq(LogBlock) /\ C \in CR /\ Pending(d, c, t, C, r)
<1>1. PICK e \in Nat : e = c.log_end /\ e >= 1
  BY ImageTypes
<1>0. PICK s : s = t
  OBVIOUS
<1>2. Len(s) = 3 /\ C.log_end = e + 3 /\ e + 3 <= MaxLog + 1 /\ s[1] = [data |-> x] /\ s[2] = m /\ s[3] = z
  BY <1>0, <1>1
<1>3. s \in Seq(LogBlock)
  <2>1. [data |-> x] \in LogBlock /\ m \in LogBlock
    BY DEF LogBlock, DataBlock, Rewritten
  <2>2. z \in LogBlock
    <3>1. MapAt(d, c, Piece(i)) \in Imap /\ e + 1 \in Addr \cup {0}
      BY <1>1, <1>2, ImageTypes, InumPlace DEF Addr
    <3>2. QED
      BY <1>1, <3>1, SettingIs DEF LogBlock
  <2>3. QED
    BY <1>0, <2>1, <2>2
<1>4. PICK E \in Nat : E = e + 3 /\ E = C.log_end
  BY <1>2
<1>5. PICK O : O = Overlaid(d, s, E)
  OBVIOUS
<1>6. Agree(d, O, e) /\ O[e] = [data |-> x] /\ O[e + 1] = m /\ O[e + 2] = z
  <2>0. Overlays(d, O, s, e, E)
    BY <1>1, <1>2, <1>3, <1>4, <1>5 DEF Overlays
  <2>1. Agree(d, O, e) /\ \A j \in Nat : j < Len(s) => O[e + j] = s[j + 1]
    BY <2>0, OverlaidIs
  <2>2. O[e + 0] = s[0 + 1] /\ O[e + 1] = s[1 + 1] /\ O[e + 2] = s[2 + 1]
    BY <1>2, <2>1
  <2>3. e + 0 = e
    OBVIOUS
  <2>4. QED
    BY <1>2, <2>1, <2>2, <2>3
<1>7. WriteMade(d, c, O, C, i, b, x)
  BY <1>1, <1>2, <1>6 DEF WriteMade
<1>8. /\ AddrAt(d, c, i) # 0 /\ NodeAt(d, c, i).type = "file"
  <2>1. AddrAt(d, c, i) # 0 /\ NodeOK(d, c.log_end, NodeAt(d, c, i))
    BY DEF LiveAt, ImageOK
  <2>2. QED
    BY <2>1, NodeTypes DEF DirAt, LiveAt
<1>9. /\ ImageOK(O, C)
      /\ \A j \in Inum \ {i} : SameNode(d, c, O, C, j)
      /\ AddrAt(O, C, i) # 0 /\ NodeAt(O, C, i).type = "file"
      /\ \A o \in Offset : DatOf(O, NodeAt(O, C, i), o) = IF o = b THEN x ELSE DatOf(d, NodeAt(d, c, i), o)
  BY <1>7, <1>8, WriteImage
<1>10. Wrote(d, c, O, C, i, b, x)
  BY <1>9 DEF Wrote, LiveAt, DirAt
<1>11. SameDirs(d, c, O, C) /\ PromisedWrite(TreeAt(d, c), TreeAt(O, C), r)
  BY <1>10, WrotePromise
<1>12. TreeOK(O, C) /\ C \in CR
  BY <1>9, <1>11, SameTree DEF ImageOK
<1>13. QED
  <2>1. Pending(d, c, s, C, r)
    BY <1>1, <1>2, <1>4, <1>5, <1>9, <1>11, <1>12 DEF Pending, Promised
  <2>2. QED
    BY <1>0, <1>3, <1>12, <2>1

IsWithFive(s, q, a, b, x, y, z) == s = q \o <<a, b, x, y, z>>

LEMMA FiveMore ==
    ASSUME NEW S, NEW q \in Seq(S), NEW a \in S, NEW b \in S, NEW x \in S, NEW y \in S, NEW z \in S,
           NEW s, IsWithFive(s, q, a, b, x, y, z)
    PROVE  /\ s \in Seq(S) /\ Len(s) = Len(q) + 5
           /\ \A j \in 1 .. Len(q) : s[j] = q[j]
           /\ s[Len(q) + 1] = a /\ s[Len(q) + 2] = b /\ s[Len(q) + 3] = x /\ s[Len(q) + 4] = y /\ s[Len(q) + 5] = z
<1>1. PICK r : r = <<a, b, x, y, z>>
  OBVIOUS
<1>2. r \in Seq(S) /\ Len(r) = 5 /\ r[1] = a /\ r[2] = b /\ r[3] = x /\ r[4] = y /\ r[5] = z
  BY <1>1
<1>3. PICK h \in Nat : h = Len(q)
  BY LenProperties
<1>4. PICK o : o = q \o r
  OBVIOUS
<1>5. /\ o \in Seq(S) /\ Len(o) = h + 5
      /\ \A j \in 1 .. h + 5 : o[j] = IF j <= h THEN q[j] ELSE r[j - h]
  <2>1. /\ q \o r \in Seq(S) /\ Len(q \o r) = Len(q) + Len(r)
        /\ \A j \in 1 .. Len(q) + Len(r) : (q \o r)[j] = IF j <= Len(q) THEN q[j] ELSE r[j - Len(q)]
    <3>1. r \in Seq(S)
      BY <1>2
    <3>2. QED
      BY <3>1, ConcatProperties
  <2>2. Len(q) = h /\ Len(r) = 5
    BY <1>2, <1>3
  <2>3. QED
    BY <1>4, <2>1, <2>2
<1>6. \A j \in 1 .. h : o[j] = q[j]
  BY <1>5
<1>7. o[h + 1] = a /\ o[h + 2] = b /\ o[h + 3] = x /\ o[h + 4] = y /\ o[h + 5] = z
  <2>1. ASSUME NEW j \in 1 .. 5 PROVE o[h + j] = r[j]
    <3>1. h + j \in 1 .. h + 5 /\ ~(h + j <= h) /\ h + j - h = j
      OBVIOUS
    <3>2. QED
      BY <1>5, <3>1
  <2>2. QED
    BY <1>2, <2>1
<1>8. o = s
  BY <1>1, <1>4 DEF IsWithFive
<1>9. QED
  BY <1>3, <1>5, <1>6, <1>7, <1>8

CreateAppends(d, c, p, ty, new, k, f, q, at, inode, imap, pdir, pinode, pimap, t, C) ==
    /\ q = (IF ty = "dir" THEN <<EmptyDir(new, p)>> ELSE <<>>) /\ at = c.log_end + Len(q)
    /\ inode = IF ty = "dir" THEN DirInode(c.log_end) ELSE FileInode
    /\ imap = Setting(MapAt(d, c, Piece(new)), new, at)
    /\ EntrySet(d, NodeAt(d, c, p), pdir, k, f)
    /\ Rewritten(NodeAt(d, c, p), pinode, BlockOf(k), at + 2)
    /\ pimap = Setting(IF Piece(new) = Piece(p) THEN imap ELSE MapAt(d, c, Piece(p)), p, at + 3)
    /\ t = q \o <<inode, imap, pdir, pinode, pimap>> /\ c.log_end + Len(t) <= MaxLog + 1
    /\ C = [log_end |-> c.log_end + Len(t), imap_p |-> [c.imap_p EXCEPT ![Piece(new)] = at + 1, ![Piece(p)] = at + 4]]

LEMMA CreateBlocks ==
    ASSUME NEW d, NEW c, ImageOK(d, c), NEW p \in Inum, NEW new \in Inum, NEW k \in Position, NEW f, NEW ty \in {"dir", "file"},
           NEW q, NEW at, NEW inode, NEW imap, NEW pdir, NEW pinode, NEW pimap, NEW t, NEW C,
           CreateAppends(d, c, p, ty, new, k, f, q, at, inode, imap, pdir, pinode, pimap, t, C)
    PROVE  /\ t \in Seq(LogBlock) /\ C.log_end = c.log_end + Len(t) /\ C.log_end \in Nat
           /\ CreateMade(d, c, Overlaid(d, t, C.log_end), C, p, ty, new, k, f)
<1>1. PICK e \in Nat : e = c.log_end /\ e >= 1
  BY ImageTypes
<1>2. q \in Seq(LogBlock) /\ Len(q) = (IF ty = "dir" THEN 1 ELSE 0) /\ (ty = "dir" => q[1] = EmptyDir(new, p))
  <2>1. EmptyDir(new, p) \in LogBlock
    <3>1. EmptyDir(new, p) \in DirBlock
      BY DEF EmptyDir, DirBlock, NoEntry
    <3>2. QED
      BY <3>1 DEF LogBlock
  <2>2. q = (IF ty = "dir" THEN <<EmptyDir(new, p)>> ELSE <<>>)
    BY DEF CreateAppends
  <2>3. CASE ty = "dir"
    BY <2>1, <2>2, <2>3
  <2>4. CASE ty = "file"
    BY <2>2, <2>4
  <2>5. QED
    BY <2>3, <2>4
<1>0. Len(q) \in Nat
  BY <1>2
<1>3. PICK h \in Nat : h = Len(q)
  BY <1>0
<1>4. at \in Nat /\ at = e + h
  <2>1. at = c.log_end + Len(q)
    BY DEF CreateAppends
  <2>2. QED
    BY <1>1, <1>3, <2>1
<1>5. IsWithFive(t, q, inode, imap, pdir, pinode, pimap) /\ e + Len(t) <= MaxLog + 1
  BY <1>1 DEF CreateAppends, IsWithFive
<1>6. Len(t) = h + 5
  <2>1. PICK S : S = LogBlock \cup {inode, imap, pdir, pinode, pimap}
    OBVIOUS
  <2>2. q \in Seq(S) /\ inode \in S /\ imap \in S /\ pdir \in S /\ pinode \in S /\ pimap \in S
    BY <1>2, <2>1
  <2>3. QED
    BY <1>3, <1>5, <2>2, FiveMore
<1>7. at + 5 <= MaxLog + 1 /\ e + h + 5 <= MaxLog + 1
  BY <1>1, <1>3, <1>4, <1>5, <1>6
<1>8. at \in Addr \cup {0} /\ at + 3 \in Addr \cup {0} /\ e \in Addr
  <2>1. e >= 1 /\ at = e + h
    BY <1>1, <1>4
  <2>2. QED
    BY <1>7, <2>1 DEF Addr
<1>9. inode \in LogBlock /\ imap \in LogBlock /\ pdir \in LogBlock /\ pinode \in LogBlock /\ pimap \in LogBlock
  <2>1. MapAt(d, c, Piece(new)) \in Imap /\ MapAt(d, c, Piece(p)) \in Imap
    BY ImageTypes, InumPlace
  <2>2. inode \in Inode
    <3>1. inode = IF ty = "dir" THEN DirInode(e) ELSE FileInode
      BY <1>1 DEF CreateAppends
    <3>2. DirInode(e) \in Inode /\ FileInode \in Inode
      BY <1>8 DEF FileInode, DirInode, Inode
    <3>3. QED
      BY <3>1, <3>2
  <2>3. imap \in Imap
    <3>1. imap = Setting(MapAt(d, c, Piece(new)), new, at)
      BY DEF CreateAppends
    <3>2. QED
      BY <1>8, <2>1, <3>1, SettingIs
  <2>4. pimap \in Imap
    <3>1. PICK m \in Imap : m = IF Piece(new) = Piece(p) THEN imap ELSE MapAt(d, c, Piece(p))
      BY <2>1, <2>3
    <3>2. pimap = Setting(m, p, at + 3)
      BY <3>1 DEF CreateAppends
    <3>3. QED
      BY <1>8, <3>2, SettingIs
  <2>5. pdir \in DirBlock /\ pinode \in Inode
    BY DEF CreateAppends, EntrySet, Rewritten
  <2>6. QED
    BY <2>2, <2>3, <2>4, <2>5 DEF LogBlock
<1>10. /\ t \in Seq(LogBlock) /\ (\A j \in 1 .. h : t[j] = q[j])
       /\ t[h + 1] = inode /\ t[h + 2] = imap /\ t[h + 3] = pdir /\ t[h + 4] = pinode /\ t[h + 5] = pimap
  <2>1. /\ t \in Seq(LogBlock) /\ (\A j \in 1 .. Len(q) : t[j] = q[j])
        /\ t[Len(q) + 1] = inode /\ t[Len(q) + 2] = imap /\ t[Len(q) + 3] = pdir
        /\ t[Len(q) + 4] = pinode /\ t[Len(q) + 5] = pimap
    <3>1. q \in Seq(LogBlock)
      BY <1>2
    <3>2. QED
      BY <1>5, <1>9, <3>1, FiveMore
  <2>2. QED
    BY <1>3, <2>1
<1>11. PICK E \in Nat : E = at + 5 /\ E = e + Len(t)
  BY <1>3, <1>4, <1>6
<1>12. C = [log_end |-> at + 5, imap_p |-> [c.imap_p EXCEPT ![Piece(new)] = at + 1, ![Piece(p)] = at + 4]]
  <2>1. c.log_end + Len(t) = at + 5
    BY <1>1, <1>11
  <2>2. QED
    BY <2>1 DEF CreateAppends
<1>13. E = C.log_end
  BY <1>11, <1>12
<1>14. PICK O : O = Overlaid(d, t, E)
  OBVIOUS
<1>15. /\ Agree(d, O, e) /\ (ty = "dir" => O[e] = EmptyDir(new, p))
       /\ O[at] = inode /\ O[at + 1] = imap /\ O[at + 2] = pdir /\ O[at + 3] = pinode /\ O[at + 4] = pimap
  <2>1. Overlays(d, O, t, e, E)
    BY <1>1, <1>5, <1>10, <1>11, <1>14 DEF Overlays
  <2>2. Agree(d, O, e) /\ \A j \in Nat : j < Len(t) => O[e + j] = t[j + 1]
    BY <2>1, OverlaidIs
  <2>3. ASSUME NEW j \in 0 .. 4 PROVE O[at + j] = t[h + (j + 1)]
    <3>1. h + j \in Nat /\ h + j < Len(t) /\ e + (h + j) = at + j /\ h + j + 1 = h + (j + 1)
      BY <1>3, <1>4, <1>6
    <3>2. QED
      BY <2>2, <3>1
  <2>4. O[at + 0] = t[h + 1] /\ O[at + 1] = t[h + 2] /\ O[at + 2] = t[h + 3] /\ O[at + 3] = t[h + 4] /\ O[at + 4] = t[h + 5]
    BY <2>3
  <2>5. ASSUME ty = "dir" PROVE O[e] = EmptyDir(new, p)
    <3>1. h = 1 /\ 0 < Len(t) /\ e + 0 = e /\ 0 + 1 = 1
      BY <1>1, <1>2, <1>3, <1>6, <2>5
    <3>2. O[e + 0] = t[0 + 1]
      BY <2>2, <3>1
    <3>3. t[1] = q[1]
      BY <1>10, <3>1
    <3>4. QED
      BY <1>2, <2>5, <3>1, <3>2, <3>3
  <2>6. at + 0 = at
    BY <1>4
  <2>7. QED
    BY <1>10, <2>2, <2>4, <2>5, <2>6
<1>16. CreateMade(d, c, O, C, p, ty, new, k, f)
  <2>1. at = IF ty = "dir" THEN c.log_end + 1 ELSE c.log_end
    BY <1>1, <1>2, <1>3, <1>4
  <2>2. /\ EntrySet(d, NodeAt(d, c, p), O[at + 2], k, f) /\ Rewritten(NodeAt(d, c, p), O[at + 3], BlockOf(k), at + 2)
        /\ O[at] = IF ty = "dir" THEN DirInode(c.log_end) ELSE FileInode
        /\ O[at + 1] = Setting(MapAt(d, c, Piece(new)), new, at)
    BY <1>15 DEF CreateAppends
  <2>3. O[at + 4] = Setting(IF Piece(new) = Piece(p) THEN O[at + 1] ELSE MapAt(d, c, Piece(p)), p, at + 3)
    BY <1>15 DEF CreateAppends
  <2>4. Agree(d, O, c.log_end) /\ (ty = "dir" => O[c.log_end] = EmptyDir(new, p))
    BY <1>1, <1>15
  <2>5. QED
    BY <1>7, <1>12, <2>1, <2>2, <2>3, <2>4 DEF CreateMade
<1>17. QED
  BY <1>1, <1>10, <1>11, <1>13, <1>14, <1>16

LEMMA CreatePending ==
    ASSUME NEW d, NEW c, ImageOK(d, c), TreeOK(d, c), NEW p \in Inum, DirAt(d, c, p),
           NEW new \in Inum, ~LiveAt(d, c, new), NEW k \in Position, Ent(d, c, p, k).inum = -1,
           NEW n \in Name, \A l \in Position : Ent(d, c, p, l).inum # -1 => Ent(d, c, p, l).name # n,
           NEW ty \in {"dir", "file"}, NEW O, NEW t, NEW C, CreateMade(d, c, O, C, p, ty, new, k, [name |-> n, inum |-> new]),
           O = Overlaid(d, t, C.log_end), c.log_end + Len(t) <= C.log_end,
           NEW r, r.op = "creat", r.inum = p, r.name = n, r.type = ty
    PROVE  Pending(d, c, t, C, r)
<1>1. PICK f \in EntryType : f = [name |-> n, inum |-> new]
  BY DEF EntryType
<1>2. AddrAt(d, c, p) # 0 /\ NodeAt(d, c, p).type = "dir" /\ AddrAt(d, c, new) = 0 /\ CreateMade(d, c, O, C, p, ty, new, k, f)
  BY <1>1 DEF DirAt, LiveAt
<1>3. /\ ImageOK(O, C)
      /\ \A j \in Inum \ {p, new} : SameNode(d, c, O, C, j)
      /\ AddrAt(O, C, p) # 0 /\ NodeAt(O, C, p).type = "dir"
      /\ \A l \in Position : EntOf(O, NodeAt(O, C, p), l) = IF l = k THEN f ELSE EntOf(d, NodeAt(d, c, p), l)
      /\ AddrAt(O, C, new) # 0 /\ NodeAt(O, C, new).type = ty
      /\ ty = "dir" => \A l \in Position : EntOf(O, NodeAt(O, C, new), l) = NewEntry(new, p, l)
      /\ ty = "file" => \A b \in Offset : DatOf(O, NodeAt(O, C, new), b) = None
  BY <1>2, CreateImage
<1>4. Added(d, c, O, C, p, ty, new, k, n)
  BY <1>1, <1>3 DEF Added, LiveAt, DirAt, Ent
<1>5. TreeOK(O, C) /\ C \in CR
  BY <1>3, <1>4, AddedTree DEF ImageOK
<1>6. PromisedCreat(TreeAt(d, c), TreeAt(O, C), r)
  BY <1>4, AddedPromise
<1>7. QED
  BY <1>3, <1>5, <1>6 DEF Pending, Promised

RemoveAppends(d, c, p, del, k, pdir, pinode, pimap, imap, t, C) ==
    /\ EntrySet(d, NodeAt(d, c, p), pdir, k, NoEntry)
    /\ Rewritten(NodeAt(d, c, p), pinode, BlockOf(k), c.log_end)
    /\ pimap = Setting(MapAt(d, c, Piece(p)), p, c.log_end + 1)
    /\ imap = Setting(IF Piece(p) = Piece(del) THEN pimap ELSE MapAt(d, c, Piece(del)), del, 0)
    /\ t = <<pdir, pinode, pimap, imap>> /\ c.log_end + Len(t) <= MaxLog + 1
    /\ C = [log_end |-> c.log_end + Len(t),
            imap_p |-> [c.imap_p EXCEPT ![Piece(p)] = c.log_end + 2, ![Piece(del)] = c.log_end + 3]]

LEMMA RemoveBlocks ==
    ASSUME NEW d, NEW c, ImageOK(d, c), NEW p \in Inum, NEW del \in Inum, NEW k \in Position,
           NEW pdir, NEW pinode, NEW pimap, NEW imap, NEW t, NEW C,
           RemoveAppends(d, c, p, del, k, pdir, pinode, pimap, imap, t, C)
    PROVE  /\ t \in Seq(LogBlock) /\ C.log_end = c.log_end + Len(t) /\ C.log_end \in Nat
           /\ RemoveMade(d, c, Overlaid(d, t, C.log_end), C, p, del, k)
<1>1. PICK e \in Nat : e = c.log_end /\ e >= 1
  BY ImageTypes
<1>2. Len(t) = 4 /\ t[1] = pdir /\ t[2] = pinode /\ t[3] = pimap /\ t[4] = imap
  BY DEF RemoveAppends
<1>3. e + 4 <= MaxLog + 1
  <2>1. c.log_end + Len(t) <= MaxLog + 1
    BY DEF RemoveAppends
  <2>2. QED
    BY <1>1, <1>2, <2>1
<1>4. t \in Seq(LogBlock)
  <2>1. MapAt(d, c, Piece(p)) \in Imap /\ MapAt(d, c, Piece(del)) \in Imap /\ e + 1 \in Addr \cup {0}
    BY <1>1, <1>3, ImageTypes, InumPlace DEF Addr
  <2>2. pimap \in Imap
    <3>1. pimap = Setting(MapAt(d, c, Piece(p)), p, e + 1)
      BY <1>1 DEF RemoveAppends
    <3>2. QED
      BY <2>1, <3>1, SettingIs
  <2>3. imap \in Imap
    <3>1. PICK m \in Imap : m = IF Piece(p) = Piece(del) THEN pimap ELSE MapAt(d, c, Piece(del))
      BY <2>1, <2>2
    <3>2. imap = Setting(m, del, 0)
      BY <3>1 DEF RemoveAppends
    <3>3. QED
      BY <3>2, SettingIs
  <2>4. pdir \in LogBlock /\ pinode \in LogBlock /\ pimap \in LogBlock /\ imap \in LogBlock
    BY <2>2, <2>3 DEF RemoveAppends, EntrySet, Rewritten, LogBlock
  <2>5. t = <<pdir, pinode, pimap, imap>>
    BY DEF RemoveAppends
  <2>6. QED
    BY <2>4, <2>5
<1>5. PICK E \in Nat : E = e + 4 /\ E = e + Len(t)
  BY <1>2
<1>6. C = [log_end |-> E, imap_p |-> [c.imap_p EXCEPT ![Piece(p)] = c.log_end + 2, ![Piece(del)] = c.log_end + 3]]
  <2>1. c.log_end + Len(t) = E
    BY <1>1, <1>5
  <2>2. QED
    BY <2>1 DEF RemoveAppends
<1>7. E = C.log_end
  BY <1>6
<1>8. PICK O : O = Overlaid(d, t, E)
  OBVIOUS
<1>9. Agree(d, O, e) /\ O[e] = pdir /\ O[e + 1] = pinode /\ O[e + 2] = pimap /\ O[e + 3] = imap
  <2>1. E <= MaxLog + 1
    BY <1>3, <1>5
  <2>2. Overlays(d, O, t, e, E)
    BY <1>1, <1>4, <1>5, <1>8, <2>1 DEF Overlays
  <2>3. Agree(d, O, e) /\ \A j \in Nat : j < Len(t) => O[e + j] = t[j + 1]
    BY <2>2, OverlaidIs
  <2>4. O[e + 0] = t[0 + 1] /\ O[e + 1] = t[1 + 1] /\ O[e + 2] = t[2 + 1] /\ O[e + 3] = t[3 + 1]
    BY <1>2, <2>3
  <2>5. e + 0 = e
    OBVIOUS
  <2>6. QED
    BY <1>2, <2>3, <2>4, <2>5
<1>10. RemoveMade(d, c, O, C, p, del, k)
  <2>1. /\ EntrySet(d, NodeAt(d, c, p), O[e], k, NoEntry)
        /\ Rewritten(NodeAt(d, c, p), O[e + 1], BlockOf(k), e)
        /\ O[e + 2] = Setting(MapAt(d, c, Piece(p)), p, e + 1)
        /\ O[e + 3] = Setting(IF Piece(p) = Piece(del) THEN O[e + 2] ELSE MapAt(d, c, Piece(del)), del, 0)
    BY <1>1, <1>9 DEF RemoveAppends
  <2>2. C = [log_end |-> e + 4, imap_p |-> [c.imap_p EXCEPT ![Piece(p)] = e + 2, ![Piece(del)] = e + 3]]
    BY <1>1, <1>5, <1>6
  <2>3. QED
    BY <1>1, <1>3, <1>9, <2>1, <2>2 DEF RemoveMade
<1>11. QED
  BY <1>1, <1>4, <1>5, <1>7, <1>8, <1>10

LEMMA RemovePending ==
    ASSUME NEW d, NEW c, ImageOK(d, c), TreeOK(d, c), NEW p \in Inum, NEW k \in Position, SonAt(d, c, p, k),
           NEW del, del = Ent(d, c, p, k).inum,
           DirAt(d, c, del) => \A l \in Position \ {0, 1} : Ent(d, c, del, l).inum = -1,
           NEW O, NEW t, NEW C, RemoveMade(d, c, O, C, p, del, k),
           O = Overlaid(d, t, C.log_end), c.log_end + Len(t) <= C.log_end,
           NEW r, r.op = "unlink", r.inum = p, r.name = Ent(d, c, p, k).name
    PROVE  Pending(d, c, t, C, r)
<1>1. AddrAt(d, c, p) # 0 /\ NodeAt(d, c, p).type = "dir"
  BY DEF SonAt, DirAt, LiveAt
<1>2. del \in Inum /\ del # p
  BY DEF TreeOK, SonOK
<1>3. /\ ImageOK(O, C)
      /\ \A j \in Inum \ {p, del} : SameNode(d, c, O, C, j)
      /\ AddrAt(O, C, p) # 0 /\ NodeAt(O, C, p).type = "dir"
      /\ \A l \in Position : EntOf(O, NodeAt(O, C, p), l) = IF l = k THEN NoEntry ELSE EntOf(d, NodeAt(d, c, p), l)
      /\ AddrAt(O, C, del) = 0
  BY <1>1, <1>2, RemoveImage
<1>4. Dropped(d, c, O, C, p, del, k)
  BY <1>3 DEF Dropped, LiveAt, DirAt, Ent
<1>5. TreeOK(O, C) /\ C \in CR
  BY <1>3, <1>4, DroppedTree DEF ImageOK
<1>6. PromisedUnlink(TreeAt(d, c), TreeAt(O, C), r)
  BY <1>4, DroppedPromise
<1>7. QED
  BY <1>3, <1>5, <1>6 DEF Pending, Promised

-----------------------------------------------------------------------------
(* A request is served: the reply is there at once, or the operation runs. *)

LEMMA StateViews ==
    /\ \A i \in 0 .. MAX_INODES : Exists(i) => i \in Inum
    /\ \A i \in Inum : /\ Exists(i) <=> LiveAt(disk, cr, i)
                       /\ IsDir(i) <=> DirAt(disk, cr, i)
                       /\ InodeOf(i) = NodeAt(disk, cr, i)
                       /\ \A k \in Position : EntryAt(i, k) = Ent(disk, cr, i, k)
                       /\ \A k \in Position : DirBlockAt(i, BlockOf(k)) = DirBlk(disk, NodeAt(disk, cr, i), BlockOf(k))
                       /\ Used(i) = UsedAt(disk, cr, i)
                       /\ Named(i, Dot) = {k \in UsedAt(disk, cr, i) : Ent(disk, cr, i, k).name = Dot}
    /\ \A k : MapOf(k) = MapAt(disk, cr, k)
<1>1. ASSUME NEW i \in 0 .. MAX_INODES, Exists(i) PROVE i \in Inum
  <2>1. i < MAX_INODES
    BY <1>1 DEF Exists
  <2>2. MAX_INODES \in Int
    BY DEF MAX_INODES
  <2>3. QED
    BY <2>1, <2>2 DEF Inum
<1>2. ASSUME NEW i \in Inum
      PROVE  /\ Exists(i) <=> LiveAt(disk, cr, i)
             /\ IsDir(i) <=> DirAt(disk, cr, i)
             /\ InodeOf(i) = NodeAt(disk, cr, i)
             /\ \A k \in Position : EntryAt(i, k) = Ent(disk, cr, i, k)
  BY Views DEF LiveAt, DirAt, IsDir, Ent
<1>3. ASSUME NEW i \in Inum, NEW k \in Position
      PROVE  DirBlockAt(i, BlockOf(k)) = DirBlk(disk, NodeAt(disk, cr, i), BlockOf(k))
  BY Views DEF DirBlockAt, DirBlk
<1>4. ASSUME NEW i \in Inum
      PROVE  /\ Used(i) = UsedAt(disk, cr, i)
             /\ Named(i, Dot) = {k \in UsedAt(disk, cr, i) : Ent(disk, cr, i, k).name = Dot}
  BY <1>2 DEF Used, UsedAt, Named
<1>5. \A k : MapOf(k) = MapAt(disk, cr, k)
  BY DEF MapOf, MapAt
<1>6. QED
  BY <1>1, <1>2, <1>3, <1>4, <1>5

(* What an operation leaves behind that has yet to append its blocks.      *)
Runs(r) == /\ todo' \in Seq(LogBlock) /\ newcr' \in CR /\ UNCHANGED reply
           /\ Pending(disk, cr, todo', newcr', r)

Returns == UNCHANGED <<todo, newcr>>

LEMMA CommitIs ==
    ASSUME NEW t, NEW im, Commit(t, im)
    PROVE  /\ todo' = t /\ newcr' = [log_end |-> cr.log_end + Len(t), imap_p |-> im]
           /\ cr.log_end + Len(t) <= MaxLog + 1 /\ UNCHANGED reply
BY DEF Commit

LEMMA ServeWrite ==
    ASSUME ImageOK(disk, cr), TreeOK(disk, cr), NEW r, r.op = "write", r.inum \in 0 .. MAX_INODES,
           r.block \in 0 .. MAX_DIRECT_P, r.data \in Data, S_Write(r.inum, r.data, r.block)
    PROVE  \/ Returns /\ ~(Exists(r.inum) /\ ~IsDir(r.inum) /\ r.block < MAX_DIRECT_P) /\ reply' = Fail
           \/ Runs(r)
<1>1. CASE ~(Exists(r.inum) /\ ~IsDir(r.inum) /\ r.block < MAX_DIRECT_P)
  <2>1. Return(Fail)
    BY <1>1 DEF S_Write
  <2>2. QED
    BY <1>1, <2>1 DEF Return, Returns
<1>2. CASE Exists(r.inum) /\ ~IsDir(r.inum) /\ r.block < MAX_DIRECT_P
  <2>1. PICK i \in Inum, b \in Offset, x \in Data : i = r.inum /\ b = r.block /\ x = r.data
    BY <1>2, StateViews DEF Offset
  <2>2. LiveAt(disk, cr, i) /\ ~DirAt(disk, cr, i)
    BY <1>2, <2>1, StateViews
  <2>3. \E m, z : /\ m = [InodeOf(i) EXCEPT !.dp[b] = cr.log_end, !.size = Grown(i, b)]
                  /\ z = Setting(MapOf(Piece(i)), i, cr.log_end + 1)
                  /\ Commit(<<[data |-> x], m, z>>, [cr.imap_p EXCEPT ![Piece(i)] = cr.log_end + 2])
    BY <1>2, <2>1, Zenon DEF S_Write
  <2>4. PICK m, z : /\ m = [InodeOf(i) EXCEPT !.dp[b] = cr.log_end, !.size = Grown(i, b)]
                    /\ z = Setting(MapOf(Piece(i)), i, cr.log_end + 1)
                    /\ Commit(<<[data |-> x], m, z>>, [cr.imap_p EXCEPT ![Piece(i)] = cr.log_end + 2])
    BY <2>3
  <2>5. PICK t : t = <<[data |-> x], m, z>>
    OBVIOUS
  <2>6. /\ todo' = t /\ cr.log_end + Len(t) <= MaxLog + 1 /\ UNCHANGED reply
        /\ newcr' = [log_end |-> cr.log_end + Len(t), imap_p |-> [cr.imap_p EXCEPT ![Piece(i)] = cr.log_end + 2]]
    BY <2>4, <2>5, CommitIs, Zenon
  <2>7. NodeOK(disk, cr.log_end, NodeAt(disk, cr, i)) /\ cr.log_end \in Addr
    <3>1. cr.log_end \in Nat /\ cr.log_end >= 1 /\ Len(t) = 3
      BY <2>5, ImageTypes
    <3>2. cr.log_end \in Addr
      BY <2>6, <3>1 DEF Addr
    <3>3. QED
      BY <2>2, <3>2 DEF ImageOK, LiveAt
  <2>8. Rewritten(NodeAt(disk, cr, i), m, b, cr.log_end)
    <3>1. m = [InodeOf(i) EXCEPT !.dp[b] = cr.log_end, !.size = InodeOf(i).size + (IF InodeOf(i).dp[b] = 0 THEN 1 ELSE 0)]
      BY <2>4, Zenon DEF Grown
    <3>2. InodeOf(i) = NodeAt(disk, cr, i)
      BY StateViews
    <3>3. QED
      BY <2>7, <3>1, <3>2, InodeWritten, Zenon
  <2>9. z = Setting(MapAt(disk, cr, Piece(i)), i, cr.log_end + 1)
    BY <2>4, StateViews, Zenon
  <2>10. todo' \in Seq(LogBlock) /\ newcr' \in CR /\ Pending(disk, cr, todo', newcr', r)
    <3>1. PICK C : C = newcr'
      OBVIOUS
    <3>2. t \in Seq(LogBlock) /\ C \in CR /\ Pending(disk, cr, t, C, r)
      BY <2>1, <2>2, <2>5, <2>6, <2>8, <2>9, <3>1, WritePending, Zenon
    <3>3. QED
      BY <2>6, <3>1, <3>2
  <2>11. QED
    BY <2>6, <2>10 DEF Runs
<1>3. QED
  BY <1>1, <1>2

LEMMA MinIs ==
    ASSUME NEW S \in SUBSET Nat, S # {}
    PROVE  Min(S) \in S
BY LeastNatural DEF Min

LEMMA NamedIs ==
    ASSUME NEW i \in Inum, NEW n
    PROVE  /\ Named(i, n) = {k \in UsedAt(disk, cr, i) : Ent(disk, cr, i, k).name = n}
           /\ Named(i, n) \subseteq Position
           /\ FreeEntries(i) = {k \in Position : Ent(disk, cr, i, k).inum = -1}
           /\ FreeEntries(i) \in SUBSET Nat /\ Named(i, n) \in SUBSET Nat
<1>1. Used(i) = UsedAt(disk, cr, i) /\ Used(i) \subseteq Position /\ \A k \in Position : EntryAt(i, k) = Ent(disk, cr, i, k)
  BY StateViews DEF Used
<1>2. Named(i, n) = {k \in UsedAt(disk, cr, i) : Ent(disk, cr, i, k).name = n} /\ Named(i, n) \subseteq Position
  BY <1>1 DEF Named
<1>3. FreeEntries(i) = {k \in Position : Ent(disk, cr, i, k).inum = -1}
  BY <1>1 DEF FreeEntries, UsedAt
<1>4. \A k \in Position : k \in Nat
  BY PositionPlace
<1>5. QED
  BY <1>2, <1>3, <1>4

LEMMA FreeInodesAre ==
    /\ FreeInodes \in SUBSET Nat
    /\ FreeInodes = {i \in Inum : ~LiveAt(disk, cr, i)}
<1>1. FreeInodes = {i \in Inum : ~LiveAt(disk, cr, i)}
  BY Views DEF FreeInodes, LiveAt
<1>2. QED
  BY <1>1 DEF Inum

(* A directory has its own name in its first entry, which is never free.   *)
LEMMA DotIsNamed ==
    ASSUME TreeOK(disk, cr), NEW p \in Inum, DirAt(disk, cr, p)
    PROVE  Named(p, Dot) # {}
<1>1. 0 \in Position /\ Ent(disk, cr, p, 0) = [name |-> Dot, inum |-> p] /\ p # -1
  BY FirstPositions, InumNotMinus DEF TreeOK, DirOK
<1>2. 0 \in Named(p, Dot)
  BY <1>1, NamedIs DEF UsedAt
<1>3. QED
  BY <1>2

(* The blocks of creat, from the routine.                                  *)
LEMMA CreatedAppends ==
    ASSUME ImageOK(disk, cr), NEW p \in Inum, DirAt(disk, cr, p), NEW n \in Name, NEW ty \in {"dir", "file"},
           NEW k \in Position, k = Min(FreeEntries(p)), NEW new \in Inum, new = Min(FreeInodes), Created(p, ty, n)
    PROVE  \E q, at, inode, imap, pdir, pinode, pimap, t, C :
             /\ CreateAppends(disk, cr, p, ty, new, k, [name |-> n, inum |-> new], q, at, inode, imap, pdir, pinode, pimap, t, C)
             /\ todo' = t /\ newcr' = C /\ UNCHANGED reply
<1>1. \E q, at, inode, imap, pdir, pinode, pimap :
        /\ q = (IF ty = "dir" THEN <<EmptyDir(new, p)>> ELSE <<>>)
        /\ at = cr.log_end + Len(q)
        /\ inode = (IF ty = "dir" THEN DirInode(cr.log_end) ELSE FileInode)
        /\ imap = Setting(MapOf(Piece(new)), new, at)
        /\ pdir = [DirBlockAt(p, BlockOf(k)) EXCEPT !.entry[k % MAX_DIR_ENTRIES] = [name |-> n, inum |-> new]]
        /\ pinode = [InodeOf(p) EXCEPT !.dp[BlockOf(k)] = at + 2, !.size = Grown(p, BlockOf(k))]
        /\ pimap = Setting(NextPiece(new, imap, p), p, at + 3)
        /\ Commit(q \o <<inode, imap, pdir, pinode, pimap>>, [cr.imap_p EXCEPT ![Piece(new)] = at + 1, ![Piece(p)] = at + 4])
  BY Zenon DEF Created
<1>2. PICK q, at, inode, imap, pdir, pinode, pimap :
        /\ q = (IF ty = "dir" THEN <<EmptyDir(new, p)>> ELSE <<>>)
        /\ at = cr.log_end + Len(q)
        /\ inode = (IF ty = "dir" THEN DirInode(cr.log_end) ELSE FileInode)
        /\ imap = Setting(MapOf(Piece(new)), new, at)
        /\ pdir = [DirBlockAt(p, BlockOf(k)) EXCEPT !.entry[k % MAX_DIR_ENTRIES] = [name |-> n, inum |-> new]]
        /\ pinode = [InodeOf(p) EXCEPT !.dp[BlockOf(k)] = at + 2, !.size = Grown(p, BlockOf(k))]
        /\ pimap = Setting(NextPiece(new, imap, p), p, at + 3)
        /\ Commit(q \o <<inode, imap, pdir, pinode, pimap>>, [cr.imap_p EXCEPT ![Piece(new)] = at + 1, ![Piece(p)] = at + 4])
  BY <1>1, Zenon
<1>3. PICK t : t = q \o <<inode, imap, pdir, pinode, pimap>>
  OBVIOUS
<1>4. PICK im : im = [cr.imap_p EXCEPT ![Piece(new)] = at + 1, ![Piece(p)] = at + 4]
  OBVIOUS
<1>5. Commit(t, im)
  BY <1>2, <1>3, <1>4, Zenon
<1>6. /\ todo' = t /\ newcr' = [log_end |-> cr.log_end + Len(t), imap_p |-> im]
      /\ cr.log_end + Len(t) <= MaxLog + 1 /\ UNCHANGED reply
  BY <1>5, CommitIs, Zenon
<1>7. /\ NodeOK(disk, cr.log_end, NodeAt(disk, cr, p)) /\ NodeAt(disk, cr, p).type = "dir"
      /\ InodeOf(p) = NodeAt(disk, cr, p) /\ BlockOf(k) \in Offset
      /\ DirBlockAt(p, BlockOf(k)) = DirBlk(disk, NodeAt(disk, cr, p), BlockOf(k))
  BY StateViews, PositionPlace DEF ImageOK, DirAt, LiveAt
<1>8. at + 2 \in Addr
  <2>1. PICK e \in Nat : e = cr.log_end /\ e >= 1
    BY ImageTypes
  <2>2. PICK h \in Nat : h = Len(q)
    <3>1. Len(<<EmptyDir(new, p)>>) = 1 /\ Len(<<>>) = 0
      OBVIOUS
    <3>2. CASE ty = "dir"
      BY <1>2, <3>1, <3>2
    <3>3. CASE ty # "dir"
      BY <1>2, <3>1, <3>3
    <3>4. QED
      BY <3>2, <3>3
  <2>3. Len(t) = h + 5
    <3>1. q \in Seq({EmptyDir(new, p)})
      <4>1. <<EmptyDir(new, p)>> \in Seq({EmptyDir(new, p)}) /\ <<>> \in Seq({EmptyDir(new, p)})
        OBVIOUS
      <4>2. CASE ty = "dir"
        BY <1>2, <4>1, <4>2
      <4>3. CASE ty # "dir"
        BY <1>2, <4>1, <4>3
      <4>4. QED
        BY <4>2, <4>3
    <3>2. IsWithFive(t, q, inode, imap, pdir, pinode, pimap)
      BY <1>3 DEF IsWithFive
    <3>3. PICK S : q \in Seq(S) /\ inode \in S /\ imap \in S /\ pdir \in S /\ pinode \in S /\ pimap \in S
      <4>1. PICK S : S = {EmptyDir(new, p), inode, imap, pdir, pinode, pimap}
        OBVIOUS
      <4>2. \A s \in Seq({EmptyDir(new, p)}) : s \in Seq(S)
        <5>1. {EmptyDir(new, p)} \subseteq S
          BY <4>1
        <5>2. QED
          BY <5>1
      <4>3. QED
        BY <3>1, <4>1, <4>2
    <3>4. QED
      BY <2>2, <3>2, <3>3, FiveMore
  <2>4. at = e + h /\ e + (h + 5) <= MaxLog + 1
    BY <1>2, <1>6, <2>1, <2>2, <2>3
  <2>5. e + h + 2 \in Addr
    <3>1. e >= 1 /\ e + (h + 5) <= MaxLog + 1
      BY <2>1, <2>4
    <3>2. QED
      BY <3>1 DEF Addr
  <2>6. QED
    BY <2>4, <2>5, Zenon
<1>9. EntrySet(disk, NodeAt(disk, cr, p), pdir, k, [name |-> n, inum |-> new])
  <2>1. [name |-> n, inum |-> new] \in EntryType
    BY DEF EntryType
  <2>2. EntrySet(disk, NodeAt(disk, cr, p), [DirBlk(disk, NodeAt(disk, cr, p), BlockOf(k)) EXCEPT !.entry[k % MAX_DIR_ENTRIES] = [name |-> n, inum |-> new]],
                 k, [name |-> n, inum |-> new])
    BY <1>7, <2>1, EntryWritten
  <2>3. QED
    BY <1>2, <1>7, <2>2, Zenon
<1>10. Rewritten(NodeAt(disk, cr, p), pinode, BlockOf(k), at + 2)
  <2>1. pinode = [InodeOf(p) EXCEPT !.dp[BlockOf(k)] = at + 2,
                                    !.size = InodeOf(p).size + (IF InodeOf(p).dp[BlockOf(k)] = 0 THEN 1 ELSE 0)]
    BY <1>2, Zenon DEF Grown
  <2>2. QED
    BY <1>7, <1>8, <2>1, InodeWritten, Zenon
<1>11. imap = Setting(MapAt(disk, cr, Piece(new)), new, at)
  BY <1>2, StateViews, Zenon
<1>12. pimap = Setting(IF Piece(new) = Piece(p) THEN imap ELSE MapAt(disk, cr, Piece(p)), p, at + 3)
  BY <1>2, StateViews, Zenon DEF NextPiece
<1>13. PICK C : C = newcr'
  OBVIOUS
<1>14. C = [log_end |-> cr.log_end + Len(t), imap_p |-> [cr.imap_p EXCEPT ![Piece(new)] = at + 1, ![Piece(p)] = at + 4]]
  BY <1>4, <1>6, <1>13, Zenon
<1>15. CreateAppends(disk, cr, p, ty, new, k, [name |-> n, inum |-> new], q, at, inode, imap, pdir, pinode, pimap, t, C)
  BY <1>2, <1>3, <1>6, <1>9, <1>10, <1>11, <1>12, <1>14, Zenon DEF CreateAppends
<1>16. todo' = t /\ newcr' = C /\ UNCHANGED reply
  BY <1>6, <1>13, Zenon
<1>17. QED
  BY <1>15, <1>16, Zenon

LEMMA ServeCreat ==
    ASSUME ImageOK(disk, cr), TreeOK(disk, cr), NEW r, r.op = "creat", r.inum \in 0 .. MAX_INODES,
           r.name \in Name \cup {Dot}, r.type \in {"dir", "file"}, S_Creat(r.inum, r.type, r.name)
    PROVE  \/ Returns /\ ~IsDir(r.inum) /\ reply' = Fail
           \/ Returns /\ IsDir(r.inum) /\ Named(r.inum, r.name) # {} /\ reply' = Done
           \/ Returns /\ IsDir(r.inum) /\ Named(r.inum, r.name) = {} /\ (FreeEntries(r.inum) = {} \/ FreeInodes = {}) /\ reply' = Fail
           \/ Runs(r)
<1>1. CASE ~IsDir(r.inum)
  BY <1>1 DEF S_Creat, Return, Returns
<1>2. CASE IsDir(r.inum) /\ Named(r.inum, r.name) # {}
  BY <1>2 DEF S_Creat, Return, Returns
<1>3. CASE IsDir(r.inum) /\ Named(r.inum, r.name) = {} /\ (FreeEntries(r.inum) = {} \/ FreeInodes = {})
  BY <1>3 DEF S_Creat, Return, Returns
<1>4. CASE IsDir(r.inum) /\ Named(r.inum, r.name) = {} /\ FreeEntries(r.inum) # {} /\ FreeInodes # {}
  <2>1. PICK p \in Inum, n \in Name \cup {Dot}, ty \in {"dir", "file"} : p = r.inum /\ n = r.name /\ ty = r.type
    BY <1>4, StateViews DEF IsDir
  <2>2. Created(p, ty, n) /\ Named(p, n) = {}
    BY <1>4, <2>1 DEF S_Creat
  <2>3. DirAt(disk, cr, p)
    BY <1>4, <2>1, StateViews
  <2>4. n \in Name
    BY <2>2, <2>3, DotIsNamed
  <2>5. PICK k \in Position : k = Min(FreeEntries(p)) /\ Ent(disk, cr, p, k).inum = -1
    <3>1. Min(FreeEntries(p)) \in FreeEntries(p)
      BY <1>4, <2>1, NamedIs, MinIs
    <3>2. QED
      BY <3>1, NamedIs
  <2>6. PICK new \in Inum : new = Min(FreeInodes) /\ ~LiveAt(disk, cr, new)
    <3>1. Min(FreeInodes) \in FreeInodes
      BY <1>4, FreeInodesAre, MinIs
    <3>2. QED
      BY <3>1, FreeInodesAre
  <2>7. PICK q, at, inode, imap, pdir, pinode, pimap, t, C :
             /\ CreateAppends(disk, cr, p, ty, new, k, [name |-> n, inum |-> new], q, at, inode, imap, pdir, pinode, pimap, t, C)
             /\ todo' = t /\ newcr' = C /\ UNCHANGED reply
    BY <2>2, <2>3, <2>4, <2>5, <2>6, CreatedAppends
  <2>8. /\ t \in Seq(LogBlock) /\ C.log_end = cr.log_end + Len(t) /\ C.log_end \in Nat
        /\ CreateMade(disk, cr, Overlaid(disk, t, C.log_end), C, p, ty, new, k, [name |-> n, inum |-> new])
    BY <2>7, CreateBlocks
  <2>9. \A l \in Position : Ent(disk, cr, p, l).inum # -1 => Ent(disk, cr, p, l).name # n
    BY <2>2, NamedIs DEF UsedAt
  <2>10. Pending(disk, cr, t, C, r)
    <3>1. PICK O : O = Overlaid(disk, t, C.log_end)
      OBVIOUS
    <3>2. cr.log_end + Len(t) <= C.log_end
      BY <2>8
    <3>3. CreateMade(disk, cr, O, C, p, ty, new, k, [name |-> n, inum |-> new])
      BY <2>8, <3>1
    <3>4. QED
      BY <2>1, <2>3, <2>4, <2>5, <2>6, <2>9, <3>1, <3>2, <3>3, CreatePending
  <2>11. C \in CR
    BY <2>10 DEF Pending
  <2>12. QED
    BY <2>7, <2>8, <2>10, <2>11 DEF Runs
<1>5. QED
  BY <1>1, <1>2, <1>3, <1>4
(* A directory with no more than two entries has . and .. only.            *)
LEMMA OnlyDots ==
    ASSUME NEW d, NEW c, NEW i \in Inum, DirOK(d, c, i), ~(Cardinality(UsedAt(d, c, i)) > 2)
    PROVE  \A l \in Position \ {0, 1} : Ent(d, c, i, l).inum = -1
<1>1. 0 \in UsedAt(d, c, i) /\ 1 \in UsedAt(d, c, i)
  <2>1. Ent(d, c, i, 0).inum = i /\ \E q \in Inum : Ent(d, c, i, 1).inum = q
    BY DEF DirOK
  <2>2. QED
    BY <2>1, FirstPositions, InumNotMinus DEF UsedAt
<1>2. IsFiniteSet(UsedAt(d, c, i)) /\ Cardinality(UsedAt(d, c, i)) \in Nat
  BY EntriesDiffer
<1>3. IsFiniteSet({0, 1}) /\ Cardinality({0, 1}) = 2
  <2>1. IsFiniteSet({0}) /\ Cardinality({0}) = 1
    BY FS_Singleton
  <2>2. /\ IsFiniteSet({0} \cup {1})
        /\ Cardinality({0} \cup {1}) = IF 1 \in {0} THEN Cardinality({0}) ELSE Cardinality({0}) + 1
    <3>1. \A x : /\ IsFiniteSet({0} \cup {x})
                /\ Cardinality({0} \cup {x}) = IF x \in {0} THEN Cardinality({0}) ELSE Cardinality({0}) + 1
      BY <2>1, FS_AddElement
    <3>2. QED
      BY <3>1, Zenon
  <2>3. {0} \cup {1} = {0, 1}
    OBVIOUS
  <2>4. 1 \notin {0} /\ 1 + 1 = 2
    OBVIOUS
  <2>5. QED
    BY <2>1, <2>2, <2>3, <2>4
<1>4. {0, 1} = UsedAt(d, c, i)
  BY <1>1, <1>2, <1>3, FS_Subset
<1>5. QED
  BY <1>4 DEF UsedAt

(* The blocks of unlink, from the routine.                                 *)
LEMMA RemovedAppends ==
    ASSUME ImageOK(disk, cr), TreeOK(disk, cr), NEW p \in Inum, NEW k \in Position, SonAt(disk, cr, p, k), Removed(p, k)
    PROVE  \E pdir, pinode, pimap, imap, t, C :
             /\ RemoveAppends(disk, cr, p, Ent(disk, cr, p, k).inum, k, pdir, pinode, pimap, imap, t, C)
             /\ todo' = t /\ newcr' = C /\ UNCHANGED reply
<1>0. PICK del \in Inum : del = Ent(disk, cr, p, k).inum /\ del = EntryAt(p, k).inum
  <2>1. Ent(disk, cr, p, k).inum \in Inum
    <3>1. SonOK(disk, cr, p, k)
      BY DEF TreeOK
    <3>2. QED
      BY <3>1 DEF SonOK
  <2>2. EntryAt(p, k) = Ent(disk, cr, p, k)
    BY StateViews
  <2>3. QED
    BY <2>1, <2>2
<1>1. \E pdir, pinode, pimap, imap :
        /\ pdir = [DirBlockAt(p, BlockOf(k)) EXCEPT !.entry[k % MAX_DIR_ENTRIES] = NoEntry]
        /\ pinode = [InodeOf(p) EXCEPT !.dp[BlockOf(k)] = cr.log_end]
        /\ pimap = Setting(MapOf(Piece(p)), p, cr.log_end + 1)
        /\ imap = Setting(NextPiece(p, pimap, del), del, 0)
        /\ Commit(<<pdir, pinode, pimap, imap>>, [cr.imap_p EXCEPT ![Piece(p)] = cr.log_end + 2, ![Piece(del)] = cr.log_end + 3])
  BY <1>0, Zenon DEF Removed
<1>2. PICK pdir, pinode, pimap, imap :
        /\ pdir = [DirBlockAt(p, BlockOf(k)) EXCEPT !.entry[k % MAX_DIR_ENTRIES] = NoEntry]
        /\ pinode = [InodeOf(p) EXCEPT !.dp[BlockOf(k)] = cr.log_end]
        /\ pimap = Setting(MapOf(Piece(p)), p, cr.log_end + 1)
        /\ imap = Setting(NextPiece(p, pimap, del), del, 0)
        /\ Commit(<<pdir, pinode, pimap, imap>>, [cr.imap_p EXCEPT ![Piece(p)] = cr.log_end + 2, ![Piece(del)] = cr.log_end + 3])
  BY <1>1, Zenon
<1>3. PICK t : t = <<pdir, pinode, pimap, imap>>
  OBVIOUS
<1>4. PICK im : im = [cr.imap_p EXCEPT ![Piece(p)] = cr.log_end + 2, ![Piece(del)] = cr.log_end + 3]
  OBVIOUS
<1>5. Commit(t, im)
  BY <1>2, <1>3, <1>4, Zenon
<1>6. /\ todo' = t /\ newcr' = [log_end |-> cr.log_end + Len(t), imap_p |-> im]
      /\ cr.log_end + Len(t) <= MaxLog + 1 /\ UNCHANGED reply
  BY <1>5, CommitIs, Zenon
<1>7. /\ NodeOK(disk, cr.log_end, NodeAt(disk, cr, p)) /\ NodeAt(disk, cr, p).type = "dir"
      /\ InodeOf(p) = NodeAt(disk, cr, p) /\ BlockOf(k) \in Offset
      /\ DirBlockAt(p, BlockOf(k)) = DirBlk(disk, NodeAt(disk, cr, p), BlockOf(k))
  BY StateViews, PositionPlace DEF ImageOK, SonAt, DirAt, LiveAt
<1>8. cr.log_end \in Addr
  <2>1. PICK e \in Nat : e = cr.log_end /\ e >= 1
    BY ImageTypes
  <2>2. Len(t) = 4
    BY <1>3
  <2>3. e + 4 <= MaxLog + 1
    BY <1>6, <2>1, <2>2
  <2>4. e \in Addr
    BY <2>1, <2>3 DEF Addr
  <2>5. QED
    BY <2>1, <2>4
<1>9. EntrySet(disk, NodeAt(disk, cr, p), pdir, k, NoEntry)
  <2>1. EntrySet(disk, NodeAt(disk, cr, p), [DirBlk(disk, NodeAt(disk, cr, p), BlockOf(k)) EXCEPT !.entry[k % MAX_DIR_ENTRIES] = NoEntry], k, NoEntry)
    BY <1>7, NoEntryType, EntryWritten
  <2>2. QED
    BY <1>2, <1>7, <2>1, Zenon
<1>10. Rewritten(NodeAt(disk, cr, p), pinode, BlockOf(k), cr.log_end)
  <2>1. NodeAt(disk, cr, p).dp[BlockOf(k)] # 0
    <3>1. Ent(disk, cr, p, k).inum # -1
      BY DEF SonAt
    <3>2. QED
      BY <3>1 DEF Ent, EntOf, NoEntry
  <2>2. pinode = [NodeAt(disk, cr, p) EXCEPT !.dp[BlockOf(k)] = cr.log_end]
    BY <1>2, <1>7, Zenon
  <2>3. QED
    BY <1>7, <1>8, <2>1, <2>2, InodeWritten, Zenon
<1>11. pimap = Setting(MapAt(disk, cr, Piece(p)), p, cr.log_end + 1)
  BY <1>2, StateViews, Zenon
<1>12. imap = Setting(IF Piece(p) = Piece(del) THEN pimap ELSE MapAt(disk, cr, Piece(del)), del, 0)
  BY <1>2, StateViews, Zenon DEF NextPiece
<1>13. PICK C : C = newcr'
  OBVIOUS
<1>14. C = [log_end |-> cr.log_end + Len(t), imap_p |-> [cr.imap_p EXCEPT ![Piece(p)] = cr.log_end + 2, ![Piece(del)] = cr.log_end + 3]]
  BY <1>4, <1>6, <1>13, Zenon
<1>15. RemoveAppends(disk, cr, p, del, k, pdir, pinode, pimap, imap, t, C)
  BY <1>3, <1>6, <1>9, <1>10, <1>11, <1>12, <1>14, Zenon DEF RemoveAppends
<1>16. RemoveAppends(disk, cr, p, Ent(disk, cr, p, k).inum, k, pdir, pinode, pimap, imap, t, C)
  BY <1>0, <1>15, Zenon
<1>17. todo' = t /\ newcr' = C /\ UNCHANGED reply
  BY <1>6, <1>13, Zenon
<1>18. QED
  BY <1>16, <1>17, Zenon

(* The entry an unlink finds.                                              *)
LEMMA FirstNamed ==
    ASSUME TreeOK(disk, cr), NEW p \in Inum, DirAt(disk, cr, p), NEW n \in Name, Named(p, n) # {}
    PROVE  \E k \in Position : k = Min(Named(p, n)) /\ SonAt(disk, cr, p, k) /\ Ent(disk, cr, p, k).name = n
<1>1. PICK k \in Position : k = Min(Named(p, n)) /\ k \in UsedAt(disk, cr, p) /\ Ent(disk, cr, p, k).name = n
  <2>1. Min(Named(p, n)) \in Named(p, n)
    BY NamedIs, MinIs
  <2>2. QED
    BY <2>1, NamedIs DEF UsedAt
<1>2. k # 0 /\ k # 1
  <2>1. Ent(disk, cr, p, 0).name = Dot /\ Ent(disk, cr, p, 1).name = DotDot
    BY DEF TreeOK, DirOK
  <2>2. QED
    BY <1>1, <2>1
<1>3. SonAt(disk, cr, p, k)
  BY <1>1, <1>2 DEF SonAt, UsedAt
<1>4. QED
  BY <1>1, <1>3

(* Where no name spells a checkpoint region, the search of a directory     *)
(* finds the entries of the blocks that are there.                         *)
LEMMA Unspelled ==
    ASSUME NoNameSpelled, ImageOK(disk, cr), NEW p, NEW n \in Name \cup {Dot, DotDot}
    PROVE  /\ Matches(p, n) = Named(p, n)
           /\ \A k \in Named(p, n) : LookedAt(p, k) = EntryAt(p, k)
<1>1. ASSUME NEW k \in Position
      PROVE  /\ k \in Matches(p, n) <=> k \in Named(p, n)
             /\ k \in Named(p, n) => LookedAt(p, k) = EntryAt(p, k)
  <2>1. CASE InodeOf(p).dp[BlockOf(k)] = 0
    <3>1. cr \in CR /\ k % MAX_DIR_ENTRIES \in 0 .. MAX_DIR_ENTRIES - 1
      BY PositionPlace DEF ImageOK
    <3>2. LookedAt(p, k).name # n
      BY <2>1, <3>1, Zenon DEF NoNameSpelled, LookedAt
    <3>3. EntryAt(p, k) = NoEntry
      BY <2>1, <3>1 DEF EntryAt, DirBlockAt
    <3>4. QED
      BY <3>2, <3>3 DEF Matches, Named, Used, NoEntry
  <2>2. CASE InodeOf(p).dp[BlockOf(k)] # 0
    <3>1. LookedAt(p, k) = EntryAt(p, k)
      BY <2>2 DEF LookedAt
    <3>2. QED
      BY <3>1 DEF Matches, Named, Used
  <2>3. QED
    BY <2>1, <2>2
<1>2. Matches(p, n) \subseteq Position /\ Named(p, n) \subseteq Position
  BY DEF Matches, Named, Used
<1>3. QED
  BY <1>1, <1>2

LEMMA ServeUnlink ==
    ASSUME NoNameSpelled, ImageOK(disk, cr), TreeOK(disk, cr), NEW r, r.op = "unlink", r.inum \in 0 .. MAX_INODES,
           r.name \in Name, S_Unlink(r.inum, r.name)
    PROVE  \/ Returns /\ (~IsDir(r.inum) \/ Named(r.inum, r.name) = {}) /\ reply' = Done
           \/ /\ Returns /\ IsDir(r.inum) /\ Named(r.inum, r.name) # {} /\ reply' = Fail
              /\ NotEmpty(EntryAt(r.inum, Min(Named(r.inum, r.name))).inum)
           \/ Runs(r)
<1>0. Matches(r.inum, r.name) = Named(r.inum, r.name)
  BY Unspelled
<1>1. CASE ~IsDir(r.inum) \/ Named(r.inum, r.name) = {}
  <2>1. Return(Done)
    BY <1>0, <1>1, Zenon DEF S_Unlink
  <2>2. QED
    BY <1>1, <2>1 DEF Return, Returns
<1>3. CASE IsDir(r.inum) /\ Named(r.inum, r.name) # {}
  <2>1. PICK p \in Inum, n \in Name : p = r.inum /\ n = r.name
    BY <1>3, StateViews DEF IsDir
  <2>2. DirAt(disk, cr, p)
    BY <1>3, <2>1, StateViews
  <2>3. PICK k \in Position : k = Min(Named(p, n)) /\ SonAt(disk, cr, p, k) /\ Ent(disk, cr, p, k).name = n
    BY <1>3, <2>1, <2>2, FirstNamed
  <2>4. PICK del \in Inum : del = Ent(disk, cr, p, k).inum /\ del = EntryAt(p, k).inum
    <3>1. SonOK(disk, cr, p, k)
      BY <2>3 DEF TreeOK
    <3>2. EntryAt(p, k) = Ent(disk, cr, p, k)
      BY StateViews
    <3>3. QED
      BY <3>1, <3>2 DEF SonOK
  <2>5. Unlinked(p, k)
    BY <1>0, <1>3, <2>1, <2>3, Zenon DEF S_Unlink
  <2>6. MayRefuse(del) <=> NotEmpty(del)
    <3>1. LiveAt(disk, cr, del)
      <4>1. SonOK(disk, cr, p, k)
        BY <2>3 DEF TreeOK
      <4>2. LiveAt(disk, cr, Ent(disk, cr, p, k).inum)
        BY <4>1, Zenon DEF SonOK
      <4>3. QED
        BY <2>4, <4>2, Zenon
    <3>2. Exists(del) /\ del # -1
      BY <3>1, StateViews, InumNotMinus
    <3>3. QED
      BY <3>2 DEF MayRefuse
  <2>7. CASE NotEmpty(del) /\ Return(Fail)
    <3>1. NotEmpty(EntryAt(r.inum, Min(Named(r.inum, r.name))).inum)
      BY <2>1, <2>3, <2>4, <2>7, Zenon
    <3>2. QED
      BY <1>3, <2>7, <3>1 DEF Return, Returns
  <2>8. CASE ~NotEmpty(del) /\ Removed(p, k)
    <3>1. DirAt(disk, cr, del) => \A l \in Position \ {0, 1} : Ent(disk, cr, del, l).inum = -1
      <4>1. ASSUME DirAt(disk, cr, del) PROVE DirOK(disk, cr, del) /\ ~(Cardinality(UsedAt(disk, cr, del)) > 2)
        BY <2>8, <4>1, StateViews DEF TreeOK, NotEmpty
      <4>2. QED
        BY <4>1, OnlyDots
    <3>2. PICK pdir, pinode, pimap, imap, t, C :
               /\ RemoveAppends(disk, cr, p, Ent(disk, cr, p, k).inum, k, pdir, pinode, pimap, imap, t, C)
               /\ todo' = t /\ newcr' = C /\ UNCHANGED reply
      BY <2>3, <2>8, RemovedAppends
    <3>3. RemoveAppends(disk, cr, p, del, k, pdir, pinode, pimap, imap, t, C)
      BY <2>4, <3>2, Zenon
    <3>4. /\ t \in Seq(LogBlock) /\ C.log_end = cr.log_end + Len(t) /\ C.log_end \in Nat
          /\ RemoveMade(disk, cr, Overlaid(disk, t, C.log_end), C, p, del, k)
      BY <3>3, RemoveBlocks
    <3>5. Pending(disk, cr, t, C, r)
      <4>1. PICK O : O = Overlaid(disk, t, C.log_end)
        OBVIOUS
      <4>2. cr.log_end + Len(t) <= C.log_end
        BY <3>4, ImageTypes, LenProperties
      <4>3. RemoveMade(disk, cr, O, C, p, del, k)
        BY <3>4, <4>1
      <4>4. QED
        BY <2>1, <2>3, <2>4, <3>1, <4>1, <4>2, <4>3, RemovePending
    <3>6. C \in CR
      BY <3>5 DEF Pending
    <3>7. QED
      BY <3>2, <3>4, <3>5, <3>6 DEF Runs
  <2>9. QED
    BY <2>4, <2>5, <2>6, <2>7, <2>8, Zenon DEF Unlinked
<1>4. QED
  BY <1>1, <1>3
-----------------------------------------------------------------------------
(* The invariant is inductive.                                             *)

(* A request of each kind, and its arguments.                              *)
LEMMA RequestIs ==
    ASSUME NEW r \in Request
    PROVE  /\ r # None /\ r.inum \in 0 .. MAX_INODES
           /\ r.op \in {"lookup", "stat", "read", "write", "creat", "unlink"}
           /\ r.op = "lookup" => r.name \in Name \cup {Dot, DotDot}
           /\ r.op \in {"read", "write"} => r.block \in 0 .. MAX_DIRECT_P
           /\ r.op = "write" => r.data \in Data
           /\ r.op = "creat" => r.name \in Name \cup {Dot} /\ r.type \in {"dir", "file"}
           /\ r.op = "unlink" => r.name \in Name
<1>1. r # None
  BY NoneAssumption
<1>2. \/ r \in [op : {"lookup"}, inum : 0 .. MAX_INODES, name : Name \cup {Dot, DotDot}]
      \/ r \in [op : {"stat"}, inum : 0 .. MAX_INODES]
      \/ r \in [op : {"read"}, inum : 0 .. MAX_INODES, block : 0 .. MAX_DIRECT_P]
      \/ r \in [op : {"write"}, inum : 0 .. MAX_INODES, block : 0 .. MAX_DIRECT_P, data : Data]
      \/ r \in [op : {"creat"}, inum : 0 .. MAX_INODES, name : Name \cup {Dot}, type : {"dir", "file"}]
      \/ r \in [op : {"unlink"}, inum : 0 .. MAX_INODES, name : Name]
  BY DEF Request, Requests
<1>3. QED
  BY <1>1, <1>2

LEMMA Served ==
    ASSUME NoNameSpelled, ImageOK(disk, cr), TreeOK(disk, cr), NEW r \in Request, Routine(r)
    PROVE  Returns \/ Runs(r)
<1>1. CASE r.op = "lookup"
  BY <1>1 DEF Routine, S_Lookup, Return, Returns
<1>2. CASE r.op = "stat"
  BY <1>2 DEF Routine, S_Stat, Return, Returns
<1>3. CASE r.op = "read"
  BY <1>3 DEF Routine, S_Read, Return, Returns
<1>4. CASE r.op = "write"
  <2>1. S_Write(r.inum, r.data, r.block)
    BY <1>4 DEF Routine
  <2>2. QED
    BY <1>4, <2>1, RequestIs, ServeWrite
<1>5. CASE r.op = "creat"
  <2>1. S_Creat(r.inum, r.type, r.name)
    BY <1>5 DEF Routine
  <2>2. QED
    BY <1>5, <2>1, RequestIs, ServeCreat
<1>6. CASE r.op = "unlink"
  <2>1. S_Unlink(r.inum, r.name)
    BY <1>6 DEF Routine
  <2>2. QED
    BY <1>6, <2>1, RequestIs, ServeUnlink
<1>7. QED
  BY <1>1, <1>2, <1>3, <1>4, <1>5, <1>6, RequestIs

(* What is appended beyond the end of the log is not seen.                 *)
LEMMA ImageStays ==
    ASSUME NEW d, NEW c, ImageOK(d, c), TreeOK(d, c), NEW D, Agree(d, D, c.log_end)
    PROVE  ImageOK(D, c) /\ TreeOK(D, c) /\ TreeAt(D, c) = TreeAt(d, c)
<1>1. /\ \A k \in 0 .. MAX_IMAPS - 1 : MapAt(D, c, k) = MapAt(d, c, k)
      /\ \A i \in Inum : SameNode(d, c, D, c, i)
  BY SameMaps
<1>2. \A i \in Inum : AddrAt(D, c, i) = AddrAt(d, c, i)
  BY <1>1 DEF SameNode
<1>3. c \in CR /\ c.log_end <= c.log_end
  <2>1. c.log_end \in Nat
    BY ImageTypes
  <2>2. QED
    BY <2>1 DEF ImageOK
<1>4. ASSUME NEW k \in 0 .. MAX_IMAPS - 1, c.imap_p[k] # 0 PROVE c.imap_p[k] < c.log_end /\ D[c.imap_p[k]] \in Imap
  BY <1>4, ImageTypes DEF ImageOK, Agree
<1>5. \A i \in Inum : ~Anew(d, c, D, c, i)
  BY <1>2, OldIsOld
<1>6. ImageOK(D, c)
  <2>1. \A i \in Inum : AddrAt(D, c, i) \in {0, AddrAt(d, c, i)}
    BY <1>2
  <2>2. QED
    BY <1>3, <1>4, <1>5, <2>1, NextImage
<1>7. SameDirs(d, c, D, c)
  <2>1. \A i \in Inum : /\ LiveAt(D, c, i) <=> LiveAt(d, c, i)
                        /\ DirAt(D, c, i) <=> DirAt(d, c, i)
                        /\ LiveAt(d, c, i) => \A k \in Position : Ent(D, c, i, k) = Ent(d, c, i, k)
    BY <1>1, SameAt
  <2>2. QED
    BY <2>1 DEF SameDirs, DirAt
<1>8. TreeOK(D, c)
  BY <1>7, SameTree
<1>9. QED
  BY <1>1, <1>6, <1>8, SameTreeAt

(* The image with the root directory in it.                                *)
RootOnly(d, c) ==
    /\ d[1] = EmptyDir(0, 0) /\ d[2] = DirInode(1) /\ d[3] = [NoInodes EXCEPT !.inode_p[0] = 2]
    /\ c.log_end = 4 /\ c.imap_p = [k \in 0 .. MAX_IMAPS - 1 |-> IF k = 0 THEN 3 ELSE 0] /\ c \in CR

LEMMA RootNode ==
    ASSUME NEW d, NEW c, RootOnly(d, c)
    PROVE  /\ \A i \in Inum : AddrAt(d, c, i) = IF i = 0 THEN 2 ELSE 0
           /\ NodeAt(d, c, 0) = DirInode(1) /\ d[3] \in Imap /\ 1 \in Addr /\ 2 \in Addr /\ 3 \in Addr
<1>1. 1 \in Addr /\ 2 \in Addr /\ 3 \in Addr
  BY DEF Addr
<1>2. Piece(0) = 0 /\ 0 % IMAP_SIZE = 0
  BY DEF Piece
<1>3. NoInodes \in Imap /\ \A o \in 0 .. IMAP_SIZE - 1 : NoInodes.inode_p[o] = 0
  BY DEF NoInodes, Imap
<1>4. d[3] \in Imap /\ \A o \in 0 .. IMAP_SIZE - 1 : d[3].inode_p[o] = IF o = 0 THEN 2 ELSE 0
  <2>1. d[3] = Setting(NoInodes, 0, 2)
    <3>1. d[3] = [NoInodes EXCEPT !.inode_p[0] = 2]
      BY DEF RootOnly
    <3>2. QED
      BY <1>2, <3>1, Zenon DEF Setting
  <2>2. QED
    BY <1>1, <1>2, <1>3, <2>1, ZeroInum, SettingIs
<1>5. \A k \in 0 .. MAX_IMAPS - 1 : MapAt(d, c, k) = IF k = 0 THEN d[3] ELSE NoInodes
  BY DEF RootOnly, MapAt
<1>6. ASSUME NEW i \in Inum PROVE AddrAt(d, c, i) = IF i = 0 THEN 2 ELSE 0
  <2>1. Piece(i) \in 0 .. MAX_IMAPS - 1 /\ i % IMAP_SIZE \in 0 .. IMAP_SIZE - 1
    BY InumPlace
  <2>2. AddrAt(d, c, i) = IF Piece(i) = 0 /\ i % IMAP_SIZE = 0 THEN 2 ELSE 0
    BY <1>3, <1>4, <1>5, <2>1 DEF AddrAt
  <2>3. Piece(i) = 0 /\ i % IMAP_SIZE = 0 => i = 0
    BY <1>2, ZeroInum, InumIsPlace
  <2>4. QED
    BY <1>2, <2>2, <2>3
<1>7. NodeAt(d, c, 0) = DirInode(1)
  BY <1>6, ZeroInum DEF NodeAt, RootOnly
<1>8. QED
  BY <1>1, <1>4, <1>6, <1>7

LEMMA RootImage ==
    ASSUME NEW d, NEW c, RootOnly(d, c)
    PROVE  /\ ImageOK(d, c) /\ TreeOK(d, c)
           /\ \A i \in Inum : LiveAt(d, c, i) <=> i = 0
           /\ DirAt(d, c, 0) /\ \A k \in Position : Ent(d, c, 0, k) = NewEntry(0, 0, k)
<1>1. /\ \A i \in Inum : AddrAt(d, c, i) = IF i = 0 THEN 2 ELSE 0
      /\ NodeAt(d, c, 0) = DirInode(1) /\ d[3] \in Imap /\ 1 \in Addr /\ 0 \in Inum
  BY RootNode, ZeroInum
<1>2. /\ NodeOK(d, 4, DirInode(1)) /\ DirInode(1).type = "dir"
      /\ \A k \in Position : EntOf(d, DirInode(1), k) = NewEntry(0, 0, k)
  <2>1. d[1] = EmptyDir(0, 0) /\ 1 < 4
    BY DEF RootOnly
  <2>2. QED
    BY <1>1, <2>1, NewDirOK
<1>3. ImageOK(d, c)
  <2>1. \A k \in 0 .. MAX_IMAPS - 1 : c.imap_p[k] # 0 => c.imap_p[k] < c.log_end /\ d[c.imap_p[k]] \in Imap
    BY <1>1 DEF RootOnly
  <2>2. \A i \in Inum : AddrAt(d, c, i) # 0 => AddrAt(d, c, i) < c.log_end /\ NodeOK(d, c.log_end, NodeAt(d, c, i))
    <3>1. c.log_end = 4 /\ 2 < 4
      BY DEF RootOnly
    <3>2. QED
      BY <1>1, <1>2, <3>1
  <2>3. \A i, j \in Inum : i # j /\ AddrAt(d, c, i) # 0 /\ AddrAt(d, c, j) # 0 => FALSE
    BY <1>1
  <2>4. QED
    BY <2>1, <2>2, <2>3 DEF ImageOK, RootOnly
<1>4. \A i \in Inum : (LiveAt(d, c, i) <=> i = 0) /\ (DirAt(d, c, i) => i = 0)
  BY <1>1 DEF LiveAt, DirAt
<1>5. DirAt(d, c, 0) /\ \A k \in Position : Ent(d, c, 0, k) = NewEntry(0, 0, k)
  BY <1>1, <1>2 DEF LiveAt, DirAt, Ent
<1>6. \A k \in Position : Ent(d, c, 0, k).inum # -1 <=> k \in {0, 1}
  BY <1>5 DEF NewEntry, NoEntry
<1>7. DirOK(d, c, 0)
  <2>1. Ent(d, c, 0, 0) = [name |-> Dot, inum |-> 0] /\ Ent(d, c, 0, 1) = [name |-> DotDot, inum |-> 0]
    BY <1>5, FirstPositions DEF NewEntry
  <2>2. QED
    BY <1>1, <1>6, <2>1 DEF DirOK
<1>8. \A i \in Inum, k \in Position : ~SonAt(d, c, i, k)
  BY <1>4, <1>6 DEF SonAt
<1>9. TreeOK(d, c)
  <2>1. Ent(d, c, 0, 1) = [name |-> DotDot, inum |-> 0]
    BY <1>5, FirstPositions DEF NewEntry
  <2>2. Ranked(d, c)
    <3>1. PICK depth \in [Inum -> Nat] : depth = [i \in Inum |-> 0]
      OBVIOUS
    <3>2. QED
      BY <1>8, <3>1 DEF Ranked
  <2>3. QED
    BY <1>4, <1>5, <1>7, <1>8, <2>1, <2>2 DEF TreeOK
<1>10. QED
  BY <1>3, <1>4, <1>5, <1>9

LEMMA InitIsRoot ==
    ASSUME Init
    PROVE  RootOnly(disk, cr) /\ disk \in [Addr -> LogBlock \cup {None}]
<1>1. 1 \in Addr /\ 2 \in Addr /\ 3 \in Addr
  BY DEF Addr
<1>2. disk[1] = EmptyDir(0, 0) /\ disk[2] = DirInode(1) /\ disk[3] = [NoInodes EXCEPT !.inode_p[0] = 2]
  BY <1>1 DEF Init
<1>3. cr.log_end = 4 /\ cr.imap_p = [k \in 0 .. MAX_IMAPS - 1 |-> IF k = 0 THEN 3 ELSE 0] /\ cr \in CR
  BY <1>1 DEF Init, CR
<1>4. RootOnly(disk, cr)
  BY <1>2, <1>3 DEF RootOnly
<1>5. disk[1] \in LogBlock /\ disk[2] \in LogBlock /\ disk[3] \in LogBlock
  <2>1. NodeOK(disk, 4, DirInode(1))
    <3>1. disk[1] = EmptyDir(0, 0) /\ 1 < 4 /\ 1 \in Addr
      BY <1>1, <1>2
    <3>2. QED
      BY <3>1, ZeroInum, NewDirOK
  <2>2. disk[1] \in DirBlock
    <3>1. 0 \in Blocks(DirInode(1)) /\ DirInode(1).type = "dir" /\ DirInode(1).dp[0] = 1
      BY FirstPositions DEF DirInode, Blocks
    <3>2. QED
      BY <2>1, <3>1 DEF NodeOK
  <2>3. disk[3] \in Imap
    BY <1>4, RootNode
  <2>4. QED
    BY <1>2, <2>1, <2>2, <2>3 DEF NodeOK, LogBlock
<1>6. disk \in [Addr -> LogBlock \cup {None}]
  <2>1. PICK f : f = disk
    OBVIOUS
  <2>2. DOMAIN f = Addr /\ f = [a \in Addr |-> f[a]]
    BY <2>1 DEF Init
  <2>3. ASSUME NEW a \in Addr PROVE f[a] \in LogBlock \cup {None}
    <3>1. a \notin {1, 2, 3} => f[a] = None
      BY <2>1 DEF Init
    <3>2. QED
      BY <1>5, <2>1, <3>1
  <2>4. QED
    BY <2>1, <2>2, <2>3
<1>7. QED
  BY <1>4, <1>6
LEMMA InitOK == Init => IInv
<1> SUFFICES ASSUME Init PROVE IInv
  OBVIOUS
<1>1. ImageOK(disk, cr) /\ TreeOK(disk, cr) /\ disk \in [Addr -> LogBlock \cup {None}]
  BY InitIsRoot, RootImage
<1>2. todo = <<>> /\ newcr = None /\ call = None /\ reply = None
  BY DEF Init
<1>3. QED
  BY <1>1, <1>2 DEF IInv

LEMMA CRNotNone == \A c \in CR : c # None /\ c.log_end \in Nat /\ c.log_end >= 1 /\ c.log_end <= MaxLog + 1
<1>1. \A c \in CR : c # None
  BY NoneAssumption
<1>2. QED
  BY <1>1 DEF CR

LEMMA ServeOK ==
    ASSUME NoNameSpelled, IInv, NEW r \in Request, Serve(r)
    PROVE  IInv'
<1>1. /\ disk \in [Addr -> LogBlock \cup {None}] /\ todo \in Seq(LogBlock)
      /\ ImageOK(disk, cr) /\ TreeOK(disk, cr) /\ newcr = None /\ reply = None /\ todo = <<>>
      /\ call' = r /\ disk' = disk /\ cr' = cr /\ Routine(r) /\ r # None
  BY RequestIs DEF IInv, Serve
<1>2. CASE Returns
  BY <1>1, <1>2 DEF IInv, Returns
<1>3. CASE Runs(r)
  <2>1. /\ todo' \in Seq(LogBlock) /\ newcr' \in CR /\ reply' = None
        /\ Pending(disk, cr, todo', newcr', r) /\ newcr' # None
    BY <1>1, <1>3, CRNotNone DEF Runs
  <2>2. Pending(disk', cr', todo', newcr', call')
    BY <1>1, <2>1
  <2>3. QED
    BY <1>1, <2>1, <2>2 DEF IInv
<1>4. QED
  BY <1>1, <1>2, <1>3, Served

LEMMA LogWriteOK ==
    ASSUME IInv, LogWrite
    PROVE  IInv' /\ TreeAt(disk', cr') = TreeAt(disk, cr)
<1>1. /\ disk \in [Addr -> LogBlock \cup {None}] /\ todo \in Seq(LogBlock)
      /\ ImageOK(disk, cr) /\ TreeOK(disk, cr) /\ newcr # None /\ reply = None /\ call \in Request /\ todo # <<>>
      /\ Pending(disk, cr, todo, newcr, call)
      /\ disk' = [disk EXCEPT ![newcr.log_end - Len(todo)] = Head(todo)] /\ todo' = Tail(todo)
      /\ cr' = cr /\ newcr' = newcr /\ call' = call /\ reply' = reply
  BY DEF IInv, LogWrite
<1>2. PICK E \in Nat : E = newcr.log_end /\ E <= MaxLog + 1
  BY <1>1, CRNotNone DEF Pending
<1>3. PICK e \in Nat : e = cr.log_end /\ e >= 1
  BY <1>1, ImageTypes
<1>4. PICK D : D = disk' /\ D = [disk EXCEPT ![E - Len(todo)] = Head(todo)]
  BY <1>1, <1>2
<1>5. /\ Overlaid(D, Tail(todo), E) = Overlaid(disk, todo, E) /\ Tail(todo) \in Seq(LogBlock)
      /\ Agree(disk, D, e) /\ e + Len(Tail(todo)) <= E
  <2>1. e + Len(todo) <= E
    BY <1>1, <1>2, <1>3 DEF Pending
  <2>2. D = [disk EXCEPT ![E - Len(todo)] = Head(todo)]
    BY <1>4
  <2>3. disk \in [Addr -> LogBlock \cup {None}] /\ todo \in Seq(LogBlock) /\ todo # <<>>
    BY <1>1
  <2>4. E <= MaxLog + 1 /\ e >= 1
    BY <1>2, <1>3
  <2>5. QED
    <3>1. Appends(disk, todo, e, E, D)
      BY <2>1, <2>2, <2>3, <2>4, Zenon DEF Appends
    <3>2. QED
      BY <3>1, OverlaidNext, Zenon
<1>6. ImageOK(D, cr) /\ TreeOK(D, cr) /\ TreeAt(D, cr) = TreeAt(disk, cr)
  BY <1>1, <1>3, <1>5, ImageStays
<1>7. Pending(D, cr, Tail(todo), newcr, call)
  <2>1. /\ newcr \in CR
        /\ ImageOK(Overlaid(disk, todo, E), newcr) /\ TreeOK(Overlaid(disk, todo, E), newcr)
        /\ Promised(TreeAt(disk, cr), TreeAt(Overlaid(disk, todo, E), newcr), call)
    BY <1>1, <1>2 DEF Pending
  <2>2. QED
    BY <1>2, <1>3, <1>5, <1>6, <2>1 DEF Pending
<1>8. D \in [Addr -> LogBlock \cup {None}]
  <2>1. Head(todo) \in LogBlock
    BY <1>1, HeadTailProperties
  <2>2. QED
    BY <1>1, <1>4, <2>1
<1>9. IInv'
  <2>1. Pending(disk', cr', todo', newcr', call')
    BY <1>1, <1>4, <1>7
  <2>2. ImageOK(disk', cr') /\ TreeOK(disk', cr') /\ disk' \in [Addr -> LogBlock \cup {None}] /\ todo' \in Seq(LogBlock)
    BY <1>1, <1>4, <1>5, <1>6, <1>8
  <2>3. newcr' # None /\ reply' = None /\ call' \in Request /\ call' # None
    BY <1>1, RequestIs
  <2>4. QED
    BY <2>1, <2>2, <2>3 DEF IInv
<1>10. QED
  BY <1>1, <1>4, <1>6, <1>9

LEMMA CRWriteOK ==
    ASSUME IInv, CRWrite
    PROVE  IInv' /\ Promised(TreeAt(disk, cr), TreeAt(disk', cr'), call)
<1>1. /\ disk \in [Addr -> LogBlock \cup {None}] /\ newcr # None /\ reply = None /\ call \in Request /\ call # None /\ todo = <<>>
      /\ Pending(disk, cr, todo, newcr, call)
      /\ cr' = newcr /\ newcr' = None /\ disk' = disk /\ todo' = todo /\ call' = call
  BY RequestIs DEF IInv, CRWrite
<1>2. PICK E \in Nat : E = newcr.log_end
  BY <1>1, CRNotNone DEF Pending
<1>3. Overlaid(disk, <<>>, E) = disk
  BY <1>1, OverlaidNothing
<1>4. ImageOK(disk, newcr) /\ TreeOK(disk, newcr) /\ Promised(TreeAt(disk, cr), TreeAt(disk, newcr), call)
  BY <1>1, <1>2, <1>3 DEF Pending
<1>5. todo' \in Seq(LogBlock)
  BY <1>1, EmptySeq
<1>6. QED
  BY <1>1, <1>4, <1>5 DEF IInv

LEMMA NextOK == NoNameSpelled /\ IInv /\ [Next]_vars => IInv'
<1> SUFFICES ASSUME NoNameSpelled, IInv, [Next]_vars PROVE IInv'
  OBVIOUS
<1>1. ASSUME NEW r \in Request, Serve(r) PROVE IInv'
  BY <1>1, ServeOK
<1>2. CASE LogWrite
  BY <1>2, LogWriteOK
<1>3. CASE CRWrite
  BY <1>3, CRWriteOK
<1>4. CASE Reply
  <2>1. /\ reply # None /\ reply' = None /\ call' = None
        /\ disk' = disk /\ cr' = cr /\ todo' = todo /\ newcr' = newcr
    BY <1>4 DEF Reply
  <2>2. newcr = None
    BY <2>1 DEF IInv
  <2>3. QED
    BY <2>1, <2>2 DEF IInv
<1>5. CASE Crash
  <2>1. todo' = <<>> /\ newcr' = None /\ call' = None /\ reply' = None /\ disk' = disk /\ cr' = cr
    BY <1>5 DEF Crash
  <2>2. todo' \in Seq(LogBlock)
    BY <2>1, EmptySeq
  <2>3. QED
    BY <2>1, <2>2 DEF IInv
<1>6. CASE UNCHANGED vars
  BY <1>6 DEF IInv, vars, server
<1>7. QED
  BY <1>1, <1>2, <1>3, <1>4, <1>5, <1>6 DEF Next

LEMMA IInvCorrect == NoNameSpelled => (Spec => []IInv)
<1> SUFFICES ASSUME NoNameSpelled PROVE Spec => []IInv
  OBVIOUS
<1>1. IInv /\ [Next]_vars => IInv'
  BY NextOK
<1>2. QED
  BY <1>1, InitOK, PTL DEF Spec

-----------------------------------------------------------------------------
(* What the invariant says of the image on the disk.                       *)

(* Each pointer on the disk leads below log_end, to a block of the kind it *)
(* is a pointer to, whatever has been appended and lost.                   *)
THEOREM ReachableCorrect == NoNameSpelled => (Spec => []ReachableIsLogged)
<1> SUFFICES ASSUME NoNameSpelled PROVE Spec => []ReachableIsLogged
  OBVIOUS
<1>1. IInv => ReachableIsLogged
  <2> SUFFICES ASSUME IInv PROVE ReachableIsLogged
    OBVIOUS
  <2>0. ImageOK(disk, cr)
    BY DEF IInv
  <2>1. ASSUME NEW a \in MapAddrs PROVE a < cr.log_end /\ disk[a] \in Imap
    BY <2>0, <2>1 DEF MapAddrs, ImageOK
  <2>2. \A i \in Live : i \in Inum /\ LiveAt(disk, cr, i) /\ InodeAddr(i) = AddrAt(disk, cr, i)
                        /\ InodeOf(i) = NodeAt(disk, cr, i) /\ (IsDir(i) <=> DirAt(disk, cr, i))
    BY StateViews, Views DEF Live
  <2>3. ASSUME NEW i \in Live
        PROVE  AddrAt(disk, cr, i) < cr.log_end /\ NodeOK(disk, cr.log_end, NodeAt(disk, cr, i))
    BY <2>0, <2>2 DEF ImageOK, LiveAt
  <2>4. ASSUME NEW a \in InodeAddrs PROVE a < cr.log_end /\ disk[a] \in Inode
    <3>1. PICK i \in Live : a = InodeAddr(i)
      BY DEF InodeAddrs
    <3>2. disk[a] = NodeAt(disk, cr, i) /\ a = AddrAt(disk, cr, i)
      BY <2>2, <3>1 DEF NodeAt
    <3>3. QED
      BY <2>3, <3>2 DEF NodeOK
  <2>5. ASSUME NEW i \in Live, NEW b \in Offset, InodeOf(i).dp[b] # 0
        PROVE  /\ InodeOf(i).dp[b] < cr.log_end
               /\ disk[InodeOf(i).dp[b]] \in IF IsDir(i) THEN DirBlock ELSE DataBlock
    <3>1. NodeOK(disk, cr.log_end, InodeOf(i)) /\ (IsDir(i) <=> InodeOf(i).type = "dir") /\ b \in Blocks(InodeOf(i))
      BY <2>2, <2>3, <2>5 DEF DirAt, Blocks
    <3>2. QED
      BY <3>1 DEF NodeOK
  <2>6. QED
    BY <2>1, <2>4, <2>5 DEF ReachableIsLogged
<1>2. QED
  BY <1>1, IInvCorrect, PTL

(* No two inodes have their address or a block in common.                  *)
THEOREM OwnersCorrect == NoNameSpelled => (Spec => []OneOwner)
<1> SUFFICES ASSUME NoNameSpelled PROVE Spec => []OneOwner
  OBVIOUS
<1>1. IInv => OneOwner
  <2> SUFFICES ASSUME IInv, NEW i \in Live, NEW j \in Live, i # j
               PROVE  /\ InodeAddr(i) # InodeAddr(j)
                      /\ \A b, c \in Offset : InodeOf(i).dp[b] = InodeOf(j).dp[c] => InodeOf(i).dp[b] = 0
    BY DEF OneOwner
  <2>1. ImageOK(disk, cr) /\ i \in Inum /\ j \in Inum
    BY DEF IInv, Live
  <2>2. /\ AddrAt(disk, cr, i) # 0 /\ InodeAddr(i) = AddrAt(disk, cr, i) /\ InodeOf(i) = NodeAt(disk, cr, i)
        /\ AddrAt(disk, cr, j) # 0 /\ InodeAddr(j) = AddrAt(disk, cr, j) /\ InodeOf(j) = NodeAt(disk, cr, j)
    BY <2>1, Views DEF Live
  <2>3. AddrAt(disk, cr, i) # AddrAt(disk, cr, j) /\ Apart(NodeAt(disk, cr, i), NodeAt(disk, cr, j))
    BY <2>1, <2>2 DEF ImageOK
  <2>4. QED
    BY <2>2, <2>3 DEF Apart
<1>2. QED
  BY <1>1, IInvCorrect, PTL
(* The sons of a directory are what its entries but the first two lead to. *)
LEMMA SonsAre ==
    ASSUME TreeOK(disk, cr), NEW d \in Inum, DirAt(disk, cr, d)
    PROVE  /\ Entries(d) = EntriesAt(disk, cr, d)
           /\ \A s \in Sons(d) : \E k \in Position : SonAt(disk, cr, d, k) /\ Ent(disk, cr, d, k).inum = s
           /\ \A k \in Position : SonAt(disk, cr, d, k) => Ent(disk, cr, d, k).inum \in Sons(d)
<1>1. Used(d) = UsedAt(disk, cr, d) /\ \A k \in Position : EntryAt(d, k) = Ent(disk, cr, d, k)
  BY StateViews
<1>2. Entries(d) = EntriesAt(disk, cr, d)
  BY <1>1 DEF Entries, EntriesAt, UsedAt
<1>3. DirOK(disk, cr, d)
  BY DEF TreeOK
<1>4. ASSUME NEW s \in Sons(d)
      PROVE  \E k \in Position : SonAt(disk, cr, d, k) /\ Ent(disk, cr, d, k).inum = s
  <2>1. PICK k \in UsedAt(disk, cr, d) : Ent(disk, cr, d, k).inum = s /\ Ent(disk, cr, d, k).name \notin {Dot, DotDot}
    BY <1>2 DEF Sons, EntriesAt
  <2>2. k # 0 /\ k # 1
    BY <1>3, <2>1 DEF DirOK
  <2>3. QED
    BY <2>1, <2>2 DEF SonAt, UsedAt
<1>5. ASSUME NEW k \in Position, SonAt(disk, cr, d, k) PROVE Ent(disk, cr, d, k).inum \in Sons(d)
  <2>1. SonOK(disk, cr, d, k)
    BY <1>5 DEF TreeOK
  <2>2. Ent(disk, cr, d, k) \in Entries(d) /\ Ent(disk, cr, d, k).name \notin {Dot, DotDot}
    BY <1>2, <1>5, <2>1 DEF SonAt, SonOK, EntriesAt, UsedAt
  <2>3. QED
    BY <2>2 DEF Sons
<1>6. QED
  BY <1>2, <1>4, <1>5

(* The entry that leads to a son is the only one that does.                *)
LEMMA OneWayDown ==
    ASSUME TreeOK(disk, cr), NEW d \in Inum, DirAt(disk, cr, d), NEW k \in UsedAt(disk, cr, d),
           Ent(disk, cr, d, k).inum \in Sons(d)
    PROVE  SonAt(disk, cr, d, k)
<1>1. PICK m \in Position : SonAt(disk, cr, d, m) /\ Ent(disk, cr, d, m).inum = Ent(disk, cr, d, k).inum
  BY SonsAre
<1>2. PICK s \in Inum : s = Ent(disk, cr, d, m).inum /\ s # 0 /\ s # d
  <2>1. SonOK(disk, cr, d, m)
    BY <1>1 DEF TreeOK
  <2>2. QED
    BY <2>1 DEF SonOK
<1>3. PICK depth \in [Inum -> Nat] :
        \A i \in Inum, l \in Position : SonAt(disk, cr, i, l) => depth[Ent(disk, cr, i, l).inum] > depth[i]
  BY DEF TreeOK, Ranked
<1>4. DirOK(disk, cr, d)
  BY DEF TreeOK
<1>5. k # 0
  BY <1>1, <1>2, <1>4 DEF DirOK
<1>6. k # 1
  <2>1. SUFFICES ASSUME k = 1 PROVE FALSE
    OBVIOUS
  <2>2. Ent(disk, cr, d, 1).inum = s
    BY <1>1, <1>2, <2>1
  <2>3. CASE d = 0
    <3>1. Ent(disk, cr, 0, 1).inum = 0
      BY DEF TreeOK
    <3>2. QED
      BY <1>2, <2>2, <2>3, <3>1
  <2>4. CASE d # 0
    <3>1. PICK i \in Inum, l \in Position : SonAt(disk, cr, i, l) /\ Ent(disk, cr, i, l).inum = d
      BY <2>4 DEF TreeOK, DirAt
    <3>2. SonOK(disk, cr, i, l)
      BY <3>1 DEF TreeOK
    <3>3. Ent(disk, cr, d, 1).inum = i
      BY <3>1, <3>2 DEF SonOK
    <3>4. depth[d] > depth[i] /\ depth[i] > depth[d]
      BY <1>1, <1>2, <1>3, <2>2, <3>1, <3>3
    <3>5. QED
      BY <1>3, <3>4
  <2>5. QED
    BY <2>3, <2>4
<1>7. QED
  BY <1>5, <1>6 DEF SonAt, UsedAt

(* The directories make a tree: each entry leads to an inode that exists,  *)
(* each inode but the root's is in one directory under one name, and no    *)
(* directory is below itself.                                              *)
THEOREM TreeCorrect == NoNameSpelled => (Spec => []DirectoriesMakeATree)
<1> SUFFICES ASSUME NoNameSpelled PROVE Spec => []DirectoriesMakeATree
  OBVIOUS
<1>1. IInv => DirectoriesMakeATree
  <2> SUFFICES ASSUME IInv PROVE DirectoriesMakeATree
    OBVIOUS
  <2>0. TreeOK(disk, cr)
    BY DEF IInv
  <2>1. \A i : i \in Live <=> i \in Inum /\ LiveAt(disk, cr, i)
    BY StateViews DEF Live
  <2>2. \A i \in Live : i \in Inum /\ (IsDir(i) <=> DirAt(disk, cr, i))
    BY <2>1, StateViews
  <2>3. ASSUME NEW d \in Live, IsDir(d), NEW s \in Sons(d)
        PROVE  /\ s \in Live \ {0, d}
               /\ IsDir(s) => [name |-> DotDot, inum |-> d] \in Entries(s)
    <3>1. d \in Inum /\ DirAt(disk, cr, d)
      BY <2>2, <2>3
    <3>2. PICK k \in Position : SonAt(disk, cr, d, k) /\ Ent(disk, cr, d, k).inum = s
      BY <2>0, <2>3, <3>1, SonsAre
    <3>3. SonOK(disk, cr, d, k)
      BY <2>0, <3>1, <3>2 DEF TreeOK
    <3>4. /\ s \in Inum \ {0, d} /\ LiveAt(disk, cr, s)
          /\ DirAt(disk, cr, s) => Ent(disk, cr, s, 1) = [name |-> DotDot, inum |-> d]
      BY <3>2, <3>3 DEF SonOK
    <3>5. ASSUME IsDir(s) PROVE [name |-> DotDot, inum |-> d] \in Entries(s)
      <4>1. DirAt(disk, cr, s)
        BY <2>1, <2>2, <3>4, <3>5
      <4>2. Entries(s) = EntriesAt(disk, cr, s)
        BY <2>0, <3>4, <4>1, SonsAre
      <4>3. 1 \in UsedAt(disk, cr, s)
        BY <3>1, <3>4, <4>1, FirstPositions, InumNotMinus DEF UsedAt
      <4>4. QED
        BY <3>4, <4>1, <4>2, <4>3 DEF EntriesAt
    <3>6. QED
      BY <2>1, <3>4, <3>5
  <2>4. ASSUME NEW d \in Live, IsDir(d) PROVE [name |-> Dot, inum |-> d] \in Entries(d)
    <3>1. d \in Inum /\ DirAt(disk, cr, d)
      BY <2>2, <2>4
    <3>2. Ent(disk, cr, d, 0) = [name |-> Dot, inum |-> d]
      BY <2>0, <3>1 DEF TreeOK, DirOK
    <3>3. 0 \in UsedAt(disk, cr, d)
      BY <3>1, <3>2, FirstPositions, InumNotMinus DEF UsedAt
    <3>4. QED
      BY <2>0, <3>1, <3>2, <3>3, SonsAre DEF EntriesAt
  <2>5. ASSUME NEW d \in Live, IsDir(d), NEW k \in Used(d), NEW l \in Used(d),
               \/ EntryAt(d, k).name = EntryAt(d, l).name
               \/ EntryAt(d, k).inum = EntryAt(d, l).inum /\ EntryAt(d, k).inum \in Sons(d)
        PROVE  k = l
    <3>1. d \in Inum /\ DirAt(disk, cr, d)
      BY <2>2, <2>5
    <3>2. /\ k \in UsedAt(disk, cr, d) /\ EntryAt(d, k) = Ent(disk, cr, d, k)
          /\ l \in UsedAt(disk, cr, d) /\ EntryAt(d, l) = Ent(disk, cr, d, l)
      BY <3>1, StateViews DEF UsedAt
    <3>3. CASE EntryAt(d, k).name = EntryAt(d, l).name
      BY <2>0, <3>1, <3>2, <3>3 DEF TreeOK, DirOK, UsedAt
    <3>4. CASE EntryAt(d, k).inum = EntryAt(d, l).inum /\ EntryAt(d, k).inum \in Sons(d)
      <4>1. SonAt(disk, cr, d, k) /\ SonAt(disk, cr, d, l)
        BY <2>0, <3>1, <3>2, <3>4, OneWayDown
      <4>2. QED
        BY <2>0, <3>1, <3>2, <3>4, <4>1 DEF TreeOK, UsedAt
    <3>5. QED
      BY <2>5, <3>3, <3>4
  <2>6. ASSUME NEW i \in Live \ {0}
        PROVE  \E d \in Live : IsDir(d) /\ i \in Sons(d) /\ \A e \in Live : IsDir(e) /\ i \in Sons(e) => e = d
    <3>1. i \in Inum \ {0} /\ LiveAt(disk, cr, i)
      BY <2>1
    <3>2. PICK d \in Inum, k \in Position : SonAt(disk, cr, d, k) /\ Ent(disk, cr, d, k).inum = i
      BY <2>0, <3>1 DEF TreeOK
    <3>3. DirAt(disk, cr, d) /\ d \in Live /\ IsDir(d) /\ i \in Sons(d)
      BY <2>0, <2>1, <2>2, <3>2, SonsAre DEF SonAt, DirAt
    <3>4. ASSUME NEW e \in Live, IsDir(e), i \in Sons(e) PROVE e = d
      <4>1. e \in Inum /\ DirAt(disk, cr, e)
        BY <2>2, <3>4
      <4>2. PICK l \in Position : SonAt(disk, cr, e, l) /\ Ent(disk, cr, e, l).inum = i
        BY <2>0, <3>4, <4>1, SonsAre
      <4>3. QED
        BY <2>0, <3>2, <4>1, <4>2 DEF TreeOK
    <3>5. QED
      BY <3>3, <3>4
  <2>7. ASSUME NEW S \in (SUBSET Live) \ {{}}
        PROVE  \E i \in S : \A d \in S : IsDir(d) => i \notin Sons(d)
    <3>1. PICK depth \in [Inum -> Nat] :
            \A i \in Inum, k \in Position : SonAt(disk, cr, i, k) => depth[Ent(disk, cr, i, k).inum] > depth[i]
      BY <2>0 DEF TreeOK, Ranked
    <3>2. PICK N : N = {depth[i] : i \in S}
      OBVIOUS
    <3>3. N \in SUBSET Nat /\ N # {}
      BY <2>1, <2>7, <3>1, <3>2
    <3>4. PICK n \in N : \A m \in N : n <= m
      BY <3>3, LeastNatural
    <3>5. PICK i \in S : n = depth[i]
      BY <3>2, <3>4
    <3>6. ASSUME NEW d \in S, IsDir(d), i \in Sons(d) PROVE FALSE
      <4>1. d \in Inum /\ DirAt(disk, cr, d) /\ i \in Inum
        BY <2>1, <2>2, <3>6
      <4>2. PICK k \in Position : SonAt(disk, cr, d, k) /\ Ent(disk, cr, d, k).inum = i
        BY <2>0, <3>6, <4>1, SonsAre
      <4>3. depth[i] > depth[d] /\ depth[i] \in Nat /\ depth[d] \in Nat
        BY <3>1, <4>1, <4>2
      <4>4. depth[i] <= depth[d]
        BY <3>2, <3>4, <3>5
      <4>5. QED
        BY <4>3, <4>4
    <3>7. QED
      BY <3>6
  <2>8. QED
    BY <2>3, <2>4, <2>5, <2>6, <2>7 DEF DirectoriesMakeATree
<1>2. QED
  BY <1>1, IInvCorrect, PTL

-----------------------------------------------------------------------------
(* The server implements the tree of MfsTree.                              *)

LEMMA ServiceCardinality == \A S : Service!Cardinality(S) = Cardinality(S)
BY Zenon DEF Service!Cardinality, Cardinality

LEMMA TreeIs == Tree = TreeAt(disk, cr)
<1> SUFFICES ASSUME NEW i \in Inum
             PROVE  TreeNode(disk, cr, i) =
                      CASE ~Exists(i) -> None
                        [] Exists(i) /\ IsDir(i) -> [type |-> "dir", entries |-> Entries(i)]
                        [] Exists(i) /\ ~IsDir(i) ->
                             [type |-> "file",
                              blocks |-> [b \in Offset |-> IF InodeOf(i).dp[b] = 0 THEN None ELSE disk[InodeOf(i).dp[b]].data]]
  BY DEF Tree, TreeAt
<1>1. /\ Exists(i) <=> LiveAt(disk, cr, i)
      /\ IsDir(i) <=> DirAt(disk, cr, i)
      /\ InodeOf(i) = NodeAt(disk, cr, i)
      /\ Used(i) = UsedAt(disk, cr, i) /\ Used(i) \subseteq Position
      /\ \A k \in Position : EntryAt(i, k) = Ent(disk, cr, i, k)
  BY StateViews DEF Used
<1>2. Entries(i) = EntriesAt(disk, cr, i)
  BY <1>1 DEF Entries, EntriesAt
<1>3. BlocksAt(disk, cr, i) = [b \in Offset |-> IF InodeOf(i).dp[b] = 0 THEN None ELSE disk[InodeOf(i).dp[b]].data]
  BY <1>1 DEF BlocksAt, DatOf
<1>4. CASE ~Exists(i)
  BY <1>1, <1>4 DEF TreeNode
<1>5. CASE Exists(i) /\ IsDir(i)
  BY <1>1, <1>2, <1>5 DEF TreeNode, DirWith
<1>6. CASE Exists(i) /\ ~IsDir(i)
  BY <1>1, <1>3, <1>6 DEF TreeNode, FileWith
<1>7. QED
  BY <1>4, <1>5, <1>6

LEMMA TreeIsNext == Tree' = TreeAt(disk', cr')
<1>1. (Tree = TreeAt(disk, cr))'
  BY TreeIs, PTL
<1>2. QED
  BY <1>1

(* The operators of the service, on the tree on the disk.                  *)
LEMMA ServiceViews ==
    ASSUME ImageOK(disk, cr), NEW i \in 0 .. MAX_INODES
    PROVE  /\ Service!IsDir(i) <=> IsDir(i)
           /\ Service!IsFile(i) <=> Exists(i) /\ ~IsDir(i)
           /\ IsDir(i) => i \in Inum /\ DirAt(disk, cr, i) /\ Tree[i].entries = EntriesAt(disk, cr, i)
           /\ Exists(i) /\ ~IsDir(i) => i \in Inum /\ LiveAt(disk, cr, i) /\ ~DirAt(disk, cr, i) /\ Tree[i].blocks = BlocksAt(disk, cr, i)
<1>1. Service!IsDir(i) <=> IsDirIn(TreeAt(disk, cr), i)
  BY TreeIs DEF Service!IsDir, IsDirIn
<1>2. Service!IsFile(i) <=> IsFileIn(TreeAt(disk, cr), i)
  BY TreeIs DEF Service!IsFile, IsFileIn
<1>3. Exists(i) => i \in Inum
  BY StateViews
<1>4. IsDir(i) => Exists(i)
  BY DEF IsDir
<1>5. CASE i \in Inum
  <2>1. /\ Exists(i) <=> LiveAt(disk, cr, i)
        /\ IsDir(i) <=> DirAt(disk, cr, i)
    BY <1>5, StateViews
  <2>2. /\ IsDirIn(TreeAt(disk, cr), i) <=> DirAt(disk, cr, i)
        /\ IsFileIn(TreeAt(disk, cr), i) <=> LiveAt(disk, cr, i) /\ ~DirAt(disk, cr, i)
        /\ DirAt(disk, cr, i) => TreeAt(disk, cr)[i].entries = EntriesAt(disk, cr, i)
        /\ IsFileIn(TreeAt(disk, cr), i) => TreeAt(disk, cr)[i].blocks = BlocksAt(disk, cr, i)
    BY <1>5, NodeInTree
  <2>3. QED
    BY <1>1, <1>2, <1>5, <2>1, <2>2, TreeIs
<1>6. CASE i \notin Inum
  BY <1>1, <1>2, <1>3, <1>4, <1>6 DEF IsDirIn, IsFileIn
<1>7. QED
  BY <1>5, <1>6

LEMMA CalledAre ==
    ASSUME ImageOK(disk, cr), NEW i \in 0 .. MAX_INODES, NEW n
    PROVE  /\ ~IsDir(i) => Service!Called(i, n) = {}
           /\ IsDir(i) => Service!Called(i, n) = {Ent(disk, cr, i, k) : k \in Named(i, n)}
<1>1. ~IsDir(i) => Service!Called(i, n) = {}
  BY ServiceViews DEF Service!Called
<1>2. ASSUME IsDir(i) PROVE Service!Called(i, n) = {Ent(disk, cr, i, k) : k \in Named(i, n)}
  <2>1. i \in Inum /\ Tree[i].entries = EntriesAt(disk, cr, i) /\ Service!IsDir(i)
    BY <1>2, ServiceViews
  <2>2. Service!Called(i, n) = {e \in EntriesAt(disk, cr, i) : e.name = n}
    BY <2>1 DEF Service!Called
  <2>3. Named(i, n) = {k \in UsedAt(disk, cr, i) : Ent(disk, cr, i, k).name = n}
    BY <2>1, NamedIs
  <2>4. QED
    BY <2>2, <2>3 DEF EntriesAt
<1>3. QED
  BY <1>1, <1>2
(* The outcomes of a request that leaves the tree as it is.                *)
Answers(r, a) == [tree |-> Tree, reply |-> a] \in Service!Outcomes(r)

LEMMA AnswerLookup ==
    ASSUME NoNameSpelled, ImageOK(disk, cr), TreeOK(disk, cr), NEW r \in Request, r.op = "lookup", S_Lookup(r.inum, r.name)
    PROVE  Answers(r, reply')
<1>1. PICK p \in 0 .. MAX_INODES : p = r.inum
  BY RequestIs
<1>2. PICK n : n = r.name /\ Matches(p, n) = Named(p, n) /\ \A k \in Named(p, n) : LookedAt(p, k) = EntryAt(p, k)
  BY RequestIs, Unspelled
<1>3. Service!Outcomes(r) = Service!Lookup(r)
  BY DEF Service!Outcomes
<1>4. CASE IsDir(p) /\ Named(p, n) # {}
  <2>1. p \in Inum /\ DirAt(disk, cr, p) /\ DirOK(disk, cr, p)
    BY <1>4, ServiceViews DEF TreeOK
  <2>2. PICK k \in Position : Named(p, n) = {k} /\ k \in Nat
    <3>1. PICK k \in Named(p, n) : TRUE
      BY <1>4
    <3>2. \A l \in Named(p, n) : l = k
      BY <2>1, <3>1, NamedIs DEF DirOK, UsedAt
    <3>3. QED
      BY <2>1, <3>1, <3>2, NamedIs
  <2>3. Max(Named(p, n)) = k
    <3>1. \A x \in {k} : x >= k
      BY <2>2
    <3>2. QED
      BY <2>2, <3>1 DEF Max
  <2>4. reply' = [inum |-> Ent(disk, cr, p, k).inum]
    <3>1. reply' = [inum |-> EntryAt(p, Max(Named(p, n))).inum]
      BY <1>1, <1>2, <1>4, <2>2, <2>3 DEF S_Lookup, Return
    <3>2. QED
      BY <2>1, <2>2, <2>3, <3>1, StateViews
  <2>5. Service!Called(p, n) = {Ent(disk, cr, p, k)}
    BY <1>4, <2>2, CalledAre
  <2>6. [tree |-> Tree, reply |-> reply'] \in Service!Lookup(r)
    BY <1>1, <1>2, <2>4, <2>5 DEF Service!Lookup, Service!Same
  <2>7. QED
    BY <1>3, <2>6 DEF Answers
<1>5. CASE ~(IsDir(p) /\ Named(p, n) # {})
  <2>1. reply' = Fail
    BY <1>1, <1>2, <1>5 DEF S_Lookup, Return
  <2>2. Service!Called(p, n) = {}
    BY <1>5, CalledAre
  <2>3. QED
    BY <1>1, <1>2, <1>3, <2>1, <2>2 DEF Service!Lookup, Service!Same, Answers
<1>6. QED
  BY <1>4, <1>5

LEMMA AnswerStat ==
    ASSUME ImageOK(disk, cr), TreeOK(disk, cr), NEW r \in Request, r.op = "stat", S_Stat(r.inum)
    PROVE  Answers(r, reply')
<1>0. PICK i \in 0 .. MAX_INODES : i = r.inum
  BY RequestIs
<1>1. Service!Outcomes(r) = Service!Stat(r)
  BY DEF Service!Outcomes
<1>2. /\ Service!IsDir(i) <=> IsDir(i)
      /\ Service!IsFile(i) <=> Exists(i) /\ ~IsDir(i)
      /\ Exists(i) => i \in Inum
      /\ IsDir(i) => Exists(i)
  BY ServiceViews, StateViews DEF IsDir
<1>3. CASE ~Exists(i)
  <2>1. reply' = Fail
    BY <1>0, <1>3 DEF S_Stat, Return
  <2>2. Service!Stat(r) = Service!Same(Fail)
    BY <1>0, <1>2, <1>3 DEF Service!Stat
  <2>3. QED
    BY <1>1, <2>1, <2>2 DEF Service!Same, Answers
<1>4. CASE Exists(i)
  <2>1. PICK n : n = InodeOf(i) /\ n = NodeAt(disk, cr, i) /\ NodeOK(disk, cr.log_end, n)
                 /\ reply' = [type |-> n.type, size |-> n.size]
    <3>1. InodeOf(i) = NodeAt(disk, cr, i) /\ NodeOK(disk, cr.log_end, NodeAt(disk, cr, i))
      BY <1>2, <1>4, StateViews DEF ImageOK, LiveAt
    <3>2. reply' = [type |-> InodeOf(i).type, size |-> InodeOf(i).size]
      BY <1>0, <1>4 DEF S_Stat, Return
    <3>3. QED
      BY <3>1, <3>2
  <2>2. n.size = Cardinality(Blocks(n)) /\ n.type \in {"dir", "file"} /\ (IsDir(i) <=> n.type = "dir")
    BY <1>4, <2>1, NodeTypes DEF NodeOK, IsDir
  <2>3. CASE IsDir(i)
    <3>1. n.size \in 1 .. Cardinality(Offset)
      <4>1. Blocks(n) \subseteq Offset /\ 0 \in Blocks(n)
        BY <2>1, <2>2, <2>3, FirstPositions DEF NodeOK, Blocks
      <4>2. IsFiniteSet(Blocks(n)) /\ Cardinality(Blocks(n)) <= Cardinality(Offset) /\ Cardinality(Blocks(n)) \in Nat
            /\ Cardinality(Offset) \in Nat
        BY <4>1, FiniteOffset, FS_Subset, FS_CardinalityType
      <4>3. Cardinality(Blocks(n)) # 0
        BY <4>1, <4>2, FS_EmptySet
      <4>4. QED
        BY <2>2, <4>2, <4>3
    <3>2. Service!Stat(r) = UNION {Service!Same([type |-> "dir", size |-> s]) : s \in 1 .. Cardinality(Offset)}
      <4>1. ~Service!IsFile(r.inum) /\ Service!IsDir(r.inum)
        BY <1>0, <1>2, <2>3
      <4>2. QED
        BY <4>1, ServiceCardinality DEF Service!Stat
    <3>3. [tree |-> Tree, reply |-> reply'] \in Service!Same([type |-> "dir", size |-> n.size])
      BY <2>1, <2>2, <2>3 DEF Service!Same
    <3>4. QED
      BY <1>1, <3>1, <3>2, <3>3 DEF Answers
  <2>4. CASE ~IsDir(i)
    <3>1. n.type = "file" /\ Service!IsFile(i)
      BY <1>2, <1>4, <2>2, <2>4
    <3>2. Service!Written(i) = Blocks(n)
      <4>1. Tree[i].blocks = BlocksAt(disk, cr, i)
        BY <1>4, <2>4, ServiceViews
      <4>2. \A b \in Offset : Tree[i].blocks[b] # None <=> n.dp[b] # 0
        BY <2>1, <3>1, <4>1, NodeTypes DEF BlocksAt
      <4>3. QED
        BY <4>2 DEF Service!Written, Blocks
    <3>3. Service!Stat(r) = Service!Same([type |-> "file", size |-> Cardinality(Service!Written(i))])
      <4>1. Service!IsFile(r.inum) /\ ~Service!IsDir(r.inum)
        BY <1>0, <1>2, <1>4, <2>4
      <4>2. QED
        BY <1>0, <4>1, ServiceCardinality DEF Service!Stat
    <3>4. QED
      BY <1>1, <2>1, <2>2, <3>1, <3>2, <3>3 DEF Service!Same, Answers
  <2>5. QED
    BY <2>3, <2>4
<1>5. QED
  BY <1>3, <1>4

LEMMA AnswerRead ==
    ASSUME ImageOK(disk, cr), TreeOK(disk, cr), NEW r \in Request, r.op = "read", S_Read(r.inum, r.block)
    PROVE  Answers(r, reply')
<1>0. PICK i \in 0 .. MAX_INODES, b \in 0 .. MAX_DIRECT_P : i = r.inum /\ b = r.block /\ (b < MAX_DIRECT_P <=> b \in Offset)
  BY RequestIs DEF Offset
<1>1. Service!Outcomes(r) = Service!Read(r)
  BY DEF Service!Outcomes
<1>2. /\ Service!IsDir(i) <=> IsDir(i)
      /\ Service!IsFile(i) <=> Exists(i) /\ ~IsDir(i)
      /\ Exists(i) => i \in Inum
      /\ IsDir(i) => Exists(i)
  BY ServiceViews, StateViews DEF IsDir
<1>3. reply' = IF b \in Offset /\ Exists(i) /\ InodeOf(i).dp[b] # 0
               THEN [data |-> IF IsDir(i) THEN "dir" ELSE disk[InodeOf(i).dp[b]].data]
               ELSE Fail
  BY <1>0 DEF S_Read, Return
<1>4. CASE ~(b \in Offset /\ Exists(i))
  <2>1. reply' = Fail
    BY <1>3, <1>4
  <2>2. Service!Read(r) = Service!Same(Fail)
    BY <1>0, <1>2, <1>4 DEF Service!Read
  <2>3. QED
    BY <1>1, <2>1, <2>2 DEF Service!Same, Answers
<1>5. CASE b \in Offset /\ IsDir(i)
  <2>1. Service!Read(r) = Service!Same([data |-> "dir"]) \cup Service!Same(Fail)
    BY <1>0, <1>2, <1>5 DEF Service!Read
  <2>2. reply' \in {[data |-> "dir"], Fail}
    BY <1>3, <1>5
  <2>3. QED
    BY <1>1, <2>1, <2>2 DEF Service!Same, Answers
<1>6. CASE b \in Offset /\ Exists(i) /\ ~IsDir(i)
  <2>1. i \in Inum /\ Tree[i].blocks[b] = DatOf(disk, NodeAt(disk, cr, i), b)
    BY <1>6, ServiceViews DEF BlocksAt
  <2>2. InodeOf(i) = NodeAt(disk, cr, i) /\ NodeOK(disk, cr.log_end, InodeOf(i)) /\ InodeOf(i).type = "file"
    <3>1. InodeOf(i) = NodeAt(disk, cr, i) /\ NodeOK(disk, cr.log_end, InodeOf(i))
      BY <1>2, <1>6, StateViews DEF ImageOK, LiveAt
    <3>2. QED
      BY <1>6, <3>1, NodeTypes DEF IsDir
  <2>3. CASE InodeOf(i).dp[b] = 0
    <3>1. Tree[i].blocks[b] = None
      BY <2>1, <2>2, <2>3 DEF DatOf
    <3>2. Service!Read(r) = Service!Same(Fail)
      BY <1>0, <1>2, <1>6, <3>1 DEF Service!Read
    <3>3. QED
      BY <1>1, <1>3, <2>3, <3>2 DEF Service!Same, Answers
  <2>4. CASE InodeOf(i).dp[b] # 0
    <3>1. Tree[i].blocks[b] # None /\ Tree[i].blocks[b] = disk[InodeOf(i).dp[b]].data
      <4>1. DatOf(disk, InodeOf(i), b) # None
        BY <1>6, <2>2, <2>4, NodeTypes
      <4>2. QED
        BY <2>1, <2>2, <2>4, <4>1 DEF DatOf
    <3>2. Service!Read(r) = Service!Same([data |-> Tree[i].blocks[b]])
      BY <1>0, <1>2, <1>6, <3>1 DEF Service!Read
    <3>3. reply' = [data |-> Tree[i].blocks[b]]
      BY <1>3, <1>6, <2>4, <3>1
    <3>4. QED
      BY <1>1, <3>2, <3>3 DEF Service!Same, Answers
  <2>5. QED
    BY <2>3, <2>4
<1>7. QED
  BY <1>4, <1>5, <1>6
LEMMA AnswerWrite ==
    ASSUME ImageOK(disk, cr), NEW r \in Request, r.op = "write",
           ~(Exists(r.inum) /\ ~IsDir(r.inum) /\ r.block < MAX_DIRECT_P), reply' = Fail
    PROVE  Answers(r, reply')
<1>1. Service!Outcomes(r) = Service!Write(r)
  BY DEF Service!Outcomes
<1>2. ~(Service!IsFile(r.inum) /\ r.block \in Offset)
  <2>1. r.inum \in 0 .. MAX_INODES /\ r.block \in 0 .. MAX_DIRECT_P
    BY RequestIs
  <2>2. Service!IsFile(r.inum) <=> Exists(r.inum) /\ ~IsDir(r.inum)
    BY <2>1, ServiceViews
  <2>3. QED
    BY <2>1, <2>2 DEF Offset
<1>3. Service!Write(r) = Service!Same(Fail)
  BY <1>2, Zenon DEF Service!Write
<1>4. QED
  BY <1>1, <1>3 DEF Service!Same, Answers

LEMMA UnusedAre ==
    ASSUME ImageOK(disk, cr)
    PROVE  Service!Unused = FreeInodes
<1>1. \A i \in Inum : Tree[i] = None <=> ~LiveAt(disk, cr, i)
  BY TreeIs, NodeInTree
<1>2. QED
  BY <1>1, FreeInodesAre DEF Service!Unused

LEMMA FullDirectory ==
    ASSUME ImageOK(disk, cr), TreeOK(disk, cr), NEW p \in 0 .. MAX_INODES, IsDir(p), FreeEntries(p) = {}
    PROVE  Cardinality(Tree[p].entries) = MAX_DIRECT_P * MAX_DIR_ENTRIES
<1>1. p \in Inum /\ DirAt(disk, cr, p) /\ Tree[p].entries = EntriesAt(disk, cr, p)
  BY ServiceViews
<1>2. UsedAt(disk, cr, p) = Position
  BY <1>1, NamedIs DEF UsedAt
<1>3. Cardinality(EntriesAt(disk, cr, p)) = Cardinality(UsedAt(disk, cr, p))
  BY <1>1, EntriesDiffer DEF TreeOK
<1>4. QED
  BY <1>1, <1>2, <1>3, FinitePosition

LEMMA AnswerCreat ==
    ASSUME ImageOK(disk, cr), TreeOK(disk, cr), NEW r \in Request, r.op = "creat",
           \/ ~IsDir(r.inum) /\ reply' = Fail
           \/ IsDir(r.inum) /\ Named(r.inum, r.name) # {} /\ reply' = Done
           \/ IsDir(r.inum) /\ Named(r.inum, r.name) = {} /\ (FreeEntries(r.inum) = {} \/ FreeInodes = {}) /\ reply' = Fail
    PROVE  Answers(r, reply')
<1>1. Service!Outcomes(r) = Service!Creat(r)
  BY DEF Service!Outcomes
<1>2. PICK p \in 0 .. MAX_INODES : p = r.inum
  BY RequestIs
<1>3. PICK n : n = r.name
  OBVIOUS
<1>4. Service!IsDir(p) <=> IsDir(p)
  BY ServiceViews
<1>5. IsDir(p) => (Service!Called(p, n) = {} <=> Named(p, n) = {})
  <2>1. IsDir(p) => Service!Called(p, n) = {Ent(disk, cr, p, k) : k \in Named(p, n)}
    BY CalledAre
  <2>2. QED
    BY <2>1
<1>6. CASE ~IsDir(p) /\ reply' = Fail
  <2>1. ~Service!IsDir(r.inum)
    BY <1>2, <1>4, <1>6
  <2>2. Service!Called(r.inum, r.name) = {}
    BY <2>1, Zenon DEF Service!Called
  <2>3. Service!Creat(r) = Service!Same(Fail)
    BY <2>1, <2>2, Zenon DEF Service!Creat
  <2>4. QED
    BY <1>1, <1>6, <2>3 DEF Service!Same, Answers
<1>7. CASE IsDir(p) /\ Named(p, n) # {} /\ reply' = Done
  <2>1. Service!IsDir(r.inum) /\ Service!Called(r.inum, r.name) # {}
    BY <1>2, <1>3, <1>4, <1>5, <1>7
  <2>2. Service!Creat(r) = Service!Same(Service!Done)
    BY <2>1 DEF Service!Creat
  <2>3. QED
    BY <1>1, <1>7, <2>2 DEF Service!Same, Answers, Service!Done, Done
<1>8. CASE IsDir(p) /\ Named(p, n) = {} /\ (FreeEntries(p) = {} \/ FreeInodes = {}) /\ reply' = Fail
  <2>1. Service!IsDir(r.inum) /\ Service!Called(r.inum, r.name) = {}
    BY <1>2, <1>3, <1>4, <1>5, <1>8
  <2>2. Service!Cardinality(Tree[r.inum].entries) = MAX_DIRECT_P * MAX_DIR_ENTRIES \/ Service!Unused = {}
    <3>1. CASE FreeEntries(p) = {}
      <4>1. Cardinality(Tree[p].entries) = MAX_DIRECT_P * MAX_DIR_ENTRIES
        BY <1>8, <3>1, FullDirectory
      <4>2. QED
        BY <1>2, <4>1, ServiceCardinality
    <3>2. CASE FreeInodes = {}
      BY <3>2, UnusedAre
    <3>3. QED
      BY <1>8, <3>1, <3>2
  <2>3. Service!Creat(r) = Service!Same(Fail)
    <3>1. CASE Service!Cardinality(Tree[r.inum].entries) = MAX_DIRECT_P * MAX_DIR_ENTRIES
      BY <2>1, <3>1, Zenon DEF Service!Creat
    <3>2. CASE Service!Unused = {}
      BY <2>1, <3>2, Zenon DEF Service!Creat
    <3>3. QED
      BY <2>2, <3>1, <3>2
  <2>4. QED
    BY <1>1, <1>8, <2>3 DEF Service!Same, Answers
<1>9. QED
  BY <1>2, <1>3, <1>6, <1>7, <1>8

LEMMA AnswerUnlink ==
    ASSUME ImageOK(disk, cr), TreeOK(disk, cr), NEW r \in Request, r.op = "unlink",
           \/ (~IsDir(r.inum) \/ Named(r.inum, r.name) = {}) /\ reply' = Done
           \/ /\ IsDir(r.inum) /\ Named(r.inum, r.name) # {} /\ reply' = Fail
              /\ NotEmpty(EntryAt(r.inum, Min(Named(r.inum, r.name))).inum)
    PROVE  Answers(r, reply')
<1>1. Service!Outcomes(r) = Service!Unlink(r)
  BY DEF Service!Outcomes
<1>2. PICK p \in 0 .. MAX_INODES, n \in Name : p = r.inum /\ n = r.name
  BY RequestIs
<1>3. CASE (~IsDir(p) \/ Named(p, n) = {}) /\ reply' = Done
  <2>1. Service!Called(r.inum, r.name) = {}
    BY <1>2, <1>3, CalledAre
  <2>2. Service!Unlink(r) = Service!Same(Service!Done)
    BY <2>1 DEF Service!Unlink
  <2>3. QED
    BY <1>1, <1>3, <2>2 DEF Service!Same, Answers, Service!Done, Done
<1>4. CASE /\ IsDir(p) /\ Named(p, n) # {} /\ reply' = Fail
           /\ NotEmpty(EntryAt(p, Min(Named(p, n))).inum)
  <2>1. p \in Inum /\ DirAt(disk, cr, p)
    BY <1>4, ServiceViews
  <2>2. PICK k \in Position : k = Min(Named(p, n)) /\ SonAt(disk, cr, p, k) /\ Ent(disk, cr, p, k).name = n
    BY <1>4, <2>1, FirstNamed
  <2>3. PICK e : e = Ent(disk, cr, p, k) /\ e = EntryAt(p, k)
    BY <2>1, StateViews
  <2>4. e.inum \in Inum /\ e.inum \in 0 .. MAX_INODES
    <3>1. SonOK(disk, cr, p, k)
      BY <2>1, <2>2 DEF TreeOK
    <3>2. e.inum \in Inum
      BY <2>3, <3>1 DEF SonOK
    <3>3. QED
      BY <3>2 DEF Inum, MAX_INODES
  <2>5. IsDir(e.inum) /\ Cardinality(Used(e.inum)) > 2
    BY <1>4, <2>2, <2>3, Zenon DEF NotEmpty
  <2>6. Service!IsDir(e.inum) /\ Service!Cardinality(Tree[e.inum].entries) > 2
    <3>1. /\ Service!IsDir(e.inum) /\ DirAt(disk, cr, e.inum)
          /\ Tree[e.inum].entries = EntriesAt(disk, cr, e.inum) /\ Used(e.inum) = UsedAt(disk, cr, e.inum)
      BY <2>4, <2>5, ServiceViews, StateViews
    <3>2. Cardinality(EntriesAt(disk, cr, e.inum)) = Cardinality(UsedAt(disk, cr, e.inum))
      BY <2>4, <3>1, EntriesDiffer DEF TreeOK
    <3>3. QED
      BY <2>5, <3>1, <3>2, ServiceCardinality
  <2>7. e \in Service!Called(r.inum, r.name)
    <3>1. k \in Named(p, n)
      BY <1>4, <2>1, <2>2, NamedIs, MinIs
    <3>2. Service!Called(p, n) = {Ent(disk, cr, p, l) : l \in Named(p, n)}
      BY <1>4, CalledAre
    <3>3. e \in Service!Called(p, n)
      BY <2>3, <3>1, <3>2, Zenon
    <3>4. QED
      BY <1>2, <3>3, Zenon
  <2>8. [tree |-> Tree, reply |-> Fail] \in Service!Unlink(r)
    <3>1. [tree |-> Tree, reply |-> Fail] \in Service!Same(Fail)
      BY DEF Service!Same
    <3>2. QED
      BY <2>6, <2>7, <3>1 DEF Service!Unlink
  <2>9. QED
    BY <1>1, <1>4, <2>8 DEF Answers
<1>5. QED
  BY <1>2, <1>3, <1>4

(* What the blocks of an operation promise is an outcome of its request.   *)
LEMMA PromiseIsOutcome ==
    ASSUME NEW r \in Request, NEW U, Promised(Tree, U, r)
    PROVE  [tree |-> U, reply |-> Done] \in Service!Outcomes(r)
<1>0. /\ \A i : Service!IsDir(i) <=> IsDirIn(Tree, i)
      /\ \A i : Service!IsFile(i) <=> IsFileIn(Tree, i)
      /\ Service!Done = Done
  BY DEF Service!IsDir, Service!IsFile, IsDirIn, IsFileIn, Service!Done, Done
<1>1. CASE PromisedWrite(Tree, U, r)
  <2>1. /\ r.op = "write" /\ Service!IsFile(r.inum) /\ r.block \in Offset
        /\ U = [Tree EXCEPT ![r.inum] = Service!File([Tree[r.inum].blocks EXCEPT ![r.block] = r.data])]
    BY <1>0, <1>1, Zenon DEF PromisedWrite, FileWith, Service!File
  <2>2. Service!Outcomes(r) = Service!Write(r)
    BY <2>1 DEF Service!Outcomes
  <2>3. QED
    BY <1>0, <2>1, <2>2, Zenon DEF Service!Write
<1>2. CASE PromisedCreat(Tree, U, r)
  <2>1. /\ r.op = "creat" /\ Service!IsDir(r.inum) /\ {e \in Tree[r.inum].entries : e.name = r.name} = {}
        /\ Cardinality(Tree[r.inum].entries) # MAX_DIRECT_P * MAX_DIR_ENTRIES
    BY <1>0, <1>2, Zenon DEF PromisedCreat
  <2>2. PICK i \in Inum :
          /\ Tree[i] = None
          /\ U = [Tree EXCEPT ![r.inum] = DirWith(Tree[r.inum].entries \cup {[name |-> r.name, inum |-> i]}),
                              ![i] = IF r.type = "dir"
                                     THEN DirWith({[name |-> Dot, inum |-> i], [name |-> DotDot, inum |-> r.inum]})
                                     ELSE FileWith([b \in Offset |-> None])]
    BY <1>2, Zenon DEF PromisedCreat
  <2>3. U = [Tree EXCEPT ![r.inum] = Service!Directory(Tree[r.inum].entries \cup {[name |-> r.name, inum |-> i]}),
                         ![i] = IF r.type = "dir" THEN Service!NewDirectory(i, r.inum) ELSE Service!NewFile]
    BY <2>2, Zenon DEF DirWith, FileWith, Service!Directory, Service!File, Service!NewDirectory, Service!NewFile
  <2>4. Service!Called(r.inum, r.name) = {}
    BY <2>1, Zenon DEF Service!Called
  <2>5. i \in Service!Unused /\ Service!Unused # {}
    BY <2>2 DEF Service!Unused
  <2>6. ~(Service!Cardinality(Tree[r.inum].entries) = MAX_DIRECT_P * MAX_DIR_ENTRIES \/ Service!Unused = {})
    BY <2>1, <2>5, ServiceCardinality
  <2>7. Service!Outcomes(r) = Service!Creat(r)
    BY <2>1 DEF Service!Outcomes
  <2>8. Service!Creat(r) =
          {[reply |-> Service!Done,
            tree |-> [Tree EXCEPT ![r.inum] = Service!Directory(Tree[r.inum].entries \cup {[name |-> r.name, inum |-> h]}),
                                  ![h] = IF r.type = "dir" THEN Service!NewDirectory(h, r.inum) ELSE Service!NewFile]]
           : h \in Service!Unused}
    BY <2>1, <2>4, <2>6, Zenon DEF Service!Creat
  <2>9. [reply |-> Done, tree |-> U] \in Service!Creat(r)
    BY <1>0, <2>3, <2>5, <2>8, Zenon
  <2>10. QED
    BY <2>7, <2>9
<1>3. CASE PromisedUnlink(Tree, U, r)
  <2>1. PICK e \in Tree[r.inum].entries :
          /\ e.name = r.name
          /\ ~(IsDirIn(Tree, e.inum) /\ Cardinality(Tree[e.inum].entries) > 2)
          /\ U = [Tree EXCEPT ![r.inum] = DirWith(Tree[r.inum].entries \ {e}), ![e.inum] = None]
    BY <1>3, Zenon DEF PromisedUnlink
  <2>2. r.op = "unlink" /\ Service!IsDir(r.inum)
    BY <1>0, <1>3, Zenon DEF PromisedUnlink
  <2>3. e \in Service!Called(r.inum, r.name)
    BY <2>1, <2>2 DEF Service!Called
  <2>4. ~(Service!IsDir(e.inum) /\ Service!Cardinality(Tree[e.inum].entries) > 2)
    BY <1>0, <2>1, ServiceCardinality
  <2>5. U = [Tree EXCEPT ![r.inum] = Service!Directory(Tree[r.inum].entries \ {e}), ![e.inum] = None]
    BY <2>1, Zenon DEF DirWith, Service!Directory
  <2>6. [reply |-> Service!Done, tree |-> U] \in Service!Unlink(r)
    <3>1. [reply |-> Service!Done, tree |-> U] \in
             IF Service!IsDir(e.inum) /\ Service!Cardinality(Tree[e.inum].entries) > 2
             THEN Service!Same(Fail)
             ELSE {[reply |-> Service!Done,
                    tree |-> [Tree EXCEPT ![r.inum] = Service!Directory(Tree[r.inum].entries \ {e}), ![e.inum] = None]]}
      BY <2>4, <2>5, Zenon
    <3>2. QED
      BY <2>3, <3>1, Zenon DEF Service!Unlink
  <2>7. Service!Outcomes(r) = Service!Unlink(r)
    BY <2>2 DEF Service!Outcomes
  <2>8. QED
    BY <1>0, <2>6, <2>7
<1>4. QED
  BY <1>1, <1>2, <1>3 DEF Promised
LEMMA RequestIsCall == Request \subseteq Service!Calls
<1>1. MAX_INODES \in Nat /\ MAX_INODES >= 1 /\ MAX_DIRECT_P \in Nat /\ MAX_DIRECT_P >= 1
  <2>1. \A a, b \in Nat \ {0} : a * b \in Nat /\ a * b >= 1
    OBVIOUS
  <2>2. QED
    BY <2>1 DEF MAX_INODES
<1>2. Service!Cardinality(Inum) = MAX_INODES /\ Service!Cardinality(Offset) = MAX_DIRECT_P
  <2>1. Cardinality(0 .. MAX_INODES - 1) = MAX_INODES - 1 - 0 + 1
    <3>1. 0 \in Int /\ MAX_INODES - 1 \in Int /\ ~(0 > MAX_INODES - 1)
      BY <1>1
    <3>2. QED
      BY <3>1, FS_Interval
  <2>2. QED
    BY <1>1, <2>1, FiniteOffset, ServiceCardinality DEF Inum
<1>3. 0 .. MAX_INODES = Inum \cup {Service!Cardinality(Inum)}
  BY <1>1, <1>2 DEF Inum
<1>4. 0 .. MAX_DIRECT_P = Offset \cup {Service!Cardinality(Offset)}
  BY <1>1, <1>2 DEF Offset
<1>5. Request = Service!Calls
  BY <1>3, <1>4, Zenon DEF Request, Requests, Service!Calls, Service!Arguments
<1>6. QED
  BY <1>5

(* A request that is served is answered at once or begins.                 *)
LEMMA ServeRefines ==
    ASSUME NoNameSpelled, IInv, NEW r \in Request, Serve(r)
    PROVE  Service!Begin(r) \/ Service!AtOnce(r)
<1>1. /\ ImageOK(disk, cr) /\ TreeOK(disk, cr) /\ call = None /\ call' = r
      /\ disk' = disk /\ cr' = cr /\ Routine(r)
  BY DEF IInv, Serve
<1>2. Tree' = Tree
  BY <1>1, TreeIs, TreeIsNext
<1>3. ASSUME Answers(r, reply') PROVE Service!AtOnce(r)
  <2>1. PICK o \in Service!Outcomes(r) : o = [tree |-> Tree, reply |-> reply']
    BY <1>3 DEF Answers
  <2>2. Tree' = o.tree /\ reply' = o.reply
    BY <1>2, <2>1
  <2>3. QED
    BY <1>1, <2>2 DEF Service!AtOnce, Service!Takes
<1>4. ASSUME Runs(r) PROVE Service!Begin(r)
  BY <1>1, <1>2, <1>4 DEF Runs, Service!Begin
<1>5. Answers(r, reply') \/ Runs(r)
  <2>1. CASE r.op = "lookup"
    <3>1. S_Lookup(r.inum, r.name)
      BY <1>1, <2>1 DEF Routine
    <3>2. QED
      BY <1>1, <2>1, <3>1, AnswerLookup
  <2>2. CASE r.op = "stat"
    <3>1. S_Stat(r.inum)
      BY <1>1, <2>2 DEF Routine
    <3>2. QED
      BY <1>1, <2>2, <3>1, AnswerStat
  <2>3. CASE r.op = "read"
    <3>1. S_Read(r.inum, r.block)
      BY <1>1, <2>3 DEF Routine
    <3>2. QED
      BY <1>1, <2>3, <3>1, AnswerRead
  <2>4. CASE r.op = "write"
    <3>1. S_Write(r.inum, r.data, r.block)
      BY <1>1, <2>4 DEF Routine
    <3>2. \/ ~(Exists(r.inum) /\ ~IsDir(r.inum) /\ r.block < MAX_DIRECT_P) /\ reply' = Fail
          \/ Runs(r)
      BY <1>1, <2>4, <3>1, RequestIs, ServeWrite
    <3>3. QED
      BY <1>1, <2>4, <3>2, AnswerWrite
  <2>5. CASE r.op = "creat"
    <3>1. S_Creat(r.inum, r.type, r.name)
      BY <1>1, <2>5 DEF Routine
    <3>2. \/ ~IsDir(r.inum) /\ reply' = Fail
          \/ IsDir(r.inum) /\ Named(r.inum, r.name) # {} /\ reply' = Done
          \/ IsDir(r.inum) /\ Named(r.inum, r.name) = {} /\ (FreeEntries(r.inum) = {} \/ FreeInodes = {}) /\ reply' = Fail
          \/ Runs(r)
      BY <1>1, <2>5, <3>1, RequestIs, ServeCreat
    <3>3. QED
      BY <1>1, <2>5, <3>2, AnswerCreat
  <2>6. CASE r.op = "unlink"
    <3>1. S_Unlink(r.inum, r.name)
      BY <1>1, <2>6 DEF Routine
    <3>2. \/ (~IsDir(r.inum) \/ Named(r.inum, r.name) = {}) /\ reply' = Done
          \/ /\ IsDir(r.inum) /\ Named(r.inum, r.name) # {} /\ reply' = Fail
             /\ NotEmpty(EntryAt(r.inum, Min(Named(r.inum, r.name))).inum)
          \/ Runs(r)
      BY <1>1, <2>6, <3>1, RequestIs, ServeUnlink
    <3>3. QED
      BY <1>1, <2>6, <3>2, AnswerUnlink
  <2>7. QED
    BY <2>1, <2>2, <2>3, <2>4, <2>5, <2>6, RequestIs
<1>6. QED
  BY <1>3, <1>4, <1>5

LEMMA InitRefines == Init => Service!Init
<1> SUFFICES ASSUME Init PROVE Service!Init
  OBVIOUS
<1>1. RootOnly(disk, cr)
  BY InitIsRoot
<1>2. /\ \A i \in Inum : LiveAt(disk, cr, i) <=> i = 0
      /\ DirAt(disk, cr, 0) /\ \A k \in Position : Ent(disk, cr, 0, k) = NewEntry(0, 0, k)
  BY <1>1, RootImage
<1>3. EntriesAt(disk, cr, 0) = {[name |-> Dot, inum |-> 0], [name |-> DotDot, inum |-> 0]}
  <2>1. UsedAt(disk, cr, 0) = {0, 1}
    BY <1>2, FirstPositions DEF UsedAt, NewEntry, NoEntry
  <2>2. Ent(disk, cr, 0, 0) = [name |-> Dot, inum |-> 0] /\ Ent(disk, cr, 0, 1) = [name |-> DotDot, inum |-> 0]
    BY <1>2, FirstPositions DEF NewEntry
  <2>3. QED
    BY <2>1, <2>2 DEF EntriesAt
<1>4. TreeNode(disk, cr, 0) = Service!NewDirectory(0, 0)
  BY <1>2, <1>3, ZeroInum DEF TreeNode, DirWith, Service!NewDirectory, Service!Directory
<1>5. \A i \in Inum : i # 0 => TreeNode(disk, cr, i) = None
  BY <1>2 DEF TreeNode
<1>6. Tree = [i \in Inum |-> IF i = 0 THEN Service!NewDirectory(0, 0) ELSE None]
  BY <1>4, <1>5, TreeIs DEF TreeAt
<1>7. call = None /\ reply = None
  BY DEF Init
<1>8. QED
  BY <1>6, <1>7 DEF Service!Init

(* Every step of the server is a step of the tree or none: an operation    *)
(* begins, it takes effect as a whole with the write of the checkpoint     *)
(* region, and is answered; a crash loses it or its answer.                *)
THEOREM TreeRefined == NoNameSpelled => (Spec => ImplementsTree)
<1> SUFFICES ASSUME NoNameSpelled PROVE Spec => ImplementsTree
  OBVIOUS
<1>1. Init => Service!Init
  BY InitRefines
<1>2. IInv /\ [Next]_vars => [Service!Next]_(Service!vars)
  <2> SUFFICES ASSUME IInv, [Next]_vars PROVE Service!Next \/ UNCHANGED Service!vars
    BY DEF Service!vars
  <2>1. ASSUME NEW r \in Request, Serve(r) PROVE Service!Next
    <3>1. Service!Begin(r) \/ Service!AtOnce(r)
      BY <2>1, ServeRefines
    <3>2. QED
      BY <3>1, RequestIsCall DEF Service!Next
  <2>2. CASE LogWrite
    <3>1. TreeAt(disk', cr') = TreeAt(disk, cr) /\ call' = call /\ reply' = reply
      BY <2>2, LogWriteOK DEF LogWrite
    <3>2. QED
      BY <3>1, TreeIs, TreeIsNext DEF Service!vars
  <2>3. CASE CRWrite
    <3>1. newcr # None /\ reply' = Done /\ call' = call /\ call \in Request /\ call # None /\ reply = None
      BY <2>3, RequestIs DEF IInv, CRWrite
    <3>2. Promised(Tree, Tree', call)
      BY <2>3, CRWriteOK, TreeIs, TreeIsNext
    <3>3. PICK o \in Service!Outcomes(call) : o = [tree |-> Tree', reply |-> Done]
      <4>1. PICK r, U : r \in Request /\ r = call /\ U = Tree'
        BY <3>1
      <4>2. [tree |-> U, reply |-> Done] \in Service!Outcomes(r)
        BY <3>2, <4>1, PromiseIsOutcome
      <4>3. QED
        BY <4>1, <4>2
    <3>4. Service!Takes(call)
      BY <3>1, <3>3 DEF Service!Takes
    <3>5. QED
      BY <3>1, <3>4 DEF Service!Finish, Service!Next
  <2>4. CASE Reply
    <3>1. reply # None /\ reply' = None /\ call' = None /\ disk' = disk /\ cr' = cr
      BY <2>4 DEF Reply
    <3>2. Tree' = Tree
      BY <3>1, TreeIs, TreeIsNext
    <3>3. QED
      BY <3>1, <3>2 DEF Service!Answer, Service!Next
  <2>5. CASE Crash
    <3>1. reply' = None /\ call' = None /\ disk' = disk /\ cr' = cr
      BY <2>5 DEF Crash
    <3>2. Tree' = Tree
      BY <3>1, TreeIs, TreeIsNext
    <3>3. QED
      BY <3>1, <3>2 DEF Service!Crash, Service!Next
  <2>6. CASE UNCHANGED vars
    <3>1. reply' = reply /\ call' = call /\ disk' = disk /\ cr' = cr
      BY <2>6 DEF vars, server
    <3>2. QED
      BY <3>1, TreeIs, TreeIsNext DEF Service!vars
  <2>7. QED
    BY <2>1, <2>2, <2>3, <2>4, <2>5, <2>6 DEF Next
<1>3. QED
  BY <1>1, <1>2, IInvCorrect, PTL DEF Spec, ImplementsTree, Service!Spec
=============================================================================
