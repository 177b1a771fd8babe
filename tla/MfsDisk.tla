------------------------------- MODULE MfsDisk -------------------------------
(***************************************************************************)
(* The server of the file system of p5/v6 (server.c, helper.c) and its     *)
(* image: a checkpoint region at address 0 and a log of data blocks,       *)
(* directory blocks, inodes and pieces of the inode map.  An operation that*)
(* changes the tree appends the blocks it makes to the log, one write after*)
(* another, and writes the checkpoint region last.  The server is one      *)
(* process that serves one request after another and keeps nothing between *)
(* them; it may be killed before any of its writes and is started again on *)
(* the same image.                                                         *)
(*                                                                         *)
(* An address counts the blocks of the log instead of their bytes; sizes   *)
(* count blocks of MFS_BLOCK_SIZE.  Names are short and not empty, inode   *)
(* numbers and block offsets in requests are not negative.                 *)
(***************************************************************************)
EXTENDS Integers, Sequences, FiniteSets, FiniteSetsExt

CONSTANTS
    IMAP_SIZE,        \* inodes in a piece of the inode map
    MAX_IMAPS,        \* pieces of the inode map
    MAX_DIRECT_P,     \* data pointers in an inode
    MAX_DIR_ENTRIES,  \* entries in a directory block
    Name,             \* names a client may give to a file
    Dot, DotDot,      \* the two names each directory has
    Data,             \* contents of a block
    Fail,             \* the result -1
    None,             \* no name, no request, no reply, nothing on the disk
    CRBlock(_),       \* what a checkpoint region is if one takes it for a directory block
    MaxLog,           \* bound: the addresses of the log
    MaxCrashes        \* bound: how often the server is killed

ASSUME DiskAssumption ==
    /\ {IMAP_SIZE, MAX_IMAPS, MAX_DIRECT_P} \subseteq Nat \ {0}
    /\ MAX_DIR_ENTRIES \in Nat \ {0, 1}
    /\ MaxLog \in Nat \ {0, 1, 2} /\ MaxCrashes \in Nat
    /\ Dot # DotDot /\ {Dot, DotDot} \cap Name = {}
    /\ None \notin Name \cup Data \cup {Dot, DotDot}

VARIABLES
    disk,     \* the log: what has been written to each address
    cr,       \* the checkpoint region: log_end and imap_p[]
    todo,     \* the blocks the running operation has yet to append
    newcr,    \* the checkpoint region it will write in the end
    call,     \* the request it serves, until the reply is sent
    reply,    \* the reply it has yet to send
    crashes   \* how often the server has been killed

server == <<todo, newcr, call, reply>>
vars   == <<disk, cr, server, crashes>>

MAX_INODES == IMAP_SIZE * MAX_IMAPS
Inum       == 0 .. MAX_INODES - 1
Offset     == 0 .. MAX_DIRECT_P - 1
Addr       == 1 .. MaxLog

NoEntry == [name |-> None, inum |-> -1]

DirBlock == [entry : [0 .. MAX_DIR_ENTRIES - 1 -> [name : Name \cup {Dot, DotDot, None}, inum : Inum \cup {-1}]]]
DataBlock == [data : Data]
Inode == [type : {"dir", "file"}, size : 0 .. MAX_DIRECT_P, dp : [Offset -> Addr \cup {0}]]
Imap  == [inode_p : [0 .. IMAP_SIZE - 1 -> Addr \cup {0}]]
CR    == [log_end : 1 .. MaxLog + 1, imap_p : [0 .. MAX_IMAPS - 1 -> Addr \cup {0}]]
LogBlock == DirBlock \cup DataBlock \cup Inode \cup Imap

EmptyDir(i, p) ==
    [entry |-> [e \in 0 .. MAX_DIR_ENTRIES - 1 |->
        CASE e = 0 -> [name |-> Dot, inum |-> i]
          [] e = 1 -> [name |-> DotDot, inum |-> p]
          [] OTHER -> NoEntry]]

\* Mutant: the data pointers of a new file are not set to 0.
FileInodeUnset == [type |-> "file", size |-> 0, dp |-> [b \in Offset |-> 1]]

\* An inode with no data block, or with one at the address a.
FileInode   == [type |-> "file", size |-> 0, dp |-> [b \in Offset |-> 0]]
DirInode(a) == [type |-> "dir", size |-> 1, dp |-> [b \in Offset |-> IF b = 0 THEN a ELSE 0]]

NoInodes == [inode_p |-> [o \in 0 .. IMAP_SIZE - 1 |-> 0]]

(* The image create_img has written, with the root directory in it. *)
Init ==
    /\ disk = [a \in Addr |->
         CASE a = 1 -> EmptyDir(0, 0)
           [] a = 2 -> DirInode(1)
           [] a = 3 -> [NoInodes EXCEPT !.inode_p[0] = 2]
           [] OTHER -> None]
    /\ cr = [log_end |-> 4, imap_p |-> [k \in 0 .. MAX_IMAPS - 1 |-> IF k = 0 THEN 3 ELSE 0]]
    /\ todo = <<>> /\ newcr = None /\ call = None /\ reply = None
    /\ crashes = 0

-----------------------------------------------------------------------------
(* Finding one's way from the checkpoint region: get_imap, CR_to_Inode and *)
(* the loops over inodes and entries.  MapOf(k) is the piece k of the inode*)
(* map; a piece that is not there yet has no inodes.                       *)

MapOf(k) == IF cr.imap_p[k] = 0 THEN NoInodes ELSE disk[cr.imap_p[k]]

InodeAddr(i) == MapOf(i \div IMAP_SIZE).inode_p[i % IMAP_SIZE]

Exists(i) == i < MAX_INODES /\ InodeAddr(i) # 0

InodeOf(i) == disk[InodeAddr(i)]

IsDir(i) == Exists(i) /\ InodeOf(i).type = "dir"

\* The entries of a directory are numbered through its blocks; those of a
\* block that is not there yet are free.
Position == 0 .. MAX_DIRECT_P * MAX_DIR_ENTRIES - 1
BlockOf(k) == k \div MAX_DIR_ENTRIES

DirBlockAt(i, b) ==
    IF InodeOf(i).dp[b] = 0
    THEN [entry |-> [e \in 0 .. MAX_DIR_ENTRIES - 1 |-> NoEntry]]
    ELSE disk[InodeOf(i).dp[b]]

EntryAt(i, k) == DirBlockAt(i, BlockOf(k)).entry[k % MAX_DIR_ENTRIES]

Used(i) == {k \in Position : EntryAt(i, k).inum # -1}
Named(i, n) == {k \in Used(i) : EntryAt(i, k).name = n}

FreeEntries(i) == Position \ Used(i)
FreeInodes == {i \in Inum : InodeAddr(i) = 0}

-----------------------------------------------------------------------------
(* What an operation writes: a list of blocks for the log, and the pieces  *)
(* of the inode map that the new checkpoint region points to.  Setting(m,  *)
(* i, a) is a piece m of the map with the inode i at a; an operation that  *)
(* changes two inodes of one piece writes it twice, the second time with   *)
(* both changes.                                                           *)

Setting(map, i, a) == [map EXCEPT !.inode_p[i % IMAP_SIZE] = a]

Piece(i) == i \div IMAP_SIZE

\* Mutant: the second piece is made from the one on the disk.
NextPieceStale(i, map, j) == MapOf(Piece(j))

\* The piece j is in, after the piece of i has been changed to map.
NextPiece(i, map, j) == IF Piece(i) = Piece(j) THEN map ELSE MapOf(Piece(j))

Commit(blocks, imaps) ==
    /\ cr.log_end + Len(blocks) <= MaxLog + 1
    /\ todo' = blocks
    /\ newcr' = [log_end |-> cr.log_end + Len(blocks), imap_p |-> imaps]
    /\ UNCHANGED reply

\* The size of the file or directory i with a block at b.
Grown(i, b) == InodeOf(i).size + (IF InodeOf(i).dp[b] = 0 THEN 1 ELSE 0)

Done == [status |-> 0]

Return(result) == reply' = result /\ UNCHANGED <<todo, newcr>>

-----------------------------------------------------------------------------
(* The routines of helper.c. *)

(* S_Lookup reads a block that is not there, too, at the address 0, where  *)
(* it finds the checkpoint region: log_end and imap_p[0..13] as the name of*)
(* the first entry, imap_p[14] as its inum, and so on.                     *)
LookedAt(i, k) ==
    IF InodeOf(i).dp[BlockOf(k)] = 0
    THEN CRBlock(cr).entry[k % MAX_DIR_ENTRIES]
    ELSE EntryAt(i, k)

Matches(i, n) == {k \in Position : LookedAt(i, k).inum # -1 /\ LookedAt(i, k).name = n}

(* No checkpoint region spells a name that a client gives.  The code does  *)
(* not see to it: once a client has created and removed a file on a new    *)
(* image, log_end is 0x3644 and spells D6.                                 *)
NoNameSpelled ==
    \A c \in CR, e \in 0 .. MAX_DIR_ENTRIES - 1 :
        CRBlock(c).entry[e].name \notin Name \cup {Dot, DotDot}

\* The last entry of that name.
S_Lookup(p, n) ==
    Return(IF IsDir(p) /\ Matches(p, n) # {}
           THEN [inum |-> LookedAt(p, Max(Matches(p, n))).inum]
           ELSE Fail)

S_Stat(i) == Return(IF Exists(i) THEN [type |-> InodeOf(i).type, size |-> InodeOf(i).size] ELSE Fail)

\* A directory is read with success and without contents.
S_Read(i, b) ==
    Return(IF b < MAX_DIRECT_P /\ Exists(i) /\ InodeOf(i).dp[b] # 0
           THEN [data |-> IF IsDir(i) THEN "dir" ELSE disk[InodeOf(i).dp[b]].data]
           ELSE Fail)

S_Write(i, d, b) ==
    LET at    == cr.log_end
        inode == [InodeOf(i) EXCEPT !.dp[b] = at, !.size = Grown(i, b)]
        imap  == Setting(MapOf(Piece(i)), i, at + 1)
    IN  IF Exists(i) /\ ~IsDir(i) /\ b < MAX_DIRECT_P
        THEN Commit(<<[data |-> d], inode, imap>>, [cr.imap_p EXCEPT ![Piece(i)] = at + 2])
        ELSE Return(Fail)

\* The inode of the new file, in the piece of the map that has room for it;
\* then the entry, the inode and the piece of the map of its directory.
Created(p, t, n) ==
    LET k      == Min(FreeEntries(p))
        b      == BlockOf(k)
        new    == Min(FreeInodes)
        newdir == IF t = "dir" THEN <<EmptyDir(new, p)>> ELSE <<>>
        inode  == IF t = "dir" THEN DirInode(cr.log_end) ELSE FileInode
        at     == cr.log_end + Len(newdir)
        imap   == Setting(MapOf(Piece(new)), new, at)
        pdir   == [DirBlockAt(p, b) EXCEPT !.entry[k % MAX_DIR_ENTRIES] = [name |-> n, inum |-> new]]
        pinode == [InodeOf(p) EXCEPT !.dp[b] = at + 2, !.size = Grown(p, b)]
        pimap  == Setting(NextPiece(new, imap, p), p, at + 3)
    IN  Commit(newdir \o <<inode, imap, pdir, pinode, pimap>>,
               [cr.imap_p EXCEPT ![Piece(new)] = at + 1, ![Piece(p)] = at + 4])

S_Creat(p, t, n) ==
    CASE ~IsDir(p) -> Return(Fail)
      [] IsDir(p) /\ Named(p, n) # {} -> Return(Done)
      [] IsDir(p) /\ Named(p, n) = {} ->
            IF FreeEntries(p) = {} \/ FreeInodes = {} THEN Return(Fail) ELSE Created(p, t, n)

\* Mutant: the inode of what is unlinked stays in the map.
RemovedButInode(p, k) ==
    LET at     == cr.log_end
        pdir   == [DirBlockAt(p, BlockOf(k)) EXCEPT !.entry[k % MAX_DIR_ENTRIES] = NoEntry]
        pinode == [InodeOf(p) EXCEPT !.dp[BlockOf(k)] = at]
        pimap  == Setting(MapOf(Piece(p)), p, at + 1)
    IN  Commit(<<pdir, pinode, pimap>>, [cr.imap_p EXCEPT ![Piece(p)] = at + 2])

\* The directory without the entry k; then the piece of the map without the
\* inode of that entry.
Removed(p, k) ==
    LET del    == EntryAt(p, k).inum
        at     == cr.log_end
        pdir   == [DirBlockAt(p, BlockOf(k)) EXCEPT !.entry[k % MAX_DIR_ENTRIES] = NoEntry]
        pinode == [InodeOf(p) EXCEPT !.dp[BlockOf(k)] = at]
        pimap  == Setting(MapOf(Piece(p)), p, at + 1)
        imap   == Setting(NextPiece(p, pimap, del), del, 0)
    IN  Commit(<<pdir, pinode, pimap, imap>>,
               [cr.imap_p EXCEPT ![Piece(p)] = at + 2, ![Piece(del)] = at + 3])

NotEmpty(i) == IsDir(i) /\ Cardinality(Used(i)) > 2

\* The type of an inode that is not there is what happens to be on the stack.
MayRefuse(i) == NotEmpty(i) \/ i = -1 \/ ~Exists(i)

Unlinked(p, k) ==
    LET i == EntryAt(p, k).inum
    IN  \/ MayRefuse(i) /\ Return(Fail)
        \/ ~NotEmpty(i) /\ Removed(p, k)

(* S_Lookup has found the name in the checkpoint region only: the search of*)
(* S_Unlink ends behind the last block, with the first entry of the last   *)
(* block that is there in hand, and what this entry leads to is removed.   *)
(* The directory keeps the entry: its new block goes to dp[MAX_DIRECT_P],  *)
(* behind the inode.                                                       *)
Misled(p) ==
    LET b     == Max({c \in Offset : InodeOf(p).dp[c] # 0})
        del   == EntryAt(p, b * MAX_DIR_ENTRIES).inum
        at    == cr.log_end
        pdir  == [DirBlockAt(p, b) EXCEPT !.entry[0].inum = -1]
        pimap == Setting(MapOf(Piece(p)), p, at + 1)
        piece == IF del = -1 THEN 0 ELSE Piece(del)
        imap  == IF del = -1 THEN NextPiece(p, pimap, 0) ELSE Setting(NextPiece(p, pimap, del), del, 0)
    IN  \/ MayRefuse(del) /\ Return(Fail)
        \/ /\ del = -1 \/ ~NotEmpty(del)
           /\ Commit(<<pdir, InodeOf(p), pimap, imap>>,
                     [cr.imap_p EXCEPT ![Piece(p)] = at + 2, ![piece] = at + 3])

S_Unlink(p, n) ==
    CASE ~IsDir(p) \/ Matches(p, n) = {} -> Return(Done)
      [] IsDir(p) /\ Named(p, n) # {} -> Unlinked(p, Min(Named(p, n)))
      [] IsDir(p) /\ Named(p, n) = {} /\ Matches(p, n) # {} -> Misled(p)

-----------------------------------------------------------------------------
(* The loop of the server. *)

Routine(r) ==
    CASE r.op = "lookup" -> S_Lookup(r.inum, r.name)
      [] r.op = "stat"   -> S_Stat(r.inum)
      [] r.op = "read"   -> S_Read(r.inum, r.block)
      [] r.op = "write"  -> S_Write(r.inum, r.data, r.block)
      [] r.op = "creat"  -> S_Creat(r.inum, r.type, r.name)
      [] r.op = "unlink" -> S_Unlink(r.inum, r.name)

\* A request with an inode number and a block offset from these sets.
Requests(inums, blocks) ==
         [op : {"lookup"}, inum : inums, name : Name \cup {Dot, DotDot}]
    \cup [op : {"stat"}, inum : inums]
    \cup [op : {"read"}, inum : inums, block : blocks]
    \cup [op : {"write"}, inum : inums, block : blocks, data : Data]
    \cup [op : {"creat"}, inum : inums, name : Name \cup {Dot}, type : {"dir", "file"}]
    \cup [op : {"unlink"}, inum : inums, name : Name]

Request == Requests(0 .. MAX_INODES, 0 .. MAX_DIRECT_P)

\* None is no checkpoint region and no request either.
ASSUME NoneAssumption == None \notin CR \cup Request

\* UDP_Read, the parser and the routine, up to its first write.
Serve(r) ==
    /\ call = None /\ call' = r
    /\ Routine(r)
    /\ UNCHANGED <<disk, cr, crashes>>

LogWrite ==
    /\ todo # <<>>
    /\ disk' = [disk EXCEPT ![newcr.log_end - Len(todo)] = Head(todo)]
    /\ todo' = Tail(todo)
    /\ UNCHANGED <<cr, newcr, call, reply, crashes>>

\* Mutant: log_end is not moved.
CRWriteNoEnd ==
    /\ newcr # None /\ todo = <<>>
    /\ cr' = [newcr EXCEPT !.log_end = cr.log_end] /\ newcr' = None
    /\ reply' = Done
    /\ UNCHANGED <<disk, todo, call, crashes>>

\* The write of the checkpoint region, fsync, and the return of success.
CRWrite ==
    /\ newcr # None /\ todo = <<>>
    /\ cr' = newcr /\ newcr' = None
    /\ reply' = Done
    /\ UNCHANGED <<disk, todo, call, crashes>>

Reply ==
    /\ reply # None
    /\ reply' = None /\ call' = None
    /\ UNCHANGED <<disk, cr, todo, newcr, crashes>>

\* The server is killed, and started again: it opens the image.
Crash ==
    /\ crashes < MaxCrashes /\ call # None
    /\ todo' = <<>> /\ newcr' = None /\ call' = None /\ reply' = None
    /\ crashes' = crashes + 1
    /\ UNCHANGED <<disk, cr>>

Next ==
    \/ \E r \in Request : Serve(r)
    \/ LogWrite \/ CRWrite \/ Reply
    \/ Crash

Spec == Init /\ [][Next]_vars
=============================================================================
