------------------------------- MODULE Inode -------------------------------
(***************************************************************************)
(* The inodes of the xv6 kernel of p4 (fs.c): the cache with its counts of *)
(* references and its locks, the inodes on the disk with their links, and  *)
(* the calls of sysfile.c that walk along paths, create, link and unlink,  *)
(* run by several processes.                                               *)
(*                                                                         *)
(* What icache.lock makes atomic is one action; and so is what a process   *)
(* does to an inode, its block on the disk and its entries while it has the*)
(* lock of that inode (I_BUSY), which BlockIO shows to be one for all.     *)
(* The contents of files are left out, and there is always a free slot in  *)
(* the cache.  The rest of a call is a list of routines still to be run.   *)
(***************************************************************************)
EXTENDS Naturals, FiniteSets, Sequences

CONSTANTS
    Process,
    Inum, ROOTINO,
    Name, Dot, DotDot,
    Paths,      \* what the processes may give for a path
    None        \* no inode, no process

ASSUME InodeAssumption ==
    /\ IsFiniteSet(Process) /\ IsFiniteSet(Inum) /\ IsFiniteSet(Name)
    /\ ROOTINO \in Inum
    /\ None \notin Inum \cup Process
    /\ Dot \notin Name /\ DotDot \notin Name /\ Dot # DotDot
    /\ \A path \in Paths : path.absolute \in BOOLEAN /\ path.names \in Seq(Name \cup {Dot, DotDot})

VARIABLES
    dinode,     \* the inodes on the disk, with the entries of directories
    icache,     \* the inodes in memory
    cwd, file,  \* the directory and an open file of each process
    pc, todo,   \* where each process is: in a call, after these routines
    call        \* the call: what is left of the path, the inodes it has

vars == <<dinode, icache, cwd, file, pc, todo, call>>

Names == Name \cup {Dot, DotDot}

NoEntries == [n \in Names |-> None]
FreeInode == [type |-> "free", nlink |-> 0, entries |-> NoEntries]
Uncached  == [ref |-> 0, busy |-> None, valid |-> FALSE, type |-> "free", nlink |-> 0]

(* ip and dp are references that the call has; what it gives back it has   *)
(* no more.                                                                *)
NoCall == [op |-> "none", names |-> <<>>, parent |-> FALSE, new |-> None, name |-> None,
           type |-> "free", ip |-> None, dp |-> None]

Root == [type |-> "dir", nlink |-> 1,
         entries |-> [n \in Names |-> IF n \in {Dot, DotDot} THEN ROOTINO ELSE None]]

Init ==
    /\ dinode = [i \in Inum |-> IF i = ROOTINO THEN Root ELSE FreeInode]
    /\ icache = [i \in Inum |-> IF i = ROOTINO THEN [Uncached EXCEPT !.ref = Cardinality(Process)] ELSE Uncached]
    /\ cwd = [p \in Process |-> ROOTINO] /\ file = [p \in Process |-> None]
    /\ pc = [p \in Process |-> "user"]
    /\ todo = [p \in Process |-> <<>>]
    /\ call = [p \in Process |-> NoCall]

-----------------------------------------------------------------------------
(* A process runs the routines of its list, and then the next part of its  *)
(* call.                                                                   *)

At(p, l) == pc[p] = l /\ todo[p] = <<>>

Then(p, routines, l) ==
    /\ todo' = [todo EXCEPT ![p] = routines]
    /\ pc' = [pc EXCEPT ![p] = l]

LockIt(i)      == <<"ilock", i>>
UnlockIt(i)    == <<"iunlock", i>>
PutIt(i)       == <<"iput", i>>
UnlockPutIt(i) == <<UnlockIt(i), PutIt(i)>>

First(p, r) == todo[p] # <<>> /\ Head(todo[p])[1] = r
Subject(p)  == Head(todo[p])[2]
Done(p)     == todo' = [todo EXCEPT ![p] = Tail(@)] /\ UNCHANGED pc
Becomes(p, r) == todo' = [todo EXCEPT ![p] = <<<<r, Subject(p)>>>> \o Tail(@)] /\ UNCHANGED pc

Return(p, routines) == Then(p, routines, "user") /\ call' = [call EXCEPT ![p] = NoCall]

-----------------------------------------------------------------------------
(* The routines of fs.c.                                                   *)

\* iget, idup: one more reference to i.
Referenced(i) ==
    IF icache[i].ref > 0 THEN [icache EXCEPT ![i].ref = @ + 1] ELSE [icache EXCEPT ![i] = [Uncached EXCEPT !.ref = 1]]

ILock(p) ==
    LET i == Subject(p) IN
    /\ First(p, "ilock") /\ icache[i].busy = None
    /\ icache' = [icache EXCEPT ![i] =
                    IF @.valid
                    THEN [@ EXCEPT !.busy = p]
                    ELSE [@ EXCEPT !.busy = p, !.valid = TRUE, !.type = dinode[i].type, !.nlink = dinode[i].nlink]]
    /\ Done(p)
    /\ UNCHANGED <<dinode, cwd, file, call>>

IUnlock(p) ==
    /\ First(p, "iunlock")
    /\ icache' = [icache EXCEPT ![Subject(p)].busy = None]
    /\ Done(p)
    /\ UNCHANGED <<dinode, cwd, file, call>>

\* Mutants: the links do not count; the count is taken as if it were lowered
\* already; what is in memory counts before it has been read.
LastLinked(i)      == icache[i].ref = 1 /\ icache[i].valid
LastLowered(i)     == icache[i].ref = 0 /\ icache[i].valid /\ icache[i].nlink = 0
LastUnlessValid(i) == icache[i].ref = 1 /\ icache[i].nlink = 0

Last(i) == icache[i].ref = 1 /\ icache[i].valid /\ icache[i].nlink = 0

(* iput: the last reference to an inode without links frees it, with its   *)
(* flag set and icache.lock released.                                      *)
IPut(p) ==
    LET i == Subject(p) IN
    /\ First(p, "iput")
    /\ \/ Last(i)  /\ icache' = [icache EXCEPT ![i].busy = p] /\ Becomes(p, "itrunc")
       \/ ~Last(i) /\ icache' = [icache EXCEPT ![i].ref = @ - 1] /\ Done(p)
    /\ UNCHANGED <<dinode, cwd, file, call>>

ITrunc(p) ==
    /\ First(p, "itrunc")
    /\ dinode' = [dinode EXCEPT ![Subject(p)] = FreeInode]
    /\ icache' = [icache EXCEPT ![Subject(p)].type = "free"]
    /\ Becomes(p, "iputdone")
    /\ UNCHANGED <<cwd, file, call>>

\* Mutant: the flags are not cleared.
NotCleared(i) == [icache[i] EXCEPT !.busy = None, !.ref = @ - 1]
Cleared(i)    == [icache[i] EXCEPT !.busy = None, !.valid = FALSE, !.ref = @ - 1]

IPutDone(p) ==
    /\ First(p, "iputdone")
    /\ icache' = [icache EXCEPT ![Subject(p)] = Cleared(Subject(p))]
    /\ Done(p)
    /\ UNCHANGED <<dinode, cwd, file, call>>

-----------------------------------------------------------------------------
(* namex: each element of the path is looked up with the directory locked, *)
(* which is given back before the next one is locked.                      *)

Ip(p) == call[p].ip
Dp(p) == call[p].dp

\* The call fails after a walk: link has a link to take back.
Fail(p, routines) ==
    \/ call[p].op = "link" /\ Ip(p) # None
       /\ Then(p, routines \o <<LockIt(Ip(p))>>, "badlink")
       /\ call' = [call EXCEPT ![p] = [NoCall EXCEPT !.op = "link", !.ip = Ip(p)]]
    \/ ~(call[p].op = "link" /\ Ip(p) # None) /\ Return(p, routines)

\* The next element of the path, after the routines; or what to do with the
\* inode that has been found.
NameX(p, c, routines) ==
    \/ /\ c.names # <<>>
       /\ call' = [call EXCEPT ![p] = c] /\ Then(p, routines \o <<LockIt(c.dp)>>, "element")
    \/ /\ c.names = <<>> /\ ~c.parent
       /\ call' = [call EXCEPT ![p] = [c EXCEPT !.ip = c.dp, !.dp = None]]
       /\ Then(p, routines \o <<LockIt(c.dp)>>, c.op)
    \/ /\ c.names = <<>> /\ c.parent
       /\ Fail(p, routines \o <<PutIt(c.dp)>>)

Walk(p, c, path) ==
    LET i == IF path.absolute THEN ROOTINO ELSE cwd[p] IN
    /\ icache' = Referenced(i)
    /\ NameX(p, [c EXCEPT !.names = path.names, !.dp = i], <<>>)

Element(p) ==
    LET d == Dp(p)
        n == Head(call[p].names)
        i == dinode[d].entries[n]
    IN
    /\ At(p, "element")
    /\ \/ /\ icache[d].type # "dir"
          /\ Fail(p, UnlockPutIt(d)) /\ UNCHANGED icache
       \/ /\ icache[d].type = "dir" /\ call[p].parent /\ Len(call[p].names) = 1
          /\ call' = [call EXCEPT ![p].name = n, ![p].names = <<>>]
          /\ Then(p, <<UnlockIt(d), LockIt(d)>>, call[p].op)
          /\ UNCHANGED icache
       \/ /\ icache[d].type = "dir" /\ ~(call[p].parent /\ Len(call[p].names) = 1)
          /\ \/ i = None /\ Fail(p, UnlockPutIt(d)) /\ UNCHANGED icache
             \/ i # None /\ icache' = Referenced(i)
                /\ NameX(p, [call[p] EXCEPT !.dp = i, !.names = Tail(@)], UnlockPutIt(d))
    /\ UNCHANGED <<dinode, cwd, file>>

-----------------------------------------------------------------------------
(* The calls.  Each begins with a walk.                                    *)

Calls(p, c, path) ==
    /\ At(p, "user")
    /\ Walk(p, c, path)
    /\ UNCHANGED <<dinode, cwd, file>>

(* Bound: the disk has an inode for every create, which panics otherwise.  *)
Room == Cardinality({i \in Inum : dinode[i].type = "free"}) > Cardinality({p \in Process : call[p].op = "create"})

SysOpen(p)   == file[p] = None /\ \E path \in Paths : Calls(p, [NoCall EXCEPT !.op = "open"], path)
SysChdir(p)  == \E path \in Paths : Calls(p, [NoCall EXCEPT !.op = "chdir"], path)
SysCreate(p) == file[p] = None /\ Room /\ \E path \in Paths :
                    Calls(p, [NoCall EXCEPT !.op = "create", !.type = "file", !.parent = TRUE], path)
SysMkdir(p)  == Room /\ \E path \in Paths :
                    Calls(p, [NoCall EXCEPT !.op = "create", !.type = "dir", !.parent = TRUE], path)
SysUnlink(p) == \E path \in Paths : Calls(p, [NoCall EXCEPT !.op = "unlink", !.parent = TRUE], path)
SysLink(p)   == \E path, new \in Paths : Calls(p, [NoCall EXCEPT !.op = "link", !.new = new], path)

(* The rest of sys_open, also after create: a file takes the reference, or *)
(* there is none.                                                          *)
OpenFile(p, i, routines) ==
    \/ file' = [file EXCEPT ![p] = i] /\ Return(p, routines \o <<UnlockIt(i)>>)
    \/ UNCHANGED file /\ Return(p, routines \o UnlockPutIt(i))

Open(p) ==
    /\ At(p, "open")
    /\ OpenFile(p, Ip(p), <<>>)
    /\ UNCHANGED <<dinode, icache, cwd>>

\* fileread, filewrite and filestat; fileclose of the last reference.
UseFile(p) ==
    /\ At(p, "user") /\ file[p] # None
    /\ Then(p, <<LockIt(file[p]), UnlockIt(file[p])>>, "user")
    /\ UNCHANGED <<dinode, icache, cwd, file, call>>

Close(p) ==
    /\ At(p, "user") /\ file[p] # None
    /\ Then(p, <<PutIt(file[p])>>, "user")
    /\ file' = [file EXCEPT ![p] = None]
    /\ UNCHANGED <<dinode, icache, cwd, call>>

Chdir(p) ==
    /\ At(p, "chdir")
    /\ \/ icache[Ip(p)].type # "dir" /\ Return(p, UnlockPutIt(Ip(p))) /\ UNCHANGED cwd
       \/ icache[Ip(p)].type = "dir" /\ Return(p, <<UnlockIt(Ip(p)), PutIt(cwd[p])>>)
          /\ cwd' = [cwd EXCEPT ![p] = Ip(p)]
    /\ UNCHANGED <<dinode, icache, file>>

\* nlink of inode i, which is locked, in memory and on the disk (iupdate).
Links(i, n) ==
    /\ icache' = [icache EXCEPT ![i].nlink = n]
    /\ dinode' = [dinode EXCEPT ![i].nlink = n]

(* sys_link: the link is counted, and then made, or taken back.            *)
Link(p) ==
    /\ At(p, "link") /\ ~call[p].parent
    /\ \/ icache[Ip(p)].type = "dir" /\ Return(p, UnlockPutIt(Ip(p))) /\ UNCHANGED <<dinode, icache>>
       \/ /\ icache[Ip(p)].type # "dir"
          /\ Links(Ip(p), icache[Ip(p)].nlink + 1)
          /\ Then(p, <<UnlockIt(Ip(p))>>, "nameiparent")
          /\ call' = [call EXCEPT ![p].parent = TRUE]
    /\ UNCHANGED <<cwd, file>>

NameIParent(p) ==
    /\ At(p, "nameiparent")
    /\ Walk(p, [call[p] EXCEPT !.new = None], call[p].new)
    /\ UNCHANGED <<dinode, cwd, file>>

\* Mutant: dirlink keeps the inode that it has found.
DirLinkKeeps(i) == <<>>
DirLinkPuts(i)  == <<PutIt(i)>>

DirLink(p) ==
    LET d == Dp(p)
        n == call[p].name
        i == dinode[d].entries[n]
    IN
    /\ At(p, "link") /\ call[p].parent
    /\ \/ i # None /\ icache' = Referenced(i)
          /\ Fail(p, DirLinkPuts(i) \o UnlockPutIt(d)) /\ UNCHANGED dinode
       \/ i = None /\ dinode' = [dinode EXCEPT ![d].entries[n] = Ip(p)]
          /\ Return(p, UnlockPutIt(d) \o <<PutIt(Ip(p))>>) /\ UNCHANGED icache
    /\ UNCHANGED <<cwd, file>>

BadLink(p) ==
    /\ At(p, "badlink")
    /\ Links(Ip(p), icache[Ip(p)].nlink - 1)
    /\ Return(p, UnlockPutIt(Ip(p)))
    /\ UNCHANGED <<cwd, file>>

-----------------------------------------------------------------------------
(* sys_unlink: the directory stays locked while the inode is.              *)

Unlink(p) ==
    LET d == Dp(p)
        n == call[p].name
        i == dinode[d].entries[n]
    IN
    /\ At(p, "unlink")
    /\ \/ /\ n \in {Dot, DotDot} \/ i = None
          /\ Return(p, UnlockPutIt(d)) /\ UNCHANGED icache
       \/ /\ n \notin {Dot, DotDot} /\ i # None
          /\ icache' = Referenced(i)
          /\ call' = [call EXCEPT ![p].ip = i]
          /\ Then(p, <<LockIt(i)>>, "unlinkinode")
    /\ UNCHANGED <<dinode, cwd, file>>

IsDirEmpty(i) == \A n \in Name : dinode[i].entries[n] = None

UnlinkInode(p) ==
    LET d == Dp(p)
        i == Ip(p)
    IN
    /\ At(p, "unlinkinode")
    /\ \/ icache[i].type = "dir" /\ ~IsDirEmpty(i)
          /\ Return(p, UnlockPutIt(i) \o UnlockPutIt(d))
          /\ UNCHANGED <<dinode, icache>>
       \/ /\ icache[i].type = "dir" => IsDirEmpty(i)
          /\ dinode' = [dinode EXCEPT ![d].entries[call[p].name] = None,
                                      ![d].nlink = IF icache[i].type = "dir" THEN @ - 1 ELSE @]
          /\ icache' = [icache EXCEPT ![d].nlink = IF icache[i].type = "dir" THEN @ - 1 ELSE @]
          /\ Then(p, UnlockPutIt(d), "unlinked") /\ call' = [call EXCEPT ![p].dp = None]
    /\ UNCHANGED <<cwd, file>>

Unlinked(p) ==
    /\ At(p, "unlinked")
    /\ Links(Ip(p), icache[Ip(p)].nlink - 1)
    /\ Return(p, UnlockPutIt(Ip(p)))
    /\ UNCHANGED <<cwd, file>>

-----------------------------------------------------------------------------
(* create, for sys_open, sys_mkdir and sys_mknod.                          *)

\* Mutant: the directory is given back, but not unlocked.
NotUnlocked(d, i)  == <<PutIt(d), LockIt(i)>>
LockExisting(d, i) == UnlockPutIt(d) \o <<LockIt(i)>>

Create(p) ==
    LET d == Dp(p)
        i == dinode[d].entries[call[p].name]
    IN
    /\ At(p, "create")
    /\ \/ /\ i # None
          /\ icache' = Referenced(i)
          /\ call' = [call EXCEPT ![p].ip = i, ![p].dp = None]
          /\ Then(p, LockExisting(d, i), "existing")
          /\ UNCHANGED dinode
       \/ /\ i = None
          /\ \E free \in {j \in Inum : dinode[j].type = "free"} :
               /\ dinode' = [dinode EXCEPT ![free] = [FreeInode EXCEPT !.type = call[p].type]]
               /\ call' = [call EXCEPT ![p].new = free]
          /\ Then(p, <<>>, "iget")
          /\ UNCHANGED icache
    /\ UNCHANGED <<cwd, file>>

Existing(p) ==
    /\ At(p, "existing")
    /\ \/ call[p].type = "file" /\ icache[Ip(p)].type = "file" /\ OpenFile(p, Ip(p), <<>>)
       \/ ~(call[p].type = "file" /\ icache[Ip(p)].type = "file") /\ Return(p, UnlockPutIt(Ip(p))) /\ UNCHANGED file
    /\ UNCHANGED <<dinode, icache, cwd>>

IGet(p) ==
    /\ At(p, "iget")
    /\ icache' = Referenced(call[p].new)
    /\ call' = [call EXCEPT ![p].ip = call[p].new, ![p].new = None]
    /\ Then(p, <<LockIt(call[p].new)>>, "created")
    /\ UNCHANGED <<dinode, cwd, file>>

(* What dirlink finds out first: nothing has that name in the directory.   *)
(* Otherwise create panics (NoPanic), and does nothing more.               *)
Unnamed(d, n) == dinode[d].entries[n] = None

Created(p) ==
    LET d   == Dp(p)
        i   == Ip(p)
        dir == call[p].type = "dir"
        dots == IF dir THEN [dinode[i].entries EXCEPT ![Dot] = i, ![DotDot] = d] ELSE dinode[i].entries
        subdirs == IF dir THEN 1 ELSE 0
    IN
    /\ At(p, "created")
    /\ dir => Unnamed(i, Dot) /\ Unnamed(i, DotDot)
    /\ Unnamed(d, call[p].name)
    /\ dinode' = [dinode EXCEPT ![i].nlink = 1, ![i].entries = dots,
                                ![d].entries[call[p].name] = i,
                                ![d].nlink = dinode[d].nlink + subdirs]
    /\ icache' = [icache EXCEPT ![i].nlink = 1, ![d].nlink = icache[d].nlink + subdirs]
    /\ \/ dir /\ Return(p, UnlockPutIt(d) \o UnlockPutIt(i)) /\ UNCHANGED file
       \/ ~dir /\ OpenFile(p, i, UnlockPutIt(d))
    /\ UNCHANGED cwd

Routine(p) == ILock(p) \/ IUnlock(p) \/ IPut(p) \/ ITrunc(p) \/ IPutDone(p)

Step(p) ==
    \/ Routine(p)
    \/ SysOpen(p) \/ SysChdir(p) \/ SysCreate(p) \/ SysMkdir(p) \/ SysUnlink(p) \/ SysLink(p)
    \/ Element(p)
    \/ Open(p) \/ UseFile(p) \/ Close(p) \/ Chdir(p)
    \/ Link(p) \/ NameIParent(p) \/ DirLink(p) \/ BadLink(p)
    \/ Unlink(p) \/ UnlinkInode(p) \/ Unlinked(p)
    \/ Create(p) \/ Existing(p) \/ IGet(p) \/ Created(p)

Next == \E p \in Process : Step(p)

Spec == Init /\ [][Next]_vars
=============================================================================
