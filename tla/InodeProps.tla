----------------------------- MODULE InodeProps -----------------------------
(* What should hold of the inodes of the xv6 kernel (Inode).               *)
EXTENDS Inode

TypeOK ==
    /\ dinode \in [Inum -> [type : {"free", "file", "dir"}, nlink : Nat, entries : [Names -> Inum \cup {None}]]]
    /\ icache \in [Inum -> [ref : Nat, busy : Process \cup {None}, valid : BOOLEAN,
                            type : {"free", "file", "dir"}, nlink : Nat]]
    /\ cwd \in [Process -> Inum] /\ file \in [Process -> Inum \cup {None}]

\* The references of p to i: those it has, and those it is about to give back.
References(p, i) ==
    {h \in {<<"cwd", cwd[p]>>, <<"file", file[p]>>, <<"ip", Ip(p)>>, <<"dp", Dp(p)>>} : h[2] = i}
    \cup {<<"todo", k>> : k \in {m \in DOMAIN todo[p] : todo[p][m][1] \in {"iput", "itrunc", "iputdone"}
                                                      /\ todo[p][m][2] = i}}

(* The count of references of an inode in the cache is the number of those *)
(* who have it, on every path through the calls, also the failing ones: no *)
(* reference is dropped twice and none is kept (fs.c, sysfile.c).          *)
RefsAreHolders ==
    \A i \in Inum : icache[i].ref = Cardinality(UNION {{p} \X References(p, i) : p \in Process})

EntriesTo(i) == {e \in Inum \X Name : dinode[e[1]].type = "dir" /\ dinode[e[1]].entries[e[2]] = i}
SubdirsOf(i) == {n \in Name : dinode[i].entries[n] # None /\ dinode[dinode[i].entries[n]].type = "dir"}

(* Whatever calls run at once, an entry of a directory leads to an inode   *)
(* in use, and nlink is at least the number of its entries and of its      *)
(* subdirectories: no inode is freed that a directory still names.         *)
LinksAreCounted ==
    \A i \in Inum :
        /\ EntriesTo(i) # {} => dinode[i].type # "free"
        /\ dinode[i].nlink >= Cardinality(EntriesTo(i)) + (IF dinode[i].type = "dir" THEN Cardinality(SubdirsOf(i)) ELSE 0)

(* An inode that has neither links nor users is free: whoever gives the    *)
(* last reference to a removed inode back frees it, even if others lower   *)
(* links and look names up meanwhile (iput reads nlink without the lock).  *)
(* It says nothing of an inode that has got a link again: mkdir in a       *)
(* directory that has been removed raises nlink to 1 (sysfile.c:243), and  *)
(* neither it nor what is made in it is ever freed; nor of a file made in  *)
(* such a directory, which keeps the link of an entry that has gone.       *)
RemovedIsFreed ==
    \A i \in Inum :
        dinode[i].type # "free" /\ dinode[i].nlink = 0
            => icache[i].ref > 0 \/ \E p \in Process : pc[p] = "iget" /\ call[p].new = i

(* What is cached of an inode is what is on the disk, but for one that is  *)
(* being freed, although its number is given out before iput has cleared   *)
(* the flags: nobody works with the inode that was there before.           *)
CacheIsDisk ==
    \A i \in Inum :
        (/\ icache[i].ref > 0 /\ icache[i].valid
         /\ \A p \in Process : ~(First(p, "iputdone") /\ Subject(p) = i))
            => icache[i].type = dinode[i].type /\ icache[i].nlink = dinode[i].nlink

(* What a call has found out under a lock still holds where it rests on    *)
(* it. These panics are not reached: "ilock", "ilock: no type", "iunlock", *)
(* "iput busy" and "dirlookup not DIR" (fs.c), "unlink: nlink < 1",        *)
(* "create dots" and "create: dirlink" (sysfile.c): nobody has made the    *)
(* name that create has looked for and is about to write, and a directory  *)
(* that ialloc gives out holds no name yet. (Being out of inodes and I/O   *)
(* panics are not modelled.)                                               *)
NoPanic ==
    \A p \in Process :
        /\ First(p, "ilock") => /\ icache[Subject(p)].ref > 0
                                /\ icache[Subject(p)].busy = None /\ ~icache[Subject(p)].valid
                                       => dinode[Subject(p)].type # "free"
        /\ First(p, "iunlock") => icache[Subject(p)].busy = p /\ icache[Subject(p)].ref > 0
        /\ First(p, "iput") => ~(Last(Subject(p)) /\ icache[Subject(p)].busy # None)
        /\ pc[p] \in {"unlink", "create", "link"} /\ todo[p] = <<>> /\ call[p].parent => icache[Dp(p)].type = "dir"
        /\ At(p, "unlinkinode") => icache[Ip(p)].nlink > 0
        /\ At(p, "created") =>
               /\ icache[Dp(p)].type = "dir" /\ Unnamed(Dp(p), call[p].name)
               /\ call[p].type = "dir" =>
                      icache[Ip(p)].type = "dir" /\ Unnamed(Ip(p), Dot) /\ Unnamed(Ip(p), DotDot)

(* Processes that hold the lock of one inode while they wait for another   *)
(* (unlink, create) never wait for each other in a circle.                 *)
NoCircularWait ==
    \A S \in (SUBSET Process) \ {{}} :
        \E p \in S : ~(First(p, "ilock") /\ icache[Subject(p)].busy \in S)
=============================================================================
