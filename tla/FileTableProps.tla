--------------------------- MODULE FileTableProps ---------------------------
(***************************************************************************)
(* What the table of open files promises.                                  *)
(***************************************************************************)
EXTENDS FileTable

Points == {"unused", "embryo", "user", "io", "exit", "fork", "filedup", "filealloc", "kalloc", "fdalloc",
           "fileclose", "pipeclose", "kfree"}

(* The variables hold values of their types, a file nobody has is empty.   *)
TypeOK ==
    /\ file \in [File -> [ref : Nat, page : Page \cup {None}, writable : BOOLEAN]]
    /\ \A f \in File : file[f].ref = 0 => file[f] = FreeFile
    /\ pipe \in [Page -> [alloc : BOOLEAN, readopen : BOOLEAN, writeopen : BOOLEAN]]
    /\ ofile \in [Process -> [FD -> File \cup {None}]]
    /\ pc \in [Process -> Points]
    /\ call \in [Process -> [op : {"none", "pipe", "dup", "fork", "close", "exit", "io"},
                             f0 : File \cup {None}, f1 : File \cup {None}, page : Page \cup {None},
                             writable : BOOLEAN, fd : 0 .. NOFILE, child : Process \cup {None}]]

(* A descriptor that is no reference: exit has closed its file and not yet *)
(* forgotten it; dup has made it and not yet counted it.                   *)
Stale(p, fd) ==
    /\ fd = call[p].fd
    /\ pc[p] = "filedup" \/ (call[p].op = "exit" /\ pc[p] \in {"pipeclose", "kfree"})

(* The references to f: descriptors, and what sys_pipe and sys_close have  *)
(* in hand.                                                                *)
Descriptors(f) == {d \in Process \X FD : ofile[d[1]][d[2]] = f /\ ~Stale(d[1], d[2])}
FirstOf(f)     == {p \in Process : call[p].f0 = f /\ call[p].op \in {"pipe", "close"}}
SecondOf(f)    == {p \in Process : call[p].f1 = f}

(* The count of a file is the number of its references, between the dup,   *)
(* the fork, the exits and the failing calls of several processes: were it *)
(* lower, the file would be closed under somebody (file.c:72); were it     *)
(* higher, it never would be.                                              *)
RefsAreHolders ==
    \A f \in File :
        file[f].ref = Cardinality(Descriptors(f)) + Cardinality(FirstOf(f)) + Cardinality(SecondOf(f))

(* An end of a pipe is open exactly while a file of that direction is, or  *)
(* its close is on its way; a page is allocated exactly while an end is    *)
(* open or its kfree is on its way.  So no end is lost when pipealloc or   *)
(* sys_pipe fails, and none is closed twice.                               *)
IsEnd(f, c, w) == file[f].ref > 0 /\ file[f].page = c /\ file[f].writable = w
Closes(p, c, w) == pc[p] = "pipeclose" /\ call[p].page = c /\ call[p].writable = w
HasEnd(c, w) == (\E f \in File : IsEnd(f, c, w)) \/ (\E p \in Process : Closes(p, c, w))

EndsMatchFiles ==
    \A c \in Page :
        /\ pipe[c].readopen  <=> HasEnd(c, FALSE)
        /\ pipe[c].writeopen <=> HasEnd(c, TRUE)
        /\ pipe[c].alloc <=> \/ pipe[c].readopen \/ pipe[c].writeopen
                             \/ \E p \in Process : pc[p] = "kfree" /\ call[p].page = c

(* While a process reads or writes a pipe, its end stays open, whatever    *)
(* others close; who frees a page is the last to know it (pipe.c:67); and  *)
(* filedup and fileclose find a file that somebody has (file.c:46, 61).    *)
NoUseAfterClose ==
    \A p \in Process :
        /\ pc[p] = "io" => IF call[p].writable THEN pipe[call[p].page].writeopen ELSE pipe[call[p].page].readopen
        /\ pc[p] = "kfree" => /\ pipe[call[p].page].alloc
                              /\ \A q \in Process \ {p} : pc[q] \in {"io", "pipeclose", "kfree"} => call[q].page # call[p].page
        /\ pc[p] \in {"filedup", "fileclose"} => file[call[p].f0].ref > 0
=============================================================================
