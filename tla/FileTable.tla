------------------------------ MODULE FileTable ------------------------------
(***************************************************************************)
(* The table of open files of the xv6 kernel of p4 (file.c) and the        *)
(* descriptors of the processes (sysfile.c, and fork and exit of proc.c),  *)
(* with pipes for files: processes make pipes, pass their ends on by fork  *)
(* and dup, use them, close them, exit and fail to get what they ask for.  *)
(*                                                                         *)
(* What ftable.lock or the lock of a pipe makes atomic is one action.  The *)
(* bytes in a pipe are left to Pipe; files of the disk, which iput closes, *)
(* are left out.                                                           *)
(***************************************************************************)
EXTENDS Naturals, FiniteSets, SequencesExt

CONSTANTS
    Process, initproc,
    File,       \* ftable.file
    Page,       \* the pages kalloc may give to pipes
    NOFILE,     \* descriptors of a process
    None        \* no file, no page, no process

ASSUME FileTableAssumption ==
    /\ initproc \in Process
    /\ IsFiniteSet(Process) /\ IsFiniteSet(File)
    /\ NOFILE \in Nat
    /\ None \notin Process \cup File \cup Page

VARIABLES
    file,       \* ftable: the count of references, the pipe, the direction
    pipe,       \* the pages of pipes, and which of their ends are open
    ofile,      \* the descriptors of each process
    pc, call    \* where each process is, and its call

vars  == <<file, ofile, pipe, pc, call>>

FD == 0 .. NOFILE - 1

FreeFile == [ref |-> 0, page |-> None, writable |-> FALSE]
FreePage == [alloc |-> FALSE, readopen |-> FALSE, writeopen |-> FALSE]

(* A call: the files that it makes, or has still to close; the pipe it     *)
(* closes or uses, and at which end; a descriptor; the child fork makes.   *)
NoCall == [op |-> "none", f0 |-> None, f1 |-> None, page |-> None, writable |-> FALSE, fd |-> 0, child |-> None]

Init ==
    /\ file = [f \in File |-> FreeFile]
    /\ pipe = [c \in Page |-> FreePage]
    /\ ofile = [p \in Process |-> [fd \in FD |-> None]]
    /\ pc = [p \in Process |-> IF p = initproc THEN "user" ELSE "unused"]
    /\ call = [p \in Process |-> NoCall]

-----------------------------------------------------------------------------
(* Steps of a process.                                                     *)

At(p, l)   == pc[p] = l
Goto(p, l) == pc' = [pc EXCEPT ![p] = l]
Calls(p, c, l) == call' = [call EXCEPT ![p] = c] /\ Goto(p, l)
Return(p)  == Calls(p, NoCall, "user")

Open(p)    == {fd \in FD : ofile[p][fd] # None}
Lowest(S)  == CHOOSE fd \in S : \A other \in S : fd <= other

-----------------------------------------------------------------------------
(* sys_pipe and pipealloc: two files, a page, two descriptors; on failure  *)
(* what has been made is closed again.                                     *)

FileAlloc(p, f) == file[f].ref = 0 /\ file' = [file EXCEPT ![f].ref = 1]
NoFile          == \A f \in File : file[f].ref > 0

\* Mutant: a call that fails forgets what it has made.
UndoNothing(p) == Return(p)

Undo(p) == Goto(p, "fileclose") /\ UNCHANGED call

SysPipe(p) ==
    /\ At(p, "user")
    /\ \/ \E f \in File : FileAlloc(p, f) /\ Calls(p, [NoCall EXCEPT !.op = "pipe", !.f0 = f], "filealloc")
       \/ NoFile /\ Return(p) /\ UNCHANGED file
    /\ UNCHANGED <<ofile, pipe>>

SecondFile(p) ==
    /\ At(p, "filealloc")
    /\ \/ \E f \in File : FileAlloc(p, f) /\ Calls(p, [call[p] EXCEPT !.f1 = f], "kalloc")
       \/ NoFile /\ Undo(p) /\ UNCHANGED file
    /\ UNCHANGED <<ofile, pipe>>

NewPipe == [FreePage EXCEPT !.alloc = TRUE, !.readopen = TRUE, !.writeopen = TRUE]

Kalloc(p) ==
    /\ At(p, "kalloc")
    /\ \/ \E c \in Page :
            /\ ~pipe[c].alloc
            /\ pipe' = [pipe EXCEPT ![c] = NewPipe]
            /\ file' = [file EXCEPT ![call[p].f0].page = c,
                                    ![call[p].f1].page = c, ![call[p].f1].writable = TRUE]
            /\ Goto(p, "fdalloc") /\ UNCHANGED call
       \/ Undo(p) /\ UNCHANGED <<pipe, file>>
    /\ UNCHANGED ofile

FdAlloc(p) ==
    LET free == FD \ Open(p)
        fd0  == Lowest(free)
        fd1  == Lowest(free \ {fd0})
    IN
    /\ At(p, "fdalloc")
    /\ IF Cardinality(free) >= 2
       THEN ofile' = [ofile EXCEPT ![p][fd0] = call[p].f0, ![p][fd1] = call[p].f1] /\ Return(p)
       ELSE Undo(p) /\ UNCHANGED ofile
    /\ UNCHANGED <<file, pipe>>

-----------------------------------------------------------------------------
(* sys_dup and fork: the descriptor first and then the count, one file at a*)
(* time.                                                                   *)

\* Mutant: the count is not raised.
FileDupNot(f) == UNCHANGED file

FileDup(f) == file' = [file EXCEPT ![f].ref = @ + 1]

SysDup(p, fd) ==
    LET free == FD \ Open(p) IN
    /\ At(p, "user") /\ fd \in Open(p)
    /\ IF free = {}
       THEN Return(p) /\ UNCHANGED ofile
       ELSE /\ ofile' = [ofile EXCEPT ![p][Lowest(free)] = ofile[p][fd]]
            /\ Calls(p, [NoCall EXCEPT !.op = "dup", !.f0 = ofile[p][fd], !.fd = Lowest(free)], "filedup")
    /\ UNCHANGED <<file, pipe>>

DupCount(p) ==
    /\ At(p, "filedup")
    /\ FileDup(call[p].f0) /\ Return(p)
    /\ UNCHANGED <<ofile, pipe>>

Fork(p, q) ==
    /\ At(p, "user") /\ At(q, "unused")
    /\ pc' = [pc EXCEPT ![p] = "fork", ![q] = "embryo"]
    /\ call' = [call EXCEPT ![p] = [NoCall EXCEPT !.op = "fork", !.child = q]]
    /\ UNCHANGED <<file, ofile, pipe>>

(* The next descriptor of the parent that is open, if any. *)
ForkNext(p) == {fd \in Open(p) : fd >= call[p].fd}

ForkFile(p) ==
    LET fd == Lowest(ForkNext(p)) IN
    /\ At(p, "fork") /\ ForkNext(p) # {}
    /\ FileDup(ofile[p][fd])
    /\ ofile' = [ofile EXCEPT ![call[p].child][fd] = ofile[p][fd]]
    /\ call' = [call EXCEPT ![p].fd = fd + 1]
    /\ UNCHANGED <<pipe, pc>>

ForkDone(p) ==
    /\ At(p, "fork") /\ ForkNext(p) = {}
    /\ pc' = [pc EXCEPT ![p] = "user", ![call[p].child] = "user"]
    /\ call' = [call EXCEPT ![p] = NoCall]
    /\ UNCHANGED <<file, ofile, pipe>>

-----------------------------------------------------------------------------
(* sys_close and exit, fileclose and pipeclose.  exit forgets a descriptor *)
(* only after its file is closed, sys_close before.                        *)

SysClose(p, fd) ==
    /\ At(p, "user") /\ fd \in Open(p)
    /\ ofile' = [ofile EXCEPT ![p][fd] = None]
    /\ Calls(p, [NoCall EXCEPT !.op = "close", !.f0 = ofile[p][fd]], "fileclose")
    /\ UNCHANGED <<file, pipe>>

Exit(p) ==
    /\ p # initproc
    /\ At(p, "user")
    /\ Calls(p, [NoCall EXCEPT !.op = "exit"], "exit")
    /\ UNCHANGED <<file, ofile, pipe>>

ExitFile(p) ==
    LET fd == Lowest(Open(p)) IN
    /\ At(p, "exit") /\ Open(p) # {}
    /\ Calls(p, [call[p] EXCEPT !.f0 = ofile[p][fd], !.fd = fd], "fileclose")
    /\ UNCHANGED <<file, ofile, pipe>>

(* A zombie, which wait() makes unused. *)
ExitDone(p) ==
    /\ At(p, "exit") /\ Open(p) = {}
    /\ Calls(p, NoCall, "unused")
    /\ UNCHANGED <<file, ofile, pipe>>

(* What follows fileclose: the next file, the next descriptor, the end.    *)
AfterClose(p) ==
    \/ /\ call[p].f1 # None
       /\ Calls(p, [call[p] EXCEPT !.f0 = call[p].f1, !.f1 = None], "fileclose")
       /\ UNCHANGED ofile
    \/ /\ call[p].f1 = None /\ call[p].op = "exit"
       /\ Calls(p, [NoCall EXCEPT !.op = "exit"], "exit")
       /\ ofile' = [ofile EXCEPT ![p][call[p].fd] = None]
    \/ /\ call[p].f1 = None /\ call[p].op # "exit"
       /\ Return(p) /\ UNCHANGED ofile

Emptied(f) == FreeFile

(* The count; who takes the last reference closes an end of the pipe.      *)
FileClose(p) ==
    LET f == call[p].f0 IN
    /\ At(p, "fileclose") /\ file[f].ref > 0
    /\ \/ /\ file[f].ref > 1
          /\ file' = [file EXCEPT ![f].ref = @ - 1]
          /\ AfterClose(p)
       \/ /\ file[f].ref = 1 /\ file[f].page = None
          /\ file' = [file EXCEPT ![f] = Emptied(f)]
          /\ AfterClose(p)
       \/ /\ file[f].ref = 1 /\ file[f].page # None
          /\ file' = [file EXCEPT ![f] = Emptied(f)]
          /\ Calls(p, [call[p] EXCEPT !.f0 = None, !.page = file[f].page, !.writable = file[f].writable], "pipeclose")
          /\ UNCHANGED ofile
    /\ UNCHANGED pipe

\* Mutant: the page goes with the first of its ends.
AnyEnd(r, w) == ~r \/ ~w

LastEnd(r, w) == ~r /\ ~w

(* The page goes with the last of its ends.                                *)
PipeClose(p) ==
    LET c == call[p].page
        r == pipe[c].readopen /\ call[p].writable
        w == pipe[c].writeopen /\ ~call[p].writable
    IN
    /\ At(p, "pipeclose")
    /\ pipe' = [pipe EXCEPT ![c].readopen = r, ![c].writeopen = w]
    /\ \/ LastEnd(r, w) /\ Goto(p, "kfree") /\ UNCHANGED <<call, ofile>>
       \/ ~LastEnd(r, w) /\ AfterClose(p)
    /\ UNCHANGED file

Kfree(p) ==
    /\ At(p, "kfree")
    /\ pipe' = [pipe EXCEPT ![call[p].page] = FreePage]
    /\ AfterClose(p)
    /\ UNCHANGED file

-----------------------------------------------------------------------------
(* sys_read and sys_write through an end of the right direction, for as    *)
(* long as the pipe has the process wait.                                  *)

SysIo(p, fd) ==
    LET f == ofile[p][fd] IN
    /\ At(p, "user") /\ fd \in Open(p)
    /\ Calls(p, [NoCall EXCEPT !.op = "io", !.page = file[f].page, !.writable = file[f].writable], "io")
    /\ UNCHANGED <<file, ofile, pipe>>

IoDone(p) == At(p, "io") /\ Return(p) /\ UNCHANGED <<file, ofile, pipe>>

Step(p) ==
    \/ SysPipe(p) \/ Exit(p)
    \/ \E fd \in FD : SysDup(p, fd) \/ SysClose(p, fd) \/ SysIo(p, fd)
    \/ \E q \in Process : Fork(p, q)
    \/ SecondFile(p) \/ Kalloc(p) \/ FdAlloc(p) \/ DupCount(p) \/ ForkFile(p) \/ ForkDone(p)
    \/ ExitFile(p) \/ ExitDone(p) \/ FileClose(p) \/ PipeClose(p) \/ Kfree(p) \/ IoDone(p)

Next == \E p \in Process : Step(p)

Spec == Init /\ [][Next]_vars
=============================================================================
