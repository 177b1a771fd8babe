-------------------------------- MODULE Pipe --------------------------------
(***************************************************************************)
(* A pipe of the xv6 kernel of p4 (pipe.c) and the processes that have its *)
(* ends: they read and write, fork, close, exit and are killed, until the  *)
(* last end is closed and the page of the pipe is free for the next one.   *)
(*                                                                         *)
(* What the lock of the pipe makes atomic is one action.  The lock is a    *)
(* variable because sleep() takes it along until it has ptable.lock, and   *)
(* kill(), which takes only the latter, comes between.  Which files the    *)
(* ends are, and how they are counted, is left to FileTable.               *)
(***************************************************************************)
EXTENDS Naturals, FiniteSets, Sequences

CONSTANTS
    Process, initproc,
    PIPESIZE,   \* bytes a pipe holds
    UINT,       \* the counters of a pipe are modulo UINT
    Byte,
    Junk,       \* what is in the page where nothing has been written
    Buffers,    \* what a process may write in one call
    Counts,     \* how much a process may ask for in one read
    None        \* no process, no end

ASSUME PipeAssumption ==
    /\ initproc \in Process /\ None \notin Process
    /\ PIPESIZE \in Nat \ {0}
    /\ UINT \in Nat /\ UINT > PIPESIZE /\ UINT % PIPESIZE = 0
    /\ Junk \notin Byte
    /\ Buffers \subseteq Seq(Byte) \ {<<>>}
    /\ Counts \subseteq Nat \ {0}

VARIABLES
    pipe,       \* the page
    lock,       \* who keeps its lock from one action to the next
    ends,       \* the ends each process has open
    pc, call,   \* where each process is, and its call
    killed

vars == <<pipe, lock, ends, pc, call, killed>>

FreePage == [alloc |-> FALSE, readopen |-> FALSE, writeopen |-> FALSE, nread |-> 0, nwrite |-> 0,
             data |-> [i \in 0 .. PIPESIZE - 1 |-> Junk]]

(* The bytes still to be written, or their number to be read; the end that *)
(* is being closed, and whether exit closes it.                            *)
NoCall == [bytes |-> <<>>, n |-> 0, end |-> None, exits |-> FALSE]

Init ==
    /\ pipe = FreePage /\ lock = None
    /\ ends = [p \in Process |-> {}]
    /\ pc = [p \in Process |-> IF p = initproc THEN "user" ELSE "unused"]
    /\ call = [p \in Process |-> NoCall]
    /\ killed = [p \in Process |-> FALSE]

-----------------------------------------------------------------------------
(* Steps of a process.  Who has been killed makes no call, but exits.      *)

At(p, l)  == pc[p] = l
User(p)   == At(p, "user") /\ ~killed[p]
Goto(p, l) == pc' = [pc EXCEPT ![p] = l]
Calls(p, c, l) == call' = [call EXCEPT ![p] = c] /\ Goto(p, l)
Return(p) == Calls(p, NoCall, "user")

(* wakeup(&p->nread) and wakeup(&p->nwrite): who sleeps there runs, and    *)
(* takes the lock of the pipe again.                                       *)
NobodyWoken == pc   \* a mutant

WokenReaders == [q \in Process |-> IF At(q, "readwait") THEN "piperead" ELSE pc[q]]
WokenWriters == [q \in Process |-> IF At(q, "writewait") THEN "pipewrite" ELSE pc[q]]

(* pipealloc: nothing of the page but its counters and flags is written.   *)
NewPipe == [FreePage EXCEPT !.alloc = TRUE, !.readopen = TRUE, !.writeopen = TRUE]

SysPipe(p) ==
    /\ User(p) /\ ~pipe.alloc
    /\ pipe' = NewPipe
    /\ ends' = [ends EXCEPT ![p] = {"r", "w"}]
    /\ UNCHANGED <<lock, pc, call, killed>>

Fork(p, q) ==
    /\ User(p) /\ At(q, "unused")
    /\ ends' = [ends EXCEPT ![q] = ends[p]]
    /\ Goto(q, "user")
    /\ UNCHANGED <<pipe, lock, call, killed>>

-----------------------------------------------------------------------------
(* fileclose and pipeclose: who drops the last reference to an end closes  *)
(* it and wakes the other end; the page goes with the second end.          *)

AfterClose(p, pcs) ==
    /\ pc' = [pcs EXCEPT ![p] = IF call[p].exits THEN "exit" ELSE "user"]
    /\ call' = [call EXCEPT ![p].end = None]

FileClose(p, e, exits) ==
    /\ e \in ends[p]
    /\ ends' = [ends EXCEPT ![p] = @ \ {e}]
    /\ IF \E q \in Process \ {p} : e \in ends[q]
       THEN UNCHANGED <<pc, call>>
       ELSE Calls(p, [NoCall EXCEPT !.end = e, !.exits = exits], "pipeclose")
    /\ UNCHANGED <<pipe, lock, killed>>

SysClose(p, e) == User(p) /\ FileClose(p, e, FALSE)

Exit(p) ==
    /\ At(p, "user") /\ p # initproc
    /\ Calls(p, [NoCall EXCEPT !.exits = TRUE], "exit")
    /\ UNCHANGED <<pipe, lock, ends, killed>>

ExitFile(p, e) == At(p, "exit") /\ FileClose(p, e, TRUE)

(* A zombie, which wait() makes unused. *)
ExitDone(p) ==
    /\ At(p, "exit") /\ ends[p] = {}
    /\ Calls(p, NoCall, "unused")
    /\ killed' = [killed EXCEPT ![p] = FALSE]
    /\ UNCHANGED <<pipe, lock, ends>>

\* Mutant: the page goes with the first of its ends.
AnyEnd(r, w) == ~r \/ ~w

LastEnd(r, w) == ~r /\ ~w

PipeClose(p) ==
    LET r     == pipe.readopen /\ call[p].end # "r"
        w     == pipe.writeopen /\ call[p].end # "w"
        woken == IF call[p].end = "w" THEN WokenReaders ELSE WokenWriters
    IN
    /\ At(p, "pipeclose") /\ lock = None
    /\ pipe' = [pipe EXCEPT !.readopen = r, !.writeopen = w]
    /\ \/ LastEnd(r, w) /\ pc' = [woken EXCEPT ![p] = "kfree"] /\ UNCHANGED call
       \/ ~LastEnd(r, w) /\ AfterClose(p, woken)
    /\ UNCHANGED <<lock, ends, killed>>

Kfree(p) ==
    /\ At(p, "kfree")
    /\ pipe' = FreePage
    /\ AfterClose(p, pc)
    /\ UNCHANGED <<lock, ends, killed>>

-----------------------------------------------------------------------------
(* piperead and pipewrite.                                                 *)

Held  == (pipe.nwrite + UINT - pipe.nread) % UINT
Empty == pipe.nread = pipe.nwrite
Full  == pipe.nwrite = (pipe.nread + PIPESIZE) % UINT

Advanced(at, k) == (at + k) % UINT

Smaller(m, n) == IF m < n THEN m ELSE n

(* The bytes from position at on, in a ring of PIPESIZE bytes.             *)
Slot(at)          == (at % UINT) % PIPESIZE
Fetched(n)        == [i \in 1 .. n |-> pipe.data[Slot(pipe.nread + i - 1)]]
Stored(d, at, bs) == [s \in DOMAIN d |->
                        IF \E i \in 1 .. Len(bs) : Slot(at + i - 1) = s
                        THEN bs[CHOOSE i \in 1 .. Len(bs) : Slot(at + i - 1) = s]
                        ELSE d[s]]

SysRead(p, n) ==
    /\ User(p) /\ "r" \in ends[p]
    /\ Calls(p, [NoCall EXCEPT !.n = n], "piperead")
    /\ UNCHANGED <<pipe, lock, ends, killed>>

SysWrite(p, bs) ==
    /\ User(p) /\ "w" \in ends[p]
    /\ Calls(p, [NoCall EXCEPT !.bytes = bs], "pipewrite")
    /\ UNCHANGED <<pipe, lock, ends, killed>>

(* piperead waits while the pipe is empty and may yet be written.          *)
MustWait == Empty /\ pipe.writeopen

(* The bytes that have been read are not looked at again: they are junk.   *)
PipeRead(p) ==
    LET k == Smaller(call[p].n, Held) IN
    /\ At(p, "piperead") /\ lock = None
    /\ \/ /\ MustWait /\ killed[p]
          /\ Return(p)
          /\ UNCHANGED <<pipe, lock>>
       \/ /\ MustWait /\ ~killed[p]
          /\ lock' = p /\ Goto(p, "readsleep")
          /\ UNCHANGED <<pipe, call>>
       \/ /\ ~MustWait
          /\ pipe' = [pipe EXCEPT !.nread = Advanced(@, k),
                                  !.data = Stored(@, pipe.nread, [i \in 1 .. k |-> Junk])]
          /\ pc' = [WokenWriters EXCEPT ![p] = "user"]
          /\ call' = [call EXCEPT ![p] = NoCall]
          /\ UNCHANGED lock
    /\ UNCHANGED <<ends, killed>>

\* Mutant: one byte too many.
RoomAndOne == PIPESIZE + 1 - Held

Room == PIPESIZE - Held

(* pipewrite fills the pipe as far as it goes.  When there is more to write*)
(* it gives up, and wakes nobody, if nobody can read or the process is     *)
(* killed; else it wakes the readers and sleeps.                           *)
PipeWrite(p) ==
    LET bs   == call[p].bytes
        k    == Smaller(Len(bs), Room)
        rest == SubSeq(bs, k + 1, Len(bs))
    IN
    /\ At(p, "pipewrite") /\ lock = None
    /\ pipe' = [pipe EXCEPT !.nwrite = Advanced(@, k),
                            !.data = Stored(@, pipe.nwrite, SubSeq(bs, 1, k))]
    /\ \/ /\ rest = <<>>
          /\ pc' = [WokenReaders EXCEPT ![p] = "user"]
          /\ call' = [call EXCEPT ![p] = NoCall]
          /\ UNCHANGED lock
       \/ /\ rest # <<>> /\ (~pipe.readopen \/ killed[p])
          /\ Return(p)
          /\ UNCHANGED lock
       \/ /\ rest # <<>> /\ pipe.readopen /\ ~killed[p]
          /\ lock' = p
          /\ pc' = [WokenReaders EXCEPT ![p] = "writesleep"]
          /\ call' = [call EXCEPT ![p].bytes = rest]
    /\ UNCHANGED <<ends, killed>>

(* sleep: ptable.lock is taken, the lock of the pipe released.             *)
Sleep(p) ==
    /\ At(p, "readsleep") \/ At(p, "writesleep")
    /\ Goto(p, IF At(p, "readsleep") THEN "readwait" ELSE "writewait")
    /\ lock' = None
    /\ UNCHANGED <<pipe, ends, call, killed>>

-----------------------------------------------------------------------------
(* kill sets the flag and ends the sleep of who sleeps.                    *)

Kicked(q) ==
    CASE At(q, "readwait")  -> "piperead"
      [] At(q, "writewait") -> "pipewrite"
      [] OTHER              -> pc[q]

Kill(p, q) ==
    /\ User(p) /\ q # initproc /\ ~At(q, "unused")
    /\ killed' = [killed EXCEPT ![q] = TRUE]
    /\ Goto(q, Kicked(q))
    /\ UNCHANGED <<pipe, lock, ends, call>>

Step(p) ==
    \/ SysPipe(p) \/ Exit(p)
    \/ \E q \in Process : Fork(p, q) \/ Kill(p, q)
    \/ \E e \in {"r", "w"} : SysClose(p, e)
    \/ \E n \in Counts : SysRead(p, n)
    \/ \E bs \in Buffers : SysWrite(p, bs)
    \/ \E e \in {"r", "w"} : ExitFile(p, e)
    \/ ExitDone(p) \/ PipeClose(p) \/ Kfree(p)
    \/ PipeRead(p) \/ PipeWrite(p) \/ Sleep(p)

Next == \E p \in Process : Step(p)

Spec == Init /\ [][Next]_vars
=============================================================================
