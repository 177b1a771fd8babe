----------------------------- MODULE PipeProps -----------------------------
(***************************************************************************)
(* What a pipe promises.                                                   *)
(***************************************************************************)
EXTENDS Pipe

Reading == {"piperead", "readsleep", "readwait"}
Writing == {"pipewrite", "writesleep", "writewait"}

(* The variables hold values of their types.                               *)
TypeOK ==
    /\ pipe \in [alloc : BOOLEAN, readopen : BOOLEAN, writeopen : BOOLEAN,
                 nread : 0 .. UINT - 1, nwrite : 0 .. UINT - 1,
                 data : [0 .. PIPESIZE - 1 -> Byte \cup {Junk}]]
    /\ lock \in Process \cup {None}
    /\ ends \in [Process -> SUBSET {"r", "w"}]
    /\ pc \in [Process -> {"unused", "user", "exit", "pipeclose", "kfree"} \cup Reading \cup Writing]
    /\ call \in [Process -> [bytes : Seq(Byte), n : Nat, end : {"r", "w", None}, exits : BOOLEAN]]
    /\ killed \in [Process -> BOOLEAN]

(* No pipe is used after its page has been freed, nor an end after it has  *)
(* been closed, though reads, writes and both closes run at once; and the  *)
(* page is freed by one process, with both ends closed (pipe.c:67).        *)
NoUseAfterClose ==
    \A p \in Process :
        /\ "r" \in ends[p] \/ pc[p] \in Reading => pipe.readopen
        /\ "w" \in ends[p] \/ pc[p] \in Writing => pipe.writeopen
        /\ At(p, "kfree") => /\ pipe.alloc /\ ~pipe.readopen /\ ~pipe.writeopen
                             /\ \A q \in Process \ {p} : ~At(q, "kfree") /\ ~At(q, "pipeclose")

(* No wakeup is lost with the end that it announces: who sleeps to write   *)
(* has no room and somebody may yet make some; who sleeps to read may yet  *)
(* get something.                                                          *)
NoLostWakeup ==
    \A p \in Process :
        /\ At(p, "writewait") => Full /\ pipe.readopen
        /\ At(p, "readwait") => pipe.writeopen

(* Bytes that are put in a pipe leave no reader asleep.  The exception is  *)
(* the code's: a killed writer that fills the pipe returns without wakeup  *)
(* (pipe.c:84-87), and the reader sleeps on until somebody else writes or  *)
(* closes.                                                                 *)
KilledWrite(q) == killed[q] /\ At(q, "pipewrite") /\ pc'[q] = "user" /\ Full'
BytesWakeReaders ==
    [][\A p \in Process : Empty /\ ~Empty' /\ At(p, "readwait") =>
            pc'[p] # "readwait" \/ \E q \in Process : KilledWrite(q)]_vars

(* The ends of a pipe are a bounded stream of bytes: those between the     *)
(* counters, and what each process has still to put or wants to take.      *)
Asks(p) == pc[p] \in Reading \cup Writing
Content == IF pipe.readopen \/ pipe.writeopen THEN Fetched(Held) ELSE <<>>
ToPut   == [p \in Process |-> IF Asks(p) THEN call[p].bytes ELSE <<>>]
ToTake  == [p \in Process |-> IF Asks(p) THEN call[p].n ELSE 0]
Stream  == INSTANCE ByteStream WITH
    Capacity <- PIPESIZE,
    content  <- Content,
    readers  <- pipe.readopen,
    writers  <- pipe.writeopen,
    put      <- ToPut,
    take     <- ToTake

ImplementsByteStream == Stream!Spec
=============================================================================
