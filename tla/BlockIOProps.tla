---------------------------- MODULE BlockIOProps ----------------------------
(***************************************************************************)
(* What the buffer cache and the disk driver of BlockIO promise.           *)
(***************************************************************************)
EXTENDS BlockIO

Points == {"run", "bget", "bread", "iderw"}

(* The variables hold values of their types; the list of buffers has each  *)
(* buffer once.                                                            *)
TypeOK ==
    /\ buf \in [Buf -> Buffer]
    /\ lru \in Seq(Buf) /\ IsInjective(lru) /\ ToSet(lru) = Buf
    /\ idequeue \in Seq(Buf)
    /\ drive \in Command \cup {None}
    /\ disk \in [Sector -> Data]
    /\ pc \in [Process -> Points]
    /\ want \in [Process -> Sector \cup {None}]
    /\ holds \in [Process -> Seq(Buf)]
    /\ asleep \in [Process -> Buf \cup {None}]
    /\ panicked \in BOOLEAN

(* A sector is cached once, whatever happens to a buffer while processes   *)
(* that want its sector sleep on it (bio.c:77-78).                         *)
OneBufferPerSector ==
    \A b, c \in Buf : buf[b].sector = buf[c].sector /\ buf[b].sector # None => b = c

(* "Only one process at a time can use a buffer" (bio.c:13), and a buffer  *)
(* that is B_BUSY is used by somebody.                                     *)
OneUser ==
    \A b \in Buf : buf[b].busy <=>
        \E p \in Process : /\ b \in ToSet(holds[p])
                           /\ IsInjective(holds[p])
                           /\ \A q \in Process : b \in ToSet(holds[q]) => q = p

(* No wakeup is lost: who sleeps in bget sleeps on a buffer that has yet to*)
(* be released, who sleeps in iderw on one that the drive has yet to serve.*)
NoLostWakeup ==
    \A p \in Process : ~Awake(p) =>
        /\ pc[p] = "bget" => buf[asleep[p]].busy
        /\ pc[p] = "iderw" => asleep[p] \in ToSet(idequeue)

(* Not all sleep for each other: if everyone who has called the block layer*)
(* is asleep, the drive is at work for one of them (fs.c:332-340 reads     *)
(* blocks while it holds another).                                         *)
SomebodyMoves ==
    LET Inside == {p \in Process : pc[p] # "run" \/ holds[p] # <<>>}
    IN  Inside # {} /\ (\A p \in Inside : ~Awake(p)) => drive # None

(* Every transfer ends: ide.c:148 "Assuming will not sleep too long".      *)
TransfersEnd == \A p \in Process : pc[p] = "iderw" ~> pc[p] = "run" \/ panicked

-----------------------------------------------------------------------------
(* The process that has a buffer of the sector, and that buffer. *)
Users(s) == {p \in Process : \E b \in ToSet(holds[p]) : buf[b].sector = s}

UserOf(s) == IF Users(s) = {} THEN None ELSE CHOOSE p \in Users(s) : TRUE

BufferOf(s) == CHOOSE b \in Buf : buf[b].sector = s

SeenOf(s) == IF Users(s) # {} /\ Transferred(BufferOf(s)) THEN buf[BufferOf(s)].data ELSE None

WritingOf(s) == IF Users(s) # {} /\ buf[BufferOf(s)].dirty THEN buf[BufferOf(s)].data ELSE None

Store == INSTANCE SectorStore WITH
    store   <- disk,
    user    <- [s \in Sector |-> UserOf(s)],
    seen    <- [s \in Sector |-> SeenOf(s)],
    writing <- [s \in Sector |-> WritingOf(s)]

(* Cache and driver implement the store: a process sees the last contents  *)
(* of the sector it asked for and nobody else has it meanwhile; a write it *)
(* was told of is on the disk, whenever the machine stops.                 *)
ImplementsSectorStore == Store!Spec
=============================================================================
