------------------------------ MODULE BlockIO ------------------------------
(***************************************************************************)
(* The buffer cache and the disk driver of the xv6 kernel of p4 (bio.c,    *)
(* ide.c), as the file system (fs.c) uses them: bread, bwrite and brelse on*)
(* a few buffers that several processes share, the queue of requests, the  *)
(* drive and its interrupt.                                                *)
(*                                                                         *)
(* What bcache.lock or idelock makes atomic is one action; sleep() hands   *)
(* the lock over without a gap.  The drive obeys the commands it is given, *)
(* one at a time, and does not fail.                                       *)
(***************************************************************************)
EXTENDS Naturals, FiniteSets, SequencesExt

CONSTANTS
    Process,
    Buf,         \* bcache.buf
    Sector,
    Indirect,    \* sectors held while others are read: indirect blocks
    Data,        \* contents of a sector
    Zero,        \* the contents of memory that has not been used
    None         \* no sector, no buffer, no command, nothing to write

ASSUME BlockAssumption ==
    /\ IsFiniteSet(Buf) /\ Buf # {}
    /\ Indirect \subseteq Sector
    /\ Zero \in Data
    /\ None \notin Process \cup Buf \cup Sector \cup Data

VARIABLES
    buf,        \* each buffer: its sector, its flags and its data
    lru,        \* the list of buffers, the most recently used one first
    idequeue,   \* requests; the first is the drive's
    drive,      \* the command the drive has been given
    disk,       \* what the sectors hold
    pc,         \* where in bread, bwrite or iderw each process is
    want,       \* the sector it has asked for
    holds,      \* the buffers it has, the last of them in use
    asleep,     \* the buffer it sleeps on
    panicked    \* the kernel has called panic

cache   == <<buf, lru>>
driver  == <<idequeue, drive>>
process == <<pc, want, holds, asleep>>
vars    == <<cache, driver, disk, process, panicked>>

Buffer  == [sector : Sector \cup {None}, busy : BOOLEAN, valid : BOOLEAN, dirty : BOOLEAN, data : Data]
Command == [sector : Sector, write : Data \cup {None}, done : BOOLEAN]

ASSUME CommandAssumption == None \notin Command

(* binit: no buffer has a sector. *)
Empty == [sector |-> None, busy |-> FALSE, valid |-> FALSE, dirty |-> FALSE, data |-> Zero]

Init ==
    /\ disk \in [Sector -> Data]
    /\ buf = [b \in Buf |-> Empty] /\ lru = SetToSeq(Buf)
    /\ idequeue = <<>> /\ drive = None
    /\ pc = [p \in Process |-> "run"]
    /\ want = [p \in Process |-> None]
    /\ holds = [p \in Process |-> <<>>]
    /\ asleep = [p \in Process |-> None]
    /\ panicked = FALSE

Goto(p, point) == pc' = [pc EXCEPT ![p] = point]

Awake(p) == asleep[p] = None

\* Mutant: wakeup wakes one of those that sleep on b.
WokenOne(b) ==
    LET S == {p \in Process : asleep[p] = b}
    IN  IF S = {} THEN asleep ELSE [asleep EXCEPT ![CHOOSE p \in S : TRUE] = None]

(* wakeup(b) *)
Woken(b) == [p \in Process |-> IF asleep[p] = b THEN None ELSE asleep[p]]

-----------------------------------------------------------------------------
(* bget() *)

\* Mutant: a block is read with another one held, whatever the two are.
MayReadAny(p, s) == Len(holds[p]) < 2

(* bmap and itrunc hold an indirect block while they read others, in balloc*)
(* and bfree; nobody else reads a block with another one held.             *)
MayRead(p, s) ==
    \/ holds[p] = <<>>
    \/ Len(holds[p]) = 1 /\ buf[Last(holds[p])].sector \in Indirect /\ s \notin Indirect

Bread(p, s) ==
    /\ pc[p] = "run" /\ MayRead(p, s)
    /\ want' = [want EXCEPT ![p] = s]
    /\ Goto(p, "bget")
    /\ UNCHANGED <<cache, driver, disk, holds, asleep, panicked>>

\* Mutant: the first scan of bget passes over buffers that are B_BUSY.
CachedIdle(s) == {b \in Buf : buf[b].sector = s /\ ~buf[b].busy}

Cached(s) == {b \in Buf : buf[b].sector = s}

\* Mutant: the least recently used buffer is taken, B_BUSY or not.
IdleAny == 1 .. Len(lru)

Idle == {i \in 1 .. Len(lru) : ~buf[lru[i]].busy}

InBget(p) == pc[p] = "bget" /\ Awake(p)

Got(p, b, r) ==
    /\ buf' = [buf EXCEPT ![b] = r]
    /\ holds' = [holds EXCEPT ![p] = Append(@, b)]
    /\ Goto(p, "bread")
    /\ UNCHANGED <<lru, driver, disk, want, asleep, panicked>>

BgetHit(p) ==
    /\ InBget(p)
    /\ \E b \in Cached(want[p]) : ~buf[b].busy /\ Got(p, b, [buf[b] EXCEPT !.busy = TRUE])

(* Asleep on b; when it wakes, b may be that of another sector: it scans   *)
(* the list again.                                                         *)
BgetSleep(p) ==
    /\ InBget(p)
    /\ \E b \in Cached(want[p]) : buf[b].busy /\ asleep' = [asleep EXCEPT ![p] = b]
    /\ UNCHANGED <<cache, driver, disk, pc, want, holds, panicked>>

\* Mutant: b->flags |= B_BUSY.
RecycledValid(b, s) == [buf[b] EXCEPT !.sector = s, !.busy = TRUE]

(* b->flags = B_BUSY: what is in the buffer belongs to its old sector. *)
Recycled(b, s) == [buf[b] EXCEPT !.sector = s, !.busy = TRUE, !.valid = FALSE, !.dirty = FALSE]

BgetFresh(p) ==
    /\ InBget(p) /\ Cached(want[p]) = {}
    /\ \E i \in Idle :
         /\ \A j \in Idle : j <= i
         /\ Got(p, lru[i], Recycled(lru[i], want[p]))

BgetPanic(p) ==
    /\ InBget(p) /\ Cached(want[p]) = {} /\ Idle = {}
    /\ panicked' = TRUE
    /\ UNCHANGED <<cache, driver, disk, process>>

-----------------------------------------------------------------------------
(* bread(), bwrite(), brelse() and iderw(). *)

InUse(p) == Last(holds[p])

BreadValid(p) ==
    /\ pc[p] = "bread" /\ buf[InUse(p)].valid
    /\ Goto(p, "run")
    /\ UNCHANGED <<cache, driver, disk, want, holds, asleep, panicked>>

(* idestart: a write takes the data with it. *)
Start(b, r) ==
    [sector |-> r.sector, write |-> IF r.dirty THEN r.data ELSE None, done |-> FALSE]

(* iderw for the buffer of p, which is r now: p sleeps until it is done. *)
Iderw(p, r) ==
    LET b == InUse(p)
    IN  /\ buf' = [buf EXCEPT ![b] = r]
        /\ idequeue' = Append(idequeue, b)
        /\ drive' = IF idequeue = <<>> THEN Start(b, r) ELSE drive
        /\ asleep' = [asleep EXCEPT ![p] = b]
        /\ Goto(p, "iderw")
        /\ UNCHANGED <<lru, disk, want, holds, panicked>>

BreadMiss(p) == pc[p] = "bread" /\ ~buf[InUse(p)].valid /\ Iderw(p, buf[InUse(p)])

Bwrite(p, d) ==
    /\ pc[p] = "run" /\ holds[p] # <<>>
    /\ Iderw(p, [buf[InUse(p)] EXCEPT !.data = d, !.dirty = TRUE])

Transferred(b) == buf[b].valid /\ ~buf[b].dirty

(* Its sleep over, p looks at the flags again. *)
IderwDone(p) ==
    /\ pc[p] = "iderw" /\ Awake(p) /\ Transferred(InUse(p))
    /\ Goto(p, "run")
    /\ UNCHANGED <<cache, driver, disk, want, holds, asleep, panicked>>

IderwSleep(p) ==
    /\ pc[p] = "iderw" /\ Awake(p) /\ ~Transferred(InUse(p))
    /\ asleep' = [asleep EXCEPT ![p] = InUse(p)]
    /\ UNCHANGED <<cache, driver, disk, pc, want, holds, panicked>>

Moved(b) == <<b>> \o RemoveAt(lru, CHOOSE i \in 1 .. Len(lru) : lru[i] = b)

Brelse(p) ==
    /\ pc[p] = "run" /\ holds[p] # <<>>
    /\ lru' = Moved(InUse(p))
    /\ buf' = [buf EXCEPT ![InUse(p)].busy = FALSE]
    /\ asleep' = Woken(InUse(p))
    /\ holds' = [holds EXCEPT ![p] = Front(@)]
    /\ UNCHANGED <<driver, disk, pc, want, panicked>>

(* kill() makes a sleeper run; bget and iderw then look again. *)
Kick(p) ==
    /\ ~Awake(p)
    /\ asleep' = [asleep EXCEPT ![p] = None]
    /\ UNCHANGED <<cache, driver, disk, pc, want, holds, panicked>>

-----------------------------------------------------------------------------
(* The drive and its interrupt. *)

DriveWorks ==
    /\ drive # None /\ ~drive.done
    /\ drive' = [drive EXCEPT !.done = TRUE]
    /\ disk' = IF drive.write = None THEN disk ELSE [disk EXCEPT ![drive.sector] = drive.write]
    /\ UNCHANGED <<cache, idequeue, process, panicked>>

\* Mutant: ideintr starts the next request only if nothing was read.
NextAfterWrite(queue) ==
    IF queue = <<>> \/ drive.write = None THEN None ELSE Start(Head(queue), buf[Head(queue)])

(* The command for the request that is first in what is left of the queue. *)
NextCommand(queue) == IF queue = <<>> THEN None ELSE Start(Head(queue), buf[Head(queue)])

Ideintr ==
    /\ drive # None /\ drive.done
    /\ LET b == Head(idequeue)
       IN  /\ buf' = [buf EXCEPT ![b].valid = TRUE, ![b].dirty = FALSE,
                                 ![b].data = IF buf[b].dirty THEN @ ELSE disk[drive.sector]]
           /\ asleep' = Woken(b)
    /\ idequeue' = Tail(idequeue)
    /\ drive' = NextCommand(Tail(idequeue))
    /\ UNCHANGED <<lru, disk, pc, want, holds, panicked>>

(* The machine stops, or is stopped after a panic, and starts again. *)
Reboot ==
    /\ buf' = [b \in Buf |-> Empty] /\ lru' = SetToSeq(Buf)
    /\ idequeue' = <<>> /\ drive' = None
    /\ pc' = [p \in Process |-> "run"]
    /\ want' = [p \in Process |-> None]
    /\ holds' = [p \in Process |-> <<>>]
    /\ asleep' = [p \in Process |-> None]
    /\ panicked' = FALSE
    /\ UNCHANGED disk

-----------------------------------------------------------------------------
Bget(p) == BgetHit(p) \/ BgetSleep(p) \/ BgetFresh(p) \/ BgetPanic(p)
Ide(p)  == BreadValid(p) \/ BreadMiss(p) \/ IderwDone(p) \/ IderwSleep(p)

Next ==
    \/ /\ ~panicked
       /\ \/ \E p \in Process :
                \/ \E s \in Sector : Bread(p, s)
                \/ \E d \in Data : Bwrite(p, d)
                \/ Bget(p) \/ Ide(p) \/ Brelse(p) \/ Kick(p)
          \/ DriveWorks \/ Ideintr
    \/ Reboot

Spec == Init /\ [][Next]_vars

(* The drive and its interrupt come to an end; a process that is awake in  *)
(* the kernel goes on.  Nothing obliges a process to read or to write.     *)
Fairness ==
    /\ WF_vars(~panicked /\ DriveWorks) /\ WF_vars(~panicked /\ Ideintr)
    /\ \A p \in Process : WF_vars(~panicked /\ Ide(p))

FairSpec == Spec /\ Fairness
=============================================================================
