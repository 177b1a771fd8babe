-------------------------------- MODULE Proc --------------------------------
(***************************************************************************)
(* The process table of the xv6 kernel of p4 (kernel/proc.c, with the parts*)
(* of exec.c, trap.c, sysproc.c, vm.c and kalloc.c that act on it):        *)
(* processes, the threads that clone() makes and join() collects, sleeping *)
(* and waking, killing, and the pages a process owns.                      *)
(*                                                                         *)
(* ptable.lock makes the bodies of wait, join, exit, kill, wakeup, yield   *)
(* and of the first half of allocproc atomic: each is one action.  What    *)
(* the kernel does without the lock is an action of its own (the rest of   *)
(* fork and clone, the page-table half of growproc, sys_sleep's test).     *)
(* A process acts only while RUNNING on one of NCPU processors, and a timer*)
(* interrupt may take the processor away wherever interrupts are on.       *)
(***************************************************************************)
EXTENDS Naturals, FiniteSets

CONSTANTS
    NPROC,       \* slots of the process table
    NCPU,        \* processors
    NPages,      \* pages kalloc can give for kernel stacks and page directories
    MaxSz,       \* bound: pages of an address space
    MaxPid,      \* bound: processes ever created, the first one included
    Calls,       \* the system calls that programs make
    KillPids,    \* the pids that programs pass to kill
    JoinFirst,   \* programs join their threads before they exit or exec
    None         \* a null pointer

CallNames == {"fork", "clone", "badclone", "exit", "wait", "join", "exec",
              "kill", "sbrk", "sleep"}

ASSUME ProcAssumption ==
    /\ NPROC \in Nat \ {0} /\ NCPU \in Nat \ {0}
    /\ MaxSz \in Nat \ {0} /\ MaxPid \in Nat \ {0}
    /\ NPages \in Nat /\ NPages >= 2
    /\ Calls \subseteq CallNames
    /\ KillPids \subseteq Nat
    /\ JoinFirst \in BOOLEAN
    /\ None \notin Nat

Slot == 1 .. NPROC

Page == 1 .. NPages

(* initproc: userinit runs first and gets the first slot and pid 1. *)
InitProc == 1

(* The channel of sys_sleep, &ticks; a process sleeps in wait and join on  *)
(* the address of its own slot.                                            *)
Ticks == 0

VARIABLES
    ptable,      \* ptable.proc
    nextpid,
    freelist,    \* kmem.freelist
    lost,        \* the pages setupkvm got, and returned 0 without giving back
    mapped,      \* the user pages mapped in each page directory
    pc,          \* where in the kernel each process is
    np,          \* the slot fork or clone has allocated
    newsz,       \* growproc's local variable sz, copyuvm's argument sz
    panicked     \* the kernel has called panic

vars == <<ptable, nextpid, freelist, lost, mapped, pc, np, newsz, panicked>>
memory == <<freelist, lost, mapped>>
locals == <<np, newsz>>

States == {"UNUSED", "EMBRYO", "SLEEPING", "RUNNABLE", "RUNNING", "ZOMBIE"}
Points == {"user", "fork", "copy", "clone", "badclone", "wait", "join", "sleep", "sleepSpin", "sleepNow", "grow"}

ProcRecord ==
    [state: States, pid: Nat, parent: Slot \cup {None}, pgdir: Page \cup {None},
     kstack: Page \cup {None}, chan: Slot \cup {Ticks, None}, killed: BOOLEAN,
     sz: Nat]

(* The variables hold values of their types. *)
TypeOK ==
    /\ ptable \in [Slot -> ProcRecord]
    /\ nextpid \in Nat
    /\ freelist \in SUBSET Page /\ lost \in SUBSET Page
    /\ mapped \in [Page -> SUBSET (1 .. MaxSz)]
    /\ pc \in [Slot -> Points]
    /\ np \in [Slot -> Slot \cup {None}]
    /\ newsz \in [Slot -> Nat]
    /\ panicked \in BOOLEAN

Unused == [state |-> "UNUSED", pid |-> 0, parent |-> None, pgdir |-> None,
           kstack |-> None, chan |-> None, killed |-> FALSE, sz |-> 0]

(* userinit has made the first process: one page of memory, RUNNABLE. *)
Init ==
    /\ ptable = [p \in Slot |->
          IF p = InitProc
          THEN [Unused EXCEPT !.state = "RUNNABLE", !.pid = 1,
                              !.kstack = 1, !.pgdir = 2, !.sz = 1]
          ELSE Unused]
    /\ freelist = Page \ {1, 2} /\ lost = {}
    /\ mapped = [g \in Page |-> IF g = 2 THEN {1} ELSE {}]
    /\ nextpid = 2
    /\ pc = [p \in Slot |-> "user"]
    /\ np = [p \in Slot |-> None]
    /\ newsz = [p \in Slot |-> 0]
    /\ panicked = FALSE

-----------------------------------------------------------------------------
(* The scheduler. *)

InState(s) == {p \in Slot : ptable[p].state = s}

Running(p) == ptable[p].state = "RUNNING"

(* An action that writes the fields of one slot. *)
Update(p, r) == ptable' = [ptable EXCEPT ![p] = r]

(* A process that runs again returns from sched(); if that was in sleep(), *)
(* it clears its channel.                                                  *)
Schedule(p) ==
    /\ ptable[p].state = "RUNNABLE"
    /\ Cardinality(InState("RUNNING")) < NCPU
    /\ Update(p, [ptable[p] EXCEPT !.state = "RUNNING", !.chan = None])
    /\ UNCHANGED <<nextpid, memory, pc, locals, panicked>>

(* A timer interrupt: held off while sys_sleep spins for tickslock or has it. *)
Yield(p) ==
    /\ Running(p) /\ pc[p] \notin {"sleepSpin", "sleepNow"}
    /\ Update(p, [ptable[p] EXCEPT !.state = "RUNNABLE"])
    /\ UNCHANGED <<nextpid, memory, pc, locals, panicked>>

(* trap() lets a process into a system call only if it has not been killed.*)
(* Its code, the first page, must be mapped.  The first process only forks *)
(* a shell and waits.                                                      *)
Syscall(p, call) ==
    /\ Running(p) /\ pc[p] = "user" /\ ~ptable[p].killed
    /\ 1 \in mapped[ptable[p].pgdir]
    /\ call \in Calls
    /\ p = InitProc => call \in {"fork", "wait"}

(* A process whose code is not mapped traps, and trap() kills it. *)
Fault(p) ==
    /\ Running(p) /\ pc[p] = "user" /\ ~ptable[p].killed
    /\ 1 \notin mapped[ptable[p].pgdir]
    /\ Update(p, [ptable[p] EXCEPT !.killed = TRUE])
    /\ UNCHANGED <<nextpid, memory, pc, locals, panicked>>

First(S) == CHOOSE p \in S : \A q \in S : p <= q

(* The page kalloc gives.  Its list is last in, first out; the lowest page *)
(* stands for any, since nothing but the identity of a page matters here.  *)
Kalloc(free) == First(free)

Wakeup1(table, ch) ==
    [q \in Slot |->
        IF table[q].state = "SLEEPING" /\ table[q].chan = ch
        THEN [table[q] EXCEPT !.state = "RUNNABLE"]
        ELSE table[q]]

Goto(p, point) == pc' = [pc EXCEPT ![p] = point]

-----------------------------------------------------------------------------
(* fork() and clone(). *)

\* Mutant: allocproc does not mark the slot before it releases ptable.lock.
AllocUnmarked(p) ==
    /\ InState("UNUSED") # {} /\ nextpid <= MaxPid
    /\ LET q == First(InState("UNUSED"))
       IN  /\ Update(q, [ptable[q] EXCEPT !.pid = nextpid])
           /\ np' = [np EXCEPT ![p] = q]
    /\ nextpid' = nextpid + 1
    /\ UNCHANGED <<memory, newsz, panicked>>

(* allocproc up to the release of ptable.lock; with no UNUSED slot it      *)
(* returns 0 and nothing has changed.                                      *)
AllocSlot(p) ==
    /\ InState("UNUSED") # {} /\ nextpid <= MaxPid
    /\ LET q == First(InState("UNUSED"))
       IN  /\ Update(q, [ptable[q] EXCEPT !.state = "EMBRYO", !.pid = nextpid])
           /\ np' = [np EXCEPT ![p] = q]
    /\ nextpid' = nextpid + 1
    /\ UNCHANGED <<memory, newsz, panicked>>

ForkStart(p)  == Syscall(p, "fork") /\ AllocSlot(p) /\ Goto(p, "fork")
CloneStart(p) == Syscall(p, "clone") /\ AllocSlot(p) /\ Goto(p, "clone")
BadCloneStart(p) == Syscall(p, "badclone") /\ AllocSlot(p) /\ Goto(p, "badclone")

BackToUser(p) == Goto(p, "user") /\ np' = [np EXCEPT ![p] = None]

(* kalloc has no page for the kernel stack: allocproc gives the slot back. *)
NoStack(p) ==
    /\ Running(p) /\ pc[p] \in {"fork", "clone", "badclone"} /\ freelist = {}
    /\ Update(np[p], [ptable[np[p]] EXCEPT !.state = "UNUSED", !.kstack = None])
    /\ BackToUser(p)
    /\ UNCHANGED <<nextpid, memory, newsz, panicked>>

(* fork passes its sz to copyuvm. *)
ForkSize(p) ==
    /\ Running(p) /\ pc[p] = "fork" /\ Goto(p, "copy")
    /\ newsz' = [newsz EXCEPT ![p] = ptable[p].sz]
    /\ UNCHANGED <<ptable, nextpid, memory, np, panicked>>

\* Mutant: a fork that fails does not give back the kernel stack.
ForkKeepsStack(p) ==
    /\ Running(p) /\ pc[p] = "copy" /\ freelist # {}
    /\ Update(np[p], [ptable[np[p]] EXCEPT !.state = "UNUSED", !.kstack = None])
    /\ BackToUser(p)
    /\ freelist' = freelist \ {Kalloc(freelist)}
    /\ UNCHANGED <<nextpid, lost, mapped, newsz, panicked>>

(* kalloc has no page for the page directory, or none for a user page, of  *)
(* which freevm gives back those there were: fork gives back the kernel    *)
(* stack and the slot.                                                     *)
ForkFail(p) ==
    /\ Running(p) /\ pc[p] = "copy"
    /\ Update(np[p], [ptable[np[p]] EXCEPT !.state = "UNUSED", !.kstack = None])
    /\ BackToUser(p)
    /\ UNCHANGED <<nextpid, memory, newsz, panicked>>

(* setupkvm has a page directory and gets no page for a table of it: it    *)
(* returns 0 and forgets what it has.                                      *)
Lose(pd) == freelist' = freelist \ {pd} /\ lost' = lost \cup {pd}

ForkLeak(p) ==
    /\ Running(p) /\ pc[p] = "copy" /\ Cardinality(freelist) >= 2
    /\ Lose(Kalloc(freelist \ {Kalloc(freelist)}))
    /\ Update(np[p], [ptable[np[p]] EXCEPT !.state = "UNUSED", !.kstack = None])
    /\ BackToUser(p)
    /\ UNCHANGED <<nextpid, mapped, newsz, panicked>>

(* copyuvm copies every page below the sz it was given and panics if one is*)
(* not mapped; fork reads the caller's sz once more for the child.         *)
Fork(p) ==
    /\ Running(p) /\ pc[p] = "copy"
    /\ Cardinality(freelist) >= 2
    /\ 1 .. newsz[p] \subseteq mapped[ptable[p].pgdir]
    /\ LET ks == Kalloc(freelist)
           pd == Kalloc(freelist \ {ks})
       IN
         /\ freelist' = freelist \ {ks, pd}
         /\ mapped' = [mapped EXCEPT ![pd] = 1 .. newsz[p]]
         /\ Update(np[p], [ptable[np[p]] EXCEPT
              !.state = "RUNNABLE", !.parent = p, !.pgdir = pd, !.kstack = ks,
              !.sz = ptable[p].sz])
    /\ BackToUser(p)
    /\ UNCHANGED <<nextpid, lost, newsz, panicked>>

ForkPanic(p) ==
    /\ Running(p) /\ pc[p] = "copy" /\ Cardinality(freelist) >= 2
    /\ ~ (1 .. newsz[p] \subseteq mapped[ptable[p].pgdir])
    /\ panicked' = TRUE
    /\ UNCHANGED <<ptable, nextpid, memory, pc, locals>>

(* clone: the new thread shares the page directory of its creator.  A bad  *)
(* stack argument is found only after np has been filled in, and clone then*)
(* returns without giving np back: the slot stays an EMBRYO.               *)
CloneWith(p, state) ==
    /\ Running(p) /\ freelist # {}
    /\ LET ks == Kalloc(freelist)
       IN
         /\ freelist' = freelist \ {ks}
         /\ Update(np[p], [ptable[np[p]] EXCEPT
              !.state = state, !.parent = p, !.pgdir = ptable[p].pgdir,
              !.kstack = ks, !.sz = ptable[p].sz])
    /\ BackToUser(p)
    /\ UNCHANGED <<nextpid, lost, mapped, newsz, panicked>>

Clone(p)    == pc[p] = "clone" /\ CloneWith(p, "RUNNABLE")
BadClone(p) == pc[p] = "badclone" /\ CloneWith(p, "EMBRYO")

-----------------------------------------------------------------------------
(* exit(), wait() and join(). *)

Children(p) == {q \in Slot : ptable[q].parent = p}

(* A child with the caller's page directory is a thread, for join; any     *)
(* other child is a process, for wait.                                     *)
Threads(p)   == {q \in Children(p) : ptable[q].pgdir = ptable[p].pgdir}
\* Mutant: wait collects threads as well.
AllChildren(p) == Children(p)
Processes(p) == {q \in Children(p) : ptable[q].pgdir # ptable[p].pgdir}

Zombies(S) == {q \in S : ptable[q].state = "ZOMBIE"}

\* Mutant: exit does not wake the parent.
ParentUntold(p) == ptable

TellParent(p) == Wakeup1(ptable, ptable[p].parent)

\* Mutant: exit forgets its children.
GiveToNobody(p, table) == table

(* exit passes the abandoned children to init, and wakes init if one of    *)
(* them is a ZOMBIE.                                                       *)
GiveToInit(p, table) ==
    [q \in Slot |-> IF q \in Children(p)
                    THEN [table[q] EXCEPT !.parent = InitProc]
                    ELSE table[q]]

TellInit(p, table) ==
    IF Zombies(Children(p)) # {} THEN Wakeup1(table, InitProc) ELSE table

(* exit: wake the parent, see to the children, become a ZOMBIE.  A killed  *)
(* process is made to exit on its way to or from user space, whether or not*)
(* it has joined its threads.                                              *)
Exit(p) ==
    /\ Running(p) /\ pc[p] = "user" /\ p # InitProc
    /\ ptable[p].killed \/ "exit" \in Calls
    /\ JoinFirst /\ ~ptable[p].killed => Threads(p) = {}
    /\ LET table == TellInit(p, GiveToInit(p, TellParent(p)))
       IN  ptable' = [table EXCEPT ![p] = [table[p] EXCEPT !.state = "ZOMBIE"]]
    /\ UNCHANGED <<nextpid, memory, pc, locals, panicked>>

(* A killed init exits too, which panics. *)
InitExit ==
    /\ Running(InitProc) /\ pc[InitProc] = "user" /\ ptable[InitProc].killed
    /\ panicked' = TRUE
    /\ UNCHANGED <<ptable, nextpid, memory, pc, locals>>

(* What wait and join clear in the slot of a ZOMBIE they have found. *)
Cleared(r) == [r EXCEPT !.state = "UNUSED", !.pid = 0, !.parent = None,
                        !.killed = FALSE]

WaitStart(p) ==
    /\ Syscall(p, "wait") /\ Goto(p, "wait")
    /\ UNCHANGED <<ptable, nextpid, memory, locals, panicked>>

(* wait frees the kernel stack and the page directory. *)
Freed(q) == {ptable[q].kstack, ptable[q].pgdir}

WaitReap(p) ==
    /\ Running(p) /\ pc[p] = "wait" /\ Zombies(Processes(p)) # {}
    /\ LET q == First(Zombies(Processes(p)))
       IN  /\ freelist' = freelist \cup Freed(q)
           /\ mapped' = [mapped EXCEPT ![ptable[q].pgdir] = {}]
           /\ Update(q, [Cleared(ptable[q]) EXCEPT !.kstack = None])
    /\ Goto(p, "user")
    /\ UNCHANGED <<nextpid, lost, locals, panicked>>

WaitFail(p) ==
    /\ Running(p) /\ pc[p] = "wait" /\ Zombies(Processes(p)) = {}
    /\ Processes(p) = {} \/ ptable[p].killed
    /\ Goto(p, "user")
    /\ UNCHANGED <<ptable, nextpid, memory, locals, panicked>>

Sleep(p, ch) == Update(p, [ptable[p] EXCEPT !.state = "SLEEPING", !.chan = ch])

WaitSleep(p) ==
    /\ Running(p) /\ pc[p] = "wait" /\ Zombies(Processes(p)) = {}
    /\ Processes(p) # {} /\ ~ptable[p].killed
    /\ Sleep(p, p)
    /\ UNCHANGED <<nextpid, memory, pc, locals, panicked>>

JoinStart(p) ==
    /\ Syscall(p, "join") /\ Goto(p, "join")
    /\ UNCHANGED <<ptable, nextpid, memory, locals, panicked>>

(* join frees neither the kernel stack nor, rightly, the page directory. *)
JoinReap(p) ==
    /\ Running(p) /\ pc[p] = "join" /\ Zombies(Threads(p)) # {}
    /\ LET q == First(Zombies(Threads(p)))
       IN  Update(q, Cleared(ptable[q]))
    /\ Goto(p, "user")
    /\ UNCHANGED <<nextpid, memory, locals, panicked>>

JoinFail(p) ==
    /\ Running(p) /\ pc[p] = "join" /\ Zombies(Threads(p)) = {}
    /\ Threads(p) = {} \/ ptable[p].killed
    /\ Goto(p, "user")
    /\ UNCHANGED <<ptable, nextpid, memory, locals, panicked>>

JoinSleep(p) ==
    /\ Running(p) /\ pc[p] = "join" /\ Zombies(Threads(p)) = {}
    /\ Threads(p) # {} /\ ~ptable[p].killed
    /\ Sleep(p, p)
    /\ UNCHANGED <<nextpid, memory, pc, locals, panicked>>

-----------------------------------------------------------------------------
(* The processes that run in the address space of p. *)
Sharers(p) == {q \in Slot : /\ ptable[q].state # "UNUSED"
                            /\ ptable[q].pgdir = ptable[p].pgdir}

(* exec(): a new page directory replaces the old one, which is freed. *)
Exec(p) ==
    /\ Syscall(p, "exec")
    /\ JoinFirst => Sharers(p) = {p}
    /\ freelist # {}
    /\ LET pd == Kalloc(freelist)
       IN
         /\ Update(p, [ptable[p] EXCEPT !.pgdir = pd, !.sz = 1])
         /\ freelist' = (freelist \ {pd}) \cup {ptable[p].pgdir}
         /\ mapped' = [mapped EXCEPT ![pd] = {1}, ![ptable[p].pgdir] = {}]
    /\ UNCHANGED <<nextpid, lost, pc, locals, panicked>>

(* Its setupkvm can fail as that of fork can. *)
ExecLeak(p) ==
    /\ Syscall(p, "exec")
    /\ JoinFirst => Sharers(p) = {p}
    /\ freelist # {} /\ Lose(Kalloc(freelist))
    /\ UNCHANGED <<ptable, nextpid, mapped, pc, locals, panicked>>

\* Mutant: kill leaves a sleeper asleep.
KilledAsleep(r) == [r EXCEPT !.killed = TRUE]

(* kill marks its victim and wakes it. *)
Killed(r) ==
    [r EXCEPT !.killed = TRUE, !.state = IF @ = "SLEEPING" THEN "RUNNABLE" ELSE @]

(* kill(): the first slot with the pid, whatever its state; no slot has it:*)
(* nothing changes.                                                        *)
Kill(p) ==
    /\ Syscall(p, "kill")
    /\ \E pid \in KillPids :
         LET S == {q \in Slot : ptable[q].pid = pid}
             q == First(S)
         IN  S # {} /\ Update(q, Killed(ptable[q]))
    /\ UNCHANGED <<nextpid, memory, pc, locals, panicked>>

(* sbrk(1) and sbrk(-1).  growproc changes the page table first, from the  *)
(* caller's own idea of its size; allocuvm panics on a page that is mapped *)
(* already.  When kalloc fails nothing has changed.                        *)
GrowMap(p) ==
    /\ Syscall(p, "sbrk")
    /\ LET r == ptable[p]
       IN  \/ /\ r.sz < MaxSz /\ r.sz + 1 \notin mapped[r.pgdir]
              /\ mapped' = [mapped EXCEPT ![r.pgdir] = @ \cup {r.sz + 1}]
              /\ newsz' = [newsz EXCEPT ![p] = r.sz + 1]
           \/ /\ r.sz > 1
              /\ mapped' = [mapped EXCEPT ![r.pgdir] = @ \ {r.sz}]
              /\ newsz' = [newsz EXCEPT ![p] = r.sz - 1]
    /\ Goto(p, "grow")
    /\ UNCHANGED <<ptable, nextpid, freelist, lost, np, panicked>>

(* sbrk(-sz): deallocuvm has unmapped everything and returns the new size, *)
(* 0, which growproc takes for a failure.                                  *)
GrowToNothing(p) ==
    /\ Syscall(p, "sbrk") /\ ptable[p].sz >= 1
    /\ mapped' = [mapped EXCEPT ![ptable[p].pgdir] = @ \ 1 .. ptable[p].sz]
    /\ UNCHANGED <<ptable, nextpid, freelist, lost, pc, locals, panicked>>

GrowPanic(p) ==
    /\ Syscall(p, "sbrk")
    /\ ptable[p].sz < MaxSz /\ ptable[p].sz + 1 \in mapped[ptable[p].pgdir]
    /\ panicked' = TRUE
    /\ UNCHANGED <<ptable, nextpid, memory, pc, locals>>

(* Then it sets its own size and, under ptable.lock, that of each child of *)
(* its own, thread or process.                                             *)
GrowPublish(p) ==
    /\ Running(p) /\ pc[p] = "grow"
    /\ ptable' = [q \in Slot |-> IF q = p \/ q \in Children(p)
                                 THEN [ptable[q] EXCEPT !.sz = newsz[p]]
                                 ELSE ptable[q]]
    /\ Goto(p, "user")
    /\ UNCHANGED <<nextpid, memory, locals, panicked>>

-----------------------------------------------------------------------------
(* sys_sleep(): with tickslock held, until enough ticks have passed or the *)
(* caller is killed; sleep() then releases tickslock under ptable.lock.    *)
(* acquire turns interrupts off before it spins.                           *)
SleepStart(p) ==
    /\ Syscall(p, "sleep") /\ Goto(p, "sleep")
    /\ UNCHANGED <<ptable, nextpid, memory, locals, panicked>>

SleepSpin(p) ==
    /\ Running(p) /\ pc[p] = "sleep" /\ Goto(p, "sleepSpin")
    /\ UNCHANGED <<ptable, nextpid, memory, locals, panicked>>

TickslockFree == \A q \in Slot : pc[q] # "sleepNow"

SleepTest(p) ==
    /\ Running(p) /\ pc[p] = "sleepSpin" /\ TickslockFree
    /\ \/ Goto(p, "user")
       \/ ~ptable[p].killed /\ Goto(p, "sleepNow")
    /\ UNCHANGED <<ptable, nextpid, memory, locals, panicked>>

SleepNow(p) ==
    /\ Running(p) /\ pc[p] = "sleepNow"
    /\ Sleep(p, Ticks) /\ Goto(p, "sleep")
    /\ UNCHANGED <<nextpid, memory, locals, panicked>>

(* The timer interrupt of processor 0 takes tickslock and wakes &ticks. *)
Tick ==
    /\ TickslockFree
    /\ ptable' = Wakeup1(ptable, Ticks)
    /\ UNCHANGED <<nextpid, memory, pc, locals, panicked>>

-----------------------------------------------------------------------------
ForkStep(p)  ==
    \/ ForkStart(p) \/ NoStack(p) \/ ForkSize(p) \/ ForkFail(p) \/ ForkLeak(p) \/ Fork(p)
    \/ ForkPanic(p)
CloneStep(p) == CloneStart(p) \/ BadCloneStart(p) \/ Clone(p) \/ BadClone(p)
WaitStep(p)  == WaitStart(p) \/ WaitReap(p) \/ WaitFail(p) \/ WaitSleep(p)
JoinStep(p)  == JoinStart(p) \/ JoinReap(p) \/ JoinFail(p) \/ JoinSleep(p)
GrowStep(p)  == GrowMap(p) \/ GrowToNothing(p) \/ GrowPanic(p) \/ GrowPublish(p)
SleepStep(p) == SleepStart(p) \/ SleepSpin(p) \/ SleepTest(p) \/ SleepNow(p)

Next ==
    /\ ~panicked
    /\ \/ \E p \in Slot :
            \/ Schedule(p) \/ Yield(p) \/ Fault(p)
            \/ ForkStep(p) \/ CloneStep(p) \/ Exit(p) \/ WaitStep(p) \/ JoinStep(p)
            \/ Exec(p) \/ ExecLeak(p) \/ Kill(p) \/ GrowStep(p) \/ SleepStep(p)
       \/ InitExit
       \/ Tick

Spec == Init /\ [][Next]_vars

(* What p does inside the kernel, and its forced exit once it is killed. *)
KernelStep(p) ==
    \/ NoStack(p) \/ ForkSize(p) \/ ForkFail(p) \/ ForkLeak(p) \/ Fork(p)
    \/ Clone(p) \/ BadClone(p)
    \/ WaitReap(p) \/ WaitFail(p) \/ WaitSleep(p)
    \/ JoinReap(p) \/ JoinFail(p) \/ JoinSleep(p)
    \/ GrowPublish(p) \/ SleepSpin(p) \/ SleepTest(p) \/ SleepNow(p)
    \/ ptable[p].killed /\ Exit(p)

(* The scheduler goes round the table, so a process that is RUNNABLE again *)
(* and again runs one day; the stretches between two points of the kernel  *)
(* are shorter than a clock tick, so a process interrupted before each of  *)
(* them gets through one day; the clock ticks; init never stops waiting.   *)
Fairness ==
    /\ \A p \in Slot : SF_vars(~panicked /\ Schedule(p)) /\ SF_vars(~panicked /\ KernelStep(p))
    /\ WF_vars(~panicked /\ Tick)
    /\ SF_vars(~panicked /\ WaitStart(InitProc))

FairSpec == Spec /\ Fairness
=============================================================================
