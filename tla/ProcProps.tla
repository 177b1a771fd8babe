----------------------------- MODULE ProcProps -----------------------------
(***************************************************************************)
(* What the process table of Proc promises.                                *)
(***************************************************************************)
EXTENDS Proc

Alive == {p \in Slot : ptable[p].state \in {"SLEEPING", "RUNNABLE", "RUNNING"}}

Creating == {"fork", "copy", "clone", "badclone"}

(* Nobody is orphaned: the parent of every process that runs or has exited *)
(* is alive, whatever the order of fork, clone, exit and wait on different *)
(* processors (proc.c:203-211 hands the children of exit to init).         *)
ParentsAlive ==
    \A p \in Alive \cup InState("ZOMBIE") :
        p # InitProc => ptable[p].parent \in Alive

(* No wakeup is lost: a parent asleep in wait or join has no child that it *)
(* could collect (proc.c:200 and :208 wake it before it can miss one).     *)
NoLostWakeup ==
    \A p \in InState("SLEEPING") :
        /\ pc[p] = "wait" => Zombies(Processes(p)) = {}
        /\ pc[p] = "join" => Zombies(Threads(p)) = {}

(* Each slot under construction belongs to one creator, and no other slot  *)
(* is under construction: two processors never get the same slot, and none *)
(* is forgotten (proc.c:38-48).                                            *)
SlotsUnderConstruction ==
    /\ \A p \in Alive : pc[p] \in Creating =>
         /\ np[p] \in InState("EMBRYO")
         /\ \A q \in Slot : np[q] = np[p] => q = p
    /\ \A e \in InState("EMBRYO") : \E p \in Alive : np[p] = e

(* Whoever may still run has its page directory and its kernel stack:      *)
(* neither has been freed.                                                 *)
NoUseAfterFree ==
    \A p \in Alive : {ptable[p].pgdir, ptable[p].kstack} \cap freelist = {}

(* Every page is free or in use, but for those that setupkvm forgot when it*)
(* ran out of memory (vm.c:146): neither a fork that fails at any other    *)
(* point (proc.c:51, :151) nor an exec, exit or wait leaks one.            *)
OnlySetupkvmLeaks ==
    Page = freelist \cup lost \cup UNION {{ptable[p].kstack, ptable[p].pgdir} :
                                             p \in Alive \cup InState("ZOMBIE")}

(* A page directory is freed once (kalloc.c:34 "the page ... which normally*)
(* should have been returned by a call to kalloc").                        *)
FreedOnce ==
    [][\A p \in Slot :
         ptable[p].state = "ZOMBIE" /\ freelist # freelist' /\ ptable'[p].state = "UNUSED"
            => ptable[p].pgdir \notin freelist]_vars

-----------------------------------------------------------------------------
(* A killed process does not go on for ever, wherever in the kernel the    *)
(* kill finds it, asleep in wait or sys_sleep or about to sleep (trap.c:38,*)
(* proc.c:257 and :419, sysproc.c:69).                                     *)
KilledExits ==
    \A p \in Slot \ {InitProc} :
        p \in Alive /\ ptable[p].killed ~> p \notin Alive

(* init collects every process that exits after its parent has.            *)
OrphansReaped ==
    \A p \in Slot :
        ptable[p].state = "ZOMBIE" /\ ptable[p].parent = InitProc
            ~> ptable[p].state # "ZOMBIE"
=============================================================================
