----------------------------- MODULE ProcProofs -----------------------------
(***************************************************************************)
(* Proofs about the process table, for every size of the table, number of  *)
(* processors and pages.  Types, parents and wakeups are right whatever    *)
(* system calls programs make; what is proved of slots and pages says      *)
(* which calls it excludes.                                                *)
(***************************************************************************)
EXTENDS ProcProps, WellFoundedInduction, FiniteSetTheorems, TLAPS

(* A set of numbers has a least one.                                       *)
LEMMA LeastExists ==
    ASSUME NEW S \in SUBSET Nat, S # {}
    PROVE  \E x \in S : \A y \in S : x <= y
<1> DEFINE Prefixes == {1 .. n : n \in S}
<1>1. Prefixes \subseteq FiniteSubsetsOf(Nat) /\ Prefixes # {}
  <2>1. \A n \in Nat : IsFiniteSet(1 .. n) /\ 1 .. n \in SUBSET Nat
    BY FS_Interval
  <2>2. QED
    BY <2>1 DEF FiniteSubsetsOf
<1>2. PICK X \in Prefixes : \A Y \in Prefixes : <<Y, X>> \notin StrictSubsetOrdering(Nat)
  <2>1. IsWellFoundedOn(StrictSubsetOrdering(Nat), FiniteSubsetsOf(Nat))
    BY FS_StrictSubsetOrderingWellFounded
  <2> HIDE DEF Prefixes
  <2>2. QED
    BY <1>1, <2>1, WFMin
<1>3. PICK x \in S : X = 1 .. x
  BY <1>2
<1>4. ASSUME NEW y \in S, ~(x <= y) PROVE FALSE
  <2>1. 1 .. y \subseteq 1 .. x /\ x \in 1 .. x /\ x \notin 1 .. y
    BY <1>4
  <2>2. <<1 .. y, 1 .. x>> \in StrictSubsetOrdering(Nat)
    BY <2>1 DEF StrictSubsetOrdering
  <2>3. QED
    BY <1>2, <1>3, <2>2
<1>5. \A y \in S : x <= y
  BY <1>4
<1>6. QED
  BY <1>5

(* The loops over ptable.proc find the first slot of the kind they look    *)
(* for, and kalloc a page of its list: First gives a member.               *)
LEMMA FirstIsMember ==
    ASSUME NEW S \in SUBSET Nat, S # {}
    PROVE  First(S) \in S
  BY LeastExists DEF First

(* allocproc's slot is a slot, and kalloc's page a free page. *)
LEMMA SlotFound ==
    ASSUME TypeOK, NEW s \in States, InState(s) # {}
    PROVE  First(InState(s)) \in InState(s)
  BY FirstIsMember, ProcAssumption DEF InState, Slot

LEMMA PageFound ==
    ASSUME NEW free \in SUBSET Page, free # {}
    PROVE  Kalloc(free) \in free
  BY FirstIsMember DEF Kalloc, Page

-----------------------------------------------------------------------------
(* Types, and what they rest on: whoever runs or has exited has its pages, *)
(* whoever creates a process has the slot of that other, all to itself, and*)
(* only the living are inside the kernel.                                  *)

HasPages ==
    \A p \in Slot : ptable[p].state \in {"SLEEPING", "RUNNABLE", "RUNNING", "ZOMBIE"} =>
        ptable[p].pgdir \in Page /\ ptable[p].kstack \in Page

CreatorHasSlot ==
    \A p \in Slot : pc[p] \in Creating =>
        /\ np[p] \in Slot /\ ptable[np[p]].state = "EMBRYO"
        /\ \A q \in Slot : pc[q] \in Creating /\ np[q] = np[p] => q = p

OnlyAliveInKernel ==
    \A p \in Slot : pc[p] # "user" =>
        ptable[p].state \in {"SLEEPING", "RUNNABLE", "RUNNING"}

TypeInv == TypeOK /\ HasPages /\ CreatorHasSlot /\ OnlyAliveInKernel

LEMMA UpdateType ==
    ASSUME TypeOK, NEW q \in Slot, NEW r \in ProcRecord, Update(q, r)
    PROVE  /\ ptable' \in [Slot -> ProcRecord]
           /\ ptable'[q] = r
           /\ \A x \in Slot : x # q => ptable'[x] = ptable[x]
  BY DEF TypeOK, Update

LEMMA WakeupType ==
    ASSUME NEW t \in [Slot -> ProcRecord], NEW ch
    PROVE  /\ Wakeup1(t, ch) \in [Slot -> ProcRecord]
           /\ \A q \in Slot :
                /\ Wakeup1(t, ch)[q] = t[q] \/ /\ t[q].state = "SLEEPING"
                                               /\ t[q].chan = ch
                                               /\ Wakeup1(t, ch)[q].state = "RUNNABLE"
                /\ Wakeup1(t, ch)[q].pgdir = t[q].pgdir
                /\ Wakeup1(t, ch)[q].kstack = t[q].kstack
                /\ Wakeup1(t, ch)[q].parent = t[q].parent
                /\ Wakeup1(t, ch)[q].chan = t[q].chan /\ Wakeup1(t, ch)[q].pid = t[q].pid
                /\ Wakeup1(t, ch)[q].killed = t[q].killed /\ Wakeup1(t, ch)[q].sz = t[q].sz
                /\ t[q].state = "SLEEPING" /\ t[q].chan = ch
                     => Wakeup1(t, ch)[q].state = "RUNNABLE"
<1>1. ASSUME NEW r \in ProcRecord
      PROVE  LET w == [r EXCEPT !.state = "RUNNABLE"]
             IN  /\ w \in ProcRecord /\ w.state = "RUNNABLE" /\ w.pgdir = r.pgdir
                 /\ w.kstack = r.kstack /\ w.parent = r.parent /\ w.chan = r.chan
                 /\ w.pid = r.pid /\ w.killed = r.killed /\ w.sz = r.sz
  BY DEF ProcRecord, States
<1>2. QED
  BY <1>1 DEF Wakeup1

(* A step of a living process that writes its own slot only, and leaves it *)
(* alive with the pages it had or others, keeps the types.                 *)
LEMMA OwnSlotStep ==
    ASSUME TypeInv, NEW p \in Slot, ptable[p].state \in {"SLEEPING", "RUNNABLE", "RUNNING"},
           NEW r \in ProcRecord, Update(p, r),
           r.state \in {"SLEEPING", "RUNNABLE", "RUNNING"},
           r.pgdir \in Page, r.kstack \in Page,
           \A q \in Slot : pc'[q] \in Creating => pc[q] \in Creating /\ np'[q] = np[q],
           \A q \in Slot : q # p => pc'[q] = pc[q]
    PROVE  HasPages' /\ CreatorHasSlot' /\ OnlyAliveInKernel'
<1>1. ptable'[p] = r /\ \A x \in Slot : x # p => ptable'[x] = ptable[x]
  BY UpdateType DEF TypeInv
<1>2. HasPages'
  BY <1>1 DEF TypeInv, HasPages
<1>3. CreatorHasSlot'
  BY <1>1 DEF TypeInv, CreatorHasSlot
<1>4. OnlyAliveInKernel'
  BY <1>1 DEF TypeInv, OnlyAliveInKernel
<1>5. QED
  BY <1>2, <1>3, <1>4

(* A step that writes no slot, and moves only a living process. *)
LEMMA NoSlotStep ==
    ASSUME TypeInv, ptable' = ptable,
           \A q \in Slot : pc'[q] \in Creating => pc[q] \in Creating /\ np'[q] = np[q],
           \A q \in Slot : pc'[q] # pc[q] => ptable[q].state = "RUNNING"
    PROVE  HasPages' /\ CreatorHasSlot' /\ OnlyAliveInKernel'
<1>1. HasPages'
  BY DEF TypeInv, HasPages
<1>2. CreatorHasSlot'
  BY DEF TypeInv, CreatorHasSlot
<1>3. OnlyAliveInKernel'
  BY DEF TypeInv, OnlyAliveInKernel
<1>4. QED
  BY <1>1, <1>2, <1>3

Lively == {"SLEEPING", "RUNNABLE", "RUNNING"}

(* A step that keeps the slots under construction as they are. *)
LEMMA QuietStep ==
    ASSUME TypeInv,
           \A q \in Slot : ptable'[q].state \in Lively \cup {"ZOMBIE"} =>
                ptable'[q].pgdir \in Page /\ ptable'[q].kstack \in Page,
           \A q \in Slot : ptable[q].state = "EMBRYO" => ptable'[q].state = "EMBRYO",
           \A q \in Slot : pc'[q] \in Creating => pc[q] \in Creating /\ np'[q] = np[q],
           \A q \in Slot : pc'[q] # "user" => ptable'[q].state \in Lively
    PROVE  HasPages' /\ CreatorHasSlot' /\ OnlyAliveInKernel'
<1>1. HasPages'
  BY DEF HasPages, Lively
<1>2. CreatorHasSlot'
  BY DEF TypeInv, CreatorHasSlot
<1>3. OnlyAliveInKernel'
  BY DEF OnlyAliveInKernel, Lively
<1>4. QED
  BY <1>1, <1>2, <1>3

(* The steps of the scheduler. *)
LEMMA SchedulerTypes ==
    ASSUME ProcAssumption, TypeInv, NEW p \in Slot, Schedule(p) \/ Yield(p) \/ Fault(p)
    PROVE  TypeInv'
<1>1. PICK r \in ProcRecord :
          /\ Update(p, r) /\ r.pgdir = ptable[p].pgdir /\ r.kstack = ptable[p].kstack
          /\ r.state \in {"RUNNING", "RUNNABLE"}
          /\ ptable[p].state \in {"RUNNING", "RUNNABLE"}
  <2>0. ptable[p] \in ProcRecord
    BY DEF TypeInv, TypeOK
  <2>1. CASE Schedule(p)
    BY <2>0, <2>1 DEF Schedule, ProcRecord, States
  <2>2. CASE Yield(p)
    BY <2>0, <2>2 DEF Yield, Running, ProcRecord, States
  <2>3. CASE Fault(p)
    BY <2>0, <2>3 DEF Fault, Running, ProcRecord, States
  <2>4. QED
    BY <2>1, <2>2, <2>3
<1>2. UNCHANGED <<nextpid, memory, pc, locals, panicked>>
  BY DEF Schedule, Yield, Fault
<1>3. TypeOK'
  BY <1>1, <1>2, UpdateType DEF TypeInv, TypeOK, memory, locals
<1>4. r.pgdir \in Page /\ r.kstack \in Page
  BY <1>1 DEF TypeInv, HasPages
<1>5. HasPages' /\ CreatorHasSlot' /\ OnlyAliveInKernel'
  BY <1>1, <1>2, <1>4, OwnSlotStep DEF locals
<1>6. QED
  BY <1>3, <1>5 DEF TypeInv

(* allocproc's loop: the slot found is nobody else's. *)
LEMMA AllocTypes ==
    ASSUME ProcAssumption, TypeInv, NEW p \in Slot, Running(p), pc[p] = "user",
           NEW point \in Creating, AllocSlot(p), Goto(p, point)
    PROVE  TypeInv'
<1> DEFINE q == First(InState("UNUSED"))
           r == [ptable[q] EXCEPT !.state = "EMBRYO", !.pid = nextpid]
<1>1. q \in Slot /\ ptable[q].state = "UNUSED"
  <2>1. InState("UNUSED") # {} /\ "UNUSED" \in States
    BY DEF AllocSlot, States
  <2>2. q \in InState("UNUSED")
    BY <2>1, SlotFound DEF TypeInv
  <2>3. QED
    BY <2>2 DEF InState
<1>2. Update(q, r) /\ np' = [np EXCEPT ![p] = q] /\ nextpid' = nextpid + 1
      /\ pc' = [pc EXCEPT ![p] = point] /\ UNCHANGED <<memory, newsz, panicked>>
  BY DEF AllocSlot, Goto
<1>3. r \in ProcRecord /\ r.state = "EMBRYO"
  <2>1. ptable[q] \in ProcRecord /\ nextpid \in Nat
    BY <1>1 DEF TypeInv, TypeOK
  <2>2. QED
    BY <2>1 DEF ProcRecord, States
<1> HIDE DEF q, r
<1>4. /\ ptable' \in [Slot -> ProcRecord] /\ ptable'[q] = r
      /\ \A x \in Slot : x # q => ptable'[x] = ptable[x]
  BY <1>1, <1>2, <1>3, UpdateType DEF TypeInv
<1>5. point \in Points
  BY DEF Creating, Points
<1>6. TypeOK'
  <2>1. pc' \in [Slot -> Points] /\ np' \in [Slot -> Slot \cup {None}]
    BY <1>1, <1>2, <1>5 DEF TypeInv, TypeOK
  <2>2. nextpid' \in Nat
    BY <1>2 DEF TypeInv, TypeOK
  <2>3. QED
    BY <1>2, <1>4, <2>1, <2>2 DEF TypeInv, TypeOK, memory
<1>7. HasPages'
  BY <1>3, <1>4 DEF TypeInv, HasPages
<1>8. CreatorHasSlot'
  <2>1. \A x \in Slot : pc[x] \in Creating => np[x] # q
    BY <1>1 DEF TypeInv, CreatorHasSlot
  <2>2. \A x \in Slot : x # p => pc'[x] = pc[x] /\ np'[x] = np[x]
    BY <1>2 DEF TypeInv, TypeOK
  <2>3. np'[p] = q
    BY <1>2 DEF TypeInv, TypeOK
  <2>4. QED
    BY <1>1, <1>3, <1>4, <2>1, <2>2, <2>3 DEF TypeInv, CreatorHasSlot
<1>9. OnlyAliveInKernel'
  <2>1. ptable'[p].state = "RUNNING"
    BY <1>1, <1>4 DEF Running
  <2>2. \A x \in Slot : x # p => pc'[x] = pc[x]
    BY <1>2 DEF TypeInv, TypeOK
  <2>3. \A x \in Slot : pc[x] # "user" => x # q
    BY <1>1 DEF TypeInv, OnlyAliveInKernel
  <2>4. QED
    BY <1>4, <2>1, <2>2, <2>3 DEF TypeInv, OnlyAliveInKernel
<1>10. QED
  BY <1>6, <1>7, <1>8, <1>9 DEF TypeInv

(* The end of fork and clone: the slot of np becomes r, which has its pages*)
(* unless it is unused again or stays an EMBRYO, and is np no more.        *)
LEMMA EndOfCreation ==
    ASSUME ProcAssumption, TypeInv, NEW p \in Slot, Running(p), pc[p] \in Creating,
           NEW r \in ProcRecord, Update(np[p], r), BackToUser(p),
           r.state \in {"RUNNABLE", "EMBRYO"} => r.pgdir \in Page /\ r.kstack \in Page,
           r.state \in {"RUNNABLE", "EMBRYO", "UNUSED"},
           UNCHANGED <<nextpid, newsz, panicked>>,
           freelist' \in SUBSET Page, lost' \in SUBSET Page,
           mapped' \in [Page -> SUBSET (1 .. MaxSz)]
    PROVE  TypeInv'
<1>1. np[p] \in Slot /\ ptable[np[p]].state = "EMBRYO"
  BY DEF TypeInv, CreatorHasSlot
<1>2. /\ ptable' \in [Slot -> ProcRecord] /\ ptable'[np[p]] = r
      /\ \A x \in Slot : x # np[p] => ptable'[x] = ptable[x]
  BY <1>1, UpdateType DEF TypeInv
<1>3. /\ pc' \in [Slot -> Points] /\ np' \in [Slot -> Slot \cup {None}]
      /\ pc'[p] = "user" /\ \A x \in Slot : x # p => pc'[x] = pc[x] /\ np'[x] = np[x]
  BY DEF TypeInv, TypeOK, BackToUser, Goto, Points
<1>4. TypeOK'
  BY <1>2, <1>3 DEF TypeInv, TypeOK
<1>5. HasPages'
  BY <1>2 DEF TypeInv, HasPages
<1>6. CreatorHasSlot'
  BY <1>1, <1>2, <1>3 DEF TypeInv, CreatorHasSlot, Creating
<1>7. OnlyAliveInKernel'
  BY <1>1, <1>2, <1>3 DEF TypeInv, OnlyAliveInKernel
<1>8. QED
  BY <1>4, <1>5, <1>6, <1>7 DEF TypeInv

(* Two free pages: neither the list nor what is left of it is empty. *)
LEMMA TwoFree ==
    ASSUME ProcAssumption, freelist \in SUBSET Page, Cardinality(freelist) >= 2
    PROVE  freelist # {} /\ \A x : freelist \ {x} # {}
<1>1. IsFiniteSet(Page)
  BY FS_Interval, ProcAssumption DEF Page
<1>2. IsFiniteSet(freelist)
  BY <1>1, FS_Subset
<1>3. Cardinality(freelist) >= 2 /\ Cardinality({}) = 0
  BY FS_EmptySet
<1>4. ASSUME NEW x, freelist \ {x} = {} PROVE FALSE
  <2>1. freelist = {x} \/ freelist = {}
    BY <1>4
  <2>2. Cardinality({x}) = 1
    BY FS_Singleton
  <2>3. QED
    BY <1>3, <2>1, <2>2
<1>5. QED
  BY <1>3, <1>4

LEMMA ForkTypes ==
    ASSUME ProcAssumption, TypeInv, NEW p \in Slot, Fork(p)
    PROVE  TypeInv'
<1> DEFINE ks == Kalloc(freelist)
           pd == Kalloc(freelist \ {ks})
           r == [ptable[np[p]] EXCEPT !.state = "RUNNABLE", !.parent = p,
                    !.pgdir = pd, !.kstack = ks, !.sz = ptable[p].sz]
<1>0. freelist \in SUBSET Page /\ pc[p] \in Creating /\ np[p] \in Slot
  BY DEF TypeInv, TypeOK, CreatorHasSlot, Fork, Creating
<1>1. freelist # {} /\ \A x : freelist \ {x} # {}
  BY <1>0, TwoFree DEF Fork
<1>2. ks \in Page /\ pd \in Page
  BY <1>0, <1>1, PageFound
<1>3. Update(np[p], r)
  BY DEF Fork
<1>4. r \in ProcRecord
  <2>1. ptable[np[p]] \in ProcRecord /\ ptable[p].sz \in Nat
    BY <1>0 DEF TypeInv, TypeOK, ProcRecord
  <2> HIDE DEF ks, pd
  <2>2. QED
    BY <1>2, <2>1 DEF ProcRecord, States
<1>5. freelist' \in SUBSET Page /\ lost' \in SUBSET Page
  BY <1>0 DEF Fork, TypeInv, TypeOK
<1>6. mapped' \in [Page -> SUBSET (1 .. MaxSz)]
  <2>1. ptable[p].pgdir \in Page
    BY DEF TypeInv, HasPages, Fork, Running
  <2>2. 1 .. newsz[p] \subseteq 1 .. MaxSz
    BY <2>1 DEF Fork, TypeInv, TypeOK
  <2>3. mapped' = [mapped EXCEPT ![pd] = 1 .. newsz[p]]
    BY DEF Fork
  <2> HIDE DEF pd
  <2>4. QED
    BY <2>2, <2>3 DEF TypeInv, TypeOK
<1>7. r.state = "RUNNABLE" /\ r.pgdir = pd /\ r.kstack = ks
  <2>1. ptable[np[p]] \in ProcRecord
    BY <1>0 DEF TypeInv, TypeOK
  <2> HIDE DEF ks, pd
  <2>2. QED
    BY <2>1 DEF ProcRecord
<1>8. Running(p) /\ BackToUser(p) /\ UNCHANGED <<nextpid, newsz, panicked>>
  BY DEF Fork
<1> HIDE DEF r, ks, pd
<1>9. QED
  BY <1>0, <1>2, <1>3, <1>4, <1>5, <1>6, <1>7, <1>8, EndOfCreation

LEMMA CloneTypes ==
    ASSUME ProcAssumption, TypeInv, NEW p \in Slot, pc[p] \in Creating,
           NEW state \in {"RUNNABLE", "EMBRYO"}, CloneWith(p, state)
    PROVE  TypeInv'
<1> DEFINE ks == Kalloc(freelist)
           r == [ptable[np[p]] EXCEPT !.state = state, !.parent = p,
                    !.pgdir = ptable[p].pgdir, !.kstack = ks, !.sz = ptable[p].sz]
<1>1. freelist \in SUBSET Page /\ freelist # {} /\ np[p] \in Slot
  BY DEF TypeInv, TypeOK, CreatorHasSlot, CloneWith
<1>2. ks \in Page
  BY <1>1, PageFound
<1>3. Update(np[p], r)
  BY DEF CloneWith
<1>4. r \in ProcRecord /\ r.state = state /\ r.pgdir = ptable[p].pgdir /\ r.kstack = ks
  <2>1. ptable[np[p]] \in ProcRecord /\ ptable[p] \in ProcRecord
    BY <1>1 DEF TypeInv, TypeOK
  <2> HIDE DEF ks
  <2>2. QED
    BY <1>2, <2>1 DEF ProcRecord, States
<1>5. /\ freelist' \in SUBSET Page /\ lost' \in SUBSET Page
      /\ mapped' \in [Page -> SUBSET (1 .. MaxSz)]
  BY <1>1 DEF CloneWith, TypeInv, TypeOK
<1>6. ptable[p].pgdir \in Page
  BY DEF TypeInv, HasPages, CloneWith, Running
<1>7. Running(p) /\ BackToUser(p) /\ UNCHANGED <<nextpid, newsz, panicked>>
  BY DEF CloneWith
<1> HIDE DEF r, ks
<1>8. QED
  BY <1>2, <1>3, <1>4, <1>5, <1>6, <1>7, EndOfCreation

(* fork gives up. *)
LEMMA GiveUpTypes ==
    ASSUME ProcAssumption, TypeInv, NEW p \in Slot, NoStack(p) \/ ForkFail(p) \/ ForkLeak(p)
    PROVE  TypeInv'
<1> DEFINE r == [ptable[np[p]] EXCEPT !.state = "UNUSED", !.kstack = None]
<1>1. pc[p] \in Creating /\ Running(p) /\ Update(np[p], r) /\ BackToUser(p)
      /\ UNCHANGED <<nextpid, newsz, panicked>>
  BY DEF NoStack, ForkFail, ForkLeak, Creating
<1>2. np[p] \in Slot
  BY <1>1 DEF TypeInv, CreatorHasSlot
<1>3. r \in ProcRecord /\ r.state = "UNUSED"
  <2>1. ptable[np[p]] \in ProcRecord
    BY <1>2 DEF TypeInv, TypeOK
  <2>2. QED
    BY <2>1 DEF ProcRecord, States
<1>4. /\ freelist' \in SUBSET Page /\ lost' \in SUBSET Page
      /\ mapped' \in [Page -> SUBSET (1 .. MaxSz)]
  <2>1. CASE NoStack(p) \/ ForkFail(p)
    BY <2>1 DEF NoStack, ForkFail, TypeInv, TypeOK, memory
  <2>2. CASE ForkLeak(p)
    <3>0. freelist \in SUBSET Page /\ lost \in SUBSET Page
          /\ mapped \in [Page -> SUBSET (1 .. MaxSz)]
      BY DEF TypeInv, TypeOK
    <3>1. Kalloc(freelist \ {Kalloc(freelist)}) \in Page
      BY <2>2, <3>0, TwoFree, PageFound DEF ForkLeak
    <3>2. QED
      BY <2>2, <3>0, <3>1 DEF ForkLeak, Lose
  <2>3. QED
    BY <2>1, <2>2
<1> HIDE DEF r
<1>5. QED
  BY <1>1, <1>3, <1>4, EndOfCreation

(* Two records of the same process that may use the same. *)
SameUse(r, s) == s.pid = r.pid /\ s.killed = r.killed /\ s.sz = r.sz

(* What exit of p makes of the record of another slot q: its children given*)
(* to init, and whoever slept on the parent's channel woken.               *)
ExitFate(p, q, r) ==
    /\ r.pgdir = ptable[q].pgdir /\ r.kstack = ptable[q].kstack /\ r.chan = ptable[q].chan
    /\ SameUse(ptable[q], r)
    /\ r.parent = IF ptable[q].parent = p THEN InitProc ELSE ptable[q].parent
    /\ \/ r.state = ptable[q].state
       \/ /\ ptable[q].state = "SLEEPING" /\ r.state = "RUNNABLE"
          /\ ptable[q].chan \in {ptable[p].parent, InitProc}
    /\ ptable[q].state = "SLEEPING" /\ ptable[q].chan = ptable[p].parent
            => r.state = "RUNNABLE"
    /\ Zombies(Children(p)) # {} /\ ptable[q].state = "SLEEPING" /\ ptable[q].chan = InitProc
            => r.state = "RUNNABLE"

LEMMA ExitTable ==
    ASSUME ProcAssumption, TypeInv, NEW p \in Slot, Exit(p)
    PROVE  /\ ptable' \in [Slot -> ProcRecord]
           /\ ptable'[p].state = "ZOMBIE"
           /\ ptable'[p].pgdir = ptable[p].pgdir /\ ptable'[p].kstack = ptable[p].kstack
           /\ SameUse(ptable[p], ptable'[p])
           /\ ptable'[p].parent = IF ptable[p].parent = p THEN InitProc ELSE ptable[p].parent
           /\ \A q \in Slot : q # p => ExitFate(p, q, ptable'[q])
<1> DEFINE woken == Wakeup1(ptable, ptable[p].parent)
           given == GiveToInit(p, woken)
           told == Wakeup1(given, InitProc)
           toldInit == TellInit(p, given)
           dead == [toldInit[p] EXCEPT !.state = "ZOMBIE"]
<1>1. ptable' = [toldInit EXCEPT ![p] = dead]
  BY DEF Exit, TellParent
<1>2. ptable \in [Slot -> ProcRecord]
  BY DEF TypeInv, TypeOK
<1>w. /\ woken \in [Slot -> ProcRecord]
      /\ \A q \in Slot :
            /\ woken[q] = ptable[q] \/ /\ ptable[q].state = "SLEEPING"
                                       /\ ptable[q].chan = ptable[p].parent
                                       /\ woken[q].state = "RUNNABLE"
            /\ woken[q].pgdir = ptable[q].pgdir /\ woken[q].kstack = ptable[q].kstack
            /\ woken[q].parent = ptable[q].parent /\ woken[q].chan = ptable[q].chan
            /\ SameUse(ptable[q], woken[q])
            /\ ptable[q].state = "SLEEPING" /\ ptable[q].chan = ptable[p].parent
                 => woken[q].state = "RUNNABLE"
  <2> HIDE DEF woken
  <2>1. woken = Wakeup1(ptable, ptable[p].parent)
    BY DEF woken
  <2>2. QED
    BY <1>2, <2>1, WakeupType DEF SameUse
<1> HIDE DEF woken
<1>3. ASSUME NEW r \in ProcRecord
      PROVE  LET w == [r EXCEPT !.parent = InitProc]
             IN  /\ w \in ProcRecord /\ w.state = r.state /\ w.pgdir = r.pgdir
                 /\ w.kstack = r.kstack /\ w.parent = InitProc /\ w.chan = r.chan
                 /\ SameUse(r, w)
  BY ProcAssumption DEF ProcRecord, InitProc, Slot, SameUse
<1>4. ASSUME NEW r \in ProcRecord
      PROVE  LET w == [r EXCEPT !.state = "ZOMBIE"]
             IN  /\ w \in ProcRecord /\ w.state = "ZOMBIE" /\ w.pgdir = r.pgdir
                 /\ w.kstack = r.kstack /\ w.parent = r.parent /\ w.chan = r.chan
                 /\ SameUse(r, w)
  BY DEF ProcRecord, States, SameUse
<1>g. /\ given \in [Slot -> ProcRecord]
      /\ \A q \in Slot :
            /\ given[q].state = woken[q].state
            /\ given[q].pgdir = ptable[q].pgdir /\ given[q].kstack = ptable[q].kstack
            /\ given[q].chan = ptable[q].chan /\ SameUse(ptable[q], given[q])
            /\ given[q].parent = IF ptable[q].parent = p THEN InitProc ELSE ptable[q].parent
  BY <1>w, <1>3 DEF GiveToInit, Children, SameUse
<1> HIDE DEF given
<1>t. /\ told \in [Slot -> ProcRecord]
      /\ \A q \in Slot :
            /\ told[q] = given[q] \/ /\ given[q].state = "SLEEPING"
                                     /\ given[q].chan = InitProc
                                     /\ told[q].state = "RUNNABLE"
            /\ told[q].pgdir = given[q].pgdir /\ told[q].kstack = given[q].kstack
            /\ told[q].parent = given[q].parent /\ told[q].chan = given[q].chan
            /\ SameUse(given[q], told[q])
            /\ given[q].state = "SLEEPING" /\ given[q].chan = InitProc
                 => told[q].state = "RUNNABLE"
  <2>1. told = Wakeup1(given, InitProc)
    BY DEF told
  <2> HIDE DEF told
  <2>2. QED
    BY <1>g, <2>1, WakeupType DEF SameUse
<1> HIDE DEF told
<1>5. toldInit \in [Slot -> ProcRecord] /\ \A q \in Slot : ExitFate(p, q, toldInit[q])
  <2>1. CASE Zombies(Children(p)) # {}
    <3>1. toldInit = told
      BY <2>1 DEF TellInit, told
    <3>2. ASSUME NEW q \in Slot PROVE ExitFate(p, q, told[q])
      <4>1. /\ told[q].pgdir = ptable[q].pgdir /\ told[q].kstack = ptable[q].kstack
            /\ told[q].chan = ptable[q].chan /\ SameUse(ptable[q], told[q])
            /\ told[q].parent = IF ptable[q].parent = p THEN InitProc ELSE ptable[q].parent
        BY <1>g, <1>t DEF SameUse
      <4>2. /\ \/ given[q].state = ptable[q].state
               \/ /\ ptable[q].state = "SLEEPING" /\ ptable[q].chan = ptable[p].parent
                  /\ given[q].state = "RUNNABLE"
            /\ ptable[q].state = "SLEEPING" /\ ptable[q].chan = ptable[p].parent
                 => given[q].state = "RUNNABLE"
        BY <1>w, <1>g
      <4>3. /\ \/ told[q].state = given[q].state
               \/ /\ given[q].state = "SLEEPING" /\ ptable[q].chan = InitProc
                  /\ told[q].state = "RUNNABLE"
            /\ given[q].state = "SLEEPING" /\ ptable[q].chan = InitProc
                 => told[q].state = "RUNNABLE"
        BY <1>g, <1>t
      <4>4. /\ \/ told[q].state = ptable[q].state
               \/ /\ ptable[q].state = "SLEEPING" /\ told[q].state = "RUNNABLE"
                  /\ ptable[q].chan \in {ptable[p].parent, InitProc}
            /\ ptable[q].state = "SLEEPING" /\ ptable[q].chan \in {ptable[p].parent, InitProc}
                 => told[q].state = "RUNNABLE"
        BY <4>2, <4>3
      <4>5. QED
        BY <4>1, <4>4 DEF ExitFate
    <3> HIDE DEF toldInit
    <3>3. QED
      BY <1>t, <3>1, <3>2
  <2>2. CASE Zombies(Children(p)) = {}
    <3>1. toldInit = given
      BY <2>2 DEF TellInit
    <3>2. ASSUME NEW q \in Slot PROVE ExitFate(p, q, given[q])
      <4>1. /\ given[q].state = woken[q].state
            /\ given[q].pgdir = ptable[q].pgdir /\ given[q].kstack = ptable[q].kstack
            /\ given[q].chan = ptable[q].chan /\ SameUse(ptable[q], given[q])
            /\ given[q].parent = IF ptable[q].parent = p THEN InitProc ELSE ptable[q].parent
        BY <1>g
      <4>2. /\ \/ woken[q].state = ptable[q].state
               \/ /\ ptable[q].state = "SLEEPING" /\ ptable[q].chan = ptable[p].parent
                  /\ woken[q].state = "RUNNABLE"
            /\ ptable[q].state = "SLEEPING" /\ ptable[q].chan = ptable[p].parent
                 => woken[q].state = "RUNNABLE"
        BY <1>w
      <4>3. QED
        BY <2>2, <4>1, <4>2 DEF ExitFate
    <3> HIDE DEF toldInit
    <3>3. QED
      BY <1>g, <3>1, <3>2
  <2>3. QED
    BY <2>1, <2>2
<1> HIDE DEF toldInit
<1>6. /\ dead \in ProcRecord /\ dead.state = "ZOMBIE" /\ dead.pgdir = toldInit[p].pgdir
      /\ dead.kstack = toldInit[p].kstack /\ dead.parent = toldInit[p].parent
      /\ SameUse(toldInit[p], dead)
  BY <1>4, <1>5
<1> HIDE DEF dead
<1>7. /\ ptable' \in [Slot -> ProcRecord] /\ ptable'[p] = dead
      /\ \A q \in Slot : q # p => ptable'[q] = toldInit[q]
  BY <1>1, <1>5, <1>6
<1>8. ExitFate(p, p, toldInit[p])
  BY <1>5
<1>9. /\ toldInit[p].pgdir = ptable[p].pgdir /\ toldInit[p].kstack = ptable[p].kstack
      /\ toldInit[p].parent = IF ptable[p].parent = p THEN InitProc ELSE ptable[p].parent
      /\ SameUse(ptable[p], toldInit[p])
  BY <1>8 DEF ExitFate
<1>10. QED
  BY <1>5, <1>6, <1>7, <1>9 DEF SameUse

LEMMA ExitTypes ==
    ASSUME ProcAssumption, TypeInv, NEW p \in Slot, Exit(p)
    PROVE  TypeInv'
<1>1. UNCHANGED <<nextpid, memory, pc, locals, panicked>> /\ pc[p] = "user" /\ Running(p)
  BY DEF Exit
<1>2. TypeOK'
  BY <1>1, ExitTable DEF TypeInv, TypeOK, memory, locals
<1>3. \A q \in Slot : ptable'[q].state \in Lively \cup {"ZOMBIE"} =>
          ptable'[q].pgdir \in Page /\ ptable'[q].kstack \in Page
  BY <1>1, ExitTable DEF TypeInv, HasPages, Lively, Running, ExitFate
<1>4. \A q \in Slot : ptable[q].state = "EMBRYO" => ptable'[q].state = "EMBRYO"
  BY <1>1, ExitTable DEF Running, ExitFate
<1>5. \A q \in Slot : pc'[q] # "user" => ptable'[q].state \in Lively
  BY <1>1, ExitTable DEF TypeInv, OnlyAliveInKernel, Lively, ExitFate
<1>6. QED
  BY <1>1, <1>2, <1>3, <1>4, <1>5, QuietStep DEF TypeInv, locals

(* wait and join: the calls themselves, and what they do when they find no *)
(* ZOMBIE; sys_sleep; the timer.                                           *)
LEMMA CallTypes ==
    ASSUME ProcAssumption, TypeInv, NEW p \in Slot, Running(p), NEW point \in Points,
           Goto(p, point), point \notin Creating,
           UNCHANGED <<ptable, nextpid, memory, locals, panicked>>
    PROVE  TypeInv'
<1>1. pc' \in [Slot -> Points] /\ pc'[p] = point /\ \A q \in Slot : q # p => pc'[q] = pc[q]
  BY DEF TypeInv, TypeOK, Goto
<1>2. TypeOK'
  BY <1>1 DEF TypeInv, TypeOK, memory, locals
<1>3. ptable' = ptable /\ np' = np
  BY DEF locals
<1>4. \A q \in Slot : pc'[q] \in Creating => pc[q] \in Creating /\ np'[q] = np[q]
  BY <1>1, <1>3
<1>5. \A q \in Slot : pc'[q] # pc[q] => ptable[q].state = "RUNNING"
  BY <1>1 DEF Running
<1>6. QED
  BY <1>2, <1>3, <1>4, <1>5, NoSlotStep DEF TypeInv

LEMMA SleepTypes ==
    ASSUME ProcAssumption, TypeInv, NEW p \in Slot, Running(p),
           NEW ch \in Slot \cup {Ticks}, Sleep(p, ch),
           NEW point \in Points, pc' = [pc EXCEPT ![p] = point], point \notin Creating,
           UNCHANGED <<nextpid, memory, locals, panicked>>
    PROVE  TypeInv'
<1> DEFINE r == [ptable[p] EXCEPT !.state = "SLEEPING", !.chan = ch]
<1>1. Update(p, r)
  BY DEF Sleep
<1>2. r \in ProcRecord /\ r.state = "SLEEPING" /\ r.pgdir = ptable[p].pgdir
      /\ r.kstack = ptable[p].kstack
  <2>1. ptable[p] \in ProcRecord
    BY DEF TypeInv, TypeOK
  <2>2. QED
    BY <2>1 DEF ProcRecord, States
<1>3. ptable[p].pgdir \in Page /\ ptable[p].kstack \in Page
  BY DEF TypeInv, HasPages, Running
<1> HIDE DEF r
<1>4. TypeOK'
  BY <1>1, <1>2, UpdateType DEF TypeInv, TypeOK, memory, locals
<1>5. pc'[p] = point /\ \A q \in Slot : q # p => pc'[q] = pc[q]
  BY DEF TypeInv, TypeOK
<1>6. HasPages' /\ CreatorHasSlot' /\ OnlyAliveInKernel'
  BY <1>1, <1>2, <1>3, <1>5, OwnSlotStep DEF locals, Running
<1>7. QED
  BY <1>4, <1>6 DEF TypeInv

(* wait and join clear the slot of the ZOMBIE they have found. *)
LEMMA ReapTypes ==
    ASSUME ProcAssumption, TypeInv, NEW p \in Slot, Running(p), Goto(p, "user"),
           NEW q \in Slot, ptable[q].state = "ZOMBIE", NEW r \in ProcRecord,
           r.state = "UNUSED", Update(q, r),
           UNCHANGED <<nextpid, lost, locals, panicked>>,
           freelist' \in SUBSET Page, mapped' \in [Page -> SUBSET (1 .. MaxSz)]
    PROVE  TypeInv'
<1>1. /\ ptable' \in [Slot -> ProcRecord] /\ ptable'[q] = r
      /\ \A x \in Slot : x # q => ptable'[x] = ptable[x]
  BY UpdateType DEF TypeInv
<1>2. pc' \in [Slot -> Points] /\ pc'[p] = "user" /\ \A x \in Slot : x # p => pc'[x] = pc[x]
  BY DEF TypeInv, TypeOK, Goto, Points
<1>3. TypeOK'
  BY <1>1, <1>2 DEF TypeInv, TypeOK, locals
<1>4. HasPages'
  BY <1>1 DEF TypeInv, HasPages
<1>5. CreatorHasSlot'
  BY <1>1, <1>2 DEF TypeInv, CreatorHasSlot, Creating, locals
<1>6. OnlyAliveInKernel'
  BY <1>1, <1>2 DEF TypeInv, OnlyAliveInKernel
<1>7. QED
  BY <1>3, <1>4, <1>5, <1>6 DEF TypeInv

(* The ZOMBIE that wait and join take is one of the table. *)
LEMMA ZombieFound ==
    ASSUME ProcAssumption, NEW S \in SUBSET Slot, Zombies(S) # {}
    PROVE  First(Zombies(S)) \in S /\ ptable[First(Zombies(S))].state = "ZOMBIE"
<1>1. Zombies(S) \in SUBSET Nat
  <2>1. Slot \subseteq Nat
    BY ProcAssumption DEF Slot
  <2>2. QED
    BY <2>1 DEF Zombies
<1>2. QED
  BY <1>1, FirstIsMember DEF Zombies

LEMMA WaitReapTypes ==
    ASSUME ProcAssumption, TypeInv, NEW p \in Slot, WaitReap(p)
    PROVE  TypeInv'
<1> DEFINE q == First(Zombies(Processes(p)))
           r == [Cleared(ptable[q]) EXCEPT !.kstack = None]
<1>1. q \in Slot /\ ptable[q].state = "ZOMBIE"
  <2>1. Processes(p) \in SUBSET Slot
    BY DEF Processes, Children
  <2>2. QED
    BY <2>1, ZombieFound DEF WaitReap
<1>2. /\ Running(p) /\ Goto(p, "user") /\ UNCHANGED <<nextpid, lost, locals, panicked>>
      /\ Update(q, r) /\ freelist' = freelist \cup {ptable[q].kstack, ptable[q].pgdir}
      /\ mapped' = [mapped EXCEPT ![ptable[q].pgdir] = {}]
  BY DEF WaitReap, Freed
<1> HIDE DEF q
<1>3. r \in ProcRecord /\ r.state = "UNUSED"
  <2>1. ptable[q] \in ProcRecord
    BY <1>1 DEF TypeInv, TypeOK
  <2>2. Cleared(ptable[q]) \in ProcRecord /\ Cleared(ptable[q]).state = "UNUSED"
    BY <2>1 DEF Cleared, ProcRecord, States
  <2>3. QED
    BY <2>2 DEF ProcRecord
<1>4. ptable[q].kstack \in Page /\ ptable[q].pgdir \in Page
  BY <1>1 DEF TypeInv, HasPages
<1>5. freelist' \in SUBSET Page /\ mapped' \in [Page -> SUBSET (1 .. MaxSz)]
  BY <1>2, <1>4 DEF TypeInv, TypeOK
<1> HIDE DEF r
<1>6. QED
  BY <1>1, <1>2, <1>3, <1>5, ReapTypes

LEMMA JoinReapTypes ==
    ASSUME ProcAssumption, TypeInv, NEW p \in Slot, JoinReap(p)
    PROVE  TypeInv'
<1> DEFINE q == First(Zombies(Threads(p)))
           r == Cleared(ptable[q])
<1>1. q \in Slot /\ ptable[q].state = "ZOMBIE"
  <2>1. Threads(p) \in SUBSET Slot
    BY DEF Threads, Children
  <2>2. QED
    BY <2>1, ZombieFound DEF JoinReap
<1>2. /\ Running(p) /\ Goto(p, "user") /\ UNCHANGED <<nextpid, memory, locals, panicked>>
      /\ Update(q, r)
  BY DEF JoinReap
<1> HIDE DEF q
<1>3. r \in ProcRecord /\ r.state = "UNUSED"
  <2>1. ptable[q] \in ProcRecord
    BY <1>1 DEF TypeInv, TypeOK
  <2>2. QED
    BY <2>1 DEF Cleared, ProcRecord, States
<1>4. freelist' \in SUBSET Page /\ mapped' \in [Page -> SUBSET (1 .. MaxSz)]
  BY <1>2 DEF TypeInv, TypeOK, memory
<1> HIDE DEF r
<1>5. QED
  BY <1>1, <1>2, <1>3, <1>4, ReapTypes DEF memory

LEMMA ExecTypes ==
    ASSUME ProcAssumption, TypeInv, NEW p \in Slot, Exec(p)
    PROVE  TypeInv'
<1> DEFINE pd == Kalloc(freelist)
           r == [ptable[p] EXCEPT !.pgdir = pd, !.sz = 1]
<1>1. freelist \in SUBSET Page /\ freelist # {}
  BY DEF TypeInv, TypeOK, Exec
<1>2. pd \in Page
  BY <1>1, PageFound
<1>3. /\ Running(p) /\ Update(p, r) /\ UNCHANGED <<nextpid, lost, pc, locals, panicked>>
      /\ freelist' = (freelist \ {pd}) \cup {ptable[p].pgdir}
      /\ mapped' = [mapped EXCEPT ![pd] = {1}, ![ptable[p].pgdir] = {}]
  BY DEF Exec, Syscall
<1> HIDE DEF pd
<1>4. ptable[p].pgdir \in Page /\ ptable[p].kstack \in Page
  BY <1>3 DEF TypeInv, HasPages, Running
<1>5. /\ r \in ProcRecord /\ r.state = "RUNNING" /\ r.pgdir = pd
      /\ r.kstack = ptable[p].kstack
  <2>1. ptable[p] \in ProcRecord
    BY DEF TypeInv, TypeOK
  <2>2. QED
    BY <1>2, <1>3, <2>1 DEF ProcRecord, Running
<1> HIDE DEF r
<1>6. freelist' \in SUBSET Page /\ mapped' \in [Page -> SUBSET (1 .. MaxSz)]
  <2>1. 1 \in 1 .. MaxSz
    BY ProcAssumption
  <2>2. QED
    BY <1>1, <1>2, <1>3, <1>4, <2>1 DEF TypeInv, TypeOK
<1>7. TypeOK'
  BY <1>3, <1>5, <1>6, UpdateType DEF TypeInv, TypeOK, locals
<1>8. HasPages' /\ CreatorHasSlot' /\ OnlyAliveInKernel'
  BY <1>2, <1>3, <1>4, <1>5, OwnSlotStep DEF locals, Running
<1>9. QED
  BY <1>7, <1>8 DEF TypeInv

(* setupkvm fails in exec. *)
LEMMA ExecLeakTypes ==
    ASSUME ProcAssumption, TypeInv, NEW p \in Slot, ExecLeak(p)
    PROVE  TypeInv'
<1>0. freelist \in SUBSET Page /\ lost \in SUBSET Page
  BY DEF TypeInv, TypeOK
<1>1. Kalloc(freelist) \in Page
  BY <1>0, PageFound DEF ExecLeak
<1>2. UNCHANGED <<ptable, nextpid, mapped, pc, locals, panicked>>
      /\ freelist' \in SUBSET Page /\ lost' \in SUBSET Page
  BY <1>0, <1>1 DEF ExecLeak, Lose
<1>3. TypeOK'
  BY <1>2 DEF TypeInv, TypeOK, locals
<1>4. QED
  BY <1>2, <1>3, NoSlotStep DEF TypeInv, locals

(* fork reads its caller's size. *)
LEMMA SizeTypes ==
    ASSUME ProcAssumption, TypeInv, NEW p \in Slot, ForkSize(p)
    PROVE  TypeInv'
<1>1. /\ Running(p) /\ pc[p] = "fork" /\ UNCHANGED <<ptable, nextpid, memory, np, panicked>>
      /\ pc' \in [Slot -> Points] /\ pc'[p] = "copy"
      /\ \A q \in Slot : q # p => pc'[q] = pc[q]
  BY DEF ForkSize, Goto, Points, TypeInv, TypeOK
<1>2. newsz' \in [Slot -> Nat]
  <2>1. ptable[p].sz \in Nat
    BY DEF TypeInv, TypeOK, ProcRecord
  <2>2. QED
    BY <2>1 DEF ForkSize, TypeInv, TypeOK
<1>3. TypeOK'
  BY <1>1, <1>2 DEF TypeInv, TypeOK, memory
<1>4. \A q \in Slot : pc'[q] \in Creating => pc[q] \in Creating /\ np'[q] = np[q]
  BY <1>1 DEF Creating
<1>5. \A q \in Slot : pc'[q] # pc[q] => ptable[q].state = "RUNNING"
  BY <1>1 DEF Running
<1>6. QED
  BY <1>1, <1>3, <1>4, <1>5, NoSlotStep DEF TypeInv

(* kill finds a slot, and marks and wakes what is in it. *)
LEMMA KillTable ==
    ASSUME ProcAssumption, TypeOK, NEW p \in Slot, Kill(p)
    PROVE  \E q \in Slot, r \in ProcRecord :
              /\ Update(q, r)
              /\ r.pgdir = ptable[q].pgdir /\ r.kstack = ptable[q].kstack /\ r.pid = ptable[q].pid
              /\ r.parent = ptable[q].parent /\ r.chan = ptable[q].chan
              /\ r.state = IF ptable[q].state = "SLEEPING" THEN "RUNNABLE"
                           ELSE ptable[q].state
<1>1. PICK pid \in KillPids :
         LET S == {q \in Slot : ptable[q].pid = pid}
             q == First(S)
         IN  S # {} /\ Update(q, Killed(ptable[q]))
  BY DEF Kill
<1> DEFINE S == {q \in Slot : ptable[q].pid = pid}
           q == First(S)
           r == Killed(ptable[q])
<1>2. q \in Slot
  <2>1. S \in SUBSET Nat
    BY ProcAssumption DEF Slot
  <2>2. S # {}
    BY <1>1
  <2>3. QED
    BY <2>1, <2>2, FirstIsMember
<1>3. Update(q, r)
  BY <1>1
<1> HIDE DEF q
<1>4. /\ r \in ProcRecord
      /\ r.pgdir = ptable[q].pgdir /\ r.kstack = ptable[q].kstack /\ r.pid = ptable[q].pid
      /\ r.parent = ptable[q].parent /\ r.chan = ptable[q].chan
      /\ r.state = IF ptable[q].state = "SLEEPING" THEN "RUNNABLE" ELSE ptable[q].state
  <2>1. ptable[q] \in ProcRecord
    BY <1>2 DEF TypeOK
  <2>2. QED
    BY <2>1 DEF Killed, ProcRecord, States
<1> HIDE DEF r
<1>5. QED
  BY <1>2, <1>3, <1>4

LEMMA KillTypes ==
    ASSUME ProcAssumption, TypeInv, NEW p \in Slot, Kill(p)
    PROVE  TypeInv'
<1>1. PICK q \in Slot, r \in ProcRecord :
              /\ Update(q, r)
              /\ r.pgdir = ptable[q].pgdir /\ r.kstack = ptable[q].kstack
              /\ r.parent = ptable[q].parent /\ r.chan = ptable[q].chan
              /\ r.state = IF ptable[q].state = "SLEEPING" THEN "RUNNABLE"
                           ELSE ptable[q].state
  BY KillTable DEF TypeInv
<1>2. /\ ptable' \in [Slot -> ProcRecord] /\ ptable'[q] = r
      /\ \A x \in Slot : x # q => ptable'[x] = ptable[x]
  BY <1>1, UpdateType DEF TypeInv
<1>3. UNCHANGED <<nextpid, memory, pc, locals, panicked>>
  BY DEF Kill
<1>4. TypeOK'
  BY <1>2, <1>3 DEF TypeInv, TypeOK, memory, locals
<1>5. \A x \in Slot : ptable'[x].state \in Lively \cup {"ZOMBIE"} =>
          ptable'[x].pgdir \in Page /\ ptable'[x].kstack \in Page
  BY <1>1, <1>2 DEF TypeInv, HasPages, Lively
<1>6. \A x \in Slot : ptable[x].state = "EMBRYO" => ptable'[x].state = "EMBRYO"
  BY <1>1, <1>2
<1>7. \A x \in Slot : pc'[x] # "user" => ptable'[x].state \in Lively
  BY <1>1, <1>2, <1>3 DEF TypeInv, OnlyAliveInKernel, Lively
<1>8. QED
  BY <1>3, <1>4, <1>5, <1>6, <1>7, QuietStep DEF TypeInv, locals

(* The two halves of growproc. *)
LEMMA GrowTypes ==
    ASSUME ProcAssumption, TypeInv, NEW p \in Slot,
           GrowMap(p) \/ GrowToNothing(p) \/ GrowPublish(p)
    PROVE  TypeInv'
<1>0. ptable[p] \in ProcRecord /\ ptable[p].sz \in Nat
  BY DEF TypeInv, TypeOK, ProcRecord
<1>1. CASE GrowMap(p)
  <2>1. /\ Running(p) /\ Goto(p, "grow")
        /\ UNCHANGED <<ptable, nextpid, freelist, lost, np, panicked>>
    BY <1>1 DEF GrowMap, Syscall
  <2>2. newsz' \in [Slot -> Nat]
    BY <1>0, <1>1 DEF GrowMap, TypeInv, TypeOK
  <2>3. mapped' \in [Page -> SUBSET (1 .. MaxSz)]
    BY <1>0, <1>1, ProcAssumption DEF GrowMap, TypeInv, TypeOK
  <2>4. /\ pc' \in [Slot -> Points] /\ pc'[p] = "grow"
        /\ \A q \in Slot : q # p => pc'[q] = pc[q]
    BY <2>1 DEF Goto, Points, TypeInv, TypeOK
  <2>5. TypeOK'
    BY <2>1, <2>2, <2>3, <2>4 DEF TypeInv, TypeOK
  <2>6. \A q \in Slot : pc'[q] \in Creating => pc[q] \in Creating /\ np'[q] = np[q]
    BY <2>1, <2>4 DEF Creating
  <2>7. \A q \in Slot : pc'[q] # pc[q] => ptable[q].state = "RUNNING"
    BY <2>1, <2>4 DEF Running
  <2>8. QED
    BY <2>1, <2>5, <2>6, <2>7, NoSlotStep DEF TypeInv
<1>2. CASE GrowToNothing(p)
  <2>1. /\ UNCHANGED <<ptable, nextpid, freelist, lost, pc, locals, panicked>>
        /\ mapped' \in [Page -> SUBSET (1 .. MaxSz)]
    BY <1>2 DEF GrowToNothing, TypeInv, TypeOK
  <2>2. TypeOK'
    BY <2>1 DEF TypeInv, TypeOK, locals
  <2>3. QED
    BY <2>1, <2>2, NoSlotStep DEF TypeInv, locals
<1>3. CASE GrowPublish(p)
  <2>1. /\ Running(p) /\ Goto(p, "user") /\ UNCHANGED <<nextpid, memory, locals, panicked>>
        /\ ptable' = [q \in Slot |-> IF q = p \/ q \in Children(p)
                                     THEN [ptable[q] EXCEPT !.sz = newsz[p]]
                                     ELSE ptable[q]]
    BY <1>3 DEF GrowPublish
  <2>2. ASSUME NEW q \in Slot
        PROVE  LET r == [ptable[q] EXCEPT !.sz = newsz[p]]
               IN  /\ r \in ProcRecord /\ r.state = ptable[q].state
                   /\ r.pgdir = ptable[q].pgdir /\ r.kstack = ptable[q].kstack
    BY DEF TypeInv, TypeOK, ProcRecord
  <2>3. /\ ptable' \in [Slot -> ProcRecord]
        /\ \A q \in Slot : /\ ptable'[q].state = ptable[q].state
                           /\ ptable'[q].pgdir = ptable[q].pgdir
                           /\ ptable'[q].kstack = ptable[q].kstack
    BY <2>1, <2>2 DEF TypeInv, TypeOK
  <2>4. /\ pc' \in [Slot -> Points] /\ pc'[p] = "user"
        /\ \A q \in Slot : q # p => pc'[q] = pc[q]
    BY <2>1 DEF Goto, Points, TypeInv, TypeOK
  <2>5. TypeOK'
    BY <2>1, <2>3, <2>4 DEF TypeInv, TypeOK, memory, locals
  <2>6. \A q \in Slot : ptable'[q].state \in Lively \cup {"ZOMBIE"} =>
            ptable'[q].pgdir \in Page /\ ptable'[q].kstack \in Page
    BY <2>3 DEF TypeInv, HasPages, Lively
  <2>7. \A q \in Slot : pc'[q] # "user" => ptable'[q].state \in Lively
    BY <2>3, <2>4 DEF TypeInv, OnlyAliveInKernel, Lively
  <2>8. \A q \in Slot : pc'[q] \in Creating => pc[q] \in Creating /\ np'[q] = np[q]
    BY <2>1, <2>4 DEF Creating, locals
  <2>9. QED
    BY <2>3, <2>5, <2>6, <2>7, <2>8, QuietStep DEF TypeInv
<1>4. QED
  BY <1>1, <1>2, <1>3

LEMMA TickTypes ==
    ASSUME ProcAssumption, TypeInv, Tick
    PROVE  TypeInv'
<1>1. ptable' = Wakeup1(ptable, Ticks) /\ UNCHANGED <<nextpid, memory, pc, locals, panicked>>
  BY DEF Tick
<1>2. /\ ptable' \in [Slot -> ProcRecord]
      /\ \A q \in Slot : /\ ptable'[q].pgdir = ptable[q].pgdir
                         /\ ptable'[q].kstack = ptable[q].kstack
                         /\ \/ ptable'[q].state = ptable[q].state
                            \/ ptable[q].state = "SLEEPING" /\ ptable'[q].state = "RUNNABLE"
  BY <1>1, WakeupType DEF TypeInv, TypeOK
<1>3. TypeOK'
  BY <1>1, <1>2 DEF TypeInv, TypeOK, memory, locals
<1>4. \A x \in Slot : ptable'[x].state \in Lively \cup {"ZOMBIE"} =>
          ptable'[x].pgdir \in Page /\ ptable'[x].kstack \in Page
  BY <1>2 DEF TypeInv, HasPages, Lively
<1>5. \A x \in Slot : pc'[x] # "user" => ptable'[x].state \in Lively
  BY <1>1, <1>2 DEF TypeInv, OnlyAliveInKernel, Lively
<1>6. \A x \in Slot : ptable[x].state = "EMBRYO" => ptable'[x].state = "EMBRYO"
  BY <1>2
<1>7. QED
  BY <1>1, <1>3, <1>4, <1>5, <1>6, QuietStep DEF TypeInv, locals

-----------------------------------------------------------------------------
LEMMA TypeInit == ProcAssumption /\ Init => TypeInv
<1> SUFFICES ASSUME ProcAssumption, Init PROVE TypeInv
  OBVIOUS
<1>1. InitProc \in Slot /\ 1 \in Page /\ 2 \in Page /\ 1 \in 1 .. MaxSz
  BY ProcAssumption DEF InitProc, Slot, Page
<1> DEFINE first == [Unused EXCEPT !.state = "RUNNABLE", !.pid = 1,
                                   !.kstack = 1, !.pgdir = 2, !.sz = 1]
<1>2. /\ Unused \in ProcRecord /\ first \in ProcRecord /\ Unused.state = "UNUSED"
      /\ first.pgdir = 2 /\ first.kstack = 1 /\ first.state = "RUNNABLE"
  BY <1>1 DEF Unused, ProcRecord, States
<1>3. ptable = [p \in Slot |-> IF p = InitProc THEN first ELSE Unused]
  BY DEF Init
<1> HIDE DEF first
<1>4. TypeOK
  BY <1>1, <1>2, <1>3 DEF Init, TypeOK, Points
<1>5. HasPages
  BY <1>1, <1>2, <1>3 DEF HasPages
<1>6. CreatorHasSlot /\ OnlyAliveInKernel
  BY DEF Init, CreatorHasSlot, OnlyAliveInKernel, Creating
<1>7. QED
  BY <1>4, <1>5, <1>6 DEF TypeInv

LEMMA TypeStep == ProcAssumption /\ TypeInv /\ [Next]_vars => TypeInv'
<1> SUFFICES ASSUME ProcAssumption, TypeInv, [Next]_vars PROVE TypeInv'
  OBVIOUS
<1> USE DEF Creating, Points
<1>1. CASE UNCHANGED vars
  <2>1. TypeOK'
    BY <1>1 DEF vars, memory, locals, TypeInv, TypeOK
  <2>2. HasPages' /\ CreatorHasSlot' /\ OnlyAliveInKernel'
    BY <1>1, NoSlotStep DEF vars, locals
  <2>3. QED
    BY <2>1, <2>2 DEF TypeInv
<1>2. ASSUME UNCHANGED <<ptable, nextpid, memory, pc, locals>>, panicked' \in BOOLEAN
      PROVE  TypeInv'
  <2>1. TypeOK'
    BY <1>2 DEF memory, locals, TypeInv, TypeOK
  <2>2. HasPages' /\ CreatorHasSlot' /\ OnlyAliveInKernel'
    BY <1>2, NoSlotStep DEF locals
  <2>3. QED
    BY <2>1, <2>2 DEF TypeInv
<1>3. ASSUME NEW p \in Slot, Schedule(p) \/ Yield(p) \/ Fault(p) PROVE TypeInv'
  BY <1>3, SchedulerTypes
<1>4. ASSUME NEW p \in Slot, ForkStep(p) PROVE TypeInv'
  <2>1. CASE ForkStart(p)
    BY <2>1, AllocTypes DEF ForkStart, Syscall
  <2>2. CASE NoStack(p) \/ ForkFail(p) \/ ForkLeak(p)
    BY <2>2, GiveUpTypes
  <2>3. CASE Fork(p)
    BY <2>3, ForkTypes
  <2>4. CASE ForkPanic(p)
    BY <2>4, <1>2 DEF ForkPanic
  <2>5. CASE ForkSize(p)
    BY <2>5, SizeTypes
  <2>6. QED
    BY <1>4, <2>1, <2>2, <2>3, <2>4, <2>5 DEF ForkStep
<1>5. ASSUME NEW p \in Slot, CloneStep(p) PROVE TypeInv'
  <2>1. CASE CloneStart(p)
    BY <2>1, AllocTypes DEF CloneStart, Syscall
  <2>2. CASE BadCloneStart(p)
    BY <2>2, AllocTypes DEF BadCloneStart, Syscall
  <2>3. CASE Clone(p)
    BY <2>3, CloneTypes DEF Clone
  <2>4. CASE BadClone(p)
    BY <2>4, CloneTypes DEF BadClone
  <2>5. QED
    BY <1>5, <2>1, <2>2, <2>3, <2>4 DEF CloneStep
<1>6. ASSUME NEW p \in Slot, Exit(p) PROVE TypeInv'
  BY <1>6, ExitTypes
<1>7. ASSUME NEW p \in Slot, WaitStep(p) PROVE TypeInv'
  <2>1. CASE WaitStart(p)
    BY <2>1, CallTypes DEF WaitStart, Syscall
  <2>2. CASE WaitReap(p)
    BY <2>2, WaitReapTypes
  <2>3. CASE WaitFail(p)
    BY <2>3, CallTypes DEF WaitFail
  <2>4. CASE WaitSleep(p)
    <3>1. pc' = [pc EXCEPT ![p] = "wait"]
      BY <2>4 DEF WaitSleep, TypeInv, TypeOK
    <3>2. QED
      BY <2>4, <3>1, SleepTypes DEF WaitSleep
  <2>5. QED
    BY <1>7, <2>1, <2>2, <2>3, <2>4 DEF WaitStep
<1>8. ASSUME NEW p \in Slot, JoinStep(p) PROVE TypeInv'
  <2>1. CASE JoinStart(p)
    BY <2>1, CallTypes DEF JoinStart, Syscall
  <2>2. CASE JoinReap(p)
    BY <2>2, JoinReapTypes
  <2>3. CASE JoinFail(p)
    BY <2>3, CallTypes DEF JoinFail
  <2>4. CASE JoinSleep(p)
    <3>1. pc' = [pc EXCEPT ![p] = "join"]
      BY <2>4 DEF JoinSleep, TypeInv, TypeOK
    <3>2. QED
      BY <2>4, <3>1, SleepTypes DEF JoinSleep
  <2>5. QED
    BY <1>8, <2>1, <2>2, <2>3, <2>4 DEF JoinStep
<1>9. ASSUME NEW p \in Slot, Exec(p) \/ ExecLeak(p) \/ Kill(p) PROVE TypeInv'
  BY <1>9, ExecTypes, ExecLeakTypes, KillTypes
<1>10. ASSUME NEW p \in Slot, GrowStep(p) PROVE TypeInv'
  <2>1. CASE GrowPanic(p)
    BY <2>1, <1>2 DEF GrowPanic
  <2>2. QED
    BY <1>10, <2>1, GrowTypes DEF GrowStep
<1>11. ASSUME NEW p \in Slot, SleepStep(p) PROVE TypeInv'
  <2>1. CASE SleepStart(p)
    BY <2>1, CallTypes DEF SleepStart, Syscall
  <2>2. CASE SleepSpin(p)
    BY <2>2, CallTypes DEF SleepSpin
  <2>3. CASE SleepTest(p)
    BY <2>3, CallTypes DEF SleepTest
  <2>4. CASE SleepNow(p)
    BY <2>4, SleepTypes DEF SleepNow, Goto
  <2>5. QED
    BY <1>11, <2>1, <2>2, <2>3, <2>4 DEF SleepStep
<1>12. CASE InitExit
  BY <1>12, <1>2 DEF InitExit
<1>13. CASE Tick
  BY <1>13, TickTypes
<1>14. QED
  BY <1>1, <1>3, <1>4, <1>5, <1>6, <1>7, <1>8, <1>9, <1>10, <1>11, <1>12, <1>13
     DEF Next

(* The process table, the page list and the kernel's local variables keep  *)
(* their types, whatever the processes do; whoever runs has its pages, and *)
(* whoever is in fork or clone has a slot to itself, still an EMBRYO.      *)
THEOREM TypeCorrect == Spec => [](TypeOK /\ HasPages /\ CreatorHasSlot /\ OnlyAliveInKernel)
<1>1. Init => TypeInv
  BY TypeInit, ProcAssumption
<1>2. TypeInv /\ [Next]_vars => TypeInv'
  BY TypeStep, ProcAssumption
<1>3. TypeInv => TypeOK /\ HasPages /\ CreatorHasSlot /\ OnlyAliveInKernel
  BY DEF TypeInv
<1>4. QED
  BY <1>1, <1>2, <1>3, PTL DEF Spec

-----------------------------------------------------------------------------
(* Parents.  Whoever has a parent pointer has a living parent, not itself; *)
(* whoever runs or has exited has one; and whoever is asleep in wait or    *)
(* join sleeps on its own slot, where exit will look for it.               *)

InitLives == InitProc \in Alive /\ ptable[InitProc].parent = None

Linked ==
    \A p \in Slot : ptable[p].parent # None =>
        ptable[p].parent \in Alive /\ ptable[p].parent # p

Parented ==
    \A p \in Alive \cup InState("ZOMBIE") : p # InitProc => ptable[p].parent # None

SleepsOnItself ==
    \A p \in InState("SLEEPING") : pc[p] \in {"wait", "join"} => ptable[p].chan = p

FamilyInv == InitLives /\ Linked /\ Parented /\ SleepsOnItself /\ NoLostWakeup

(* What a step may do to the family: nobody dies, nobody becomes a ZOMBIE, *)
(* new parents are alive, and whoever is asleep in wait or join had nobody *)
(* to collect.                                                             *)
LEMMA FamilyStep ==
    ASSUME TypeInv, FamilyInv,
           \A q \in Slot : ptable[q].state \in Lively => ptable'[q].state \in Lively,
           \A q \in Slot : ptable'[q].state = "ZOMBIE" =>
                /\ ptable[q].state = "ZOMBIE"
                /\ ptable'[q].parent = ptable[q].parent /\ ptable'[q].pgdir = ptable[q].pgdir,
           \A q \in Slot : ptable'[q].state \in Lively =>
                \/ ptable[q].state \in Lively /\ ptable'[q].parent = ptable[q].parent
                \/ ptable[q].state = "EMBRYO" /\ ptable'[q].parent # None,
           \A q \in Slot : ptable'[q].parent # None =>
                \/ ptable'[q].parent = ptable[q].parent
                \/ ptable'[q].parent \in Alive /\ ptable'[q].parent # q,
           \A q \in Slot : ptable'[q].state = "SLEEPING" /\ pc'[q] \in {"wait", "join"} =>
                /\ ptable'[q].chan = q /\ ptable'[q].pgdir = ptable[q].pgdir
                /\ pc'[q] = "wait" => Zombies(Processes(q)) = {}
                /\ pc'[q] = "join" => Zombies(Threads(q)) = {}
    PROVE  FamilyInv'
<1>1. Alive \subseteq Alive'
  BY DEF Alive, Lively
<1>2. InitLives'
  BY <1>1 DEF FamilyInv, InitLives, Alive, Lively
<1>3. Linked'
  BY <1>1 DEF FamilyInv, Linked
<1>4. Parented'
  BY DEF FamilyInv, Parented, Alive, InState, Lively
<1>5. SleepsOnItself'
  BY DEF SleepsOnItself, InState
<1>6. NoLostWakeup'
  <2>1. ASSUME NEW p \in Slot, ptable'[p].state = "SLEEPING", pc'[p] = "wait"
        PROVE  Zombies(Processes(p))' = {}
    <3>1. ptable'[p].pgdir = ptable[p].pgdir /\ Zombies(Processes(p)) = {}
      BY <2>1
    <3>2. Zombies(Processes(p))' \subseteq Zombies(Processes(p))
      BY <3>1 DEF Zombies, Processes, Children
    <3>3. QED
      BY <3>1, <3>2
  <2>2. ASSUME NEW p \in Slot, ptable'[p].state = "SLEEPING", pc'[p] = "join"
        PROVE  Zombies(Threads(p))' = {}
    <3>1. ptable'[p].pgdir = ptable[p].pgdir /\ Zombies(Threads(p)) = {}
      BY <2>2
    <3>2. Zombies(Threads(p))' \subseteq Zombies(Threads(p))
      BY <3>1 DEF Zombies, Threads, Children
    <3>3. QED
      BY <3>1, <3>2
  <2>3. QED
    BY <2>1, <2>2 DEF NoLostWakeup, InState
<1>7. QED
  BY <1>2, <1>3, <1>4, <1>5, <1>6 DEF FamilyInv

(* The same for a step that writes one slot. *)
LEMMA FamilyUpdate ==
    ASSUME TypeInv, FamilyInv, NEW q \in Slot, NEW r \in ProcRecord, Update(q, r),
           \A x \in Slot : x # q /\ ptable[x].state = "SLEEPING" => pc'[x] = pc[x],
           ptable[q].state \in Lively => r.state \in Lively,
           r.state = "ZOMBIE" =>
                /\ ptable[q].state = "ZOMBIE"
                /\ r.parent = ptable[q].parent /\ r.pgdir = ptable[q].pgdir,
           r.state \in Lively =>
                \/ ptable[q].state \in Lively /\ r.parent = ptable[q].parent
                \/ ptable[q].state = "EMBRYO" /\ r.parent # None,
           r.parent # None =>
                \/ r.parent = ptable[q].parent
                \/ r.parent \in Alive /\ r.parent # q,
           r.state = "SLEEPING" /\ pc'[q] \in {"wait", "join"} =>
                /\ r.chan = q /\ r.pgdir = ptable[q].pgdir
                /\ pc'[q] = "wait" => Zombies(Processes(q)) = {}
                /\ pc'[q] = "join" => Zombies(Threads(q)) = {}
    PROVE  FamilyInv'
<1>1. ptable'[q] = r /\ \A x \in Slot : x # q => ptable'[x] = ptable[x]
  BY UpdateType DEF TypeInv
<1>2. \A x \in Slot : ptable[x].state = "SLEEPING" /\ pc[x] \in {"wait", "join"} =>
                /\ ptable[x].chan = x
                /\ pc[x] = "wait" => Zombies(Processes(x)) = {}
                /\ pc[x] = "join" => Zombies(Threads(x)) = {}
  BY DEF FamilyInv, SleepsOnItself, NoLostWakeup, InState
<1>3. \A x \in Slot : ptable[x].state \in Lively => ptable'[x].state \in Lively
  BY <1>1
<1>4. \A x \in Slot : ptable'[x].state = "ZOMBIE" =>
                /\ ptable[x].state = "ZOMBIE"
                /\ ptable'[x].parent = ptable[x].parent /\ ptable'[x].pgdir = ptable[x].pgdir
  BY <1>1
<1>5. \A x \in Slot : ptable'[x].state \in Lively =>
                \/ ptable[x].state \in Lively /\ ptable'[x].parent = ptable[x].parent
                \/ ptable[x].state = "EMBRYO" /\ ptable'[x].parent # None
  BY <1>1
<1>6. \A x \in Slot : ptable'[x].parent # None =>
                \/ ptable'[x].parent = ptable[x].parent
                \/ ptable'[x].parent \in Alive /\ ptable'[x].parent # x
  BY <1>1
<1>7. \A x \in Slot : ptable'[x].state = "SLEEPING" /\ pc'[x] \in {"wait", "join"} =>
                /\ ptable'[x].chan = x /\ ptable'[x].pgdir = ptable[x].pgdir
                /\ pc'[x] = "wait" => Zombies(Processes(x)) = {}
                /\ pc'[x] = "join" => Zombies(Threads(x)) = {}
  BY <1>1, <1>2
<1>8. QED
  BY <1>3, <1>4, <1>5, <1>6, <1>7, FamilyStep

(* A step that moves one running process and writes no slot. *)
LEMMA FamilyCall ==
    ASSUME TypeInv, FamilyInv, NEW p \in Slot, Running(p), ptable' = ptable,
           \A x \in Slot : x # p => pc'[x] = pc[x]
    PROVE  FamilyInv'
<1>1. \A x \in Slot : ptable[x].state = "SLEEPING" /\ pc[x] \in {"wait", "join"} =>
                /\ ptable[x].chan = x
                /\ pc[x] = "wait" => Zombies(Processes(x)) = {}
                /\ pc[x] = "join" => Zombies(Threads(x)) = {}
  BY DEF FamilyInv, SleepsOnItself, NoLostWakeup, InState
<1>2. \A x \in Slot : ptable'[x].state = "SLEEPING" /\ pc'[x] \in {"wait", "join"} =>
                /\ ptable'[x].chan = x /\ ptable'[x].pgdir = ptable[x].pgdir
                /\ pc'[x] = "wait" => Zombies(Processes(x)) = {}
                /\ pc'[x] = "join" => Zombies(Threads(x)) = {}
  BY <1>1 DEF Running
<1>3. \A x \in Slot : ptable[x].state \in Lively =>
         \/ ptable[x].state \in Lively /\ ptable'[x].parent = ptable[x].parent
         \/ ptable[x].state = "EMBRYO" /\ ptable'[x].parent # None
  OBVIOUS
<1>4. QED
  BY <1>2, <1>3, FamilyStep

(* Only the caller moves. *)
LEMMA GotoMoves ==
    ASSUME TypeInv, NEW p \in Slot, NEW point, pc' = [pc EXCEPT ![p] = point]
    PROVE  pc'[p] = point /\ \A x \in Slot : x # p => pc'[x] = pc[x]
  BY DEF TypeInv, TypeOK

(* Exit.  The parent cannot be asleep in wait or join afterwards, nor can  *)
(* init if it is given a ZOMBIE.                                           *)
LEMMA ExitFamily ==
    ASSUME ProcAssumption, TypeInv, FamilyInv, NEW p \in Slot, Exit(p)
    PROVE  FamilyInv'
<1>0. p # InitProc /\ Running(p) /\ pc' = pc /\ InitProc \in Slot
  BY ProcAssumption DEF Exit, InitProc, Slot
<1>1. /\ ptable'[p].state = "ZOMBIE" /\ ptable'[p].pgdir = ptable[p].pgdir
      /\ ptable'[p].parent = IF ptable[p].parent = p THEN InitProc ELSE ptable[p].parent
      /\ \A q \in Slot : q # p => ExitFate(p, q, ptable'[q])
  BY ExitTable
<1>2. /\ ptable[p].parent \in Alive /\ ptable[p].parent # p
      /\ ptable'[p].parent = ptable[p].parent
  BY <1>0, <1>1 DEF FamilyInv, Linked, Parented, Alive, Running
<1>3. \A q \in Slot : q # p =>
         /\ ptable[q].state \in Lively => ptable'[q].state \in Lively
         /\ ptable'[q].state = "ZOMBIE" => ptable[q].state = "ZOMBIE"
         /\ ptable'[q].state \in Lively => ptable[q].state \in Lively
         /\ ptable'[q].parent = IF ptable[q].parent = p THEN InitProc ELSE ptable[q].parent
         /\ ptable'[q].pgdir = ptable[q].pgdir /\ ptable'[q].chan = ptable[q].chan
  BY <1>1 DEF ExitFate, Lively
<1>4. Alive' = Alive \ {p}
  BY <1>1, <1>3 DEF Alive, Lively
<1>5. InitLives'
  <2>1. None # p
    BY ProcAssumption DEF Slot
  <2>2. QED
    BY <1>0, <1>3, <1>4, <2>1 DEF FamilyInv, InitLives
<1>6. Linked'
  <2>1. ASSUME NEW q \in Slot, q # p, ptable'[q].parent # None
        PROVE  ptable'[q].parent \in Alive \ {p} /\ ptable'[q].parent # q
    <3>1. CASE ptable[q].parent = p
      <4>1. ptable'[q].parent = InitProc /\ InitProc \in Alive \ {p}
        BY <1>0, <1>3, <2>1, <3>1 DEF FamilyInv, InitLives
      <4>2. q # InitProc
        BY <1>0, <3>1, ProcAssumption DEF FamilyInv, InitLives, Slot
      <4>3. QED
        BY <4>1, <4>2
    <3>2. CASE ptable[q].parent # p
      BY <1>3, <2>1, <3>2 DEF FamilyInv, Linked
    <3>3. QED
      BY <3>1, <3>2
  <2>2. QED
    BY <1>2, <1>4, <2>1 DEF Linked
<1>7. Parented'
  <2>1. ASSUME NEW q \in Slot, q # p, ptable'[q].state \in Lively \cup {"ZOMBIE"},
               q # InitProc
        PROVE  ptable'[q].parent # None
    <3>1. ptable[q].parent # None
      BY <1>3, <2>1 DEF FamilyInv, Parented, Alive, InState, Lively
    <3>2. QED
      BY <1>3, <2>1, <3>1, ProcAssumption DEF InitProc
  <2>2. ptable'[p].parent # None
    BY <1>0, <1>2 DEF FamilyInv, Parented, Alive, Running
  <2>3. QED
    BY <2>1, <2>2 DEF Parented, Alive, InState, Lively
<1>8. SleepsOnItself'
  <2>1. ASSUME NEW q \in Slot, ptable'[q].state = "SLEEPING"
        PROVE  q # p /\ ptable[q].state = "SLEEPING"
    BY <1>1, <2>1 DEF ExitFate
  <2>2. QED
    BY <1>0, <1>3, <2>1 DEF FamilyInv, SleepsOnItself, InState
<1>9. NoLostWakeup'
  <2>1. ASSUME NEW q \in Slot, ptable'[q].state = "SLEEPING", pc[q] \in {"wait", "join"}
        PROVE  /\ q # p /\ ptable[q].state = "SLEEPING" /\ q # ptable[p].parent
               /\ q = InitProc => Zombies(Children(p)) = {}
    <3>1. q # p /\ ExitFate(p, q, ptable'[q])
      BY <1>1, <2>1
    <3>2. ptable[q].state = "SLEEPING"
      BY <2>1, <3>1 DEF ExitFate
    <3>3. ptable[q].chan = q
      BY <2>1, <3>2 DEF FamilyInv, SleepsOnItself, InState
    <3>4. QED
      BY <2>1, <3>1, <3>2, <3>3 DEF ExitFate
  <2>2. ASSUME NEW q \in Slot, ptable'[q].state = "SLEEPING", pc[q] \in {"wait", "join"},
               NEW x \in Zombies(Children(q))'
        PROVE  /\ x \in Zombies(Children(q)) /\ ptable'[x].pgdir = ptable[x].pgdir
               /\ ptable'[q].pgdir = ptable[q].pgdir
    <3>1. x \in Slot /\ ptable'[x].state = "ZOMBIE" /\ ptable'[x].parent = q
      BY <2>2 DEF Zombies, Children
    <3>2. x # p
      BY <1>2, <2>1, <2>2, <3>1
    <3>3. ptable[x].state = "ZOMBIE"
      BY <1>3, <3>1, <3>2
    <3>4. CASE ptable[x].parent = p
      <4>1. q = InitProc
        BY <1>3, <3>1, <3>2, <3>4
      <4>2. x \in Zombies(Children(p))
        BY <3>1, <3>3, <3>4 DEF Zombies, Children
      <4>3. QED
        BY <2>1, <2>2, <4>1, <4>2
    <3>5. CASE ptable[x].parent # p
      BY <1>3, <2>1, <2>2, <3>1, <3>2, <3>3, <3>5 DEF Zombies, Children
    <3>6. QED
      BY <3>4, <3>5
  <2>3. ASSUME NEW q \in Slot, ptable'[q].state = "SLEEPING", pc[q] = "wait"
        PROVE  Zombies(Processes(q))' = {}
    <3>1. Zombies(Processes(q)) = {}
      BY <2>1, <2>3 DEF FamilyInv, NoLostWakeup, InState
    <3>2. Zombies(Processes(q))' \subseteq Zombies(Processes(q))
      BY <2>2, <2>3 DEF Zombies, Processes, Children
    <3>3. QED
      BY <3>1, <3>2
  <2>4. ASSUME NEW q \in Slot, ptable'[q].state = "SLEEPING", pc[q] = "join"
        PROVE  Zombies(Threads(q))' = {}
    <3>1. Zombies(Threads(q)) = {}
      BY <2>1, <2>4 DEF FamilyInv, NoLostWakeup, InState
    <3>2. Zombies(Threads(q))' \subseteq Zombies(Threads(q))
      BY <2>2, <2>4 DEF Zombies, Threads, Children
    <3>3. QED
      BY <3>1, <3>2
  <2>5. QED
    BY <1>0, <2>3, <2>4 DEF NoLostWakeup, InState
<1>10. QED
  BY <1>5, <1>6, <1>7, <1>8, <1>9 DEF FamilyInv

LEMMA FamilyNext == ProcAssumption /\ TypeInv /\ FamilyInv /\ Next => FamilyInv'
<1> SUFFICES ASSUME ProcAssumption, TypeInv, FamilyInv, Next PROVE FamilyInv'
  OBVIOUS
<1>0. InitProc \in Slot /\ None \notin Slot
  BY ProcAssumption DEF InitProc, Slot
<1>1. ASSUME UNCHANGED <<ptable, pc>> PROVE FamilyInv'
  BY <1>1 DEF FamilyInv, InitLives, Linked, Parented, SleepsOnItself, NoLostWakeup,
              Alive, InState, Zombies, Processes, Threads, Children
<1>2. ASSUME NEW p \in Slot, Schedule(p) \/ Yield(p) \/ Fault(p) PROVE FamilyInv'
  <2>0. ptable[p] \in ProcRecord
    BY DEF TypeInv, TypeOK
  <2>1. PICK r \in ProcRecord :
            /\ Update(p, r) /\ r.pgdir = ptable[p].pgdir /\ r.parent = ptable[p].parent
            /\ r.state \in {"RUNNING", "RUNNABLE"}
            /\ ptable[p].state \in {"RUNNING", "RUNNABLE"}
    <3>1. CASE Schedule(p)
      BY <2>0, <3>1 DEF Schedule, ProcRecord, States
    <3>2. CASE Yield(p)
      BY <2>0, <3>2 DEF Yield, Running, ProcRecord, States
    <3>3. CASE Fault(p)
      BY <2>0, <3>3 DEF Fault, Running, ProcRecord, States
    <3>4. QED
      BY <1>2, <3>1, <3>2, <3>3
  <2>2. pc' = pc
    BY <1>2 DEF Schedule, Yield, Fault
  <2>3. QED
    BY <2>1, <2>2, FamilyUpdate DEF Lively
<1>3. ASSUME NEW p \in Slot, Running(p), AllocSlot(p),
             \A x \in Slot : x # p => pc'[x] = pc[x]
      PROVE  FamilyInv'
  <2> DEFINE q == First(InState("UNUSED"))
             r == [ptable[q] EXCEPT !.state = "EMBRYO", !.pid = nextpid]
  <2>1. q \in Slot /\ ptable[q].state = "UNUSED"
    <3>1. InState("UNUSED") # {} /\ "UNUSED" \in States
      BY <1>3 DEF AllocSlot, States
    <3>2. q \in InState("UNUSED")
      BY <3>1, SlotFound DEF TypeInv
    <3>3. QED
      BY <3>2 DEF InState
  <2>2. Update(q, r)
    BY <1>3 DEF AllocSlot
  <2> HIDE DEF q
  <2>3. r \in ProcRecord /\ r.state = "EMBRYO" /\ r.parent = ptable[q].parent
    <3>1. ptable[q] \in ProcRecord /\ nextpid \in Nat
      BY <2>1 DEF TypeInv, TypeOK
    <3>2. QED
      BY <3>1 DEF ProcRecord, States
  <2> HIDE DEF r
  <2>4. \A x \in Slot : ptable[x].state = "SLEEPING" => pc'[x] = pc[x]
    BY <1>3 DEF Running
  <2>5. QED
    BY <2>1, <2>2, <2>3, <2>4, FamilyUpdate DEF Lively
<1>4. ASSUME NEW p \in Slot, Running(p), pc[p] \in Creating, BackToUser(p),
             NEW r \in ProcRecord, Update(np[p], r),
             \/ r.state = "UNUSED" /\ r.parent = ptable[np[p]].parent
             \/ r.state \in {"RUNNABLE", "EMBRYO"} /\ r.parent = p
      PROVE  FamilyInv'
  <2>1. np[p] \in Slot /\ ptable[np[p]].state = "EMBRYO" /\ np[p] # p
    BY <1>4 DEF TypeInv, CreatorHasSlot, Running
  <2>2. \A x \in Slot : ptable[x].state = "SLEEPING" => pc'[x] = pc[x]
    BY <1>4, GotoMoves DEF BackToUser, Goto, Running
  <2>3. p \in Alive /\ p # None
    BY <1>0, <1>4 DEF Alive, Running
  <2>4. QED
    BY <1>4, <2>1, <2>2, <2>3, FamilyUpdate DEF Lively
<1>5. ASSUME NEW p \in Slot, NoStack(p) \/ ForkFail(p) \/ ForkLeak(p) PROVE FamilyInv'
  <2>1. /\ Running(p) /\ pc[p] \in Creating /\ BackToUser(p)
        /\ Update(np[p], [ptable[np[p]] EXCEPT !.state = "UNUSED", !.kstack = None])
    BY <1>5 DEF NoStack, ForkFail, ForkLeak, Creating
  <2>2. ptable[np[p]] \in ProcRecord
    BY <2>1 DEF TypeInv, TypeOK, CreatorHasSlot
  <2> DEFINE r == [ptable[np[p]] EXCEPT !.state = "UNUSED", !.kstack = None]
  <2>3. r \in ProcRecord /\ r.state = "UNUSED" /\ r.parent = ptable[np[p]].parent
    BY <2>2 DEF ProcRecord, States
  <2> HIDE DEF r
  <2>4. Update(np[p], r)
    BY <2>1 DEF r
  <2>5. QED
    BY <1>4, <2>1, <2>3, <2>4
<1>6. ASSUME NEW p \in Slot, Fork(p) PROVE FamilyInv'
  <2> DEFINE ks == Kalloc(freelist)
             pd == Kalloc(freelist \ {ks})
             r == [ptable[np[p]] EXCEPT !.state = "RUNNABLE", !.parent = p,
                      !.pgdir = pd, !.kstack = ks, !.sz = ptable[p].sz]
  <2>1. Running(p) /\ pc[p] \in Creating /\ BackToUser(p) /\ Update(np[p], r)
    BY <1>6 DEF Fork, Creating
  <2>2. ptable[np[p]] \in ProcRecord /\ np[p] \in Slot
    BY <2>1 DEF TypeInv, TypeOK, CreatorHasSlot
  <2>3. ptable' = [ptable EXCEPT ![np[p]] = r] /\ ptable' \in [Slot -> ProcRecord]
    <3>1. TypeInv'
      BY <1>6, ForkTypes
    <3>2. QED
      BY <2>1, <3>1 DEF Update, TypeInv, TypeOK
  <2> HIDE DEF ks, pd
  <2>4. r.state = "RUNNABLE" /\ r.parent = p
    BY <2>2 DEF ProcRecord
  <2> HIDE DEF r
  <2>5. r \in ProcRecord
    BY <2>2, <2>3 DEF TypeInv, TypeOK
  <2>6. QED
    BY <1>4, <2>1, <2>4, <2>5
<1>7. ASSUME NEW p \in Slot, Clone(p) \/ BadClone(p) PROVE FamilyInv'
  <2>1. PICK state \in {"RUNNABLE", "EMBRYO"} : CloneWith(p, state) /\ pc[p] \in Creating
    BY <1>7 DEF Clone, BadClone, Creating
  <2> DEFINE ks == Kalloc(freelist)
             r == [ptable[np[p]] EXCEPT !.state = state, !.parent = p,
                      !.pgdir = ptable[p].pgdir, !.kstack = ks, !.sz = ptable[p].sz]
  <2>2. Running(p) /\ BackToUser(p) /\ Update(np[p], r)
    BY <2>1 DEF CloneWith
  <2>3. ptable[np[p]] \in ProcRecord /\ np[p] \in Slot
    BY <2>1 DEF TypeInv, TypeOK, CreatorHasSlot
  <2>4. ptable' = [ptable EXCEPT ![np[p]] = r] /\ ptable' \in [Slot -> ProcRecord]
    <3>1. TypeInv'
      BY <2>1, CloneTypes
    <3>2. QED
      BY <2>2, <3>1 DEF Update, TypeInv, TypeOK
  <2> HIDE DEF ks
  <2>5. r.state = state /\ r.parent = p
    BY <2>3 DEF ProcRecord
  <2> HIDE DEF r
  <2>6. r \in ProcRecord
    BY <2>3, <2>4 DEF TypeInv, TypeOK
  <2>7. QED
    BY <1>4, <2>1, <2>2, <2>5, <2>6
<1>8. ASSUME NEW p \in Slot, ForkStep(p) \/ CloneStep(p) PROVE FamilyInv'
  <2>1. CASE ForkStart(p) \/ CloneStart(p) \/ BadCloneStart(p)
    BY <2>1, <1>3, GotoMoves DEF ForkStart, CloneStart, BadCloneStart, Syscall, Goto
  <2>2. CASE ForkPanic(p)
    BY <2>2, <1>1 DEF ForkPanic
  <2>3. CASE ForkSize(p)
    BY <2>3, GotoMoves, FamilyCall DEF ForkSize, Goto
  <2>4. QED
    BY <1>5, <1>6, <1>7, <1>8, <2>1, <2>2, <2>3 DEF ForkStep, CloneStep
<1>9. ASSUME NEW p \in Slot, Running(p), NEW point, Goto(p, point), ptable' = ptable
      PROVE  FamilyInv'
  BY <1>9, GotoMoves, FamilyCall DEF Goto
<1>10. ASSUME NEW p \in Slot, Running(p), NEW ch \in Slot \cup {Ticks}, Sleep(p, ch),
              \A x \in Slot : x # p => pc'[x] = pc[x],
              pc'[p] \in {"wait", "join"} => ch = p,
              pc'[p] = "wait" => Zombies(Processes(p)) = {},
              pc'[p] = "join" => Zombies(Threads(p)) = {}
       PROVE  FamilyInv'
  <2> DEFINE r == [ptable[p] EXCEPT !.state = "SLEEPING", !.chan = ch]
  <2>1. Update(p, r)
    BY <1>10 DEF Sleep
  <2>2. /\ r \in ProcRecord /\ r.state = "SLEEPING" /\ r.pgdir = ptable[p].pgdir
        /\ r.parent = ptable[p].parent /\ r.chan = ch
    <3>1. ptable[p] \in ProcRecord
      BY DEF TypeInv, TypeOK
    <3>2. QED
      BY <1>10, <3>1 DEF ProcRecord, States
  <2> HIDE DEF r
  <2>3. ptable[p].state \in Lively
    BY <1>10 DEF Running, Lively
  <2>4. QED
    BY <1>10, <2>1, <2>2, <2>3, FamilyUpdate DEF Lively
<1>11. ASSUME NEW p \in Slot, Running(p), Goto(p, "user"), NEW q \in Slot,
              ptable[q].state = "ZOMBIE", NEW r \in ProcRecord, r.state = "UNUSED",
              r.parent = None, Update(q, r)
       PROVE  FamilyInv'
  <2>1. \A x \in Slot : ptable[x].state = "SLEEPING" => pc'[x] = pc[x]
    BY <1>11, GotoMoves DEF Goto, Running
  <2>2. QED
    BY <1>11, <2>1, FamilyUpdate DEF Lively
<1>12. ASSUME NEW p \in Slot, WaitStep(p) PROVE FamilyInv'
  <2>1. CASE WaitStart(p) \/ WaitFail(p)
    BY <1>9, <2>1 DEF WaitStart, WaitFail, Syscall
  <2>2. CASE WaitSleep(p)
    BY <1>10, <2>2 DEF WaitSleep
  <2>3. CASE WaitReap(p)
    <3> DEFINE q == First(Zombies(Processes(p)))
               r == [Cleared(ptable[q]) EXCEPT !.kstack = None]
    <3>1. q \in Slot /\ ptable[q].state = "ZOMBIE"
      <4>1. Processes(p) \in SUBSET Slot
        BY DEF Processes, Children
      <4>2. QED
        BY <2>3, <4>1, ZombieFound DEF WaitReap
    <3>2. Running(p) /\ Goto(p, "user") /\ Update(q, r)
      BY <2>3 DEF WaitReap
    <3> HIDE DEF q
    <3>3. r \in ProcRecord /\ r.state = "UNUSED" /\ r.parent = None
      <4>1. ptable[q] \in ProcRecord
        BY <3>1 DEF TypeInv, TypeOK
      <4>2. /\ Cleared(ptable[q]) \in ProcRecord /\ Cleared(ptable[q]).state = "UNUSED"
            /\ Cleared(ptable[q]).parent = None
        BY <4>1 DEF Cleared, ProcRecord, States
      <4>3. QED
        BY <4>2 DEF ProcRecord
    <3> HIDE DEF r
    <3>4. QED
      BY <1>11, <3>1, <3>2, <3>3
  <2>4. QED
    BY <1>12, <2>1, <2>2, <2>3 DEF WaitStep
<1>13. ASSUME NEW p \in Slot, JoinStep(p) PROVE FamilyInv'
  <2>1. CASE JoinStart(p) \/ JoinFail(p)
    BY <1>9, <2>1 DEF JoinStart, JoinFail, Syscall
  <2>2. CASE JoinSleep(p)
    BY <1>10, <2>2 DEF JoinSleep
  <2>3. CASE JoinReap(p)
    <3> DEFINE q == First(Zombies(Threads(p)))
               r == Cleared(ptable[q])
    <3>1. q \in Slot /\ ptable[q].state = "ZOMBIE"
      <4>1. Threads(p) \in SUBSET Slot
        BY DEF Threads, Children
      <4>2. QED
        BY <2>3, <4>1, ZombieFound DEF JoinReap
    <3>2. Running(p) /\ Goto(p, "user") /\ Update(q, r)
      BY <2>3 DEF JoinReap
    <3> HIDE DEF q
    <3>3. r \in ProcRecord /\ r.state = "UNUSED" /\ r.parent = None
      <4>1. ptable[q] \in ProcRecord
        BY <3>1 DEF TypeInv, TypeOK
      <4>2. QED
        BY <4>1 DEF Cleared, ProcRecord, States
    <3> HIDE DEF r
    <3>4. QED
      BY <1>11, <3>1, <3>2, <3>3
  <2>4. QED
    BY <1>13, <2>1, <2>2, <2>3 DEF JoinStep
<1>14. ASSUME NEW p \in Slot, Exec(p) PROVE FamilyInv'
  <2> DEFINE r == [ptable[p] EXCEPT !.pgdir = Kalloc(freelist), !.sz = 1]
  <2>1. Running(p) /\ pc' = pc /\ Update(p, r)
    BY <1>14 DEF Exec, Syscall
  <2>2. r \in ProcRecord /\ r.state = "RUNNING" /\ r.parent = ptable[p].parent
    <3>1. freelist \in SUBSET Page /\ freelist # {}
      BY <1>14 DEF Exec, TypeInv, TypeOK
    <3>2. Kalloc(freelist) \in Page
      BY <3>1, PageFound
    <3>3. ptable[p] \in ProcRecord
      BY DEF TypeInv, TypeOK
    <3>4. QED
      BY <2>1, <3>2, <3>3 DEF ProcRecord, Running
  <2> HIDE DEF r
  <2>3. ptable[p].state = "RUNNING"
    BY <2>1 DEF Running
  <2>4. QED
    BY <2>1, <2>2, <2>3, FamilyUpdate DEF Lively
<1>15. ASSUME NEW p \in Slot, Kill(p) PROVE FamilyInv'
  <2>1. PICK q \in Slot, r \in ProcRecord :
              /\ Update(q, r)
              /\ r.pgdir = ptable[q].pgdir /\ r.kstack = ptable[q].kstack
              /\ r.parent = ptable[q].parent /\ r.chan = ptable[q].chan
              /\ r.state = IF ptable[q].state = "SLEEPING" THEN "RUNNABLE"
                           ELSE ptable[q].state
    BY <1>15, KillTable DEF TypeInv
  <2>2. pc' = pc
    BY <1>15 DEF Kill
  <2>3. QED
    BY <2>1, <2>2, FamilyUpdate DEF Lively
<1>16. ASSUME NEW p \in Slot, GrowStep(p) PROVE FamilyInv'
  <2>1. CASE GrowMap(p)
    BY <1>9, <2>1 DEF GrowMap, Syscall
  <2>2. CASE GrowToNothing(p) \/ GrowPanic(p)
    BY <1>1, <2>2 DEF GrowToNothing, GrowPanic
  <2>3. CASE GrowPublish(p)
    <3>1. Running(p) /\ Goto(p, "user")
      BY <2>3 DEF GrowPublish
    <3>2. \A q \in Slot :
             /\ ptable'[q].state = ptable[q].state /\ ptable'[q].parent = ptable[q].parent
             /\ ptable'[q].pgdir = ptable[q].pgdir /\ ptable'[q].chan = ptable[q].chan
      <4>1. ASSUME NEW q \in Slot
            PROVE  LET r == [ptable[q] EXCEPT !.sz = newsz[p]]
                   IN  /\ r.state = ptable[q].state /\ r.parent = ptable[q].parent
                       /\ r.pgdir = ptable[q].pgdir /\ r.chan = ptable[q].chan
        BY DEF TypeInv, TypeOK, ProcRecord
      <4>2. QED
        BY <2>3, <4>1 DEF GrowPublish
    <3>3. \A x \in Slot : x # p => pc'[x] = pc[x]
      BY <3>1, GotoMoves DEF Goto
    <3>4. \A x \in Slot : ptable'[x].state = "SLEEPING" /\ pc'[x] \in {"wait", "join"} =>
                /\ ptable'[x].chan = x
                /\ pc'[x] = "wait" => Zombies(Processes(x)) = {}
                /\ pc'[x] = "join" => Zombies(Threads(x)) = {}
      BY <3>1, <3>2, <3>3 DEF FamilyInv, SleepsOnItself, NoLostWakeup, InState, Running
    <3>5. QED
      BY <3>2, <3>4, FamilyStep
  <2>4. QED
    BY <1>16, <2>1, <2>2, <2>3 DEF GrowStep
<1>17. ASSUME NEW p \in Slot, SleepStep(p) PROVE FamilyInv'
  <2>1. CASE SleepStart(p) \/ SleepSpin(p) \/ SleepTest(p)
    BY <1>9, <2>1 DEF SleepStart, SleepSpin, SleepTest, Syscall
  <2>2. CASE SleepNow(p)
    <3>1. pc'[p] = "sleep" /\ \A x \in Slot : x # p => pc'[x] = pc[x]
      BY <2>2, GotoMoves DEF SleepNow, Goto
    <3>2. QED
      BY <1>10, <2>2, <3>1 DEF SleepNow
  <2>3. QED
    BY <1>17, <2>1, <2>2 DEF SleepStep
<1>18. CASE InitExit
  BY <1>1, <1>18 DEF InitExit
<1>19. CASE Tick
  <2>1. ptable' = Wakeup1(ptable, Ticks) /\ pc' = pc
    BY <1>19 DEF Tick
  <2>2. \A q \in Slot :
             /\ ptable'[q].parent = ptable[q].parent
             /\ ptable'[q].pgdir = ptable[q].pgdir /\ ptable'[q].chan = ptable[q].chan
             /\ \/ ptable'[q].state = ptable[q].state
                \/ ptable[q].state = "SLEEPING" /\ ptable'[q].state = "RUNNABLE"
    BY <2>1, WakeupType DEF TypeInv, TypeOK
  <2>3. \A x \in Slot : ptable'[x].state = "SLEEPING" /\ pc'[x] \in {"wait", "join"} =>
                /\ ptable'[x].chan = x
                /\ pc'[x] = "wait" => Zombies(Processes(x)) = {}
                /\ pc'[x] = "join" => Zombies(Threads(x)) = {}
    BY <2>1, <2>2 DEF FamilyInv, SleepsOnItself, NoLostWakeup, InState
  <2>4. \A q \in Slot : /\ ptable[q].state \in Lively => ptable'[q].state \in Lively
                        /\ ptable'[q].state \in Lively => ptable[q].state \in Lively
                        /\ ptable'[q].state = "ZOMBIE" => ptable[q].state = "ZOMBIE"
    BY <2>2 DEF Lively
  <2>5. QED
    BY <2>2, <2>3, <2>4, FamilyStep
<1>20. ASSUME NEW p \in Slot, ExecLeak(p) PROVE FamilyInv'
  BY <1>1, <1>20 DEF ExecLeak
<1>21. QED
  BY <1>2, <1>8, <1>12, <1>13, <1>14, <1>15, <1>16, <1>17, <1>18, <1>19, <1>20, ExitFamily
     DEF Next

LEMMA FamilyInit == ProcAssumption /\ Init => FamilyInv
<1> SUFFICES ASSUME ProcAssumption, Init PROVE FamilyInv
  OBVIOUS
<1> DEFINE first == [Unused EXCEPT !.state = "RUNNABLE", !.pid = 1,
                                   !.kstack = 1, !.pgdir = 2, !.sz = 1]
<1>1. /\ Unused.state = "UNUSED" /\ Unused.parent = None
      /\ first.state = "RUNNABLE" /\ first.parent = None
  BY DEF Unused
<1>2. ptable = [p \in Slot |-> IF p = InitProc THEN first ELSE Unused]
  BY DEF Init
<1> HIDE DEF first
<1>3. InitProc \in Slot
  BY ProcAssumption DEF InitProc, Slot
<1>4. InitLives
  BY <1>1, <1>2, <1>3 DEF InitLives, Alive
<1>5. Linked /\ Parented /\ SleepsOnItself /\ NoLostWakeup
  BY <1>1, <1>2 DEF Linked, Parented, SleepsOnItself, NoLostWakeup, Alive, InState
<1>6. QED
  BY <1>4, <1>5 DEF FamilyInv

(* The two invariants hold together, in every reachable state. *)
LEMMA FamilyHolds == Spec => [](TypeInv /\ FamilyInv)
<1>1. Init => TypeInv /\ FamilyInv
  BY TypeInit, FamilyInit, ProcAssumption
<1>2. TypeInv /\ FamilyInv /\ [Next]_vars => TypeInv' /\ FamilyInv'
  <2>1. ASSUME TypeInv, FamilyInv, UNCHANGED vars PROVE FamilyInv'
    BY <2>1 DEF vars, FamilyInv, InitLives, Linked, Parented, SleepsOnItself,
                NoLostWakeup, Alive, InState, Zombies, Processes, Threads, Children
  <2>2. QED
    BY <2>1, TypeStep, FamilyNext, ProcAssumption
<1>3. QED
  BY <1>1, <1>2, PTL DEF Spec

(* For every table size and whatever programs do, even with clone's leaked *)
(* slots and kill in any state: the parent of whoever runs or has exited is*)
(* alive, because exit hands all the children of its caller to init, which *)
(* never exits.                                                            *)
THEOREM ParentsCorrect == Spec => []ParentsAlive
<1>1. FamilyInv => ParentsAlive
  BY DEF FamilyInv, Linked, Parented, ParentsAlive, Alive, InState
<1>2. QED
  BY <1>1, FamilyHolds, PTL

(* For every table size and whatever programs do: no parent sleeps in wait *)
(* or join while it has a ZOMBIE to collect.                               *)
THEOREM WakeupsCorrect == Spec => []NoLostWakeup
<1>1. FamilyInv => NoLostWakeup
  BY DEF FamilyInv
<1>2. QED
  BY <1>1, FamilyHolds, PTL

-----------------------------------------------------------------------------
(* What the steps do to the records of the table, for the claims about     *)
(* slots and pages.  Most keep what those speak of.                        *)
Owner(r) == r.state \in Lively \cup {"ZOMBIE"}

Keeps(r, s) ==
    /\ Owner(s) <=> Owner(r)
    /\ s.state \in Lively <=> r.state \in Lively
    /\ s.state = "EMBRYO" <=> r.state = "EMBRYO"
    /\ s.pgdir = r.pgdir /\ s.kstack = r.kstack /\ s.pid = r.pid /\ s.parent = r.parent

(* The free pages a step takes, setupkvm loses. *)
OnlyLoses == freelist' \subseteq freelist /\ freelist' \cup lost' = freelist \cup lost

KeepsTable ==
    /\ \A q \in Slot : Keeps(ptable[q], ptable'[q])
    /\ UNCHANGED <<nextpid, np>> /\ OnlyLoses
    /\ \A q \in Slot : (pc'[q] \in Creating <=> pc[q] \in Creating)

LEMMA KeepsOne ==
    ASSUME TypeInv, NEW p \in Slot, NEW r \in ProcRecord, Update(p, r), Keeps(ptable[p], r)
    PROVE  \A q \in Slot : Keeps(ptable[q], ptable'[q])
BY UpdateType DEF TypeInv, Keeps

(* What programs have called for. *)
CalledFor ==
    /\ \A q \in Slot : /\ pc[q] \in {"clone", "badclone"} => pc[q] \in Calls
                       /\ pc[q] = "grow" => "sbrk" \in Calls
    /\ pc[InitProc] \in {"user", "fork", "copy", "wait"}

LEMMA Steps ==
    ASSUME Next
    PROVE  \/ \E p \in Slot :
                \/ Schedule(p) \/ Yield(p) \/ Fault(p)
                \/ ForkStart(p) \/ NoStack(p) \/ ForkSize(p) \/ ForkFail(p) \/ ForkLeak(p)
                \/ Fork(p) \/ ForkPanic(p)
                \/ CloneStart(p) \/ BadCloneStart(p) \/ Clone(p) \/ BadClone(p)
                \/ Exit(p) \/ WaitStart(p) \/ WaitReap(p) \/ WaitFail(p) \/ WaitSleep(p)
                \/ JoinStart(p) \/ JoinReap(p) \/ JoinFail(p) \/ JoinSleep(p)
                \/ Exec(p) \/ ExecLeak(p) \/ Kill(p)
                \/ GrowMap(p) \/ GrowToNothing(p) \/ GrowPanic(p) \/ GrowPublish(p)
                \/ SleepStart(p) \/ SleepSpin(p) \/ SleepTest(p) \/ SleepNow(p)
           \/ InitExit \/ Tick
BY DEF Next, ForkStep, CloneStep, WaitStep, JoinStep, GrowStep, SleepStep

LEMMA CalledForInit == ProcAssumption /\ Init => CalledFor
BY DEF Init, CalledFor, ProcAssumption, InitProc, Slot

LEMMA CalledForStep ==
    ASSUME ProcAssumption, TypeInv, CalledFor, [Next]_vars
    PROVE  CalledFor'
<1>0. InitProc \in Slot
  BY ProcAssumption DEF InitProc, Slot
<1>1. ASSUME pc' = pc PROVE CalledFor'
  BY <1>1 DEF CalledFor
<1>2. ASSUME NEW p \in Slot, NEW point \in {"user", "wait", "fork", "copy"}, Goto(p, point)
      PROVE  CalledFor'
  BY <1>0, <1>2, GotoMoves DEF Goto, CalledFor
<1>3. ASSUME NEW p \in Slot, NEW point, Goto(p, point), p # InitProc,
             point \in {"clone", "badclone"} => point \in Calls,
             point = "grow" => "sbrk" \in Calls
      PROVE  CalledFor'
  BY <1>0, <1>3, GotoMoves DEF Goto, CalledFor
<1>4. ASSUME NEW p \in Slot,
             NoStack(p) \/ ForkFail(p) \/ ForkLeak(p) \/ Fork(p) \/ Clone(p) \/ BadClone(p)
      PROVE  CalledFor'
  BY <1>2, <1>4 DEF Fork, NoStack, ForkFail, ForkLeak, Clone, BadClone, CloneWith, BackToUser
<1>5. ASSUME NEW p \in Slot, ForkStart(p) \/ ForkSize(p) \/ WaitStart(p) \/ WaitReap(p) \/ WaitFail(p)
             \/ JoinReap(p) \/ JoinFail(p) \/ GrowPublish(p)
      PROVE  CalledFor'
  BY <1>2, <1>5 DEF ForkStart, ForkSize, WaitStart, WaitReap, WaitFail, JoinReap, JoinFail, GrowPublish
<1>6. ASSUME NEW p \in Slot, CloneStart(p) \/ BadCloneStart(p) \/ JoinStart(p) \/ GrowMap(p) \/ SleepStart(p)
      PROVE  CalledFor'
  BY <1>3, <1>6 DEF CloneStart, BadCloneStart, JoinStart, GrowMap, SleepStart, Syscall
<1>7. ASSUME NEW p \in Slot, SleepSpin(p) \/ SleepTest(p) \/ SleepNow(p) PROVE CalledFor'
  <2>1. p # InitProc
    BY <1>7 DEF SleepSpin, SleepTest, SleepNow, CalledFor
  <2>2. \E point \in {"user", "sleep", "sleepSpin", "sleepNow"} : Goto(p, point)
    BY <1>7 DEF SleepSpin, SleepTest, SleepNow
  <2>3. QED
    BY <1>3, <2>1, <2>2
<1>8. ASSUME NEW p \in Slot,
             \/ Schedule(p) \/ Yield(p) \/ Fault(p) \/ ForkPanic(p) \/ Exit(p) \/ WaitSleep(p) \/ JoinSleep(p)
             \/ Exec(p) \/ ExecLeak(p) \/ Kill(p) \/ GrowToNothing(p) \/ GrowPanic(p)
      PROVE  pc' = pc
  BY <1>8 DEF Schedule, Yield, Fault, ForkPanic, Exit, WaitSleep, JoinSleep, Exec, ExecLeak, Kill,
                GrowToNothing, GrowPanic
<1>9. CASE InitExit \/ Tick \/ UNCHANGED vars
  BY <1>1, <1>9 DEF InitExit, Tick, vars
<1>10. CASE Next
  BY <1>1, <1>4, <1>5, <1>6, <1>7, <1>8, <1>9, <1>10, Steps
<1>11. QED
  BY <1>9, <1>10

(* The steps that keep all of it. *)
Keeping(p) ==
    \/ Schedule(p) \/ Yield(p) \/ Fault(p) \/ ForkSize(p) \/ ForkPanic(p) \/ ExecLeak(p)
    \/ WaitStart(p) \/ WaitFail(p) \/ WaitSleep(p) \/ JoinStart(p) \/ JoinFail(p) \/ JoinSleep(p)
    \/ Kill(p) \/ GrowMap(p) \/ GrowToNothing(p) \/ GrowPanic(p) \/ GrowPublish(p)
    \/ SleepStart(p) \/ SleepSpin(p) \/ SleepTest(p) \/ SleepNow(p)
    \/ InitExit \/ Tick

LEMMA KeepingSteps ==
    ASSUME ProcAssumption, TypeInv, NEW p \in Slot, Keeping(p)
    PROVE  KeepsTable
<1>0. ptable \in [Slot -> ProcRecord] /\ ptable[p] \in ProcRecord
  BY DEF TypeInv, TypeOK
<1>1. UNCHANGED <<nextpid, np>> /\ OnlyLoses
  <2>1. CASE ExecLeak(p)
    <3>1. Kalloc(freelist) \in freelist
      BY <2>1, PageFound DEF ExecLeak, TypeInv, TypeOK
    <3>2. QED
      BY <2>1, <3>1 DEF ExecLeak, Lose, OnlyLoses, locals
  <2>2. CASE ~ExecLeak(p)
    <3>1. UNCHANGED <<nextpid, np, memory>> \/ UNCHANGED <<nextpid, np, freelist, lost>>
      BY <2>2 DEF Keeping, Schedule, Yield, Fault, ForkSize, ForkPanic, WaitStart, WaitFail, WaitSleep,
             JoinStart, JoinFail, JoinSleep, Kill, GrowMap, GrowToNothing, GrowPanic, GrowPublish,
             SleepStart, SleepSpin, SleepTest, SleepNow, InitExit, Tick, locals
    <3>2. QED
      BY <3>1 DEF OnlyLoses, memory
  <2>3. QED
    BY <2>1, <2>2
<1>2. \A q \in Slot : (pc'[q] \in Creating <=> pc[q] \in Creating)
  <2>1. ASSUME NEW point, point \notin Creating, pc[p] \notin Creating, Goto(p, point)
        PROVE  \A q \in Slot : (pc'[q] \in Creating <=> pc[q] \in Creating)
    BY <2>1, GotoMoves DEF Goto
  <2>2. CASE WaitStart(p) \/ WaitFail(p) \/ JoinStart(p) \/ JoinFail(p) \/ GrowMap(p) \/ GrowPublish(p)
    BY <2>1, <2>2 DEF WaitStart, WaitFail, JoinStart, JoinFail, GrowMap, GrowPublish, Syscall, Creating
  <2>3. CASE SleepStart(p) \/ SleepSpin(p) \/ SleepTest(p) \/ SleepNow(p)
    BY <2>1, <2>3 DEF SleepStart, SleepSpin, SleepTest, SleepNow, Syscall, Creating
  <2>4. CASE ForkSize(p)
    BY <2>4, GotoMoves DEF ForkSize, Goto, Creating
  <2>5. QED
    BY <2>2, <2>3, <2>4 DEF Keeping, Schedule, Yield, Fault, ForkPanic, WaitSleep, JoinSleep, ExecLeak, Kill,
           GrowToNothing, GrowPanic, InitExit, Tick
<1>3. ASSUME ptable' = ptable PROVE \A q \in Slot : Keeps(ptable[q], ptable'[q])
  BY <1>3 DEF Keeps
<1>4. ASSUME Schedule(p) \/ Yield(p) \/ Fault(p) \/ WaitSleep(p) \/ JoinSleep(p) \/ SleepNow(p)
      PROVE  \E r \in ProcRecord : Update(p, r) /\ Keeps(ptable[p], r)
  <2>1. CASE Schedule(p)
    <3> DEFINE r == [ptable[p] EXCEPT !.state = "RUNNING", !.chan = None]
    <3>1. r \in ProcRecord /\ Keeps(ptable[p], r)
      BY <1>0, <2>1 DEF Schedule, Keeps, Owner, Lively, ProcRecord, States
    <3>2. Update(p, r)
      BY <2>1 DEF Schedule
    <3> HIDE DEF r
    <3>3. QED
      BY <3>1, <3>2
  <2>2. CASE Yield(p)
    <3> DEFINE r == [ptable[p] EXCEPT !.state = "RUNNABLE"]
    <3>1. r \in ProcRecord /\ Keeps(ptable[p], r)
      BY <1>0, <2>2 DEF Yield, Running, Keeps, Owner, Lively, ProcRecord, States
    <3>2. Update(p, r)
      BY <2>2 DEF Yield, Running
    <3> HIDE DEF r
    <3>3. QED
      BY <3>1, <3>2
  <2>3. CASE Fault(p)
    <3> DEFINE r == [ptable[p] EXCEPT !.killed = TRUE]
    <3>1. r \in ProcRecord /\ Keeps(ptable[p], r)
      BY <1>0, <2>3 DEF Fault, Running, Keeps, Owner, Lively, ProcRecord, States
    <3>2. Update(p, r)
      BY <2>3 DEF Fault, Running
    <3> HIDE DEF r
    <3>3. QED
      BY <3>1, <3>2
  <2>4. ASSUME NEW ch \in Slot \cup {Ticks}, Running(p), Sleep(p, ch)
        PROVE  \E r \in ProcRecord : Update(p, r) /\ Keeps(ptable[p], r)
    <3> DEFINE r == [ptable[p] EXCEPT !.state = "SLEEPING", !.chan = ch]
    <3>1. r \in ProcRecord /\ Keeps(ptable[p], r)
      BY <1>0, <2>4 DEF Sleep, Running, Keeps, Owner, Lively, ProcRecord, States
    <3>2. Update(p, r)
      BY <2>4 DEF Sleep, Running
    <3> HIDE DEF r
    <3>3. QED
      BY <3>1, <3>2
  <2>5. QED
    BY <1>4, <2>1, <2>2, <2>3, <2>4 DEF WaitSleep, JoinSleep, SleepNow
<1>5. CASE Kill(p)
  <2>1. PICK q \in Slot, r \in ProcRecord :
              /\ Update(q, r)
              /\ r.pgdir = ptable[q].pgdir /\ r.kstack = ptable[q].kstack /\ r.pid = ptable[q].pid
              /\ r.parent = ptable[q].parent /\ r.chan = ptable[q].chan
              /\ r.state = IF ptable[q].state = "SLEEPING" THEN "RUNNABLE"
                           ELSE ptable[q].state
    BY <1>5, KillTable DEF TypeInv
  <2>2. Keeps(ptable[q], r)
    BY <2>1 DEF Keeps, Owner, Lively
  <2>3. QED
    BY <1>1, <1>2, <2>1, <2>2, KeepsOne DEF KeepsTable
<1>6. CASE GrowPublish(p)
  <2>1. \A n : \A r \in ProcRecord : Keeps(r, [r EXCEPT !.sz = n]) /\ Keeps(r, r)
    BY DEF Keeps, Owner, ProcRecord
  <2>2. \A q \in Slot : ptable'[q] = [ptable[q] EXCEPT !.sz = newsz[p]] \/ ptable'[q] = ptable[q]
    BY <1>6 DEF GrowPublish
  <2>4. \A q \in Slot : Keeps(ptable[q], ptable'[q])
    BY <1>0, <2>1, <2>2
  <2>3. QED
    BY <1>1, <1>2, <2>4 DEF KeepsTable
<1>7. CASE Tick
  <2>1. ptable' = Wakeup1(ptable, Ticks)
    BY <1>7 DEF Tick
  <2>2. \A q \in Slot : Keeps(ptable[q], ptable'[q])
    BY <1>0, <2>1, WakeupType DEF Keeps, Owner, Lively
  <2>3. QED
    BY <1>1, <1>2, <2>2 DEF KeepsTable
<1>8. CASE ForkPanic(p) \/ WaitStart(p) \/ WaitFail(p) \/ JoinStart(p) \/ JoinFail(p) \/ GrowMap(p)
           \/ GrowToNothing(p) \/ GrowPanic(p) \/ SleepStart(p) \/ SleepSpin(p) \/ SleepTest(p) \/ InitExit
           \/ ForkSize(p) \/ ExecLeak(p)
  <2>1. ptable' = ptable
    BY <1>8 DEF ForkSize, ExecLeak, ForkPanic, WaitStart, WaitFail, JoinStart, JoinFail, GrowMap, GrowToNothing, GrowPanic,
                SleepStart, SleepSpin, SleepTest, InitExit
  <2>2. QED
    BY <1>1, <1>2, <1>3, <2>1 DEF KeepsTable
<1>9. QED
  BY <1>1, <1>2, <1>4, <1>5, <1>6, <1>7, <1>8, KeepsOne DEF Keeping, KeepsTable

LEMMA Records ==
    ASSUME TypeInv
    PROVE  /\ nextpid \in Nat /\ freelist \in SUBSET Page
           /\ \A q \in Slot : ptable[q] \in ProcRecord /\ ptable[q].sz \in Nat /\ ptable[q].pid \in Nat
                             /\ ptable[q].pgdir \in Page \cup {None}
  BY DEF TypeInv, TypeOK, ProcRecord

(* What the others write.  allocproc takes an UNUSED slot.                 *)
LEMMA Allocs ==
    ASSUME ProcAssumption, TypeInv, NEW p \in Slot, ForkStart(p) \/ CloneStart(p) \/ BadCloneStart(p)
    PROVE  /\ Running(p) /\ UNCHANGED memory /\ nextpid' = nextpid + 1 /\ pc[p] = "user"
           /\ pc'[p] \in Creating /\ \A x \in Slot : x # p => pc'[x] = pc[x] /\ np'[x] = np[x]
           /\ \E q \in Slot, r \in ProcRecord :
                /\ ptable[q].state = "UNUSED" /\ Update(q, r) /\ np'[p] = q
                /\ r.state = "EMBRYO" /\ r.pid = nextpid /\ r.killed = ptable[q].killed
<1>1. Running(p) /\ pc[p] = "user" /\ AllocSlot(p) /\ \E point \in Creating : Goto(p, point)
  BY DEF ForkStart, CloneStart, BadCloneStart, Syscall, Creating
<1> DEFINE q == First(InState("UNUSED"))
           r == [ptable[q] EXCEPT !.state = "EMBRYO", !.pid = nextpid]
<1>2. q \in Slot /\ ptable[q].state = "UNUSED"
  <2>1. q \in InState("UNUSED")
    BY <1>1, SlotFound DEF AllocSlot, TypeInv, States
  <2>2. QED
    BY <2>1 DEF InState
<1>3. Update(q, r) /\ np' = [np EXCEPT ![p] = q] /\ nextpid' = nextpid + 1 /\ UNCHANGED memory
  BY <1>1 DEF AllocSlot
<1> HIDE DEF q
<1>4. r \in ProcRecord /\ r.state = "EMBRYO" /\ r.pid = nextpid /\ r.killed = ptable[q].killed
  <2>1. ptable[q] \in ProcRecord /\ nextpid \in Nat
    BY <1>2, Records
  <2>2. QED
    BY <2>1 DEF ProcRecord, States
<1> HIDE DEF r
<1>5. pc'[p] \in Creating /\ \A x \in Slot : x # p => pc'[x] = pc[x]
  BY <1>1, GotoMoves DEF Goto
<1>6. np'[p] = q /\ \A x \in Slot : x # p => np'[x] = np[x]
  BY <1>3 DEF TypeInv, TypeOK
<1>7. QED
  BY <1>1, <1>2, <1>3, <1>4, <1>5, <1>6

(* The end of fork and clone is about the slot of the caller's np.         *)
LEMMA Creates ==
    ASSUME ProcAssumption, TypeInv, NEW p \in Slot,
           NoStack(p) \/ ForkFail(p) \/ ForkLeak(p) \/ Fork(p) \/ Clone(p) \/ BadClone(p)
    PROVE  /\ Running(p) /\ pc[p] \in Creating /\ UNCHANGED nextpid
           /\ np[p] \in Slot /\ ptable[np[p]].state = "EMBRYO" /\ np[p] # p
           /\ pc'[p] = "user" /\ np'[p] = None
           /\ \A x \in Slot : x # p => pc'[x] = pc[x] /\ np'[x] = np[x]
<1>1. Running(p) /\ pc[p] \in Creating /\ UNCHANGED nextpid /\ BackToUser(p)
  BY DEF NoStack, ForkFail, ForkLeak, Fork, Clone, BadClone, CloneWith, Creating
<1>2. np[p] \in Slot /\ ptable[np[p]].state = "EMBRYO" /\ np[p] # p
  BY <1>1 DEF TypeInv, CreatorHasSlot, Running
<1>3. pc'[p] = "user" /\ np'[p] = None /\ \A x \in Slot : x # p => pc'[x] = pc[x] /\ np'[x] = np[x]
  BY <1>1 DEF BackToUser, Goto, TypeInv, TypeOK
<1>4. QED
  BY <1>1, <1>2, <1>3

LEMMA GivesUp ==
    ASSUME ProcAssumption, TypeInv, NEW p \in Slot, NoStack(p) \/ ForkFail(p) \/ ForkLeak(p)
    PROVE  /\ UNCHANGED mapped /\ OnlyLoses
           /\ \E r \in ProcRecord : Update(np[p], r) /\ r.state = "UNUSED" /\ r.pid = ptable[np[p]].pid
                                    /\ r.killed = ptable[np[p]].killed
<1> DEFINE r == [ptable[np[p]] EXCEPT !.state = "UNUSED", !.kstack = None]
<1>0. UNCHANGED mapped /\ OnlyLoses
  <2>1. CASE NoStack(p) \/ ForkFail(p)
    BY <2>1 DEF NoStack, ForkFail, OnlyLoses, memory
  <2>2. CASE ForkLeak(p)
    <3>1. freelist \in SUBSET Page /\ freelist \ {Kalloc(freelist)} # {}
      BY <2>2, TwoFree DEF ForkLeak, TypeInv, TypeOK
    <3>2. Kalloc(freelist \ {Kalloc(freelist)}) \in freelist
      BY <3>1, PageFound
    <3>3. QED
      BY <2>2, <3>2 DEF ForkLeak, Lose, OnlyLoses
  <2>3. QED
    BY <2>1, <2>2
<1>1. Update(np[p], r)
  BY DEF NoStack, ForkFail, ForkLeak
<1>2. np[p] \in Slot
  BY Creates
<1>3. r \in ProcRecord /\ r.state = "UNUSED" /\ r.pid = ptable[np[p]].pid /\ r.killed = ptable[np[p]].killed
  <2>1. ptable[np[p]] \in ProcRecord
    BY <1>2, Records
  <2>2. QED
    BY <2>1 DEF ProcRecord, States
<1> HIDE DEF r
<1>4. QED
  BY <1>0, <1>1, <1>3

LEMMA Forks ==
    ASSUME ProcAssumption, TypeInv, NEW p \in Slot, Fork(p)
    PROVE  \E ks \in freelist, pd \in freelist, r \in ProcRecord :
             /\ ks # pd /\ freelist' = freelist \ {ks, pd} /\ lost' = lost
             /\ mapped' = [mapped EXCEPT ![pd] = 1 .. newsz[p]]
             /\ Update(np[p], r) /\ r.state = "RUNNABLE" /\ r.parent = p /\ r.pgdir = pd /\ r.kstack = ks
             /\ r.sz = ptable[p].sz /\ r.pid = ptable[np[p]].pid /\ r.killed = ptable[np[p]].killed
<1> DEFINE ks == Kalloc(freelist)
           pd == Kalloc(freelist \ {ks})
           r == [ptable[np[p]] EXCEPT !.state = "RUNNABLE", !.parent = p,
                    !.pgdir = pd, !.kstack = ks, !.sz = ptable[p].sz]
<1>1. freelist \in SUBSET Page /\ np[p] \in Slot
  BY Creates, Records
<1>2. freelist # {} /\ freelist \ {ks} # {}
  BY <1>1, TwoFree DEF Fork
<1>3. ks \in freelist /\ pd \in freelist \ {ks}
  BY <1>1, <1>2, PageFound
<1>4. /\ Update(np[p], r) /\ freelist' = freelist \ {ks, pd} /\ lost' = lost
      /\ mapped' = [mapped EXCEPT ![pd] = 1 .. newsz[p]]
  BY DEF Fork
<1> HIDE DEF ks, pd
<1>5. /\ r \in ProcRecord /\ r.state = "RUNNABLE" /\ r.parent = p /\ r.pgdir = pd /\ r.kstack = ks
      /\ r.sz = ptable[p].sz /\ r.pid = ptable[np[p]].pid /\ r.killed = ptable[np[p]].killed
  <2>1. /\ ptable[np[p]] \in ProcRecord /\ ptable[p].sz \in Nat /\ ptable[p].pgdir \in Page \cup {None}
        /\ ks \in Page
    BY <1>1, <1>3, Records
  <2>2. QED
    BY <1>3, <2>1, <1>1 DEF ProcRecord, States
<1> HIDE DEF r
<1>6. QED
  BY <1>3, <1>4, <1>5

LEMMA Clones ==
    ASSUME ProcAssumption, TypeInv, NEW p \in Slot, Clone(p) \/ BadClone(p)
    PROVE  \E ks \in freelist, r \in ProcRecord :
             /\ freelist' = freelist \ {ks} /\ UNCHANGED mapped
             /\ Update(np[p], r) /\ r.state = (IF pc[p] = "clone" THEN "RUNNABLE" ELSE "EMBRYO")
             /\ r.parent = p /\ r.pgdir = ptable[p].pgdir /\ r.kstack = ks
             /\ r.sz = ptable[p].sz /\ r.pid = ptable[np[p]].pid /\ r.killed = ptable[np[p]].killed
<1> DEFINE s == IF pc[p] = "clone" THEN "RUNNABLE" ELSE "EMBRYO"
           ks == Kalloc(freelist)
           r == [ptable[np[p]] EXCEPT !.state = s, !.parent = p,
                    !.pgdir = ptable[p].pgdir, !.kstack = ks, !.sz = ptable[p].sz]
<1>1. freelist \in SUBSET Page /\ np[p] \in Slot
  BY Creates DEF TypeInv, TypeOK
<1>2. CloneWith(p, s)
  BY DEF Clone, BadClone
<1>3. ks \in freelist
  BY <1>1, <1>2, PageFound DEF CloneWith
<1>4. Update(np[p], r) /\ freelist' = freelist \ {ks} /\ UNCHANGED mapped
  BY <1>2 DEF CloneWith
<1> HIDE DEF ks
<1>5. /\ r \in ProcRecord /\ r.state = s /\ r.parent = p /\ r.pgdir = ptable[p].pgdir /\ r.kstack = ks
      /\ r.sz = ptable[p].sz /\ r.pid = ptable[np[p]].pid /\ r.killed = ptable[np[p]].killed
  <2>1. /\ ptable[np[p]] \in ProcRecord /\ ptable[p].sz \in Nat /\ ptable[p].pgdir \in Page \cup {None}
        /\ ks \in Page
    BY <1>1, <1>3, Records
  <2>2. QED
    BY <1>3, <2>1, <1>1 DEF ProcRecord, States
<1> HIDE DEF r
<1>6. QED
  BY <1>3, <1>4, <1>5

(* wait and join clear the slot of a ZOMBIE of theirs.                     *)
LEMMA ReapReturns ==
    ASSUME ProcAssumption, TypeInv, NEW p \in Slot, WaitReap(p) \/ JoinReap(p)
    PROVE  /\ nextpid' = nextpid /\ np' = np /\ Running(p) /\ pc[p] \in {"wait", "join"}
           /\ pc'[p] = "user" /\ \A x \in Slot : x # p => pc'[x] = pc[x]
<1>1. nextpid' = nextpid /\ np' = np /\ Running(p) /\ pc[p] \in {"wait", "join"} /\ Goto(p, "user")
  BY DEF WaitReap, JoinReap, locals
<1>2. QED
  BY <1>1, GotoMoves DEF Goto

Reaped(p, q, r) ==
    /\ ptable[q].state = "ZOMBIE" /\ ptable[q].parent = p /\ Update(q, r)
    /\ r.state = "UNUSED" /\ r.pid = 0 /\ r.killed = FALSE

LEMMA WaitReaps ==
    ASSUME ProcAssumption, TypeInv, NEW p \in Slot, WaitReap(p)
    PROVE  \E q \in Slot, r \in ProcRecord :
             /\ Reaped(p, q, r) /\ ptable[q].pgdir # ptable[p].pgdir
             /\ freelist' = freelist \cup {ptable[q].kstack, ptable[q].pgdir} /\ lost' = lost
             /\ mapped' = [mapped EXCEPT ![ptable[q].pgdir] = {}]
<1> DEFINE q == First(Zombies(Processes(p)))
           r == [Cleared(ptable[q]) EXCEPT !.kstack = None]
<1>1. q \in Processes(p) /\ ptable[q].state = "ZOMBIE"
  <2>1. Processes(p) \in SUBSET Slot
    BY DEF Processes, Children
  <2>2. QED
    BY <2>1, ZombieFound DEF WaitReap
<1>2. q \in Slot /\ ptable[q].parent = p /\ ptable[q].pgdir # ptable[p].pgdir
  BY <1>1 DEF Processes, Children
<1>3. /\ Update(q, r) /\ freelist' = freelist \cup {ptable[q].kstack, ptable[q].pgdir} /\ lost' = lost
      /\ mapped' = [mapped EXCEPT ![ptable[q].pgdir] = {}]
  BY DEF WaitReap, Freed
<1> HIDE DEF q
<1>4. r \in ProcRecord /\ r.state = "UNUSED" /\ r.pid = 0 /\ r.killed = FALSE
  <2>1. ptable[q] \in ProcRecord
    BY <1>2, Records
  <2>2. /\ Cleared(ptable[q]) \in ProcRecord /\ Cleared(ptable[q]).state = "UNUSED"
        /\ Cleared(ptable[q]).pid = 0 /\ Cleared(ptable[q]).killed = FALSE
    BY <2>1 DEF Cleared, ProcRecord, States
  <2>3. QED
    BY <2>2 DEF ProcRecord
<1> HIDE DEF r
<1>5. QED
  BY <1>1, <1>2, <1>3, <1>4 DEF Reaped

LEMMA JoinReaps ==
    ASSUME ProcAssumption, TypeInv, NEW p \in Slot, JoinReap(p)
    PROVE  /\ UNCHANGED memory
           /\ \E q \in Slot, r \in ProcRecord : Reaped(p, q, r) /\ ptable[q].pgdir = ptable[p].pgdir
<1> DEFINE q == First(Zombies(Threads(p)))
           r == Cleared(ptable[q])
<1>1. q \in Threads(p) /\ ptable[q].state = "ZOMBIE"
  <2>1. Threads(p) \in SUBSET Slot
    BY DEF Threads, Children
  <2>2. QED
    BY <2>1, ZombieFound DEF JoinReap
<1>2. q \in Slot /\ ptable[q].parent = p /\ ptable[q].pgdir = ptable[p].pgdir
  BY <1>1 DEF Threads, Children
<1>3. Update(q, r) /\ UNCHANGED memory
  BY DEF JoinReap
<1> HIDE DEF q
<1>4. r \in ProcRecord /\ r.state = "UNUSED" /\ r.pid = 0 /\ r.killed = FALSE
  <2>1. ptable[q] \in ProcRecord
    BY <1>2, Records
  <2>2. QED
    BY <2>1 DEF Cleared, ProcRecord, States
<1> HIDE DEF r
<1>5. QED
  BY <1>1, <1>2, <1>3, <1>4 DEF Reaped

LEMMA Execs ==
    ASSUME ProcAssumption, TypeInv, NEW p \in Slot, Exec(p)
    PROVE  /\ Syscall(p, "exec") /\ UNCHANGED <<nextpid, lost, pc, np>>
           /\ \E pd \in freelist, r \in ProcRecord :
                /\ freelist' = (freelist \ {pd}) \cup {ptable[p].pgdir}
                /\ mapped' = [mapped EXCEPT ![pd] = {1}, ![ptable[p].pgdir] = {}]
                /\ Update(p, r) /\ r.state = "RUNNING" /\ r.pgdir = pd /\ r.kstack = ptable[p].kstack
                /\ r.pid = ptable[p].pid /\ r.parent = ptable[p].parent /\ r.killed = ptable[p].killed /\ r.sz = 1
<1> DEFINE pd == Kalloc(freelist)
           r == [ptable[p] EXCEPT !.pgdir = pd, !.sz = 1]
<1>1. pd \in freelist /\ freelist \in SUBSET Page
  BY PageFound DEF TypeInv, TypeOK, Exec
<1>2. /\ Syscall(p, "exec") /\ Update(p, r) /\ UNCHANGED <<nextpid, lost, pc, np>>
      /\ freelist' = (freelist \ {pd}) \cup {ptable[p].pgdir}
      /\ mapped' = [mapped EXCEPT ![pd] = {1}, ![ptable[p].pgdir] = {}]
  BY DEF Exec, locals
<1> HIDE DEF pd
<1>3. /\ r \in ProcRecord /\ r.state = "RUNNING" /\ r.pgdir = pd /\ r.kstack = ptable[p].kstack
      /\ r.pid = ptable[p].pid /\ r.parent = ptable[p].parent /\ r.killed = ptable[p].killed /\ r.sz = 1
  BY <1>1, <1>2 DEF TypeInv, TypeOK, ProcRecord, Syscall, Running
<1> HIDE DEF r
<1>4. QED
  BY <1>1, <1>2, <1>3

-----------------------------------------------------------------------------
(* Slots under construction.  Whoever is not in fork or clone has no np,   *)
(* and a slot that is an EMBRYO is somebody's np.                          *)
NpOK ==
    /\ \A p \in Slot : pc[p] \notin Creating => np[p] = None
    /\ \A e \in Slot : ptable[e].state = "EMBRYO" => \E p \in Slot : pc[p] \in Creating /\ np[p] = e

LEMMA NpStep ==
    ASSUME ProcAssumption, "badclone" \notin Calls, TypeInv, CalledFor, NpOK, [Next]_vars
    PROVE  NpOK'
<1>1. ASSUME \A q \in Slot : ptable'[q].state = "EMBRYO" => ptable[q].state = "EMBRYO", np' = np,
             \A q \in Slot : (pc'[q] \in Creating <=> pc[q] \in Creating)
      PROVE  NpOK'
  BY <1>1 DEF NpOK
<1>2. ASSUME NEW p \in Slot, Keeping(p) PROVE NpOK'
  BY <1>1, <1>2, KeepingSteps DEF KeepsTable, Keeps
<1>3. ASSUME NEW p \in Slot, Exit(p) PROVE NpOK'
  <2>1. UNCHANGED <<np, pc>>
    BY <1>3 DEF Exit, locals
  <2>2. \A q \in Slot : ptable'[q].state = "EMBRYO" => ptable[q].state = "EMBRYO"
    BY <1>3, ExitTable DEF ExitFate
  <2>3. QED
    BY <1>1, <2>1, <2>2
<1>4. ASSUME NEW p \in Slot, ForkStart(p) \/ CloneStart(p) \/ BadCloneStart(p) PROVE NpOK'
  <2>1. PICK q \in Slot, r \in ProcRecord : Update(q, r) /\ np'[p] = q
    BY <1>4, Allocs
  <2>2. \A x \in Slot : x # q => ptable'[x] = ptable[x]
    BY <2>1, UpdateType DEF TypeInv
  <2>3. pc[p] = "user" /\ pc'[p] \in Creating /\ \A x \in Slot : x # p => pc'[x] = pc[x] /\ np'[x] = np[x]
    BY <1>4, Allocs
  <2>4. pc[p] \notin Creating
    BY <2>3 DEF Creating
  <2>5. ASSUME NEW e \in Slot, ptable'[e].state = "EMBRYO"
        PROVE  \E x \in Slot : pc'[x] \in Creating /\ np'[x] = e
    <3>1. CASE e = q
      BY <2>1, <2>3, <3>1
    <3>2. CASE e # q
      <4>1. PICK x \in Slot : pc[x] \in Creating /\ np[x] = e
        BY <2>2, <2>5, <3>2 DEF NpOK
      <4>2. QED
        BY <2>3, <2>4, <4>1
    <3>3. QED
      BY <3>1, <3>2
  <2>6. \A x \in Slot : pc'[x] \notin Creating => np'[x] = None
    BY <2>3 DEF NpOK
  <2>7. QED
    BY <2>5, <2>6 DEF NpOK
<1>5. ASSUME NEW p \in Slot, NoStack(p) \/ ForkFail(p) \/ ForkLeak(p) \/ Fork(p) \/ Clone(p)
      PROVE  NpOK'
  <2>1. /\ pc[p] \in Creating /\ np[p] \in Slot /\ pc'[p] = "user" /\ np'[p] = None
        /\ \A x \in Slot : x # p => pc'[x] = pc[x] /\ np'[x] = np[x]
    BY <1>5, Creates
  <2>2. PICK r \in ProcRecord : Update(np[p], r) /\ r.state # "EMBRYO"
    BY <1>5, GivesUp, Forks, Clones DEF Clone
  <2>3. ptable'[np[p]].state # "EMBRYO" /\ \A x \in Slot : x # np[p] => ptable'[x] = ptable[x]
    BY <2>1, <2>2, UpdateType DEF TypeInv
  <2>4. ASSUME NEW e \in Slot, ptable'[e].state = "EMBRYO"
        PROVE  \E x \in Slot : pc'[x] \in Creating /\ np'[x] = e
    <3>1. e # np[p] /\ ptable[e].state = "EMBRYO"
      BY <2>3, <2>4
    <3>2. PICK x \in Slot : pc[x] \in Creating /\ np[x] = e
      BY <3>1 DEF NpOK
    <3>3. QED
      BY <2>1, <3>1, <3>2
  <2>5. \A x \in Slot : pc'[x] \notin Creating => np'[x] = None
    BY <2>1 DEF NpOK
  <2>6. QED
    BY <2>4, <2>5 DEF NpOK
<1>6. ASSUME NEW p \in Slot, WaitReap(p) \/ JoinReap(p) PROVE NpOK'
  <2>1. PICK q \in Slot, r \in ProcRecord : Reaped(p, q, r)
    BY <1>6, WaitReaps, JoinReaps
  <2>2. \A x \in Slot : ptable'[x].state = "EMBRYO" => ptable[x].state = "EMBRYO"
    BY <2>1, UpdateType DEF TypeInv, Reaped
  <2>3. \A x \in Slot : (pc'[x] \in Creating <=> pc[x] \in Creating)
    BY <1>6, ReapReturns DEF Creating
  <2>4. np' = np
    BY <1>6, ReapReturns
  <2>5. QED
    BY <1>1, <2>2, <2>3, <2>4
<1>7. ASSUME NEW p \in Slot, Exec(p) PROVE NpOK'
  <2>1. PICK r \in ProcRecord : Update(p, r) /\ r.state = "RUNNING"
    BY <1>7, Execs
  <2>2. \A x \in Slot : ptable'[x].state = "EMBRYO" => ptable[x].state = "EMBRYO"
    BY <2>1, UpdateType DEF TypeInv
  <2>3. UNCHANGED <<pc, np>>
    BY <1>7, Execs
  <2>4. QED
    BY <1>1, <2>2, <2>3
<1>8. ASSUME NEW p \in Slot, BadClone(p) PROVE FALSE
  BY <1>8 DEF BadClone, CalledFor
<1>9. CASE UNCHANGED vars
  BY <1>1, <1>9 DEF vars, locals
<1>10. CASE Next
  <2>1. CASE InitExit \/ Tick
    BY <2>1, <1>2, ProcAssumption DEF Keeping, Slot
  <2>2. QED
    BY <1>2, <1>3, <1>4, <1>5, <1>6, <1>7, <1>8, <1>10, <2>1, Steps DEF Keeping
<1>11. QED
  BY <1>9, <1>10

(* Two processors never get the same slot from allocproc, and unless a     *)
(* program gives clone a bad stack, which keeps the slot it has got, no    *)
(* slot is forgotten.                                                      *)
THEOREM SlotsCorrect == "badclone" \notin Calls => (Spec => []SlotsUnderConstruction)
<1> SUFFICES ASSUME "badclone" \notin Calls PROVE Spec => []SlotsUnderConstruction
  OBVIOUS
<1>1. Init => CalledFor /\ NpOK
  <2> SUFFICES ASSUME Init PROVE CalledFor /\ NpOK
    OBVIOUS
  <2>1. \A e \in Slot : ptable[e].state # "EMBRYO"
    BY DEF Init, Unused
  <2>2. NpOK
    BY <2>1 DEF Init, NpOK
  <2>3. QED
    BY <2>2, CalledForInit, ProcAssumption
<1>2. TypeInv /\ CalledFor /\ NpOK /\ [Next]_vars => CalledFor' /\ NpOK'
  BY CalledForStep, NpStep, ProcAssumption
<1>3. TypeInv /\ NpOK => SlotsUnderConstruction
  <2> SUFFICES ASSUME TypeInv, NpOK PROVE SlotsUnderConstruction
    OBVIOUS
  <2>1. None \notin Slot
    BY ProcAssumption DEF Slot
  <2>2. ASSUME NEW p \in Slot, pc[p] \in Creating
        PROVE  np[p] \in InState("EMBRYO") /\ \A q \in Slot : np[q] = np[p] => q = p
    <3>1. np[p] \in Slot /\ ptable[np[p]].state = "EMBRYO"
      BY <2>2 DEF TypeInv, CreatorHasSlot
    <3>2. ASSUME NEW q \in Slot, np[q] = np[p] PROVE q = p
      <4>1. pc[q] \in Creating
        BY <2>1, <3>1, <3>2 DEF NpOK
      <4>2. QED
        BY <2>2, <3>2, <4>1 DEF TypeInv, CreatorHasSlot
    <3>3. QED
      BY <3>1, <3>2 DEF InState
  <2>3. ASSUME NEW p \in Slot, pc[p] \in Creating PROVE p \in Alive
    BY <2>3 DEF TypeInv, OnlyAliveInKernel, Creating, Alive
  <2>4. \A e \in InState("EMBRYO") : \E p \in Alive : np[p] = e
    BY <2>3 DEF NpOK, InState
  <2>5. QED
    BY <2>2, <2>4 DEF SlotsUnderConstruction, Alive
<1>4. QED
  BY <1>1, <1>2, <1>3, FamilyHolds, PTL DEF Spec

-----------------------------------------------------------------------------
(* Pages.  Those of whoever runs or has exited are not free, and nobody    *)
(* else's page is the kernel stack of one.                                 *)
PagesOwn ==
    \A p \in Slot : Owner(ptable[p]) =>
        /\ ptable[p].pgdir \notin freelist /\ ptable[p].kstack \notin freelist
        /\ \A q \in Slot : Owner(ptable[q]) =>
             /\ ptable[p].kstack # ptable[q].pgdir
             /\ q # p => ptable[p].kstack # ptable[q].kstack

Alone(p) == \A q \in Slot : Owner(ptable[q]) /\ q # p => ptable[q].pgdir # ptable[p].pgdir

SamePages(r, s) == s.pgdir = r.pgdir /\ s.kstack = r.kstack

OwnersKept ==
    \A q \in Slot : /\ Owner(ptable'[q]) <=> Owner(ptable[q])
                    /\ Owner(ptable[q]) => SamePages(ptable[q], ptable'[q])

LEMMA KeptByUpdate ==
    ASSUME TypeInv, NEW q \in Slot, NEW r \in ProcRecord, Update(q, r), ~Owner(ptable[q]), ~Owner(r)
    PROVE  OwnersKept
  BY UpdateType DEF TypeInv, OwnersKept, SamePages

LEMMA KeptSteps ==
    ASSUME ProcAssumption, TypeInv, NEW p \in Slot,
           \/ Keeping(p) \/ Exit(p) \/ ForkStart(p) \/ CloneStart(p) \/ BadCloneStart(p)
           \/ NoStack(p) \/ ForkFail(p) \/ ForkLeak(p) \/ BadClone(p)
    PROVE  OwnersKept /\ (OnlyLoses \/ (BadClone(p) /\ freelist' \subseteq freelist))
<1>1. CASE Keeping(p)
  BY <1>1, KeepingSteps DEF KeepsTable, Keeps, OwnersKept, SamePages
<1>2. CASE Exit(p)
  <2>1. OnlyLoses /\ Owner(ptable[p])
    BY <1>2 DEF Exit, memory, OnlyLoses, Owner, Running, Lively
  <2>2. Owner(ptable'[p]) /\ SamePages(ptable[p], ptable'[p])
    BY <1>2, ExitTable DEF Owner, SamePages
  <2>3. ASSUME NEW q \in Slot, q # p
        PROVE  (Owner(ptable'[q]) <=> Owner(ptable[q])) /\ SamePages(ptable[q], ptable'[q])
    <3>1. ExitFate(p, q, ptable'[q])
      BY <1>2, <2>3, ExitTable
    <3>2. QED
      BY <3>1 DEF ExitFate, Owner, SamePages, Lively
  <2>4. QED
    BY <2>1, <2>2, <2>3 DEF OwnersKept
<1>3. CASE ForkStart(p) \/ CloneStart(p) \/ BadCloneStart(p)
  <2>1. PICK q \in Slot, r \in ProcRecord :
               ptable[q].state = "UNUSED" /\ Update(q, r) /\ r.state = "EMBRYO"
    BY <1>3, Allocs
  <2>2. OwnersKept
    BY <2>1, KeptByUpdate DEF Owner, Lively
  <2>3. OnlyLoses
    BY <1>3, Allocs DEF memory, OnlyLoses
  <2>4. QED
    BY <2>2, <2>3
<1>4. CASE NoStack(p) \/ ForkFail(p) \/ ForkLeak(p)
  <2>1. PICK r \in ProcRecord : Update(np[p], r) /\ r.state = "UNUSED"
    BY <1>4, GivesUp
  <2>2. np[p] \in Slot /\ ptable[np[p]].state = "EMBRYO"
    BY <1>4, Creates
  <2>3. OwnersKept
    BY <2>1, <2>2, KeptByUpdate DEF Owner, Lively
  <2>4. OnlyLoses
    BY <1>4, GivesUp
  <2>5. QED
    BY <2>3, <2>4
<1>5. CASE BadClone(p)
  <2>1. PICK ks \in freelist, r \in ProcRecord :
           /\ freelist' = freelist \ {ks} /\ Update(np[p], r)
           /\ r.state = (IF pc[p] = "clone" THEN "RUNNABLE" ELSE "EMBRYO")
    BY <1>5, Clones
  <2>2. np[p] \in Slot /\ ptable[np[p]].state = "EMBRYO" /\ r.state = "EMBRYO"
    BY <1>5, <2>1, Creates DEF BadClone
  <2>3. OwnersKept
    BY <2>1, <2>2, KeptByUpdate DEF Owner, Lively
  <2>4. QED
    BY <1>5, <2>1, <2>3
<1>6. QED
  BY <1>1, <1>2, <1>3, <1>4, <1>5

(* fork and clone fill in one slot.                                        *)
LEMMA Made ==
    ASSUME ProcAssumption, TypeInv, NEW p \in Slot, Fork(p) \/ Clone(p)
    PROVE  \E c \in Slot, ks \in freelist :
             /\ c = np[p] /\ c # p /\ ptable[c].state = "EMBRYO" /\ ptable'[c].state = "RUNNABLE"
             /\ \A x \in Slot : x # c => ptable'[x] = ptable[x]
             /\ ptable'[c].parent = p /\ ptable'[c].kstack = ks /\ ptable'[c].sz = ptable[p].sz
             /\ ptable'[c].pid = ptable[c].pid /\ ptable'[c].killed = ptable[c].killed
             /\ \/ \E pd \in freelist :
                     /\ Fork(p) /\ ks # pd /\ freelist' = freelist \ {ks, pd} /\ lost' = lost
                     /\ ptable'[c].pgdir = pd /\ mapped' = [mapped EXCEPT ![pd] = 1 .. newsz[p]]
                \/ /\ Clone(p) /\ freelist' = freelist \ {ks} /\ ptable'[c].pgdir = ptable[p].pgdir
                   /\ mapped' = mapped
<1>1. np[p] \in Slot /\ ptable[np[p]].state = "EMBRYO" /\ np[p] # p
  BY Creates
<1>3. CASE Fork(p)
  <2>1. PICK ks \in freelist, pd \in freelist, r \in ProcRecord :
             /\ ks # pd /\ freelist' = freelist \ {ks, pd} /\ lost' = lost
             /\ mapped' = [mapped EXCEPT ![pd] = 1 .. newsz[p]]
             /\ Update(np[p], r) /\ r.state = "RUNNABLE" /\ r.parent = p /\ r.pgdir = pd /\ r.kstack = ks
             /\ r.sz = ptable[p].sz /\ r.pid = ptable[np[p]].pid /\ r.killed = ptable[np[p]].killed
    BY <1>3, Forks
  <2>2. ptable'[np[p]] = r /\ \A x \in Slot : x # np[p] => ptable'[x] = ptable[x]
    BY <1>1, <2>1, UpdateType DEF TypeInv
  <2>3. \E d \in freelist :
           /\ ks # d /\ freelist' = freelist \ {ks, d} /\ lost' = lost /\ ptable'[np[p]].pgdir = d
           /\ mapped' = [mapped EXCEPT ![d] = 1 .. newsz[p]]
    BY <2>1, <2>2, Zenon
  <2>4. /\ ptable'[np[p]].state = "RUNNABLE" /\ ptable'[np[p]].parent = p /\ ptable'[np[p]].kstack = ks
        /\ ptable'[np[p]].sz = ptable[p].sz /\ ptable'[np[p]].pid = ptable[np[p]].pid
        /\ ptable'[np[p]].killed = ptable[np[p]].killed
    BY <2>1, <2>2
  <2>5. QED
    BY <1>1, <1>3, <2>2, <2>3, <2>4
<1>4. CASE Clone(p)
  <2>1. PICK ks \in freelist, r \in ProcRecord :
             /\ freelist' = freelist \ {ks} /\ UNCHANGED mapped
             /\ Update(np[p], r) /\ r.state = (IF pc[p] = "clone" THEN "RUNNABLE" ELSE "EMBRYO")
             /\ r.parent = p /\ r.pgdir = ptable[p].pgdir /\ r.kstack = ks
             /\ r.sz = ptable[p].sz /\ r.pid = ptable[np[p]].pid /\ r.killed = ptable[np[p]].killed
    BY <1>4, Clones
  <2>2. ptable'[np[p]] = r /\ \A x \in Slot : x # np[p] => ptable'[x] = ptable[x]
    BY <1>1, <2>1, UpdateType DEF TypeInv
  <2>3. r.state = "RUNNABLE"
    BY <1>4, <2>1 DEF Clone
  <2>4. QED
    BY <1>1, <1>4, <2>1, <2>2, <2>3
<1>5. QED
  BY <1>3, <1>4

(* The pages of the new process were free; a thread shares a directory,    *)
(* and nobody's pages are freed while another has them.                    *)
LEMMA PagesStep ==
    ASSUME ProcAssumption, TypeInv, PagesOwn, [Next]_vars,
           \A p, q \in Slot : WaitReap(p) /\ ptable[q].state = "ZOMBIE" /\ ptable[q].parent = p
                              /\ ptable[q].pgdir # ptable[p].pgdir => Alone(q),
           \A p \in Slot : Exec(p) => Alone(p)
    PROVE  PagesOwn'
<1>1. ASSUME freelist' \subseteq freelist, OwnersKept PROVE PagesOwn'
  BY <1>1 DEF PagesOwn, OwnersKept, SamePages
<1>2. ASSUME NEW p \in Slot, Fork(p) \/ Clone(p) PROVE PagesOwn'
  <2>1. PICK c \in Slot, ks \in freelist :
             /\ c = np[p] /\ c # p /\ ptable[c].state = "EMBRYO" /\ ptable'[c].state = "RUNNABLE"
             /\ \A x \in Slot : x # c => ptable'[x] = ptable[x]
             /\ ptable'[c].kstack = ks
             /\ \/ \E pd \in freelist :
                     ks # pd /\ freelist' = freelist \ {ks, pd} /\ ptable'[c].pgdir = pd
                \/ freelist' = freelist \ {ks} /\ ptable'[c].pgdir = ptable[p].pgdir
    BY <1>2, Made
  <2>2. Owner(ptable[p]) /\ ~Owner(ptable[c])
    BY <1>2, <2>1, Creates DEF Owner, Running, Lively
  <2>3. ptable'[c].pgdir \notin freelist' /\ ptable'[c].kstack \notin freelist'
        /\ ptable'[c].kstack # ptable'[c].pgdir
    BY <2>1, <2>2 DEF PagesOwn
  <2>4. \A x \in Slot : Owner(ptable[x]) => ptable[x].kstack # ptable'[c].pgdir
    BY <2>1, <2>2 DEF PagesOwn
  <2>5. \A x \in Slot : Owner(ptable[x]) => ptable[x].kstack # ks /\ ptable[x].pgdir # ks
    BY <2>1 DEF PagesOwn
  <2>6. freelist' \subseteq freelist
    BY <2>1
  <2>7. QED
    BY <2>1, <2>2, <2>3, <2>4, <2>5, <2>6 DEF PagesOwn
<1>3. ASSUME NEW p \in Slot, WaitReap(p) PROVE PagesOwn'
  <2>1. PICK q \in Slot, r \in ProcRecord :
             /\ Reaped(p, q, r) /\ ptable[q].pgdir # ptable[p].pgdir
             /\ freelist' = freelist \cup {ptable[q].kstack, ptable[q].pgdir}
    BY <1>3, WaitReaps
  <2>2. /\ ptable[q].state = "ZOMBIE" /\ ptable[q].parent = p /\ ptable'[q].state = "UNUSED"
        /\ \A x \in Slot : x # q => ptable'[x] = ptable[x]
    BY <2>1, UpdateType DEF TypeInv, Reaped
  <2>3. Alone(q) /\ Owner(ptable[q]) /\ ~Owner(ptable'[q])
    BY <1>3, <2>1, <2>2 DEF Owner, Lively
  <2>4. ASSUME NEW x \in Slot, Owner(ptable'[x])
        PROVE  /\ x # q /\ ptable'[x] = ptable[x] /\ Owner(ptable[x])
               /\ ptable[x].pgdir \notin freelist' /\ ptable[x].kstack \notin freelist'
    <3>1. x # q /\ ptable'[x] = ptable[x] /\ Owner(ptable[x])
      BY <2>2, <2>3, <2>4
    <3>2. ptable[x].pgdir # ptable[q].pgdir
      BY <2>3, <3>1 DEF Alone
    <3>3. QED
      BY <2>1, <2>3, <3>1, <3>2 DEF PagesOwn
  <2>5. QED
    BY <2>4 DEF PagesOwn
<1>4. ASSUME NEW p \in Slot, JoinReap(p) PROVE PagesOwn'
  <2>1. PICK q \in Slot, r \in ProcRecord : Reaped(p, q, r)
    BY <1>4, JoinReaps
  <2>2. ptable'[q].state = "UNUSED" /\ \A x \in Slot : x # q => ptable'[x] = ptable[x]
    BY <2>1, UpdateType DEF TypeInv, Reaped
  <2>3. freelist' = freelist
    BY <1>4, JoinReaps DEF memory
  <2>4. \A x \in Slot : Owner(ptable'[x]) => Owner(ptable[x]) /\ ptable'[x] = ptable[x]
    BY <2>2 DEF Owner, Lively
  <2>5. QED
    BY <2>3, <2>4 DEF PagesOwn
<1>5. ASSUME NEW p \in Slot, Exec(p) PROVE PagesOwn'
  <2>1. PICK pd \in freelist, r \in ProcRecord :
                /\ freelist' = (freelist \ {pd}) \cup {ptable[p].pgdir}
                /\ Update(p, r) /\ r.state = "RUNNING" /\ r.pgdir = pd /\ r.kstack = ptable[p].kstack
    BY <1>5, Execs
  <2>2. ptable'[p] = r /\ \A x \in Slot : x # p => ptable'[x] = ptable[x]
    BY <2>1, UpdateType DEF TypeInv
  <2>3. Alone(p) /\ Owner(ptable[p])
    BY <1>5 DEF Exec, Syscall, Running, Owner, Lively
  <2>4. ASSUME NEW x \in Slot, Owner(ptable'[x])
        PROVE  /\ Owner(ptable[x]) /\ ptable'[x].kstack = ptable[x].kstack
               /\ ptable'[x].pgdir = IF x = p THEN pd ELSE ptable[x].pgdir
               /\ ptable'[x].pgdir \notin freelist' /\ ptable'[x].kstack \notin freelist'
    <3>1. CASE x = p
      BY <2>1, <2>2, <2>3, <3>1 DEF PagesOwn
    <3>2. CASE x # p
      BY <2>1, <2>2, <2>3, <2>4, <3>2 DEF PagesOwn, Alone
    <3>3. QED
      BY <3>1, <3>2
  <2>5. \A x \in Slot : Owner(ptable[x]) => ptable[x].kstack # pd
    BY <2>1 DEF PagesOwn
  <2>6. QED
    BY <2>4, <2>5 DEF PagesOwn
<1>6. CASE UNCHANGED vars
  <2>1. freelist' = freelist /\ ptable' = ptable
    BY <1>6 DEF vars, memory
  <2>2. QED
    BY <2>1 DEF PagesOwn
<1>7. CASE Next
  <2>1. CASE InitExit \/ Tick
    BY <2>1, <1>1, KeptSteps, ProcAssumption DEF Keeping, Slot, OnlyLoses
  <2>2. QED
    BY <1>1, <1>2, <1>3, <1>4, <1>5, <1>7, <2>1, KeptSteps, Steps DEF Keeping, OnlyLoses
<1>8. QED
  BY <1>6, <1>7

-----------------------------------------------------------------------------
(* Without clone no two processes share a directory, and every page has an *)
(* owner or is free.                                                       *)
NoSharing == \A p \in Slot : Owner(ptable[p]) => Alone(p)

Used(g) == \E p \in Slot : Owner(ptable[p]) /\ g \in {ptable[p].kstack, ptable[p].pgdir}

Accounted == \A g \in Page : g \in freelist \cup lost \/ Used(g)

NoThreads == {"clone", "badclone"} \cap Calls = {}

LEMMA NoThreadsStep ==
    ASSUME ProcAssumption, NoThreads, TypeInv, CalledFor, PagesOwn, NoSharing, Accounted, [Next]_vars
    PROVE  PagesOwn' /\ NoSharing' /\ Accounted'
<1>1. PagesOwn'
  <2>1. ASSUME NEW p \in Slot, NEW q \in Slot, ptable[q].state = "ZOMBIE" PROVE Alone(q)
    BY <2>1 DEF NoSharing, Owner
  <2>2. ASSUME NEW p \in Slot, Exec(p) PROVE Alone(p)
    BY <2>2 DEF NoSharing, Owner, Exec, Syscall, Running, Lively
  <2>3. QED
    BY <2>1, <2>2, PagesStep
<1>2. ASSUME OnlyLoses, OwnersKept PROVE NoSharing' /\ Accounted'
  <2>1. NoSharing'
    BY <1>2 DEF NoSharing, Alone, OwnersKept, SamePages
  <2>2. Accounted'
    BY <1>2 DEF Accounted, Used, OwnersKept, SamePages, OnlyLoses
  <2>3. QED
    BY <2>1, <2>2
<1>3. ASSUME NEW p \in Slot, Clone(p) \/ BadClone(p) PROVE FALSE
  BY <1>3 DEF Clone, BadClone, CalledFor, NoThreads
<1>4. ASSUME NEW p \in Slot, Fork(p) PROVE NoSharing' /\ Accounted'
  <2>1. PICK c \in Slot, ks \in freelist :
             /\ c = np[p] /\ c # p /\ ptable[c].state = "EMBRYO" /\ ptable'[c].state = "RUNNABLE"
             /\ \A x \in Slot : x # c => ptable'[x] = ptable[x]
             /\ ptable'[c].kstack = ks
             /\ \/ \E pd \in freelist : /\ ks # pd /\ freelist' = freelist \ {ks, pd} /\ lost' = lost
                                        /\ ptable'[c].pgdir = pd
                \/ Clone(p)
    BY <1>4, Made
  <2>2. PICK pd \in freelist : freelist' = freelist \ {ks, pd} /\ lost' = lost /\ ptable'[c].pgdir = pd
    BY <1>3, <2>1
  <2>3. ~Owner(ptable[c]) /\ Owner(ptable'[c])
    BY <2>1 DEF Owner, Lively
  <2>4. NoSharing'
    <3>1. \A x \in Slot : Owner(ptable[x]) => ptable[x].pgdir # pd
      BY <2>2 DEF PagesOwn
    <3>2. QED
      BY <2>1, <2>2, <2>3, <3>1 DEF NoSharing, Alone
  <2>5. ASSUME NEW g \in Page, g \notin freelist' \cup lost' PROVE Used(g)'
    <3>1. CASE g \in {ks, pd}
      BY <2>1, <2>2, <2>3, <3>1 DEF Used
    <3>2. CASE g \notin {ks, pd}
      <4>1. PICK x \in Slot : Owner(ptable[x]) /\ g \in {ptable[x].kstack, ptable[x].pgdir}
        BY <2>2, <2>5, <3>2 DEF Accounted, Used
      <4>2. QED
        BY <2>1, <2>3, <4>1 DEF Used
    <3>3. QED
      BY <3>1, <3>2
  <2>6. QED
    BY <2>4, <2>5 DEF Accounted
<1>5. ASSUME NEW p \in Slot, WaitReap(p) PROVE NoSharing' /\ Accounted'
  <2>1. PICK q \in Slot, r \in ProcRecord :
             /\ Reaped(p, q, r) /\ freelist' = freelist \cup {ptable[q].kstack, ptable[q].pgdir}
             /\ lost' = lost
    BY <1>5, WaitReaps
  <2>2. ptable'[q].state = "UNUSED" /\ \A x \in Slot : x # q => ptable'[x] = ptable[x]
    BY <2>1, UpdateType DEF TypeInv, Reaped
  <2>3. \A x \in Slot : Owner(ptable'[x]) => Owner(ptable[x]) /\ ptable'[x] = ptable[x]
    BY <2>2 DEF Owner, Lively
  <2>4. NoSharing'
    BY <2>3 DEF NoSharing, Alone
  <2>5. ASSUME NEW g \in Page, g \notin freelist' \cup lost' PROVE Used(g)'
    <3>1. PICK x \in Slot : Owner(ptable[x]) /\ g \in {ptable[x].kstack, ptable[x].pgdir}
      BY <2>1, <2>5 DEF Accounted, Used
    <3>2. x # q
      BY <2>1, <2>5, <3>1
    <3>3. QED
      BY <2>2, <3>1, <3>2 DEF Used
  <2>6. QED
    BY <2>4, <2>5 DEF Accounted
<1>6. ASSUME NEW p \in Slot, JoinReap(p) PROVE FALSE
  <2>1. PICK q \in Slot, r \in ProcRecord : Reaped(p, q, r) /\ ptable[q].pgdir = ptable[p].pgdir
    BY <1>6, JoinReaps
  <2>2. Owner(ptable[q]) /\ Owner(ptable[p]) /\ p # q
    BY <1>6, <2>1, ReapReturns DEF Reaped, Owner, Running, Lively
  <2>3. QED
    BY <2>1, <2>2 DEF NoSharing, Alone
<1>7. ASSUME NEW p \in Slot, Exec(p) PROVE NoSharing' /\ Accounted'
  <2>1. PICK pd \in freelist, r \in ProcRecord :
                /\ freelist' = (freelist \ {pd}) \cup {ptable[p].pgdir} /\ lost' = lost
                /\ Update(p, r) /\ r.state = "RUNNING" /\ r.pgdir = pd /\ r.kstack = ptable[p].kstack
    BY <1>7, Execs
  <2>2. ptable'[p] = r /\ \A x \in Slot : x # p => ptable'[x] = ptable[x]
    BY <2>1, UpdateType DEF TypeInv
  <2>3. Owner(ptable[p]) /\ Owner(ptable'[p])
    BY <1>7, <2>1, <2>2 DEF Exec, Syscall, Running, Owner, Lively
  <2>4. NoSharing'
    <3>1. \A x \in Slot : Owner(ptable[x]) => ptable[x].pgdir # pd
      BY <2>1 DEF PagesOwn
    <3>2. QED
      BY <2>1, <2>2, <2>3, <3>1 DEF NoSharing, Alone
  <2>5. ASSUME NEW g \in Page, g \notin freelist' \cup lost' PROVE Used(g)'
    <3>1. CASE g = pd
      BY <2>1, <2>2, <2>3, <3>1 DEF Used
    <3>2. CASE g # pd
      <4>1. PICK x \in Slot : Owner(ptable[x]) /\ g \in {ptable[x].kstack, ptable[x].pgdir}
        BY <2>1, <2>5, <3>2 DEF Accounted, Used
      <4>2. g # ptable[p].pgdir
        BY <2>1, <2>5
      <4>3. Owner(ptable'[x]) /\ g \in {ptable'[x].kstack, ptable'[x].pgdir}
        BY <2>1, <2>2, <2>3, <4>1, <4>2
      <4>4. QED
        BY <4>3 DEF Used
    <3>3. QED
      BY <3>1, <3>2
  <2>6. QED
    BY <2>4, <2>5 DEF Accounted
<1>8. CASE UNCHANGED vars
  <2>1. freelist' = freelist /\ lost' = lost /\ ptable' = ptable
    BY <1>8 DEF vars, memory
  <2>2. QED
    BY <1>1, <2>1 DEF NoSharing, Alone, Accounted, Used
<1>9. CASE Next
  <2>1. ASSUME NEW p \in Slot,
           \/ Keeping(p) \/ Exit(p) \/ ForkStart(p) \/ CloneStart(p) \/ BadCloneStart(p)
           \/ NoStack(p) \/ ForkFail(p) \/ ForkLeak(p)
        PROVE  NoSharing' /\ Accounted'
    BY <1>2, <1>3, <2>1, KeptSteps
  <2>2. CASE InitExit \/ Tick
    BY <1>1, <2>1, <2>2, ProcAssumption DEF Keeping, Slot
  <2>3. QED
    BY <1>1, <1>3, <1>4, <1>5, <1>6, <1>7, <1>9, <2>1, <2>2, Steps DEF Keeping
<1>10. QED
  BY <1>1, <1>8, <1>9

LEMMA PagesInit == ProcAssumption /\ Init => PagesOwn /\ NoSharing /\ Accounted
<1> SUFFICES ASSUME ProcAssumption, Init PROVE PagesOwn /\ NoSharing /\ Accounted
  OBVIOUS
<1> DEFINE first == [Unused EXCEPT !.state = "RUNNABLE", !.pid = 1,
                                   !.kstack = 1, !.pgdir = 2, !.sz = 1]
<1>1. Unused.state = "UNUSED" /\ first.state = "RUNNABLE" /\ first.kstack = 1 /\ first.pgdir = 2
  BY DEF Unused
<1>2. ptable = [p \in Slot |-> IF p = InitProc THEN first ELSE Unused] /\ freelist = Page \ {1, 2}
  BY DEF Init
<1> HIDE DEF first
<1>3. \A p \in Slot : Owner(ptable[p]) => p = InitProc /\ ptable[p] = first
  BY <1>1, <1>2 DEF Owner, Lively
<1>4. PagesOwn /\ NoSharing
  BY <1>1, <1>2, <1>3 DEF PagesOwn, NoSharing, Alone
<1>5. InitProc \in Slot
  BY ProcAssumption DEF InitProc, Slot
<1>6. Owner(ptable[InitProc]) /\ ptable[InitProc] = first
  BY <1>1, <1>2, <1>5 DEF Owner, Lively
<1>7. Accounted
  BY <1>1, <1>2, <1>5, <1>6 DEF Accounted, Used
<1>8. QED
  BY <1>4, <1>7

(* While no program makes threads, and whatever else it does, with kill in *)
(* any state and sbrk: whoever may still run has its page directory and    *)
(* its kernel stack, and every page is free or in use, but for those that  *)
(* setupkvm has lost.                                                      *)
THEOREM PagesCorrect == NoThreads => (Spec => [](OnlySetupkvmLeaks /\ NoUseAfterFree))
<1> SUFFICES ASSUME NoThreads PROVE Spec => [](OnlySetupkvmLeaks /\ NoUseAfterFree)
  OBVIOUS
<1>1. Init => CalledFor /\ PagesOwn /\ NoSharing /\ Accounted
  BY CalledForInit, PagesInit, ProcAssumption
<1>2. TypeInv /\ CalledFor /\ PagesOwn /\ NoSharing /\ Accounted /\ [Next]_vars
         => CalledFor' /\ PagesOwn' /\ NoSharing' /\ Accounted'
  BY CalledForStep, NoThreadsStep, ProcAssumption
<1>3. TypeInv /\ PagesOwn /\ Accounted => OnlySetupkvmLeaks /\ NoUseAfterFree
  <2> SUFFICES ASSUME TypeInv, PagesOwn, Accounted PROVE OnlySetupkvmLeaks /\ NoUseAfterFree
    OBVIOUS
  <2> DEFINE Owners == Alive \cup InState("ZOMBIE")
             Theirs == UNION {{ptable[p].kstack, ptable[p].pgdir} : p \in Owners}
  <2>1. \A p : p \in Owners <=> p \in Slot /\ Owner(ptable[p])
    BY DEF Owner, Alive, InState, Lively
  <2>2. NoUseAfterFree
    BY <2>1 DEF NoUseAfterFree, PagesOwn
  <2>3. \A g : g \in Theirs <=> Used(g)
    <3> HIDE DEF Owners
    <3>1. QED
      BY <2>1 DEF Used
  <2>4. \A p \in Slot : Owner(ptable[p]) => ptable[p].pgdir \in Page /\ ptable[p].kstack \in Page
    BY DEF TypeInv, HasPages, Owner, Lively
  <2>5. \A g : Used(g) => g \in Page
    BY <2>4 DEF Used
  <2>6. freelist \subseteq Page /\ lost \subseteq Page
    BY DEF TypeInv, TypeOK
  <2>7. Page = freelist \cup lost \cup Theirs
    <3> HIDE DEF Theirs
    <3>1. QED
      BY <2>3, <2>5, <2>6 DEF Accounted
  <2>8. QED
    BY <2>2, <2>7 DEF OnlySetupkvmLeaks
<1>4. QED
  BY <1>1, <1>2, <1>3, FamilyHolds, PTL DEF Spec

-----------------------------------------------------------------------------
(* Threads.  Pids are given in order, so whoever runs or has exited was    *)
(* created after its parent and after init.                                *)
Born ==
    /\ \A q \in Slot : ptable[q].pid < nextpid
    /\ \A q \in Slot : Owner(ptable[q]) /\ q # InitProc =>
         /\ ptable[InitProc].pid < ptable[q].pid
         /\ ptable[ptable[q].parent].pid < ptable[q].pid
    /\ \A p \in Slot : pc[p] \in Creating => ptable[p].pid < ptable[np[p]].pid

LEMMA ParentLives ==
    ASSUME ProcAssumption, TypeInv, FamilyInv
    PROVE  /\ InitProc \in Slot /\ ptable[InitProc].state \in Lively /\ Owner(ptable[InitProc])
           /\ ptable[InitProc].parent = None
           /\ \A q \in Slot : ptable[q].parent # None =>
                ptable[q].parent \in Slot /\ ptable[ptable[q].parent].state \in Lively
                /\ Owner(ptable[ptable[q].parent])
           /\ \A q \in Slot : Owner(ptable[q]) /\ q # InitProc => ptable[q].parent # None
<1>1. \A p : p \in Alive <=> p \in Slot /\ ptable[p].state \in Lively
  BY DEF Alive, Lively
<1>2. QED
  BY <1>1 DEF FamilyInv, InitLives, Linked, Parented, Owner, InState

LEMMA BornStep ==
    ASSUME ProcAssumption, TypeInv, FamilyInv, Born, [Next]_vars
    PROVE  Born'
<1>0. \A q \in Slot : ptable[q].pid \in Nat /\ nextpid \in Nat
  BY Records
<1>1. ASSUME nextpid' = nextpid, \A q \in Slot : ptable'[q].pid = ptable[q].pid,
             \A q \in Slot : Owner(ptable'[q]) => Owner(ptable[q]) /\ ptable'[q].parent = ptable[q].parent,
             \A q \in Slot : pc'[q] \in Creating => pc[q] \in Creating /\ np'[q] = np[q]
      PROVE  Born'
  <2>1. \A q \in Slot : ptable'[q].pid < nextpid'
    BY <1>1 DEF Born
  <2>2. ASSUME NEW q \in Slot, Owner(ptable'[q]), q # InitProc
        PROVE  ptable'[InitProc].pid < ptable'[q].pid /\ ptable'[ptable'[q].parent].pid < ptable'[q].pid
    <3>1. Owner(ptable[q]) /\ ptable'[q].parent = ptable[q].parent /\ ptable[q].parent \in Slot
      BY <1>1, <2>2, ParentLives
    <3>2. QED
      BY <1>1, <2>2, <3>1, ParentLives DEF Born
  <2>3. ASSUME NEW p \in Slot, pc'[p] \in Creating PROVE ptable'[p].pid < ptable'[np'[p]].pid
    <3>1. pc[p] \in Creating /\ np'[p] = np[p] /\ np[p] \in Slot
      BY <1>1, <2>3 DEF TypeInv, CreatorHasSlot
    <3>2. QED
      BY <1>1, <3>1 DEF Born
  <2>4. QED
    BY <2>1, <2>2, <2>3 DEF Born
<1>2. ASSUME NEW p \in Slot, Keeping(p) PROVE Born'
  BY <1>1, <1>2, KeepingSteps DEF KeepsTable, Keeps
<1>3. ASSUME NEW p \in Slot, Exit(p) PROVE Born'
  <2>1. nextpid' = nextpid /\ pc' = pc /\ np' = np /\ Owner(ptable[p])
    BY <1>3 DEF Exit, locals, Owner, Running, Lively
  <2>2. \A q \in Slot : ptable'[q].pid = ptable[q].pid
    BY <1>3, ExitTable DEF ExitFate, SameUse
  <2>3. \A q \in Slot : ptable'[q].parent \in {ptable[q].parent, InitProc}
    BY <1>3, ExitTable DEF ExitFate
  <2>4. \A q \in Slot : Owner(ptable'[q]) => Owner(ptable[q])
    BY <1>3, KeptSteps DEF OwnersKept
  <2>5. \A q \in Slot : Owner(ptable'[q]) /\ q # InitProc =>
            /\ ptable'[InitProc].pid < ptable'[q].pid
            /\ ptable'[ptable'[q].parent].pid < ptable'[q].pid
    <3> SUFFICES ASSUME NEW q \in Slot, Owner(ptable'[q]), q # InitProc
                 PROVE  /\ ptable'[InitProc].pid < ptable'[q].pid
                        /\ ptable'[ptable'[q].parent].pid < ptable'[q].pid
      OBVIOUS
    <3>1. Owner(ptable[q]) /\ ptable[q].parent \in Slot /\ InitProc \in Slot
      BY <2>4, ParentLives
    <3>2. QED
      BY <2>2, <2>3, <3>1 DEF Born
  <2>6. \A x \in Slot : pc'[x] \in Creating => ptable'[x].pid < ptable'[np'[x]].pid
    <3>1. \A x \in Slot : pc[x] \in Creating => np[x] \in Slot
      BY DEF TypeInv, CreatorHasSlot
    <3>2. QED
      BY <2>1, <2>2, <3>1 DEF Born
  <2>7. \A q \in Slot : ptable'[q].pid < nextpid'
    BY <2>1, <2>2 DEF Born
  <2>8. QED
    BY <2>5, <2>6, <2>7 DEF Born
<1>4. ASSUME NEW c \in Slot, ptable[c].state \notin Lively, ~Owner(ptable'[c]),
             \A x \in Slot : x # c => ptable'[x] = ptable[x],
             nextpid \in Nat, nextpid' \in Nat, nextpid <= nextpid', ptable'[c].pid < nextpid',
             \A x \in Slot : pc'[x] \in Creating =>
                \/ pc[x] \in Creating /\ np'[x] = np[x] /\ np[x] # c
                \/ ptable[x].state \in Lively /\ np'[x] = c /\ ptable[x].pid < ptable'[c].pid
      PROVE  Born'
  <2>1. \A q \in Slot : ptable'[q].pid < nextpid'
    <3> SUFFICES ASSUME NEW q \in Slot, q # c PROVE ptable'[q].pid < nextpid'
      BY <1>4
    <3>1. ptable[q].pid \in Nat /\ ptable[q].pid < nextpid /\ ptable'[q] = ptable[q]
      BY <1>0, <1>4 DEF Born
    <3>2. QED
      BY <1>4, <3>1
  <2>2. ASSUME NEW q \in Slot, Owner(ptable'[q]), q # InitProc
        PROVE  ptable'[InitProc].pid < ptable'[q].pid /\ ptable'[ptable'[q].parent].pid < ptable'[q].pid
    <3>1. q # c /\ ptable'[q] = ptable[q] /\ Owner(ptable[q])
      BY <1>4, <2>2
    <3>2. ptable[q].parent \in Slot /\ ptable[q].parent # c /\ InitProc \in Slot /\ InitProc # c
      BY <1>4, <2>2, <3>1, ParentLives
    <3>3. QED
      BY <1>4, <2>2, <3>1, <3>2 DEF Born
  <2>3. ASSUME NEW x \in Slot, pc'[x] \in Creating PROVE ptable'[x].pid < ptable'[np'[x]].pid
    <3>1. CASE pc[x] \in Creating /\ np'[x] = np[x] /\ np[x] # c
      <4>1. np[x] \in Slot /\ ptable[x].state \in Lively
        BY <3>1 DEF TypeInv, CreatorHasSlot, OnlyAliveInKernel, Lively, Creating
      <4>2. QED
        BY <1>4, <3>1, <4>1 DEF Born
    <3>2. CASE ptable[x].state \in Lively /\ np'[x] = c /\ ptable[x].pid < ptable'[c].pid
      BY <1>4, <3>2
    <3>3. QED
      BY <1>4, <2>3, <3>1, <3>2
  <2>4. QED
    BY <2>1, <2>2, <2>3 DEF Born
<1>5. ASSUME NEW p \in Slot, ForkStart(p) \/ CloneStart(p) \/ BadCloneStart(p) PROVE Born'
  <2>1. PICK q \in Slot, r \in ProcRecord :
                /\ ptable[q].state = "UNUSED" /\ Update(q, r) /\ np'[p] = q
                /\ r.state = "EMBRYO" /\ r.pid = nextpid
    BY <1>5, Allocs
  <2>2. ptable'[q] = r /\ \A x \in Slot : x # q => ptable'[x] = ptable[x]
    BY <2>1, UpdateType DEF TypeInv
  <2>3. /\ Running(p) /\ nextpid' = nextpid + 1
        /\ \A x \in Slot : x # p => pc'[x] = pc[x] /\ np'[x] = np[x]
    BY <1>5, Allocs
  <2>4. \A x \in Slot : pc[x] \in Creating => np[x] # q
    BY <2>1 DEF TypeInv, CreatorHasSlot
  <2>5. ptable[p].state \in Lively /\ ptable[p].pid < nextpid
    BY <2>3 DEF Running, Lively, Born
  <2>6. \A x \in Slot : pc'[x] \in Creating =>
                \/ pc[x] \in Creating /\ np'[x] = np[x] /\ np[x] # q
                \/ ptable[x].state \in Lively /\ np'[x] = q /\ ptable[x].pid < ptable'[q].pid
    BY <2>1, <2>2, <2>3, <2>4, <2>5
  <2>7. ptable[q].state \notin Lively /\ ~Owner(ptable'[q])
    BY <2>1, <2>2 DEF Owner, Lively
  <2>8. nextpid \in Nat /\ nextpid' \in Nat /\ nextpid <= nextpid' /\ ptable'[q].pid < nextpid'
    BY <1>0, <2>1, <2>2, <2>3
  <2>9. QED
    BY <1>4, <2>2, <2>6, <2>7, <2>8
<1>6. ASSUME NEW p \in Slot, NoStack(p) \/ ForkFail(p) \/ ForkLeak(p) \/ BadClone(p)
      PROVE  Born'
  <2>1. PICK r \in ProcRecord : Update(np[p], r) /\ r.state \in {"UNUSED", "EMBRYO"} /\ r.pid = ptable[np[p]].pid
    BY <1>6, GivesUp, Clones DEF BadClone
  <2>2. /\ np[p] \in Slot /\ ptable[np[p]].state = "EMBRYO" /\ nextpid' = nextpid /\ pc'[p] = "user"
        /\ \A x \in Slot : x # p => pc'[x] = pc[x] /\ np'[x] = np[x]
    BY <1>6, Creates
  <2>3. ptable'[np[p]] = r /\ \A x \in Slot : x # np[p] => ptable'[x] = ptable[x]
    BY <2>1, <2>2, UpdateType DEF TypeInv
  <2>4. ~Owner(r)
    BY <2>1 DEF Owner, Lively
  <2>5. \A q \in Slot : ptable'[q].pid = ptable[q].pid
    BY <2>1, <2>3
  <2>6. \A q \in Slot : Owner(ptable'[q]) => Owner(ptable[q]) /\ ptable'[q].parent = ptable[q].parent
    BY <2>3, <2>4
  <2>7. \A q \in Slot : pc'[q] \in Creating => pc[q] \in Creating /\ np'[q] = np[q]
    BY <2>2 DEF Creating
  <2>8. QED
    BY <1>1, <2>2, <2>5, <2>6, <2>7
<1>7. ASSUME NEW p \in Slot, Fork(p) \/ Clone(p) PROVE Born'
  <2>1. PICK c \in Slot :
             /\ c = np[p] /\ c # p /\ ptable[c].state = "EMBRYO" /\ ptable'[c].parent = p
             /\ \A x \in Slot : x # c => ptable'[x] = ptable[x]
             /\ ptable'[c].pid = ptable[c].pid
    BY <1>7, Made
  <2>2. /\ Running(p) /\ pc[p] \in Creating /\ nextpid' = nextpid /\ pc'[p] = "user"
        /\ \A x \in Slot : x # p => pc'[x] = pc[x] /\ np'[x] = np[x]
    BY <1>7, Creates
  <2>3. ptable[p].pid < ptable[c].pid
    BY <2>1, <2>2 DEF Born
  <2>4. Owner(ptable[p])
    BY <2>2 DEF Running, Owner, Lively
  <2>5. p = InitProc \/ ptable[InitProc].pid < ptable[p].pid
    BY <2>4 DEF Born
  <2>6. ptable[InitProc].pid < ptable[c].pid
    <3>1. InitProc \in Slot
      BY ParentLives
    <3>2. QED
      BY <1>0, <2>3, <2>5, <3>1
  <2>7. \A q \in Slot : ptable'[q].pid = ptable[q].pid
    BY <2>1
  <2>8. \A q \in Slot : ptable'[q].pid < nextpid'
    BY <2>2, <2>7 DEF Born
  <2>9. ASSUME NEW q \in Slot, Owner(ptable'[q]), q # InitProc
        PROVE  ptable'[InitProc].pid < ptable'[q].pid /\ ptable'[ptable'[q].parent].pid < ptable'[q].pid
    <3>1. CASE q = c
      BY <2>1, <2>3, <2>6, <2>7, <3>1, ParentLives
    <3>2. CASE q # c
      <4>1. ptable'[q] = ptable[q] /\ ptable[q].parent \in Slot /\ InitProc \in Slot
        BY <2>1, <2>9, <3>2, ParentLives
      <4>2. QED
        BY <2>7, <2>9, <4>1 DEF Born
    <3>3. QED
      BY <3>1, <3>2
  <2>10. ASSUME NEW x \in Slot, pc'[x] \in Creating PROVE ptable'[x].pid < ptable'[np'[x]].pid
    <3>1. x # p /\ pc[x] \in Creating /\ np'[x] = np[x]
      BY <2>2, <2>10 DEF Creating
    <3>2. np[x] \in Slot
      BY <3>1 DEF TypeInv, CreatorHasSlot
    <3>3. QED
      BY <2>7, <3>1, <3>2 DEF Born
  <2>11. QED
    BY <2>8, <2>9, <2>10 DEF Born
<1>8. ASSUME NEW p \in Slot, WaitReap(p) \/ JoinReap(p) PROVE Born'
  <2>1. PICK q \in Slot, r \in ProcRecord : Reaped(p, q, r)
    BY <1>8, WaitReaps, JoinReaps
  <2>2. ptable'[q] = r /\ \A x \in Slot : x # q => ptable'[x] = ptable[x]
    BY <2>1, UpdateType DEF TypeInv, Reaped
  <2>3. /\ nextpid' = nextpid /\ np' = np /\ pc'[p] = "user" /\ pc[p] \in {"wait", "join"}
        /\ \A x \in Slot : x # p => pc'[x] = pc[x]
    BY <1>8, ReapReturns
  <2>4. ptable[q].state \notin Lively /\ ~Owner(ptable'[q])
    BY <2>1, <2>2 DEF Reaped, Owner, Lively
  <2>5. \A x \in Slot : pc'[x] \in Creating => pc[x] \in Creating /\ np'[x] = np[x] /\ np[x] # q
    BY <2>1, <2>3 DEF Creating, TypeInv, CreatorHasSlot, Reaped
  <2>6. nextpid' \in Nat /\ nextpid <= nextpid' /\ ptable'[q].pid < nextpid'
    <3>1. ptable[q].pid \in Nat /\ ptable[q].pid < nextpid /\ nextpid \in Nat
      BY <1>0 DEF Born
    <3>2. ptable'[q].pid = 0
      BY <2>1, <2>2 DEF Reaped
    <3>3. QED
      BY <2>3, <3>1, <3>2
  <2>7. QED
    BY <1>0, <1>4, <2>2, <2>4, <2>5, <2>6
<1>9. ASSUME NEW p \in Slot, Exec(p) PROVE Born'
  <2>1. PICK r \in ProcRecord : /\ Update(p, r) /\ r.state = "RUNNING"
                                /\ r.pid = ptable[p].pid /\ r.parent = ptable[p].parent
    BY <1>9, Execs
  <2>2. ptable'[p] = r /\ \A x \in Slot : x # p => ptable'[x] = ptable[x]
    BY <2>1, UpdateType DEF TypeInv
  <2>3. nextpid' = nextpid /\ pc' = pc /\ np' = np /\ Owner(ptable[p])
    BY <1>9, Execs DEF Syscall, Running, Owner, Lively
  <2>4. QED
    BY <1>1, <2>1, <2>2, <2>3
<1>10. CASE UNCHANGED vars
  <2>1. ptable' = ptable /\ nextpid' = nextpid /\ pc' = pc /\ np' = np
    BY <1>10 DEF vars, locals
  <2>2. QED
    BY <1>1, <2>1
<1>11. CASE Next
  <2>1. CASE InitExit \/ Tick
    BY <1>2, <2>1, ProcAssumption DEF Keeping, Slot
  <2>2. QED
    BY <1>2, <1>3, <1>5, <1>6, <1>7, <1>8, <1>9, <1>11, <2>1, Steps DEF Keeping
<1>12. QED
  BY <1>10, <1>11

(* A child with the page directory of its parent, for join.                *)
IsThread(q) == ptable[q].parent # None /\ ptable[ptable[q].parent].pgdir = ptable[q].pgdir

(* Of those that share a directory all but one are threads of another; init*)
(* shares with nobody.                                                     *)
OneRoot ==
    \A p, q \in Slot : Owner(ptable[p]) /\ Owner(ptable[q]) /\ p # q /\ ptable[p].pgdir = ptable[q].pgdir
        => IsThread(p) \/ IsThread(q)

(* The code of whoever may run is mapped, so nobody is killed by a trap.   *)
Calm ==
    \A p \in Slot : /\ ~ptable[p].killed
                    /\ ptable[p].state \in Lively => 1 \in mapped[ptable[p].pgdir] /\ ptable[p].sz >= 1

(* And copyuvm copies it.                                                  *)
CopiesCode == \A p \in Slot : pc[p] = "copy" => newsz[p] >= 1

ThreadInv == PagesOwn /\ OneRoot /\ Alone(InitProc) /\ Born /\ Calm /\ CopiesCode

(* A ZOMBIE that wait collects shares its directory with nobody: of those  *)
(* that share it, the first to be created is a thread, whose parent shares *)
(* it as well and was created before.                                      *)
LEMMA ZombieAlone ==
    ASSUME ProcAssumption, TypeInv, FamilyInv, ThreadInv, NEW p \in Slot, NEW q \in Slot,
           ptable[q].state = "ZOMBIE", ptable[q].parent = p, ptable[q].pgdir # ptable[p].pgdir
    PROVE  Alone(q)
<1> SUFFICES ASSUME NEW s \in Slot, Owner(ptable[s]), s # q, ptable[s].pgdir = ptable[q].pgdir
             PROVE  FALSE
  BY DEF Alone
<1> DEFINE S == {x \in Slot : Owner(ptable[x]) /\ x # q /\ ptable[x].pgdir = ptable[q].pgdir}
           Pids == {ptable[x].pid : x \in S}
<1>1. Pids \in SUBSET Nat /\ Pids # {}
  BY Records
<1>2. PICK m \in Pids : \A y \in Pids : m <= y
  <2> HIDE DEF Pids
  <2>1. QED
    BY <1>1, LeastExists
<1>3. PICK x \in S : m = ptable[x].pid
  BY <1>2
<1>4. Owner(ptable[q]) /\ q # InitProc
  BY ParentLives DEF Owner, Lively
<1>5. x # InitProc
  BY <1>3, <1>4 DEF ThreadInv, Alone
<1>6. IsThread(x)
  <2>1. ~IsThread(q)
    BY DEF IsThread
  <2>2. QED
    BY <1>3, <1>4, <2>1 DEF ThreadInv, OneRoot
<1> DEFINE y == ptable[x].parent
<1>7. y \in Slot /\ ptable[y].state \in Lively /\ Owner(ptable[y]) /\ ptable[y].pgdir = ptable[q].pgdir
  BY <1>3, <1>6, ParentLives DEF IsThread
<1>8. y # q
  BY <1>7 DEF Lively
<1>9. y \in S
  BY <1>7, <1>8
<1>10. ptable[y].pid < ptable[x].pid
  BY <1>3, <1>5 DEF ThreadInv, Born
<1>11. ptable[y].pid >= ptable[x].pid
  BY <1>2, <1>3, <1>9
<1>12. ptable[x].pid \in Nat /\ ptable[y].pid \in Nat
  BY <1>3, <1>7, Records
<1>13. QED
  BY <1>10, <1>11, <1>12

JoinsThreads == JoinFirst /\ {"kill", "sbrk"} \cap Calls = {}

LEMMA ExecAlone ==
    ASSUME JoinsThreads, NEW p \in Slot, Exec(p)
    PROVE  Alone(p)
  BY DEF JoinsThreads, Exec, Sharers, Alone, Owner, Lively

(* Who is a thread stays one.                                              *)
LEMMA RootsStep ==
    ASSUME ProcAssumption, JoinsThreads, TypeInv, FamilyInv, CalledFor, ThreadInv, [Next]_vars
    PROVE  OneRoot' /\ Alone(InitProc)'
<1>0. InitProc \in Slot /\ Owner(ptable[InitProc])
  BY ParentLives
<1>1. ASSUME \A x \in Slot : Owner(ptable'[x]) =>
                /\ Owner(ptable[x]) /\ ptable'[x].pgdir = ptable[x].pgdir
                /\ IsThread(x) => IsThread(x)',
             ptable'[InitProc].pgdir = ptable[InitProc].pgdir
      PROVE  OneRoot' /\ Alone(InitProc)'
  <2>1. OneRoot'
    BY <1>1 DEF ThreadInv, OneRoot
  <2>2. Alone(InitProc)'
    BY <1>1 DEF ThreadInv, Alone
  <2>3. QED
    BY <2>1, <2>2
<1>2. ASSUME NEW c \in Slot, ptable[c].state \notin Lively, ~Owner(ptable'[c]),
             \A x \in Slot : x # c => ptable'[x] = ptable[x]
      PROVE  OneRoot' /\ Alone(InitProc)'
  <2>1. ASSUME NEW x \in Slot, Owner(ptable'[x])
        PROVE  /\ Owner(ptable[x]) /\ ptable'[x].pgdir = ptable[x].pgdir
               /\ IsThread(x) => IsThread(x)'
    <3>1. x # c /\ ptable'[x] = ptable[x]
      BY <1>2, <2>1
    <3>2. IsThread(x) => ptable[x].parent \in Slot /\ ptable[x].parent # c
      BY <1>2, ParentLives DEF IsThread
    <3>3. QED
      BY <1>2, <2>1, <3>1, <3>2 DEF IsThread
  <2>2. InitProc # c
    BY <1>2, ParentLives
  <2>3. QED
    BY <1>0, <1>1, <1>2, <2>1, <2>2
<1>3. ASSUME NEW p \in Slot, Keeping(p) PROVE OneRoot' /\ Alone(InitProc)'
  <2>1. \A x \in Slot : /\ Owner(ptable'[x]) => Owner(ptable[x])
                        /\ ptable'[x].pgdir = ptable[x].pgdir /\ ptable'[x].parent = ptable[x].parent
    BY <1>3, KeepingSteps DEF KeepsTable, Keeps
  <2>2. \A x \in Slot : IsThread(x) => IsThread(x)'
    BY <2>1, ParentLives DEF IsThread
  <2>3. QED
    BY <1>0, <1>1, <2>1, <2>2
<1>4. ASSUME NEW p \in Slot, Exit(p) PROVE OneRoot' /\ Alone(InitProc)'
  <2>1. Threads(p) = {}
    BY <1>4 DEF Exit, JoinsThreads, ThreadInv, Calm
  <2>2. \A x \in Slot : ptable'[x].pgdir = ptable[x].pgdir
    BY <1>4, ExitTable DEF ExitFate
  <2>3. \A x \in Slot : ptable[x].parent # p => ptable'[x].parent = ptable[x].parent
    BY <1>4, ExitTable DEF ExitFate
  <2>4. \A x \in Slot : Owner(ptable'[x]) => Owner(ptable[x])
    BY <1>4, KeptSteps DEF OwnersKept
  <2>5. \A x \in Slot : IsThread(x) => ptable[x].parent # p
    BY <2>1 DEF IsThread, Threads, Children
  <2>6. \A x \in Slot : IsThread(x) => IsThread(x)'
    BY <2>2, <2>3, <2>5, ParentLives DEF IsThread
  <2>7. QED
    BY <1>0, <1>1, <2>2, <2>4, <2>6
<1>5. ASSUME NEW p \in Slot, ForkStart(p) \/ CloneStart(p) \/ BadCloneStart(p)
      PROVE  OneRoot' /\ Alone(InitProc)'
  <2>1. PICK q \in Slot, r \in ProcRecord :
                ptable[q].state = "UNUSED" /\ Update(q, r) /\ r.state = "EMBRYO"
    BY <1>5, Allocs
  <2>2. ptable'[q] = r /\ \A x \in Slot : x # q => ptable'[x] = ptable[x]
    BY <2>1, UpdateType DEF TypeInv
  <2>3. ptable[q].state \notin Lively /\ ~Owner(ptable'[q])
    BY <2>1, <2>2 DEF Owner, Lively
  <2>4. QED
    BY <1>2, <2>2, <2>3
<1>6. ASSUME NEW p \in Slot, NoStack(p) \/ ForkFail(p) \/ ForkLeak(p) \/ BadClone(p)
      PROVE  OneRoot' /\ Alone(InitProc)'
  <2>1. PICK r \in ProcRecord : Update(np[p], r) /\ r.state \in {"UNUSED", "EMBRYO"}
    BY <1>6, GivesUp, Clones DEF BadClone
  <2>2. np[p] \in Slot /\ ptable[np[p]].state = "EMBRYO"
    BY <1>6, Creates
  <2>3. ptable'[np[p]] = r /\ \A x \in Slot : x # np[p] => ptable'[x] = ptable[x]
    BY <2>1, <2>2, UpdateType DEF TypeInv
  <2>4. ptable[np[p]].state \notin Lively /\ ~Owner(ptable'[np[p]])
    BY <2>1, <2>2, <2>3 DEF Owner, Lively
  <2>5. QED
    BY <1>2, <2>2, <2>3, <2>4
<1>7. ASSUME NEW p \in Slot, WaitReap(p) \/ JoinReap(p) PROVE OneRoot' /\ Alone(InitProc)'
  <2>1. PICK q \in Slot, r \in ProcRecord : Reaped(p, q, r)
    BY <1>7, WaitReaps, JoinReaps
  <2>2. ptable'[q] = r /\ \A x \in Slot : x # q => ptable'[x] = ptable[x]
    BY <2>1, UpdateType DEF TypeInv, Reaped
  <2>3. ptable[q].state \notin Lively /\ ~Owner(ptable'[q])
    BY <2>1, <2>2 DEF Reaped, Owner, Lively
  <2>4. QED
    BY <1>2, <2>2, <2>3
<1>8. ASSUME NEW p \in Slot, Fork(p) \/ Clone(p) PROVE OneRoot' /\ Alone(InitProc)'
  <2>1. PICK c \in Slot :
             /\ c = np[p] /\ c # p /\ ptable[c].state = "EMBRYO" /\ ptable'[c].parent = p
             /\ \A x \in Slot : x # c => ptable'[x] = ptable[x]
             /\ \/ ptable'[c].pgdir \in freelist
                \/ Clone(p) /\ ptable'[c].pgdir = ptable[p].pgdir
    BY <1>8, Made
  <2>2. ptable[c].state \notin Lively /\ ~Owner(ptable[c]) /\ Owner(ptable[p]) /\ c # InitProc /\ p # None
    <3>1. Running(p)
      BY <1>8, Creates
    <3>2. None \notin Slot
      BY ProcAssumption DEF Slot
    <3>3. QED
      BY <2>1, <3>1, <3>2, ParentLives DEF Owner, Lively, Running
  <2>3. ASSUME NEW x \in Slot, x # c, IsThread(x) PROVE IsThread(x)'
    <3>1. ptable[x].parent \in Slot /\ ptable[x].parent # c
      BY <2>2, <2>3, ParentLives DEF IsThread
    <3>2. QED
      BY <2>1, <2>3, <3>1 DEF IsThread
  <2>4. CASE ptable'[c].pgdir \in freelist
    <3>1. \A x \in Slot : x # c /\ Owner(ptable'[x]) => Owner(ptable[x]) /\ ptable'[x].pgdir # ptable'[c].pgdir
      BY <2>1, <2>4 DEF ThreadInv, PagesOwn
    <3>2. OneRoot'
      BY <2>1, <2>3, <3>1 DEF ThreadInv, OneRoot
    <3>3. Alone(InitProc)'
      BY <1>0, <2>1, <2>2, <2>4, <3>1 DEF ThreadInv, Alone, PagesOwn
    <3>4. QED
      BY <3>2, <3>3
  <2>5. CASE Clone(p) /\ ptable'[c].pgdir = ptable[p].pgdir
    <3>1. IsThread(c)'
      BY <2>1, <2>2, <2>5 DEF IsThread
    <3>2. OneRoot'
      BY <2>1, <2>3, <3>1 DEF ThreadInv, OneRoot
    <3>3. p # InitProc
      BY <2>5 DEF Clone, CalledFor
    <3>4. Alone(InitProc)'
      BY <1>0, <2>1, <2>2, <2>5, <3>3 DEF ThreadInv, Alone
    <3>5. QED
      BY <3>2, <3>4
  <2>6. QED
    BY <2>1, <2>4, <2>5
<1>9. ASSUME NEW p \in Slot, Exec(p) PROVE OneRoot' /\ Alone(InitProc)'
  <2>1. PICK pd \in freelist, r \in ProcRecord :
                /\ Update(p, r) /\ r.state = "RUNNING" /\ r.pgdir = pd
                /\ r.parent = ptable[p].parent
    BY <1>9, Execs
  <2>2. ptable'[p] = r /\ \A x \in Slot : x # p => ptable'[x] = ptable[x]
    BY <2>1, UpdateType DEF TypeInv
  <2>3. Alone(p) /\ Owner(ptable[p])
    BY <1>9, ExecAlone DEF Exec, Syscall, Running, Owner, Lively
  <2>4. \A x \in Slot : Owner(ptable[x]) => ptable[x].pgdir # pd
    BY DEF ThreadInv, PagesOwn
  <2>5. ASSUME NEW x \in Slot, x # p, Owner(ptable[x]), IsThread(x) PROVE IsThread(x)'
    <3>1. ptable[x].parent \in Slot /\ ptable[x].pgdir # ptable[p].pgdir
      BY <2>3, <2>5, ParentLives DEF IsThread, Alone
    <3>2. ptable[x].parent # p
      BY <2>5, <3>1 DEF IsThread
    <3>3. QED
      BY <2>2, <2>5, <3>1, <3>2 DEF IsThread
  <2>6. OneRoot'
    <3> SUFFICES ASSUME NEW x \in Slot, NEW y \in Slot, Owner(ptable'[x]), Owner(ptable'[y]), x # y,
                        ptable'[x].pgdir = ptable'[y].pgdir
                 PROVE  IsThread(x)' \/ IsThread(y)'
      BY DEF OneRoot
    <3>1. Owner(ptable[x]) /\ Owner(ptable[y])
      BY <2>2, <2>3
    <3>2. x # p /\ y # p
      BY <2>1, <2>2, <2>4, <3>1
    <3>3. IsThread(x) \/ IsThread(y)
      BY <2>2, <3>1, <3>2 DEF ThreadInv, OneRoot
    <3>4. QED
      BY <2>5, <3>1, <3>2, <3>3
  <2>7. Alone(InitProc)'
    BY <1>0, <2>1, <2>2, <2>3, <2>4 DEF ThreadInv, Alone
  <2>8. QED
    BY <2>6, <2>7
<1>10. CASE UNCHANGED vars
  <2>1. ptable' = ptable
    BY <1>10 DEF vars
  <2>2. QED
    BY <2>1 DEF ThreadInv, OneRoot, Alone, IsThread
<1>11. CASE Next
  <2>1. CASE InitExit \/ Tick
    BY <1>3, <2>1, ProcAssumption DEF Keeping, Slot
  <2>2. QED
    BY <1>3, <1>4, <1>5, <1>6, <1>7, <1>8, <1>9, <1>11, <2>1, Steps DEF Keeping
<1>12. QED
  BY <1>10, <1>11

(* The steps that leave alone what Calm speaks of.                         *)
Peaceful(p) ==
    \/ Schedule(p) \/ Yield(p) \/ ForkSize(p) \/ ForkPanic(p) \/ ExecLeak(p)
    \/ WaitStart(p) \/ WaitFail(p) \/ WaitSleep(p) \/ JoinStart(p) \/ JoinFail(p) \/ JoinSleep(p)
    \/ SleepStart(p) \/ SleepSpin(p) \/ SleepTest(p) \/ SleepNow(p)
    \/ InitExit \/ Tick

LEMMA PeacefulSteps ==
    ASSUME ProcAssumption, TypeInv, NEW p \in Slot, Peaceful(p)
    PROVE  mapped' = mapped /\ \A q \in Slot : SameUse(ptable[q], ptable'[q])
<1>0. ptable \in [Slot -> ProcRecord] /\ ptable[p] \in ProcRecord
  BY DEF TypeInv, TypeOK
<1>1. mapped' = mapped
  BY DEF Peaceful, Schedule, Yield, ForkSize, ForkPanic, ExecLeak, WaitStart, WaitFail, WaitSleep, JoinStart,
         JoinFail, JoinSleep, SleepStart, SleepSpin, SleepTest, SleepNow, InitExit, Tick, memory
<1>2. ASSUME NEW r \in ProcRecord, Update(p, r), SameUse(ptable[p], r)
      PROVE  \A q \in Slot : SameUse(ptable[q], ptable'[q])
  BY <1>2, UpdateType DEF TypeInv, SameUse
<1>3. \A s \in States : \A ch \in Slot \cup {Ticks, None} :
         LET r == [ptable[p] EXCEPT !.state = s, !.chan = ch]
         IN  r \in ProcRecord /\ SameUse(ptable[p], r)
  BY <1>0 DEF SameUse, ProcRecord
<1>4. CASE Schedule(p)
  <2>1. Update(p, [ptable[p] EXCEPT !.state = "RUNNING", !.chan = None]) /\ "RUNNING" \in States
    BY <1>4 DEF Schedule, States
  <2>2. QED
    BY <1>1, <1>2, <1>3, <2>1
<1>5. CASE Yield(p)
  <2> DEFINE r == [ptable[p] EXCEPT !.state = "RUNNABLE"]
  <2>1. r \in ProcRecord /\ SameUse(ptable[p], r)
    BY <1>0 DEF SameUse, ProcRecord, States
  <2>2. Update(p, r)
    BY <1>5 DEF Yield
  <2> HIDE DEF r
  <2>3. QED
    BY <1>1, <1>2, <2>1, <2>2
<1>6. CASE WaitSleep(p) \/ JoinSleep(p) \/ SleepNow(p)
  <2>1. PICK ch \in Slot \cup {Ticks} : Update(p, [ptable[p] EXCEPT !.state = "SLEEPING", !.chan = ch])
    BY <1>6 DEF WaitSleep, JoinSleep, SleepNow, Sleep
  <2>2. "SLEEPING" \in States
    BY DEF States
  <2>3. QED
    BY <1>1, <1>2, <1>3, <2>1, <2>2
<1>7. CASE Tick
  <2>1. ptable' = Wakeup1(ptable, Ticks)
    BY <1>7 DEF Tick
  <2>2. QED
    BY <1>0, <1>1, <2>1, WakeupType DEF SameUse
<1>8. CASE ForkPanic(p) \/ WaitStart(p) \/ WaitFail(p) \/ JoinStart(p) \/ JoinFail(p)
           \/ SleepStart(p) \/ SleepSpin(p) \/ SleepTest(p) \/ InitExit \/ ForkSize(p) \/ ExecLeak(p)
  <2>1. ptable' = ptable
    BY <1>8 DEF ForkSize, ExecLeak, ForkPanic, WaitStart, WaitFail, JoinStart, JoinFail, SleepStart, SleepSpin, SleepTest, InitExit
  <2>2. QED
    BY <1>1, <2>1 DEF SameUse
<1>9. QED
  BY <1>4, <1>5, <1>6, <1>7, <1>8 DEF Peaceful

LEMMA CalmStep ==
    ASSUME ProcAssumption, JoinsThreads, TypeInv, FamilyInv, CalledFor, ThreadInv, [Next]_vars
    PROVE  Calm'
<1>0. \A q \in Slot : ptable[q].state \in Lively => ptable[q].pgdir \in Page /\ Owner(ptable[q])
  BY DEF TypeInv, HasPages, Lively, Owner
<1>1. ASSUME mapped' = mapped, NEW c \in Slot, ~ptable'[c].killed, ptable'[c].state \notin Lively,
             \A x \in Slot : x # c => ptable'[x] = ptable[x]
      PROVE  Calm'
  BY <1>1 DEF ThreadInv, Calm
<1>2. ASSUME mapped' = mapped, \A q \in Slot : SameUse(ptable[q], ptable'[q]),
             \A q \in Slot : ptable'[q].state \in Lively =>
                ptable[q].state \in Lively /\ ptable'[q].pgdir = ptable[q].pgdir
      PROVE  Calm'
  BY <1>2 DEF ThreadInv, Calm, SameUse
<1>3. ASSUME NEW p \in Slot, Peaceful(p) PROVE Calm'
  <2>1. Keeping(p)
    BY <1>3 DEF Peaceful, Keeping
  <2>2. \A q \in Slot : /\ ptable'[q].state \in Lively => ptable[q].state \in Lively
                        /\ ptable'[q].pgdir = ptable[q].pgdir
    BY <2>1, KeepingSteps DEF KeepsTable, Keeps
  <2>3. QED
    BY <1>2, <1>3, <2>2, PeacefulSteps
<1>4. ASSUME NEW p \in Slot, Fault(p) \/ Kill(p) \/ GrowMap(p) \/ GrowToNothing(p) \/ GrowPanic(p) \/ GrowPublish(p)
      PROVE  FALSE
  <2>1. ~Fault(p)
    BY DEF Fault, ThreadInv, Calm, Running, Lively
  <2>2. ~Kill(p) /\ ~GrowMap(p) /\ ~GrowToNothing(p) /\ ~GrowPanic(p)
    BY DEF Kill, GrowMap, GrowToNothing, GrowPanic, Syscall, JoinsThreads
  <2>3. ~GrowPublish(p)
    BY DEF GrowPublish, CalledFor, JoinsThreads
  <2>4. QED
    BY <1>4, <2>1, <2>2, <2>3
<1>5. ASSUME NEW p \in Slot, Exit(p) PROVE Calm'
  <2>1. mapped' = mapped /\ ptable[p].state \in Lively
    BY <1>5 DEF Exit, memory, Running, Lively
  <2>2. \A q \in Slot : SameUse(ptable[q], ptable'[q]) /\ ptable'[q].pgdir = ptable[q].pgdir
    BY <1>5, ExitTable DEF ExitFate
  <2>3. \A q \in Slot : ptable'[q].state \in Lively => ptable[q].state \in Lively
    BY <1>5, <2>1, ExitTable DEF ExitFate, Lively
  <2>4. QED
    BY <1>2, <2>1, <2>2, <2>3
<1>6. ASSUME NEW p \in Slot, ForkStart(p) \/ CloneStart(p) \/ BadCloneStart(p) PROVE Calm'
  <2>1. PICK q \in Slot, r \in ProcRecord :
                Update(q, r) /\ r.state = "EMBRYO" /\ r.killed = ptable[q].killed
    BY <1>6, Allocs
  <2>2. ptable'[q] = r /\ \A x \in Slot : x # q => ptable'[x] = ptable[x]
    BY <2>1, UpdateType DEF TypeInv
  <2>3. mapped' = mapped
    BY <1>6, Allocs DEF memory
  <2>4. ~ptable'[q].killed /\ ptable'[q].state \notin Lively
    BY <2>1, <2>2 DEF Lively, ThreadInv, Calm
  <2>5. QED
    BY <1>1, <2>2, <2>3, <2>4
<1>7. ASSUME NEW p \in Slot, NoStack(p) \/ ForkFail(p) \/ ForkLeak(p) \/ BadClone(p) PROVE Calm'
  <2>1. PICK r \in ProcRecord :
           /\ Update(np[p], r) /\ r.state \in {"UNUSED", "EMBRYO"}
           /\ r.killed = ptable[np[p]].killed
    BY <1>7, GivesUp, Clones DEF BadClone
  <2>2. np[p] \in Slot
    BY <1>7, Creates
  <2>3. ptable'[np[p]] = r /\ \A x \in Slot : x # np[p] => ptable'[x] = ptable[x]
    BY <2>1, <2>2, UpdateType DEF TypeInv
  <2>4. mapped' = mapped
    BY <1>7, GivesUp, Clones
  <2>5. ~ptable'[np[p]].killed /\ ptable'[np[p]].state \notin Lively
    BY <2>1, <2>2, <2>3 DEF Lively, ThreadInv, Calm
  <2>6. QED
    BY <1>1, <2>2, <2>3, <2>4, <2>5
<1>8. ASSUME NEW p \in Slot, Fork(p) \/ Clone(p) PROVE Calm'
  <2>1. PICK c \in Slot :
             /\ c = np[p] /\ c # p
             /\ \A x \in Slot : x # c => ptable'[x] = ptable[x]
             /\ ptable'[c].sz = ptable[p].sz /\ ptable'[c].killed = ptable[c].killed
             /\ \/ \E pd \in freelist : /\ Fork(p) /\ ptable'[c].pgdir = pd
                                        /\ mapped' = [mapped EXCEPT ![pd] = 1 .. newsz[p]]
                \/ ptable'[c].pgdir = ptable[p].pgdir /\ mapped' = mapped
    BY <1>8, Made
  <2>2. ptable[p].state \in Lively /\ ptable[p].sz \in Nat
    BY <1>8, Creates, Records DEF Running, Lively
  <2>3. 1 \in mapped[ptable[p].pgdir] /\ ptable[p].sz >= 1
    BY <2>2 DEF ThreadInv, Calm
  <2>4. ~ptable'[c].killed /\ ptable'[c].sz >= 1
    BY <2>1, <2>3 DEF ThreadInv, Calm
  <2>5. CASE ptable'[c].pgdir = ptable[p].pgdir /\ mapped' = mapped
    BY <2>1, <2>3, <2>4, <2>5 DEF ThreadInv, Calm
  <2>6. ASSUME NEW pd \in freelist, Fork(p), ptable'[c].pgdir = pd,
               mapped' = [mapped EXCEPT ![pd] = 1 .. newsz[p]]
        PROVE  Calm'
    <3>0. newsz[p] >= 1 /\ newsz[p] \in Nat
      BY <2>6 DEF Fork, ThreadInv, CopiesCode, TypeInv, TypeOK
    <3>1. pd \in Page /\ mapped \in [Page -> SUBSET (1 .. MaxSz)]
      BY Records DEF TypeInv, TypeOK
    <3>2. mapped'[pd] = 1 .. newsz[p] /\ \A g \in Page : g # pd => mapped'[g] = mapped[g]
      BY <2>6, <3>1
    <3>3. 1 \in mapped'[ptable'[c].pgdir]
      BY <2>6, <3>0, <3>2
    <3>4. \A x \in Slot : ptable[x].state \in Lively => ptable[x].pgdir \in Page /\ ptable[x].pgdir # pd
      BY <1>0 DEF ThreadInv, PagesOwn
    <3>5. QED
      BY <2>1, <2>4, <3>2, <3>3, <3>4 DEF ThreadInv, Calm
  <2>7. QED
    BY <2>1, <2>5, <2>6
<1>9. ASSUME NEW p \in Slot, WaitReap(p) PROVE Calm'
  <2>1. PICK q \in Slot, r \in ProcRecord :
             /\ Reaped(p, q, r) /\ ptable[q].pgdir # ptable[p].pgdir
             /\ mapped' = [mapped EXCEPT ![ptable[q].pgdir] = {}]
    BY <1>9, WaitReaps
  <2>2. ptable'[q] = r /\ \A x \in Slot : x # q => ptable'[x] = ptable[x]
    BY <2>1, UpdateType DEF TypeInv, Reaped
  <2>3. Alone(q)
    BY <2>1, ZombieAlone DEF Reaped
  <2>4. ~ptable'[q].killed /\ ptable'[q].state \notin Lively
    BY <2>1, <2>2 DEF Reaped, Lively
  <2>5. \A x \in Slot : x # q /\ ptable[x].state \in Lively => mapped'[ptable[x].pgdir] = mapped[ptable[x].pgdir]
    BY <1>0, <2>1, <2>3 DEF Alone, TypeInv, TypeOK
  <2>6. QED
    BY <2>2, <2>4, <2>5 DEF ThreadInv, Calm
<1>10. ASSUME NEW p \in Slot, JoinReap(p) PROVE Calm'
  <2>1. PICK q \in Slot, r \in ProcRecord : Reaped(p, q, r)
    BY <1>10, JoinReaps
  <2>2. ptable'[q] = r /\ \A x \in Slot : x # q => ptable'[x] = ptable[x]
    BY <2>1, UpdateType DEF TypeInv, Reaped
  <2>3. mapped' = mapped
    BY <1>10, JoinReaps DEF memory
  <2>4. ~ptable'[q].killed /\ ptable'[q].state \notin Lively
    BY <2>1, <2>2 DEF Reaped, Lively
  <2>5. QED
    BY <1>1, <2>2, <2>3, <2>4
<1>11. ASSUME NEW p \in Slot, Exec(p) PROVE Calm'
  <2>1. PICK pd \in freelist, r \in ProcRecord :
                /\ mapped' = [mapped EXCEPT ![pd] = {1}, ![ptable[p].pgdir] = {}]
                /\ Update(p, r) /\ r.pgdir = pd /\ r.killed = ptable[p].killed /\ r.sz = 1
    BY <1>11, Execs
  <2>2. ptable'[p] = r /\ \A x \in Slot : x # p => ptable'[x] = ptable[x]
    BY <2>1, UpdateType DEF TypeInv
  <2>3. Alone(p) /\ ptable[p].state \in Lively
    BY <1>11, ExecAlone DEF Exec, Syscall, Running, Lively
  <2>4. pd \in Page /\ mapped \in [Page -> SUBSET (1 .. MaxSz)]
    BY Records DEF TypeInv, TypeOK
  <2>5. \A x \in Slot : ptable[x].state \in Lively => ptable[x].pgdir \in Page /\ ptable[x].pgdir # pd
    BY <1>0 DEF ThreadInv, PagesOwn
  <2>6. mapped'[pd] = {1}
    BY <2>1, <2>3, <2>4, <2>5
  <2>7. \A x \in Slot : x # p /\ ptable[x].state \in Lively => mapped'[ptable[x].pgdir] = mapped[ptable[x].pgdir]
    BY <1>0, <2>1, <2>3, <2>4, <2>5 DEF Alone
  <2>8. QED
    <3>1. \A x \in Slot : ~ptable'[x].killed
      BY <2>1, <2>2 DEF ThreadInv, Calm
    <3>2. ASSUME NEW x \in Slot, ptable'[x].state \in Lively
          PROVE  1 \in mapped'[ptable'[x].pgdir] /\ ptable'[x].sz >= 1
      <4>1. CASE x = p
        <5>1. ptable'[p].pgdir = pd /\ ptable'[p].sz = 1
          BY <2>1, <2>2
        <5>2. QED
          BY <2>6, <4>1, <5>1
      <4>2. CASE x # p
        BY <2>2, <2>7, <3>2, <4>2 DEF ThreadInv, Calm
      <4>3. QED
        BY <4>1, <4>2
    <3>3. QED
      BY <3>1, <3>2 DEF Calm
<1>12. CASE UNCHANGED vars
  <2>1. ptable' = ptable /\ mapped' = mapped
    BY <1>12 DEF vars, memory
  <2>2. QED
    BY <2>1 DEF ThreadInv, Calm
<1>13. CASE Next
  <2>1. CASE InitExit \/ Tick
    BY <1>3, <2>1, ProcAssumption DEF Peaceful, Slot
  <2>2. QED
    BY <1>3, <1>4, <1>5, <1>6, <1>7, <1>8, <1>9, <1>10, <1>11, <1>13, <2>1, Steps DEF Peaceful
<1>14. QED
  BY <1>12, <1>13

LEMMA CopiesStep ==
    ASSUME ProcAssumption, JoinsThreads, TypeInv, CalledFor, ThreadInv, [Next]_vars
    PROVE  CopiesCode'
<1>1. ASSUME UNCHANGED newsz, \A q \in Slot : pc'[q] = "copy" => pc[q] = "copy"
      PROVE  CopiesCode'
  BY <1>1 DEF ThreadInv, CopiesCode
<1>2. ASSUME NEW p \in Slot, NEW point, Goto(p, point), point # "copy", UNCHANGED newsz
      PROVE  CopiesCode'
  BY <1>1, <1>2, GotoMoves DEF Goto
<1>3. ASSUME NEW p \in Slot, ForkSize(p) PROVE CopiesCode'
  <2>1. ptable[p].sz >= 1
    BY <1>3 DEF ForkSize, Running, Lively, ThreadInv, Calm
  <2>2. /\ newsz'[p] = ptable[p].sz
        /\ \A q \in Slot : q # p => newsz'[q] = newsz[q] /\ pc'[q] = pc[q]
    BY <1>3, GotoMoves DEF ForkSize, Goto, TypeInv, TypeOK
  <2>3. QED
    BY <2>1, <2>2 DEF ThreadInv, CopiesCode
<1>4. ASSUME NEW p \in Slot,
             \/ Schedule(p) \/ Yield(p) \/ Fault(p) \/ ForkPanic(p) \/ Exit(p) \/ WaitSleep(p) \/ JoinSleep(p)
             \/ Exec(p) \/ ExecLeak(p) \/ Kill(p) \/ GrowToNothing(p) \/ GrowPanic(p)
      PROVE  UNCHANGED <<pc, newsz>>
  BY <1>4 DEF Schedule, Yield, Fault, ForkPanic, Exit, WaitSleep, JoinSleep, Exec, ExecLeak, Kill,
              GrowToNothing, GrowPanic, locals
<1>5. ASSUME NEW p \in Slot, ForkStart(p) \/ CloneStart(p) \/ BadCloneStart(p) PROVE CopiesCode'
  BY <1>2, <1>5 DEF ForkStart, CloneStart, BadCloneStart, AllocSlot
<1>6. ASSUME NEW p \in Slot,
             NoStack(p) \/ ForkFail(p) \/ ForkLeak(p) \/ Fork(p) \/ Clone(p) \/ BadClone(p)
      PROVE  CopiesCode'
  BY <1>2, <1>6 DEF NoStack, ForkFail, ForkLeak, Fork, Clone, BadClone, CloneWith, BackToUser
<1>7. ASSUME NEW p \in Slot,
             \/ WaitStart(p) \/ WaitReap(p) \/ WaitFail(p) \/ JoinStart(p) \/ JoinReap(p) \/ JoinFail(p)
             \/ GrowPublish(p) \/ SleepStart(p) \/ SleepSpin(p) \/ SleepTest(p) \/ SleepNow(p)
      PROVE  CopiesCode'
  BY <1>2, <1>7 DEF WaitStart, WaitReap, WaitFail, JoinStart, JoinReap, JoinFail, GrowPublish, SleepStart,
                    SleepSpin, SleepTest, SleepNow, locals
<1>8. ASSUME NEW p \in Slot PROVE ~GrowMap(p)
  BY DEF GrowMap, Syscall, JoinsThreads
<1>9. CASE InitExit \/ Tick \/ UNCHANGED vars
  BY <1>1, <1>9 DEF InitExit, Tick, vars, locals
<1>10. CASE Next
  BY <1>1, <1>3, <1>4, <1>5, <1>6, <1>7, <1>8, <1>9, <1>10, Steps
<1>11. QED
  BY <1>9, <1>10

LEMMA ThreadStep ==
    ASSUME ProcAssumption, JoinsThreads, TypeInv, FamilyInv, CalledFor, ThreadInv, [Next]_vars
    PROVE  ThreadInv'
<1>1. PagesOwn'
  <2>1. \A p, q \in Slot : ptable[q].state = "ZOMBIE" /\ ptable[q].parent = p
                           /\ ptable[q].pgdir # ptable[p].pgdir => Alone(q)
    BY ZombieAlone
  <2>2. QED
    BY <2>1, ExecAlone, PagesStep DEF ThreadInv
<1>2. QED
  BY <1>1, RootsStep, BornStep, CalmStep, CopiesStep DEF ThreadInv

LEMMA ThreadInit == ProcAssumption /\ Init => ThreadInv
<1> SUFFICES ASSUME ProcAssumption, Init PROVE ThreadInv
  OBVIOUS
<1> DEFINE first == [Unused EXCEPT !.state = "RUNNABLE", !.pid = 1,
                                   !.kstack = 1, !.pgdir = 2, !.sz = 1]
<1>1. /\ Unused.state = "UNUSED" /\ Unused.pid = 0 /\ ~Unused.killed
      /\ first.state = "RUNNABLE" /\ first.pgdir = 2 /\ first.pid = 1 /\ first.sz = 1 /\ ~first.killed
  BY DEF Unused
<1>2. /\ ptable = [p \in Slot |-> IF p = InitProc THEN first ELSE Unused]
      /\ mapped = [g \in Page |-> IF g = 2 THEN {1} ELSE {}]
      /\ nextpid = 2 /\ pc = [p \in Slot |-> "user"]
  BY DEF Init
<1> HIDE DEF first
<1>3. \A p \in Slot : Owner(ptable[p]) \/ ptable[p].state \in Lively => p = InitProc /\ ptable[p] = first
  BY <1>1, <1>2 DEF Owner, Lively
<1>4. PagesOwn
  BY PagesInit
<1>5. OneRoot /\ Alone(InitProc)
  BY <1>3 DEF OneRoot, Alone
<1>6. Born
  BY <1>1, <1>2, <1>3 DEF Born, Creating
<1>7. Calm
  <2>1. 2 \in Page
    BY ProcAssumption DEF Page
  <2>2. QED
    BY <1>1, <1>2, <1>3, <2>1 DEF Calm
<1>8. CopiesCode
  BY <1>2 DEF CopiesCode
<1>9. QED
  BY <1>4, <1>5, <1>6, <1>7, <1>8 DEF ThreadInv

(* While programs join their threads before they exit or exec, and none    *)
(* kills or changes its size: whoever may still run has its page directory *)
(* and its kernel stack, though wait frees the directory of a process and  *)
(* not that of a thread, and a directory is freed once.                    *)
THEOREM ThreadPagesCorrect == JoinsThreads => (Spec => []NoUseAfterFree /\ FreedOnce)
<1> SUFFICES ASSUME JoinsThreads PROVE Spec => []NoUseAfterFree /\ FreedOnce
  OBVIOUS
<1>1. Init => CalledFor /\ ThreadInv
  BY CalledForInit, ThreadInit, ProcAssumption
<1>2. TypeInv /\ FamilyInv /\ CalledFor /\ ThreadInv /\ [Next]_vars => CalledFor' /\ ThreadInv'
  BY CalledForStep, ThreadStep, ProcAssumption
<1>3. ThreadInv => NoUseAfterFree
  BY DEF ThreadInv, PagesOwn, NoUseAfterFree, Alive, Owner, Lively
<1>4. ThreadInv => [\A p \in Slot :
         ptable[p].state = "ZOMBIE" /\ freelist # freelist' /\ ptable'[p].state = "UNUSED"
            => ptable[p].pgdir \notin freelist]_vars
  BY DEF ThreadInv, PagesOwn, Owner
<1>5. QED
  BY <1>1, <1>2, <1>3, <1>4, FamilyHolds, PTL DEF Spec, FreedOnce
=============================================================================
