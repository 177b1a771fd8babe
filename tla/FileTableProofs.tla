-------------------------- MODULE FileTableProofs --------------------------
(***************************************************************************)
(* Proofs that the table of open files keeps the invariants of             *)
(* FileTableProps for any processes, files, pages and descriptors.         *)
(***************************************************************************)
EXTENDS FileTableProps, Integers, SequencesExt, SequenceTheorems, FiniteSetTheorems, WellFoundedInduction, TLAPS

(* A set of natural numbers has a least one.                               *)
LEMMA LeastNatural ==
    ASSUME NEW S \in SUBSET Nat, S # {}
    PROVE  \E x \in S : \A y \in S : x <= y
<1> DEFINE Segments == {1 .. n : n \in S}
<1>1. Segments \subseteq FiniteSubsetsOf(Nat) /\ Segments # {}
  <2>1. \A n \in Nat : IsFiniteSet(1 .. n) /\ 1 .. n \in SUBSET Nat
    BY FS_Interval
  <2>2. QED
    BY <2>1 DEF FiniteSubsetsOf
<1>2. PICK X \in Segments : \A Y \in Segments : <<Y, X>> \notin StrictSubsetOrdering(Nat)
  <2>1. IsWellFoundedOn(StrictSubsetOrdering(Nat), FiniteSubsetsOf(Nat))
    BY FS_StrictSubsetOrderingWellFounded
  <2> HIDE DEF Segments
  <2>2. QED
    BY <1>1, <2>1, WFMin
<1>3. PICK x \in S : X = 1 .. x
  BY <1>2
<1>4. ASSUME NEW y \in S, ~(x <= y) PROVE FALSE
  <2>1. 1 .. y \subseteq 1 .. x /\ x \in 1 .. x /\ x \notin 1 .. y
    BY <1>4
  <2>2. <<1 .. y, 1 .. x>> \in StrictSubsetOrdering(Nat)
    BY <2>1 DEF StrictSubsetOrdering
  <2>3. QED
    BY <1>2, <1>3, <2>2
<1>5. QED
  BY <1>4


USE FileTableAssumption

-----------------------------------------------------------------------------
(* Counting.  What one process has of a file, and what a step of one       *)
(* process does to the whole.                                              *)

LEMMA FiniteFD == IsFiniteSet(FD)
BY FS_Interval DEF FD

One(b) == IF b THEN 1 ELSE 0

(* A set of pairs is counted row by row.                                   *)
RowOf(D, p)  == {fd \in FD : <<p, fd>> \in D}
RestOf(D, p) == {d \in D : d[1] # p}

LEMMA CountRow ==
    ASSUME NEW D \in SUBSET (Process \X FD), NEW p \in Process
    PROVE  /\ Cardinality(D) \in Nat /\ Cardinality(RestOf(D, p)) \in Nat /\ Cardinality(RowOf(D, p)) \in Nat
           /\ Cardinality(D) = Cardinality(RestOf(D, p)) + Cardinality(RowOf(D, p))
<1> DEFINE Rest == RestOf(D, p)
           Row  == RowOf(D, p)
<1> USE DEF RestOf, RowOf
<1>1. IsFiniteSet(Process \X FD)
  BY FS_Product, FiniteFD
<1>2. IsFiniteSet(D)
  BY <1>1, FS_Subset
<1>3. IsFiniteSet(Rest) /\ IsFiniteSet(Row)
  BY <1>2, FS_Subset, FiniteFD
<1>4. IsFiniteSet({p}) /\ Cardinality({p}) = 1
  BY FS_Singleton
<1>5. IsFiniteSet({p} \X Row) /\ Cardinality({p} \X Row) = 1 * Cardinality(Row)
  BY <1>3, <1>4, FS_Product
<1>6. Rest \cap ({p} \X Row) = {}
  OBVIOUS
<1>7. D = Rest \cup ({p} \X Row)
  <2>1. ASSUME NEW d \in D PROVE d \in Rest \cup ({p} \X Row)
    BY <2>1
  <2>2. ASSUME NEW d \in Rest \cup ({p} \X Row) PROVE d \in D
    BY <2>2
  <2>3. QED
    BY <2>1, <2>2
<1>8. Cardinality(D) = Cardinality(Rest) + Cardinality({p} \X Row) - Cardinality({})
  <2> HIDE DEF Rest, Row
  <2>1. Cardinality(Rest \cup ({p} \X Row))
          = Cardinality(Rest) + Cardinality({p} \X Row) - Cardinality(Rest \cap ({p} \X Row))
    BY <1>3, <1>5, FS_Union
  <2>2. QED
    BY <1>6, <1>7, <2>1, Zenon
<1>9. Cardinality({}) = 0 /\ Cardinality(D) \in Nat /\ Cardinality(Rest) \in Nat /\ Cardinality(Row) \in Nat
  BY <1>2, <1>3, FS_EmptySet, FS_CardinalityType
<1>10. QED
  BY <1>5, <1>8, <1>9

LEMMA CountMember ==
    ASSUME NEW S, IsFiniteSet(S), NEW p
    PROVE  /\ Cardinality(S) \in Nat /\ Cardinality(S \ {p}) \in Nat
           /\ Cardinality(S) = Cardinality(S \ {p}) + One(p \in S)
<1>1. IsFiniteSet(S \ {p}) /\ Cardinality(S \ {p}) = IF p \in S THEN Cardinality(S) - 1 ELSE Cardinality(S)
  BY FS_RemoveElement
<1>2. QED
  BY <1>1, FS_CardinalityType DEF One

Fds(p, f)  == {fd \in FD : ofile[p][fd] = f /\ ~Stale(p, fd)}
Refs(p, f) == Cardinality(Fds(p, f)) + One(p \in FirstOf(f)) + One(p \in SecondOf(f))
Count(f)   == Cardinality(Descriptors(f)) + Cardinality(FirstOf(f)) + Cardinality(SecondOf(f))

(* The references of the others.                                           *)
Others(p, f) == Cardinality(RestOf(Descriptors(f), p)) + Cardinality(FirstOf(f) \ {p}) + Cardinality(SecondOf(f) \ {p})

LEMMA CountSplit ==
    ASSUME NEW p \in Process, NEW f
    PROVE  /\ Others(p, f) \in Nat /\ Refs(p, f) \in Nat
           /\ Count(f) = Others(p, f) + Refs(p, f)
<1>1. Descriptors(f) \in SUBSET (Process \X FD)
  BY DEF Descriptors
<1>2. RowOf(Descriptors(f), p) = Fds(p, f)
  BY DEF Descriptors, Fds, RowOf
<1>3. IsFiniteSet(FirstOf(f)) /\ IsFiniteSet(SecondOf(f))
  BY FS_Subset DEF FirstOf, SecondOf
<1>4. /\ Cardinality(RestOf(Descriptors(f), p)) \in Nat
      /\ Cardinality(Fds(p, f)) \in Nat
      /\ Cardinality(Descriptors(f)) = Cardinality(RestOf(Descriptors(f), p)) + Cardinality(Fds(p, f))
  BY <1>1, <1>2, CountRow
<1>5. /\ Cardinality(FirstOf(f) \ {p}) \in Nat
      /\ Cardinality(FirstOf(f)) = Cardinality(FirstOf(f) \ {p}) + One(p \in FirstOf(f))
      /\ Cardinality(SecondOf(f) \ {p}) \in Nat
      /\ Cardinality(SecondOf(f)) = Cardinality(SecondOf(f) \ {p}) + One(p \in SecondOf(f))
  BY <1>3, CountMember
<1>6. One(p \in FirstOf(f)) \in Nat /\ One(p \in SecondOf(f)) \in Nat
  BY DEF One
<1>7. QED
  BY <1>4, <1>5, <1>6 DEF Count, Others, Refs

(* The same after a step.                                                  *)
LEMMA CountSplitNext ==
    ASSUME NEW p \in Process, NEW f
    PROVE  /\ Others(p, f)' \in Nat /\ Refs(p, f)' \in Nat
           /\ Count(f)' = Others(p, f)' + Refs(p, f)'
<1>1. Descriptors(f)' \in SUBSET (Process \X FD)
  BY DEF Descriptors
<1>2. RowOf(Descriptors(f)', p) = Fds(p, f)'
  BY DEF Descriptors, Fds, RowOf
<1>3. IsFiniteSet(FirstOf(f)') /\ IsFiniteSet(SecondOf(f)')
  BY FS_Subset DEF FirstOf, SecondOf
<1>4. /\ Cardinality(RestOf(Descriptors(f)', p)) \in Nat
      /\ Cardinality(Fds(p, f)') \in Nat
      /\ Cardinality(Descriptors(f)') = Cardinality(RestOf(Descriptors(f)', p)) + Cardinality(Fds(p, f)')
  BY <1>1, <1>2, CountRow
<1>5. /\ Cardinality(FirstOf(f)' \ {p}) \in Nat
      /\ Cardinality(FirstOf(f)') = Cardinality(FirstOf(f)' \ {p}) + One(p \in FirstOf(f)')
      /\ Cardinality(SecondOf(f)' \ {p}) \in Nat
      /\ Cardinality(SecondOf(f)') = Cardinality(SecondOf(f)' \ {p}) + One(p \in SecondOf(f)')
  BY <1>3, CountMember
<1>6. One(p \in FirstOf(f)') \in Nat /\ One(p \in SecondOf(f)') \in Nat
  BY DEF One
<1>7. QED
  BY <1>4, <1>5, <1>6 DEF Count, Others, Refs

(* If the others keep what they have, the count moves with what p has.     *)
SameHolds(q, f) ==
    /\ Fds(q, f)' = Fds(q, f)
    /\ (q \in FirstOf(f))' <=> q \in FirstOf(f)
    /\ (q \in SecondOf(f))' <=> q \in SecondOf(f)

LEMMA CountMoves ==
    ASSUME NEW p \in Process, NEW f, \A q \in Process \ {p} : SameHolds(q, f)
    PROVE  Count(f)' + Refs(p, f) = Count(f) + Refs(p, f)'
<1>1. RestOf(Descriptors(f)', p) = RestOf(Descriptors(f), p)
  <2>1. \A q \in Process \ {p}, fd \in FD : <<q, fd>> \in Descriptors(f)' <=> <<q, fd>> \in Descriptors(f)
    BY DEF SameHolds, Fds, Descriptors
  <2>2. \A d : d \in Descriptors(f) \/ d \in Descriptors(f)' => d \in Process \X FD
    BY DEF Descriptors
  <2>3. QED
    BY <2>1, <2>2 DEF RestOf
<1>2. FirstOf(f)' \ {p} = FirstOf(f) \ {p} /\ SecondOf(f)' \ {p} = SecondOf(f) \ {p}
  BY DEF SameHolds, FirstOf, SecondOf
<1>3. Others(p, f)' = Others(p, f)
  BY <1>1, <1>2 DEF Others
<1>4. QED
  BY <1>3, CountSplit, CountSplitNext

(* What two processes have are different references.                       *)
LEMMA CountTwo ==
    ASSUME NEW p \in Process, NEW q \in Process, p # q, NEW f
    PROVE  Refs(p, f) + Refs(q, f) <= Count(f)
<1> DEFINE D == RestOf(Descriptors(f), p)
<1>1. D \in SUBSET (Process \X FD) /\ RowOf(D, q) = Fds(q, f)
  BY DEF Descriptors, Fds, RowOf, RestOf
<1>2. IsFiniteSet(FirstOf(f) \ {p}) /\ IsFiniteSet(SecondOf(f) \ {p})
  BY FS_Subset DEF FirstOf, SecondOf
<1>3. Cardinality(D) \in Nat /\ Cardinality(Fds(q, f)) \in Nat /\ Cardinality(Fds(q, f)) <= Cardinality(D)
  <2>1. /\ Cardinality(D) \in Nat /\ Cardinality(RestOf(D, q)) \in Nat /\ Cardinality(Fds(q, f)) \in Nat
        /\ Cardinality(D) = Cardinality(RestOf(D, q)) + Cardinality(Fds(q, f))
    BY <1>1, CountRow
  <2>2. QED
    BY <2>1
<1>4. /\ Cardinality(FirstOf(f) \ {p}) \in Nat /\ One(q \in FirstOf(f)) <= Cardinality(FirstOf(f) \ {p})
      /\ Cardinality(SecondOf(f) \ {p}) \in Nat /\ One(q \in SecondOf(f)) <= Cardinality(SecondOf(f) \ {p})
  <2>1. q \in FirstOf(f) \ {p} <=> q \in FirstOf(f)
    OBVIOUS
  <2>2. q \in SecondOf(f) \ {p} <=> q \in SecondOf(f)
    OBVIOUS
  <2>3. /\ Cardinality(FirstOf(f) \ {p}) \in Nat /\ Cardinality((FirstOf(f) \ {p}) \ {q}) \in Nat
        /\ Cardinality(FirstOf(f) \ {p}) = Cardinality((FirstOf(f) \ {p}) \ {q}) + One(q \in FirstOf(f) \ {p})
    BY <1>2, CountMember
  <2>4. /\ Cardinality(SecondOf(f) \ {p}) \in Nat /\ Cardinality((SecondOf(f) \ {p}) \ {q}) \in Nat
        /\ Cardinality(SecondOf(f) \ {p}) = Cardinality((SecondOf(f) \ {p}) \ {q}) + One(q \in SecondOf(f) \ {p})
    BY <1>2, CountMember
  <2>5. QED
    BY <2>1, <2>2, <2>3, <2>4 DEF One
<1>5. One(q \in FirstOf(f)) \in Nat /\ One(q \in SecondOf(f)) \in Nat
  BY DEF One
<1>6. Refs(q, f) <= Others(p, f) /\ Refs(q, f) \in Nat
  BY <1>3, <1>4, <1>5 DEF Refs, Others
<1>7. QED
  BY <1>6, CountSplit

(* Whether p has a reference to f, and whether it has exactly one.         *)
HasFd(p, f) == \E fd \in FD : ofile[p][fd] = f /\ ~Stale(p, fd)
Holds(p, f) == HasFd(p, f) \/ p \in FirstOf(f) \/ p \in SecondOf(f)

LEMMA HoldsIsRefs ==
    ASSUME NEW p \in Process, NEW f
    PROVE  Holds(p, f) <=> Refs(p, f) >= 1
<1>1. IsFiniteSet(Fds(p, f))
  BY FiniteFD, FS_Subset DEF Fds
<1>2. Cardinality(Fds(p, f)) \in Nat /\ (Cardinality(Fds(p, f)) = 0 <=> Fds(p, f) = {})
  BY <1>1, FS_EmptySet, FS_CardinalityType
<1>3. HasFd(p, f) <=> Fds(p, f) # {}
  BY DEF HasFd, Fds
<1>4. QED
  BY <1>2, <1>3 DEF Holds, Refs, One

(* A file that somebody has is counted; one counted once has one holder.   *)
LEMMA Holders ==
    ASSUME RefsAreHolders, NEW f \in File, NEW p \in Process, Holds(p, f)
    PROVE  /\ file[f].ref >= 1
           /\ file[f].ref \in Nat
           /\ file[f].ref = 1 => \A q \in Process \ {p} : ~Holds(q, f)
<1>1. file[f].ref = Count(f)
  BY DEF RefsAreHolders, Count
<1>2. Refs(p, f) >= 1
  BY HoldsIsRefs
<1>3. \A q \in Process \ {p} : Refs(p, f) + Refs(q, f) <= Count(f)
  BY CountTwo
<1>4. QED
  BY <1>1, <1>2, <1>3, CountSplit, HoldsIsRefs

-----------------------------------------------------------------------------
(* The inductive invariant.  What the call of a process is, where it is.   *)
CallOK(p) ==
    LET c == call[p] IN
    /\ pc[p] \in {"unused", "embryo", "user"} => c = NoCall
    /\ pc[p] = "exit" => c = [NoCall EXCEPT !.op = "exit"]
    /\ pc[p] \in {"fork", "io"} => c.op = pc[p] /\ c.f0 = None /\ c.f1 = None
    /\ pc[p] = "filedup" =>
         /\ c.op = "dup" /\ c.f0 \in File /\ c.f1 = None
         /\ c.fd \in FD /\ ofile[p][c.fd] = c.f0
         /\ \E fd \in FD \ {c.fd} : ofile[p][fd] = c.f0
    /\ pc[p] \in {"filealloc", "kalloc", "fdalloc"} => c.op = "pipe" /\ c.f0 \in File
    /\ pc[p] = "filealloc" => c.f1 = None
    /\ pc[p] \in {"kalloc", "fdalloc"} => c.f1 \in File
    /\ pc[p] \in {"fileclose", "pipeclose", "kfree"} =>
         /\ c.op \in {"pipe", "close", "exit"}
         /\ c.op # "pipe" => c.f1 = None
         /\ c.op = "exit" => c.fd \in FD /\ ofile[p][c.fd] # None
    /\ pc[p] = "fileclose" => c.f0 \in File /\ (c.op = "exit" => ofile[p][c.fd] = c.f0)
    /\ pc[p] \in {"pipeclose", "kfree"} => c.f0 = None /\ c.page \in Page

(* Who is not there has no descriptors, and a child has none that fork has *)
(* yet to give it.                                                         *)
ForkOK(p) ==
    /\ pc[p] = "unused" => Open(p) = {}
    /\ pc[p] = "fork" =>
         /\ call[p].child \in Process /\ pc[call[p].child] = "embryo"
         /\ \A fd \in Open(call[p].child) : fd < call[p].fd
         /\ \A q \in Process \ {p} : pc[q] = "fork" => call[q].child # call[p].child

(* A file that pipealloc has made, and that has no pipe yet, is nobody     *)
(* else's; one with a descriptor has a pipe.                               *)
New(p)  == IF pc[p] \in {"filealloc", "kalloc"} THEN {call[p].f0, call[p].f1} \ {None} ELSE {}

FilesOK ==
    /\ \A f \in File : file[f].page = None => ~file[f].writable
    /\ \A p \in Process :
         /\ call[p].f1 # None => call[p].f0 # call[p].f1
         /\ \A f \in New(p) :
              /\ file[f].page = None
              /\ \A q \in Process : ~HasFd(q, f)
              /\ \A q \in Process \ {p} : ~Holds(q, f)
         /\ pc[p] = "fdalloc" => file[call[p].f0].page # None /\ file[call[p].f1].page # None
         /\ \A f \in File : HasFd(p, f) => file[f].page # None

(* An end of a pipe has one file, or one process that closes it.  Who frees*)
(* the page found both ends closed.                                        *)
EndsOK ==
    \A c \in Page :
        /\ \A w \in BOOLEAN :
             /\ \A f, g \in File : IsEnd(f, c, w) /\ IsEnd(g, c, w) => f = g
             /\ \A f \in File, p \in Process : ~(IsEnd(f, c, w) /\ Closes(p, c, w))
             /\ \A p, q \in Process : Closes(p, c, w) /\ Closes(q, c, w) => p = q
        /\ \A p, q \in Process :
             pc[p] = "kfree" /\ call[p].page = c =>
                 /\ ~pipe[c].readopen /\ ~pipe[c].writeopen
                 /\ pc[q] = "kfree" /\ call[q].page = c => q = p

(* Who reads or writes has a descriptor of that end.                       *)
IoOK(p) ==
    pc[p] = "io" =>
        \E f \in File : HasFd(p, f) /\ file[f].page = call[p].page /\ file[f].writable = call[p].writable

IInv ==
    /\ TypeOK
    /\ \A p \in Process : CallOK(p) /\ ForkOK(p) /\ IoOK(p)
    /\ RefsAreHolders
    /\ FilesOK
    /\ EndsOK
    /\ EndsMatchFiles

LEMMA InitInductive == Init => IInv
<1> SUFFICES ASSUME Init PROVE IInv
  OBVIOUS
<1>1. TypeOK
  BY DEF Init, TypeOK, FreeFile, FreePage, NoCall, Points, FD
<1>2. \A p \in Process : CallOK(p) /\ ForkOK(p) /\ IoOK(p)
  BY DEF Init, CallOK, ForkOK, IoOK, Open, NoCall
<1>3. \A p \in Process, f \in File : ~Holds(p, f)
  BY DEF Init, Holds, HasFd, FirstOf, SecondOf, NoCall
<1>4. RefsAreHolders
  <2> SUFFICES ASSUME NEW f \in File PROVE file[f].ref = Count(f)
    BY DEF RefsAreHolders, Count
  <2>1. Descriptors(f) = {} /\ FirstOf(f) = {} /\ SecondOf(f) = {}
    BY DEF Init, Descriptors, FirstOf, SecondOf, NoCall
  <2>2. QED
    BY <2>1, FS_EmptySet DEF Init, Count, FreeFile
<1>5. FilesOK
  BY <1>3 DEF Init, FilesOK, FreeFile, New, NoCall, Holds
<1>6. EndsOK /\ EndsMatchFiles
  BY DEF Init, EndsOK, EndsMatchFiles, FreeFile, FreePage, IsEnd, Closes, HasEnd
<1>7. QED
  BY <1>1, <1>2, <1>4, <1>5, <1>6 DEF IInv

-----------------------------------------------------------------------------
(* Types.                                                                  *)

CallSet == [op : {"none", "pipe", "dup", "fork", "close", "exit", "io"},
            f0 : File \cup {None}, f1 : File \cup {None}, page : Page \cup {None},
            writable : BOOLEAN, fd : 0 .. NOFILE, child : Process \cup {None}]
FileSet == [ref : Nat, page : Page \cup {None}, writable : BOOLEAN]
PageSet == [alloc : BOOLEAN, readopen : BOOLEAN, writeopen : BOOLEAN]

LEMMA TypeIs ==
    TypeOK <=> /\ file \in [File -> FileSet]
               /\ \A f \in File : file[f].ref = 0 => file[f] = FreeFile
               /\ pipe \in [Page -> PageSet]
               /\ ofile \in [Process -> [FD -> File \cup {None}]]
               /\ pc \in [Process -> Points]
               /\ call \in [Process -> CallSet]
BY DEF TypeOK, CallSet, FileSet, PageSet

LEMMA TypeIsNext ==
    TypeOK' <=> /\ file' \in [File -> FileSet]
                /\ \A f \in File : file'[f].ref = 0 => file'[f] = FreeFile
                /\ pipe' \in [Page -> PageSet]
                /\ ofile' \in [Process -> [FD -> File \cup {None}]]
                /\ pc' \in [Process -> Points]
                /\ call' \in [Process -> CallSet]
BY DEF TypeOK, CallSet, FileSet, PageSet

(* The lowest of some descriptors is one of them.                          *)
LEMMA LowestIs ==
    ASSUME NEW S \in SUBSET FD, S # {}
    PROVE  Lowest(S) \in S /\ \A fd \in S : Lowest(S) <= fd
<1>1. S \in SUBSET Nat
  BY DEF FD
<1>2. \E x \in S : \A y \in S : x <= y
  BY <1>1, LeastNatural
<1>3. QED
  BY <1>2 DEF Lowest

(* Two free descriptors, when there are two.                               *)
LEMMA TwoFree ==
    ASSUME NEW S \in SUBSET FD, Cardinality(S) >= 2
    PROVE  /\ Lowest(S) \in S /\ Lowest(S \ {Lowest(S)}) \in S
           /\ Lowest(S \ {Lowest(S)}) # Lowest(S)
<1>1. IsFiniteSet(S)
  BY FiniteFD, FS_Subset
<1>2. S # {} /\ Lowest(S) \in S
  BY <1>1, FS_EmptySet, LowestIs
<1>3. Cardinality(S \ {Lowest(S)}) = Cardinality(S) - 1 /\ IsFiniteSet(S \ {Lowest(S)})
  BY <1>1, <1>2, FS_RemoveElement
<1>4. S \ {Lowest(S)} # {}
  BY <1>1, <1>3, FS_EmptySet, FS_CardinalityType
<1>5. Lowest(S \ {Lowest(S)}) \in S \ {Lowest(S)}
  BY <1>2, <1>4, LowestIs
<1>6. QED
  BY <1>2, <1>5

LEMMA CallTypes ==
    ASSUME TypeOK, NEW p \in Process
    PROVE  /\ NoCall \in CallSet /\ call[p] \in CallSet
           /\ \A op \in {"none", "pipe", "dup", "fork", "close", "exit", "io"} : [NoCall EXCEPT !.op = op] \in CallSet
           /\ \A op \in {"pipe", "close"}, f \in File \cup {None} : [NoCall EXCEPT !.op = op, !.f0 = f] \in CallSet
           /\ \A f \in File \cup {None}, fd \in 0 .. NOFILE : [NoCall EXCEPT !.op = "dup", !.f0 = f, !.fd = fd] \in CallSet
           /\ \A q \in Process : [NoCall EXCEPT !.op = "fork", !.child = q] \in CallSet
           /\ \A c \in CallSet : [call EXCEPT ![p] = c] \in [Process -> CallSet]
           /\ \A l \in Points : [pc EXCEPT ![p] = l] \in [Process -> Points]
<1>1. call \in [Process -> CallSet] /\ pc \in [Process -> Points]
  BY TypeIs
<1>2. NoCall \in CallSet
  BY DEF NoCall, CallSet
<1>3. \A op \in {"none", "pipe", "dup", "fork", "close", "exit", "io"} : [NoCall EXCEPT !.op = op] \in CallSet
  BY <1>2 DEF CallSet
<1>4. \A op \in {"pipe", "close"}, f \in File \cup {None} : [NoCall EXCEPT !.op = op, !.f0 = f] \in CallSet
  <2>1. \A c \in CallSet, op \in {"pipe", "close"}, f \in File \cup {None} : [c EXCEPT !.op = op, !.f0 = f] \in CallSet
    BY DEF CallSet
  <2>2. QED
    BY <1>2, <2>1
<1>5. \A f \in File \cup {None}, fd \in 0 .. NOFILE : [NoCall EXCEPT !.op = "dup", !.f0 = f, !.fd = fd] \in CallSet
  BY DEF CallSet, NoCall
<1>6. \A q \in Process : [NoCall EXCEPT !.op = "fork", !.child = q] \in CallSet
  <2>1. \A c \in CallSet, q \in Process : [c EXCEPT !.op = "fork", !.child = q] \in CallSet
    BY DEF CallSet
  <2>2. QED
    BY <1>2, <2>1
<1>7. QED
  BY <1>1, <1>2, <1>3, <1>4, <1>5, <1>6

LEMMA OfileTypes ==
    ASSUME TypeOK, NEW p \in Process, NEW f \in File \cup {None}, NEW x
    PROVE  [ofile EXCEPT ![p][x] = f] \in [Process -> [FD -> File \cup {None}]]
<1>1. ofile \in [Process -> [FD -> File \cup {None}]]
  BY TypeIs
<1>2. [ofile[p] EXCEPT ![x] = f] \in [FD -> File \cup {None}]
  BY <1>1
<1>3. QED
  BY <1>1, <1>2

LEMMA FileTypes ==
    ASSUME TypeOK, NEW f \in File, NEW n \in Nat, n # 0
    PROVE  /\ [file EXCEPT ![f].ref = n] \in [File -> FileSet]
           /\ \A g \in File : [file EXCEPT ![f].ref = n][g].ref = 0 => [file EXCEPT ![f].ref = n][g] = FreeFile
<1>1. file \in [File -> FileSet] /\ \A g \in File : file[g].ref = 0 => file[g] = FreeFile
  BY TypeIs
<1>2. [file[f] EXCEPT !.ref = n] \in FileSet /\ [file[f] EXCEPT !.ref = n].ref = n
  BY <1>1 DEF FileSet
<1>3. QED
  BY <1>1, <1>2

LEMMA FileEmptied ==
    ASSUME TypeOK, NEW f \in File
    PROVE  /\ [file EXCEPT ![f] = FreeFile] \in [File -> FileSet]
           /\ \A g \in File : [file EXCEPT ![f] = FreeFile][g].ref = 0 => [file EXCEPT ![f] = FreeFile][g] = FreeFile
<1>1. file \in [File -> FileSet] /\ \A g \in File : file[g].ref = 0 => file[g] = FreeFile
  BY TypeIs
<1>2. FreeFile \in FileSet
  BY DEF FreeFile, FileSet
<1>3. QED
  BY <1>1, <1>2

(* What a step of p may write to its call.                                 *)
LEMMA CallFields ==
    ASSUME NEW c \in CallSet
    PROVE  /\ c.op \in {"none", "pipe", "dup", "fork", "close", "exit", "io"}
           /\ c.f0 \in File \cup {None} /\ c.f1 \in File \cup {None} /\ c.page \in Page \cup {None}
           /\ c.writable \in BOOLEAN /\ c.fd \in 0 .. NOFILE /\ c.child \in Process \cup {None}
           /\ \A f \in File \cup {None} : [c EXCEPT !.f0 = f] \in CallSet /\ [c EXCEPT !.f1 = f] \in CallSet
           /\ \A f, g \in File \cup {None} : [c EXCEPT !.f0 = f, !.f1 = g] \in CallSet
           /\ \A f \in File \cup {None} : \A g \in Page \cup {None} : \A w \in BOOLEAN :
                [c EXCEPT !.f0 = f, !.page = g, !.writable = w] \in CallSet
           /\ \A g \in Page \cup {None} : \A w \in BOOLEAN : [c EXCEPT !.page = g, !.writable = w] \in CallSet
           /\ \A f \in File \cup {None} : \A fd \in 0 .. NOFILE : [c EXCEPT !.f0 = f, !.fd = fd] \in CallSet
           /\ \A fd \in 0 .. NOFILE : [c EXCEPT !.fd = fd] \in CallSet
           /\ \A q \in Process : [c EXCEPT !.child = q] \in CallSet
BY DEF CallSet

LEMMA AfterCloseType ==
    ASSUME TypeOK, NEW p \in Process, AfterClose(p)
    PROVE  /\ ofile' \in [Process -> [FD -> File \cup {None}]]
           /\ pc' \in [Process -> Points]
           /\ call' \in [Process -> CallSet]
<1>1. call[p] \in CallSet /\ NoCall \in CallSet /\ [NoCall EXCEPT !.op = "exit"] \in CallSet
  BY CallTypes
<1>2. [call[p] EXCEPT !.f0 = call[p].f1, !.f1 = None] \in CallSet
  BY <1>1, CallFields
<1>3. \E c \in CallSet, l \in Points :
        /\ call' = [call EXCEPT ![p] = c] /\ pc' = [pc EXCEPT ![p] = l]
        /\ \/ UNCHANGED ofile
           \/ ofile' = [ofile EXCEPT ![p][call[p].fd] = None]
  BY <1>1, <1>2 DEF AfterClose, Calls, Goto, Return, Points
<1>4. call' \in [Process -> CallSet] /\ pc' \in [Process -> Points]
  <2>1. PICK c \in CallSet, l \in Points : call' = [call EXCEPT ![p] = c] /\ pc' = [pc EXCEPT ![p] = l]
    BY <1>3
  <2>2. QED
    BY <2>1, CallTypes
<1>5. ofile' \in [Process -> [FD -> File \cup {None}]]
  <2>1. CASE UNCHANGED ofile
    BY <2>1, TypeIs
  <2>2. CASE ofile' = [ofile EXCEPT ![p][call[p].fd] = None]
    <3>1. [ofile EXCEPT ![p][call[p].fd] = None] \in [Process -> [FD -> File \cup {None}]]
      BY OfileTypes
    <3>2. QED
      BY <2>2, <3>1
  <2>3. QED
    BY <1>3, <2>1, <2>2
<1>6. QED
  BY <1>4, <1>5

(* The steps that only write the call and the place of p, and those that   *)
(* write one descriptor besides, or count a file.                          *)
LEMMA TypeOfCall ==
    ASSUME TypeOK, NEW p \in Process, NEW c \in CallSet, NEW l \in Points,
           call' = [call EXCEPT ![p] = c], pc' = [pc EXCEPT ![p] = l],
           \/ UNCHANGED ofile
           \/ \E q \in Process, f \in File \cup {None} : \E x : ofile' = [ofile EXCEPT ![q][x] = f],
           \/ UNCHANGED file
           \/ \E f \in File, n \in Nat \ {0} : file' = [file EXCEPT ![f].ref = n],
           UNCHANGED pipe
    PROVE  TypeOK'
<1>1. call' \in [Process -> CallSet] /\ pc' \in [Process -> Points]
  BY CallTypes
<1>2. ofile' \in [Process -> [FD -> File \cup {None}]]
  <2>1. CASE UNCHANGED ofile
    BY <2>1, TypeIs
  <2>2. ASSUME NEW q \in Process, NEW f \in File \cup {None}, NEW x, ofile' = [ofile EXCEPT ![q][x] = f]
        PROVE  ofile' \in [Process -> [FD -> File \cup {None}]]
    <3>1. [ofile EXCEPT ![q][x] = f] \in [Process -> [FD -> File \cup {None}]]
      BY OfileTypes
    <3>2. QED
      BY <2>2, <3>1
  <2>3. QED
    BY <2>1, <2>2
<1>3. file' \in [File -> FileSet] /\ \A f \in File : file'[f].ref = 0 => file'[f] = FreeFile
  <2>1. CASE UNCHANGED file
    BY <2>1, TypeIs
  <2>2. ASSUME NEW f \in File, NEW n \in Nat \ {0}, file' = [file EXCEPT ![f].ref = n]
        PROVE  file' \in [File -> FileSet] /\ \A g \in File : file'[g].ref = 0 => file'[g] = FreeFile
    <3>1. /\ [file EXCEPT ![f].ref = n] \in [File -> FileSet]
          /\ \A g \in File : [file EXCEPT ![f].ref = n][g].ref = 0 => [file EXCEPT ![f].ref = n][g] = FreeFile
      BY FileTypes
    <3>2. QED
      BY <2>2, <3>1, Zenon
  <2>3. QED
    BY <2>1, <2>2
<1>4. QED
  BY <1>1, <1>2, <1>3, TypeIs, TypeIsNext

LEMMA TypeStep ==
    ASSUME IInv, NEW p \in Process, Step(p)
    PROVE  TypeOK'
<1>0. TypeOK /\ CallOK(p) /\ ForkOK(p)
  BY DEF IInv
<1>1. /\ file \in [File -> FileSet] /\ \A f \in File : file[f].ref = 0 => file[f] = FreeFile
      /\ pipe \in [Page -> PageSet] /\ ofile \in [Process -> [FD -> File \cup {None}]]
      /\ pc \in [Process -> Points] /\ call \in [Process -> CallSet]
  BY <1>0, TypeIs
<1>2. /\ NoCall \in CallSet /\ call[p] \in CallSet
      /\ \A op \in {"none", "pipe", "dup", "fork", "close", "exit", "io"} : [NoCall EXCEPT !.op = op] \in CallSet
  BY <1>0, CallTypes
<1>3. Points = {"unused", "embryo", "user", "io", "exit", "fork", "filedup", "filealloc", "kalloc", "fdalloc",
                "fileclose", "pipeclose", "kfree"}
  BY DEF Points
<1> DEFINE Writes(c, l) == call' = [call EXCEPT ![p] = c] /\ pc' = [pc EXCEPT ![p] = l]
<1>4. CASE SysPipe(p)
  <2>1. ASSUME NEW f \in File, FileAlloc(p, f), Writes([NoCall EXCEPT !.op = "pipe", !.f0 = f], "filealloc")
        PROVE  TypeOK'
    <3>1. [NoCall EXCEPT !.op = "pipe", !.f0 = f] \in CallSet
      BY <1>0, CallTypes
    <3>2. file' = [file EXCEPT ![f].ref = 1] /\ 1 \in Nat \ {0} /\ UNCHANGED <<ofile, pipe>>
      <4>1. file' = [file EXCEPT ![f].ref = 1]
        BY <2>1 DEF FileAlloc
      <4>2. UNCHANGED <<ofile, pipe>>
        BY <1>4 DEF SysPipe
      <4>3. QED
        BY <4>1, <4>2
    <3>3. "filealloc" \in Points
      BY <1>3
    <3>4. QED
      BY <1>0, <2>1, <3>1, <3>2, <3>3, TypeOfCall
  <2>2. CASE NoFile /\ Return(p) /\ UNCHANGED file
    <3>1. Writes(NoCall, "user") /\ UNCHANGED <<file, ofile, pipe>>
      BY <1>4, <2>2 DEF SysPipe, Return, Calls, Goto
    <3>2. QED
      BY <1>0, <1>2, <1>3, <3>1, TypeOfCall
  <2>3. QED
    BY <1>4, <2>1, <2>2 DEF SysPipe, Calls, Goto
<1>5. CASE SecondFile(p)
  <2>1. \A f \in File : [call[p] EXCEPT !.f1 = f] \in CallSet
    BY <1>2, CallFields
  <2>2. ASSUME NEW f \in File, FileAlloc(p, f), Writes([call[p] EXCEPT !.f1 = f], "kalloc")
        PROVE  TypeOK'
    <3>1. [call[p] EXCEPT !.f1 = f] \in CallSet
      BY <2>1
    <3>2. file' = [file EXCEPT ![f].ref = 1] /\ 1 \in Nat \ {0} /\ UNCHANGED <<ofile, pipe>>
      BY <1>5, <2>2 DEF SecondFile, FileAlloc
    <3>3. "kalloc" \in Points
      BY <1>3
    <3>4. QED
      BY <1>0, <2>2, <3>1, <3>2, <3>3, TypeOfCall
  <2>3. CASE NoFile /\ Undo(p) /\ UNCHANGED file
    BY <1>0, <1>1, <1>3, <1>5, <2>3, TypeIsNext, CallTypes DEF SecondFile, Undo, Goto
  <2>4. QED
    BY <1>5, <2>2, <2>3 DEF SecondFile, Calls, Goto
<1>6. CASE Kalloc(p)
  <2>1. CASE Undo(p) /\ UNCHANGED <<pipe, file>>
    BY <1>0, <1>1, <1>3, <1>6, <2>1, TypeIsNext, CallTypes DEF Kalloc, Undo, Goto
  <2>2. CASE ~(Undo(p) /\ UNCHANGED <<pipe, file>>)
    <3>1. PICK c \in Page :
            /\ pipe' = [pipe EXCEPT ![c] = NewPipe]
            /\ file' = [file EXCEPT ![call[p].f0].page = c,
                                    ![call[p].f1].page = c, ![call[p].f1].writable = TRUE]
            /\ Goto(p, "fdalloc") /\ UNCHANGED <<call, ofile>>
      BY <1>6, <2>2 DEF Kalloc
    <3>2. pipe' \in [Page -> PageSet]
      BY <1>1, <3>1 DEF NewPipe, FreePage, PageSet
    <3>3. pc' \in [Process -> Points]
      BY <1>0, <1>3, <3>1, CallTypes DEF Goto
    <3>4. /\ file' \in [File -> FileSet]
          /\ \A f \in File : file'[f].ref = file[f].ref /\ (file'[f].ref = 0 => f # call[p].f0 /\ f # call[p].f1 /\ file'[f] = file[f])
      <4>1. call[p].f0 \in File /\ call[p].f1 \in File /\ file[call[p].f0].ref # 0 /\ file[call[p].f1].ref # 0
        <5>1. pc[p] = "kalloc" /\ call[p].op = "pipe" /\ call[p].f0 \in File /\ call[p].f1 \in File
          BY <1>0, <1>6 DEF Kalloc, At, CallOK
        <5>2. Holds(p, call[p].f0) /\ Holds(p, call[p].f1)
          BY <5>1 DEF Holds, FirstOf, SecondOf
        <5>3. QED
          BY <5>1, <5>2, Holders DEF IInv
      <4> DEFINE f0 == call[p].f0
                 f1 == call[p].f1
      <4>2. file' = [file EXCEPT ![f0].page = c, ![f1].page = c, ![f1].writable = TRUE]
        BY <3>1
      <4> HIDE DEF f0, f1
      <4>3. f0 \in File /\ f1 \in File
        BY <4>1 DEF f0, f1
      <4>4. \A f \in File : file'[f] = IF f = f1 THEN [file[f] EXCEPT !.page = c, !.writable = TRUE]
                                       ELSE IF f = f0 THEN [file[f] EXCEPT !.page = c] ELSE file[f]
        BY <1>1, <4>2, <4>3 DEF FileSet
      <4>5. \A r \in FileSet : /\ [r EXCEPT !.page = c, !.writable = TRUE] \in FileSet /\ [r EXCEPT !.page = c] \in FileSet
                               /\ [r EXCEPT !.page = c, !.writable = TRUE].ref = r.ref /\ [r EXCEPT !.page = c].ref = r.ref
        BY DEF FileSet
      <4>6. DOMAIN file' = File /\ file' = [f \in File |-> file'[f]]
        BY <1>1, <4>2, <4>3
      <4>7. file' \in [File -> FileSet]
        <5>1. \A f \in File : file'[f] \in FileSet
          <6> TAKE f \in File
          <6>1. file[f] \in FileSet
            BY <1>1
          <6>2. /\ [file[f] EXCEPT !.page = c, !.writable = TRUE] \in FileSet
                /\ [file[f] EXCEPT !.page = c] \in FileSet
            BY <4>5, <6>1
          <6>3. CASE f = f1
            BY <4>4, <6>2, <6>3
          <6>4. CASE f # f1 /\ f = f0
            BY <4>4, <6>2, <6>4
          <6>5. CASE f # f1 /\ f # f0
            BY <4>4, <6>1, <6>5
          <6>6. QED
            BY <6>3, <6>4, <6>5
        <5>2. QED
          BY <4>6, <5>1
      <4>8. \A f \in File : file'[f].ref = file[f].ref
        BY <1>1, <4>4, <4>5
      <4>9. \A f \in File : f # f0 /\ f # f1 => file'[f] = file[f]
        BY <4>4
      <4>10. file[f0].ref # 0 /\ file[f1].ref # 0
        BY <4>1 DEF f0, f1
      <4>11. QED
        BY <4>7, <4>8, <4>9, <4>10 DEF f0, f1
    <3>5. \A f \in File : file'[f].ref = 0 => file'[f] = FreeFile
      BY <1>1, <3>4
    <3>6. QED
      BY <1>1, <3>1, <3>2, <3>3, <3>4, <3>5, TypeIsNext
  <2>3. QED
    BY <2>1, <2>2
<1>7. CASE FdAlloc(p)
  <2>1. /\ pc' \in [Process -> Points] /\ call' \in [Process -> CallSet]
        /\ UNCHANGED <<file, pipe>>
    <3>1. UNCHANGED <<file, pipe>> /\ (Writes(NoCall, "user") \/ (Goto(p, "fileclose") /\ UNCHANGED call))
      BY <1>7 DEF FdAlloc, Return, Calls, Undo, Goto
    <3>2. CASE Writes(NoCall, "user")
      BY <1>0, <1>2, <1>3, <3>1, <3>2, CallTypes
    <3>3. CASE Goto(p, "fileclose") /\ UNCHANGED call
      BY <1>0, <1>1, <1>3, <3>1, <3>3, CallTypes DEF Goto
    <3>4. QED
      BY <3>1, <3>2, <3>3
  <2>2. call[p].f0 \in File /\ call[p].f1 \in File
    BY <1>0, <1>7 DEF FdAlloc, At, CallOK
  <2>3. UNCHANGED ofile \/ \E x, y : ofile' = [ofile EXCEPT ![p][x] = call[p].f0, ![p][y] = call[p].f1]
    BY <1>7 DEF FdAlloc
  <2>4. ofile' \in [Process -> [FD -> File \cup {None}]]
    <3>1. ASSUME NEW x, NEW y, ofile' = [ofile EXCEPT ![p][x] = call[p].f0, ![p][y] = call[p].f1]
          PROVE  ofile' \in [Process -> [FD -> File \cup {None}]]
      <4>1. [[ofile[p] EXCEPT ![x] = call[p].f0] EXCEPT ![y] = call[p].f1] \in [FD -> File \cup {None}]
        BY <1>1, <2>2
      <4>2. QED
        BY <1>1, <3>1, <4>1
    <3>2. QED
      BY <1>1, <2>3, <3>1
  <2>5. QED
    BY <1>1, <2>1, <2>4, TypeIsNext
<1>8. CASE \E fd \in FD : SysDup(p, fd)
  <2>1. PICK fd \in FD : SysDup(p, fd)
    BY <1>8
  <2>2. CASE FD \ Open(p) = {}
    <3>1. Writes(NoCall, "user") /\ UNCHANGED <<file, ofile, pipe>>
      BY <2>1, <2>2 DEF SysDup, Return, Calls, Goto
    <3>2. QED
      BY <1>0, <1>2, <1>3, <3>1, TypeOfCall
  <2>3. CASE FD \ Open(p) # {}
    <3> DEFINE low == Lowest(FD \ Open(p))
               c   == [NoCall EXCEPT !.op = "dup", !.f0 = ofile[p][fd], !.fd = low]
    <3>1. /\ ofile' = [ofile EXCEPT ![p][low] = ofile[p][fd]] /\ Writes(c, "filedup")
          /\ UNCHANGED <<file, pipe>>
      BY <2>1, <2>3 DEF SysDup, Calls, Goto
    <3>2. low \in 0 .. NOFILE /\ ofile[p][fd] \in File \cup {None}
      <4>1. low \in FD
        BY <2>3, LowestIs
      <4> HIDE DEF low
      <4>2. QED
        BY <1>1, <4>1 DEF FD
    <3> HIDE DEF low
    <3>3. c \in CallSet
      BY <1>0, <3>2, CallTypes
    <3> HIDE DEF c
    <3>4. QED
      BY <1>0, <1>3, <3>1, <3>2, <3>3, TypeOfCall
  <2>4. QED
    BY <2>2, <2>3
<1>9. CASE DupCount(p)
  <2>1. Writes(NoCall, "user") /\ UNCHANGED <<ofile, pipe>> /\ FileDup(call[p].f0) /\ call[p].f0 \in File
    BY <1>0, <1>9 DEF DupCount, Return, Calls, Goto, At, CallOK
  <2>2. file[call[p].f0].ref + 1 \in Nat \ {0}
    BY <1>1, <2>1 DEF FileSet
  <2>3. \E f \in File, n \in Nat \ {0} : file' = [file EXCEPT ![f].ref = n]
    BY <2>1, <2>2 DEF FileDup
  <2>4. QED
    BY <1>0, <1>2, <1>3, <2>1, <2>3, TypeOfCall
<1>10. CASE \E q \in Process : Fork(p, q)
  <2>1. PICK q \in Process : Fork(p, q)
    BY <1>10
  <2>2. [NoCall EXCEPT !.op = "fork", !.child = q] \in CallSet
    BY <1>0, CallTypes
  <2>3. call' \in [Process -> CallSet]
    BY <1>0, <2>1, <2>2, CallTypes DEF Fork
  <2>4. pc' \in [Process -> Points]
    BY <1>1, <1>3, <2>1 DEF Fork
  <2>5. QED
    BY <1>1, <2>1, <2>3, <2>4, TypeIsNext DEF Fork
<1>11. CASE ForkFile(p)
  <2> DEFINE fd == Lowest(ForkNext(p))
             q  == call[p].child
             c  == [call[p] EXCEPT !.fd = fd + 1]
  <2>1. fd \in FD /\ fd \in Open(p)
    BY <1>11, LowestIs DEF ForkFile, ForkNext, Open
  <2>2. q \in Process /\ ofile[p][fd] \in File
    BY <1>0, <1>1, <1>11, <2>1 DEF ForkFile, At, ForkOK, Open
  <2>3. /\ FileDup(ofile[p][fd]) /\ ofile' = [ofile EXCEPT ![q][fd] = ofile[p][fd]]
        /\ call' = [call EXCEPT ![p].fd = fd + 1] /\ UNCHANGED <<pipe, pc>>
    BY <1>11 DEF ForkFile
  <2> HIDE DEF fd, q
  <2>4. call' = [call EXCEPT ![p] = c] /\ pc' = [pc EXCEPT ![p] = pc[p]] /\ pc[p] \in Points
    BY <1>1, <2>3 DEF CallSet
  <2>5. c \in CallSet
    <3>1. fd + 1 \in 0 .. NOFILE
      BY <2>1 DEF FD
    <3>2. QED
      BY <1>2, <3>1, CallFields
  <2>6. file[ofile[p][fd]].ref + 1 \in Nat \ {0}
    BY <1>1, <2>2 DEF FileSet
  <2>7. \E f \in File, n \in Nat \ {0} : file' = [file EXCEPT ![f].ref = n]
    BY <2>2, <2>3, <2>6 DEF FileDup
  <2> HIDE DEF c
  <2>8. \E r \in Process, f \in File \cup {None} : \E x : ofile' = [ofile EXCEPT ![r][x] = f]
    BY <2>2, <2>3
  <2>9. UNCHANGED pipe
    BY <2>3
  <2>10. QED
    BY <1>0, <2>4, <2>5, <2>7, <2>8, <2>9, TypeOfCall
<1>12. CASE ForkDone(p)
  <2>1. call' \in [Process -> CallSet] /\ pc' \in [Process -> Points]
    BY <1>1, <1>2, <1>3, <1>12 DEF ForkDone
  <2>2. QED
    BY <1>1, <1>12, <2>1, TypeIsNext DEF ForkDone
<1>13. CASE \E fd \in FD : SysClose(p, fd)
  <2>1. PICK fd \in FD : SysClose(p, fd)
    BY <1>13
  <2>2. /\ ofile' = [ofile EXCEPT ![p][fd] = None] /\ UNCHANGED <<file, pipe>>
        /\ Writes([NoCall EXCEPT !.op = "close", !.f0 = ofile[p][fd]], "fileclose")
    BY <2>1 DEF SysClose, Calls, Goto
  <2>3. [NoCall EXCEPT !.op = "close", !.f0 = ofile[p][fd]] \in CallSet
    <3>1. ofile[p][fd] \in File \cup {None}
      BY <1>1
    <3>2. QED
      BY <1>0, <3>1, CallTypes
  <2>4. QED
    BY <1>0, <1>3, <2>2, <2>3, TypeOfCall
<1>14. CASE Exit(p) \/ ExitDone(p) \/ IoDone(p)
  <2>1. \E c \in CallSet, l \in Points : Writes(c, l)
    BY <1>2, <1>3, <1>14 DEF Exit, ExitDone, IoDone, Return, Calls, Goto
  <2>2. UNCHANGED <<file, ofile, pipe>>
    BY <1>14 DEF Exit, ExitDone, IoDone
  <2>3. QED
    BY <1>0, <2>1, <2>2, TypeOfCall
<1>15. CASE ExitFile(p)
  <2> DEFINE fd == Lowest(Open(p))
  <2>1. fd \in FD
    BY <1>15, LowestIs DEF ExitFile, Open
  <2>2. Writes([call[p] EXCEPT !.f0 = ofile[p][fd], !.fd = fd], "fileclose") /\ UNCHANGED <<file, ofile, pipe>>
    BY <1>15 DEF ExitFile, Calls, Goto
  <2> HIDE DEF fd
  <2>3. [call[p] EXCEPT !.f0 = ofile[p][fd], !.fd = fd] \in CallSet
    <3>1. ofile[p][fd] \in File \cup {None} /\ fd \in 0 .. NOFILE
      BY <1>1, <2>1 DEF FD
    <3>2. QED
      BY <1>2, <3>1, CallFields
  <2>4. QED
    BY <1>0, <1>3, <2>2, <2>3, TypeOfCall
<1>16. CASE FileClose(p)
  <2> DEFINE f == call[p].f0
             c == [call[p] EXCEPT !.f0 = None, !.page = file[f].page, !.writable = file[f].writable]
  <2>1. f \in File /\ file[f] \in FileSet
    BY <1>0, <1>1, <1>16 DEF FileClose, At, CallOK
  <2>2. file' \in [File -> FileSet] /\ \A g \in File : file'[g].ref = 0 => file'[g] = FreeFile
    <3>1. \/ file[f].ref > 1 /\ file' = [file EXCEPT ![f].ref = file[f].ref - 1]
          \/ file' = [file EXCEPT ![f] = FreeFile]
      BY <1>1, <1>16, <2>1 DEF FileClose, Emptied, FileSet
    <3> HIDE DEF f
    <3>2. file[f].ref > 1 => file[f].ref - 1 \in Nat /\ file[f].ref - 1 # 0
      BY <2>1 DEF FileSet
    <3>3. CASE file[f].ref > 1 /\ file' = [file EXCEPT ![f].ref = file[f].ref - 1]
      <4> DEFINE n == file[f].ref - 1
      <4>1. n \in Nat /\ n # 0 /\ file' = [file EXCEPT ![f].ref = n]
        BY <3>2, <3>3
      <4> HIDE DEF n
      <4>2. /\ [file EXCEPT ![f].ref = n] \in [File -> FileSet]
            /\ \A g \in File : [file EXCEPT ![f].ref = n][g].ref = 0 => [file EXCEPT ![f].ref = n][g] = FreeFile
        BY <1>0, <2>1, <4>1, FileTypes
      <4>3. QED
        BY <4>1, <4>2, Zenon
    <3>4. CASE file' = [file EXCEPT ![f] = FreeFile]
      <4>1. /\ [file EXCEPT ![f] = FreeFile] \in [File -> FileSet]
            /\ \A g \in File : [file EXCEPT ![f] = FreeFile][g].ref = 0 => [file EXCEPT ![f] = FreeFile][g] = FreeFile
        BY <1>0, <2>1, FileEmptied
      <4>2. QED
        BY <3>4, <4>1, Zenon
    <3>5. QED
      BY <3>1, <3>3, <3>4
  <2>3. CASE AfterClose(p)
    BY <1>0, <1>1, <1>16, <2>2, <2>3, AfterCloseType, TypeIsNext DEF FileClose
  <2>4. CASE ~AfterClose(p)
    <3>1. Writes(c, "pipeclose") /\ UNCHANGED <<ofile, pipe>>
      BY <1>16, <2>4 DEF FileClose, Calls, Goto
    <3>2. c \in CallSet
      BY <1>2, <2>1, CallFields DEF FileSet
    <3> HIDE DEF c
    <3>3. call' \in [Process -> CallSet] /\ pc' \in [Process -> Points]
      BY <1>0, <1>3, <3>1, <3>2, CallTypes
    <3>4. QED
      BY <1>1, <2>2, <3>1, <3>3, TypeIsNext
  <2>5. QED
    BY <2>3, <2>4
<1>17. CASE PipeClose(p) \/ Kfree(p)
  <2>1. pipe' \in [Page -> PageSet] /\ UNCHANGED file
    <3>1. CASE PipeClose(p)
      <4>1. \E r, w \in BOOLEAN : pipe' = [pipe EXCEPT ![call[p].page].readopen = r, ![call[p].page].writeopen = w]
        <5>1. call[p].page \in Page /\ call[p].writable \in BOOLEAN
          BY <1>0, <1>2, <3>1, CallFields DEF PipeClose, At, CallOK
        <5>2. pipe[call[p].page].readopen \in BOOLEAN /\ pipe[call[p].page].writeopen \in BOOLEAN
          BY <1>1, <5>1 DEF PageSet
        <5>3. QED
          BY <3>1, <5>1, <5>2 DEF PipeClose
      <4>2. PICK r \in BOOLEAN, w \in BOOLEAN :
              pipe' = [pipe EXCEPT ![call[p].page].readopen = r, ![call[p].page].writeopen = w]
        BY <4>1
      <4>3. \A x \in PageSet : [x EXCEPT !.readopen = r] \in PageSet /\ [x EXCEPT !.writeopen = w] \in PageSet
        BY <4>2 DEF PageSet
      <4> DEFINE c == call[p].page
      <4>4. c \in Page
        BY <1>0, <3>1 DEF PipeClose, At, CallOK
      <4>5. pipe' = [pipe EXCEPT ![c].readopen = r, ![c].writeopen = w]
        BY <4>2
      <4> HIDE DEF c
      <4>6. [[pipe[c] EXCEPT !.readopen = r] EXCEPT !.writeopen = w] \in PageSet
        BY <1>1, <4>3, <4>4
      <4>7. pipe' = [pipe EXCEPT ![c] = [[pipe[c] EXCEPT !.readopen = r] EXCEPT !.writeopen = w]]
        BY <1>1, <4>4, <4>5
      <4>8. QED
        <5>1. UNCHANGED file
          BY <3>1 DEF PipeClose
        <5>2. QED
          BY <1>1, <4>4, <4>6, <4>7, <5>1
    <3>2. CASE Kfree(p)
      BY <1>1, <3>2 DEF Kfree, FreePage, PageSet
    <3>3. QED
      BY <1>17, <3>1, <3>2
  <2>2. CASE AfterClose(p)
    BY <1>0, <1>1, <2>1, <2>2, AfterCloseType, TypeIsNext
  <2>3. CASE ~AfterClose(p)
    <3>1. Goto(p, "kfree") /\ UNCHANGED <<call, ofile>>
      BY <1>17, <2>3 DEF PipeClose, Kfree
    <3>2. QED
      BY <1>0, <1>1, <1>3, <2>1, <3>1, CallTypes, TypeIsNext DEF Goto
  <2>4. QED
    BY <2>2, <2>3
<1>18. CASE \E fd \in FD : SysIo(p, fd)
  <2>1. PICK fd \in FD : SysIo(p, fd)
    BY <1>18
  <2> DEFINE f == ofile[p][fd]
             c == [NoCall EXCEPT !.op = "io", !.page = file[f].page, !.writable = file[f].writable]
  <2>2. file[f] \in FileSet
    BY <1>1, <2>1 DEF SysIo, Open
  <2>3. Writes(c, "io") /\ UNCHANGED <<file, ofile, pipe>>
    BY <2>1 DEF SysIo, Calls, Goto
  <2>4. c \in CallSet
    BY <1>2, <2>2 DEF CallSet, FileSet
  <2> HIDE DEF c
  <2>5. QED
    BY <1>0, <1>3, <2>3, <2>4, TypeOfCall
<1>19. QED
  BY <1>4, <1>5, <1>6, <1>7, <1>8, <1>9, <1>10, <1>11, <1>12, <1>13, <1>14, <1>15, <1>16, <1>17, <1>18 DEF Step

-----------------------------------------------------------------------------
(* What each step does to the process that takes it, to the others and to  *)
(* the files.                                                              *)

Same(q)    == pc'[q] = pc[q] /\ call'[q] = call[q] /\ ofile'[q] = ofile[q]
OnlyRow(p) == \A q \in Process \ {p} : Same(q)
Idle(p)    == pc'[p] = "user" /\ call'[p] = NoCall

CallIs(c, op, f0, f1) == c.op = op /\ c.f0 = f0 /\ c.f1 = f1

Counted(f, n) ==
    /\ file'[f].ref = n /\ file'[f].page = file[f].page /\ file'[f].writable = file[f].writable
    /\ \A g \in File \ {f} : file'[g] = file[g]

LEMMA Written ==
    ASSUME TypeOK, NEW p \in Process, NEW c, NEW l, Calls(p, c, l)
    PROVE  pc'[p] = l /\ call'[p] = c /\ \A q \in Process \ {p} : pc'[q] = pc[q] /\ call'[q] = call[q]
<1>1. pc \in [Process -> Points] /\ call \in [Process -> CallSet]
  BY TypeIs
<1>2. QED
  BY <1>1 DEF Calls, Goto

LEMMA CountedIs ==
    ASSUME TypeOK, NEW f \in File, NEW n, file' = [file EXCEPT ![f].ref = n]
    PROVE  Counted(f, n)
<1>1. file \in [File -> FileSet]
  BY TypeIs
<1>2. \A r \in FileSet : /\ [r EXCEPT !.ref = n].ref = n /\ [r EXCEPT !.ref = n].page = r.page
                         /\ [r EXCEPT !.ref = n].writable = r.writable
  BY DEF FileSet
<1>3. file'[f] = [file[f] EXCEPT !.ref = n] /\ \A g \in File \ {f} : file'[g] = file[g]
  BY <1>1
<1>4. QED
  BY <1>1, <1>2, <1>3 DEF Counted

LEMMA Blank == CallIs(NoCall, "none", None, None) /\ NoCall.fd = 0 /\ NoCall.page = None
BY DEF CallIs, NoCall

LEMMA ExitCall == CallIs([NoCall EXCEPT !.op = "exit"], "exit", None, None)
BY DEF CallIs, NoCall

LEMMA CallParts ==
    ASSUME NEW c \in CallSet
    PROVE  /\ \A f : CallIs([c EXCEPT !.f1 = f], c.op, c.f0, f)
           /\ \A f, g : CallIs([c EXCEPT !.f0 = f, !.f1 = g], c.op, f, g) /\ [c EXCEPT !.f0 = f, !.f1 = g].fd = c.fd
BY DEF CallSet, CallIs

LEMMA SysPipeDoes ==
    ASSUME TypeOK, NEW p \in Process, SysPipe(p)
    PROVE  /\ pc[p] = "user" /\ OnlyRow(p) /\ ofile'[p] = ofile[p] /\ UNCHANGED pipe
           /\ \/ Idle(p) /\ UNCHANGED file
              \/ \E f \in File : /\ file[f].ref = 0 /\ Counted(f, 1)
                                 /\ pc'[p] = "filealloc" /\ CallIs(call'[p], "pipe", f, None)
<1>1. pc[p] = "user" /\ UNCHANGED <<ofile, pipe>>
  BY DEF SysPipe, At
<1>2. ASSUME NEW f \in File, FileAlloc(p, f), Calls(p, [NoCall EXCEPT !.op = "pipe", !.f0 = f], "filealloc")
      PROVE  /\ OnlyRow(p) /\ file[f].ref = 0 /\ Counted(f, 1)
             /\ pc'[p] = "filealloc" /\ CallIs(call'[p], "pipe", f, None)
  <2>1. CallIs([NoCall EXCEPT !.op = "pipe", !.f0 = f], "pipe", f, None)
    BY DEF CallIs, NoCall
  <2>2. /\ pc'[p] = "filealloc" /\ call'[p] = [NoCall EXCEPT !.op = "pipe", !.f0 = f]
        /\ \A q \in Process \ {p} : pc'[q] = pc[q] /\ call'[q] = call[q]
    BY <1>2, Written
  <2>3. file[f].ref = 0 /\ Counted(f, 1)
    BY <1>2, CountedIs DEF FileAlloc
  <2>4. QED
    BY <1>1, <2>1, <2>2, <2>3 DEF OnlyRow, Same
<1>3. ASSUME Return(p) PROVE OnlyRow(p) /\ Idle(p)
  BY <1>1, <1>3, Written DEF Return, OnlyRow, Same, Idle
<1>4. QED
  BY <1>1, <1>2, <1>3 DEF SysPipe

LEMMA UndoDoes ==
    ASSUME TypeOK, NEW p \in Process, Undo(p), UNCHANGED ofile
    PROVE  OnlyRow(p) /\ pc'[p] = "fileclose" /\ call'[p] = call[p]
<1>1. pc \in [Process -> Points]
  BY TypeIs
<1>2. QED
  BY <1>1 DEF Undo, Goto, OnlyRow, Same

LEMMA SecondFileDoes ==
    ASSUME TypeOK, NEW p \in Process, SecondFile(p)
    PROVE  /\ pc[p] = "filealloc" /\ OnlyRow(p) /\ ofile'[p] = ofile[p] /\ UNCHANGED pipe
           /\ \/ pc'[p] = "fileclose" /\ call'[p] = call[p] /\ UNCHANGED file
              \/ \E f \in File : /\ file[f].ref = 0 /\ Counted(f, 1)
                                 /\ pc'[p] = "kalloc" /\ CallIs(call'[p], call[p].op, call[p].f0, f)
<1>1. pc[p] = "filealloc" /\ UNCHANGED <<ofile, pipe>>
  BY DEF SecondFile, At
<1>2. ASSUME NEW f \in File, FileAlloc(p, f), Calls(p, [call[p] EXCEPT !.f1 = f], "kalloc")
      PROVE  /\ OnlyRow(p) /\ file[f].ref = 0 /\ Counted(f, 1)
             /\ pc'[p] = "kalloc" /\ CallIs(call'[p], call[p].op, call[p].f0, f)
  <2>1. CallIs([call[p] EXCEPT !.f1 = f], call[p].op, call[p].f0, f)
    BY CallTypes, CallParts
  <2>2. /\ pc'[p] = "kalloc" /\ call'[p] = [call[p] EXCEPT !.f1 = f]
        /\ \A q \in Process \ {p} : pc'[q] = pc[q] /\ call'[q] = call[q]
    BY <1>2, Written
  <2>3. file[f].ref = 0 /\ Counted(f, 1)
    BY <1>2, CountedIs DEF FileAlloc
  <2>4. QED
    BY <1>1, <2>1, <2>2, <2>3 DEF OnlyRow, Same
<1>3. QED
  BY <1>1, <1>2, UndoDoes DEF SecondFile

LEMMA RowWritten ==
    ASSUME TypeOK, NEW p \in Process, NEW fd \in FD, NEW f, ofile' = [ofile EXCEPT ![p][fd] = f]
    PROVE  /\ ofile'[p][fd] = f /\ \A x \in FD \ {fd} : ofile'[p][x] = ofile[p][x]
           /\ \A q \in Process \ {p} : ofile'[q] = ofile[q]
<1>1. ofile \in [Process -> [FD -> File \cup {None}]]
  BY TypeIs
<1>2. QED
  BY <1>1

(* The files of pipealloc become the ends of a pipe.                       *)
Piped(f0, f1, c) ==
    /\ file'[f0].ref = file[f0].ref /\ file'[f0].page = c /\ file'[f0].writable = file[f0].writable
    /\ file'[f1].ref = file[f1].ref /\ file'[f1].page = c /\ file'[f1].writable = TRUE
    /\ \A g \in File \ {f0, f1} : file'[g] = file[g]

LEMMA KallocDoes ==
    ASSUME TypeOK, NEW p \in Process, CallOK(p), call[p].f1 # None => call[p].f0 # call[p].f1, Kalloc(p)
    PROVE  /\ pc[p] = "kalloc" /\ OnlyRow(p) /\ call'[p] = call[p] /\ ofile'[p] = ofile[p]
           /\ \/ pc'[p] = "fileclose" /\ UNCHANGED <<file, pipe>>
              \/ \E c \in Page : /\ ~pipe[c].alloc /\ pc'[p] = "fdalloc"
                                 /\ pipe'[c] = NewPipe /\ \A d \in Page \ {c} : pipe'[d] = pipe[d]
                                 /\ Piped(call[p].f0, call[p].f1, c)
<1> DEFINE f0 == call[p].f0
           f1 == call[p].f1
<1>1. pc[p] = "kalloc" /\ UNCHANGED <<call, ofile>>
  BY DEF Kalloc, At, Undo
<1>2. f0 \in File /\ f1 \in File /\ f0 # f1
  BY <1>1 DEF CallOK
<1>3. pc \in [Process -> Points] /\ pipe \in [Page -> PageSet] /\ file \in [File -> FileSet]
  BY TypeIs
<1>4. ASSUME NEW c \in Page, ~pipe[c].alloc, pipe' = [pipe EXCEPT ![c] = NewPipe], Goto(p, "fdalloc"),
             file' = [file EXCEPT ![call[p].f0].page = c, ![call[p].f1].page = c, ![call[p].f1].writable = TRUE]
      PROVE  /\ pc'[p] = "fdalloc" /\ OnlyRow(p)
             /\ pipe'[c] = NewPipe /\ \A d \in Page \ {c} : pipe'[d] = pipe[d]
             /\ Piped(f0, f1, c)
  <2>1. pc'[p] = "fdalloc" /\ OnlyRow(p)
    BY <1>1, <1>3, <1>4 DEF Goto, OnlyRow, Same
  <2>2. pipe'[c] = NewPipe /\ \A d \in Page \ {c} : pipe'[d] = pipe[d]
    BY <1>3, <1>4
  <2>3. file' = [file EXCEPT ![f0].page = c, ![f1].page = c, ![f1].writable = TRUE]
    BY <1>4
  <2> HIDE DEF f0, f1
  <2>4. /\ file'[f0] = [file[f0] EXCEPT !.page = c]
        /\ file'[f1] = [file[f1] EXCEPT !.page = c, !.writable = TRUE]
        /\ \A g \in File \ {f0, f1} : file'[g] = file[g]
    BY <1>2, <1>3, <2>3
  <2>5. \A r \in FileSet : /\ [r EXCEPT !.page = c].ref = r.ref /\ [r EXCEPT !.page = c].page = c
                           /\ [r EXCEPT !.page = c].writable = r.writable
                           /\ [r EXCEPT !.page = c, !.writable = TRUE].ref = r.ref
                           /\ [r EXCEPT !.page = c, !.writable = TRUE].page = c
                           /\ [r EXCEPT !.page = c, !.writable = TRUE].writable = TRUE
    BY DEF FileSet
  <2>6. Piped(f0, f1, c)
    BY <1>2, <1>3, <2>4, <2>5 DEF Piped
  <2>7. QED
    BY <2>1, <2>2, <2>6
<1>5. QED
  BY <1>1, <1>4, UndoDoes DEF Kalloc

LEMMA FdAllocDoes ==
    ASSUME TypeOK, NEW p \in Process, FdAlloc(p)
    PROVE  /\ pc[p] = "fdalloc" /\ OnlyRow(p) /\ UNCHANGED <<file, pipe>>
           /\ \/ pc'[p] = "fileclose" /\ call'[p] = call[p] /\ ofile'[p] = ofile[p]
              \/ \E x, y \in FD \ Open(p) :
                    /\ x # y /\ Idle(p)
                    /\ ofile'[p][x] = call[p].f0 /\ ofile'[p][y] = call[p].f1
                    /\ \A fd \in FD \ {x, y} : ofile'[p][fd] = ofile[p][fd]
<1> DEFINE free == FD \ Open(p)
           x    == Lowest(free)
           y    == Lowest(free \ {x})
<1>1. pc[p] = "fdalloc" /\ UNCHANGED <<file, pipe>>
  BY DEF FdAlloc, At
<1>2. CASE Cardinality(free) >= 2
  <2>1. x \in free /\ y \in free /\ x # y
    BY <1>2, TwoFree
  <2>2. ofile' = [ofile EXCEPT ![p][x] = call[p].f0, ![p][y] = call[p].f1] /\ Return(p)
    BY <1>2 DEF FdAlloc
  <2>3. Idle(p) /\ \A q \in Process \ {p} : pc'[q] = pc[q] /\ call'[q] = call[q]
    BY <2>2, Written DEF Return, Idle
  <2> HIDE DEF x, y
  <2>4. ofile \in [Process -> [FD -> File \cup {None}]]
    BY TypeIs
  <2>5. ofile'[p] = [ofile[p] EXCEPT ![x] = call[p].f0, ![y] = call[p].f1] /\ \A q \in Process \ {p} : ofile'[q] = ofile[q]
    BY <2>2, <2>4
  <2>6. /\ ofile'[p][x] = call[p].f0 /\ ofile'[p][y] = call[p].f1
        /\ \A fd \in FD \ {x, y} : ofile'[p][fd] = ofile[p][fd]
    BY <2>1, <2>4, <2>5
  <2>7. QED
    BY <1>1, <2>1, <2>3, <2>5, <2>6 DEF OnlyRow, Same
<1>3. CASE ~(Cardinality(free) >= 2)
  BY <1>1, <1>3, UndoDoes DEF FdAlloc
<1>4. QED
  BY <1>2, <1>3

LEMMA SysDupDoes ==
    ASSUME TypeOK, NEW p \in Process, NEW fd \in FD, SysDup(p, fd)
    PROVE  /\ pc[p] = "user" /\ OnlyRow(p) /\ UNCHANGED <<file, pipe>> /\ ofile[p][fd] \in File
           /\ \/ Idle(p) /\ ofile'[p] = ofile[p]
              \/ \E x \in FD \ Open(p) :
                    /\ pc'[p] = "filedup" /\ CallIs(call'[p], "dup", ofile[p][fd], None) /\ call'[p].fd = x
                    /\ ofile'[p][x] = ofile[p][fd] /\ \A y \in FD \ {x} : ofile'[p][y] = ofile[p][y]
<1> DEFINE x == Lowest(FD \ Open(p))
           c == [NoCall EXCEPT !.op = "dup", !.f0 = ofile[p][fd], !.fd = x]
<1>1. pc[p] = "user" /\ UNCHANGED <<file, pipe>> /\ ofile[p][fd] \in File
  BY TypeIs DEF SysDup, At, Open
<1>2. CASE FD \ Open(p) = {}
  <2>1. Return(p) /\ UNCHANGED ofile
    BY <1>2 DEF SysDup
  <2>2. QED
    BY <1>1, <2>1, Written DEF Return, Idle, OnlyRow, Same
<1>3. CASE FD \ Open(p) # {}
  <2>1. ofile' = [ofile EXCEPT ![p][x] = ofile[p][fd]] /\ Calls(p, c, "filedup")
    BY <1>3 DEF SysDup
  <2>2. x \in FD \ Open(p)
    BY <1>3, LowestIs
  <2>3. CallIs(c, "dup", ofile[p][fd], None) /\ c.fd = x
    BY DEF CallIs, NoCall
  <2> HIDE DEF x, c
  <2>4. pc'[p] = "filedup" /\ call'[p] = c /\ \A q \in Process \ {p} : pc'[q] = pc[q] /\ call'[q] = call[q]
    BY <2>1, Written
  <2>5. /\ ofile'[p][x] = ofile[p][fd] /\ \A y \in FD \ {x} : ofile'[p][y] = ofile[p][y]
        /\ \A q \in Process \ {p} : ofile'[q] = ofile[q]
    BY <2>1, <2>2, RowWritten
  <2>6. QED
    BY <1>1, <2>2, <2>3, <2>4, <2>5 DEF OnlyRow, Same
<1>4. QED
  BY <1>2, <1>3

LEMMA DupCountDoes ==
    ASSUME TypeOK, NEW p \in Process, CallOK(p), DupCount(p)
    PROVE  /\ pc[p] = "filedup" /\ OnlyRow(p) /\ ofile'[p] = ofile[p] /\ UNCHANGED pipe /\ Idle(p)
           /\ call[p].f0 \in File /\ Counted(call[p].f0, file[call[p].f0].ref + 1)
<1>1. pc[p] = "filedup" /\ UNCHANGED <<ofile, pipe>> /\ Return(p) /\ FileDup(call[p].f0)
  BY DEF DupCount, At
<1>2. call[p].f0 \in File
  BY <1>1 DEF CallOK
<1>3. Counted(call[p].f0, file[call[p].f0].ref + 1)
  BY <1>1, <1>2, CountedIs DEF FileDup
<1>4. QED
  BY <1>1, <1>2, <1>3, Written DEF Return, Idle, OnlyRow, Same

LEMMA ForkDoes ==
    ASSUME TypeOK, NEW p \in Process, NEW q \in Process, Fork(p, q)
    PROVE  /\ pc[p] = "user" /\ pc[q] = "unused" /\ p # q /\ UNCHANGED <<file, pipe, ofile>>
           /\ pc'[p] = "fork" /\ CallIs(call'[p], "fork", None, None) /\ call'[p].child = q /\ call'[p].fd = 0
           /\ pc'[q] = "embryo" /\ call'[q] = call[q] /\ \A r \in Process \ {p, q} : Same(r)
<1> DEFINE c == [NoCall EXCEPT !.op = "fork", !.child = q]
<1>1. /\ pc[p] = "user" /\ pc[q] = "unused" /\ UNCHANGED <<file, pipe, ofile>>
      /\ pc' = [pc EXCEPT ![p] = "fork", ![q] = "embryo"] /\ call' = [call EXCEPT ![p] = c]
  BY DEF Fork, At
<1>2. CallIs(c, "fork", None, None) /\ c.child = q /\ c.fd = 0
  BY DEF CallIs, NoCall
<1> HIDE DEF c
<1>3. pc \in [Process -> Points] /\ call \in [Process -> CallSet] /\ p # q
  BY <1>1, TypeIs
<1>4. QED
  BY <1>1, <1>2, <1>3 DEF Same

LEMMA ForkFileDoes ==
    ASSUME TypeOK, NEW p \in Process, ForkOK(p), ForkFile(p)
    PROVE  LET q == call[p].child IN
           /\ pc[p] = "fork" /\ q \in Process \ {p} /\ UNCHANGED <<pc, pipe>>
           /\ CallIs(call'[p], call[p].op, call[p].f0, call[p].f1) /\ call'[p].child = q
           /\ call'[q] = call[q] /\ ofile'[p] = ofile[p] /\ \A r \in Process \ {p, q} : Same(r)
           /\ \E fd \in FD :
                /\ fd >= call[p].fd /\ ofile[p][fd] \in File /\ call'[p].fd = fd + 1
                /\ Counted(ofile[p][fd], file[ofile[p][fd]].ref + 1)
                /\ ofile'[q][fd] = ofile[p][fd] /\ \A x \in FD \ {fd} : ofile'[q][x] = ofile[q][x]
<1> DEFINE fd == Lowest(ForkNext(p))
           q  == call[p].child
<1>1. fd \in FD /\ fd \in Open(p) /\ fd >= call[p].fd
  <2>1. ForkNext(p) \in SUBSET FD /\ ForkNext(p) # {}
    BY DEF ForkFile, ForkNext, Open
  <2>2. fd \in ForkNext(p)
    BY <2>1, LowestIs
  <2> HIDE DEF fd
  <2>3. QED
    BY <2>2 DEF ForkNext, Open
<1>2. /\ pc[p] = "fork" /\ UNCHANGED <<pc, pipe>> /\ FileDup(ofile[p][fd])
      /\ ofile' = [ofile EXCEPT ![q][fd] = ofile[p][fd]] /\ call' = [call EXCEPT ![p].fd = fd + 1]
  BY DEF ForkFile, At
<1> HIDE DEF fd
<1>3. q \in Process /\ q # p
  BY <1>2 DEF ForkOK
<1>4. /\ ofile \in [Process -> [FD -> File \cup {None}]] /\ call \in [Process -> CallSet]
      /\ ofile[p][fd] \in File /\ call[p] \in CallSet
  BY <1>1, TypeIs DEF Open
<1>5. Counted(ofile[p][fd], file[ofile[p][fd]].ref + 1)
  BY <1>2, <1>4, CountedIs DEF FileDup
<1>6. call'[p] = [call[p] EXCEPT !.fd = fd + 1] /\ \A r \in Process \ {p} : call'[r] = call[r]
  BY <1>2, <1>4
<1>7. CallIs(call'[p], call[p].op, call[p].f0, call[p].f1) /\ call'[p].child = q /\ call'[p].fd = fd + 1
  <2> DEFINE n == fd + 1
  <2>1. call'[p] = [call[p] EXCEPT !.fd = n]
    BY <1>6
  <2> HIDE DEF n
  <2>2. CallIs(call'[p], call[p].op, call[p].f0, call[p].f1) /\ call'[p].child = q /\ call'[p].fd = n
    BY <1>4, <2>1 DEF CallIs, CallSet
  <2>3. QED
    BY <2>2 DEF n
<1>8. /\ ofile'[q][fd] = ofile[p][fd] /\ \A x \in FD \ {fd} : ofile'[q][x] = ofile[q][x]
      /\ \A r \in Process \ {q} : ofile'[r] = ofile[r]
  BY <1>1, <1>2, <1>3, RowWritten
<1>9. QED
  BY <1>1, <1>2, <1>3, <1>4, <1>5, <1>6, <1>7, <1>8 DEF Same

LEMMA ForkDoneDoes ==
    ASSUME TypeOK, NEW p \in Process, ForkOK(p), ForkDone(p)
    PROVE  LET q == call[p].child IN
           /\ pc[p] = "fork" /\ q \in Process \ {p} /\ pc[q] = "embryo" /\ UNCHANGED <<file, ofile, pipe>>
           /\ Idle(p) /\ pc'[q] = "user" /\ call'[q] = call[q] /\ \A r \in Process \ {p, q} : Same(r)
<1> DEFINE q == call[p].child
<1>1. /\ pc[p] = "fork" /\ UNCHANGED <<file, ofile, pipe>>
      /\ pc' = [pc EXCEPT ![p] = "user", ![q] = "user"] /\ call' = [call EXCEPT ![p] = NoCall]
  BY DEF ForkDone, At
<1>2. q \in Process /\ pc[q] = "embryo"
  BY <1>1 DEF ForkOK
<1>3. pc \in [Process -> Points] /\ call \in [Process -> CallSet]
  BY TypeIs
<1>4. QED
  BY <1>1, <1>2, <1>3 DEF Same, Idle

LEMMA SysCloseDoes ==
    ASSUME TypeOK, NEW p \in Process, NEW fd \in FD, SysClose(p, fd)
    PROVE  /\ pc[p] = "user" /\ OnlyRow(p) /\ UNCHANGED <<file, pipe>> /\ ofile[p][fd] \in File
           /\ pc'[p] = "fileclose" /\ CallIs(call'[p], "close", ofile[p][fd], None)
           /\ ofile'[p][fd] = None /\ \A y \in FD \ {fd} : ofile'[p][y] = ofile[p][y]
<1> DEFINE c == [NoCall EXCEPT !.op = "close", !.f0 = ofile[p][fd]]
<1>1. /\ pc[p] = "user" /\ UNCHANGED <<file, pipe>> /\ ofile[p][fd] \in File
      /\ ofile' = [ofile EXCEPT ![p][fd] = None] /\ Calls(p, c, "fileclose")
  BY TypeIs DEF SysClose, At, Open
<1>2. CallIs(c, "close", ofile[p][fd], None)
  BY DEF CallIs, NoCall
<1> HIDE DEF c
<1>3. pc'[p] = "fileclose" /\ call'[p] = c /\ \A q \in Process \ {p} : pc'[q] = pc[q] /\ call'[q] = call[q]
  BY <1>1, Written
<1>4. /\ ofile'[p][fd] = None /\ \A y \in FD \ {fd} : ofile'[p][y] = ofile[p][y]
      /\ \A q \in Process \ {p} : ofile'[q] = ofile[q]
  BY <1>1, RowWritten
<1>5. QED
  BY <1>1, <1>2, <1>3, <1>4 DEF OnlyRow, Same

LEMMA ExitDoes ==
    ASSUME TypeOK, NEW p \in Process, Exit(p)
    PROVE  /\ pc[p] = "user" /\ OnlyRow(p) /\ UNCHANGED <<file, pipe, ofile>>
           /\ pc'[p] = "exit" /\ call'[p] = [NoCall EXCEPT !.op = "exit"]
<1>1. pc[p] = "user" /\ UNCHANGED <<file, pipe, ofile>> /\ Calls(p, [NoCall EXCEPT !.op = "exit"], "exit")
  BY DEF Exit, At
<1>2. QED
  BY <1>1, Written DEF OnlyRow, Same

LEMMA ExitFileDoes ==
    ASSUME TypeOK, NEW p \in Process, ExitFile(p)
    PROVE  /\ pc[p] = "exit" /\ OnlyRow(p) /\ UNCHANGED <<file, pipe, ofile>>
           /\ \E fd \in FD : /\ ofile[p][fd] \in File /\ pc'[p] = "fileclose"
                             /\ CallIs(call'[p], call[p].op, ofile[p][fd], call[p].f1) /\ call'[p].fd = fd
<1> DEFINE fd == Lowest(Open(p))
           c  == [call[p] EXCEPT !.f0 = ofile[p][fd], !.fd = fd]
<1>1. pc[p] = "exit" /\ UNCHANGED <<file, pipe, ofile>> /\ Calls(p, c, "fileclose")
  BY DEF ExitFile, At
<1>2. fd \in FD /\ ofile[p][fd] \in File
  <2>1. fd \in Open(p)
    BY LowestIs DEF ExitFile, Open
  <2> HIDE DEF fd
  <2>2. QED
    BY <2>1, TypeIs DEF Open
<1> HIDE DEF fd
<1>3. CallIs(c, call[p].op, ofile[p][fd], call[p].f1) /\ c.fd = fd
  <2>1. call[p] \in CallSet
    BY CallTypes
  <2>2. c = [call[p] EXCEPT !.f0 = ofile[p][fd], !.fd = fd]
    OBVIOUS
  <2> HIDE DEF c
  <2>3. QED
    BY <2>1, <2>2 DEF CallIs, CallSet
<1> HIDE DEF c
<1>4. QED
  BY <1>1, <1>2, <1>3, Written DEF OnlyRow, Same

LEMMA ExitDoneDoes ==
    ASSUME TypeOK, NEW p \in Process, ExitDone(p)
    PROVE  /\ pc[p] = "exit" /\ OnlyRow(p) /\ UNCHANGED <<file, pipe, ofile>> /\ Open(p) = {}
           /\ pc'[p] = "unused" /\ call'[p] = NoCall
<1>1. pc[p] = "exit" /\ UNCHANGED <<file, pipe, ofile>> /\ Open(p) = {} /\ Calls(p, NoCall, "unused")
  BY DEF ExitDone, At
<1>2. QED
  BY <1>1, Written DEF OnlyRow, Same

(* What is left of the call when a file is closed.                         *)
Continues(p) ==
    /\ OnlyRow(p)
    /\ \/ /\ call[p].f1 # None /\ ofile'[p] = ofile[p]
          /\ pc'[p] = "fileclose" /\ CallIs(call'[p], call[p].op, call[p].f1, None) /\ call'[p].fd = call[p].fd
       \/ /\ call[p].f1 = None /\ call[p].op = "exit"
          /\ pc'[p] = "exit" /\ call'[p] = [NoCall EXCEPT !.op = "exit"]
          /\ ofile'[p][call[p].fd] = None /\ \A fd \in FD \ {call[p].fd} : ofile'[p][fd] = ofile[p][fd]
       \/ /\ call[p].f1 = None /\ call[p].op # "exit"
          /\ Idle(p) /\ ofile'[p] = ofile[p]

LEMMA AfterCloseDoes ==
    ASSUME TypeOK, NEW p \in Process, call[p].op = "exit" => call[p].fd \in FD, AfterClose(p)
    PROVE  Continues(p)
<1> DEFINE c == [call[p] EXCEPT !.f0 = call[p].f1, !.f1 = None]
<1>1. CASE call[p].f1 # None /\ Calls(p, c, "fileclose") /\ UNCHANGED ofile
  <2>1. CallIs(c, call[p].op, call[p].f1, None) /\ c.fd = call[p].fd
    BY CallTypes, CallParts
  <2> HIDE DEF c
  <2>2. QED
    BY <1>1, <2>1, Written DEF Continues, OnlyRow, Same
<1>2. CASE /\ call[p].f1 = None /\ call[p].op = "exit" /\ Calls(p, [NoCall EXCEPT !.op = "exit"], "exit")
           /\ ofile' = [ofile EXCEPT ![p][call[p].fd] = None]
  <2>1. /\ ofile'[p][call[p].fd] = None /\ \A fd \in FD \ {call[p].fd} : ofile'[p][fd] = ofile[p][fd]
        /\ \A q \in Process \ {p} : ofile'[q] = ofile[q]
    <3> DEFINE fd == call[p].fd
    <3>1. fd \in FD /\ ofile' = [ofile EXCEPT ![p][fd] = None]
      BY <1>2
    <3> HIDE DEF fd
    <3>2. /\ ofile'[p][fd] = None /\ \A x \in FD \ {fd} : ofile'[p][x] = ofile[p][x]
          /\ \A q \in Process \ {p} : ofile'[q] = ofile[q]
      BY <3>1, RowWritten
    <3>3. QED
      BY <3>2 DEF fd
  <2>2. QED
    BY <1>2, <2>1, Written DEF Continues, OnlyRow, Same
<1>3. CASE call[p].f1 = None /\ call[p].op # "exit" /\ Return(p) /\ UNCHANGED ofile
  BY <1>3, Written DEF Continues, OnlyRow, Same, Return, Idle
<1>4. QED
  BY <1>1, <1>2, <1>3 DEF AfterClose

LEMMA FileCloseDoes ==
    ASSUME TypeOK, NEW p \in Process, CallOK(p), FileClose(p)
    PROVE  LET f == call[p].f0 IN
           /\ pc[p] = "fileclose" /\ f \in File /\ UNCHANGED pipe
           /\ \/ file[f].ref > 1 /\ Counted(f, file[f].ref - 1) /\ Continues(p)
              \/ /\ file[f].ref = 1 /\ file'[f] = FreeFile /\ \A g \in File \ {f} : file'[g] = file[g]
                 /\ \/ file[f].page = None /\ Continues(p)
                    \/ /\ file[f].page # None /\ OnlyRow(p) /\ ofile'[p] = ofile[p]
                       /\ pc'[p] = "pipeclose" /\ CallIs(call'[p], call[p].op, None, call[p].f1)
                       /\ call'[p].page = file[f].page /\ call'[p].writable = file[f].writable
                       /\ call'[p].fd = call[p].fd
<1> DEFINE f == call[p].f0
           c == [call[p] EXCEPT !.f0 = None, !.page = file[f].page, !.writable = file[f].writable]
<1>1. pc[p] = "fileclose" /\ UNCHANGED pipe
  BY DEF FileClose, At
<1>2. f \in File /\ (call[p].op = "exit" => call[p].fd \in FD)
  BY <1>1 DEF CallOK
<1>3. file \in [File -> FileSet]
  BY TypeIs
<1>4. CASE file[f].ref > 1 /\ file' = [file EXCEPT ![f].ref = file[f].ref - 1] /\ AfterClose(p)
  BY <1>1, <1>2, <1>4, AfterCloseDoes, CountedIs
<1>5. CASE file[f].ref = 1 /\ file[f].page = None /\ file' = [file EXCEPT ![f] = FreeFile] /\ AfterClose(p)
  BY <1>1, <1>2, <1>3, <1>5, AfterCloseDoes
<1>6. CASE /\ file[f].ref = 1 /\ file[f].page # None /\ file' = [file EXCEPT ![f] = FreeFile]
           /\ Calls(p, c, "pipeclose") /\ UNCHANGED ofile
  <2>1. /\ CallIs(c, call[p].op, None, call[p].f1) /\ c.fd = call[p].fd
        /\ c.page = file[f].page /\ c.writable = file[f].writable
    <3>1. call[p] \in CallSet
      BY CallTypes
    <3>2. c = [call[p] EXCEPT !.f0 = None, !.page = file[f].page, !.writable = file[f].writable]
      OBVIOUS
    <3> HIDE DEF c
    <3>3. QED
      BY <3>1, <3>2 DEF CallIs, CallSet
  <2> HIDE DEF c
  <2>2. pc'[p] = "pipeclose" /\ call'[p] = c /\ OnlyRow(p) /\ ofile'[p] = ofile[p]
    BY <1>6, Written DEF OnlyRow, Same
  <2>3. file'[f] = FreeFile /\ \A g \in File \ {f} : file'[g] = file[g]
    BY <1>2, <1>3, <1>6
  <2>4. QED
    BY <1>1, <1>2, <1>6, <2>1, <2>2, <2>3
<1>7. QED
  BY <1>4, <1>5, <1>6 DEF FileClose, Emptied

LEMMA PipeCloseDoes ==
    ASSUME TypeOK, NEW p \in Process, CallOK(p), PipeClose(p)
    PROVE  LET c == call[p].page
               r == pipe[c].readopen /\ call[p].writable
               w == pipe[c].writeopen /\ ~call[p].writable
           IN
           /\ pc[p] = "pipeclose" /\ c \in Page /\ UNCHANGED file
           /\ pipe'[c].alloc = pipe[c].alloc /\ pipe'[c].readopen = r /\ pipe'[c].writeopen = w
           /\ \A d \in Page \ {c} : pipe'[d] = pipe[d]
           /\ \/ ~r /\ ~w /\ pc'[p] = "kfree" /\ OnlyRow(p) /\ call'[p] = call[p] /\ ofile'[p] = ofile[p]
              \/ (r \/ w) /\ Continues(p)
<1> DEFINE c == call[p].page
           r == pipe[c].readopen /\ call[p].writable
           w == pipe[c].writeopen /\ ~call[p].writable
<1>1. /\ pc[p] = "pipeclose" /\ UNCHANGED file
      /\ pipe' = [pipe EXCEPT ![c].readopen = r, ![c].writeopen = w]
  BY DEF PipeClose, At
<1>2. c \in Page /\ (call[p].op = "exit" => call[p].fd \in FD)
  BY <1>1 DEF CallOK
<1>3. \/ ~r /\ ~w /\ pc'[p] = "kfree" /\ OnlyRow(p) /\ call'[p] = call[p] /\ ofile'[p] = ofile[p]
      \/ (r \/ w) /\ Continues(p)
  <2>1. CASE ~r /\ ~w /\ Goto(p, "kfree") /\ UNCHANGED <<call, ofile>>
    <3>1. pc \in [Process -> Points]
      BY TypeIs
    <3>2. QED
      BY <2>1, <3>1 DEF Goto, OnlyRow, Same
  <2>2. CASE (r \/ w) /\ AfterClose(p)
    BY <1>2, <2>2, AfterCloseDoes
  <2>3. QED
    BY <2>1, <2>2 DEF PipeClose, LastEnd
<1>4. /\ pipe'[c].alloc = pipe[c].alloc /\ pipe'[c].readopen = r /\ pipe'[c].writeopen = w
      /\ \A d \in Page \ {c} : pipe'[d] = pipe[d]
  <2> HIDE DEF r, w, c
  <2>1. pipe \in [Page -> PageSet]
    BY TypeIs
  <2>2. /\ pipe'[c] = [pipe[c] EXCEPT !.readopen = r, !.writeopen = w]
        /\ \A d \in Page \ {c} : pipe'[d] = pipe[d]
    BY <1>1, <1>2, <2>1
  <2>3. pipe[c] \in PageSet
    BY <1>2, <2>1
  <2>4. QED
    BY <2>2, <2>3 DEF PageSet
<1>5. QED
  BY <1>1, <1>2, <1>3, <1>4

LEMMA KfreeDoes ==
    ASSUME TypeOK, NEW p \in Process, CallOK(p), Kfree(p)
    PROVE  LET c == call[p].page IN
           /\ pc[p] = "kfree" /\ c \in Page /\ UNCHANGED file /\ Continues(p)
           /\ pipe'[c] = FreePage /\ \A d \in Page \ {c} : pipe'[d] = pipe[d]
<1> DEFINE c == call[p].page
<1>1. pc[p] = "kfree" /\ UNCHANGED file /\ pipe' = [pipe EXCEPT ![c] = FreePage] /\ AfterClose(p)
  BY DEF Kfree, At
<1>2. c \in Page /\ (call[p].op = "exit" => call[p].fd \in FD)
  BY <1>1 DEF CallOK
<1>3. pipe \in [Page -> PageSet]
  BY TypeIs
<1> HIDE DEF c
<1>4. pipe'[c] = FreePage /\ \A d \in Page \ {c} : pipe'[d] = pipe[d]
  BY <1>1, <1>2, <1>3
<1>5. Continues(p)
  BY <1>1, <1>2, AfterCloseDoes
<1>6. QED
  BY <1>1, <1>2, <1>4, <1>5 DEF c

LEMMA SysIoDoes ==
    ASSUME TypeOK, NEW p \in Process, NEW fd \in FD, SysIo(p, fd)
    PROVE  LET f == ofile[p][fd] IN
           /\ pc[p] = "user" /\ OnlyRow(p) /\ UNCHANGED <<file, pipe, ofile>> /\ f \in File
           /\ pc'[p] = "io" /\ CallIs(call'[p], "io", None, None)
           /\ call'[p].page = file[f].page /\ call'[p].writable = file[f].writable
<1> DEFINE f == ofile[p][fd]
           c == [NoCall EXCEPT !.op = "io", !.page = file[f].page, !.writable = file[f].writable]
<1>1. pc[p] = "user" /\ UNCHANGED <<file, pipe, ofile>> /\ f \in File /\ Calls(p, c, "io")
  BY TypeIs DEF SysIo, At, Open
<1>2. CallIs(c, "io", None, None) /\ c.page = file[f].page /\ c.writable = file[f].writable
  BY DEF CallIs, NoCall
<1> HIDE DEF c
<1>3. QED
  BY <1>1, <1>2, Written DEF OnlyRow, Same

LEMMA IoDoneDoes ==
    ASSUME TypeOK, NEW p \in Process, IoDone(p)
    PROVE  pc[p] = "io" /\ OnlyRow(p) /\ UNCHANGED <<file, pipe, ofile>> /\ Idle(p)
<1>1. pc[p] = "io" /\ UNCHANGED <<file, pipe, ofile>> /\ Return(p)
  BY DEF IoDone, At
<1>2. QED
  BY <1>1, Written DEF OnlyRow, Same, Return, Idle

-----------------------------------------------------------------------------
(* The calls.                                                              *)

(* Who has not moved is as well off as before.                             *)
LEMMA SameCall ==
    ASSUME NEW q \in Process, Same(q), CallOK(q)
    PROVE  CallOK(q)'
BY DEF Same, CallOK

LEMMA IdleCall ==
    ASSUME NEW p \in Process, Idle(p)
    PROVE  CallOK(p)'
BY DEF Idle, CallOK

LEMMA ContinuesCall ==
    ASSUME TypeOK, NEW p \in Process, CallOK(p), Continues(p),
           pc[p] \in {"fileclose", "pipeclose", "kfree"}
    PROVE  CallOK(p)'
<1>1. /\ call[p].op \in {"pipe", "close", "exit"} /\ (call[p].op # "pipe" => call[p].f1 = None)
      /\ call[p].f1 \in File \cup {None}
  BY CallTypes, CallFields DEF CallOK
<1>2. CASE /\ call[p].f1 # None /\ ofile'[p] = ofile[p]
           /\ pc'[p] = "fileclose" /\ CallIs(call'[p], call[p].op, call[p].f1, None) /\ call'[p].fd = call[p].fd
  BY <1>1, <1>2 DEF CallOK, CallIs
<1>3. CASE pc'[p] = "exit" /\ call'[p] = [NoCall EXCEPT !.op = "exit"]
  BY <1>3 DEF CallOK
<1>4. CASE Idle(p)
  BY <1>4, IdleCall
<1>5. QED
  BY <1>2, <1>3, <1>4 DEF Continues

LEMMA CallStep ==
    ASSUME IInv, NEW p \in Process, Step(p)
    PROVE  \A q \in Process : CallOK(q)'
<1>0. TypeOK /\ CallOK(p) /\ ForkOK(p) /\ (call[p].f1 # None => call[p].f0 # call[p].f1)
  BY DEF IInv, FilesOK
<1>1. \A q \in Process : CallOK(q)
  BY DEF IInv
<1>2. ASSUME OnlyRow(p), CallOK(p)' PROVE \A q \in Process : CallOK(q)'
  BY <1>1, <1>2, SameCall DEF OnlyRow
<1>3. CASE SysPipe(p)
  <2>1. CallOK(p)' /\ OnlyRow(p)
    BY <1>0, <1>3, SysPipeDoes, IdleCall DEF CallOK, CallIs
  <2>2. QED
    BY <1>2, <2>1
<1>4. CASE SecondFile(p)
  <2>1. CallOK(p)' /\ OnlyRow(p)
    BY <1>0, <1>4, SecondFileDoes DEF CallOK, CallIs
  <2>2. QED
    BY <1>2, <2>1
<1>5. CASE Kalloc(p)
  <2>1. CallOK(p)' /\ OnlyRow(p)
    BY <1>0, <1>5, KallocDoes DEF CallOK, CallIs
  <2>2. QED
    BY <1>2, <2>1
<1>6. CASE FdAlloc(p)
  <2>1. CallOK(p)' /\ OnlyRow(p)
    BY <1>0, <1>6, FdAllocDoes, IdleCall DEF CallOK, CallIs
  <2>2. QED
    BY <1>2, <2>1
<1>7. CASE \E fd \in FD : SysDup(p, fd)
  <2>1. PICK fd \in FD : SysDup(p, fd)
    BY <1>7
  <2>2. /\ OnlyRow(p) /\ ofile[p][fd] \in File
        /\ \/ Idle(p)
           \/ \E x \in FD \ Open(p) :
                /\ pc'[p] = "filedup" /\ CallIs(call'[p], "dup", ofile[p][fd], None) /\ call'[p].fd = x
                /\ ofile'[p][x] = ofile[p][fd] /\ \A y \in FD \ {x} : ofile'[p][y] = ofile[p][y]
    BY <1>0, <2>1, SysDupDoes
  <2>3. fd \in Open(p)
    BY <2>1 DEF SysDup
  <2>4. CallOK(p)'
    BY <2>2, <2>3, IdleCall DEF CallOK, CallIs
  <2>5. QED
    BY <1>2, <2>2, <2>4
<1>8. CASE DupCount(p)
  BY <1>0, <1>2, <1>8, DupCountDoes, IdleCall
<1>9. CASE \E q \in Process : Fork(p, q)
  <2>1. PICK q \in Process : Fork(p, q)
    BY <1>9
  <2>2. /\ pc[q] = "unused" /\ pc'[p] = "fork" /\ CallIs(call'[p], "fork", None, None)
        /\ pc'[q] = "embryo" /\ call'[q] = call[q] /\ \A r \in Process \ {p, q} : Same(r)
    BY <1>0, <2>1, ForkDoes
  <2>3. CallOK(p)' /\ CallOK(q)'
    BY <1>1, <2>2 DEF CallOK, CallIs
  <2>4. QED
    BY <1>1, <2>2, <2>3, SameCall
<1>10. CASE ForkFile(p)
  <2>1. PICK q \in Process \ {p} :
           /\ pc[p] = "fork" /\ q = call[p].child /\ UNCHANGED pc
           /\ CallIs(call'[p], call[p].op, call[p].f0, call[p].f1)
           /\ call'[q] = call[q] /\ \A r \in Process \ {p, q} : Same(r)
    BY <1>0, <1>10, ForkFileDoes
  <2>2. pc[q] = "embryo"
    BY <1>0, <2>1 DEF ForkOK
  <2>3. CallOK(p)' /\ CallOK(q)'
    BY <1>1, <2>1, <2>2 DEF CallOK, CallIs
  <2>4. QED
    BY <1>1, <2>1, <2>3, SameCall
<1>11. CASE ForkDone(p)
  <2>1. PICK q \in Process \ {p} :
           /\ pc[q] = "embryo"
           /\ Idle(p) /\ pc'[q] = "user" /\ call'[q] = call[q] /\ \A r \in Process \ {p, q} : Same(r)
    BY <1>0, <1>11, ForkDoneDoes
  <2>2. CallOK(p)' /\ CallOK(q)'
    BY <1>1, <2>1, IdleCall DEF CallOK
  <2>3. QED
    BY <1>1, <2>1, <2>2, SameCall
<1>12. CASE \E fd \in FD : SysClose(p, fd)
  <2>1. PICK fd \in FD : SysClose(p, fd)
    BY <1>12
  <2>2. CallOK(p)' /\ OnlyRow(p)
    BY <1>0, <2>1, SysCloseDoes DEF CallOK, CallIs
  <2>3. QED
    BY <1>2, <2>2
<1>13. CASE Exit(p) \/ ExitDone(p) \/ IoDone(p)
  <2>1. CallOK(p)' /\ OnlyRow(p)
    BY <1>0, <1>13, ExitDoes, ExitDoneDoes, IoDoneDoes, IdleCall DEF CallOK
  <2>2. QED
    BY <1>2, <2>1
<1>14. CASE ExitFile(p)
  <2>1. call[p].op = "exit" /\ call[p].f1 = None
    BY <1>0, <1>14, ExitFileDoes, ExitCall DEF CallOK, CallIs
  <2>2. CallOK(p)' /\ OnlyRow(p)
    BY <1>0, <1>14, <2>1, ExitFileDoes DEF CallOK, CallIs
  <2>3. QED
    BY <1>2, <2>2
<1>15. CASE FileClose(p)
  <2>1. pc[p] = "fileclose"
    BY <1>0, <1>15, FileCloseDoes
  <2>2. CASE Continues(p)
    BY <1>0, <1>2, <2>1, <2>2, ContinuesCall DEF Continues
  <2>3. CASE ~Continues(p)
    <3> DEFINE f == call[p].f0
    <3>1. /\ f \in File /\ file[f].page # None /\ OnlyRow(p) /\ ofile'[p] = ofile[p]
          /\ pc'[p] = "pipeclose" /\ CallIs(call'[p], call[p].op, None, call[p].f1)
          /\ call'[p].page = file[f].page /\ call'[p].fd = call[p].fd
      BY <1>0, <1>15, <2>3, FileCloseDoes
    <3>2. file[f].page \in Page
      BY <1>0, <3>1, TypeIs DEF FileSet
    <3>3. CallOK(p)'
      BY <1>0, <2>1, <3>1, <3>2 DEF CallOK, CallIs
    <3>4. QED
      BY <1>2, <3>1, <3>3
  <2>4. QED
    BY <2>2, <2>3
<1>16. CASE PipeClose(p)
  <2>1. pc[p] = "pipeclose"
    BY <1>0, <1>16, PipeCloseDoes
  <2>2. CASE Continues(p)
    BY <1>0, <1>2, <2>1, <2>2, ContinuesCall DEF Continues
  <2>3. CASE ~Continues(p)
    <3>1. pc'[p] = "kfree" /\ OnlyRow(p) /\ call'[p] = call[p] /\ ofile'[p] = ofile[p]
      BY <1>0, <1>16, <2>3, PipeCloseDoes
    <3>2. CallOK(p)'
      BY <1>0, <2>1, <3>1 DEF CallOK
    <3>3. QED
      BY <1>2, <3>1, <3>2
  <2>4. QED
    BY <2>2, <2>3
<1>17. CASE Kfree(p)
  BY <1>0, <1>2, <1>17, KfreeDoes, ContinuesCall DEF Continues
<1>18. CASE \E fd \in FD : SysIo(p, fd)
  <2>1. PICK fd \in FD : SysIo(p, fd)
    BY <1>18
  <2>2. CallOK(p)' /\ OnlyRow(p)
    BY <1>0, <2>1, SysIoDoes DEF CallOK, CallIs
  <2>3. QED
    BY <1>2, <2>2
<1>19. QED
  BY <1>3, <1>4, <1>5, <1>6, <1>7, <1>8, <1>9, <1>10, <1>11, <1>12, <1>13, <1>14, <1>15, <1>16, <1>17, <1>18 DEF Step

-----------------------------------------------------------------------------
(* fork.                                                                   *)

Forks(p) == ForkFile(p) \/ ForkDone(p) \/ \E q \in Process : Fork(p, q)

(* The other steps concern the process that takes them, and are never the  *)
(* step of a child that fork is making.                                    *)
LEMMA OwnStep ==
    ASSUME TypeOK, NEW p \in Process, CallOK(p), call[p].f1 # None => call[p].f0 # call[p].f1, Step(p), ~Forks(p)
    PROVE  /\ OnlyRow(p) /\ pc[p] \notin {"unused", "embryo", "fork"} /\ pc'[p] \notin {"embryo", "fork"}
           /\ pc'[p] = "unused" => Open(p) = {} /\ ofile'[p] = ofile[p]
<1> DEFINE Goal == /\ OnlyRow(p) /\ pc[p] \notin {"unused", "embryo", "fork"} /\ pc'[p] \notin {"embryo", "fork"}
                   /\ pc'[p] = "unused" => Open(p) = {} /\ ofile'[p] = ofile[p]
<1>0. ASSUME Continues(p) PROVE OnlyRow(p) /\ pc'[p] \in {"fileclose", "exit", "user"}
  BY <1>0 DEF Continues, Idle
<1>1. CASE SysPipe(p) \/ SecondFile(p) \/ Kalloc(p) \/ FdAlloc(p)
  BY <1>1, SysPipeDoes, SecondFileDoes, KallocDoes, FdAllocDoes DEF Idle
<1>2. CASE DupCount(p) \/ Exit(p) \/ ExitFile(p) \/ ExitDone(p) \/ IoDone(p)
  BY <1>2, DupCountDoes, ExitDoes, ExitFileDoes, ExitDoneDoes, IoDoneDoes DEF Idle
<1>3. CASE \E fd \in FD : SysDup(p, fd)
  <2>1. PICK fd \in FD : SysDup(p, fd)
    BY <1>3
  <2>2. QED
    BY <2>1, SysDupDoes DEF Idle
<1>4. CASE \E fd \in FD : SysClose(p, fd) \/ SysIo(p, fd)
  <2>1. PICK fd \in FD : SysClose(p, fd) \/ SysIo(p, fd)
    BY <1>4
  <2>2. QED
    BY <2>1, SysCloseDoes, SysIoDoes
<1>5. CASE FileClose(p)
  <2>1. pc[p] = "fileclose" /\ OnlyRow(p) /\ pc'[p] \in {"fileclose", "exit", "user", "pipeclose"}
    BY <1>0, <1>5, FileCloseDoes
  <2>2. QED
    BY <2>1
<1>6. CASE PipeClose(p)
  <2>1. pc[p] = "pipeclose" /\ OnlyRow(p) /\ pc'[p] \in {"fileclose", "exit", "user", "kfree"}
    BY <1>0, <1>6, PipeCloseDoes
  <2>2. QED
    BY <2>1
<1>7. CASE Kfree(p)
  <2>1. pc[p] = "kfree" /\ OnlyRow(p) /\ pc'[p] \in {"fileclose", "exit", "user"}
    BY <1>0, <1>7, KfreeDoes
  <2>2. QED
    BY <2>1
<1>8. QED
  BY <1>1, <1>2, <1>3, <1>4, <1>5, <1>6, <1>7 DEF Step, Forks

LEMMA ForkStep ==
    ASSUME IInv, NEW p \in Process, Step(p)
    PROVE  \A q \in Process : ForkOK(q)'
<1>0. TypeOK /\ CallOK(p) /\ ForkOK(p) /\ (call[p].f1 # None => call[p].f0 # call[p].f1)
  BY DEF IInv, FilesOK
<1>1. \A q \in Process : ForkOK(q)
  BY DEF IInv
<1>2. CASE ~Forks(p)
  <2>1. /\ OnlyRow(p) /\ pc[p] \notin {"unused", "embryo", "fork"} /\ pc'[p] \notin {"embryo", "fork"}
        /\ pc'[p] = "unused" => Open(p) = {} /\ ofile'[p] = ofile[p]
    BY <1>0, <1>2, OwnStep
  <2>2. ForkOK(p)'
    BY <2>1 DEF ForkOK, Open
  <2>3. ASSUME NEW q \in Process \ {p} PROVE ForkOK(q)'
    <3>1. Same(q) /\ ForkOK(q)
      BY <1>1, <2>1 DEF OnlyRow
    <3>2. CASE pc[q] = "fork"
      <4>1. PICK c \in Process : /\ c = call[q].child /\ pc[c] = "embryo" /\ \A fd \in Open(c) : fd < call[q].fd
                                 /\ \A r \in Process \ {q} : pc[r] = "fork" => call[r].child # c
        BY <3>1, <3>2 DEF ForkOK
      <4>2. c # p /\ Same(c)
        BY <2>1, <4>1 DEF OnlyRow
      <4>3. \A r \in Process \ {q} : pc'[r] = "fork" => call'[r].child # c
        BY <2>1, <4>1 DEF OnlyRow, Same
      <4>4. QED
        BY <3>1, <3>2, <4>1, <4>2, <4>3 DEF ForkOK, Same, Open
    <3>3. CASE pc[q] # "fork"
      BY <3>1, <3>3 DEF ForkOK, Same, Open
    <3>4. QED
      BY <3>2, <3>3
  <2>4. QED
    BY <2>2, <2>3
<1>3. CASE \E q \in Process : Fork(p, q)
  <2>1. PICK q \in Process : Fork(p, q)
    BY <1>3
  <2>2. /\ pc[p] = "user" /\ pc[q] = "unused" /\ p # q /\ UNCHANGED ofile
        /\ pc'[p] = "fork" /\ call'[p].child = q
        /\ pc'[q] = "embryo" /\ call'[q] = call[q] /\ \A r \in Process \ {p, q} : Same(r)
    BY <1>0, <2>1, ForkDoes
  <2>3. \A r \in Process \ {p, q} : pc'[r] = "fork" =>
          /\ call'[r] = call[r] /\ ForkOK(r) /\ pc[r] = "fork" /\ call[r].child \notin {p, q}
    BY <1>1, <2>2 DEF Same, ForkOK
  <2>4. Open(q) = {}
    BY <1>1, <2>2 DEF ForkOK
  <2>5. ForkOK(p)'
    BY <2>2, <2>3, <2>4 DEF ForkOK, Open
  <2>6. ForkOK(q)'
    BY <2>2 DEF ForkOK
  <2>7. ASSUME NEW r \in Process \ {p, q} PROVE ForkOK(r)'
    BY <1>1, <2>2, <2>3, <2>7 DEF ForkOK, Open, Same
  <2>8. QED
    BY <2>5, <2>6, <2>7
<1>4. CASE ForkFile(p)
  <2>1. PICK q \in Process \ {p}, fd \in FD :
           /\ pc[p] = "fork" /\ q = call[p].child /\ UNCHANGED pc /\ call'[p].child = q
           /\ call'[q] = call[q] /\ ofile'[p] = ofile[p] /\ \A r \in Process \ {p, q} : Same(r)
           /\ fd >= call[p].fd /\ call'[p].fd = fd + 1
           /\ \A x \in FD \ {fd} : ofile'[q][x] = ofile[q][x]
    BY <1>0, <1>4, ForkFileDoes
  <2>2. pc[q] = "embryo" /\ \A r \in Process \ {p} : pc[r] = "fork" => call[r].child # q
    BY <1>0, <2>1 DEF ForkOK
  <2>3. ForkOK(p)'
    <3>1. \A x \in Open(q)' : x < fd + 1
      <4>1. \A x \in Open(q)' : x = fd \/ x \in Open(q)
        BY <2>1 DEF Open
      <4>2. \A x \in Open(q) : x < call[p].fd /\ x \in FD
        BY <1>0, <2>1 DEF ForkOK, Open
      <4>3. call[p].fd \in Nat
        <5>1. call[p].fd \in 0 .. NOFILE
          BY <1>0, CallTypes, CallFields
        <5>2. QED
          BY <5>1
      <4>4. QED
        BY <2>1, <4>1, <4>2, <4>3 DEF FD
    <3>2. \A r \in Process \ {p} : pc'[r] = "fork" => call'[r].child # q
      BY <2>1, <2>2 DEF Same
    <3>3. QED
      BY <2>1, <2>2, <3>1, <3>2 DEF ForkOK
  <2>4. ForkOK(q)'
    BY <2>1, <2>2 DEF ForkOK
  <2>5. ASSUME NEW r \in Process \ {p, q} PROVE ForkOK(r)'
    <3>1. pc[r] = "fork" => call[r].child \in Process \ {p, q}
      BY <1>1, <2>1, <2>2 DEF ForkOK
    <3>2. Same(r) /\ ForkOK(r)
      BY <1>1, <2>1
    <3>3. pc[r] = "fork" => \A s \in Process \ {r} : pc'[s] = "fork" => call'[s].child # call'[r].child
      BY <2>1, <3>1, <3>2 DEF ForkOK, Same
    <3>4. QED
      BY <2>1, <3>1, <3>2, <3>3 DEF ForkOK, Same, Open
  <2>6. QED
    BY <2>3, <2>4, <2>5
<1>5. CASE ForkDone(p)
  <2>1. PICK q \in Process \ {p} :
           /\ pc[p] = "fork" /\ q = call[p].child /\ UNCHANGED ofile
           /\ Idle(p) /\ pc'[q] = "user" /\ call'[q] = call[q] /\ \A r \in Process \ {p, q} : Same(r)
    BY <1>0, <1>5, ForkDoneDoes
  <2>2. ForkOK(p)' /\ ForkOK(q)'
    BY <2>1 DEF ForkOK, Idle
  <2>3. ASSUME NEW r \in Process \ {p, q} PROVE ForkOK(r)'
    <3>1. pc[r] = "fork" => call[r].child \in Process \ {p, q}
      BY <1>0, <1>1, <2>1 DEF ForkOK
    <3>2. Same(r) /\ ForkOK(r)
      BY <1>1, <2>1
    <3>3. QED
      BY <2>1, <3>1, <3>2 DEF ForkOK, Same, Open, Idle
  <2>4. QED
    BY <2>2, <2>3
<1>6. QED
  BY <1>2, <1>3, <1>4, <1>5 DEF Forks

-----------------------------------------------------------------------------
(* The references.                                                         *)

Balanced(p, f) == file'[f].ref + Refs(p, f) = file[f].ref + Refs(p, f)'

LEMMA SameRefs ==
    ASSUME NEW q \in Process, NEW f, Same(q)
    PROVE  SameHolds(q, f)
BY DEF Same, SameHolds, Fds, FirstOf, SecondOf, Stale

LEMMA RefsKept ==
    ASSUME RefsAreHolders, TypeOK, TypeOK', NEW p \in Process,
           \A q \in Process \ {p}, f \in File : SameHolds(q, f), \A f \in File : Balanced(p, f)
    PROVE  RefsAreHolders'
<1> SUFFICES ASSUME NEW f \in File PROVE file'[f].ref = Count(f)'
  BY DEF RefsAreHolders, Count
<1>1. file[f].ref = Count(f)
  BY DEF RefsAreHolders, Count
<1>2. Count(f)' + Refs(p, f) = Count(f) + Refs(p, f)'
  BY CountMoves
<1>3. Count(f)' \in Nat /\ Refs(p, f) \in Nat
  BY CountSplit, CountSplitNext
<1>4. file'[f].ref \in Nat
  BY TypeIsNext DEF FileSet
<1>5. QED
  BY <1>1, <1>2, <1>3, <1>4, CountSplit DEF Balanced

LEMMA SameRow ==
    ASSUME RefsAreHolders, TypeOK, TypeOK', NEW p \in Process, OnlyRow(p), \A f \in File : Balanced(p, f)
    PROVE  RefsAreHolders'
BY RefsKept, SameRefs DEF OnlyRow

LEMMA FdsCounts ==
    ASSUME NEW p \in Process, NEW f, NEW x
    PROVE  /\ Cardinality(Fds(p, f)) \in Nat /\ Cardinality(Fds(p, f)') \in Nat
           /\ x \notin Fds(p, f) /\ Fds(p, f)' = Fds(p, f) \cup {x} => Cardinality(Fds(p, f)') = Cardinality(Fds(p, f)) + 1
           /\ x \in Fds(p, f) /\ Fds(p, f)' = Fds(p, f) \ {x} => Cardinality(Fds(p, f)) = Cardinality(Fds(p, f)') + 1
<1>1. IsFiniteSet(Fds(p, f)) /\ IsFiniteSet(Fds(p, f)')
  <2>1. Fds(p, f) \in SUBSET FD /\ Fds(p, f)' \in SUBSET FD
    BY DEF Fds
  <2>2. QED
    BY <2>1, FiniteFD, FS_Subset
<1>2. Cardinality(Fds(p, f)) \in Nat /\ Cardinality(Fds(p, f)') \in Nat
  BY <1>1, FS_CardinalityType
<1>3. x \notin Fds(p, f) => Cardinality(Fds(p, f) \cup {x}) = Cardinality(Fds(p, f)) + 1
  BY <1>1, FS_AddElement
<1>4. x \in Fds(p, f) => Cardinality(Fds(p, f) \ {x}) = Cardinality(Fds(p, f)) - 1
  BY <1>1, FS_RemoveElement
<1>5. x \notin Fds(p, f) /\ Fds(p, f)' = Fds(p, f) \cup {x} => Cardinality(Fds(p, f)') = Cardinality(Fds(p, f)) + 1
  BY <1>3
<1>6. ASSUME x \in Fds(p, f), Fds(p, f)' = Fds(p, f) \ {x} PROVE Cardinality(Fds(p, f)) = Cardinality(Fds(p, f)') + 1
  <2>1. Cardinality(Fds(p, f)') = Cardinality(Fds(p, f)) - 1
    BY <1>4, <1>6, Zenon
  <2>2. QED
    BY <1>2, <2>1
<1>7. QED
  BY <1>2, <1>5, <1>6

(* What p has in hand.                                                     *)
First(p, f)  == call[p].f0 = f /\ call[p].op \in {"pipe", "close"}
Second(p, f) == call[p].f1 = f

LEMMA RefsIs ==
    ASSUME NEW p \in Process, NEW f
    PROVE  /\ Refs(p, f) = Cardinality(Fds(p, f)) + One(First(p, f)) + One(Second(p, f))
           /\ Refs(p, f)' = Cardinality(Fds(p, f)') + One(First(p, f)') + One(Second(p, f)')
<1>1. (p \in FirstOf(f) <=> First(p, f)) /\ (p \in SecondOf(f) <=> Second(p, f))
  BY DEF FirstOf, SecondOf, First, Second
<1>2. (p \in FirstOf(f)' <=> First(p, f)') /\ (p \in SecondOf(f)' <=> Second(p, f)')
  BY DEF FirstOf, SecondOf, First, Second
<1>3. QED
  BY <1>1, <1>2 DEF Refs, One

(* The ways in which what p has and the count of f balance.                *)
LEMMA Balance ==
    ASSUME NEW p \in Process, NEW f \in File, TypeOK, TypeOK'
    PROVE  /\ /\ file'[f].ref = file[f].ref /\ Fds(p, f)' = Fds(p, f)
              /\ First(p, f)' <=> First(p, f)
              /\ Second(p, f)' <=> Second(p, f)
              => Balanced(p, f)
           /\ /\ file'[f].ref = file[f].ref /\ Fds(p, f)' = Fds(p, f)
              /\ ~First(p, f) /\ First(p, f)' /\ Second(p, f) /\ ~Second(p, f)'
              => Balanced(p, f)
           /\ \A x : /\ file'[f].ref = file[f].ref /\ x \notin Fds(p, f) /\ Fds(p, f)' = Fds(p, f) \cup {x}
                     /\ \/ First(p, f) /\ ~First(p, f)' /\ ~Second(p, f) /\ ~Second(p, f)'
                        \/ ~First(p, f) /\ ~First(p, f)' /\ Second(p, f) /\ ~Second(p, f)'
                     => Balanced(p, f)
           /\ \A x : /\ file'[f].ref = file[f].ref /\ x \in Fds(p, f) /\ Fds(p, f)' = Fds(p, f) \ {x}
                     /\ ~First(p, f) /\ First(p, f)' /\ ~Second(p, f) /\ ~Second(p, f)'
                     => Balanced(p, f)
           /\ /\ file'[f].ref = file[f].ref + 1 /\ Fds(p, f)' = Fds(p, f)
              /\ \/ ~First(p, f) /\ First(p, f)' /\ ~Second(p, f) /\ ~Second(p, f)'
                 \/ ~First(p, f) /\ ~First(p, f)' /\ ~Second(p, f) /\ Second(p, f)'
              => Balanced(p, f)
           /\ \A x : /\ file'[f].ref = file[f].ref + 1 /\ x \notin Fds(p, f) /\ Fds(p, f)' = Fds(p, f) \cup {x}
                     /\ First(p, f)' <=> First(p, f)
                     /\ Second(p, f)' <=> Second(p, f)
                     => Balanced(p, f)
           /\ /\ file'[f].ref = file[f].ref - 1 /\ Fds(p, f)' = Fds(p, f)
              /\ First(p, f) /\ ~First(p, f)' /\ (Second(p, f)' <=> Second(p, f))
              => Balanced(p, f)
           /\ \A x : /\ file'[f].ref = file[f].ref - 1 /\ x \in Fds(p, f) /\ Fds(p, f)' = Fds(p, f) \ {x}
                     /\ First(p, f)' <=> First(p, f)
                     /\ Second(p, f)' <=> Second(p, f)
                     => Balanced(p, f)
<1>1. file[f].ref \in Nat /\ file'[f].ref \in Nat
  BY TypeIs, TypeIsNext DEF FileSet
<1> DEFINE n == Cardinality(Fds(p, f))
           m == Cardinality(Fds(p, f)')
<1>2. n \in Nat /\ m \in Nat
  BY FdsCounts
<1>3. Refs(p, f) = n + One(First(p, f)) + One(Second(p, f)) /\ Refs(p, f)' = m + One(First(p, f)') + One(Second(p, f)')
  BY RefsIs
<1>4. Fds(p, f)' = Fds(p, f) => m = n
  OBVIOUS
<1>5. \A x : x \notin Fds(p, f) /\ Fds(p, f)' = Fds(p, f) \cup {x} => m = n + 1
  BY FdsCounts
<1>6. \A x : x \in Fds(p, f) /\ Fds(p, f)' = Fds(p, f) \ {x} => n = m + 1
  BY FdsCounts
<1> DEFINE a == One(First(p, f))
           b == One(Second(p, f))
           c == One(First(p, f)')
           d == One(Second(p, f)')
<1>7. /\ (First(p, f) /\ a = 1) \/ (~First(p, f) /\ a = 0)
      /\ (Second(p, f) /\ b = 1) \/ (~Second(p, f) /\ b = 0)
      /\ (First(p, f)' /\ c = 1) \/ (~First(p, f)' /\ c = 0)
      /\ (Second(p, f)' /\ d = 1) \/ (~Second(p, f)' /\ d = 0)
  BY DEF One
<1>8. file'[f].ref + n + a + b = file[f].ref + m + c + d => Balanced(p, f)
  <2> HIDE DEF n, m, a, b, c, d
  <2>1. Refs(p, f) = n + a + b /\ Refs(p, f)' = m + c + d
    BY <1>3 DEF n, m, a, b, c, d
  <2>2. QED
    BY <1>1, <1>2, <1>7, <2>1 DEF Balanced
<1> HIDE DEF n, m, a, b, c, d
<1>9. QED
  BY <1>1, <1>2, <1>4, <1>5, <1>6, <1>7, <1>8

(* A file is held while it is in hand, and a stale descriptor is not held. *)
LEMMA FdsIs ==
    ASSUME NEW p \in Process, NEW f, NEW fd \in FD
    PROVE  /\ fd \in Fds(p, f) <=> ofile[p][fd] = f /\ ~Stale(p, fd)
           /\ fd \in Fds(p, f)' <=> ofile'[p][fd] = f /\ ~Stale(p, fd)'
           /\ Stale(p, fd) <=> fd = call[p].fd /\ (pc[p] = "filedup" \/ (call[p].op = "exit" /\ pc[p] \in {"pipeclose", "kfree"}))
           /\ Stale(p, fd)' <=> fd = call'[p].fd /\ (pc'[p] = "filedup" \/ (call'[p].op = "exit" /\ pc'[p] \in {"pipeclose", "kfree"}))
BY DEF Fds, Stale

LEMMA FdsSame ==
    ASSUME NEW p \in Process, NEW f, \A fd \in FD : fd \in Fds(p, f)' <=> fd \in Fds(p, f)
    PROVE  Fds(p, f)' = Fds(p, f)
BY DEF Fds

LEMMA FdsMore ==
    ASSUME NEW p \in Process, NEW f, NEW x \in FD, x \in Fds(p, f)',
           \A fd \in FD \ {x} : fd \in Fds(p, f)' <=> fd \in Fds(p, f)
    PROVE  /\ x \notin Fds(p, f) => Fds(p, f)' = Fds(p, f) \cup {x}
           /\ x \in Fds(p, f) => Fds(p, f)' = Fds(p, f)
BY DEF Fds

LEMMA FdsLess ==
    ASSUME NEW p \in Process, NEW f, NEW x \in FD, x \notin Fds(p, f)',
           \A fd \in FD \ {x} : fd \in Fds(p, f)' <=> fd \in Fds(p, f)
    PROVE  Fds(p, f)' = Fds(p, f) \ {x}
BY DEF Fds

(* A new file has its first reference in the hand of its maker.            *)
LEMMA NewFileRefs ==
    ASSUME IInv, TypeOK', NEW p \in Process, SysPipe(p) \/ SecondFile(p)
    PROVE  RefsAreHolders'
<1>0. TypeOK /\ CallOK(p) /\ RefsAreHolders
  BY DEF IInv
<1>1. CASE SysPipe(p)
  <2>1. pc[p] = "user" /\ OnlyRow(p) /\ ofile'[p] = ofile[p] /\ CallIs(call[p], "none", None, None)
    BY <1>0, <1>1, SysPipeDoes, Blank DEF CallOK
  <2>2. CASE Idle(p) /\ UNCHANGED file
    <3>1. ASSUME NEW f \in File PROVE Balanced(p, f)
      <4>1. Fds(p, f)' = Fds(p, f)
        BY <2>1, <2>2, FdsIs, FdsSame, Blank DEF CallIs, Idle
      <4>2. (First(p, f)' <=> First(p, f)) /\ (Second(p, f)' <=> Second(p, f))
        BY <2>1, <2>2, Blank DEF First, Second, CallIs, Idle
      <4>3. QED
        BY <1>0, <2>2, <4>1, <4>2, Balance
    <3>2. QED
      BY <1>0, <2>1, <3>1, SameRow
  <2>3. ASSUME NEW g \in File, file[g].ref = 0, Counted(g, 1), pc'[p] = "filealloc", CallIs(call'[p], "pipe", g, None)
        PROVE  RefsAreHolders'
    <3>1. ASSUME NEW f \in File PROVE Balanced(p, f)
      <4>1. Fds(p, f)' = Fds(p, f)
        BY <2>1, <2>3, FdsIs, FdsSame DEF CallIs
      <4>2. ~First(p, f) /\ ~Second(p, f) /\ ~Second(p, f)' /\ (First(p, f)' <=> f = g)
        BY <2>1, <2>3 DEF First, Second, CallIs
      <4>3. CASE f = g
        BY <1>0, <2>3, <4>1, <4>2, <4>3, Balance DEF Counted
      <4>4. CASE f # g
        BY <1>0, <2>3, <4>1, <4>2, <4>4, Balance DEF Counted
      <4>5. QED
        BY <4>3, <4>4
    <3>2. QED
      BY <1>0, <2>1, <3>1, SameRow
  <2>4. QED
    BY <1>0, <1>1, <2>2, <2>3, SysPipeDoes
<1>2. CASE SecondFile(p)
  <2>1. pc[p] = "filealloc" /\ OnlyRow(p) /\ ofile'[p] = ofile[p] /\ call[p].op = "pipe" /\ call[p].f1 = None
    BY <1>0, <1>2, SecondFileDoes DEF CallOK
  <2>2. CASE pc'[p] = "fileclose" /\ call'[p] = call[p] /\ UNCHANGED file
    <3>1. ASSUME NEW f \in File PROVE Balanced(p, f)
      <4>1. Fds(p, f)' = Fds(p, f)
        BY <2>1, <2>2, FdsIs, FdsSame
      <4>2. (First(p, f)' <=> First(p, f)) /\ (Second(p, f)' <=> Second(p, f))
        BY <2>2 DEF First, Second
      <4>3. QED
        BY <1>0, <2>2, <4>1, <4>2, Balance
    <3>2. QED
      BY <1>0, <2>1, <3>1, SameRow
  <2>3. ASSUME NEW g \in File, file[g].ref = 0, Counted(g, 1), pc'[p] = "kalloc", CallIs(call'[p], call[p].op, call[p].f0, g)
        PROVE  RefsAreHolders'
    <3>1. ASSUME NEW f \in File PROVE Balanced(p, f)
      <4>1. Fds(p, f)' = Fds(p, f)
        BY <2>1, <2>3, FdsIs, FdsSame DEF CallIs
      <4>2. (First(p, f)' <=> First(p, f)) /\ ~Second(p, f) /\ (Second(p, f)' <=> f = g)
        BY <2>1, <2>3 DEF First, Second, CallIs
      <4>3. CASE f = g
        <5>1. ~First(p, f)
          <6>1. p \notin FirstOf(f)
            BY <1>0, <2>3, <4>3, Holders DEF Holds
          <6>2. QED
            BY <6>1 DEF FirstOf, First
        <5>2. QED
          BY <1>0, <2>3, <4>1, <4>2, <4>3, <5>1, Balance DEF Counted
      <4>4. CASE f # g
        BY <1>0, <2>3, <4>1, <4>2, <4>4, Balance DEF Counted
      <4>5. QED
        BY <4>3, <4>4
    <3>2. QED
      BY <1>0, <2>1, <3>1, SameRow
  <2>4. QED
    BY <1>0, <1>2, <2>2, <2>3, SecondFileDoes
<1>3. QED
  BY <1>1, <1>2

(* Steps that leave the count of every file and what p has alone.          *)
LEMMA NoRefs ==
    ASSUME TypeOK, TypeOK', RefsAreHolders, NEW p \in Process, OnlyRow(p),
           \A f \in File : /\ file'[f].ref = file[f].ref /\ Fds(p, f)' = Fds(p, f)
                           /\ First(p, f)' <=> First(p, f)
                           /\ Second(p, f)' <=> Second(p, f)
    PROVE  RefsAreHolders'
BY Balance, SameRow

LEMMA QuietRefs ==
    ASSUME IInv, TypeOK', NEW p \in Process,
           Kalloc(p) \/ Exit(p) \/ ExitFile(p) \/ ExitDone(p) \/ IoDone(p) \/ \E fd \in FD : SysIo(p, fd)
    PROVE  RefsAreHolders'
<1>0. TypeOK /\ CallOK(p) /\ RefsAreHolders /\ (call[p].f1 # None => call[p].f0 # call[p].f1)
  BY DEF IInv, FilesOK
<1>1. CASE Kalloc(p)
  <2>1. pc[p] = "kalloc" /\ OnlyRow(p) /\ call'[p] = call[p] /\ ofile'[p] = ofile[p] /\ pc'[p] \in {"fdalloc", "fileclose"}
    BY <1>0, <1>1, KallocDoes
  <2>2. \A f \in File : file'[f].ref = file[f].ref
    BY <1>0, <1>1, KallocDoes DEF Piped
  <2>3. \A f \in File : Fds(p, f)' = Fds(p, f)
    BY <2>1, FdsIs, FdsSame
  <2>4. QED
    BY <1>0, <2>1, <2>2, <2>3, NoRefs DEF First, Second
<1>2. CASE Exit(p) \/ ExitFile(p) \/ ExitDone(p) \/ IoDone(p)
  <2>1. /\ OnlyRow(p) /\ UNCHANGED <<file, ofile>> /\ pc[p] \in {"user", "exit", "io"}
        /\ pc'[p] \in {"exit", "fileclose", "unused", "user"}
    BY <1>0, <1>2, ExitDoes, ExitFileDoes, ExitDoneDoes, IoDoneDoes DEF Idle
  <2>2. call[p].op \in {"none", "exit", "io"} /\ call[p].f1 = None
    BY <1>0, <2>1, Blank, ExitCall DEF CallOK, CallIs
  <2>3. call'[p].op \in {"none", "exit"} /\ call'[p].f1 = None
    <3>1. CASE ExitFile(p)
      <4>1. call[p].op = "exit"
        BY <1>0, <3>1, ExitFileDoes, ExitCall DEF CallOK, CallIs
      <4>2. QED
        BY <1>0, <2>2, <3>1, <4>1, ExitFileDoes DEF CallIs
    <3>2. CASE Exit(p) \/ ExitDone(p) \/ IoDone(p)
      BY <1>0, <3>2, ExitDoes, ExitDoneDoes, IoDoneDoes, Blank, ExitCall DEF Idle, CallIs
    <3>3. QED
      BY <1>2, <3>1, <3>2
  <2>4. \A f \in File : Fds(p, f)' = Fds(p, f)
    BY <2>1, FdsIs, FdsSame
  <2>5. QED
    BY <1>0, <2>1, <2>2, <2>3, <2>4, NoRefs DEF First, Second
<1>3. CASE \E fd \in FD : SysIo(p, fd)
  <2>1. /\ pc[p] = "user" /\ OnlyRow(p) /\ UNCHANGED <<file, ofile>>
        /\ pc'[p] = "io" /\ CallIs(call'[p], "io", None, None)
    BY <1>0, <1>3, SysIoDoes
  <2>2. \A f \in File : Fds(p, f)' = Fds(p, f)
    BY <2>1, FdsIs, FdsSame
  <2>3. CallIs(call[p], "none", None, None)
    BY <1>0, <2>1, Blank DEF CallOK
  <2>4. QED
    BY <1>0, <2>1, <2>2, <2>3, NoRefs DEF First, Second, CallIs
<1>4. QED
  BY <1>1, <1>2, <1>3

(* sys_pipe gives its two files to two descriptors.                        *)
LEMMA FdAllocRefs ==
    ASSUME IInv, TypeOK', NEW p \in Process, FdAlloc(p)
    PROVE  RefsAreHolders'
<1>0. TypeOK /\ CallOK(p) /\ RefsAreHolders /\ (call[p].f1 # None => call[p].f0 # call[p].f1)
  BY DEF IInv, FilesOK
<1>1. /\ pc[p] = "fdalloc" /\ OnlyRow(p) /\ UNCHANGED <<file, pipe>>
      /\ call[p].op = "pipe" /\ call[p].f0 \in File /\ call[p].f1 \in File /\ call[p].f0 # call[p].f1
  BY <1>0, FdAllocDoes DEF CallOK
<1>2. CASE pc'[p] = "fileclose" /\ call'[p] = call[p] /\ ofile'[p] = ofile[p]
  <2>1. \A f \in File : Fds(p, f)' = Fds(p, f)
    BY <1>1, <1>2, FdsIs, FdsSame
  <2>2. QED
    BY <1>0, <1>1, <1>2, <2>1, NoRefs DEF First, Second
<1>3. ASSUME NEW x \in FD \ Open(p), NEW y \in FD \ Open(p), x # y, Idle(p),
             ofile'[p][x] = call[p].f0, ofile'[p][y] = call[p].f1,
             \A fd \in FD \ {x, y} : ofile'[p][fd] = ofile[p][fd]
      PROVE  RefsAreHolders'
  <2>1. CallIs(call'[p], "none", None, None) /\ pc'[p] = "user"
    BY <1>3, Blank DEF Idle
  <2>2. ASSUME NEW f \in File PROVE Balanced(p, f)
    <3>1. ofile[p][x] = None /\ ofile[p][y] = None
      BY <1>3 DEF Open
    <3>2. \A fd \in FD : ~Stale(p, fd) /\ ~Stale(p, fd)'
      BY <1>1, <2>1, FdsIs DEF CallIs
    <3>3. ~First(p, f)' /\ ~Second(p, f)'
      BY <2>1 DEF First, Second, CallIs
    <3>4. CASE f = call[p].f0
      <4>1. First(p, f) /\ ~Second(p, f)
        BY <1>1, <3>4 DEF First, Second
      <4>2. x \notin Fds(p, f) /\ Fds(p, f)' = Fds(p, f) \cup {x}
        <5>1. x \in Fds(p, f)' /\ x \notin Fds(p, f) /\ y \notin Fds(p, f) /\ y \notin Fds(p, f)'
          BY <1>1, <1>3, <3>1, <3>2, <3>4, FdsIs
        <5>2. \A fd \in FD \ {x} : fd \in Fds(p, f)' <=> fd \in Fds(p, f)
          BY <1>3, <3>2, <5>1, FdsIs
        <5>3. QED
          BY <5>1, <5>2, FdsMore
      <4>3. QED
        BY <1>0, <1>1, <3>3, <4>1, <4>2, Balance
    <3>5. CASE f = call[p].f1
      <4>1. ~First(p, f) /\ Second(p, f)
        BY <1>1, <3>5 DEF First, Second
      <4>2. y \notin Fds(p, f) /\ Fds(p, f)' = Fds(p, f) \cup {y}
        <5>1. y \in Fds(p, f)' /\ y \notin Fds(p, f) /\ x \notin Fds(p, f) /\ x \notin Fds(p, f)'
          BY <1>1, <1>3, <3>1, <3>2, <3>5, FdsIs
        <5>2. \A fd \in FD \ {y} : fd \in Fds(p, f)' <=> fd \in Fds(p, f)
          BY <1>3, <3>2, <5>1, FdsIs
        <5>3. QED
          BY <5>1, <5>2, FdsMore
      <4>3. QED
        BY <1>0, <1>1, <3>3, <4>1, <4>2, Balance
    <3>6. CASE f # call[p].f0 /\ f # call[p].f1
      <4>1. ~First(p, f) /\ ~Second(p, f)
        BY <3>6 DEF First, Second
      <4>2. Fds(p, f)' = Fds(p, f)
        <5>1. x \notin Fds(p, f) /\ x \notin Fds(p, f)' /\ y \notin Fds(p, f) /\ y \notin Fds(p, f)'
          BY <1>3, <3>1, <3>6, FdsIs
        <5>2. \A fd \in FD : fd \in Fds(p, f)' <=> fd \in Fds(p, f)
          BY <1>3, <3>2, <5>1, FdsIs
        <5>3. QED
          BY <5>2, FdsSame
      <4>3. QED
        BY <1>0, <1>1, <3>3, <4>1, <4>2, Balance
    <3>7. QED
      BY <3>4, <3>5, <3>6
  <2>3. QED
    BY <1>0, <1>1, <2>2, SameRow
<1>4. QED
  BY <1>0, <1>2, <1>3, FdAllocDoes

(* dup makes a descriptor that is not yet a reference, and counts it.      *)
LEMMA DupRefs ==
    ASSUME IInv, TypeOK', NEW p \in Process, DupCount(p) \/ \E fd \in FD : SysDup(p, fd)
    PROVE  RefsAreHolders'
<1>0. TypeOK /\ CallOK(p) /\ RefsAreHolders
  BY DEF IInv
<1>1. ASSUME NEW fd \in FD, SysDup(p, fd) PROVE RefsAreHolders'
  <2>1. /\ pc[p] = "user" /\ OnlyRow(p) /\ UNCHANGED <<file, pipe>> /\ ofile[p][fd] \in File
        /\ CallIs(call[p], "none", None, None)
    BY <1>0, <1>1, SysDupDoes, Blank DEF CallOK
  <2>2. CASE Idle(p) /\ ofile'[p] = ofile[p]
    <3>1. \A f \in File : Fds(p, f)' = Fds(p, f)
      BY <2>1, <2>2, FdsIs, FdsSame, Blank DEF CallIs, Idle
    <3>2. QED
      BY <1>0, <2>1, <2>2, <3>1, NoRefs, Blank DEF First, Second, CallIs, Idle
  <2>3. ASSUME NEW x \in FD \ Open(p), pc'[p] = "filedup", CallIs(call'[p], "dup", ofile[p][fd], None), call'[p].fd = x,
               \A y \in FD \ {x} : ofile'[p][y] = ofile[p][y]
        PROVE  RefsAreHolders'
    <3>1. ASSUME NEW f \in File PROVE Fds(p, f)' = Fds(p, f)
      <4>1. x \notin Fds(p, f) /\ x \notin Fds(p, f)'
        BY <2>3, FdsIs DEF Open
      <4>2. \A y \in FD \ {x} : y \in Fds(p, f)' <=> y \in Fds(p, f)
        BY <2>1, <2>3, FdsIs DEF CallIs
      <4>3. QED
        BY <4>1, <4>2, FdsSame
    <3>2. \A f \in File : ~First(p, f) /\ ~First(p, f)' /\ ~Second(p, f) /\ ~Second(p, f)'
      BY <2>1, <2>3 DEF First, Second, CallIs
    <3>3. QED
      BY <1>0, <2>1, <3>1, <3>2, NoRefs
  <2>4. QED
    BY <1>0, <1>1, <2>2, <2>3, SysDupDoes
<1>2. CASE DupCount(p)
  <2> DEFINE g == call[p].f0
             x == call[p].fd
  <2>1. /\ pc[p] = "filedup" /\ OnlyRow(p) /\ ofile'[p] = ofile[p] /\ Idle(p)
        /\ g \in File /\ Counted(g, file[g].ref + 1)
        /\ call[p].op = "dup" /\ call[p].f1 = None /\ x \in FD /\ ofile[p][x] = g
    BY <1>0, <1>2, DupCountDoes DEF CallOK
  <2>2. pc'[p] = "user" /\ CallIs(call'[p], "none", None, None)
    BY <2>1, Blank DEF Idle
  <2>3. ASSUME NEW f \in File PROVE Balanced(p, f)
    <3>1. ~First(p, f) /\ ~First(p, f)' /\ ~Second(p, f) /\ ~Second(p, f)'
      BY <2>1, <2>2 DEF First, Second, CallIs
    <3>2. \A fd \in FD \ {x} : fd \in Fds(p, f)' <=> fd \in Fds(p, f)
      BY <2>1, <2>2, FdsIs DEF CallIs
    <3>3. x \notin Fds(p, f) /\ (x \in Fds(p, f)' <=> f = g)
      BY <2>1, <2>2, FdsIs DEF CallIs
    <3>4. CASE f = g
      <4>1. Fds(p, f)' = Fds(p, f) \cup {x}
        BY <2>1, <3>2, <3>3, <3>4, FdsMore
      <4>2. file'[f].ref = file[f].ref + 1
        BY <2>1, <3>4 DEF Counted
      <4>3. QED
        BY <1>0, <3>1, <3>3, <4>1, <4>2, Balance
    <3>5. CASE f # g
      <4>1. Fds(p, f)' = Fds(p, f)
        BY <2>1, <3>2, <3>3, <3>5, FdsSame
      <4>2. file'[f] = file[f]
        BY <2>1, <3>5 DEF Counted
      <4>3. QED
        BY <1>0, <3>1, <4>1, <4>2, Balance
    <3>6. QED
      BY <3>4, <3>5
  <2>4. QED
    BY <1>0, <2>1, <2>3, SameRow
<1>3. QED
  BY <1>1, <1>2

(* fork gives the child the files of the parent.                           *)
LEMMA ForkRefs ==
    ASSUME IInv, TypeOK', NEW p \in Process, Forks(p)
    PROVE  RefsAreHolders'
<1>0. TypeOK /\ CallOK(p) /\ ForkOK(p) /\ RefsAreHolders
  BY DEF IInv
<1>1. CASE \E q \in Process : Fork(p, q)
  <2>1. PICK q \in Process : Fork(p, q)
    BY <1>1
  <2>2. /\ pc[p] = "user" /\ pc[q] = "unused" /\ UNCHANGED <<file, ofile>>
        /\ pc'[p] = "fork" /\ CallIs(call'[p], "fork", None, None)
        /\ pc'[q] = "embryo" /\ call'[q] = call[q] /\ \A r \in Process \ {p, q} : Same(r)
    BY <1>0, <2>1, ForkDoes
  <2>3. call[p] = NoCall /\ call[q] = NoCall
    BY <2>2 DEF IInv, CallOK
  <2>4. \A f \in File : Fds(p, f)' = Fds(p, f) /\ Fds(q, f)' = Fds(q, f)
    BY <2>2, <2>3, FdsIs, FdsSame, Blank DEF CallIs
  <2>5. \A f \in File : SameHolds(q, f)
    BY <2>2, <2>4 DEF SameHolds, FirstOf, SecondOf
  <2>6. \A f \in File : Balanced(p, f)
    BY <1>0, <2>2, <2>3, <2>4, Balance, Blank DEF First, Second, CallIs
  <2>7. \A r \in Process \ {p}, f \in File : SameHolds(r, f)
    BY <2>2, <2>5, SameRefs
  <2>8. QED
    BY <1>0, <2>6, <2>7, RefsKept
<1>2. CASE ForkFile(p)
  <2>1. PICK q \in Process \ {p}, fd \in FD :
           /\ pc[p] = "fork" /\ q = call[p].child /\ UNCHANGED pc
           /\ CallIs(call'[p], call[p].op, call[p].f0, call[p].f1)
           /\ call'[q] = call[q] /\ ofile'[p] = ofile[p] /\ \A r \in Process \ {p, q} : Same(r)
           /\ fd >= call[p].fd /\ ofile[p][fd] \in File
           /\ Counted(ofile[p][fd], file[ofile[p][fd]].ref + 1)
           /\ ofile'[q][fd] = ofile[p][fd] /\ \A x \in FD \ {fd} : ofile'[q][x] = ofile[q][x]
    BY <1>0, <1>2, ForkFileDoes
  <2>2. pc[q] = "embryo" /\ \A x \in Open(q) : x < call[p].fd
    BY <1>0, <2>1 DEF ForkOK
  <2>3. call[q] = NoCall /\ call[p].op = "fork" /\ call[p].f1 = None /\ call[p].f0 = None
    BY <2>1, <2>2 DEF IInv, CallOK
  <2>4. ofile[q][fd] = None
    <3>1. call[p].fd \in 0 .. NOFILE
      BY <1>0, CallTypes, CallFields
    <3>2. fd \notin Open(q)
      BY <2>1, <2>2, <3>1 DEF FD
    <3>3. QED
      BY <3>2 DEF Open
  <2>5. \A f \in File : SameHolds(p, f)
    <3>1. \A f \in File : Fds(p, f)' = Fds(p, f)
      BY <2>1, <2>3, FdsIs, FdsSame DEF CallIs
    <3>2. QED
      BY <2>1, <2>3, <3>1 DEF SameHolds, FirstOf, SecondOf, CallIs
  <2>6. ASSUME NEW f \in File PROVE Balanced(q, f)
    <3>1. ~First(q, f) /\ ~First(q, f)' /\ ~Second(q, f) /\ ~Second(q, f)'
      BY <2>1, <2>3, Blank DEF First, Second, CallIs
    <3>2. \A x \in FD : ~Stale(q, x) /\ ~Stale(q, x)'
      BY <2>1, <2>2, <2>3, FdsIs, Blank DEF CallIs
    <3>3. \A x \in FD \ {fd} : x \in Fds(q, f)' <=> x \in Fds(q, f)
      BY <2>1, <3>2, FdsIs
    <3>4. fd \notin Fds(q, f) /\ (fd \in Fds(q, f)' <=> f = ofile[p][fd])
      BY <2>1, <2>4, <3>2, FdsIs
    <3>5. CASE f = ofile[p][fd]
      <4>1. Fds(q, f)' = Fds(q, f) \cup {fd}
        BY <3>3, <3>4, <3>5, FdsMore
      <4>2. file'[f].ref = file[f].ref + 1
        BY <2>1, <3>5 DEF Counted
      <4>3. QED
        BY <1>0, <3>1, <3>4, <4>1, <4>2, Balance
    <3>6. CASE f # ofile[p][fd]
      <4>1. Fds(q, f)' = Fds(q, f)
        BY <3>3, <3>4, <3>6, FdsSame
      <4>2. file'[f] = file[f]
        BY <2>1, <3>6 DEF Counted
      <4>3. QED
        BY <1>0, <3>1, <4>1, <4>2, Balance
    <3>7. QED
      BY <3>5, <3>6
  <2>7. \A r \in Process \ {q}, f \in File : SameHolds(r, f)
    BY <2>1, <2>5, SameRefs
  <2>8. QED
    BY <1>0, <2>6, <2>7, RefsKept
<1>3. CASE ForkDone(p)
  <2>1. PICK q \in Process \ {p} :
           /\ pc[p] = "fork" /\ q = call[p].child /\ pc[q] = "embryo" /\ UNCHANGED <<file, ofile>>
           /\ Idle(p) /\ pc'[q] = "user" /\ call'[q] = call[q] /\ \A r \in Process \ {p, q} : Same(r)
    BY <1>0, <1>3, ForkDoneDoes
  <2>2. call[q] = NoCall /\ call[p].op = "fork" /\ call[p].f1 = None /\ call[p].f0 = None
    BY <2>1 DEF IInv, CallOK
  <2>3. \A f \in File : Fds(p, f)' = Fds(p, f) /\ Fds(q, f)' = Fds(q, f)
    BY <2>1, <2>2, FdsIs, FdsSame, Blank DEF CallIs, Idle
  <2>4. \A f \in File : SameHolds(q, f)
    BY <2>1, <2>3 DEF SameHolds, FirstOf, SecondOf
  <2>5. \A f \in File : Balanced(p, f)
    BY <1>0, <2>1, <2>2, <2>3, Balance, Blank DEF First, Second, CallIs, Idle
  <2>6. \A r \in Process \ {p}, f \in File : SameHolds(r, f)
    BY <2>1, <2>4, SameRefs
  <2>7. QED
    BY <1>0, <2>5, <2>6, RefsKept
<1>4. QED
  BY <1>1, <1>2, <1>3 DEF Forks

LEMMA SysCloseRefs ==
    ASSUME IInv, TypeOK', NEW p \in Process, NEW fd \in FD, SysClose(p, fd)
    PROVE  RefsAreHolders'
<1>0. TypeOK /\ CallOK(p) /\ RefsAreHolders
  BY DEF IInv
<1>1. /\ pc[p] = "user" /\ OnlyRow(p) /\ UNCHANGED <<file, pipe>> /\ ofile[p][fd] \in File
      /\ pc'[p] = "fileclose" /\ CallIs(call'[p], "close", ofile[p][fd], None)
      /\ ofile'[p][fd] = None /\ \A y \in FD \ {fd} : ofile'[p][y] = ofile[p][y]
      /\ CallIs(call[p], "none", None, None)
  BY <1>0, SysCloseDoes, Blank DEF CallOK
<1>2. ASSUME NEW f \in File PROVE Balanced(p, f)
  <2>1. \A x \in FD : ~Stale(p, x) /\ ~Stale(p, x)'
    BY <1>1, FdsIs DEF CallIs
  <2>2. ~First(p, f) /\ ~Second(p, f) /\ ~Second(p, f)' /\ (First(p, f)' <=> f = ofile[p][fd])
    BY <1>1 DEF First, Second, CallIs
  <2>3. \A x \in FD \ {fd} : x \in Fds(p, f)' <=> x \in Fds(p, f)
    BY <1>1, <2>1, FdsIs
  <2>4. fd \notin Fds(p, f)' /\ (fd \in Fds(p, f) <=> f = ofile[p][fd])
    BY <1>1, <2>1, FdsIs
  <2>5. CASE f = ofile[p][fd]
    <3>1. Fds(p, f)' = Fds(p, f) \ {fd}
      BY <2>3, <2>4, FdsLess
    <3>2. QED
      BY <1>0, <1>1, <2>2, <2>4, <2>5, <3>1, Balance
  <2>6. CASE f # ofile[p][fd]
    <3>1. Fds(p, f)' = Fds(p, f)
      BY <2>3, <2>4, <2>6, FdsSame
    <3>2. QED
      BY <1>0, <1>1, <2>2, <2>6, <3>1, Balance
  <2>7. QED
    BY <2>5, <2>6
<1>3. QED
  BY <1>0, <1>1, <1>2, SameRow

(* fileclose counts down what sys_close or sys_pipe has in hand, or the    *)
(* descriptor that exit has come to.                                       *)
LEMMA FileCloseRefs ==
    ASSUME IInv, TypeOK', NEW p \in Process, FileClose(p)
    PROVE  RefsAreHolders'
<1> DEFINE g == call[p].f0
           x == call[p].fd
<1>0. TypeOK /\ CallOK(p) /\ RefsAreHolders /\ (call[p].f1 # None => g # call[p].f1)
  BY DEF IInv, FilesOK
<1>1. /\ pc[p] = "fileclose" /\ g \in File
      /\ call[p].op \in {"pipe", "close", "exit"} /\ (call[p].op # "pipe" => call[p].f1 = None)
      /\ call[p].op = "exit" => x \in FD /\ ofile[p][x] = g
  BY <1>0, FileCloseDoes DEF CallOK
<1>2. /\ file'[g].ref = file[g].ref - 1
      /\ \A f \in File : f # g => file'[f].ref = file[f].ref
  BY <1>0, FileCloseDoes DEF Counted, FreeFile
<1>3. \A fd \in FD : ~Stale(p, fd)
  BY <1>1, FdsIs
<1>4. OnlyRow(p)
  BY <1>0, FileCloseDoes DEF Continues
<1>5. CASE call[p].op = "exit"
  <2>1. \A f \in File : ~First(p, f) /\ ~Second(p, f)
    BY <1>1, <1>5 DEF First, Second
  <2>2. /\ \A f \in File : ~First(p, f)' /\ ~Second(p, f)'
        /\ \A f \in File : x \notin Fds(p, f)' /\ \A fd \in FD \ {x} : fd \in Fds(p, f)' <=> fd \in Fds(p, f)
    <3>1. CASE Continues(p)
      <4>1. /\ pc'[p] = "exit" /\ CallIs(call'[p], "exit", None, None)
            /\ ofile'[p][x] = None /\ \A fd \in FD \ {x} : ofile'[p][fd] = ofile[p][fd]
        BY <1>1, <1>5, <3>1, ExitCall DEF Continues
      <4>2. \A fd \in FD : ~Stale(p, fd)'
        BY <4>1, FdsIs
      <4>3. \A f \in File : ~First(p, f)' /\ ~Second(p, f)'
        BY <4>1 DEF First, Second, CallIs
      <4>4. ASSUME NEW f \in File PROVE x \notin Fds(p, f)' /\ \A fd \in FD \ {x} : fd \in Fds(p, f)' <=> fd \in Fds(p, f)
        BY <1>1, <1>3, <1>5, <4>1, <4>2, FdsIs
      <4>5. QED
        BY <4>3, <4>4
    <3>2. CASE ~Continues(p)
      <4>1. /\ ofile'[p] = ofile[p] /\ pc'[p] = "pipeclose" /\ CallIs(call'[p], "exit", None, None) /\ call'[p].fd = x
        BY <1>0, <1>1, <1>5, <3>2, FileCloseDoes
      <4>2. \A fd \in FD : Stale(p, fd)' <=> fd = x
        BY <4>1, FdsIs DEF CallIs
      <4>3. \A f \in File : ~First(p, f)' /\ ~Second(p, f)'
        BY <4>1 DEF First, Second, CallIs
      <4>4. ASSUME NEW f \in File PROVE x \notin Fds(p, f)' /\ \A fd \in FD \ {x} : fd \in Fds(p, f)' <=> fd \in Fds(p, f)
        BY <1>1, <1>3, <1>5, <4>1, <4>2, FdsIs
      <4>5. QED
        BY <4>3, <4>4
    <3>3. QED
      BY <3>1, <3>2
  <2>3. ASSUME NEW f \in File PROVE Balanced(p, f)
    <3>1. x \in FD /\ (x \in Fds(p, f) <=> f = g)
      BY <1>1, <1>3, <1>5, FdsIs
    <3>2. CASE f = g
      <4>1. Fds(p, f)' = Fds(p, f) \ {x}
        BY <2>2, <3>1, FdsLess
      <4>2. QED
        BY <1>0, <1>2, <2>1, <2>2, <3>1, <3>2, <4>1, Balance
    <3>3. CASE f # g
      <4>1. Fds(p, f)' = Fds(p, f)
        BY <2>2, <3>1, <3>3, FdsSame
      <4>2. QED
        BY <1>0, <1>2, <2>1, <2>2, <3>3, <4>1, Balance
    <3>4. QED
      BY <3>2, <3>3
  <2>4. QED
    BY <1>0, <1>4, <2>3, SameRow
<1>6. CASE call[p].op # "exit"
  <2>1. \A f \in File : (First(p, f) <=> f = g) /\ (Second(p, f) <=> f = call[p].f1)
    BY <1>1, <1>6 DEF First, Second
  <2>2. CASE Continues(p) /\ call[p].f1 # None
    <3>1. /\ ofile'[p] = ofile[p] /\ pc'[p] = "fileclose" /\ CallIs(call'[p], call[p].op, call[p].f1, None)
      BY <1>6, <2>2 DEF Continues
    <3>2. \A f \in File : Fds(p, f)' = Fds(p, f)
      BY <1>1, <3>1, FdsIs, FdsSame DEF CallIs
    <3>3. \A f \in File : (First(p, f)' <=> f = call[p].f1) /\ ~Second(p, f)'
      BY <1>1, <1>6, <3>1 DEF First, Second, CallIs
    <3>4. ASSUME NEW f \in File PROVE Balanced(p, f)
      <4>1. CASE f = g
        <5>1. First(p, f) /\ ~First(p, f)' /\ ~Second(p, f) /\ ~Second(p, f)'
          BY <1>0, <2>1, <2>2, <3>3, <4>1
        <5>2. QED
          BY <1>0, <1>2, <3>2, <4>1, <5>1, Balance
      <4>2. CASE f = call[p].f1
        <5>1. ~First(p, f) /\ First(p, f)' /\ Second(p, f) /\ ~Second(p, f)' /\ f # g
          BY <1>0, <2>1, <2>2, <3>3, <4>2
        <5>2. QED
          BY <1>0, <1>2, <3>2, <5>1, Balance
      <4>3. CASE f # g /\ f # call[p].f1
        <5>1. ~First(p, f) /\ ~First(p, f)' /\ ~Second(p, f) /\ ~Second(p, f)'
          BY <2>1, <3>3, <4>3
        <5>2. QED
          BY <1>0, <1>2, <3>2, <4>3, <5>1, Balance
      <4>4. QED
        BY <4>1, <4>2, <4>3
    <3>5. QED
      BY <1>0, <1>4, <3>4, SameRow
  <2>3. CASE ~(Continues(p) /\ call[p].f1 # None)
    <3>1. /\ ofile'[p] = ofile[p] /\ pc'[p] \in {"user", "pipeclose"} /\ call'[p].op # "exit"
          /\ call'[p].f0 = None /\ call'[p].f1 = call[p].f1
      <4>1. CASE Continues(p)
        BY <1>6, <2>3, <4>1, Blank DEF Continues, Idle, CallIs
      <4>2. CASE ~Continues(p)
        BY <1>0, <1>6, <4>2, FileCloseDoes DEF CallIs
      <4>3. QED
        BY <4>1, <4>2
    <3>2. \A f \in File : Fds(p, f)' = Fds(p, f)
      BY <1>1, <3>1, FdsIs, FdsSame
    <3>3. \A f \in File : ~First(p, f)' /\ (Second(p, f)' <=> Second(p, f))
      BY <3>1 DEF First, Second
    <3>4. ASSUME NEW f \in File PROVE Balanced(p, f)
      <4>1. CASE f = g
        BY <1>0, <1>2, <2>1, <3>2, <3>3, <4>1, Balance
      <4>2. CASE f # g
        BY <1>0, <1>2, <2>1, <3>2, <3>3, <4>2, Balance
      <4>3. QED
        BY <4>1, <4>2
    <3>5. QED
      BY <1>0, <1>4, <3>4, SameRow
  <2>4. QED
    BY <2>2, <2>3
<1>7. QED
  BY <1>5, <1>6

(* The file is closed already: pipeclose and kfree count nothing.          *)
LEMMA PipeCloseRefs ==
    ASSUME IInv, TypeOK', NEW p \in Process, PipeClose(p) \/ Kfree(p)
    PROVE  RefsAreHolders'
<1> DEFINE x == call[p].fd
<1>0. TypeOK /\ CallOK(p) /\ RefsAreHolders
  BY DEF IInv
<1>1. pc[p] \in {"pipeclose", "kfree"} /\ UNCHANGED file /\ OnlyRow(p)
  BY <1>0, PipeCloseDoes, KfreeDoes DEF Continues
<1>2. /\ call[p].op \in {"pipe", "close", "exit"} /\ (call[p].op # "pipe" => call[p].f1 = None)
      /\ call[p].op = "exit" => x \in FD
      /\ call[p].f0 = None
  BY <1>0, <1>1 DEF CallOK
<1>3. \A f \in File : ~First(p, f) /\ (Second(p, f) <=> f = call[p].f1)
  BY <1>2 DEF First, Second
<1>4. CASE ~Continues(p)
  <2>1. pc[p] = "pipeclose" /\ pc'[p] = "kfree" /\ call'[p] = call[p] /\ ofile'[p] = ofile[p]
    BY <1>0, <1>4, PipeCloseDoes, KfreeDoes
  <2>2. \A f \in File : Fds(p, f)' = Fds(p, f)
    BY <2>1, FdsIs, FdsSame
  <2>3. QED
    BY <1>0, <1>1, <2>1, <2>2, NoRefs DEF First, Second
<1>5. CASE Continues(p) /\ call[p].f1 # None
  <2>1. ofile'[p] = ofile[p] /\ pc'[p] = "fileclose" /\ CallIs(call'[p], "pipe", call[p].f1, None) /\ call[p].op = "pipe"
    BY <1>2, <1>5 DEF Continues
  <2>2. \A f \in File : Fds(p, f)' = Fds(p, f)
    BY <1>1, <2>1, FdsIs, FdsSame DEF CallIs
  <2>3. \A f \in File : (First(p, f)' <=> f = call[p].f1) /\ ~Second(p, f)'
    BY <2>1 DEF First, Second, CallIs
  <2>4. ASSUME NEW f \in File PROVE Balanced(p, f)
    <3>1. CASE f = call[p].f1
      BY <1>0, <1>1, <1>3, <2>2, <2>3, <3>1, Balance
    <3>2. CASE f # call[p].f1
      BY <1>0, <1>1, <1>3, <2>2, <2>3, <3>2, Balance
    <3>3. QED
      BY <3>1, <3>2
  <2>5. QED
    BY <1>0, <1>1, <2>4, SameRow
<1>6. CASE Continues(p) /\ call[p].f1 = None
  <2>1. /\ \A f \in File : Fds(p, f)' = Fds(p, f)
        /\ CallIs(call'[p], "none", None, None) \/ CallIs(call'[p], "exit", None, None)
    <3>1. CASE call[p].op = "exit"
      <4>1. /\ pc'[p] = "exit" /\ CallIs(call'[p], "exit", None, None)
            /\ ofile'[p][x] = None /\ \A fd \in FD \ {x} : ofile'[p][fd] = ofile[p][fd]
        BY <1>6, <3>1, ExitCall DEF Continues
      <4>2. \A fd \in FD : (Stale(p, fd) <=> fd = x) /\ ~Stale(p, fd)'
        BY <1>1, <3>1, <4>1, FdsIs
      <4>3. ASSUME NEW f \in File PROVE Fds(p, f)' = Fds(p, f)
        <5>1. x \notin Fds(p, f) /\ x \notin Fds(p, f)'
          BY <1>2, <3>1, <4>1, <4>2, FdsIs
        <5>2. \A fd \in FD \ {x} : fd \in Fds(p, f)' <=> fd \in Fds(p, f)
          BY <4>1, <4>2, FdsIs
        <5>3. QED
          BY <5>1, <5>2, FdsSame
      <4>4. QED
        BY <4>1, <4>3
    <3>2. CASE call[p].op # "exit"
      <4>1. CallIs(call'[p], "none", None, None) /\ pc'[p] = "user" /\ ofile'[p] = ofile[p]
        BY <1>6, <3>2, Blank DEF Continues, Idle
      <4>2. \A f \in File : Fds(p, f)' = Fds(p, f)
        BY <1>1, <3>2, <4>1, FdsIs, FdsSame
      <4>3. QED
        BY <4>1, <4>2
    <3>3. QED
      BY <3>1, <3>2
  <2>2. \A f \in File : ~First(p, f) /\ ~First(p, f)' /\ ~Second(p, f) /\ ~Second(p, f)'
    BY <1>3, <1>6, <2>1 DEF First, Second, CallIs
  <2>3. QED
    BY <1>0, <1>1, <2>1, <2>2, NoRefs
<1>7. QED
  BY <1>4, <1>5, <1>6

LEMMA RefsStep ==
    ASSUME IInv, NEW p \in Process, Step(p)
    PROVE  RefsAreHolders'
<1>1. TypeOK'
  BY TypeStep
<1>2. CASE SysPipe(p) \/ SecondFile(p)
  BY <1>1, <1>2, NewFileRefs
<1>3. CASE Kalloc(p) \/ Exit(p) \/ ExitFile(p) \/ ExitDone(p) \/ IoDone(p) \/ \E fd \in FD : SysIo(p, fd)
  BY <1>1, <1>3, QuietRefs
<1>4. CASE DupCount(p) \/ \E fd \in FD : SysDup(p, fd)
  BY <1>1, <1>4, DupRefs
<1>5. CASE Forks(p)
  BY <1>1, <1>5, ForkRefs
<1>6. CASE \E fd \in FD : SysClose(p, fd)
  BY <1>1, <1>6, SysCloseRefs
<1>7. CASE FdAlloc(p)
  BY <1>1, <1>7, FdAllocRefs
<1>8. CASE FileClose(p)
  BY <1>1, <1>8, FileCloseRefs
<1>9. CASE PipeClose(p) \/ Kfree(p)
  BY <1>1, <1>9, PipeCloseRefs
<1>10. QED
  BY <1>2, <1>3, <1>4, <1>5, <1>6, <1>7, <1>8, <1>9 DEF Step, Forks

-----------------------------------------------------------------------------
(* The files.                                                              *)

LEMMA HoldersNext ==
    ASSUME RefsAreHolders', NEW f \in File, NEW p \in Process, Holds(p, f)'
    PROVE  file'[f].ref >= 1
<1>1. file'[f].ref = Count(f)'
  BY DEF RefsAreHolders, Count
<1>2. Fds(p, f)' \in SUBSET FD /\ IsFiniteSet(Fds(p, f)')
  <2>1. Fds(p, f)' \in SUBSET FD
    BY DEF Fds
  <2>2. QED
    BY <2>1, FiniteFD, FS_Subset
<1>3. Cardinality(Fds(p, f)') \in Nat /\ (Cardinality(Fds(p, f)') = 0 <=> Fds(p, f)' = {})
  BY <1>2, FS_EmptySet, FS_CardinalityType
<1>4. Fds(p, f)' # {} \/ p \in FirstOf(f)' \/ p \in SecondOf(f)'
  BY DEF Holds, HasFd, Fds
<1>5. Refs(p, f)' >= 1 /\ Refs(p, f)' \in Nat
  BY <1>3, <1>4, CountSplitNext DEF Refs, One
<1>6. QED
  BY <1>1, <1>5, CountSplitNext

LEMMA HoldsIs ==
    ASSUME NEW p \in Process, NEW f
    PROVE  /\ HasFd(p, f) <=> Fds(p, f) # {}
           /\ HasFd(p, f)' <=> Fds(p, f)' # {}
           /\ Holds(p, f) <=> HasFd(p, f) \/ First(p, f) \/ Second(p, f)
           /\ Holds(p, f)' <=> HasFd(p, f)' \/ First(p, f)' \/ Second(p, f)'
<1>1. /\ HasFd(p, f) <=> Fds(p, f) # {}
      /\ HasFd(p, f)' <=> Fds(p, f)' # {}
  BY DEF HasFd, Fds
<1>2. /\ Holds(p, f) <=> HasFd(p, f) \/ First(p, f) \/ Second(p, f)
      /\ Holds(p, f)' <=> HasFd(p, f)' \/ First(p, f)' \/ Second(p, f)'
  BY DEF Holds, FirstOf, SecondOf, First, Second
<1>3. QED
  BY <1>1, <1>2

LEMMA SameHeld ==
    ASSUME NEW q \in Process, NEW f, Same(q)
    PROVE  (HasFd(q, f)' <=> HasFd(q, f)) /\ (Holds(q, f)' <=> Holds(q, f))
BY DEF Same, HasFd, Holds, FirstOf, SecondOf, Stale

(* Who gets a descriptor of a file had one, or has just made the file, or  *)
(* is the child of a process that has one.                                 *)
LEMMA OwnGain ==
    ASSUME IInv, NEW p \in Process, Step(p), ~Forks(p), NEW f \in File
    PROVE  /\ HasFd(p, f)' => HasFd(p, f) \/ (pc[p] = "fdalloc" /\ f \in {call[p].f0, call[p].f1})
           /\ Holds(p, f)' => Holds(p, f) \/ file[f].ref = 0
<1>0. TypeOK /\ CallOK(p) /\ RefsAreHolders /\ (call[p].f1 # None => call[p].f0 # call[p].f1)
  BY DEF IInv, FilesOK
<1>1. ASSUME ofile'[p] = ofile[p], \A fd \in FD : ~Stale(p, fd)
      PROVE  HasFd(p, f)' => HasFd(p, f)
  BY <1>1 DEF HasFd
<1>2. ASSUME ofile'[p] = ofile[p], \A fd \in FD : Stale(p, fd)' <=> Stale(p, fd)
      PROVE  HasFd(p, f)' => HasFd(p, f)
  BY <1>2 DEF HasFd
<1>3. pc[p] \notin {"filedup", "pipeclose", "kfree"} => \A fd \in FD : ~Stale(p, fd)
  BY FdsIs
<1>4. CASE SysPipe(p)
  <2>1. pc[p] = "user" /\ ofile'[p] = ofile[p]
    BY <1>0, <1>4, SysPipeDoes
  <2>2. HasFd(p, f)' => HasFd(p, f)
    BY <1>1, <1>3, <2>1
  <2>3. First(p, f)' \/ Second(p, f)' => file[f].ref = 0
    BY <1>0, <1>4, SysPipeDoes, Blank DEF Idle, First, Second, CallIs
  <2>4. QED
    BY <2>2, <2>3, HoldsIs
<1>5. CASE SecondFile(p)
  <2>1. pc[p] = "filealloc" /\ ofile'[p] = ofile[p]
    BY <1>0, <1>5, SecondFileDoes
  <2>2. HasFd(p, f)' => HasFd(p, f)
    BY <1>1, <1>3, <2>1
  <2>3. First(p, f)' \/ Second(p, f)' => First(p, f) \/ Second(p, f) \/ file[f].ref = 0
    BY <1>0, <1>5, SecondFileDoes DEF First, Second, CallIs
  <2>4. QED
    BY <2>2, <2>3, HoldsIs
<1>6. CASE Kalloc(p)
  <2>1. pc[p] = "kalloc" /\ ofile'[p] = ofile[p] /\ call'[p] = call[p]
    BY <1>0, <1>6, KallocDoes
  <2>2. HasFd(p, f)' => HasFd(p, f)
    BY <1>1, <1>3, <2>1
  <2>3. QED
    BY <2>1, <2>2, HoldsIs DEF First, Second
<1>7. CASE FdAlloc(p)
  <2>1. pc[p] = "fdalloc" /\ call[p].op = "pipe"
    BY <1>0, <1>7, FdAllocDoes DEF CallOK
  <2>2. \A fd \in FD : ~Stale(p, fd)
    BY <1>3, <2>1
  <2>3. \A fd \in FD : ofile'[p][fd] \in {ofile[p][fd], call[p].f0, call[p].f1}
    BY <1>0, <1>7, FdAllocDoes
  <2>4. HasFd(p, f)' => HasFd(p, f) \/ f \in {call[p].f0, call[p].f1}
    BY <2>2, <2>3 DEF HasFd
  <2>5. First(p, f)' \/ Second(p, f)' => f \in {call[p].f0, call[p].f1}
    BY <1>0, <1>7, FdAllocDoes, Blank DEF First, Second, CallIs, Idle
  <2>6. f \in {call[p].f0, call[p].f1} => First(p, f) \/ Second(p, f)
    BY <2>1 DEF First, Second
  <2>7. QED
    BY <2>1, <2>4, <2>5, <2>6, HoldsIs
<1>8. CASE \E fd \in FD : SysDup(p, fd)
  <2>1. PICK fd \in FD : SysDup(p, fd)
    BY <1>8
  <2>2. pc[p] = "user" /\ ofile[p][fd] \in File
    BY <1>0, <2>1, SysDupDoes
  <2>3. \A x \in FD : ~Stale(p, x)
    BY <1>3, <2>2
  <2>4. \A x \in FD : ofile'[p][x] \in {ofile[p][x], ofile[p][fd]}
    BY <1>0, <2>1, SysDupDoes
  <2>5. HasFd(p, f)' => HasFd(p, f)
    BY <2>3, <2>4 DEF HasFd
  <2>6. ~First(p, f)' /\ ~Second(p, f)'
    <3>1. call'[p].op \in {"dup", "none"} /\ call'[p].f1 = None
      BY <1>0, <2>1, SysDupDoes, Blank DEF CallIs, Idle
    <3>2. QED
      BY <3>1 DEF First, Second
  <2>7. QED
    BY <2>5, <2>6, HoldsIs
<1>9. CASE DupCount(p)
  <2>1. /\ pc[p] = "filedup" /\ Idle(p) /\ ofile'[p] = ofile[p] /\ call[p].op = "dup"
        /\ ofile[p][call[p].fd] = call[p].f0 /\ \E fd \in FD \ {call[p].fd} : ofile[p][fd] = call[p].f0
    BY <1>0, <1>9, DupCountDoes DEF CallOK
  <2>2. \A fd \in FD : Stale(p, fd) <=> fd = call[p].fd
    BY <2>1, FdsIs
  <2>3. HasFd(p, call[p].f0)
    BY <2>1, <2>2 DEF HasFd
  <2>4. HasFd(p, f)' => HasFd(p, f)
    BY <2>1, <2>2, <2>3 DEF HasFd
  <2>5. ~First(p, f)' /\ ~Second(p, f)'
    BY <2>1, Blank DEF First, Second, CallIs, Idle
  <2>6. QED
    BY <2>4, <2>5, HoldsIs
<1>10. CASE \E fd \in FD : SysClose(p, fd)
  <2>1. PICK fd \in FD : SysClose(p, fd)
    BY <1>10
  <2>2. /\ pc[p] = "user" /\ ofile'[p][fd] = None /\ \A y \in FD \ {fd} : ofile'[p][y] = ofile[p][y]
        /\ CallIs(call'[p], "close", ofile[p][fd], None)
    BY <1>0, <2>1, SysCloseDoes
  <2>3. \A x \in FD : ~Stale(p, x)
    BY <1>3, <2>2
  <2>4. HasFd(p, f)' => HasFd(p, f)
    BY <2>2, <2>3 DEF HasFd
  <2>5. First(p, f)' \/ Second(p, f)' => HasFd(p, f)
    BY <2>2, <2>3 DEF First, Second, CallIs, HasFd
  <2>6. QED
    BY <2>4, <2>5, HoldsIs
<1>11. CASE Exit(p) \/ ExitFile(p) \/ ExitDone(p) \/ IoDone(p)
  <2>1. ofile'[p] = ofile[p] /\ pc[p] \in {"user", "exit", "io"}
    BY <1>0, <1>11, ExitDoes, ExitFileDoes, ExitDoneDoes, IoDoneDoes
  <2>2. HasFd(p, f)' => HasFd(p, f)
    BY <1>1, <1>3, <2>1
  <2>3. ~First(p, f)' /\ ~Second(p, f)'
    <3>1. CASE ExitFile(p)
      <4>1. call[p].op = "exit" /\ call[p].f1 = None
        BY <1>0, <3>1, ExitFileDoes, ExitCall DEF CallOK, CallIs
      <4>2. call'[p].op = "exit" /\ call'[p].f1 = None
        BY <1>0, <3>1, <4>1, ExitFileDoes DEF CallIs
      <4>3. QED
        BY <4>2 DEF First, Second
    <3>2. CASE Exit(p) \/ ExitDone(p) \/ IoDone(p)
      <4>1. call'[p].op \in {"none", "exit"} /\ call'[p].f1 = None
        BY <1>0, <3>2, ExitDoes, ExitDoneDoes, IoDoneDoes, Blank, ExitCall DEF Idle, CallIs
      <4>2. QED
        BY <4>1 DEF First, Second
    <3>3. QED
      BY <1>11, <3>1, <3>2
  <2>4. QED
    BY <2>2, <2>3, HoldsIs
<1>12. CASE \E fd \in FD : SysIo(p, fd)
  <2>1. ofile'[p] = ofile[p] /\ pc[p] = "user" /\ CallIs(call'[p], "io", None, None)
    BY <1>0, <1>12, SysIoDoes
  <2>2. HasFd(p, f)' => HasFd(p, f)
    BY <1>1, <1>3, <2>1
  <2>3. QED
    BY <2>1, <2>2, HoldsIs DEF First, Second, CallIs
<1>13. CASE FileClose(p) \/ PipeClose(p) \/ Kfree(p)
  <2>1. pc[p] \in {"fileclose", "pipeclose", "kfree"} /\ (call[p].op = "exit" => call[p].fd \in FD)
        /\ call[p].op \in {"pipe", "close", "exit"} /\ (call[p].op # "pipe" => call[p].f1 = None)
    BY <1>0, <1>13, FileCloseDoes, PipeCloseDoes, KfreeDoes DEF CallOK
  <2>2. CASE Continues(p)
    <3>1. HasFd(p, f)' => HasFd(p, f)
      <4>1. CASE call[p].op = "exit"
        <5>1. ofile'[p][call[p].fd] = None /\ \A fd \in FD \ {call[p].fd} : ofile'[p][fd] = ofile[p][fd]
          BY <2>1, <2>2, <4>1 DEF Continues
        <5>2. \A fd \in FD : Stale(p, fd) => fd = call[p].fd
          BY FdsIs
        <5>3. QED
          BY <5>1, <5>2 DEF HasFd
      <4>2. CASE call[p].op # "exit"
        <5>1. ofile'[p] = ofile[p]
          BY <2>2, <4>2 DEF Continues
        <5>2. \A fd \in FD : ~Stale(p, fd)
          BY <2>1, <4>2, FdsIs
        <5>3. QED
          BY <1>1, <5>1, <5>2
      <4>3. QED
        BY <4>1, <4>2
    <3>2. First(p, f)' \/ Second(p, f)' => Second(p, f)
      BY <2>1, <2>2, Blank, ExitCall DEF Continues, First, Second, CallIs, Idle
    <3>3. QED
      BY <3>1, <3>2, HoldsIs
  <2>3. CASE ~Continues(p)
    <3>1. /\ ofile'[p] = ofile[p] /\ call'[p].op = call[p].op /\ call'[p].f1 = call[p].f1
          /\ call'[p].f0 \in {None, call[p].f0} /\ call'[p].fd = call[p].fd
          /\ (pc[p] = "fileclose" /\ pc'[p] = "pipeclose") \/ (pc[p] = "pipeclose" /\ pc'[p] = "kfree")
      BY <1>0, <1>13, <2>3, FileCloseDoes, PipeCloseDoes, KfreeDoes DEF CallIs
    <3>2. \A fd \in FD : Stale(p, fd) => Stale(p, fd)'
      BY <3>1, FdsIs
    <3>3. HasFd(p, f)' => HasFd(p, f)
      BY <3>1, <3>2 DEF HasFd
    <3>4. First(p, f)' \/ Second(p, f)' => First(p, f) \/ Second(p, f)
      BY <3>1 DEF First, Second
    <3>5. QED
      BY <3>3, <3>4, HoldsIs
  <2>4. QED
    BY <2>2, <2>3
<1>14. QED
  BY <1>4, <1>5, <1>6, <1>7, <1>8, <1>9, <1>10, <1>11, <1>12, <1>13 DEF Step, Forks

LEMMA ForkGain ==
    ASSUME IInv, NEW p \in Process, Forks(p), NEW f \in File, NEW q \in Process
    PROVE  /\ HasFd(q, f)' => HasFd(q, f) \/ HasFd(p, f)
           /\ Holds(q, f)' => Holds(q, f) \/ HasFd(p, f)
<1>0. TypeOK /\ CallOK(p) /\ ForkOK(p)
  BY DEF IInv
<1>1. CASE \E r \in Process : Fork(p, r)
  <2>1. PICK r \in Process : Fork(p, r)
    BY <1>1
  <2>2. /\ pc[p] = "user" /\ pc[r] = "unused" /\ UNCHANGED ofile
        /\ pc'[p] = "fork" /\ CallIs(call'[p], "fork", None, None)
        /\ pc'[r] = "embryo" /\ call'[r] = call[r] /\ \A s \in Process \ {p, r} : Same(s)
    BY <1>0, <2>1, ForkDoes
  <2>3. \A fd \in FD : ~Stale(p, fd) /\ (Stale(r, fd)' <=> Stale(r, fd))
    BY <2>2, FdsIs
  <2>4. (HasFd(p, f)' => HasFd(p, f)) /\ (HasFd(r, f)' => HasFd(r, f))
    BY <2>2, <2>3 DEF HasFd
  <2>5. (Holds(p, f)' => Holds(p, f)) /\ (Holds(r, f)' => Holds(r, f))
    BY <2>2, <2>4, HoldsIs DEF First, Second, CallIs
  <2>6. QED
    BY <2>2, <2>4, <2>5, SameHeld
<1>2. CASE ForkFile(p)
  <2>1. PICK r \in Process \ {p}, fd \in FD :
           /\ pc[p] = "fork" /\ r = call[p].child /\ UNCHANGED pc
           /\ CallIs(call'[p], call[p].op, call[p].f0, call[p].f1)
           /\ call'[r] = call[r] /\ ofile'[p] = ofile[p] /\ \A s \in Process \ {p, r} : Same(s)
           /\ ofile'[r][fd] = ofile[p][fd] /\ \A x \in FD \ {fd} : ofile'[r][x] = ofile[r][x]
    BY <1>0, <1>2, ForkFileDoes
  <2>2. \A x \in FD : ~Stale(p, x) /\ ~Stale(p, x)' /\ (Stale(r, x)' <=> Stale(r, x))
    BY <2>1, FdsIs DEF CallIs
  <2>3. (HasFd(p, f)' => HasFd(p, f)) /\ (HasFd(r, f)' => HasFd(r, f) \/ HasFd(p, f))
    BY <2>1, <2>2 DEF HasFd
  <2>4. (Holds(p, f)' => Holds(p, f)) /\ (Holds(r, f)' => Holds(r, f) \/ HasFd(p, f))
    <3>1. /\ First(p, f)' <=> First(p, f)
          /\ Second(p, f)' <=> Second(p, f)
          /\ First(r, f)' <=> First(r, f)
          /\ Second(r, f)' <=> Second(r, f)
      BY <2>1 DEF First, Second, CallIs
    <3>2. QED
      BY <2>3, <3>1, HoldsIs
  <2>5. First(p, f) \/ Second(p, f) => FALSE
    BY <1>0, <2>1 DEF CallOK, First, Second
  <2>6. QED
    BY <2>1, <2>3, <2>4, SameHeld
<1>3. CASE ForkDone(p)
  <2>1. PICK r \in Process \ {p} :
           /\ pc[p] = "fork" /\ pc[r] = "embryo" /\ UNCHANGED ofile
           /\ Idle(p) /\ pc'[r] = "user" /\ call'[r] = call[r] /\ \A s \in Process \ {p, r} : Same(s)
    BY <1>0, <1>3, ForkDoneDoes
  <2>2. \A x \in FD : ~Stale(p, x) /\ (Stale(r, x)' <=> Stale(r, x))
    BY <2>1, FdsIs
  <2>3. (HasFd(p, f)' => HasFd(p, f)) /\ (HasFd(r, f)' => HasFd(r, f))
    BY <2>1, <2>2 DEF HasFd
  <2>4. (Holds(p, f)' => Holds(p, f)) /\ (Holds(r, f)' => Holds(r, f))
    BY <2>1, <2>3, HoldsIs, Blank DEF First, Second, CallIs, Idle
  <2>5. QED
    BY <2>1, <2>3, <2>4, SameHeld
<1>4. QED
  BY <1>1, <1>2, <1>3 DEF Forks

(* A step of p gives a file to others only if p has a descriptor of it.    *)
LEMMA Gain ==
    ASSUME IInv, NEW p \in Process, Step(p), NEW f \in File, NEW q \in Process
    PROVE  /\ HasFd(q, f)' => \/ HasFd(q, f) \/ HasFd(p, f)
                              \/ q = p /\ pc[p] = "fdalloc" /\ f \in {call[p].f0, call[p].f1}
           /\ Holds(q, f)' => Holds(q, f) \/ HasFd(p, f) \/ (q = p /\ file[f].ref = 0)
<1>1. CASE Forks(p)
  BY <1>1, ForkGain
<1>2. CASE ~Forks(p) /\ q = p
  BY <1>2, OwnGain
<1>3. CASE ~Forks(p) /\ q # p
  <2>1. TypeOK /\ CallOK(p) /\ (call[p].f1 # None => call[p].f0 # call[p].f1)
    BY DEF IInv, FilesOK
  <2>2. Same(q)
    BY <1>3, <2>1, OwnStep DEF OnlyRow
  <2>3. QED
    BY <2>2, SameHeld
<1>4. QED
  BY <1>1, <1>2, <1>3

(* What a step does to the pipe of a file that is in use.                  *)
SameEnd(f) == file'[f].page = file[f].page /\ file'[f].writable = file[f].writable

LEMMA FileMoves ==
    ASSUME IInv, NEW p \in Process, Step(p), NEW f \in File
    PROVE  \/ SameEnd(f)
           \/ FileClose(p) /\ f = call[p].f0 /\ file[f].ref = 1 /\ file'[f] = FreeFile
           \/ /\ Kalloc(p) /\ pc[p] = "kalloc" /\ pc'[p] = "fdalloc" /\ f \in {call[p].f0, call[p].f1}
              /\ file'[f].page \in Page
<1>0. TypeOK /\ CallOK(p) /\ ForkOK(p) /\ (call[p].f1 # None => call[p].f0 # call[p].f1)
  BY DEF IInv, FilesOK
<1>1. ASSUME UNCHANGED file PROVE SameEnd(f)
  BY <1>1 DEF SameEnd
<1>2. ASSUME NEW g, NEW n, Counted(g, n) PROVE SameEnd(f)
  BY <1>2 DEF SameEnd, Counted
<1>3. CASE SysPipe(p) \/ SecondFile(p)
  BY <1>0, <1>1, <1>2, <1>3, SysPipeDoes, SecondFileDoes
<1>4. CASE DupCount(p)
  BY <1>0, <1>2, <1>4, DupCountDoes
<1>5. CASE ForkFile(p)
  <2>1. PICK fd \in FD : Counted(ofile[p][fd], file[ofile[p][fd]].ref + 1)
    BY <1>0, <1>5, ForkFileDoes
  <2>2. QED
    BY <1>2, <2>1
<1>6. CASE Kalloc(p)
  <2>1. CASE UNCHANGED file
    BY <1>1, <2>1
  <2>2. ASSUME NEW c \in Page, pc'[p] = "fdalloc", Piped(call[p].f0, call[p].f1, c)
        PROVE  SameEnd(f) \/ (f \in {call[p].f0, call[p].f1} /\ file'[f].page \in Page)
    BY <2>2 DEF SameEnd, Piped
  <2>3. QED
    BY <1>0, <1>6, <2>1, <2>2, KallocDoes
<1>7. CASE FileClose(p)
  <2>1. CASE file[call[p].f0].ref > 1
    <3>1. Counted(call[p].f0, file[call[p].f0].ref - 1)
      BY <1>0, <1>7, <2>1, FileCloseDoes
    <3>2. QED
      BY <1>2, <3>1
  <2>2. CASE ~(file[call[p].f0].ref > 1)
    BY <1>0, <1>7, <2>2, FileCloseDoes DEF SameEnd
  <2>3. QED
    BY <2>1, <2>2
<1>8. CASE PipeClose(p) \/ Kfree(p)
  BY <1>0, <1>1, <1>8, PipeCloseDoes, KfreeDoes
<1>9. CASE FdAlloc(p) \/ Exit(p) \/ ExitFile(p) \/ ExitDone(p) \/ IoDone(p) \/ ForkDone(p)
  BY <1>0, <1>1, <1>9, FdAllocDoes, ExitDoes, ExitFileDoes, ExitDoneDoes, IoDoneDoes, ForkDoneDoes
<1>10. CASE \E fd \in FD : SysDup(p, fd) \/ SysClose(p, fd) \/ SysIo(p, fd)
  BY <1>1, <1>10 DEF SysDup, SysClose, SysIo
<1>11. CASE \E q \in Process : Fork(p, q)
  BY <1>1, <1>11 DEF Fork
<1>12. QED
  BY <1>3, <1>4, <1>5, <1>6, <1>7, <1>8, <1>9, <1>10, <1>11 DEF Step

(* The other steps take up no file.                                        *)
LEMMA OldFiles ==
    ASSUME IInv, NEW p \in Process, Step(p), ~SysPipe(p), ~SecondFile(p), ~Kalloc(p)
    PROVE  /\ pc'[p] \notin {"filealloc", "kalloc", "fdalloc"}
           /\ call'[p].f1 = None \/ (call'[p].f1 = call[p].f1 /\ call'[p].f0 \in {None, call[p].f0})
<1>0. TypeOK /\ CallOK(p) /\ ForkOK(p) /\ (call[p].f1 # None => call[p].f0 # call[p].f1)
  BY DEF IInv, FilesOK
<1>1. ASSUME Continues(p) PROVE call'[p].f1 = None /\ pc'[p] \in {"fileclose", "exit", "user"}
  BY <1>1, Blank, ExitCall DEF Continues, CallIs, Idle
<1>2. CASE FdAlloc(p) \/ DupCount(p) \/ Exit(p) \/ ExitDone(p) \/ IoDone(p)
  BY <1>0, <1>2, FdAllocDoes, DupCountDoes, ExitDoes, ExitDoneDoes, IoDoneDoes, Blank, ExitCall DEF CallIs, Idle
<1>3. CASE ExitFile(p)
  <2>1. call[p].f1 = None
    BY <1>0, <1>3, ExitFileDoes, ExitCall DEF CallOK, CallIs
  <2>2. QED
    BY <1>0, <1>3, <2>1, ExitFileDoes DEF CallIs
<1>4. CASE FileClose(p)
  <2>1. ~Continues(p) => pc'[p] = "pipeclose" /\ CallIs(call'[p], call[p].op, None, call[p].f1)
    BY <1>0, <1>4, FileCloseDoes
  <2>2. QED
    BY <1>1, <2>1 DEF CallIs
<1>5. CASE PipeClose(p) \/ Kfree(p)
  <2>1. ~Continues(p) => pc'[p] = "kfree" /\ call'[p] = call[p]
    BY <1>0, <1>5, PipeCloseDoes, KfreeDoes
  <2>2. QED
    BY <1>1, <2>1
<1>6. CASE \E fd \in FD : SysDup(p, fd) \/ SysClose(p, fd) \/ SysIo(p, fd)
  <2>1. PICK fd \in FD : SysDup(p, fd) \/ SysClose(p, fd) \/ SysIo(p, fd)
    BY <1>6
  <2>2. QED
    BY <1>0, <2>1, SysDupDoes, SysCloseDoes, SysIoDoes, Blank DEF CallIs, Idle
<1>7. CASE \E r \in Process : Fork(p, r)
  BY <1>0, <1>7, ForkDoes DEF CallIs
<1>8. CASE ForkFile(p)
  <2>1. pc[p] = "fork" /\ UNCHANGED pc /\ CallIs(call'[p], call[p].op, call[p].f0, call[p].f1)
    BY <1>0, <1>8, ForkFileDoes
  <2>2. QED
    BY <2>1 DEF CallIs
<1>9. CASE ForkDone(p)
  BY <1>0, <1>9, ForkDoneDoes, Blank DEF CallIs, Idle
<1>10. QED
  BY <1>2, <1>3, <1>4, <1>5, <1>6, <1>7, <1>8, <1>9 DEF Step

LEMMA FilesStep ==
    ASSUME IInv, NEW p \in Process, Step(p)
    PROVE  FilesOK'
<1>0. /\ TypeOK /\ CallOK(p) /\ RefsAreHolders /\ RefsAreHolders' /\ TypeOK'
      /\ \A q \in Process : call[q].f1 # None => call[q].f0 # call[q].f1
  BY RefsStep, TypeStep DEF IInv, FilesOK
<1>1. \A f \in File : file'[f].page = None => ~file'[f].writable
  <2>1. ASSUME NEW f \in File, file'[f].page = None PROVE ~file'[f].writable
    BY <2>1, FileMoves DEF SameEnd, FreeFile, IInv, FilesOK
  <2>2. QED
    BY <2>1
<1>2. \A f \in File, q \in Process : Holds(q, f)' => file'[f] # FreeFile
  BY <1>0, HoldersNext DEF FreeFile
<1>3. \A f \in File : file[f].ref = 0 => \A q \in Process : ~Holds(q, f)
  BY <1>0, Holders
<1>4. \A f \in File, q \in Process : HasFd(q, f)' => file'[f].page # None
  <2>1. ASSUME NEW f \in File, NEW q \in Process, HasFd(q, f)' PROVE file'[f].page # None
    <3>1. file'[f] # FreeFile
      BY <1>2, <2>1, HoldsIs
    <3>2. file[f].page # None
      <4>1. CASE HasFd(q, f) \/ HasFd(p, f)
        BY <4>1 DEF IInv, FilesOK
      <4>2. CASE pc[p] = "fdalloc" /\ f \in {call[p].f0, call[p].f1}
        BY <4>2 DEF IInv, FilesOK
      <4>3. QED
        BY <2>1, <4>1, <4>2, Gain
    <3>3. QED
      BY <3>1, <3>2, FileMoves DEF SameEnd
  <2>2. QED
    BY <2>1
(* Others than p.                                                          *)
<1>5. ASSUME NEW q \in Process \ {p}
      PROVE  /\ pc'[q] \in {"filealloc", "kalloc", "fdalloc"} => pc'[q] = pc[q] /\ call'[q] = call[q]
             /\ call'[q] = call[q]
  <2>1. CASE ~Forks(p)
    BY <1>0, <2>1, OwnStep DEF OnlyRow, Same
  <2>2. CASE \E r \in Process : Fork(p, r)
    <3>1. PICK r \in Process : Fork(p, r)
      BY <2>2
    <3>2. pc'[r] = "embryo" /\ call'[r] = call[r] /\ \A s \in Process \ {p, r} : Same(s)
      BY <1>0, <3>1, ForkDoes
    <3>3. QED
      BY <3>2 DEF Same
  <2>3. CASE ForkFile(p)
    <3>1. ForkOK(p)
      BY DEF IInv
    <3>2. PICK r \in Process \ {p} : UNCHANGED pc /\ call'[r] = call[r] /\ \A s \in Process \ {p, r} : Same(s)
      BY <1>0, <2>3, <3>1, ForkFileDoes
    <3>3. QED
      BY <3>2 DEF Same
  <2>4. CASE ForkDone(p)
    <3>1. ForkOK(p)
      BY DEF IInv
    <3>2. PICK r \in Process \ {p} : pc'[r] = "user" /\ call'[r] = call[r] /\ \A s \in Process \ {p, r} : Same(s)
      BY <1>0, <2>4, <3>1, ForkDoneDoes
    <3>3. QED
      BY <3>2 DEF Same
  <2>5. QED
    BY <2>1, <2>2, <2>3, <2>4 DEF Forks
<1>6. \A q \in Process : call'[q].f1 # None => call'[q].f0 # call'[q].f1
  <2>1. call'[p].f1 # None => call'[p].f0 # call'[p].f1
    <3>1. CASE SecondFile(p)
      <4>1. ASSUME NEW f \in File, file[f].ref = 0, CallIs(call'[p], call[p].op, call[p].f0, f)
            PROVE  call'[p].f0 # call'[p].f1
        <5>1. call[p].op = "pipe"
          BY <1>0, <3>1, SecondFileDoes DEF CallOK
        <5>2. call[p].f0 # f
          BY <1>3, <4>1, <5>1, HoldsIs DEF First
        <5>3. QED
          BY <4>1, <5>2 DEF CallIs
      <4>2. QED
        BY <1>0, <3>1, <4>1, SecondFileDoes
    <3>2. CASE SysPipe(p) \/ Kalloc(p)
      BY <1>0, <3>2, SysPipeDoes, KallocDoes, Blank DEF CallIs, Idle
    <3>3. CASE ~SysPipe(p) /\ ~SecondFile(p) /\ ~Kalloc(p)
      BY <1>0, <3>3, OldFiles
    <3>4. QED
      BY <3>1, <3>2, <3>3
  <2>2. QED
    BY <1>0, <1>5, <2>1
<1>7. ASSUME NEW q \in Process, NEW f \in New(q)'
      PROVE  f \in File /\ file'[f].page = None /\ (\A r \in Process : ~HasFd(r, f)') /\ \A r \in Process \ {q} : ~Holds(r, f)'
  <2>1. CASE q # p
    <3>1. f \in New(q) /\ pc[q] \in {"filealloc", "kalloc"}
      BY <1>5, <1>7, <2>1 DEF New
    <3>2. CallOK(q) /\ call[q].f1 \in File \cup {None}
      BY <1>0, CallTypes, CallFields DEF IInv
    <3>3. f \in File /\ Holds(q, f)
      BY <3>1, <3>2, HoldsIs DEF New, CallOK, First, Second
    <3>4. /\ file[f].page = None /\ \A r \in Process : ~HasFd(r, f)
          /\ \A r \in Process \ {q} : ~Holds(r, f)
      BY <3>1 DEF IInv, FilesOK
    <3>5. ~Holds(p, f) /\ ~HasFd(p, f) /\ file[f].ref # 0
      BY <1>3, <2>1, <3>3, <3>4
    <3>6. pc[p] \in {"kalloc", "fdalloc"} => f \notin {call[p].f0, call[p].f1}
      BY <1>0, <3>5, HoldsIs DEF CallOK, First, Second
    <3>7. file'[f].page = None
      BY <3>3, <3>4, <3>6, FileMoves DEF SameEnd, FreeFile
    <3>8. ASSUME NEW r \in Process PROVE ~HasFd(r, f)'
      BY <3>3, <3>4, <3>5, <3>6, Gain
    <3>9. ASSUME NEW r \in Process \ {q} PROVE ~Holds(r, f)'
      BY <3>3, <3>4, <3>5, Gain
    <3>10. QED
      BY <3>3, <3>7, <3>8, <3>9
  <2>2. CASE q = p
    <3>1. pc'[p] \in {"filealloc", "kalloc"} /\ f \in {call'[p].f0, call'[p].f1} /\ f # None
      BY <1>7, <2>2 DEF New
    <3>2. SysPipe(p) \/ SecondFile(p)
      <4>1. ~Kalloc(p)
        BY <1>0, <3>1, KallocDoes
      <4>2. QED
        BY <3>1, <4>1, OldFiles
    <3>3. PICK g \in File : /\ file[g].ref = 0 /\ Counted(g, 1)
                            /\ \/ pc'[p] = "filealloc" /\ CallIs(call'[p], "pipe", g, None)
                               \/ pc'[p] = "kalloc" /\ SecondFile(p) /\ CallIs(call'[p], call[p].op, call[p].f0, g)
      BY <1>0, <3>1, <3>2, SysPipeDoes, SecondFileDoes DEF Idle
    <3>4. OnlyRow(p) /\ pc[p] \in {"user", "filealloc"}
      BY <1>0, <3>2, SysPipeDoes, SecondFileDoes
    <3>5. \A h \in File : (HasFd(p, h)' => HasFd(p, h)) /\ \A r \in Process \ {p} : (HasFd(r, h)' <=> HasFd(r, h)) /\ (Holds(r, h)' <=> Holds(r, h))
      BY <3>4, Gain, SameHeld DEF OnlyRow
    <3>6. CASE f = g
      <4>1. file[g].page = None
        BY <1>0, <3>3, TypeIs DEF FreeFile
      <4>2. file'[g].page = None
        BY <3>3, <4>1 DEF Counted
      <4>3. \A r \in Process : ~Holds(r, g) /\ ~HasFd(r, g)
        BY <1>3, <3>3, HoldsIs
      <4>4. QED
        BY <2>2, <3>3, <3>5, <3>6, <4>2, <4>3
    <3>7. CASE f # g
      <4>1. SecondFile(p) /\ f = call[p].f0 /\ pc[p] = "filealloc"
        BY <1>0, <3>1, <3>3, <3>7, SecondFileDoes DEF CallIs
      <4>2. f \in File /\ f \in New(p)
        BY <1>0, <3>1, <4>1 DEF CallOK, New
      <4>3. /\ file[f].page = None /\ \A r \in Process : ~HasFd(r, f)
            /\ \A r \in Process \ {p} : ~Holds(r, f)
        BY <4>2 DEF IInv, FilesOK
      <4>4. file'[f].page = None
        BY <3>3, <3>7, <4>2, <4>3 DEF Counted
      <4>5. QED
        BY <2>2, <3>5, <4>2, <4>3, <4>4
    <3>8. QED
      BY <3>6, <3>7
  <2>3. QED
    BY <2>1, <2>2
<1>8. ASSUME NEW q \in Process, pc'[q] = "fdalloc"
      PROVE  file'[call'[q].f0].page # None /\ file'[call'[q].f1].page # None
  <2>1. CASE q # p
    <3>1. pc[q] = "fdalloc" /\ call'[q] = call[q]
      BY <1>5, <1>8, <2>1
    <3>2. call[q].op = "pipe" /\ call[q].f0 \in File /\ call[q].f1 \in File
      BY <3>1 DEF IInv, CallOK
    <3>3. file[call[q].f0].page # None /\ file[call[q].f1].page # None
      BY <3>1 DEF IInv, FilesOK
    <3>4. ASSUME NEW f \in File, file[f].page # None, file'[f] # FreeFile PROVE file'[f].page # None
      BY <3>4, FileMoves DEF SameEnd
    <3>5. file'[call[q].f0] # FreeFile /\ file'[call[q].f1] # FreeFile
      <4>1. \A f \in File : Holds(q, f)' => file'[f] # FreeFile
        BY <1>2
      <4>2. \A f \in File : First(q, f)' \/ Second(q, f)' => Holds(q, f)'
        BY HoldsIs
      <4>3. \A f \in File : (f = call[q].f0 => First(q, f)') /\ (f = call[q].f1 => Second(q, f)')
        BY <3>1, <3>2 DEF First, Second
      <4>4. QED
        BY <3>2, <4>1, <4>2, <4>3
    <3>6. QED
      BY <3>1, <3>2, <3>3, <3>4, <3>5
  <2>2. CASE q = p
    <3>1. Kalloc(p)
      <4>1. ~SysPipe(p) /\ ~SecondFile(p)
        BY <1>0, <1>8, <2>2, SysPipeDoes, SecondFileDoes DEF Idle
      <4>2. QED
        BY <1>8, <2>2, <4>1, OldFiles
    <3>2. \E c \in Page : Piped(call[p].f0, call[p].f1, c) /\ call'[p] = call[p]
      BY <1>0, <1>8, <2>2, <3>1, KallocDoes
    <3>3. QED
      BY <2>2, <3>2 DEF Piped
  <2>3. QED
    BY <2>1, <2>2
<1>9. QED
  BY <1>1, <1>4, <1>6, <1>7, <1>8 DEF FilesOK

-----------------------------------------------------------------------------
(* The ends of the pipes.                                                  *)

Frees(p, c) == pc[p] = "kfree" /\ call[p].page = c

EndsAt(c) ==
    /\ pipe[c].readopen  <=> HasEnd(c, FALSE)
    /\ pipe[c].writeopen <=> HasEnd(c, TRUE)
    /\ pipe[c].alloc <=> pipe[c].readopen \/ pipe[c].writeopen \/ \E p \in Process : Frees(p, c)
    /\ \A w \in BOOLEAN :
         /\ \A f, g \in File : IsEnd(f, c, w) /\ IsEnd(g, c, w) => f = g
         /\ \A f \in File, p \in Process : ~(IsEnd(f, c, w) /\ Closes(p, c, w))
         /\ \A p, q \in Process : Closes(p, c, w) /\ Closes(q, c, w) => p = q
    /\ \A p \in Process : Frees(p, c) => /\ ~pipe[c].readopen /\ ~pipe[c].writeopen
                                         /\ \A q \in Process : Frees(q, c) => q = p

EndsFine == \A c \in Page : EndsAt(c)

LEMMA EndsFineIs == EndsFine <=> EndsOK /\ EndsMatchFiles
BY DEF EndsFine, EndsAt, EndsOK, EndsMatchFiles, Frees

LEMMA EndsFineIsNext == EndsFine' <=> EndsOK' /\ EndsMatchFiles'
BY DEF EndsFine, EndsAt, EndsOK, EndsMatchFiles, Frees

(* Whatever leaves the ends of a pipe alone.                               *)
SameEnds(c) ==
    /\ pipe'[c] = pipe[c]
    /\ \A w \in BOOLEAN : /\ \A f \in File : IsEnd(f, c, w)' <=> IsEnd(f, c, w)
                          /\ \A p \in Process : Closes(p, c, w)' <=> Closes(p, c, w)
    /\ \A p \in Process : Frees(p, c)' <=> Frees(p, c)

LEMMA SameEndsKept ==
    ASSUME NEW c \in Page, EndsAt(c), SameEnds(c)
    PROVE  EndsAt(c)'
<1>1. /\ pipe'[c] = pipe[c]
      /\ \A w \in BOOLEAN, f \in File : IsEnd(f, c, w)' <=> IsEnd(f, c, w)
      /\ \A w \in BOOLEAN, p \in Process : Closes(p, c, w)' <=> Closes(p, c, w)
      /\ \A p \in Process : Frees(p, c)' <=> Frees(p, c)
  BY DEF SameEnds
<1>2. ASSUME NEW w \in BOOLEAN PROVE HasEnd(c, w)' <=> HasEnd(c, w)
  BY <1>1 DEF HasEnd
<1>3. /\ pipe'[c].readopen  <=> HasEnd(c, FALSE)'
      /\ pipe'[c].writeopen <=> HasEnd(c, TRUE)'
  BY <1>1, <1>2 DEF EndsAt
<1>4. pipe'[c].alloc <=> pipe'[c].readopen \/ pipe'[c].writeopen \/ \E p \in Process : Frees(p, c)'
  BY <1>1 DEF EndsAt
<1>5. ASSUME NEW w \in BOOLEAN
      PROVE  /\ \A f, g \in File : IsEnd(f, c, w)' /\ IsEnd(g, c, w)' => f = g
             /\ \A f \in File, p \in Process : ~(IsEnd(f, c, w)' /\ Closes(p, c, w)')
             /\ \A p, q \in Process : Closes(p, c, w)' /\ Closes(q, c, w)' => p = q
  BY <1>1 DEF EndsAt
<1>6. \A p \in Process : Frees(p, c)' => /\ ~pipe'[c].readopen /\ ~pipe'[c].writeopen
                                         /\ \A q \in Process : Frees(q, c)' => q = p
  BY <1>1 DEF EndsAt
<1>7. QED
  BY <1>3, <1>4, <1>5, <1>6 DEF EndsAt

LEMMA OthersClose ==
    ASSUME NEW q \in Process, Same(q) \/ (pc[q] \notin {"pipeclose", "kfree"} /\ pc'[q] \notin {"pipeclose", "kfree"}),
           NEW c, NEW w
    PROVE  (Closes(q, c, w)' <=> Closes(q, c, w)) /\ (Frees(q, c)' <=> Frees(q, c))
BY DEF Same, Closes, Frees

LEMMA CountedEnds ==
    ASSUME TypeOK, TypeOK', NEW f \in File, file'[f].ref > 0 <=> file[f].ref > 0, SameEnd(f), NEW c, NEW w
    PROVE  IsEnd(f, c, w)' <=> IsEnd(f, c, w)
BY DEF IsEnd, SameEnd

(* The steps that open or close no end.                                    *)
LEMMA QuietEnds ==
    ASSUME IInv, NEW p \in Process, Step(p), ~Kalloc(p), ~FileClose(p), ~PipeClose(p), ~Kfree(p)
    PROVE  EndsFine'
<1>0. TypeOK /\ CallOK(p) /\ ForkOK(p) /\ (call[p].f1 # None => call[p].f0 # call[p].f1) /\ TypeOK' /\ EndsFine
  BY TypeStep, EndsFineIs DEF IInv, FilesOK
<1>1. UNCHANGED pipe
  BY DEF Step, SysPipe, SecondFile, FdAlloc, SysDup, DupCount, Fork, ForkFile, ForkDone, SysClose, Exit, ExitFile,
     ExitDone, SysIo, IoDone
<1>2. ASSUME NEW q \in Process PROVE Same(q) \/ (pc[q] \notin {"pipeclose", "kfree"} /\ pc'[q] \notin {"pipeclose", "kfree"})
  <2>1. CASE \E r \in Process : Fork(p, r)
    <3>1. PICK r \in Process : Fork(p, r)
      BY <2>1
    <3>2. /\ pc[p] = "user" /\ pc[r] = "unused" /\ pc'[p] = "fork" /\ pc'[r] = "embryo"
          /\ \A s \in Process \ {p, r} : Same(s)
      BY <1>0, <3>1, ForkDoes
    <3>3. QED
      BY <3>2
  <2>2. CASE ForkFile(p)
    <3>1. PICK r \in Process \ {p} : /\ pc[p] = "fork" /\ r = call[p].child /\ UNCHANGED pc
                                     /\ \A s \in Process \ {p, r} : Same(s)
      BY <1>0, <2>2, ForkFileDoes
    <3>2. pc[r] = "embryo"
      BY <1>0, <3>1 DEF ForkOK
    <3>3. QED
      BY <3>1, <3>2
  <2>3. CASE ForkDone(p)
    <3>1. PICK r \in Process \ {p} : /\ pc[p] = "fork" /\ pc[r] = "embryo" /\ Idle(p) /\ pc'[r] = "user"
                                     /\ \A s \in Process \ {p, r} : Same(s)
      BY <1>0, <2>3, ForkDoneDoes
    <3>2. QED
      BY <3>1 DEF Idle
  <2>4. CASE SysPipe(p) \/ SecondFile(p) \/ FdAlloc(p) \/ DupCount(p) \/ Exit(p) \/ ExitFile(p) \/ ExitDone(p) \/ IoDone(p)
    BY <1>0, <2>4, SysPipeDoes, SecondFileDoes, FdAllocDoes, DupCountDoes, ExitDoes, ExitFileDoes, ExitDoneDoes, IoDoneDoes
    DEF OnlyRow, Idle
  <2>5. CASE \E fd \in FD : SysDup(p, fd) \/ SysClose(p, fd) \/ SysIo(p, fd)
    <3>1. PICK fd \in FD : SysDup(p, fd) \/ SysClose(p, fd) \/ SysIo(p, fd)
      BY <2>5
    <3>2. OnlyRow(p) /\ pc[p] = "user" /\ pc'[p] \in {"user", "filedup", "fileclose", "io"}
      BY <1>0, <3>1, SysDupDoes, SysCloseDoes, SysIoDoes DEF Idle
    <3>3. QED
      BY <3>2 DEF OnlyRow
  <2>6. QED
    BY <2>1, <2>2, <2>3, <2>4, <2>5 DEF Step
<1>3. ASSUME NEW f \in File, NEW c \in Page, NEW w \in BOOLEAN PROVE IsEnd(f, c, w)' <=> IsEnd(f, c, w)
  <2>1. SameEnd(f)
    BY FileMoves
  <2>2. CASE file'[f].ref > 0 <=> file[f].ref > 0
    BY <1>0, <2>1, <2>2, CountedEnds
  <2>3. CASE SysPipe(p) \/ SecondFile(p)
    <3>1. CASE UNCHANGED file
      BY <3>1 DEF IsEnd
    <3>2. ASSUME NEW g \in File, file[g].ref = 0, Counted(g, 1) PROVE IsEnd(f, c, w)' <=> IsEnd(f, c, w)
      <4>1. CASE f = g
        <5>1. file[f].page = None /\ None \notin Page
          BY <1>0, <3>2, <4>1, TypeIs DEF FreeFile
        <5>2. QED
          BY <2>1, <5>1 DEF IsEnd, SameEnd
      <4>2. CASE f # g
        BY <3>2, <4>2 DEF Counted, IsEnd
      <4>3. QED
        BY <4>1, <4>2
    <3>3. QED
      BY <1>0, <2>3, <3>1, <3>2, SysPipeDoes, SecondFileDoes
  <2>4. CASE DupCount(p) \/ ForkFile(p)
    <3>1. PICK g \in File : Counted(g, file[g].ref + 1) /\ \E q \in Process : HasFd(q, g)
      <4>1. CASE DupCount(p)
        <5>1. /\ pc[p] = "filedup" /\ call[p].f0 \in File /\ Counted(call[p].f0, file[call[p].f0].ref + 1)
          BY <1>0, <4>1, DupCountDoes
        <5>2. HasFd(p, call[p].f0)
          BY <1>0, <5>1 DEF CallOK, HasFd, Stale
        <5>3. QED
          BY <5>1, <5>2
      <4>2. CASE ForkFile(p)
        <5>1. PICK fd \in FD : ofile[p][fd] \in File /\ Counted(ofile[p][fd], file[ofile[p][fd]].ref + 1) /\ pc[p] = "fork"
          BY <1>0, <4>2, ForkFileDoes
        <5>2. HasFd(p, ofile[p][fd])
          BY <1>0, <5>1 DEF CallOK, HasFd, Stale
        <5>3. QED
          BY <5>1, <5>2
      <4>3. QED
        BY <2>4, <4>1, <4>2
    <3>2. file[g].ref \in Nat /\ file[g].ref >= 1
      BY <3>1, Holders, HoldsIs DEF IInv
    <3>3. file'[f].ref > 0 <=> file[f].ref > 0
      BY <3>1, <3>2 DEF Counted
    <3>4. QED
      BY <1>0, <2>1, <3>3, CountedEnds
  <2>5. CASE ~SysPipe(p) /\ ~SecondFile(p) /\ ~DupCount(p) /\ ~ForkFile(p)
    <3>1. UNCHANGED file
      BY <2>5 DEF Step, FdAlloc, SysDup, Fork, ForkDone, SysClose, Exit, ExitFile, ExitDone, SysIo, IoDone
    <3>2. QED
      BY <3>1 DEF IsEnd
  <2>6. QED
    BY <2>3, <2>4, <2>5
<1>4. \A c \in Page : SameEnds(c)
  BY <1>1, <1>2, <1>3, OthersClose DEF SameEnds
<1>5. QED
  BY <1>0, <1>4, SameEndsKept DEF EndsFine

LEMMA KallocEnds ==
    ASSUME IInv, NEW p \in Process, Kalloc(p)
    PROVE  EndsFine'
<1> DEFINE f0 == call[p].f0
           f1 == call[p].f1
<1>0. TypeOK /\ CallOK(p) /\ (f1 # None => f0 # f1) /\ EndsFine
  BY EndsFineIs DEF IInv, FilesOK
<1>1. pc[p] = "kalloc" /\ OnlyRow(p) /\ pc'[p] \in {"fileclose", "fdalloc"}
  BY <1>0, KallocDoes
<1>2. \A q \in Process : Same(q) \/ (pc[q] \notin {"pipeclose", "kfree"} /\ pc'[q] \notin {"pipeclose", "kfree"})
  BY <1>1 DEF OnlyRow
<1>3. \A q \in Process, d \in Page : /\ Frees(q, d)' <=> Frees(q, d)
                                     /\ \A w \in BOOLEAN : Closes(q, d, w)' <=> Closes(q, d, w)
  BY <1>2, OthersClose
<1>4. CASE UNCHANGED <<file, pipe>>
  <2>1. \A d \in Page : SameEnds(d)
    BY <1>3, <1>4 DEF SameEnds, IsEnd
  <2>2. QED
    BY <1>0, <2>1, SameEndsKept DEF EndsFine
<1>5. ASSUME NEW c \in Page, ~pipe[c].alloc, pipe'[c] = NewPipe, \A d \in Page \ {c} : pipe'[d] = pipe[d],
             Piped(f0, f1, c)
      PROVE  EndsFine'
  <2>1. f0 \in File /\ f1 \in File /\ f0 # f1
    BY <1>0, <1>1 DEF CallOK
  <2>2. file[f0].page = None /\ file[f1].page = None /\ ~file[f0].writable
    BY <1>1, <2>1 DEF IInv, FilesOK, New
  <2>3. file[f0].ref > 0 /\ file[f1].ref > 0
    <3>1. call[p].op = "pipe"
      BY <1>0, <1>1 DEF CallOK
    <3>2. Holds(p, f0) /\ Holds(p, f1)
      BY <3>1, HoldsIs DEF First, Second
    <3>3. /\ file[f0].ref \in Nat /\ file[f0].ref >= 1
          /\ file[f1].ref \in Nat /\ file[f1].ref >= 1
      BY <2>1, <3>2, Holders DEF IInv
    <3>4. QED
      BY <3>3
  <2>4. \A f \in File \ {f0, f1}, d \in Page, w \in BOOLEAN : IsEnd(f, d, w)' <=> IsEnd(f, d, w)
    BY <1>5 DEF Piped, IsEnd
  <2>5. \A d \in Page, w \in BOOLEAN : ~IsEnd(f0, d, w) /\ ~IsEnd(f1, d, w)
    BY <2>2 DEF IsEnd
  <2>6. \A f \in File, d \in Page, w \in BOOLEAN :
          IsEnd(f, d, w)' <=> IsEnd(f, d, w) \/ (d = c /\ f = f0 /\ w = FALSE) \/ (d = c /\ f = f1 /\ w = TRUE)
    <3>1. ASSUME NEW d \in Page, NEW w \in BOOLEAN
          PROVE  /\ file'[f0].ref > 0 /\ file'[f0].page = d /\ file'[f0].writable = w <=> d = c /\ w = FALSE
                 /\ file'[f1].ref > 0 /\ file'[f1].page = d /\ file'[f1].writable = w <=> d = c /\ w = TRUE
      <4>1. file'[f0].writable = FALSE
        BY <1>0, <1>5, <2>1, <2>2, TypeIs DEF Piped, FileSet
      <4>2. QED
        BY <1>5, <2>3, <4>1 DEF Piped
    <3>2. ASSUME NEW f \in File, NEW d \in Page, NEW w \in BOOLEAN
          PROVE  IsEnd(f, d, w)' <=> IsEnd(f, d, w) \/ (d = c /\ f = f0 /\ w = FALSE) \/ (d = c /\ f = f1 /\ w = TRUE)
      <4>1. CASE f \notin {f0, f1}
        BY <2>4, <4>1
      <4>2. CASE f = f0
        BY <2>1, <2>5, <3>1, <4>2 DEF IsEnd
      <4>3. CASE f = f1
        BY <2>1, <2>5, <3>1, <4>3 DEF IsEnd
      <4>4. QED
        BY <4>1, <4>2, <4>3
    <3>3. QED
      BY <3>2
  <2>7. \A d \in Page \ {c} : SameEnds(d)
    BY <1>3, <1>5, <2>6 DEF SameEnds
  <2>8. EndsAt(c)'
    <3>1. EndsAt(c) /\ ~pipe[c].readopen /\ ~pipe[c].writeopen /\ \A q \in Process : ~Frees(q, c)
      BY <1>0, <1>5 DEF EndsFine, EndsAt
    <3>2. \A w \in BOOLEAN : (\A f \in File : ~IsEnd(f, c, w)) /\ (\A q \in Process : ~Closes(q, c, w))
      <4>1. ~HasEnd(c, FALSE) /\ ~HasEnd(c, TRUE)
        BY <3>1 DEF EndsAt
      <4>2. QED
        BY <4>1 DEF HasEnd
    <3>3. \A w \in BOOLEAN, f \in File : IsEnd(f, c, w)' <=> (f = f0 /\ w = FALSE) \/ (f = f1 /\ w = TRUE)
      BY <2>6, <3>2
    <3>4. \A w \in BOOLEAN, q \in Process : ~Closes(q, c, w)' /\ ~Frees(q, c)'
      BY <1>3, <3>1, <3>2
    <3>5. HasEnd(c, FALSE)' /\ HasEnd(c, TRUE)'
      BY <2>1, <3>3 DEF HasEnd
    <3>6. pipe'[c].alloc /\ pipe'[c].readopen /\ pipe'[c].writeopen
      BY <1>5 DEF NewPipe, FreePage
    <3>7. QED
      BY <3>3, <3>4, <3>5, <3>6 DEF EndsAt
  <2>9. QED
    BY <1>0, <2>7, <2>8, SameEndsKept DEF EndsFine
<1>6. QED
  BY <1>0, <1>4, <1>5, KallocDoes

(* A process that goes on with its call closes and frees nothing.          *)
LEMMA ContinuesEnds ==
    ASSUME NEW p \in Process, Continues(p), NEW q \in Process, NEW c, NEW w
    PROVE  (Closes(q, c, w)' <=> Closes(q, c, w) /\ q # p) /\ (Frees(q, c)' <=> Frees(q, c) /\ q # p)
<1>1. pc'[p] \notin {"pipeclose", "kfree"}
  BY DEF Continues, Idle
<1>2. \A r \in Process \ {p} : Same(r)
  BY DEF Continues, OnlyRow
<1>3. QED
  BY <1>1, <1>2 DEF Same, Closes, Frees

(* The last reference to a file turns into the close of its end.           *)
LEMMA FileCloseEnds ==
    ASSUME IInv, NEW p \in Process, FileClose(p)
    PROVE  EndsFine'
<1>0. TypeOK /\ CallOK(p) /\ EndsFine
  BY EndsFineIs DEF IInv
<1>f. PICK f \in File : f = call[p].f0
  BY <1>0, FileCloseDoes
<1>1. pc[p] = "fileclose" /\ UNCHANGED pipe
  BY <1>0, FileCloseDoes
<1>2. \A q \in Process, c \in Page, w \in BOOLEAN : Closes(q, c, w) \/ Frees(q, c) => q # p
  BY <1>1 DEF Closes, Frees
<1>3. CASE /\ Continues(p)
           /\ \/ file[f].ref > 1 /\ Counted(f, file[f].ref - 1)
              \/ file[f].page = None /\ file'[f] = FreeFile /\ \A g \in File \ {f} : file'[g] = file[g]
  <2>1. \A q \in Process, c \in Page : /\ Frees(q, c)' <=> Frees(q, c)
                                       /\ \A w \in BOOLEAN : Closes(q, c, w)' <=> Closes(q, c, w)
    BY <1>2, <1>3, ContinuesEnds
  <2>2. ASSUME NEW g \in File, NEW c \in Page, NEW w \in BOOLEAN PROVE IsEnd(g, c, w)' <=> IsEnd(g, c, w)
    <3>1. CASE g # f
      BY <1>3, <3>1 DEF Counted, IsEnd
    <3>2. CASE g = f /\ file[f].ref > 1 /\ Counted(f, file[f].ref - 1)
      <4>1. file[f].ref \in Nat
        BY <1>0, <1>1, TypeIs DEF FileSet
      <4>2. file'[f].ref > 0 /\ file[f].ref > 0 /\ SameEnd(f)
        BY <3>2, <4>1 DEF Counted, SameEnd
      <4>3. QED
        BY <3>2, <4>2 DEF IsEnd, SameEnd
    <3>3. CASE g = f /\ file[f].page = None /\ file'[f] = FreeFile
      <4>1. file'[f].ref = 0 /\ c # None
        BY <3>3 DEF FreeFile
      <4>2. QED
        BY <3>3, <4>1 DEF IsEnd
    <3>4. QED
      BY <1>3, <3>1, <3>2, <3>3
  <2>3. \A c \in Page : SameEnds(c)
    BY <1>1, <2>1, <2>2 DEF SameEnds
  <2>4. QED
    BY <1>0, <2>3, SameEndsKept DEF EndsFine
<1>4. ASSUME file[f].ref = 1, file'[f] = FreeFile, \A g \in File \ {f} : file'[g] = file[g],
             file[f].page # None, OnlyRow(p), pc'[p] = "pipeclose",
             call'[p].page = file[f].page, call'[p].writable = file[f].writable
      PROVE  EndsFine'
  <2>0. PICK v \in BOOLEAN, d \in Page : v = file[f].writable /\ d = file[f].page
    BY <1>0, <1>4, TypeIs DEF FileSet
  <2>1. \A c \in Page, w \in BOOLEAN : ~IsEnd(f, c, w)' /\ (IsEnd(f, c, w) <=> c = d /\ w = v)
    BY <1>4, <2>0 DEF IsEnd, FreeFile
  <2>2. \A g \in File \ {f}, c \in Page, w \in BOOLEAN : IsEnd(g, c, w)' <=> IsEnd(g, c, w)
    BY <1>4 DEF IsEnd
  <2>3. \A q \in Process, c \in Page, w \in BOOLEAN : /\ Closes(q, c, w)' <=> Closes(q, c, w) \/ (q = p /\ c = d /\ w = v)
                                                      /\ Frees(q, c)' <=> Frees(q, c)
    <3>1. \A q \in Process \ {p} : Same(q)
      BY <1>4 DEF OnlyRow
    <3>2. QED
      BY <1>1, <1>4, <2>0, <3>1 DEF Same, Closes, Frees
  <2>6. ASSUME NEW c \in Page, NEW w \in BOOLEAN
        PROVE  /\ HasEnd(c, w)' <=> HasEnd(c, w)
               /\ \A g, h \in File : IsEnd(g, c, w)' /\ IsEnd(h, c, w)' => g = h
               /\ \A g \in File, q \in Process : ~(IsEnd(g, c, w)' /\ Closes(q, c, w)')
               /\ \A q, r \in Process : Closes(q, c, w)' /\ Closes(r, c, w)' => q = r
    <3>1. /\ \A g, h \in File : IsEnd(g, c, w) /\ IsEnd(h, c, w) => g = h
          /\ \A g \in File, q \in Process : ~(IsEnd(g, c, w) /\ Closes(q, c, w))
          /\ \A q, r \in Process : Closes(q, c, w) /\ Closes(r, c, w) => q = r
      BY <1>0, <2>6 DEF EndsFine, EndsAt
    <3>2. CASE c = d /\ w = v
      <4>1. IsEnd(f, c, w) /\ ~IsEnd(f, c, w)' /\ Closes(p, c, w)'
        BY <1>f, <2>1, <2>3, <3>2
      <4>2. \A g \in File : ~IsEnd(g, c, w)'
        <5>1. \A g \in File \ {f} : ~IsEnd(g, c, w)
          BY <3>1, <4>1
        <5>2. ASSUME NEW g \in File PROVE ~IsEnd(g, c, w)'
          BY <2>1, <2>2, <5>1 DEF IsEnd
        <5>3. QED
          BY <5>2
      <4>3. \A q \in Process \ {p} : ~Closes(q, c, w)'
        BY <2>3, <3>1, <4>1
      <4>4. HasEnd(c, w)' /\ HasEnd(c, w)
        BY <4>1 DEF HasEnd
      <4>5. QED
        BY <4>2, <4>3, <4>4
    <3>3. CASE ~(c = d /\ w = v)
      <4>1. \A g \in File : IsEnd(g, c, w)' <=> IsEnd(g, c, w)
        <5>1. ASSUME NEW g \in File PROVE IsEnd(g, c, w)' <=> IsEnd(g, c, w)
          <6>1. CASE g = f
            BY <1>4, <2>1, <3>3, <6>1 DEF IsEnd, FreeFile
          <6>2. CASE g # f
            BY <2>2, <6>2
          <6>3. QED
            BY <6>1, <6>2
        <5>2. QED
          BY <5>1
      <4>2. \A q \in Process : Closes(q, c, w)' <=> Closes(q, c, w)
        BY <2>3, <3>3
      <4>3. HasEnd(c, w)' <=> HasEnd(c, w)
        BY <4>1, <4>2 DEF HasEnd
      <4>4. QED
        BY <3>1, <4>1, <4>2, <4>3
    <3>4. QED
      BY <3>2, <3>3
  <2>7. ASSUME NEW c \in Page PROVE EndsAt(c)'
    <3>1. EndsAt(c) /\ pipe'[c] = pipe[c]
      BY <1>0, <1>1 DEF EndsFine
    <3>2. /\ pipe'[c].readopen  <=> HasEnd(c, FALSE)'
          /\ pipe'[c].writeopen <=> HasEnd(c, TRUE)'
      BY <2>6, <3>1 DEF EndsAt
    <3>3. /\ pipe'[c].alloc <=> pipe'[c].readopen \/ pipe'[c].writeopen \/ \E q \in Process : Frees(q, c)'
          /\ \A q \in Process : Frees(q, c)' => /\ ~pipe'[c].readopen /\ ~pipe'[c].writeopen
                                                /\ \A r \in Process : Frees(r, c)' => r = q
      BY <2>3, <3>1 DEF EndsAt
    <3>4. QED
      BY <2>6, <3>2, <3>3 DEF EndsAt
  <2>8. QED
    BY <2>7 DEF EndsFine
<1>5. QED
  BY <1>0, <1>f, <1>3, <1>4, FileCloseDoes

(* The close of an end.  Who finds both closed is the only one to free the *)
(* page: the end it closes was open until then.                            *)
LEMMA PipeCloseEnds ==
    ASSUME IInv, NEW p \in Process, PipeClose(p)
    PROVE  EndsFine'
<1>0. TypeOK /\ CallOK(p) /\ EndsFine
  BY EndsFineIs DEF IInv
<1>d. PICK d \in Page, v \in BOOLEAN : d = call[p].page /\ v = call[p].writable
  BY <1>0, PipeCloseDoes, CallTypes, CallFields
<1> DEFINE r == pipe[d].readopen /\ v
           w == pipe[d].writeopen /\ ~v
<1>1. /\ pc[p] = "pipeclose" /\ UNCHANGED file
      /\ pipe'[d].alloc = pipe[d].alloc /\ pipe'[d].readopen = r /\ pipe'[d].writeopen = w
      /\ \A c \in Page \ {d} : pipe'[c] = pipe[c]
      /\ \/ ~r /\ ~w /\ pc'[p] = "kfree" /\ OnlyRow(p) /\ call'[p] = call[p]
         \/ (r \/ w) /\ Continues(p)
  BY <1>0, <1>d, PipeCloseDoes
<1>2. \A g \in File, c \in Page, u \in BOOLEAN : IsEnd(g, c, u)' <=> IsEnd(g, c, u)
  BY <1>1 DEF IsEnd
<1>3. \A q \in Process, c \in Page, u \in BOOLEAN : /\ Closes(q, c, u)' <=> Closes(q, c, u) /\ q # p
                                                    /\ Frees(q, c)' <=> Frees(q, c) \/ (q = p /\ c = d /\ ~r /\ ~w)
  <2>1. CASE Continues(p) /\ (r \/ w)
    <3>1. \A q \in Process, c \in Page : Frees(q, c) => q # p
      BY <1>1 DEF Frees
    <3>2. QED
      BY <2>1, <3>1, ContinuesEnds
  <2>2. CASE ~r /\ ~w /\ pc'[p] = "kfree" /\ OnlyRow(p) /\ call'[p] = call[p]
    <3>1. \A q \in Process \ {p} : Same(q)
      BY <2>2 DEF OnlyRow
    <3>2. QED
      BY <1>1, <1>d, <2>2, <3>1 DEF Same, Closes, Frees
  <2>3. QED
    BY <1>1, <2>1, <2>2
<1>4. \A c \in Page, u \in BOOLEAN : Closes(p, c, u) <=> c = d /\ u = v
  BY <1>d, <1>1 DEF Closes
<1>5. \A q \in Process : Closes(q, d, v)' <=> Closes(q, d, v) /\ q # p
  BY <1>3
<1>6. \A c \in Page \ {d} : EndsAt(c)'
  <2>1. \A c \in Page \ {d} : SameEnds(c)
    BY <1>1, <1>2, <1>3, <1>4 DEF SameEnds
  <2>2. QED
    BY <1>0, <2>1, SameEndsKept DEF EndsFine
<1>7. EndsAt(d)'
  <2>1. EndsAt(d)
    BY <1>0, <1>1 DEF EndsFine
  <2>2. \A u \in BOOLEAN : /\ \A g, h \in File : IsEnd(g, d, u)' /\ IsEnd(h, d, u)' => g = h
                           /\ \A g \in File, q \in Process : ~(IsEnd(g, d, u)' /\ Closes(q, d, u)')
                           /\ \A q, s \in Process : Closes(q, d, u)' /\ Closes(s, d, u)' => q = s
    BY <1>2, <1>3, <2>1 DEF EndsAt
  <2>3. ~HasEnd(d, v)'
    <3>1. Closes(p, d, v)
      BY <1>4
    <3>2. \A g \in File : ~IsEnd(g, d, v)'
      BY <1>2, <2>1, <3>1 DEF EndsAt
    <3>3. \A q \in Process : ~Closes(q, d, v)'
      BY <1>3, <2>1, <3>1 DEF EndsAt
    <3>4. QED
      BY <3>2, <3>3 DEF HasEnd
  <2>4. \A u \in BOOLEAN : u # v => (HasEnd(d, u)' <=> HasEnd(d, u))
    BY <1>2, <1>3, <1>4 DEF HasEnd
  <2>5. HasEnd(d, v)
    BY <1>4 DEF HasEnd
  <2>6. (pipe[d].readopen <=> HasEnd(d, FALSE)) /\ (pipe[d].writeopen <=> HasEnd(d, TRUE))
    BY <2>1 DEF EndsAt
  <2>7. (pipe'[d].readopen <=> HasEnd(d, FALSE)') /\ (pipe'[d].writeopen <=> HasEnd(d, TRUE)')
    <3>1. CASE v = TRUE
      BY <1>1, <2>3, <2>4, <2>6, <3>1
    <3>2. CASE v = FALSE
      BY <1>1, <2>3, <2>4, <2>6, <3>2
    <3>3. QED
      BY <3>1, <3>2
  <2>8. \A q \in Process : ~Frees(q, d)
    BY <2>1, <2>5, <2>6 DEF EndsAt
  <2>9. pipe[d].alloc
    BY <2>1, <2>5, <2>6 DEF EndsAt
  <2>10. \A q \in Process : Frees(q, d)' <=> q = p /\ ~pipe'[d].readopen /\ ~pipe'[d].writeopen
    BY <1>1, <1>3, <2>8
  <2>11. QED
    BY <1>1, <2>2, <2>7, <2>9, <2>10 DEF EndsAt
<1>8. QED
  BY <1>6, <1>7 DEF EndsFine

(* The end of a pipe.                                                      *)
LEMMA KfreeEnds ==
    ASSUME IInv, NEW p \in Process, Kfree(p)
    PROVE  EndsFine'
<1>0. TypeOK /\ CallOK(p) /\ EndsFine
  BY EndsFineIs DEF IInv
<1>d. PICK d \in Page : d = call[p].page
  BY <1>0, KfreeDoes
<1>1. /\ pc[p] = "kfree" /\ UNCHANGED file /\ Continues(p)
      /\ pipe'[d] = FreePage /\ \A c \in Page \ {d} : pipe'[c] = pipe[c]
  BY <1>0, <1>d, KfreeDoes
<1>2. \A g \in File, c \in Page, u \in BOOLEAN : IsEnd(g, c, u)' <=> IsEnd(g, c, u)
  BY <1>1 DEF IsEnd
<1>3. \A q \in Process, c \in Page, u \in BOOLEAN : Closes(q, c, u)' <=> Closes(q, c, u)
  <2>1. \A q \in Process, c \in Page, u \in BOOLEAN : Closes(q, c, u) => q # p
    BY <1>1 DEF Closes
  <2>2. QED
    BY <1>1, <2>1, ContinuesEnds
<1>4. \A q \in Process, c \in Page : /\ Frees(q, c)' <=> Frees(q, c) /\ q # p
                                     /\ Frees(p, c) <=> c = d
  BY <1>1, <1>d, ContinuesEnds DEF Frees
<1>5. \A c \in Page \ {d} : EndsAt(c)'
  <2>1. \A c \in Page \ {d} : SameEnds(c)
    BY <1>1, <1>2, <1>3, <1>4 DEF SameEnds
  <2>2. QED
    BY <1>0, <2>1, SameEndsKept DEF EndsFine
<1>6. EndsAt(d)'
  <2>1. EndsAt(d) /\ Frees(p, d)
    BY <1>0, <1>4 DEF EndsFine
  <2>2. ~pipe[d].readopen /\ ~pipe[d].writeopen /\ \A q \in Process : Frees(q, d) => q = p
    BY <2>1 DEF EndsAt
  <2>3. \A q \in Process : ~Frees(q, d)'
    BY <1>4, <2>2
  <2>4. ~HasEnd(d, FALSE) /\ ~HasEnd(d, TRUE)
    BY <2>1, <2>2 DEF EndsAt
  <2>5. \A u \in BOOLEAN : (\A g \in File : ~IsEnd(g, d, u)') /\ \A q \in Process : ~Closes(q, d, u)'
    BY <1>2, <1>3, <1>4, <2>4 DEF HasEnd
  <2>6. ~HasEnd(d, FALSE)' /\ ~HasEnd(d, TRUE)'
    BY <2>5 DEF HasEnd
  <2>7. ~pipe'[d].alloc /\ ~pipe'[d].readopen /\ ~pipe'[d].writeopen
    BY <1>1 DEF FreePage
  <2>8. QED
    BY <2>3, <2>5, <2>6, <2>7 DEF EndsAt
<1>7. QED
  BY <1>5, <1>6 DEF EndsFine

LEMMA EndsStep ==
    ASSUME IInv, NEW p \in Process, Step(p)
    PROVE  EndsOK' /\ EndsMatchFiles'
BY QuietEnds, KallocEnds, FileCloseEnds, PipeCloseEnds, KfreeEnds, EndsFineIsNext

-----------------------------------------------------------------------------
(* Who reads or writes keeps a descriptor of its end: only its own steps   *)
(* take one away, and it waits.                                            *)

LEMMA IoStarts ==
    ASSUME IInv, NEW p \in Process, Step(p), pc'[p] = "io"
    PROVE  \E fd \in FD : SysIo(p, fd)
<1>0. TypeOK /\ CallOK(p) /\ ForkOK(p) /\ (call[p].f1 # None => call[p].f0 # call[p].f1)
  BY DEF IInv, FilesOK
<1>1. ~Continues(p)
  BY DEF Continues, Idle
<1>2. ~SysPipe(p) /\ ~SecondFile(p) /\ ~Kalloc(p) /\ ~FdAlloc(p)
  <2>1. ~SysPipe(p)
    BY <1>0, SysPipeDoes DEF Idle
  <2>2. ~SecondFile(p)
    BY <1>0, SecondFileDoes
  <2>3. ~Kalloc(p)
    BY <1>0, KallocDoes
  <2>4. ~FdAlloc(p)
    BY <1>0, FdAllocDoes DEF Idle
  <2>5. QED
    BY <2>1, <2>2, <2>3, <2>4
<1>3. ~DupCount(p) /\ ~Exit(p) /\ ~ExitFile(p) /\ ~ExitDone(p) /\ ~IoDone(p)
  BY <1>0, DupCountDoes, ExitDoes, ExitFileDoes, ExitDoneDoes, IoDoneDoes DEF Idle
<1>4. ~FileClose(p) /\ ~PipeClose(p) /\ ~Kfree(p)
  BY <1>0, <1>1, FileCloseDoes, PipeCloseDoes, KfreeDoes
<1>5. ~ForkFile(p) /\ ~ForkDone(p)
  BY <1>0, ForkFileDoes, ForkDoneDoes DEF Idle
<1>6. ASSUME NEW q \in Process PROVE ~Fork(p, q)
  BY <1>0, ForkDoes
<1>7. ASSUME NEW fd \in FD PROVE ~SysDup(p, fd) /\ ~SysClose(p, fd)
  BY <1>0, SysDupDoes, SysCloseDoes DEF Idle
<1>8. QED
  BY <1>2, <1>3, <1>4, <1>5, <1>6, <1>7 DEF Step

LEMMA IoOthers ==
    ASSUME IInv, NEW p \in Process, Step(p), NEW q \in Process \ {p}, pc'[q] = "io"
    PROVE  Same(q)
<1>0. TypeOK /\ CallOK(p) /\ ForkOK(p) /\ (call[p].f1 # None => call[p].f0 # call[p].f1)
  BY DEF IInv, FilesOK
<1>1. CASE ~Forks(p)
  BY <1>0, <1>1, OwnStep DEF OnlyRow
<1>2. CASE \E r \in Process : Fork(p, r)
  <2>1. PICK r \in Process : Fork(p, r)
    BY <1>2
  <2>2. QED
    BY <1>0, <2>1, ForkDoes
<1>3. CASE ForkFile(p)
  <2>1. PICK r \in Process \ {p} : r = call[p].child /\ pc[p] = "fork" /\ UNCHANGED pc /\ \A s \in Process \ {p, r} : Same(s)
    BY <1>0, <1>3, ForkFileDoes
  <2>2. pc[r] = "embryo"
    BY <1>0, <2>1 DEF ForkOK
  <2>3. QED
    BY <2>1, <2>2
<1>4. CASE ForkDone(p)
  <2>1. PICK r \in Process \ {p} : pc'[r] = "user" /\ \A s \in Process \ {p, r} : Same(s)
    BY <1>0, <1>4, ForkDoneDoes
  <2>2. QED
    BY <2>1
<1>5. QED
  BY <1>1, <1>2, <1>3, <1>4 DEF Forks

LEMMA IoStep ==
    ASSUME IInv, NEW p \in Process, Step(p), NEW q \in Process
    PROVE  IoOK(q)'
<1>1. CASE pc'[q] # "io"
  BY <1>1 DEF IoOK
<1>2. CASE pc'[q] = "io" /\ q # p
  <2>1. Same(q)
    BY <1>2, IoOthers
  <2>2. PICK f \in File : HasFd(q, f) /\ file[f].page = call[q].page /\ file[f].writable = call[q].writable
    BY <1>2, <2>1 DEF IInv, IoOK, Same
  <2>3. HasFd(q, f)'
    BY <2>1, <2>2, SameHeld
  <2>4. SameEnd(f)
    <3>1. file'[f] # FreeFile
      <4>1. file'[f].ref >= 1
        BY <2>3, HoldersNext, HoldsIs, RefsStep
      <4>2. QED
        BY <4>1 DEF FreeFile
    <3>2. ~(pc[p] = "kalloc" /\ f \in {call[p].f0, call[p].f1})
      BY <2>2 DEF IInv, FilesOK, New
    <3>3. QED
      BY <3>1, <3>2, FileMoves
  <2>5. QED
    BY <2>1, <2>2, <2>3, <2>4 DEF IoOK, Same, SameEnd
<1>3. CASE pc'[q] = "io" /\ q = p
  <2>1. PICK fd \in FD : SysIo(p, fd)
    BY <1>3, IoStarts
  <2>2. PICK f \in File : f = ofile[p][fd]
    BY <2>1, SysIoDoes DEF IInv
  <2>3. /\ UNCHANGED <<file, ofile>> /\ pc'[p] = "io" /\ call'[p].op = "io"
        /\ call'[p].page = file[f].page /\ call'[p].writable = file[f].writable
    BY <2>1, <2>2, SysIoDoes DEF IInv, CallIs
  <2>4. HasFd(p, f)'
    BY <2>2, <2>3 DEF HasFd, Stale
  <2>5. QED
    BY <1>3, <2>3, <2>4 DEF IoOK
<1>4. QED
  BY <1>1, <1>2, <1>3

-----------------------------------------------------------------------------
(* The invariant is inductive.                                             *)

LEMMA Inductive == IInv /\ [Next]_vars => IInv'
<1> SUFFICES ASSUME IInv, [Next]_vars PROVE IInv'
  OBVIOUS
<1>1. CASE UNCHANGED vars
  <2>1. UNCHANGED <<file, pipe, ofile, pc, call>>
    BY <1>1 DEF vars
  <2>2. TypeOK'
    BY <2>1 DEF IInv, TypeOK
  <2>3. \A p \in Process : CallOK(p)' /\ ForkOK(p)' /\ IoOK(p)'
    BY <2>1 DEF IInv, CallOK, ForkOK, IoOK, Open, HasFd, Stale
  <2>4. RefsAreHolders'
    BY <2>1 DEF IInv, RefsAreHolders, Descriptors, FirstOf, SecondOf, Stale
  <2>5. FilesOK'
    BY <2>1 DEF IInv, FilesOK, New, HasFd, Holds, FirstOf, SecondOf, Stale
  <2>6. EndsOK' /\ EndsMatchFiles'
    BY <2>1 DEF IInv, EndsOK, EndsMatchFiles, HasEnd, IsEnd, Closes
  <2>7. QED
    BY <2>2, <2>3, <2>4, <2>5, <2>6 DEF IInv
<1>2. ASSUME NEW p \in Process, Step(p) PROVE IInv'
  <2>1. \A q \in Process : CallOK(q)' /\ ForkOK(q)' /\ IoOK(q)'
    BY <1>2, CallStep, ForkStep, IoStep
  <2>2. QED
    BY <1>2, <2>1, TypeStep, RefsStep, FilesStep, EndsStep DEF IInv
<1>3. QED
  BY <1>1, <1>2 DEF Next

LEMMA Safe == IInv => NoUseAfterClose
<1> SUFFICES ASSUME IInv PROVE NoUseAfterClose
  OBVIOUS
<1>0. TypeOK /\ EndsFine
  BY EndsFineIs DEF IInv
<1>1. ASSUME NEW p \in Process, pc[p] = "io"
      PROVE  /\ call[p].page \in Page
             /\ IF call[p].writable THEN pipe[call[p].page].writeopen ELSE pipe[call[p].page].readopen
  <2>1. PICK f \in File : HasFd(p, f) /\ file[f].page = call[p].page /\ file[f].writable = call[p].writable
    BY <1>1 DEF IInv, IoOK
  <2>2. file[f].page \in Page /\ file[f].writable \in BOOLEAN
    BY <1>0, <2>1, TypeIs DEF IInv, FilesOK, FileSet
  <2>3. file[f].ref \in Nat /\ file[f].ref >= 1
    BY <2>1, Holders DEF IInv, Holds
  <2>4. IsEnd(f, call[p].page, call[p].writable)
    BY <2>1, <2>3 DEF IsEnd
  <2>5. HasEnd(call[p].page, call[p].writable)
    BY <2>4 DEF HasEnd
  <2>6. CASE call[p].writable = TRUE
    BY <1>0, <2>1, <2>2, <2>5, <2>6 DEF EndsFine, EndsAt
  <2>7. CASE call[p].writable = FALSE
    BY <1>0, <2>1, <2>2, <2>5, <2>7 DEF EndsFine, EndsAt
  <2>8. QED
    BY <2>1, <2>2, <2>6, <2>7
<1>2. ASSUME NEW p \in Process, pc[p] = "kfree"
      PROVE  /\ pipe[call[p].page].alloc
             /\ \A q \in Process \ {p} : pc[q] \in {"io", "pipeclose", "kfree"} => call[q].page # call[p].page
  <2>1. PICK c \in Page : c = call[p].page
    BY <1>2 DEF IInv, CallOK
  <2>2. EndsAt(c) /\ Frees(p, c)
    BY <1>0, <1>2, <2>1 DEF EndsFine, Frees
  <2>3. pipe[c].alloc /\ ~pipe[c].readopen /\ ~pipe[c].writeopen /\ \A q \in Process : Frees(q, c) => q = p
    BY <2>2 DEF EndsAt
  <2>4. ASSUME NEW q \in Process \ {p}, pc[q] \in {"io", "pipeclose", "kfree"}, call[q].page = c
        PROVE  FALSE
    <3>1. CASE pc[q] = "io"
      BY <1>1, <2>3, <2>4, <3>1
    <3>2. CASE pc[q] = "pipeclose"
      <4>1. PICK w \in BOOLEAN : w = call[q].writable
        BY <1>0, CallTypes, CallFields
      <4>2. HasEnd(c, w)
        BY <2>4, <3>2, <4>1 DEF HasEnd, Closes
      <4>3. QED
        BY <2>2, <2>3, <4>2 DEF EndsAt
    <3>3. CASE pc[q] = "kfree"
      BY <2>3, <2>4, <3>3 DEF Frees
    <3>4. QED
      BY <2>4, <3>1, <3>2, <3>3
  <2>5. QED
    BY <2>1, <2>3, <2>4
<1>3. ASSUME NEW p \in Process, pc[p] \in {"filedup", "fileclose"} PROVE file[call[p].f0].ref > 0
  <2>1. CallOK(p) /\ call[p].f0 \in File
    BY <1>3 DEF IInv, CallOK
  <2>2. Holds(p, call[p].f0)
    <3>1. CASE pc[p] = "filedup"
      BY <2>1, <3>1 DEF CallOK, Holds, HasFd, Stale
    <3>2. CASE pc[p] = "fileclose" /\ call[p].op = "exit"
      BY <2>1, <3>2 DEF CallOK, Holds, HasFd, Stale
    <3>3. CASE pc[p] = "fileclose" /\ call[p].op # "exit"
      BY <2>1, <3>3 DEF CallOK, Holds, FirstOf
    <3>4. QED
      BY <1>3, <3>1, <3>2, <3>3
  <2>3. file[call[p].f0].ref \in Nat /\ file[call[p].f0].ref >= 1
    BY <2>1, <2>2, Holders DEF IInv
  <2>4. QED
    BY <2>3
<1>4. QED
  BY <1>1, <1>2, <1>3 DEF NoUseAfterClose

-----------------------------------------------------------------------------
(* The theorems.                                                           *)

LEMMA Invariant == Spec => []IInv
BY InitInductive, Inductive, PTL DEF Spec

(* Whatever the processes do, the table of files, the pipes and the        *)
(* descriptors hold values of their types, and a file that nobody refers   *)
(* to is empty (fileclose makes it so, filealloc hands it out).            *)
THEOREM TypeCorrect == Spec => []TypeOK
<1>1. IInv => TypeOK
  BY DEF IInv
<1>2. QED
  BY <1>1, Invariant, PTL

(* The count of a file is the number of its references, for any number of  *)
(* processes that dup, fork, close, exit and fail at the same time.        *)
THEOREM RefsCorrect == Spec => []RefsAreHolders
<1>1. IInv => RefsAreHolders
  BY DEF IInv
<1>2. QED
  BY <1>1, Invariant, PTL

(* An end of a pipe is open exactly while a file of that direction is in   *)
(* use or its close is on its way, and a page is allocated exactly while   *)
(* an end is open or its kfree is on its way.                              *)
THEOREM EndsCorrect == Spec => []EndsMatchFiles
<1>1. IInv => EndsMatchFiles
  BY DEF IInv
<1>2. QED
  BY <1>1, Invariant, PTL

(* Nobody reads, writes, closes or counts what another has closed, and the *)
(* page of a pipe is freed once, by the last who knows it.                 *)
THEOREM CloseCorrect == Spec => []NoUseAfterClose
BY Invariant, Safe, PTL
=============================================================================
