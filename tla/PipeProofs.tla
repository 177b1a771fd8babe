----------------------------- MODULE PipeProofs -----------------------------
(***************************************************************************)
(* Proofs that a pipe keeps the invariants of PipeProps and is the stream  *)
(* of ByteStream, for any processes, any size of the ring and of its       *)
(* counters, and any buffers.                                              *)
(***************************************************************************)
EXTENDS PipeProps, SequenceTheorems, TLAPS

USE PipeAssumption

(* What % does to a sum that has gone around the counter once at most.     *)
LEMMA ModOnce ==
    \A n \in Nat \ {0} : \A a \in 0 .. 2 * n - 1 : a % n = IF a < n THEN a ELSE a - n
<1> SUFFICES ASSUME NEW n \in Nat \ {0}, NEW a \in 0 .. 2 * n - 1
             PROVE  a % n = IF a < n THEN a ELSE a - n
  OBVIOUS
<1>1. CASE a < n
  BY <1>1
<1>2. CASE ~(a < n)
  BY <1>2
<1>3. QED
  BY <1>1, <1>2

(* The counters, how far apart they are, and how they move.                *)
Between(r, w) == IF r <= w THEN w - r ELSE w + UINT - r

Arithmetic(r, w) ==
    /\ (w + UINT - r) % UINT = Between(r, w)
    /\ w = (r + PIPESIZE) % UINT <=> Between(r, w) = PIPESIZE
    /\ (r + w) % UINT = IF r + w < UINT THEN r + w ELSE r + w - UINT

LEMMA CounterArithmetic == \A r, w \in 0 .. UINT - 1 : Arithmetic(r, w)
<1> SUFFICES ASSUME NEW r \in 0 .. UINT - 1, NEW w \in 0 .. UINT - 1 PROVE Arithmetic(r, w)
  BY Zenon
<1> DEFINE Wrapped(a) == IF a < UINT THEN a ELSE a - UINT
<1>1. UINT \in Nat \ {0} /\ PIPESIZE \in 0 .. UINT - 1
  OBVIOUS
<1>2. \A a \in 0 .. 2 * UINT - 1 : a % UINT = Wrapped(a)
  BY <1>1, ModOnce
<1>3. /\ w + UINT - r \in 0 .. 2 * UINT - 1
      /\ r + PIPESIZE \in 0 .. 2 * UINT - 1
      /\ r + w \in 0 .. 2 * UINT - 1
  BY <1>1
<1> HIDE DEF Wrapped
<1>4. /\ (w + UINT - r) % UINT = Wrapped(w + UINT - r)
      /\ (r + PIPESIZE) % UINT = Wrapped(r + PIPESIZE)
      /\ (r + w) % UINT = Wrapped(r + w)
  BY <1>2, <1>3
<1>5. /\ Wrapped(w + UINT - r) = Between(r, w)
      /\ w = Wrapped(r + PIPESIZE) <=> Between(r, w) = PIPESIZE
      /\ Wrapped(r + w) = IF r + w < UINT THEN r + w ELSE r + w - UINT
  BY <1>1 DEF Wrapped, Between
<1>6. QED
  BY <1>4, <1>5, Zenon DEF Arithmetic

LEMMA Counters ==
    ASSUME TypeOK
    PROVE  /\ Held = Between(pipe.nread, pipe.nwrite)
           /\ Held \in 0 .. UINT - 1
           /\ Full <=> Held = PIPESIZE
           /\ Empty <=> Held = 0
           /\ \A at \in 0 .. UINT - 1, k \in 0 .. UINT - 1 :
                Advanced(at, k) = IF at + k < UINT THEN at + k ELSE at + k - UINT
<1>1. pipe.nread \in 0 .. UINT - 1 /\ pipe.nwrite \in 0 .. UINT - 1
  BY DEF TypeOK
<1>2. Held = Between(pipe.nread, pipe.nwrite) /\ (Full <=> Held = PIPESIZE)
  <2> DEFINE r == pipe.nread
             w == pipe.nwrite
  <2>1. Held = (w + UINT - r) % UINT /\ (Full <=> w = (r + PIPESIZE) % UINT)
    BY DEF Held, Full
  <2>2. r \in 0 .. UINT - 1 /\ w \in 0 .. UINT - 1
    BY <1>1
  <2> HIDE DEF r, w
  <2>3. Arithmetic(r, w)
    BY <2>2, CounterArithmetic, Zenon
  <2>4. Held = Between(r, w) /\ (Full <=> Held = PIPESIZE)
    BY <2>1, <2>3, Zenon DEF Arithmetic
  <2>5. QED
    BY <2>4 DEF r, w
<1>3. /\ Between(pipe.nread, pipe.nwrite) \in 0 .. UINT - 1
      /\ pipe.nread = pipe.nwrite <=> Between(pipe.nread, pipe.nwrite) = 0
  BY <1>1 DEF Between
<1>4. \A at \in 0 .. UINT - 1, k \in 0 .. UINT - 1 :
        Advanced(at, k) = IF at + k < UINT THEN at + k ELSE at + k - UINT
  <2> SUFFICES ASSUME NEW at \in 0 .. UINT - 1, NEW k \in 0 .. UINT - 1
               PROVE  Advanced(at, k) = IF at + k < UINT THEN at + k ELSE at + k - UINT
    BY Zenon
  <2>1. Arithmetic(at, k)
    BY CounterArithmetic, Zenon
  <2>2. QED
    BY <2>1, Zenon DEF Arithmetic, Advanced
<1>5. QED
  BY <1>2, <1>3, <1>4, Zenon DEF Empty

(* The same of the pipe after a step.                                      *)
LEMMA CountersNext ==
    ASSUME TypeOK'
    PROVE  /\ Held' = Between(pipe'.nread, pipe'.nwrite)
           /\ Held' \in 0 .. UINT - 1
           /\ Full' <=> Held' = PIPESIZE
<1>1. pipe'.nread \in 0 .. UINT - 1 /\ pipe'.nwrite \in 0 .. UINT - 1
  BY DEF TypeOK
<1>2. Held' = Between(pipe'.nread, pipe'.nwrite) /\ (Full' <=> Held' = PIPESIZE)
  <2> DEFINE r == pipe'.nread
             w == pipe'.nwrite
  <2>1. Held' = (w + UINT - r) % UINT /\ (Full' <=> w = (r + PIPESIZE) % UINT)
    BY DEF Held, Full
  <2>2. r \in 0 .. UINT - 1 /\ w \in 0 .. UINT - 1
    BY <1>1
  <2> HIDE DEF r, w
  <2>3. Arithmetic(r, w)
    BY <2>2, CounterArithmetic, Zenon
  <2>4. Held' = Between(r, w) /\ (Full' <=> Held' = PIPESIZE)
    BY <2>1, <2>3, Zenon DEF Arithmetic
  <2>5. QED
    BY <2>4 DEF r, w
<1>3. Between(pipe'.nread, pipe'.nwrite) \in 0 .. UINT - 1
  BY <1>1 DEF Between
<1>4. QED
  BY <1>2, <1>3

(* Reading brings the counters together, writing takes them apart.         *)
LEMMA Moves ==
    \A r, w, k \in 0 .. UINT - 1 :
        LET Moved(at) == IF at + k < UINT THEN at + k ELSE at + k - UINT IN
        /\ k <= Between(r, w) => Between(Moved(r), w) <= Between(r, w)
        /\ Between(r, w) + k < UINT => Between(r, Moved(w)) = Between(r, w) + k
<1> SUFFICES ASSUME NEW r \in 0 .. UINT - 1, NEW w \in 0 .. UINT - 1, NEW k \in 0 .. UINT - 1
             PROVE  LET Moved(at) == IF at + k < UINT THEN at + k ELSE at + k - UINT IN
                    /\ k <= Between(r, w) => Between(Moved(r), w) <= Between(r, w)
                    /\ Between(r, w) + k < UINT => Between(r, Moved(w)) = Between(r, w) + k
  BY Zenon
<1> DEFINE Moved(at) == IF at + k < UINT THEN at + k ELSE at + k - UINT
<1>1. r \in Int /\ w \in Int /\ k \in Int /\ UINT \in Int
  OBVIOUS
<1>2. 0 <= r /\ r < UINT /\ 0 <= w /\ w < UINT /\ 0 <= k /\ k < UINT
  OBVIOUS
<1>3. CASE r <= w
  BY <1>1, <1>2, <1>3 DEF Between
<1>4. CASE ~(r <= w)
  BY <1>1, <1>2, <1>4 DEF Between
<1>5. QED
  BY <1>3, <1>4

-----------------------------------------------------------------------------
(* Types.                                                                  *)

LEMMA StoredType ==
    ASSUME NEW d \in [0 .. PIPESIZE - 1 -> Byte \cup {Junk}], NEW at \in Nat,
           NEW bs, NEW n \in Nat, Len(bs) = n,
           \A i \in 1 .. n : bs[i] \in Byte \cup {Junk}
    PROVE  Stored(d, at, bs) \in [0 .. PIPESIZE - 1 -> Byte \cup {Junk}]
BY DEF Stored

LEMMA SmallerType ==
    ASSUME NEW m \in Nat, NEW n \in Nat
    PROVE  Smaller(m, n) \in Nat /\ Smaller(m, n) <= m /\ Smaller(m, n) <= n
BY DEF Smaller

LEMMA WokenTypes ==
    ASSUME TypeOK
    PROVE  /\ WokenReaders \in [Process -> {"unused", "user", "exit", "pipeclose", "kfree"} \cup Reading \cup Writing]
           /\ WokenWriters \in [Process -> {"unused", "user", "exit", "pipeclose", "kfree"} \cup Reading \cup Writing]
BY DEF TypeOK, WokenReaders, WokenWriters, At, Reading, Writing

(* The number of bytes that pipewrite stores, and those that are left.     *)
LEMMA Written ==
    ASSUME NEW bs \in Seq(Byte), NEW k \in Nat, k <= Len(bs)
    PROVE  /\ SubSeq(bs, 1, k) \in Seq(Byte) /\ Len(SubSeq(bs, 1, k)) = k
           /\ SubSeq(bs, k + 1, Len(bs)) \in Seq(Byte)
           /\ SubSeq(bs, k + 1, Len(bs)) = <<>> <=> k = Len(bs)
<1>1. Len(bs) \in Nat
  BY LenProperties
<1>2. \A i \in 1 .. Len(bs) : bs[i] \in Byte
  BY LenProperties
<1>3. SubSeq(bs, 1, k) \in Seq(Byte) /\ Len(SubSeq(bs, 1, k)) = k
  BY <1>1, <1>2, SubSeqProperties
<1>4. /\ SubSeq(bs, k + 1, Len(bs)) \in Seq(Byte)
      /\ Len(SubSeq(bs, k + 1, Len(bs))) = Len(bs) - k
  <2>1. k + 1 \in Int /\ Len(bs) \in Int /\ \A i \in k + 1 .. Len(bs) : bs[i] \in Byte
    BY <1>1, <1>2
  <2>2. QED
    BY <1>1, <2>1, SubSeqProperties
<1>5. SubSeq(bs, k + 1, Len(bs)) = <<>> <=> k = Len(bs)
  <2> DEFINE rest == SubSeq(bs, k + 1, Len(bs))
  <2>1. rest \in Seq(Byte) /\ Len(rest) = Len(bs) - k
    BY <1>4
  <2> HIDE DEF rest
  <2>2. rest = <<>> <=> Len(rest) = 0
    BY <2>1, EmptySeq
  <2>3. rest = <<>> <=> k = Len(bs)
    BY <1>1, <2>1, <2>2
  <2>4. QED
    BY <2>3, Zenon DEF rest
<1>6. QED
  BY <1>3, <1>4, <1>5

CallSet == [bytes : Seq(Byte), n : Nat, end : {"r", "w", None}, exits : BOOLEAN]

LEMMA CallTypes ==
    ASSUME TypeOK, NEW p \in Process, NEW bs \in Seq(Byte)
    PROVE  /\ NoCall \in CallSet /\ [NoCall EXCEPT !.bytes = bs] \in CallSet
           /\ call \in [Process -> CallSet]
           /\ [call EXCEPT ![p].bytes = bs] \in [Process -> CallSet]
           /\ \A c \in CallSet : [call EXCEPT ![p] = c] \in [Process -> CallSet]
<1>1. NoCall \in CallSet /\ [NoCall EXCEPT !.bytes = bs] \in CallSet
  BY EmptySeq DEF NoCall, CallSet
<1>2. call \in [Process -> CallSet]
  BY DEF TypeOK, CallSet
<1>3. [call[p] EXCEPT !.bytes = bs] \in CallSet
  BY <1>2 DEF CallSet
<1>4. QED
  BY <1>1, <1>2, <1>3

(* Actions that leave the page alone, and what they write has its type.    *)
LEMMA CallSteps ==
    ASSUME TypeOK, NEW p \in Process,
           \/ Exit(p) \/ ExitDone(p) \/ Sleep(p)
           \/ \E q \in Process : Fork(p, q) \/ Kill(p, q)
           \/ \E e \in {"r", "w"} : SysClose(p, e) \/ ExitFile(p, e)
           \/ \E n \in Counts : SysRead(p, n)
           \/ \E bs \in Buffers : SysWrite(p, bs)
    PROVE  TypeOK'
<1>1. UNCHANGED pipe
  BY DEF Exit, ExitDone, Sleep, Fork, Kill, SysClose, ExitFile, FileClose, SysRead, SysWrite
<1> USE DEF TypeOK, At, User, Goto, Calls, Return, NoCall, Reading, Writing
<1>2. CASE Exit(p)
  BY <1>1, <1>2, EmptySeq DEF Exit
<1>3. CASE ExitDone(p)
  BY <1>1, <1>3, EmptySeq DEF ExitDone
<1>4. CASE Sleep(p)
  BY <1>1, <1>4 DEF Sleep
<1>5. ASSUME NEW q \in Process, Fork(p, q) PROVE TypeOK'
  BY <1>1, <1>5 DEF Fork
<1>6. ASSUME NEW q \in Process, Kill(p, q) PROVE TypeOK'
  <2>1. Kicked(q) \in {"unused", "user", "exit", "pipeclose", "kfree"} \cup Reading \cup Writing
    BY DEF Kicked
  <2>2. QED
    BY <1>1, <1>6, <2>1 DEF Kill
<1>7. ASSUME NEW e \in {"r", "w"}, SysClose(p, e) \/ ExitFile(p, e) PROVE TypeOK'
  <2>1. PICK exits \in BOOLEAN : FileClose(p, e, exits)
    BY <1>7 DEF SysClose, ExitFile
  <2> DEFINE c == [NoCall EXCEPT !.end = e, !.exits = exits]
  <2>2. c \in CallSet
    BY EmptySeq DEF CallSet
  <2>3. /\ ends' = [ends EXCEPT ![p] = @ \ {e}] /\ UNCHANGED <<lock, killed>>
        /\ pc' \in {pc, [pc EXCEPT ![p] = "pipeclose"]}
        /\ call' \in {call, [call EXCEPT ![p] = c]}
    BY <2>1 DEF FileClose
  <2>4. call' \in [Process -> CallSet]
    <3>1. call \in [Process -> CallSet]
      BY DEF CallSet
    <3> HIDE DEF c, TypeOK, NoCall
    <3>2. [call EXCEPT ![p] = c] \in [Process -> CallSet]
      BY <2>2, <3>1
    <3>3. QED
      BY <2>3, <3>1, <3>2, Zenon
  <2>5. QED
    BY <1>1, <2>3, <2>4 DEF CallSet
<1>8. ASSUME NEW n \in Counts, SysRead(p, n) PROVE TypeOK'
  BY <1>1, <1>8, EmptySeq DEF SysRead
<1>9. ASSUME NEW bs \in Buffers, SysWrite(p, bs) PROVE TypeOK'
  <2>1. bs \in Seq(Byte)
    OBVIOUS
  <2>2. call' \in [Process -> CallSet]
    <3>1. call' = [call EXCEPT ![p] = [NoCall EXCEPT !.bytes = bs]]
      BY <1>9 DEF SysWrite
    <3>2. QED
      BY <2>1, <3>1, CallTypes
  <2>3. pc' = [pc EXCEPT ![p] = "pipewrite"] /\ UNCHANGED <<lock, ends, killed>>
    BY <1>9 DEF SysWrite
  <2>4. pc' \in [Process -> {"unused", "user", "exit", "pipeclose", "kfree"} \cup Reading \cup Writing]
    BY <2>3
  <2>5. call' \in [Process -> [bytes : Seq(Byte), n : Nat, end : {"r", "w", None}, exits : BOOLEAN]]
    BY <2>2 DEF CallSet
  <2>6. QED
    BY <1>1, <2>3, <2>4, <2>5
<1>10. QED
  BY <1>2, <1>3, <1>4, <1>5, <1>6, <1>7, <1>8, <1>9

LEMMA PageSteps ==
    ASSUME TypeOK, NEW p \in Process, SysPipe(p) \/ PipeClose(p) \/ Kfree(p)
    PROVE  TypeOK'
<1>0. /\ UNCHANGED lock /\ UNCHANGED killed
      /\ FreePage \in [alloc : BOOLEAN, readopen : BOOLEAN, writeopen : BOOLEAN,
                       nread : 0 .. UINT - 1, nwrite : 0 .. UINT - 1,
                       data : [0 .. PIPESIZE - 1 -> Byte \cup {Junk}]]
  BY DEF SysPipe, PipeClose, Kfree, FreePage
<1>1. CASE SysPipe(p)
  BY <1>0, <1>1 DEF SysPipe, NewPipe, TypeOK
<1> DEFINE Pcs == [Process -> {"unused", "user", "exit", "pipeclose", "kfree"} \cup Reading \cup Writing]
<1>2. ASSUME NEW pcs \in Pcs, AfterClose(p, pcs)
      PROVE  pc' \in Pcs /\ call' \in [Process -> [bytes : Seq(Byte), n : Nat, end : {"r", "w", None}, exits : BOOLEAN]]
  <2>1. /\ pc' \in {[pcs EXCEPT ![p] = "exit"], [pcs EXCEPT ![p] = "user"]}
        /\ call' = [call EXCEPT ![p].end = None]
    BY <1>2 DEF AfterClose
  <2>2. pc' \in Pcs
    <3>1. "exit" \in {"unused", "user", "exit", "pipeclose", "kfree"} /\ "user" \in {"unused", "user", "exit", "pipeclose", "kfree"}
      OBVIOUS
    <3>2. QED
      BY <1>2, <2>1, <3>1
  <2>3. call \in [Process -> CallSet]
    BY DEF TypeOK, CallSet
  <2>4. [call[p] EXCEPT !.end = None] \in CallSet
    <3>1. call[p] \in CallSet
      BY <2>3
    <3>2. QED
      BY <3>1 DEF CallSet
  <2>5. call' \in [Process -> CallSet]
    BY <2>1, <2>3, <2>4
  <2>6. QED
    BY <2>2, <2>5 DEF CallSet
<1>3. CASE PipeClose(p)
  <2>1. /\ pipe' \in [alloc : BOOLEAN, readopen : BOOLEAN, writeopen : BOOLEAN,
                      nread : 0 .. UINT - 1, nwrite : 0 .. UINT - 1,
                      data : [0 .. PIPESIZE - 1 -> Byte \cup {Junk}]]
        /\ UNCHANGED ends
    BY <1>3 DEF PipeClose, TypeOK
  <2>2. PICK woken \in {WokenReaders, WokenWriters} :
          \/ pc' = [woken EXCEPT ![p] = "kfree"] /\ UNCHANGED call
          \/ AfterClose(p, woken)
    BY <1>3 DEF PipeClose
  <2>3. woken \in Pcs
    BY <2>2, WokenTypes
  <2>4. pc' \in Pcs /\ call' \in [Process -> [bytes : Seq(Byte), n : Nat, end : {"r", "w", None}, exits : BOOLEAN]]
    BY <1>2, <2>2, <2>3 DEF TypeOK
  <2>5. QED
    BY <1>0, <2>1, <2>4 DEF TypeOK
<1>4. CASE Kfree(p)
  <2>1. pc' \in Pcs /\ call' \in [Process -> [bytes : Seq(Byte), n : Nat, end : {"r", "w", None}, exits : BOOLEAN]]
    BY <1>2, <1>4 DEF Kfree, TypeOK
  <2>2. QED
    BY <1>0, <1>4, <2>1 DEF Kfree, TypeOK
<1>5. QED
  BY <1>1, <1>3, <1>4

LEMMA ReadStep ==
    ASSUME TypeOK, NEW p \in Process, PipeRead(p)
    PROVE  TypeOK'
<1> DEFINE k == Smaller(call[p].n, Held)
<1>1. k \in Nat /\ k <= Held /\ Held \in 0 .. UINT - 1
  <2>1. Held \in 0 .. UINT - 1 /\ call[p].n \in Nat
    BY Counters DEF TypeOK
  <2>2. Held \in Nat
    BY <2>1
  <2>3. QED
    BY <2>1, <2>2, SmallerType
<1>2. UNCHANGED ends /\ UNCHANGED killed
  BY DEF PipeRead
<1>3. CASE MustWait
  <2>1. /\ UNCHANGED pipe /\ lock' \in {lock, p}
        /\ pc' \in {[pc EXCEPT ![p] = "user"], [pc EXCEPT ![p] = "readsleep"]}
        /\ call' \in {call, [call EXCEPT ![p] = NoCall]}
    BY <1>3 DEF PipeRead, Return, Calls, Goto
  <2>2. pc' \in [Process -> {"unused", "user", "exit", "pipeclose", "kfree"} \cup Reading \cup Writing]
    BY <2>1 DEF TypeOK, Reading
  <2>3. call' \in [Process -> CallSet]
    BY <2>1, EmptySeq, CallTypes
  <2>4. QED
    BY <1>2, <2>1, <2>2, <2>3 DEF TypeOK, CallSet
<1>4. CASE ~MustWait
  <2>1. /\ pipe' = [pipe EXCEPT !.nread = Advanced(@, k),
                                !.data = Stored(@, pipe.nread, [i \in 1 .. k |-> Junk])]
        /\ pc' = [WokenWriters EXCEPT ![p] = "user"]
        /\ call' = [call EXCEPT ![p] = NoCall]
        /\ UNCHANGED lock
    BY <1>4 DEF PipeRead
  <2>2. Advanced(pipe.nread, k) \in 0 .. UINT - 1
    <3> HIDE DEF k
    <3>1. k \in 0 .. UINT - 1 /\ pipe.nread \in 0 .. UINT - 1
      BY <1>1 DEF TypeOK
    <3>2. Advanced(pipe.nread, k) = IF pipe.nread + k < UINT THEN pipe.nread + k ELSE pipe.nread + k - UINT
      BY <3>1, Counters
    <3>3. QED
      BY <3>1, <3>2
  <2>3. Stored(pipe.data, pipe.nread, [i \in 1 .. k |-> Junk]) \in [0 .. PIPESIZE - 1 -> Byte \cup {Junk}]
    <3> HIDE DEF k
    <3>1. Len([i \in 1 .. k |-> Junk]) = k /\ \A i \in 1 .. k : [j \in 1 .. k |-> Junk][i] \in Byte \cup {Junk}
      BY <1>1
    <3>2. pipe.data \in [0 .. PIPESIZE - 1 -> Byte \cup {Junk}] /\ pipe.nread \in Nat
      BY DEF TypeOK
    <3>3. QED
      BY <1>1, <3>1, <3>2, StoredType
  <2> HIDE DEF k
  <2>4. NoCall \in [bytes : Seq(Byte), n : Nat, end : {"r", "w", None}, exits : BOOLEAN]
    BY EmptySeq DEF NoCall
  <2>5. QED
    BY <1>2, <2>1, <2>2, <2>3, <2>4, WokenTypes DEF TypeOK
<1>5. QED
  BY <1>3, <1>4

(* What pipewrite stores, and where it leaves the counter.                 *)
LEMMA WriteStep ==
    ASSUME TypeOK, Held <= PIPESIZE, NEW p \in Process, PipeWrite(p)
    PROVE  TypeOK'
<1> DEFINE bs   == call[p].bytes
           k    == Smaller(Len(bs), Room)
           rest == SubSeq(bs, k + 1, Len(bs))
<1>1. bs \in Seq(Byte) /\ Len(bs) \in Nat
  BY LenProperties DEF TypeOK
<1>2. Room \in Nat /\ Room <= PIPESIZE
  BY Counters DEF Room
<1>3. k \in Nat /\ k <= Len(bs) /\ k <= Room /\ k \in 0 .. UINT - 1
  <2>1. k \in Nat /\ k <= Len(bs) /\ k <= Room
    BY <1>1, <1>2, SmallerType
  <2> HIDE DEF k, bs
  <2>2. QED
    BY <1>2, <2>1
<1>4. /\ pipe' = [pipe EXCEPT !.nwrite = Advanced(@, k),
                              !.data = Stored(@, pipe.nwrite, SubSeq(bs, 1, k))]
      /\ UNCHANGED ends /\ UNCHANGED killed
  BY DEF PipeWrite
<1>5. /\ lock' \in {lock, p}
      /\ \/ pc' = [WokenReaders EXCEPT ![p] = "user"] \/ pc' = [pc EXCEPT ![p] = "user"]
         \/ pc' = [WokenReaders EXCEPT ![p] = "writesleep"]
      /\ call' = [call EXCEPT ![p] = NoCall] \/ call' = [call EXCEPT ![p].bytes = rest]
  BY DEF PipeWrite, Return, Calls, Goto
<1> HIDE DEF k
<1>6. Advanced(pipe.nwrite, k) \in 0 .. UINT - 1
  <2>1. pipe.nwrite \in 0 .. UINT - 1
    BY DEF TypeOK
  <2>2. Advanced(pipe.nwrite, k) = IF pipe.nwrite + k < UINT THEN pipe.nwrite + k ELSE pipe.nwrite + k - UINT
    BY <1>3, <2>1, Counters
  <2>3. QED
    BY <1>3, <2>1, <2>2
<1>7. SubSeq(bs, 1, k) \in Seq(Byte) /\ Len(SubSeq(bs, 1, k)) = k /\ rest \in Seq(Byte)
  BY <1>1, <1>3, Written
<1>8. Stored(pipe.data, pipe.nwrite, SubSeq(bs, 1, k)) \in [0 .. PIPESIZE - 1 -> Byte \cup {Junk}]
  <2> DEFINE b == SubSeq(bs, 1, k)
  <2>1. b \in Seq(Byte) /\ Len(b) = k
    BY <1>7
  <2> HIDE DEF b
  <2>2. \A i \in 1 .. k : b[i] \in Byte \cup {Junk}
    BY <2>1, LenProperties
  <2>3. pipe.data \in [0 .. PIPESIZE - 1 -> Byte \cup {Junk}] /\ pipe.nwrite \in Nat
    BY DEF TypeOK
  <2>4. Stored(pipe.data, pipe.nwrite, b) \in [0 .. PIPESIZE - 1 -> Byte \cup {Junk}]
    BY <1>3, <2>1, <2>2, <2>3, StoredType
  <2>5. QED
    BY <2>4 DEF b
<1> HIDE DEF bs, rest
<1>10. pc' \in [Process -> {"unused", "user", "exit", "pipeclose", "kfree"} \cup Reading \cup Writing]
  BY <1>5, WokenTypes DEF TypeOK, Writing
<1>13. call' \in [Process -> CallSet]
  <2>1. rest \in Seq(Byte)
    BY <1>7
  <2>2. [call EXCEPT ![p].bytes = rest] \in [Process -> CallSet]
    BY <2>1, CallTypes
  <2>3. [call EXCEPT ![p] = NoCall] \in [Process -> CallSet]
    BY <2>1, CallTypes
  <2>4. QED
    BY <1>5, <2>2, <2>3
<1>11. pipe' \in [alloc : BOOLEAN, readopen : BOOLEAN, writeopen : BOOLEAN,
                  nread : 0 .. UINT - 1, nwrite : 0 .. UINT - 1,
                  data : [0 .. PIPESIZE - 1 -> Byte \cup {Junk}]]
  BY <1>4, <1>6, <1>8 DEF TypeOK
<1>12. QED
  BY <1>4, <1>5, <1>10, <1>11, <1>13 DEF TypeOK, CallSet

-----------------------------------------------------------------------------
(* The inductive invariant.  An end is open as long as somebody has it or  *)
(* is closing it, and who is closing it has dropped it as the last one;    *)
(* who reads or writes has an end; who frees the page found both closed.   *)
(* Who goes to sleep has the lock of the pipe until it sleeps.             *)
IsOpen(e)    == IF e = "r" THEN pipe.readopen ELSE pipe.writeopen
Closes(p, e) == At(p, "pipeclose") /\ call[p].end = e

EndsOK ==
    \A e \in {"r", "w"}, p \in Process :
        /\ e \in ends[p] \/ Closes(p, e) => IsOpen(e)
        /\ Closes(p, e) => \A q \in Process : e \notin ends[q] /\ (Closes(q, e) => q = p)

CallsOK ==
    \A p \in Process :
        /\ pc[p] \in Reading => "r" \in ends[p]
        /\ pc[p] \in Writing => "w" \in ends[p]
        /\ At(p, "unused") => ends[p] = {}
        /\ At(p, "pipeclose") => call[p].end \in {"r", "w"}

PageOK ==
    /\ ~pipe.alloc => ~pipe.readopen /\ ~pipe.writeopen
    /\ \A p \in Process : At(p, "kfree") =>
         /\ pipe.alloc /\ ~pipe.readopen /\ ~pipe.writeopen
         /\ \A q \in Process : At(q, "kfree") => q = p

SleepOK ==
    /\ Held <= PIPESIZE
    /\ \A p \in Process :
         /\ pc[p] \in {"readsleep", "writesleep"} => lock = p
         /\ pc[p] \in {"writesleep", "writewait"} => Full /\ pipe.readopen
         /\ pc[p] \in {"readsleep", "readwait"} => pipe.writeopen

Control == EndsOK /\ CallsOK /\ PageOK

IInv == TypeOK /\ Control /\ SleepOK

LEMMA InitInductive == Init => IInv
<1> SUFFICES ASSUME Init PROVE IInv
  OBVIOUS
<1>1. TypeOK
  BY EmptySeq DEF Init, TypeOK, FreePage, NoCall, Reading, Writing
<1>2. Control
  BY DEF Init, Control, EndsOK, CallsOK, PageOK, FreePage, At, Closes, Reading, Writing
<1>3. SleepOK
  <2>1. Empty
    BY DEF Init, Empty, FreePage
  <2>2. Held <= PIPESIZE
    BY <1>1, <2>1, Counters
  <2>3. QED
    BY <2>2 DEF Init, SleepOK
<1>4. QED
  BY <1>1, <1>2, <1>3 DEF IInv

-----------------------------------------------------------------------------
(* Ends, calls and page.                                                   *)

(* A step of a process that leaves the page and the ends alone, as long as *)
(* it has the ends that the place it comes to asks for.                    *)
LEMMA Moved ==
    ASSUME IInv, NEW p \in Process, NEW l,
           pc[p] \notin {"unused", "pipeclose", "kfree"}, l \notin {"pipeclose", "kfree"},
           l \in Reading => "r" \in ends[p],
           l \in Writing => "w" \in ends[p],
           l = "unused" => ends[p] = {},
           pc' = [pc EXCEPT ![p] = l],
           \A q \in Process \ {p} : call'[q] = call[q],
           UNCHANGED <<pipe, ends>>
    PROVE  Control'
<1>1. /\ pc'[p] = l
      /\ \A q \in Process \ {p} : pc'[q] = pc[q]
  BY DEF IInv, TypeOK
<1>2. \A q \in Process :
        /\ \A k \in {"pipeclose", "kfree"} : pc'[q] = k <=> pc[q] = k
        /\ pc[q] = "pipeclose" => call'[q] = call[q]
  BY <1>1
<1>3. \A q \in Process :
        /\ pc'[q] \in Reading => pc[q] \in Reading \/ "r" \in ends[q]
        /\ pc'[q] \in Writing => pc[q] \in Writing \/ "w" \in ends[q]
        /\ pc'[q] = "unused" => pc[q] = "unused" \/ ends[q] = {}
  BY <1>1
<1>4. EndsOK'
  BY <1>2 DEF IInv, Control, EndsOK, At, Closes, IsOpen
<1>5. CallsOK'
  BY <1>2, <1>3 DEF IInv, Control, CallsOK, At
<1>6. PageOK'
  BY <1>2 DEF IInv, Control, PageOK, At
<1>7. QED
  BY <1>4, <1>5, <1>6 DEF Control

LEMMA ControlCalls ==
    ASSUME IInv, NEW p \in Process,
           \/ Exit(p) \/ ExitDone(p) \/ Sleep(p)
           \/ \E q \in Process : Fork(p, q) \/ Kill(p, q)
           \/ \E n \in Counts : SysRead(p, n)
           \/ \E bs \in Buffers : SysWrite(p, bs)
    PROVE  Control'
<1>0. pc \in [Process -> {"unused", "user", "exit", "pipeclose", "kfree"} \cup Reading \cup Writing]
      /\ \A c : call' = [call EXCEPT ![p] = c] => \A q \in Process \ {p} : call'[q] = call[q]
  BY DEF IInv, TypeOK
<1>1. CASE Exit(p)
  <2>1. /\ pc[p] = "user" /\ pc' = [pc EXCEPT ![p] = "exit"] /\ UNCHANGED <<pipe, ends>>
        /\ \A q \in Process \ {p} : call'[q] = call[q]
    BY <1>0, <1>1 DEF Exit, At, Calls, Goto
  <2>2. QED
    BY <2>1, Moved DEF Reading, Writing
<1>2. CASE ExitDone(p)
  <2>1. /\ pc[p] = "exit" /\ ends[p] = {} /\ pc' = [pc EXCEPT ![p] = "unused"] /\ UNCHANGED <<pipe, ends>>
        /\ \A q \in Process \ {p} : call'[q] = call[q]
    BY <1>0, <1>2 DEF ExitDone, At, Calls, Goto
  <2>2. QED
    BY <2>1, Moved DEF Reading, Writing
<1>3. CASE Sleep(p)
  <2>1. /\ \/ pc[p] = "readsleep" /\ pc' = [pc EXCEPT ![p] = "readwait"] /\ "r" \in ends[p]
           \/ pc[p] = "writesleep" /\ pc' = [pc EXCEPT ![p] = "writewait"] /\ "w" \in ends[p]
        /\ UNCHANGED <<pipe, ends, call>>
    BY <1>3 DEF Sleep, At, Goto, IInv, Control, CallsOK, Reading, Writing
  <2>2. QED
    BY <2>1, Moved DEF Reading, Writing
<1>4. ASSUME NEW q \in Process, Fork(p, q) PROVE Control'
  <2>1. /\ pc[p] = "user" /\ pc[q] = "unused" /\ pc' = [pc EXCEPT ![q] = "user"]
        /\ ends' = [ends EXCEPT ![q] = ends[p]] /\ UNCHANGED <<pipe, call>>
    BY <1>4 DEF Fork, User, At, Goto
  <2>2. /\ \A s \in Process : \A l \in {"pipeclose", "kfree"} : pc'[s] = l <=> pc[s] = l
        /\ \A s \in Process : \A e \in {"r", "w"} : e \in ends'[s] => e \in ends[s] \/ e \in ends[p]
        /\ ends'[q] = ends[p] /\ pc'[q] = "user"
        /\ \A s \in Process \ {q} : ends'[s] = ends[s] /\ pc'[s] = pc[s]
    BY <1>0, <2>1 DEF IInv, TypeOK
  <2>3. EndsOK'
    BY <2>1, <2>2 DEF IInv, Control, EndsOK, At, Closes, IsOpen
  <2>4. CallsOK'
    BY <2>1, <2>2 DEF IInv, Control, CallsOK, At, Reading, Writing
  <2>5. PageOK'
    BY <2>1, <2>2 DEF IInv, Control, PageOK, At
  <2>6. QED
    BY <2>3, <2>4, <2>5 DEF Control
<1>5. ASSUME NEW q \in Process, Kill(p, q) PROVE Control'
  <2>1. pc' = [pc EXCEPT ![q] = Kicked(q)] /\ UNCHANGED <<pipe, lock, ends, call>>
    BY <1>5 DEF Kill, Goto
  <2>2. /\ Kicked(q) \in Reading <=> pc[q] \in Reading
        /\ Kicked(q) \in Writing <=> pc[q] \in Writing
        /\ \A l \in {"unused", "pipeclose", "kfree"} : Kicked(q) = l <=> pc[q] = l
    BY DEF Kicked, At, Reading, Writing
  <2>3. \A s \in Process :
           /\ pc'[s] \in Reading <=> pc[s] \in Reading
           /\ pc'[s] \in Writing <=> pc[s] \in Writing
           /\ \A l \in {"unused", "pipeclose", "kfree"} : pc'[s] = l <=> pc[s] = l
    BY <1>0, <2>1, <2>2
  <2>4. QED
    BY <2>1, <2>3 DEF IInv, Control, EndsOK, CallsOK, PageOK, At, Closes, IsOpen
<1>6. ASSUME NEW n \in Counts, SysRead(p, n) PROVE Control'
  <2>1. /\ pc[p] = "user" /\ "r" \in ends[p] /\ pc' = [pc EXCEPT ![p] = "piperead"] /\ UNCHANGED <<pipe, ends>>
        /\ \A q \in Process \ {p} : call'[q] = call[q]
    BY <1>0, <1>6 DEF SysRead, User, At, Calls, Goto
  <2>2. QED
    BY <2>1, Moved DEF Reading, Writing
<1>7. ASSUME NEW bs \in Buffers, SysWrite(p, bs) PROVE Control'
  <2>1. /\ pc[p] = "user" /\ "w" \in ends[p] /\ pc' = [pc EXCEPT ![p] = "pipewrite"] /\ UNCHANGED <<pipe, ends>>
        /\ \A q \in Process \ {p} : call'[q] = call[q]
    BY <1>0, <1>7 DEF SysWrite, User, At, Calls, Goto
  <2>2. QED
    BY <2>1, Moved DEF Reading, Writing
<1>8. QED
  BY <1>1, <1>2, <1>3, <1>4, <1>5, <1>6, <1>7

LEMMA ControlFileClose ==
    ASSUME IInv, NEW p \in Process, NEW e \in {"r", "w"}, SysClose(p, e) \/ ExitFile(p, e)
    PROVE  Control'
<1>1. PICK exits \in BOOLEAN : FileClose(p, e, exits)
  BY DEF SysClose, ExitFile
<1>2. pc[p] \in {"user", "exit"} /\ ends' = [ends EXCEPT ![p] = @ \ {e}] /\ UNCHANGED pipe /\ e \in ends[p]
  BY <1>1 DEF SysClose, ExitFile, User, At, FileClose
<1>3. CASE \E q \in Process \ {p} : e \in ends[q]
  <2>1. UNCHANGED <<pc, call>>
    BY <1>1, <1>3 DEF FileClose
  <2>2. QED
    BY <1>2, <2>1 DEF IInv, TypeOK, Control, EndsOK, CallsOK, PageOK, At, Closes, IsOpen, Reading, Writing
<1>4. CASE ~\E q \in Process \ {p} : e \in ends[q]
  <2>1. /\ pc' = [pc EXCEPT ![p] = "pipeclose"]
        /\ call' = [call EXCEPT ![p] = [NoCall EXCEPT !.end = e, !.exits = exits]]
    BY <1>1, <1>4 DEF FileClose, Calls, Goto
  <2>2. /\ pc'[p] = "pipeclose" /\ call'[p].end = e
        /\ \A q \in Process \ {p} : pc'[q] = pc[q] /\ call'[q] = call[q] /\ ends'[q] = ends[q]
        /\ ends'[p] = ends[p] \ {e}
    BY <1>2, <2>1 DEF IInv, TypeOK, NoCall
  <2>3. EndsOK'
    BY <1>2, <1>4, <2>2 DEF IInv, Control, EndsOK, At, Closes, IsOpen
  <2>4. CallsOK'
    BY <1>2, <2>2 DEF IInv, Control, CallsOK, At, Reading, Writing
  <2>5. PageOK'
    BY <1>2, <2>2 DEF IInv, Control, PageOK, At
  <2>6. QED
    BY <2>3, <2>4, <2>5 DEF Control
<1>5. QED
  BY <1>3, <1>4

LEMMA ControlPage ==
    ASSUME IInv, NEW p \in Process, SysPipe(p) \/ Kfree(p)
    PROVE  Control'
<1>1. CASE SysPipe(p)
  <2>1. /\ pipe'.alloc /\ pipe'.readopen /\ pipe'.writeopen
        /\ ends' = [ends EXCEPT ![p] = {"r", "w"}] /\ UNCHANGED <<pc, call>>
        /\ ~pipe.alloc /\ At(p, "user")
    BY <1>1 DEF SysPipe, NewPipe, FreePage, User
  <2>2. QED
    BY <2>1 DEF IInv, TypeOK, Control, EndsOK, CallsOK, PageOK, At, Closes, IsOpen, Reading, Writing
<1>2. CASE Kfree(p)
  <2>1. /\ ~pipe'.alloc /\ ~pipe'.readopen /\ ~pipe'.writeopen
        /\ UNCHANGED ends /\ At(p, "kfree")
        /\ pc'[p] \in {"exit", "user"}
        /\ \A q \in Process \ {p} : pc'[q] = pc[q] /\ call'[q] = call[q]
    BY <1>2 DEF Kfree, FreePage, AfterClose, IInv, TypeOK
  <2>2. QED
    BY <2>1 DEF IInv, Control, EndsOK, CallsOK, PageOK, At, Closes, IsOpen, Reading, Writing
<1>3. QED
  BY <1>1, <1>2

(* Who is woken has the same end of the pipe as before.                    *)
LEMMA Woken ==
    ASSUME IInv, NEW woken \in {WokenReaders, WokenWriters, pc}, NEW q \in Process
    PROVE  /\ woken[q] \in Reading <=> pc[q] \in Reading
           /\ woken[q] \in Writing <=> pc[q] \in Writing
           /\ \A l \in {"unused", "user", "exit", "pipeclose", "kfree", "readsleep", "writesleep"} : woken[q] = l <=> pc[q] = l
BY DEF WokenReaders, WokenWriters, At, Reading, Writing

LEMMA ControlPipeClose ==
    ASSUME IInv, NEW p \in Process, PipeClose(p)
    PROVE  Control'
<1> DEFINE e == call[p].end
<1>1. At(p, "pipeclose") /\ Closes(p, e) /\ e \in {"r", "w"} /\ IsOpen(e) /\ pipe.alloc
  BY DEF PipeClose, Closes, IInv, Control, CallsOK, EndsOK, PageOK, IsOpen
<1>2. /\ pipe'.alloc = pipe.alloc
      /\ pipe'.readopen <=> pipe.readopen /\ e # "r"
      /\ pipe'.writeopen <=> pipe.writeopen /\ e # "w"
      /\ UNCHANGED ends
  BY DEF PipeClose, IInv, TypeOK
<1>3. PICK woken \in {WokenReaders, WokenWriters, pc} :
        \/ /\ pc' = [woken EXCEPT ![p] = "kfree"] /\ UNCHANGED call
           /\ ~pipe'.readopen /\ ~pipe'.writeopen
        \/ AfterClose(p, woken)
  BY <1>2 DEF PipeClose, LastEnd
<1>4. /\ pc'[p] \in {"exit", "user", "kfree"}
      /\ pc'[p] = "kfree" => ~pipe'.readopen /\ ~pipe'.writeopen
      /\ \A q \in Process \ {p} : pc'[q] = woken[q] /\ call'[q] = call[q]
  <2>1. woken \in [Process -> {"unused", "user", "exit", "pipeclose", "kfree"} \cup Reading \cup Writing]
    BY <1>3, WokenTypes DEF IInv, TypeOK
  <2>2. QED
    BY <1>3, <2>1 DEF AfterClose, IInv, TypeOK
<1> HIDE DEF e
<1>5. \A q \in Process : /\ At(q, "pipeclose")' => q # p /\ At(q, "pipeclose")
                         /\ At(q, "kfree")' => q = p \/ At(q, "kfree")
                         /\ At(q, "unused")' => At(q, "unused")
                         /\ pc'[q] \in Reading => pc[q] \in Reading
                         /\ pc'[q] \in Writing => pc[q] \in Writing
  BY <1>4, Woken DEF At, Reading, Writing
<1>6. EndsOK'
  <2>1. \A q \in Process : e \notin ends[q] /\ (q # p => ~Closes(q, e))
    BY <1>1 DEF IInv, Control, EndsOK
  <2>2. \A d \in {"r", "w"}, q \in Process : Closes(q, d)' => q # p /\ Closes(q, d)
    BY <1>4, <1>5 DEF Closes
  <2>3. \A d \in {"r", "w"} : IsOpen(d)' <=> IsOpen(d) /\ d # e
    BY <1>2 DEF IsOpen
  <2>4. QED
    BY <1>2, <2>1, <2>2, <2>3 DEF IInv, Control, EndsOK
<1>7. CallsOK'
  <2>1. \A q \in Process : At(q, "pipeclose")' => call'[q].end \in {"r", "w"}
    BY <1>4, <1>5 DEF IInv, Control, CallsOK
  <2>2. QED
    BY <1>2, <1>5, <2>1 DEF IInv, Control, CallsOK
<1>8. PageOK'
  <2>1. \A q \in Process : ~At(q, "kfree")
    BY <1>1 DEF IInv, Control, PageOK, IsOpen
  <2>2. QED
    BY <1>1, <1>2, <1>4, <1>5, <2>1 DEF PageOK, At
<1>9. QED
  BY <1>6, <1>7, <1>8 DEF Control

LEMMA ControlReadWrite ==
    ASSUME IInv, NEW p \in Process, PipeRead(p) \/ PipeWrite(p)
    PROVE  Control'
<1>1. PICK woken \in {WokenReaders, WokenWriters, pc}, l \in {"user", "readsleep", "writesleep"} :
        /\ pc' = [woken EXCEPT ![p] = l]
        /\ l = "readsleep" => pc[p] = "piperead"
        /\ l = "writesleep" => pc[p] = "pipewrite"
  BY DEF PipeRead, PipeWrite, Return, Calls, Goto, At
<1>2. /\ pipe'.alloc = pipe.alloc /\ pipe'.readopen = pipe.readopen /\ pipe'.writeopen = pipe.writeopen
      /\ UNCHANGED ends /\ pc[p] \in {"piperead", "pipewrite"}
  BY DEF PipeRead, PipeWrite, IInv, TypeOK, At
<1>3. pc'[p] = l /\ \A q \in Process \ {p} : pc'[q] = woken[q] /\ call'[q] = call[q]
  <2>1. woken \in [Process -> {"unused", "user", "exit", "pipeclose", "kfree"} \cup Reading \cup Writing]
    BY <1>1, WokenTypes DEF IInv, TypeOK
  <2>2. \A q \in Process \ {p} : call'[q] = call[q]
    BY DEF PipeRead, PipeWrite, Return, Calls, IInv, TypeOK
  <2>3. QED
    BY <1>1, <2>1, <2>2
<1>4. \A q \in Process : /\ \A k \in {"unused", "pipeclose", "kfree"} : pc'[q] = k => q # p /\ pc[q] = k
                         /\ pc'[q] \in Reading => pc[q] \in Reading
                         /\ pc'[q] \in Writing => pc[q] \in Writing
  BY <1>1, <1>3, Woken DEF Reading, Writing
<1>5. QED
  BY <1>2, <1>3, <1>4 DEF IInv, Control, EndsOK, CallsOK, PageOK, At, Closes, IsOpen

-----------------------------------------------------------------------------
(* Who sleeps.                                                             *)

(* An action that leaves the page alone, and puts nobody to sleep who was  *)
(* not on the way to it.                                                   *)
LEMMA SleepCalls ==
    ASSUME IInv, NEW p \in Process,
           \/ Exit(p) \/ ExitDone(p) \/ Sleep(p)
           \/ \E q \in Process : Fork(p, q) \/ Kill(p, q)
           \/ \E e \in {"r", "w"} : SysClose(p, e) \/ ExitFile(p, e)
           \/ \E n \in Counts : SysRead(p, n)
           \/ \E bs \in Buffers : SysWrite(p, bs)
    PROVE  SleepOK'
<1>1. UNCHANGED pipe
  BY DEF Exit, ExitDone, Sleep, Fork, Kill, SysClose, ExitFile, FileClose, SysRead, SysWrite
<1>2. UNCHANGED <<Held, Full>>
  BY <1>1 DEF Held, Full
<1>3. CASE Sleep(p)
  <2>1. /\ pc[p] \in {"readsleep", "writesleep"}
        /\ pc'[p] = IF pc[p] = "readsleep" THEN "readwait" ELSE "writewait"
        /\ \A q \in Process \ {p} : pc'[q] = pc[q]
    BY <1>3 DEF Sleep, At, Goto, IInv, TypeOK
  <2>2. \A q \in Process \ {p} : pc[q] \notin {"readsleep", "writesleep"}
    BY <2>1 DEF IInv, SleepOK
  <2>3. QED
    BY <1>1, <1>2, <2>1, <2>2 DEF IInv, SleepOK
<1>4. ASSUME \A q \in Process : pc'[q] \in {"readsleep", "writesleep", "readwait", "writewait"} => pc'[q] = pc[q],
             UNCHANGED lock
      PROVE  SleepOK'
  BY <1>1, <1>2, <1>4 DEF IInv, SleepOK
<1>5. CASE ~Sleep(p)
  <2>1. UNCHANGED lock
    BY <1>5 DEF Exit, ExitDone, Fork, Kill, SysClose, ExitFile, FileClose, SysRead, SysWrite
  <2>2. \/ UNCHANGED pc
        \/ \E q \in Process, l \in {"user", "exit", "unused", "piperead", "pipewrite", "pipeclose"} : pc' = [pc EXCEPT ![q] = l]
    <3>1. ASSUME NEW q \in Process, Kill(p, q)
          PROVE  \/ UNCHANGED pc
                 \/ \E l \in {"piperead", "pipewrite"} : pc' = [pc EXCEPT ![q] = l]
      BY <3>1 DEF Kill, Kicked, Goto, At, IInv, TypeOK
    <3>2. ASSUME NEW e \in {"r", "w"}, SysClose(p, e) \/ ExitFile(p, e)
          PROVE  UNCHANGED pc \/ pc' = [pc EXCEPT ![p] = "pipeclose"]
      BY <3>2 DEF SysClose, ExitFile, FileClose, Calls, Goto
    <3>3. ASSUME NEW q \in Process, Fork(p, q)
          PROVE  pc' = [pc EXCEPT ![q] = "user"]
      BY <3>3 DEF Fork, Goto
    <3>4. CASE \/ Exit(p) \/ ExitDone(p)
               \/ \E n \in Counts : SysRead(p, n)
               \/ \E bs \in Buffers : SysWrite(p, bs)
      BY <3>4 DEF Exit, ExitDone, SysRead, SysWrite, Calls, Goto
    <3>5. QED
      BY <1>5, <3>1, <3>2, <3>3, <3>4
  <2>3. \A q \in Process : pc'[q] \in {"readsleep", "writesleep", "readwait", "writewait"} => pc'[q] = pc[q]
    BY <2>2 DEF IInv, TypeOK
  <2>4. QED
    BY <1>4, <2>1, <2>3
<1>6. QED
  BY <1>3, <1>5

(* The page is new, or given back: nobody sleeps over it.                  *)
LEMMA SleepPage ==
    ASSUME IInv, TypeOK', NEW p \in Process, SysPipe(p) \/ Kfree(p)
    PROVE  SleepOK'
<1>1. \A q \in Process : ends[q] = {}
  <2>1. ~pipe.readopen /\ ~pipe.writeopen
    BY DEF SysPipe, Kfree, IInv, Control, PageOK
  <2>2. \A q \in Process : "r" \notin ends[q] /\ "w" \notin ends[q]
    BY <2>1 DEF IInv, Control, EndsOK, IsOpen
  <2>3. \A q \in Process : ends[q] \subseteq {"r", "w"}
    BY DEF IInv, TypeOK
  <2>4. QED
    BY <2>2, <2>3
<1>2. \A q \in Process : pc[q] \notin Reading /\ pc[q] \notin Writing
  BY <1>1 DEF IInv, Control, CallsOK
<1>3. \A q \in Process : pc'[q] = pc[q] \/ pc'[q] \in {"exit", "user"}
  BY DEF SysPipe, Kfree, AfterClose, IInv, TypeOK
<1>4. pipe'.nread = 0 /\ pipe'.nwrite = 0
  <2>1. pipe' \in {FreePage, NewPipe}
    BY DEF SysPipe, Kfree
  <2>2. FreePage.nread = 0 /\ FreePage.nwrite = 0 /\ NewPipe.nread = 0 /\ NewPipe.nwrite = 0
    BY DEF NewPipe, FreePage
  <2>3. QED
    BY <2>1, <2>2
<1>5. Held' <= PIPESIZE
  BY <1>4, CountersNext DEF Between
<1>6. QED
  BY <1>2, <1>3, <1>5 DEF SleepOK, Reading, Writing

(* Who sleeps for an end that is closed is woken: whoever else has the     *)
(* other end has it still.                                                 *)
LEMMA SleepPipeClose ==
    ASSUME IInv, NEW p \in Process, PipeClose(p)
    PROVE  SleepOK'
<1> DEFINE e == call[p].end
<1>1. Closes(p, e) /\ e \in {"r", "w"} /\ lock = None
  BY DEF PipeClose, Closes, IInv, Control, CallsOK
<1>2. \A q \in Process : pc[q] \notin {"readsleep", "writesleep"}
  BY <1>1 DEF IInv, SleepOK
<1>3. \A q \in Process : /\ e = "w" => pc[q] # "writewait"
                         /\ e = "r" => pc[q] # "readwait"
  BY <1>1 DEF IInv, Control, EndsOK, CallsOK, Reading, Writing
<1>4. /\ pipe'.nread = pipe.nread /\ pipe'.nwrite = pipe.nwrite /\ UNCHANGED lock
      /\ \/ pc' = [IF e = "w" THEN WokenReaders ELSE WokenWriters EXCEPT ![p] = "kfree"]
         \/ AfterClose(p, IF e = "w" THEN WokenReaders ELSE WokenWriters)
  BY DEF PipeClose, IInv, TypeOK
<1>5. UNCHANGED <<Held, Full>>
  BY <1>4 DEF Held, Full
<1> HIDE DEF e
<1>6. \A q \in Process : pc'[q] \notin {"readsleep", "writesleep", "readwait", "writewait"}
  <2> DEFINE woken == IF e = "w" THEN WokenReaders ELSE WokenWriters
  <2>1. woken \in [Process -> {"unused", "user", "exit", "pipeclose", "kfree"} \cup Reading \cup Writing]
    BY WokenTypes DEF IInv
  <2>2. \A q \in Process : woken[q] \notin {"readsleep", "writesleep", "readwait", "writewait"}
    <3>1. CASE e = "w"
      BY <1>2, <1>3, <3>1 DEF WokenReaders, At
    <3>2. CASE e = "r"
      BY <1>2, <1>3, <3>2 DEF WokenWriters, At
    <3>3. QED
      BY <1>1, <3>1, <3>2
  <2> HIDE DEF woken
  <2>3. \E l \in {"kfree", "exit", "user"} : pc' = [woken EXCEPT ![p] = l]
    BY <1>4 DEF AfterClose, woken
  <2>4. QED
    BY <2>1, <2>2, <2>3
<1>7. QED
  BY <1>5, <1>6 DEF IInv, SleepOK

LEMMA SleepRead ==
    ASSUME IInv, TypeOK', NEW p \in Process, PipeRead(p)
    PROVE  SleepOK'
<1>1. At(p, "piperead") /\ lock = None
  BY DEF PipeRead
<1>2. \A q \in Process : pc[q] \notin {"readsleep", "writesleep"}
  BY <1>1 DEF IInv, SleepOK
<1>3. CASE MustWait
  <2>1. /\ UNCHANGED pipe
        /\ \/ pc' = [pc EXCEPT ![p] = "user"] /\ UNCHANGED lock
           \/ pc' = [pc EXCEPT ![p] = "readsleep"] /\ lock' = p
    BY <1>3 DEF PipeRead, Return, Calls, Goto
  <2>2. UNCHANGED <<Held, Full>> /\ pipe.writeopen
    BY <1>3, <2>1 DEF Held, Full, MustWait
  <2>3. QED
    BY <1>2, <2>1, <2>2 DEF IInv, TypeOK, SleepOK
<1>4. CASE ~MustWait
  <2> DEFINE k == Smaller(call[p].n, Held)
  <2>1. /\ pc' = [WokenWriters EXCEPT ![p] = "user"] /\ UNCHANGED lock
        /\ pipe'.nread = Advanced(pipe.nread, k) /\ pipe'.nwrite = pipe.nwrite
        /\ pipe'.writeopen = pipe.writeopen
    BY <1>4 DEF PipeRead, IInv, TypeOK
  <2>2. k \in Nat /\ k <= Held
    <3>1. Held \in Nat /\ call[p].n \in Nat
      BY Counters DEF IInv, TypeOK
    <3>2. QED
      BY <3>1, SmallerType
  <2> HIDE DEF k
  <2>3. Held' <= PIPESIZE
    <3>1. k \in 0 .. UINT - 1 /\ pipe.nread \in 0 .. UINT - 1 /\ pipe.nwrite \in 0 .. UINT - 1
      <4>1. Held \in 0 .. UINT - 1
        BY Counters DEF IInv
      <4>2. k \in 0 .. UINT - 1
        <5> HIDE DEF Held
        <5>1. QED
          BY <2>2, <4>1
      <4>3. QED
        BY <4>2 DEF IInv, TypeOK
    <3>2. Advanced(pipe.nread, k) = IF pipe.nread + k < UINT THEN pipe.nread + k ELSE pipe.nread + k - UINT
      BY <3>1, Counters DEF IInv
    <3>3. Held = Between(pipe.nread, pipe.nwrite) /\ Held' = Between(Advanced(pipe.nread, k), pipe.nwrite) /\ Held <= PIPESIZE
      BY <2>1, Counters, CountersNext DEF IInv, SleepOK
    <3>4. Between(Advanced(pipe.nread, k), pipe.nwrite) <= Between(pipe.nread, pipe.nwrite)
      <4>1. k <= Between(pipe.nread, pipe.nwrite)
        BY <2>2, <3>3, Zenon
      <4>2. QED
        BY <3>1, <3>2, <4>1, Moves
    <3>5. QED
      BY <3>1, <3>2, <3>3, <3>4 DEF Between
  <2>4. \A q \in Process : /\ pc'[q] \notin {"readsleep", "writesleep", "writewait"}
                           /\ pc'[q] = "readwait" => pc[q] = "readwait"
    BY <1>2, <2>1 DEF WokenWriters, At
  <2>5. QED
    BY <2>1, <2>3, <2>4 DEF IInv, SleepOK
<1>5. QED
  BY <1>3, <1>4

(* pipewrite sleeps when it has filled the pipe, and where a writer sleeps *)
(* already it finds no room.                                               *)
LEMMA Filled ==
    ASSUME IInv, TypeOK', NEW p \in Process, PipeWrite(p)
    PROVE  /\ Held' <= PIPESIZE
           /\ Full => Full'
           /\ SubSeq(call[p].bytes, Smaller(Len(call[p].bytes), Room) + 1, Len(call[p].bytes)) # <<>> => Full'
<1> DEFINE bs == call[p].bytes
           n  == Len(bs)
           k  == Smaller(n, Room)
<1>1. bs \in Seq(Byte) /\ n \in Nat
  BY LenProperties DEF IInv, TypeOK
<1>2. SubSeq(bs, k + 1, Len(bs)) = <<>> <=> k = n
  <2>1. Room \in Nat
    BY Counters DEF IInv, SleepOK, Room
  <2>2. k \in Nat /\ k <= n
    BY <1>1, <2>1, SmallerType
  <2>3. QED
    BY <1>1, <2>2, Written
<1>3. pipe'.nread = pipe.nread /\ pipe'.nwrite = Advanced(pipe.nwrite, k)
  BY DEF PipeWrite, IInv, TypeOK
<1> HIDE DEF bs, n
<1>4. /\ Held \in 0 .. UINT - 1 /\ Held <= PIPESIZE /\ Room = PIPESIZE - Held
      /\ k = IF n < Room THEN n ELSE Room
  BY Counters DEF IInv, SleepOK, Room, Smaller
<1>5. k \in 0 .. UINT - 1 /\ (k # n => k = Room) /\ k <= PIPESIZE - Held /\ k \in Nat
  BY <1>1, <1>4
<1> HIDE DEF k
<1>6. pipe.nread \in 0 .. UINT - 1 /\ pipe.nwrite \in 0 .. UINT - 1
  BY DEF IInv, TypeOK
<1>7. Advanced(pipe.nwrite, k) = IF pipe.nwrite + k < UINT THEN pipe.nwrite + k ELSE pipe.nwrite + k - UINT
  BY <1>5, <1>6, Counters DEF IInv
<1>8. /\ Held = Between(pipe.nread, pipe.nwrite) /\ (Full <=> Held = PIPESIZE)
      /\ Held' = Between(pipe.nread, Advanced(pipe.nwrite, k)) /\ (Full' <=> Held' = PIPESIZE)
  BY <1>3, Counters, CountersNext DEF IInv
<1>9. Held' = Held + k
  <2>1. Between(pipe.nread, pipe.nwrite) + k < UINT
    BY <1>4, <1>5, <1>8
  <2>2. QED
    BY <1>5, <1>6, <1>7, <1>8, <2>1, Moves
<1>10. Held' <= PIPESIZE /\ (Full => Full') /\ (k # n => Full')
  BY <1>4, <1>5, <1>8, <1>9
<1>11. QED
  BY <1>2, <1>10 DEF bs, n, k

LEMMA SleepWrite ==
    ASSUME IInv, TypeOK', NEW p \in Process, PipeWrite(p)
    PROVE  SleepOK'
<1> DEFINE bs   == call[p].bytes
           rest == SubSeq(bs, Smaller(Len(bs), Room) + 1, Len(bs))
<1>1. At(p, "pipewrite") /\ lock = None
  BY DEF PipeWrite
<1>2. \A q \in Process : pc[q] \notin {"readsleep", "writesleep"}
  BY <1>1 DEF IInv, SleepOK
<1>3. pipe'.readopen = pipe.readopen /\ pipe'.writeopen = pipe.writeopen
  BY DEF PipeWrite, IInv, TypeOK
<1>4. PICK woken \in {WokenReaders, pc}, l \in {"user", "writesleep"} :
        /\ pc' = [woken EXCEPT ![p] = l]
        /\ l = "writesleep" => rest # <<>> /\ pipe.readopen /\ lock' = p
  BY DEF PipeWrite, Return, Calls, Goto
<1>5. Held' <= PIPESIZE /\ (Full => Full') /\ (rest # <<>> => Full')
  BY Filled
<1> HIDE DEF bs, rest
<1>6. /\ pc'[p] = l
      /\ \A q \in Process \ {p} : pc'[q] \in {"readsleep", "writesleep", "readwait", "writewait"} => pc'[q] = pc[q]
  <2>1. woken \in [Process -> {"unused", "user", "exit", "pipeclose", "kfree"} \cup Reading \cup Writing]
    BY <1>4, WokenTypes DEF IInv, TypeOK
  <2>2. QED
    BY <1>4, <2>1 DEF WokenReaders, At
<1>7. QED
  BY <1>2, <1>3, <1>4, <1>5, <1>6 DEF IInv, SleepOK

-----------------------------------------------------------------------------
LEMMA Inductive == Spec => []IInv
<1>1. ASSUME IInv, [Next]_vars
      PROVE  IInv'
  <2>1. ASSUME NEW p \in Process, Step(p)
        PROVE  IInv'
    <3>1. TypeOK'
      <4>1. CASE PipeRead(p)
        BY <1>1, <4>1, ReadStep DEF IInv
      <4>2. CASE PipeWrite(p)
        BY <1>1, <4>2, WriteStep DEF IInv, SleepOK
      <4>3. CASE SysPipe(p) \/ PipeClose(p) \/ Kfree(p)
        BY <1>1, <4>3, PageSteps DEF IInv
      <4>4. QED
        BY <1>1, <2>1, <4>1, <4>2, <4>3, CallSteps DEF IInv, Step
    <3>2. Control'
      BY <1>1, <2>1, ControlCalls, ControlFileClose, ControlPage, ControlPipeClose, ControlReadWrite DEF Step
    <3>3. SleepOK'
      BY <1>1, <2>1, <3>1, SleepCalls, SleepPage, SleepPipeClose, SleepRead, SleepWrite DEF Step
    <3>4. QED
      BY <3>1, <3>2, <3>3 DEF IInv
  <2>2. CASE UNCHANGED vars
    BY <1>1, <2>2 DEF vars, IInv, TypeOK, Control, EndsOK, CallsOK, PageOK, SleepOK, Held, Full, At, Closes, IsOpen, Reading, Writing
  <2>3. QED
    BY <1>1, <2>1, <2>2 DEF Next
<1>2. QED
  BY InitInductive, <1>1, PTL DEF Spec

(* The types of the variables.                                             *)
THEOREM TypeCorrect == Spec => []TypeOK
BY Inductive, PTL DEF IInv

(* A pipe is not used after its page has been freed, nor an end after it   *)
(* has been closed, whatever reads, writes and closes run at once.         *)
THEOREM CloseCorrect == Spec => []NoUseAfterClose
<1>1. IInv => NoUseAfterClose
  BY DEF IInv, Control, EndsOK, CallsOK, PageOK, NoUseAfterClose, At, Closes, IsOpen
<1>2. QED
  BY Inductive, <1>1, PTL

(* Who sleeps to write has no room and a reader to wait for, and who sleeps*)
(* to read a writer.                                                       *)
THEOREM WakeupsCorrect == Spec => []NoLostWakeup
<1>1. IInv => NoLostWakeup
  BY DEF IInv, SleepOK, NoLostWakeup, At
<1>2. QED
  BY Inductive, <1>1, PTL

(* Only pipewrite puts bytes in an empty pipe; it wakes the readers unless *)
(* it gives up, and it does not give up for want of a reader while one     *)
(* sleeps.                                                                 *)
THEOREM WakeReaders == Spec => BytesWakeReaders
<1> DEFINE Wakes == \A p \in Process : Empty /\ ~Empty' /\ At(p, "readwait") =>
                        pc'[p] # "readwait" \/ \E q \in Process : KilledWrite(q)
<1>1. ASSUME IInv, IInv', [Next]_vars PROVE [Wakes]_vars
  <2> SUFFICES ASSUME Next, NEW p \in Process, Empty, ~Empty', At(p, "readwait"), pc'[p] = "readwait"
               PROVE  \E q \in Process : KilledWrite(q)
    BY <1>1
  <2>0. TypeOK /\ pipe.readopen /\ pipe.writeopen
    BY <1>1 DEF IInv, SleepOK, Control, EndsOK, CallsOK, IsOpen, At, Reading
  <2>1. PICK q \in Process : Step(q)
    BY DEF Next
  <2>2. ASSUME UNCHANGED <<pipe.nread, pipe.nwrite>> \/ pipe' \in {NewPipe, FreePage} PROVE FALSE
    <3>1. NewPipe.nread = NewPipe.nwrite /\ FreePage.nread = FreePage.nwrite
      BY DEF NewPipe, FreePage
    <3>2. QED
      BY <2>2, <3>1, Zenon DEF Empty
  <2>3. PipeWrite(q)
    <3>1. CASE PipeRead(q)
      BY <2>0, <2>2, <3>1 DEF PipeRead, MustWait
    <3>2. CASE SysPipe(q) \/ Kfree(q)
      BY <2>2, <3>2 DEF SysPipe, Kfree
    <3>3. CASE PipeClose(q)
      BY <2>0, <2>2, <3>3 DEF PipeClose, TypeOK
    <3>4. QED
      BY <2>1, <2>2, <3>1, <3>2, <3>3 DEF Step, Fork, Kill, SysClose, ExitFile, FileClose, SysRead, SysWrite,
                                          Exit, ExitDone, Sleep
  <2>4. p # q
    BY <2>3 DEF PipeWrite, At
  <2> DEFINE rest == SubSeq(call[q].bytes, Smaller(Len(call[q].bytes), Room) + 1, Len(call[q].bytes))
  <2>5. rest # <<>> /\ killed[q] /\ Return(q)
    <3>1. ASSUME NEW l, pc' = [WokenReaders EXCEPT ![q] = l] PROVE FALSE
      <4>1. WokenReaders[p] = "piperead" /\ p \in DOMAIN WokenReaders
        BY DEF WokenReaders, At
      <4>2. pc'[p] = WokenReaders[p]
        BY <2>4, <3>1, <4>1, Zenon
      <4>3. QED
        BY <4>1, <4>2
    <3>2. QED
      BY <2>0, <2>3, <3>1 DEF PipeWrite
  <2>6. Full'
    BY <1>1, <2>3, <2>5, Filled DEF IInv
  <2>7. pc'[q] = "user" /\ At(q, "pipewrite")
    BY <2>0, <2>3, <2>5 DEF PipeWrite, Return, Calls, Goto, TypeOK
  <2>8. QED
    BY <2>5, <2>6, <2>7 DEF KilledWrite
<1>2. QED
  BY Inductive, <1>1, PTL DEF Spec, BytesWakeReaders

-----------------------------------------------------------------------------
(* The ring.  Positions that are less than PIPESIZE apart have slots of    *)
(* their own, also where the counters go around.                           *)
Pos(at, j) == IF at + j < UINT THEN at + j ELSE at + j - UINT

LEMMA Remainders ==
    ASSUME NEW m \in Nat \ {0}, NEW x \in Nat, NEW y \in Nat, x % m = y % m
    PROVE  \E t \in Int : x - y = m * t
<1>1. x \div m \in Int /\ y \div m \in Int
  OBVIOUS
<1>2. x = m * (x \div m) + (x % m) /\ y = m * (y \div m) + (y % m)
  OBVIOUS
<1>3. x % m \in Int /\ y % m \in Int
  OBVIOUS
<1>4. PICK a \in Int, b \in Int, c \in Int : x = m * a + c /\ y = m * b + c
  BY <1>1, <1>2, <1>3
<1>5. x - y = m * (a - b)
  BY <1>4
<1>6. QED
  BY <1>5

LEMMA NoMultiple ==
    ASSUME NEW m \in Nat \ {0}, NEW t \in Int
    PROVE  m * t \notin 1 .. m - 1
<1>1. CASE t >= 1
  <2>1. m * t >= m
    BY <1>1
  <2>2. QED
    BY <2>1
<1>2. CASE ~(t >= 1)
  <2>1. m * t <= 0
    BY <1>2
  <2>2. QED
    BY <2>1
<1>3. QED
  BY <1>1, <1>2

LEMMA Rounds == \E m \in Nat : UINT = PIPESIZE * m
<1>1. UINT % PIPESIZE = 0 % PIPESIZE
  OBVIOUS
<1>2. PICK t \in Int : UINT - 0 = PIPESIZE * t
  <2>1. PIPESIZE \in Nat \ {0} /\ UINT \in Nat /\ 0 \in Nat
    OBVIOUS
  <2>2. QED
    BY <1>1, <2>1, Remainders, Zenon
<1>3. t >= 0
  <2>1. ASSUME t < 0 PROVE PIPESIZE * t <= 0
    BY <2>1
  <2>2. UINT > 0 /\ UINT = PIPESIZE * t
    BY <1>2
  <2>3. QED
    BY <2>1, <2>2
<1>4. QED
  BY <1>2, <1>3

LEMMA SlotIs ==
    ASSUME NEW at \in 0 .. UINT - 1, NEW j \in 0 .. PIPESIZE
    PROVE  Pos(at, j) \in 0 .. UINT - 1 /\ Slot(at + j) = Pos(at, j) % PIPESIZE /\ Slot(at + j) \in 0 .. PIPESIZE - 1
<1>1. UINT \in Nat \ {0} /\ at + j \in 0 .. 2 * UINT - 1
  OBVIOUS
<1>2. (at + j) % UINT = Pos(at, j)
  <2>1. \A a \in 0 .. 2 * UINT - 1 : a % UINT = IF a < UINT THEN a ELSE a - UINT
    BY <1>1, ModOnce, Zenon
  <2>2. PICK a \in 0 .. 2 * UINT - 1 : a = at + j
    BY <1>1
  <2>3. a % UINT = IF a < UINT THEN a ELSE a - UINT
    BY <2>1, Zenon
  <2>4. QED
    BY <2>2, <2>3 DEF Pos
<1>3. Pos(at, j) \in 0 .. UINT - 1
  BY <1>1 DEF Pos
<1>4. Pos(at, j) % PIPESIZE \in 0 .. PIPESIZE - 1
  BY <1>3
<1>5. QED
  BY <1>2, <1>3, <1>4, Zenon DEF Slot

LEMMA SlotsDiffer ==
    ASSUME NEW at \in 0 .. UINT - 1, NEW i \in 0 .. PIPESIZE - 1, NEW j \in 0 .. PIPESIZE - 1, i < j
    PROVE  Slot(at + i) # Slot(at + j)
<1> SUFFICES ASSUME Slot(at + i) = Slot(at + j) PROVE FALSE
  OBVIOUS
<1>1. i \in 0 .. PIPESIZE /\ j \in 0 .. PIPESIZE
  OBVIOUS
<1>2. Pos(at, i) \in 0 .. UINT - 1 /\ Pos(at, j) \in 0 .. UINT - 1 /\ Pos(at, j) % PIPESIZE = Pos(at, i) % PIPESIZE
  BY <1>1, SlotIs
<1>3. Pos(at, i) \in Nat /\ Pos(at, j) \in Nat
  BY <1>2
<1>4. PICK t \in Int : Pos(at, j) - Pos(at, i) = PIPESIZE * t
  BY <1>2, <1>3, Remainders
<1>5. PICK m \in Nat : UINT = PIPESIZE * m
  BY Rounds
<1>6. j - i \in 1 .. PIPESIZE - 1
  OBVIOUS
<1>7. Pos(at, j) - Pos(at, i) = j - i \/ Pos(at, j) - Pos(at, i) = j - i - UINT
  BY DEF Pos
<1>8. j - i = PIPESIZE * t \/ j - i = PIPESIZE * (t + m)
  BY <1>4, <1>5, <1>7
<1>9. QED
  BY <1>6, <1>8, NoMultiple

(* Where the counter at has gone after k bytes, j bytes further on.        *)
LEMMA SlotMoves ==
    ASSUME NEW at \in 0 .. UINT - 1, NEW k \in 0 .. PIPESIZE, NEW j \in 0 .. PIPESIZE, k + j <= PIPESIZE
    PROVE  Slot(Pos(at, k) + j) = Slot(at + (k + j))
<1>1. Pos(at, k) \in 0 .. UINT - 1 /\ k + j \in 0 .. PIPESIZE
  BY DEF Pos
<1>2. Pos(Pos(at, k), j) = Pos(at, k + j)
  BY DEF Pos
<1>3. Slot(Pos(at, k) + j) = Pos(Pos(at, k), j) % PIPESIZE
  BY <1>1, SlotIs
<1>4. Slot(at + (k + j)) = Pos(at, k + j) % PIPESIZE
  BY <1>1, SlotIs
<1>5. QED
  BY <1>2, <1>3, <1>4

(* What is stored is there, and nothing else has changed.                  *)
Stores(d, at, k, bs) == DOMAIN d = 0 .. PIPESIZE - 1 /\ at \in 0 .. UINT - 1 /\ k \in 0 .. PIPESIZE /\ Len(bs) = k

IsStored(D, d, at, k, bs) ==
    /\ \A i \in 0 .. k - 1 : D[Slot(at + i)] = bs[i + 1]
    /\ \A s \in 0 .. PIPESIZE - 1 : (\A i \in 0 .. k - 1 : s # Slot(at + i)) => D[s] = d[s]

LEMMA StoredIs ==
    ASSUME NEW d, NEW at, NEW k, NEW bs, Stores(d, at, k, bs)
    PROVE  IsStored(Stored(d, at, bs), d, at, k, bs)
<1>0. DOMAIN d = 0 .. PIPESIZE - 1 /\ at \in 0 .. UINT - 1 /\ k \in 0 .. PIPESIZE /\ Len(bs) = k
  BY DEF Stores
<1>1. \A i \in 1 .. k : at + i - 1 = at + (i - 1) /\ i - 1 \in 0 .. k - 1
  BY <1>0
<1>2. \A s \in 0 .. PIPESIZE - 1 :
        Stored(d, at, bs)[s] = IF \E i \in 1 .. k : Slot(at + i - 1) = s
                               THEN bs[CHOOSE i \in 1 .. k : Slot(at + i - 1) = s] ELSE d[s]
  BY <1>0 DEF Stored
<1>3. ASSUME NEW i \in 0 .. k - 1 PROVE Stored(d, at, bs)[Slot(at + i)] = bs[i + 1]
  <2>1. Slot(at + i) \in 0 .. PIPESIZE - 1
    <3>1. i \in 0 .. PIPESIZE
      BY <1>0
    <3>2. QED
      BY <1>0, <3>1, SlotIs
  <2>2. i + 1 \in 1 .. k /\ Slot(at + (i + 1) - 1) = Slot(at + i)
    <3>1. at + (i + 1) - 1 = at + i
      BY <1>0
    <3>2. QED
      BY <1>0, <3>1
  <2>3. ASSUME NEW j \in 1 .. k, Slot(at + j - 1) = Slot(at + i) PROVE j = i + 1
    <3>1. j - 1 \in 0 .. PIPESIZE - 1 /\ i \in 0 .. PIPESIZE - 1 /\ Slot(at + (j - 1)) = Slot(at + i)
      BY <1>0, <1>1, <2>3
    <3>2. ~(j - 1 < i) /\ ~(i < j - 1)
      BY <1>0, <3>1, SlotsDiffer
    <3>3. QED
      BY <3>1, <3>2
  <2>4. (CHOOSE j \in 1 .. k : Slot(at + j - 1) = Slot(at + i)) = i + 1
    BY <2>2, <2>3
  <2>5. QED
    BY <1>0, <1>2, <2>1, <2>2, <2>4
<1>4. ASSUME NEW s \in 0 .. PIPESIZE - 1, \A i \in 0 .. k - 1 : s # Slot(at + i) PROVE Stored(d, at, bs)[s] = d[s]
  BY <1>0, <1>1, <1>2, <1>4
<1>5. QED
  BY <1>3, <1>4 DEF IsStored

(* The bytes of a ring with the contents d that are read from at.          *)
Ring(d, at, n) == [i \in 1 .. n |-> d[Slot(at + i - 1)]]

ByteOrJunk == Byte \cup {Junk}

RingOK(d, at, n) == d \in [0 .. PIPESIZE - 1 -> ByteOrJunk] /\ at \in 0 .. UINT - 1 /\ n \in 0 .. PIPESIZE

LEMMA RingIs ==
    ASSUME NEW d, NEW at, NEW n, RingOK(d, at, n)
    PROVE  /\ Ring(d, at, n) \in Seq(ByteOrJunk) /\ Len(Ring(d, at, n)) = n
           /\ \A i \in 1 .. n : Ring(d, at, n)[i] = d[Slot(at + (i - 1))]
<1>0. d \in [0 .. PIPESIZE - 1 -> ByteOrJunk] /\ at \in 0 .. UINT - 1 /\ n \in 0 .. PIPESIZE
  BY DEF RingOK
<1>1. \A i \in 1 .. n : at + i - 1 = at + (i - 1) /\ i - 1 \in 0 .. PIPESIZE
  BY <1>0
<1>2. \A i \in 1 .. n : Slot(at + (i - 1)) \in 0 .. PIPESIZE - 1
  BY <1>0, <1>1, SlotIs
<1>3. \A i \in 1 .. n : d[Slot(at + i - 1)] = d[Slot(at + (i - 1))] /\ d[Slot(at + (i - 1))] \in ByteOrJunk
  BY <1>0, <1>1, <1>2
<1> HIDE DEF ByteOrJunk
<1>4. n \in Nat
  BY <1>0
<1>5. Ring(d, at, n) \in Seq(ByteOrJunk) /\ Len(Ring(d, at, n)) = n
  BY <1>3, <1>4 DEF Ring
<1>6. QED
  BY <1>3, <1>5 DEF Ring

(* Reading takes the first bytes of the ring.                              *)
LEMMA RingRead ==
    ASSUME NEW d, NEW at, NEW n, RingOK(d, at, n), NEW k \in 0 .. n, NEW bs, Len(bs) = k,
           NEW D \in [0 .. PIPESIZE - 1 -> ByteOrJunk], D = Stored(d, at, bs)
    PROVE  Ring(D, Pos(at, k), n - k) = SubSeq(Ring(d, at, n), k + 1, Len(Ring(d, at, n)))
<1>0. d \in [0 .. PIPESIZE - 1 -> ByteOrJunk] /\ at \in 0 .. UINT - 1 /\ n \in 0 .. PIPESIZE
  BY DEF RingOK
<1>1. /\ k \in 0 .. PIPESIZE /\ n - k \in 0 .. PIPESIZE /\ Pos(at, k) \in 0 .. UINT - 1 /\ k + 1 \in Int /\ n \in Int
      /\ RingOK(D, Pos(at, k), n - k)
  BY <1>0 DEF Pos, RingOK
<1>2. /\ Ring(d, at, n) \in Seq(ByteOrJunk) /\ Len(Ring(d, at, n)) = n
      /\ \A i \in 1 .. n : Ring(d, at, n)[i] = d[Slot(at + (i - 1))]
  BY RingIs
<1>3. /\ Ring(D, Pos(at, k), n - k) \in Seq(ByteOrJunk) /\ Len(Ring(D, Pos(at, k), n - k)) = n - k
      /\ \A i \in 1 .. n - k : Ring(D, Pos(at, k), n - k)[i] = D[Slot(Pos(at, k) + (i - 1))]
  <2>1. PICK r, m : r = Pos(at, k) /\ m = n - k
    OBVIOUS
  <2>2. /\ Ring(D, r, m) \in Seq(ByteOrJunk) /\ Len(Ring(D, r, m)) = m
        /\ \A i \in 1 .. m : Ring(D, r, m)[i] = D[Slot(r + (i - 1))]
    <3>1. RingOK(D, r, m)
      BY <1>1, <2>1
    <3>2. QED
      BY <3>1, RingIs
  <2>3. QED
    BY <2>1, <2>2
<1>10. \A x \in 0 .. PIPESIZE - 1 : (\A i \in 0 .. k - 1 : x # Slot(at + i)) => D[x] = d[x]
  <2>1. Stores(d, at, k, bs)
    BY <1>0, <1>1 DEF Stores
  <2>2. QED
    BY <2>1, StoredIs DEF IsStored
<1>4. PICK s : s = Ring(d, at, n)
  OBVIOUS
<1>5. PICK t : t = Ring(D, Pos(at, k), n - k)
  OBVIOUS
<1>6. /\ SubSeq(s, k + 1, n) \in Seq(ByteOrJunk) /\ Len(SubSeq(s, k + 1, n)) = n - k
      /\ \A i \in 1 .. n - k : SubSeq(s, k + 1, n)[i] = s[k + i]
  <2>1. \A i \in k + 1 .. n : s[i] \in ByteOrJunk
    <3>1. s \in Seq(ByteOrJunk) /\ Len(s) = n
      BY <1>2, <1>4
    <3>2. QED
      BY <1>1, <3>1
  <2>2. /\ SubSeq(s, k + 1, n) \in Seq(ByteOrJunk)
        /\ Len(SubSeq(s, k + 1, n)) = IF k + 1 <= n THEN n - (k + 1) + 1 ELSE 0
        /\ \A i \in 1 .. n - (k + 1) + 1 : SubSeq(s, k + 1, n)[i] = s[k + 1 + i - 1]
    <3>1. k + 1 \in Int /\ n \in Int
      BY <1>1
    <3>2. QED
      BY <2>1, <3>1, SubSeqProperties
  <2>3. n - (k + 1) + 1 = n - k /\ \A i \in 1 .. n - k : k + 1 + i - 1 = k + i
    BY <1>1
  <2>4. QED
    BY <1>1, <2>2, <2>3
<1>7. ASSUME NEW i \in 1 .. n - k PROVE t[i] = SubSeq(s, k + 1, n)[i]
  <2>1. k + (i - 1) \in 0 .. PIPESIZE - 1 /\ i - 1 \in 0 .. PIPESIZE /\ k + (i - 1) <= PIPESIZE
        /\ k + i \in 1 .. n /\ (k + i) - 1 = k + (i - 1) /\ k + (i - 1) \in 0 .. PIPESIZE
    BY <1>0, <1>1
  <2>2. Slot(Pos(at, k) + (i - 1)) = Slot(at + (k + (i - 1)))
    BY <1>0, <1>1, <2>1, SlotMoves
  <2>3. Slot(at + (k + (i - 1))) \in 0 .. PIPESIZE - 1
    BY <1>0, <2>1, SlotIs
  <2>4. ASSUME NEW j \in 0 .. k - 1 PROVE Slot(at + (k + (i - 1))) # Slot(at + j)
    <3>1. j \in 0 .. PIPESIZE - 1 /\ j < k + (i - 1)
      BY <1>1
    <3>2. QED
      BY <1>0, <2>1, <3>1, SlotsDiffer
  <2>5. D[Slot(at + (k + (i - 1)))] = d[Slot(at + (k + (i - 1)))]
    BY <1>10, <2>3, <2>4
  <2>6. s[k + i] = d[Slot(at + (k + (i - 1)))]
    BY <1>2, <1>4, <2>1
  <2>7. t[i] = D[Slot(at + (k + (i - 1)))]
    BY <1>3, <1>5, <2>2
  <2>8. QED
    BY <1>6, <2>5, <2>6, <2>7
<1>8. t = SubSeq(s, k + 1, n)
  <2>1. t \in Seq(ByteOrJunk) /\ Len(t) = n - k
    BY <1>3, <1>5
  <2>2. QED
    BY <1>6, <1>7, <2>1, SeqEqual
<1>9. QED
  BY <1>2, <1>4, <1>5, <1>8

(* Writing appends to the bytes of the ring.                               *)
LEMMA RingWrite ==
    ASSUME NEW d, NEW at, NEW n, RingOK(d, at, n), NEW bs \in Seq(Byte), n + Len(bs) <= PIPESIZE,
           NEW D \in [0 .. PIPESIZE - 1 -> ByteOrJunk], D = Stored(d, Pos(at, n), bs)
    PROVE  Ring(D, at, n + Len(bs)) = Ring(d, at, n) \o bs
<1>0. d \in [0 .. PIPESIZE - 1 -> ByteOrJunk] /\ at \in 0 .. UINT - 1 /\ n \in 0 .. PIPESIZE
  BY DEF RingOK
<1>1. PICK k \in Nat : k = Len(bs)
  BY LenProperties
<1>2. /\ k \in 0 .. PIPESIZE /\ n + k \in 0 .. PIPESIZE /\ Pos(at, n) \in 0 .. UINT - 1 /\ Len(bs) = k
      /\ RingOK(D, at, n + k)
  BY <1>0, <1>1 DEF Pos, RingOK
<1>3. /\ Ring(d, at, n) \in Seq(ByteOrJunk) /\ Len(Ring(d, at, n)) = n
      /\ \A i \in 1 .. n : Ring(d, at, n)[i] = d[Slot(at + (i - 1))]
  BY RingIs
<1>4. /\ Ring(D, at, n + k) \in Seq(ByteOrJunk) /\ Len(Ring(D, at, n + k)) = n + k
      /\ \A i \in 1 .. n + k : Ring(D, at, n + k)[i] = D[Slot(at + (i - 1))]
  BY <1>2, RingIs
<1>5. PICK s : s = Ring(d, at, n)
  OBVIOUS
<1>6. PICK t : t = Ring(D, at, n + k)
  OBVIOUS
<1>7. s \in Seq(ByteOrJunk) /\ Len(s) = n /\ bs \in Seq(ByteOrJunk) /\ t \in Seq(ByteOrJunk) /\ Len(t) = n + k
  BY <1>3, <1>4, <1>5, <1>6 DEF ByteOrJunk
<1>8. /\ s \o bs \in Seq(ByteOrJunk) /\ Len(s \o bs) = n + k
      /\ \A i \in 1 .. n + k : (s \o bs)[i] = IF i <= n THEN s[i] ELSE bs[i - n]
  <2>1. /\ s \o bs \in Seq(ByteOrJunk) /\ Len(s \o bs) = Len(s) + Len(bs)
        /\ \A i \in 1 .. Len(s) + Len(bs) : (s \o bs)[i] = IF i <= Len(s) THEN s[i] ELSE bs[i - Len(s)]
    <3> HIDE DEF ByteOrJunk
    <3>1. s \in Seq(ByteOrJunk) /\ bs \in Seq(ByteOrJunk)
      BY <1>7
    <3>2. QED
      BY <3>1, ConcatProperties
  <2>2. QED
    BY <1>2, <1>7, <2>1, Zenon
<1>13. /\ \A i \in 0 .. k - 1 : D[Slot(Pos(at, n) + i)] = bs[i + 1]
       /\ \A x \in 0 .. PIPESIZE - 1 : (\A i \in 0 .. k - 1 : x # Slot(Pos(at, n) + i)) => D[x] = d[x]
  <2>1. PICK a : a = Pos(at, n)
    OBVIOUS
  <2>2. Stores(d, a, k, bs)
    BY <1>0, <1>2, <2>1 DEF Stores
  <2>3. IsStored(D, d, Pos(at, n), k, bs)
    BY <2>1, <2>2, StoredIs, Zenon
  <2>4. QED
    BY <2>3 DEF IsStored
<1>9. ASSUME NEW j \in 0 .. k - 1 PROVE Slot(Pos(at, n) + j) = Slot(at + (n + j)) /\ D[Slot(at + (n + j))] = bs[j + 1]
  <2>1. j \in 0 .. PIPESIZE /\ n + j <= PIPESIZE
    BY <1>0, <1>2
  <2>2. Slot(Pos(at, n) + j) = Slot(at + (n + j))
    BY <1>0, <2>1, SlotMoves
  <2>3. D[Slot(Pos(at, n) + j)] = bs[j + 1]
    BY <1>13
  <2>4. QED
    BY <2>2, <2>3
<1>10. ASSUME NEW i \in 1 .. n + k PROVE t[i] = (s \o bs)[i]
  <2>1. t[i] = D[Slot(at + (i - 1))]
    BY <1>4, <1>6
  <2>2. CASE i <= n
    <3>1. i \in 1 .. n /\ i - 1 \in 0 .. PIPESIZE - 1 /\ i - 1 \in 0 .. PIPESIZE
      BY <1>0, <2>2
    <3>2. ASSUME NEW j \in 0 .. k - 1 PROVE Slot(at + (i - 1)) # Slot(Pos(at, n) + j)
      <4>1. n + j \in 0 .. PIPESIZE - 1 /\ i - 1 < n + j
        BY <1>0, <1>2, <2>2
      <4>2. Slot(at + (i - 1)) # Slot(at + (n + j))
        BY <1>0, <3>1, <4>1, SlotsDiffer
      <4>3. QED
        BY <1>9, <4>2
    <3>3. Slot(at + (i - 1)) \in 0 .. PIPESIZE - 1
      BY <1>0, <3>1, SlotIs
    <3>4. D[Slot(at + (i - 1))] = d[Slot(at + (i - 1))]
      BY <1>13, <3>2, <3>3
    <3>5. s[i] = d[Slot(at + (i - 1))]
      BY <1>3, <1>5, <3>1
    <3>6. QED
      BY <1>8, <2>1, <2>2, <3>4, <3>5
  <2>3. CASE ~(i <= n)
    <3>1. PICK j \in 0 .. k - 1 : i = n + j + 1
      <4>1. i - 1 - n \in 0 .. k - 1 /\ i = n + (i - 1 - n) + 1
        BY <1>0, <2>3
      <4>2. QED
        BY <4>1
    <3>2. i - 1 = n + j /\ i - n = j + 1
      BY <1>0, <3>1
    <3>3. QED
      BY <1>8, <1>9, <2>1, <2>3, <3>2
  <2>4. QED
    BY <2>2, <2>3
<1>11. t = s \o bs
  BY <1>7, <1>8, <1>10, SeqEqual
<1>12. QED
  BY <1>1, <1>5, <1>6, <1>11

-----------------------------------------------------------------------------
(* The requests.  A step leaves the requests of the others as they are,    *)
(* and only read, write and what they do change those of their process.    *)
SameRequest(q) ==
    /\ pc'[q] \in Reading <=> pc[q] \in Reading
    /\ pc'[q] \in Writing <=> pc[q] \in Writing
    /\ Asks(q) => call'[q].bytes = call[q].bytes /\ call'[q].n = call[q].n

(* Who reads has nothing to write and asks for something; who writes asks  *)
(* for nothing.                                                            *)
RequestsOK ==
    \A p \in Process :
        /\ pc[p] \in Reading => call[p].bytes = <<>> /\ call[p].n > 0
        /\ pc[p] \in Writing => call[p].n = 0

LEMMA Quiet ==
    ASSUME IInv, NEW p \in Process,
           \/ SysPipe(p) \/ Exit(p) \/ ExitDone(p) \/ PipeClose(p) \/ Kfree(p) \/ Sleep(p)
           \/ \E q \in Process : Fork(p, q) \/ Kill(p, q)
           \/ \E e \in {"r", "w"} : SysClose(p, e) \/ ExitFile(p, e)
    PROVE  \A q \in Process : SameRequest(q)
<1>0. /\ pc \in [Process -> {"unused", "user", "exit", "pipeclose", "kfree"} \cup Reading \cup Writing]
      /\ call \in [Process -> [bytes : Seq(Byte), n : Nat, end : {"r", "w", None}, exits : BOOLEAN]]
  BY DEF IInv, TypeOK
<1> DEFINE Quietly(l) == ~(l \in Reading) /\ ~(l \in Writing)
<1>1. ASSUME NEW s \in Process, Quietly(pc[s]), Quietly(pc'[s]), \A q \in Process \ {s} : pc'[q] = pc[q] /\ call'[q] = call[q]
      PROVE  \A q \in Process : SameRequest(q)
  BY <1>1 DEF SameRequest, Asks
<1>2. CASE SysPipe(p)
  BY <1>2 DEF SysPipe, SameRequest
<1>3. CASE Exit(p)
  <2>1. /\ Quietly(pc[p]) /\ Quietly(pc'[p])
        /\ \A q \in Process \ {p} : pc'[q] = pc[q] /\ call'[q] = call[q]
    BY <1>0, <1>3 DEF Exit, At, Calls, Goto, Reading, Writing
  <2>2. QED
    BY <1>1, <2>1
<1>4. CASE ExitDone(p)
  <2>1. /\ Quietly(pc[p]) /\ Quietly(pc'[p])
        /\ \A q \in Process \ {p} : pc'[q] = pc[q] /\ call'[q] = call[q]
    BY <1>0, <1>4 DEF ExitDone, At, Calls, Goto, Reading, Writing
  <2>2. QED
    BY <1>1, <2>1
<1>5. CASE PipeClose(p)
  <2>1. PICK woken \in {WokenReaders, WokenWriters, pc} :
          \/ pc' = [woken EXCEPT ![p] = "kfree"] /\ UNCHANGED call
          \/ AfterClose(p, woken)
    BY <1>5 DEF PipeClose
  <2>2. woken \in [Process -> {"unused", "user", "exit", "pipeclose", "kfree"} \cup Reading \cup Writing]
    BY <1>0, <2>1, WokenTypes DEF IInv
  <2>3. /\ Quietly(pc[p]) /\ Quietly(pc'[p])
        /\ \A q \in Process \ {p} : pc'[q] = woken[q] /\ call'[q] = call[q]
    BY <1>0, <1>5, <2>1, <2>2 DEF PipeClose, At, AfterClose, Reading, Writing
  <2>4. \A q \in Process \ {p} : /\ pc'[q] \in Reading <=> pc[q] \in Reading
                                 /\ pc'[q] \in Writing <=> pc[q] \in Writing
    BY <2>3, Woken
  <2>5. QED
    BY <2>3, <2>4 DEF SameRequest, Asks
<1>6. CASE Kfree(p)
  <2>1. /\ Quietly(pc[p]) /\ Quietly(pc'[p])
        /\ \A q \in Process \ {p} : pc'[q] = pc[q] /\ call'[q] = call[q]
    BY <1>0, <1>6 DEF Kfree, At, AfterClose, Reading, Writing
  <2>2. QED
    BY <1>1, <2>1
<1>7. CASE Sleep(p)
  <2>1. /\ \/ pc[p] = "readsleep" /\ pc' = [pc EXCEPT ![p] = "readwait"]
           \/ pc[p] = "writesleep" /\ pc' = [pc EXCEPT ![p] = "writewait"]
        /\ UNCHANGED call
    BY <1>7 DEF Sleep, At, Goto
  <2>2. QED
    BY <1>0, <2>1 DEF SameRequest, Asks, Reading, Writing
<1>8. ASSUME NEW s \in Process, Fork(p, s) PROVE \A q \in Process : SameRequest(q)
  <2>1. /\ Quietly(pc[s]) /\ Quietly(pc'[s])
        /\ \A q \in Process \ {s} : pc'[q] = pc[q] /\ call'[q] = call[q]
    BY <1>0, <1>8 DEF Fork, At, Goto, Reading, Writing
  <2>2. QED
    BY <1>1, <2>1
<1>9. ASSUME NEW s \in Process, Kill(p, s) PROVE \A q \in Process : SameRequest(q)
  <2>1. pc' = [pc EXCEPT ![s] = Kicked(s)] /\ UNCHANGED call
    BY <1>9 DEF Kill, Goto
  <2>2. /\ Kicked(s) \in Reading <=> pc[s] \in Reading
        /\ Kicked(s) \in Writing <=> pc[s] \in Writing
    BY DEF Kicked, At, Reading, Writing
  <2>3. QED
    BY <1>0, <2>1, <2>2 DEF SameRequest, Asks
<1>10. ASSUME NEW e \in {"r", "w"}, SysClose(p, e) \/ ExitFile(p, e) PROVE \A q \in Process : SameRequest(q)
  <2>1. PICK exits \in BOOLEAN : FileClose(p, e, exits) /\ pc[p] \in {"user", "exit"}
    BY <1>10 DEF SysClose, ExitFile, User, At
  <2>2. /\ Quietly(pc[p]) /\ Quietly(pc'[p])
        /\ \A q \in Process \ {p} : pc'[q] = pc[q] /\ call'[q] = call[q]
    BY <1>0, <2>1 DEF FileClose, Calls, Goto, Reading, Writing
  <2>3. QED
    BY <1>1, <2>2
<1>11. QED
  BY <1>2, <1>3, <1>4, <1>5, <1>6, <1>7, <1>8, <1>9, <1>10

LEMMA OthersQuiet ==
    ASSUME IInv, NEW p \in Process, NEW q \in Process \ {p},
           \/ PipeRead(p) \/ PipeWrite(p)
           \/ \E n \in Counts : SysRead(p, n)
           \/ \E bs \in Buffers : SysWrite(p, bs)
    PROVE  SameRequest(q)
<1>0. /\ pc \in [Process -> {"unused", "user", "exit", "pipeclose", "kfree"} \cup Reading \cup Writing]
      /\ call \in [Process -> [bytes : Seq(Byte), n : Nat, end : {"r", "w", None}, exits : BOOLEAN]]
  BY DEF IInv, TypeOK
<1>1. PICK woken \in {WokenReaders, WokenWriters, pc}, l \in {"user", "readsleep", "writesleep", "piperead", "pipewrite"} :
        pc' = [woken EXCEPT ![p] = l]
  BY DEF PipeRead, PipeWrite, SysRead, SysWrite, Return, Calls, Goto
<1>2. call'[q] = call[q]
  BY <1>0 DEF PipeRead, PipeWrite, SysRead, SysWrite, Return, Calls
<1>3. pc'[q] = woken[q]
  <2>1. woken \in [Process -> {"unused", "user", "exit", "pipeclose", "kfree"} \cup Reading \cup Writing]
    BY <1>0, <1>1, WokenTypes DEF IInv
  <2>2. QED
    BY <1>1, <2>1
<1>4. QED
  BY <1>2, <1>3, Woken DEF SameRequest

(* What read and write ask, and what they have got.                        *)
LEMMA Asked ==
    ASSUME IInv, NEW p \in Process
    PROVE  /\ \A n \in Counts : SysRead(p, n) =>
                /\ pc[p] = "user" /\ pc'[p] = "piperead" /\ call'[p].bytes = <<>> /\ call'[p].n = n
           /\ \A bs \in Buffers : SysWrite(p, bs) =>
                /\ pc[p] = "user" /\ pc'[p] = "pipewrite" /\ call'[p].bytes = bs /\ call'[p].n = 0
BY DEF IInv, TypeOK, SysRead, SysWrite, User, At, Calls, Goto, NoCall

LEMMA ReadDone ==
    ASSUME IInv, NEW p \in Process, PipeRead(p)
    PROVE  /\ pc[p] = "piperead"
           /\ \/ MustWait /\ killed[p] /\ UNCHANGED pipe /\ pc'[p] = "user"
              \/ MustWait /\ UNCHANGED pipe /\ pc'[p] = "readsleep" /\ call'[p] = call[p]
              \/ ~MustWait /\ pc'[p] = "user"
<1>1. WokenWriters \in [Process -> {"unused", "user", "exit", "pipeclose", "kfree"} \cup Reading \cup Writing]
  BY WokenTypes DEF IInv
<1>2. QED
  BY <1>1 DEF PipeRead, Return, Calls, Goto, At, IInv, TypeOK

LEMMA WriteDone ==
    ASSUME IInv, NEW p \in Process, PipeWrite(p), NEW rest,
           rest = SubSeq(call[p].bytes, Smaller(Len(call[p].bytes), Room) + 1, Len(call[p].bytes))
    PROVE  /\ pc[p] = "pipewrite"
           /\ \/ rest = <<>> /\ pc'[p] = "user"
              \/ rest # <<>> /\ (~pipe.readopen \/ killed[p]) /\ pc'[p] = "user"
              \/ pc'[p] = "writesleep" /\ call'[p].bytes = rest /\ call'[p].n = call[p].n
<1>1. WokenReaders \in [Process -> {"unused", "user", "exit", "pipeclose", "kfree"} \cup Reading \cup Writing]
  BY WokenTypes DEF IInv
<1>2. \/ rest = <<>> /\ pc' = [WokenReaders EXCEPT ![p] = "user"]
      \/ rest # <<>> /\ (~pipe.readopen \/ killed[p]) /\ pc' = [pc EXCEPT ![p] = "user"]
      \/ pc' = [WokenReaders EXCEPT ![p] = "writesleep"] /\ call' = [call EXCEPT ![p].bytes = rest]
  BY DEF PipeWrite, Return, Calls, Goto
<1>3. pc[p] = "pipewrite"
  BY DEF PipeWrite, At
<1>4. QED
  BY <1>1, <1>2, <1>3 DEF IInv, TypeOK

LEMMA RequestsStep ==
    ASSUME IInv, RequestsOK, NEW p \in Process, Step(p)
    PROVE  RequestsOK'
<1>1. ASSUME \A q \in Process : SameRequest(q) PROVE RequestsOK'
  BY <1>1 DEF RequestsOK, SameRequest, Asks
<1>2. ASSUME \A q \in Process \ {p} : SameRequest(q),
             pc'[p] \in Reading => call'[p].bytes = <<>> /\ call'[p].n > 0,
             pc'[p] \in Writing => call'[p].n = 0
      PROVE  RequestsOK'
  BY <1>2 DEF RequestsOK, SameRequest, Asks
<1>3. ASSUME NEW n \in Counts, SysRead(p, n) PROVE RequestsOK'
  <2>1. pc'[p] = "piperead" /\ call'[p].bytes = <<>> /\ call'[p].n = n /\ n > 0
    BY <1>3, Asked
  <2>2. pc'[p] \notin Writing
    BY <2>1 DEF Writing
  <2>3. \A q \in Process \ {p} : SameRequest(q)
    BY <1>3, OthersQuiet
  <2>4. QED
    BY <1>2, <2>1, <2>2, <2>3
<1>4. ASSUME NEW bs \in Buffers, SysWrite(p, bs) PROVE RequestsOK'
  BY <1>2, <1>4, OthersQuiet, Asked DEF Reading
<1>5. CASE PipeRead(p)
  BY <1>2, <1>5, OthersQuiet, ReadDone DEF RequestsOK, Reading, Writing
<1>6. CASE PipeWrite(p)
  <2>1. /\ pc[p] = "pipewrite"
        /\ pc'[p] # "user" => pc'[p] = "writesleep" /\ call'[p].n = call[p].n
    BY <1>6, WriteDone
  <2>2. QED
    BY <1>2, <1>6, <2>1, OthersQuiet DEF RequestsOK, Reading, Writing
<1>7. QED
  BY <1>1, <1>3, <1>4, <1>5, <1>6, Quiet DEF Step

LEMMA Requests == Spec => []RequestsOK
<1>1. Init => RequestsOK
  BY DEF Init, RequestsOK, Reading, Writing
<1>2. IInv /\ RequestsOK /\ [Next]_vars => RequestsOK'
  <2> SUFFICES ASSUME IInv, RequestsOK, [Next]_vars PROVE RequestsOK'
    OBVIOUS
  <2>1. CASE Next
    BY <2>1, RequestsStep DEF Next
  <2>2. CASE UNCHANGED vars
    BY <2>2 DEF vars, RequestsOK
  <2>3. QED
    BY <2>1, <2>2
<1>3. QED
  BY Inductive, <1>1, <1>2, PTL DEF Spec

-----------------------------------------------------------------------------
(* The contents: the ring from the counter of the readers on.              *)
LEMMA CountersMove ==
    ASSUME NEW r \in 0 .. UINT - 1, NEW w \in 0 .. UINT - 1, NEW k \in 0 .. UINT - 1
    PROVE  /\ Pos(r, Between(r, w)) = w
           /\ k <= Between(r, w) => Between(Pos(r, k), w) = Between(r, w) - k
<1>1. CASE r <= w
  BY <1>1 DEF Between, Pos
<1>2. CASE ~(r <= w)
  BY <1>2 DEF Between, Pos
<1>3. QED
  BY <1>1, <1>2

LEMMA ContentIs ==
    ASSUME IInv, pipe.readopen \/ pipe.writeopen
    PROVE  /\ RingOK(pipe.data, pipe.nread, Held)
           /\ Content = Ring(pipe.data, pipe.nread, Held) /\ Len(Content) = Held
           /\ pipe.nwrite = Pos(pipe.nread, Held)
<1>1. Held \in 0 .. UINT - 1 /\ Held <= PIPESIZE /\ Held = Between(pipe.nread, pipe.nwrite)
  BY Counters DEF IInv, SleepOK
<1>2. RingOK(pipe.data, pipe.nread, Held)
  BY <1>1 DEF RingOK, IInv, TypeOK, ByteOrJunk
<1>3. Content = Ring(pipe.data, pipe.nread, Held)
  BY DEF Content, Fetched, Ring
<1>4. Len(Ring(pipe.data, pipe.nread, Held)) = Held
  BY <1>2, RingIs
<1>5. pipe.nwrite = Pos(pipe.nread, Held)
  <2>1. pipe.nread \in 0 .. UINT - 1 /\ pipe.nwrite \in 0 .. UINT - 1 /\ 0 \in 0 .. UINT - 1
    BY DEF IInv, TypeOK
  <2>2. PICK r \in 0 .. UINT - 1, w \in 0 .. UINT - 1 : r = pipe.nread /\ w = pipe.nwrite
    BY <2>1
  <2>3. Pos(r, Between(r, w)) = w
    BY <2>1, CountersMove
  <2>4. QED
    BY <1>1, <2>2, <2>3
<1>6. QED
  BY <1>2, <1>3, <1>4, <1>5

LEMMA ContentIsNext ==
    ASSUME IInv', pipe'.readopen \/ pipe'.writeopen
    PROVE  Content' = Ring(pipe'.data, pipe'.nread, Held') /\ Len(Content') = Held'
<1>1. Held' \in 0 .. UINT - 1 /\ Held' <= PIPESIZE
  BY CountersNext DEF IInv, SleepOK
<1>2. RingOK(pipe'.data, pipe'.nread, Held')
  BY <1>1 DEF RingOK, IInv, TypeOK, ByteOrJunk
<1>3. Content' = Ring(pipe'.data, pipe'.nread, Held')
  BY DEF Content, Fetched, Ring
<1>4. Len(Ring(pipe'.data, pipe'.nread, Held')) = Held'
  BY <1>2, RingIs
<1>5. QED
  BY <1>3, <1>4

LEMMA NoContent ==
    ASSUME IInv
    PROVE  (Empty => Content = <<>>) /\ (~pipe.readopen /\ ~pipe.writeopen => Content = <<>>)
<1>1. ASSUME Empty, pipe.readopen \/ pipe.writeopen PROVE Content = <<>>
  <2>1. Held = 0
    BY <1>1, Counters DEF IInv
  <2>2. Content = Ring(pipe.data, pipe.nread, 0)
    BY <1>1, <2>1, ContentIs
  <2>3. QED
    BY <2>2 DEF Ring
<1>2. QED
  BY <1>1 DEF Content

LEMMA ReadTakes ==
    ASSUME IInv, IInv', NEW p \in Process, PipeRead(p), ~MustWait, NEW k, k = Smaller(call[p].n, Held)
    PROVE  Content' = SubSeq(Content, k + 1, Len(Content))
<1>1. pipe.readopen
  BY DEF PipeRead, At, IInv, Control, CallsOK, EndsOK, IsOpen, Reading
<1>2. /\ pipe'.readopen = pipe.readopen /\ pipe'.writeopen = pipe.writeopen
      /\ pipe'.nwrite = pipe.nwrite /\ pipe'.nread = Advanced(pipe.nread, k)
      /\ pipe'.data = Stored(pipe.data, pipe.nread, [i \in 1 .. k |-> Junk])
  BY DEF PipeRead, IInv, TypeOK
<1>3. k \in 0 .. Held /\ k \in 0 .. UINT - 1 /\ Held \in 0 .. UINT - 1 /\ Held = Between(pipe.nread, pipe.nwrite)
  <2>1. Held \in 0 .. UINT - 1 /\ Held = Between(pipe.nread, pipe.nwrite) /\ call[p].n \in Nat
    BY Counters DEF IInv, TypeOK
  <2>2. QED
    BY <2>1 DEF Smaller
<1>4. pipe'.nread = Pos(pipe.nread, k)
  <2>1. Advanced(pipe.nread, k) = IF pipe.nread + k < UINT THEN pipe.nread + k ELSE pipe.nread + k - UINT
    BY <1>3, Counters DEF IInv, TypeOK
  <2>2. QED
    BY <1>2, <2>1 DEF Pos
<1>5. Held' = Held - k
  <2>1. PICK r \in 0 .. UINT - 1, w \in 0 .. UINT - 1 : r = pipe.nread /\ w = pipe.nwrite
    BY DEF IInv, TypeOK
  <2>2. Between(Pos(r, k), w) = Between(r, w) - k
    BY <1>3, <2>1, CountersMove
  <2>3. Held' = Between(pipe'.nread, pipe'.nwrite)
    BY CountersNext DEF IInv
  <2>4. QED
    BY <1>2, <1>3, <1>4, <2>1, <2>2, <2>3
<1>6. Content = Ring(pipe.data, pipe.nread, Held) /\ RingOK(pipe.data, pipe.nread, Held)
  BY <1>1, ContentIs
<1>7. Content' = Ring(pipe'.data, Pos(pipe.nread, k), Held - k)
  BY <1>1, <1>2, <1>4, <1>5, ContentIsNext
<1>8. pipe'.data \in [0 .. PIPESIZE - 1 -> ByteOrJunk]
  BY DEF IInv, TypeOK, ByteOrJunk
<1>9. PICK d, D, at, n : d = pipe.data /\ D = pipe'.data /\ at = pipe.nread /\ n = Held
  OBVIOUS
<1>10. PICK junk : junk = [i \in 1 .. k |-> Junk]
  OBVIOUS
<1>11. Len(junk) = k
  BY <1>3, <1>10
<1>12. RingOK(d, at, n) /\ k \in 0 .. n /\ D \in [0 .. PIPESIZE - 1 -> ByteOrJunk] /\ D = Stored(d, at, junk)
  BY <1>2, <1>3, <1>6, <1>8, <1>9, <1>10
<1>13. Ring(D, Pos(at, k), n - k) = SubSeq(Ring(d, at, n), k + 1, Len(Ring(d, at, n)))
  BY <1>11, <1>12, RingRead
<1>14. QED
  BY <1>6, <1>7, <1>9, <1>13

LEMMA WritePuts ==
    ASSUME IInv, IInv', NEW p \in Process, PipeWrite(p), NEW k, k = Smaller(Len(call[p].bytes), Room)
    PROVE  /\ k \in 0 .. Len(call[p].bytes) /\ Len(Content) + k <= PIPESIZE
           /\ Content' = Content \o SubSeq(call[p].bytes, 1, k) /\ Len(Content') = Held'
           /\ SubSeq(call[p].bytes, k + 1, Len(call[p].bytes)) # <<>> => Len(Content') = PIPESIZE
<1>1. pipe.writeopen
  BY DEF PipeWrite, At, IInv, Control, CallsOK, EndsOK, IsOpen, Writing
<1>2. /\ pipe'.readopen = pipe.readopen /\ pipe'.writeopen = pipe.writeopen
      /\ pipe'.nread = pipe.nread /\ pipe'.nwrite = Advanced(pipe.nwrite, k)
      /\ pipe'.data = Stored(pipe.data, pipe.nwrite, SubSeq(call[p].bytes, 1, k))
  BY DEF PipeWrite, IInv, TypeOK
<1>3. PICK bs : bs = call[p].bytes
  OBVIOUS
<1>4. bs \in Seq(Byte) /\ Len(bs) \in Nat
  BY <1>3, LenProperties DEF IInv, TypeOK
<1>5. /\ Held \in 0 .. PIPESIZE /\ Held \in 0 .. UINT - 1 /\ Held = Between(pipe.nread, pipe.nwrite)
      /\ Room = PIPESIZE - Held
  BY Counters DEF IInv, SleepOK, Room
<1>6. k \in 0 .. Len(bs) /\ Held + k <= PIPESIZE /\ k \in 0 .. UINT - 1 /\ k \in Nat
  <2>1. k = IF Len(bs) < Room THEN Len(bs) ELSE Room
    BY <1>3 DEF Smaller
  <2>2. QED
    BY <1>4, <1>5, <2>1
<1>7. SubSeq(bs, 1, k) \in Seq(Byte) /\ Len(SubSeq(bs, 1, k)) = k
  BY <1>4, <1>6, Written
<1>8. Held' = Held + k
  <2>1. Advanced(pipe.nwrite, k) = IF pipe.nwrite + k < UINT THEN pipe.nwrite + k ELSE pipe.nwrite + k - UINT
    BY <1>6, Counters DEF IInv, TypeOK
  <2>2. PICK r \in 0 .. UINT - 1, w \in 0 .. UINT - 1 : r = pipe.nread /\ w = pipe.nwrite
    BY DEF IInv, TypeOK
  <2>3. Between(r, w) + k < UINT
    BY <1>5, <1>6, <2>2
  <2>4. Between(r, IF w + k < UINT THEN w + k ELSE w + k - UINT) = Between(r, w) + k
    BY <1>6, <2>3, Moves
  <2>5. Held' = Between(pipe'.nread, pipe'.nwrite)
    BY CountersNext DEF IInv
  <2>6. QED
    BY <1>2, <1>5, <2>1, <2>2, <2>4, <2>5
<1>9. /\ Content = Ring(pipe.data, pipe.nread, Held) /\ Len(Content) = Held
      /\ RingOK(pipe.data, pipe.nread, Held) /\ pipe.nwrite = Pos(pipe.nread, Held)
  BY <1>1, ContentIs
<1>10. Content' = Ring(pipe'.data, pipe.nread, Held + k) /\ Len(Content') = Held'
  BY <1>1, <1>2, <1>8, ContentIsNext
<1>11. pipe'.data \in [0 .. PIPESIZE - 1 -> ByteOrJunk]
  BY DEF IInv, TypeOK, ByteOrJunk
<1>12. PICK d, D, at, n, b : d = pipe.data /\ D = pipe'.data /\ at = pipe.nread /\ n = Held /\ b = SubSeq(bs, 1, k)
  OBVIOUS
<1>13. /\ RingOK(d, at, n) /\ b \in Seq(Byte) /\ Len(b) = k /\ n + Len(b) <= PIPESIZE
       /\ D \in [0 .. PIPESIZE - 1 -> ByteOrJunk] /\ D = Stored(d, Pos(at, n), b)
  BY <1>2, <1>3, <1>6, <1>7, <1>9, <1>11, <1>12
<1>14. Ring(D, at, n + Len(b)) = Ring(d, at, n) \o b
  BY <1>13, RingWrite
<1>15. Content' = Content \o SubSeq(bs, 1, k)
  BY <1>9, <1>10, <1>12, <1>13, <1>14
<1>16. SubSeq(bs, k + 1, Len(bs)) # <<>> => Held' = PIPESIZE
  <2>1. Full' <=> Held' = PIPESIZE
    BY CountersNext DEF IInv
  <2>2. SubSeq(bs, k + 1, Len(bs)) # <<>> => Full'
    BY <1>3, Filled DEF IInv
  <2>3. QED
    BY <2>1, <2>2
<1>17. QED
  BY <1>3, <1>6, <1>9, <1>10, <1>15, <1>16

-----------------------------------------------------------------------------
(* The refinement.                                                         *)
LEMMA AllSame ==
    ASSUME \A q \in Process : SameRequest(q)
    PROVE  ToPut' = ToPut /\ ToTake' = ToTake
<1>1. \A q \in Process : /\ (IF Asks(q)' THEN call'[q].bytes ELSE <<>>) = (IF Asks(q) THEN call[q].bytes ELSE <<>>)
                         /\ (IF Asks(q)' THEN call'[q].n ELSE 0) = (IF Asks(q) THEN call[q].n ELSE 0)
  BY DEF SameRequest, Asks
<1>2. QED
  BY <1>1 DEF ToPut, ToTake

LEMMA OneChanges ==
    ASSUME NEW p \in Process, \A q \in Process \ {p} : SameRequest(q)
    PROVE  /\ ToPut' = [ToPut EXCEPT ![p] = IF Asks(p)' THEN call'[p].bytes ELSE <<>>]
           /\ ToTake' = [ToTake EXCEPT ![p] = IF Asks(p)' THEN call'[p].n ELSE 0]
<1>1. \A q \in Process \ {p} : /\ (IF Asks(q)' THEN call'[q].bytes ELSE <<>>) = (IF Asks(q) THEN call[q].bytes ELSE <<>>)
                               /\ (IF Asks(q)' THEN call'[q].n ELSE 0) = (IF Asks(q) THEN call[q].n ELSE 0)
  BY DEF SameRequest, Asks
<1>2. QED
  BY <1>1 DEF ToPut, ToTake

LEMMA Request ==
    ASSUME NEW p \in Process
    PROVE  /\ ToPut[p] = (IF Asks(p) THEN call[p].bytes ELSE <<>>) /\ ToTake[p] = (IF Asks(p) THEN call[p].n ELSE 0)
           /\ ToPut = [ToPut EXCEPT ![p] = ToPut[p]] /\ ToTake = [ToTake EXCEPT ![p] = ToTake[p]]
BY DEF ToPut, ToTake

Refines == Stream!Next \/ UNCHANGED Stream!vars

LEMMA QuietRefines ==
    ASSUME IInv, IInv', NEW p \in Process,
           \/ Exit(p) \/ Sleep(p)
           \/ \E q \in Process : Fork(p, q)
           \/ \E e \in {"r", "w"} : SysClose(p, e) \/ ExitFile(p, e)
    PROVE  Refines
<1>1. UNCHANGED pipe /\ UNCHANGED killed
  BY DEF Exit, Sleep, Fork, SysClose, ExitFile, FileClose
<1>2. ToPut' = ToPut /\ ToTake' = ToTake
  BY Quiet, AllSame
<1>3. Content' = Content
  BY <1>1 DEF Content, Fetched, Held
<1>4. QED
  BY <1>1, <1>2, <1>3 DEF Refines, Stream!vars

LEMMA KillRefines ==
    ASSUME IInv, IInv', NEW p \in Process, ExitDone(p) \/ \E q \in Process : Kill(p, q)
    PROVE  Refines
<1>1. UNCHANGED pipe
  BY DEF ExitDone, Kill
<1>2. ToPut' = ToPut /\ ToTake' = ToTake
  BY Quiet, AllSame
<1>3. Content' = Content
  BY <1>1 DEF Content, Fetched, Held
<1>4. CASE ExitDone(p)
  <2>1. ToPut[p] = <<>> /\ ToTake[p] = 0
    BY <1>4, Request DEF ExitDone, At, Asks, Reading, Writing
  <2>2. Stream!Renew(p)
    BY <1>1, <1>2, <1>3, <1>4, <2>1 DEF ExitDone, Stream!Renew, Stream!Idle
  <2>3. QED
    BY <2>2 DEF Refines, Stream!Next
<1>5. ASSUME NEW q \in Process, Kill(p, q) PROVE Refines
  <2>1. Stream!Kill(q)
    BY <1>1, <1>2, <1>3, <1>5 DEF Kill, Stream!Kill
  <2>2. QED
    BY <2>1 DEF Refines, Stream!Next
<1>6. QED
  BY <1>4, <1>5

(* A pipe is made: the page is free, with both ends closed.  The page is   *)
(* freed with both ends closed.                                            *)
LEMMA PageRefines ==
    ASSUME IInv, IInv', NEW p \in Process, SysPipe(p) \/ Kfree(p)
    PROVE  Refines
<1>1. ToPut' = ToPut /\ ToTake' = ToTake
  BY Quiet, AllSame
<1>2. ~pipe.readopen /\ ~pipe.writeopen
  BY DEF SysPipe, Kfree, IInv, Control, PageOK
<1>3. Content = <<>>
  BY <1>2, NoContent
<1>4. Content' = <<>>
  <2>1. pipe'.nread = pipe'.nwrite
    <3>1. NewPipe.nread = NewPipe.nwrite /\ FreePage.nread = FreePage.nwrite
      BY DEF NewPipe, FreePage
    <3>2. pipe' = NewPipe \/ pipe' = FreePage
      BY DEF SysPipe, Kfree
    <3>3. QED
      BY <3>1, <3>2, Zenon
  <2>2. ASSUME pipe'.readopen \/ pipe'.writeopen PROVE Content' = <<>>
    <3>1. Held' = 0
      <4>1. PICK r \in 0 .. UINT - 1 : r = pipe'.nread /\ r = pipe'.nwrite
        BY <2>1 DEF IInv, TypeOK
      <4>2. Between(r, r) = 0
        BY DEF Between
      <4>3. QED
        BY <4>1, <4>2, CountersNext DEF IInv
    <3>2. Content' = Ring(pipe'.data, pipe'.nread, 0)
      BY <2>2, <3>1, ContentIsNext
    <3>3. QED
      BY <3>2 DEF Ring
  <2>3. QED
    BY <2>2 DEF Content
<1>5. CASE SysPipe(p)
  <2>1. pipe'.readopen /\ pipe'.writeopen /\ pipe'.readopen = TRUE /\ pipe'.writeopen = TRUE /\ UNCHANGED killed
    BY <1>5 DEF SysPipe, NewPipe, FreePage
  <2>2. Stream!Open
    BY <1>1, <1>2, <1>3, <1>4, <2>1 DEF Stream!Open
  <2>3. QED
    BY <2>2 DEF Refines, Stream!Next
<1>6. CASE Kfree(p)
  <2>1. pipe'.readopen = FALSE /\ pipe'.writeopen = FALSE /\ UNCHANGED killed
    BY <1>6 DEF Kfree, FreePage
  <2>2. pipe.readopen = FALSE /\ pipe.writeopen = FALSE
    BY <1>2 DEF IInv, TypeOK
  <2>3. QED
    BY <1>1, <1>3, <1>4, <2>1, <2>2 DEF Refines, Stream!vars
<1>7. QED
  BY <1>5, <1>6

(* An end is closed: nobody reads or writes at it any more.                *)
LEMMA CloseRefines ==
    ASSUME IInv, IInv', RequestsOK, NEW p \in Process, PipeClose(p)
    PROVE  Refines
<1> DEFINE e == call[p].end
<1>1. ToPut' = ToPut /\ ToTake' = ToTake
  BY Quiet, AllSame
<1>2. Closes(p, e) /\ e \in {"r", "w"} /\ IsOpen(e)
  BY DEF PipeClose, Closes, IInv, Control, CallsOK, EndsOK, IsOpen
<1>3. \A q \in Process : e \notin ends[q]
  BY <1>2 DEF IInv, Control, EndsOK
<1>4. /\ pipe'.nread = pipe.nread /\ pipe'.nwrite = pipe.nwrite /\ pipe'.data = pipe.data
      /\ pipe'.readopen = (pipe.readopen /\ e # "r")
      /\ pipe'.writeopen = (pipe.writeopen /\ e # "w")
      /\ UNCHANGED killed
  BY DEF PipeClose, IInv, TypeOK
<1>5. pipe.readopen \in BOOLEAN /\ pipe.writeopen \in BOOLEAN
  BY DEF IInv, TypeOK
<1>6. Content' = IF pipe'.readopen \/ pipe'.writeopen THEN Content ELSE <<>>
  <2>1. Fetched(Held)' = Fetched(Held)
    BY <1>4 DEF Fetched, Held
  <2>2. pipe.readopen \/ pipe.writeopen
    BY <1>2 DEF IsOpen
  <2>3. Content = Fetched(Held) /\ Content' = IF pipe'.readopen \/ pipe'.writeopen THEN Fetched(Held)' ELSE <<>>
    BY <2>2 DEF Content
  <2>4. QED
    BY <2>1, <2>3, Zenon
<1> HIDE DEF e
<1>7. CASE e = "r"
  <2>1. \A q \in Process : ToTake[q] = 0
    BY <1>3, <1>7, Request DEF IInv, Control, CallsOK, RequestsOK, Asks
  <2>2. pipe.readopen /\ pipe'.readopen = FALSE /\ pipe'.writeopen = pipe.writeopen
    BY <1>2, <1>4, <1>5, <1>7 DEF IsOpen
  <2>3. Stream!CloseRead
    BY <1>1, <1>4, <1>6, <2>1, <2>2 DEF Stream!CloseRead
  <2>4. QED
    BY <2>3 DEF Refines, Stream!Next
<1>8. CASE e = "w"
  <2>1. \A q \in Process : ToPut[q] = <<>>
    BY <1>3, <1>8, Request DEF IInv, Control, CallsOK, RequestsOK, Asks
  <2>2. pipe.writeopen /\ pipe'.writeopen = FALSE /\ pipe'.readopen = pipe.readopen
    BY <1>2, <1>4, <1>5, <1>8 DEF IsOpen
  <2>3. Stream!CloseWrite
    BY <1>1, <1>4, <1>6, <2>1, <2>2 DEF Stream!CloseWrite
  <2>4. QED
    BY <2>3 DEF Refines, Stream!Next
<1>9. QED
  BY <1>2, <1>7, <1>8

LEMMA AskRefines ==
    ASSUME IInv, IInv', NEW p \in Process,
           \/ \E n \in Counts : SysRead(p, n)
           \/ \E bs \in Buffers : SysWrite(p, bs)
    PROVE  Refines
<1>1. UNCHANGED pipe /\ UNCHANGED killed /\ pc[p] = "user" /\ ~killed[p]
  BY DEF SysRead, SysWrite, User, At
<1>2. Content' = Content
  BY <1>1 DEF Content, Fetched, Held
<1>3. ToPut[p] = <<>> /\ ToTake[p] = 0
  BY <1>1, Request DEF Asks, Reading, Writing
<1>4. \A q \in Process \ {p} : SameRequest(q)
  BY OthersQuiet
<1>5. ToPut = [ToPut EXCEPT ![p] = <<>>] /\ ToTake = [ToTake EXCEPT ![p] = 0]
  BY <1>3, Request
<1>6. ASSUME NEW n \in Counts, SysRead(p, n) PROVE Stream!Ask(p)
  <2>1. Asks(p)' /\ call'[p].bytes = <<>> /\ call'[p].n = n
    BY <1>6, Asked DEF Asks, Reading
  <2>2. ToPut' = [ToPut EXCEPT ![p] = <<>>] /\ ToTake' = [ToTake EXCEPT ![p] = n]
    BY <1>4, <2>1, OneChanges
  <2>3. pipe.readopen
    BY <1>6 DEF SysRead, IInv, Control, EndsOK, IsOpen
  <2>4. QED
    BY <1>1, <1>2, <1>3, <1>5, <2>2, <2>3 DEF Stream!Ask, Stream!Idle
<1>7. ASSUME NEW bs \in Buffers, SysWrite(p, bs) PROVE Stream!Ask(p)
  <2>1. Asks(p)' /\ call'[p].bytes = bs /\ call'[p].n = 0
    BY <1>7, Asked DEF Asks, Writing
  <2>2. ToPut' = [ToPut EXCEPT ![p] = bs] /\ ToTake' = [ToTake EXCEPT ![p] = 0]
    BY <1>4, <2>1, OneChanges
  <2>3. pipe.writeopen
    BY <1>7 DEF SysWrite, IInv, Control, EndsOK, IsOpen
  <2>4. QED
    BY <1>1, <1>2, <1>3, <1>5, <2>2, <2>3 DEF Stream!Ask, Stream!Idle
<1>8. QED
  BY <1>6, <1>7 DEF Refines, Stream!Next

LEMMA ReadRefines ==
    ASSUME IInv, IInv', RequestsOK, NEW p \in Process, PipeRead(p)
    PROVE  Refines
<1>1. pc[p] = "piperead" /\ call[p].bytes = <<>> /\ call[p].n > 0 /\ call[p].n \in Nat /\ Asks(p)
  BY DEF PipeRead, At, RequestsOK, Reading, Asks, IInv, TypeOK
<1>2. pipe.readopen
  BY <1>1 DEF IInv, Control, CallsOK, EndsOK, IsOpen, Reading
<1>3. UNCHANGED killed /\ pipe'.readopen = pipe.readopen /\ pipe'.writeopen = pipe.writeopen
  BY DEF PipeRead, IInv, TypeOK
<1>4. \A q \in Process \ {p} : SameRequest(q)
  BY OthersQuiet
<1>5. ToPut[p] = <<>> /\ ToTake[p] = call[p].n
  BY <1>1, Request
<1>6. ASSUME pc'[p] = "user" PROVE ToPut' = ToPut /\ ToTake' = [ToTake EXCEPT ![p] = 0]
  <2>1. ~Asks(p)'
    BY <1>6 DEF Asks, Reading, Writing
  <2>2. ToPut' = [ToPut EXCEPT ![p] = <<>>] /\ ToTake' = [ToTake EXCEPT ![p] = 0]
    BY <1>4, <2>1, OneChanges
  <2>3. QED
    BY <1>5, <2>2, Request
<1>7. CASE MustWait /\ killed[p] /\ UNCHANGED pipe /\ pc'[p] = "user"
  <2>1. Content = <<>> /\ pipe.writeopen
    BY <1>7, NoContent DEF MustWait
  <2>2. Content' = Content
    BY <1>7 DEF Content, Fetched, Held
  <2>3. Stream!GiveUp(p)
    BY <1>3, <1>6, <1>7, <2>1, <2>2 DEF Stream!GiveUp
  <2>4. QED
    BY <2>3 DEF Refines, Stream!Next
<1>8. CASE MustWait /\ UNCHANGED pipe /\ pc'[p] = "readsleep" /\ call'[p] = call[p]
  <2>1. SameRequest(p)
    BY <1>1, <1>8 DEF SameRequest, Reading, Writing
  <2>2. ToPut' = ToPut /\ ToTake' = ToTake
    BY <1>4, <2>1, AllSame
  <2>3. Content' = Content
    BY <1>8 DEF Content, Fetched, Held
  <2>4. QED
    BY <1>3, <2>2, <2>3 DEF Refines, Stream!vars
<1>9. CASE ~MustWait /\ pc'[p] = "user"
  <2>1. PICK k : k = Smaller(call[p].n, Held)
    OBVIOUS
  <2>2. Content' = SubSeq(Content, k + 1, Len(Content))
    BY <1>9, <2>1, ReadTakes
  <2>3. Len(Content) = Held /\ Held \in Nat
    BY <1>2, ContentIs, Counters DEF IInv
  <2>4. k = IF ToTake[p] < Len(Content) THEN ToTake[p] ELSE Len(Content)
    BY <1>5, <2>1, <2>3 DEF Smaller
  <2>5. k > 0 \/ ~pipe.writeopen
    <3>1. CASE Empty
      BY <1>9, <3>1 DEF MustWait
    <3>2. CASE ~Empty
      <4>1. Held # 0
        BY <3>2, Counters DEF IInv
      <4>2. QED
        BY <1>1, <1>5, <2>3, <2>4, <4>1
    <3>3. QED
      BY <3>1, <3>2
  <2>6. Stream!Take(p)
    BY <1>1, <1>3, <1>5, <1>6, <1>9, <2>2, <2>4, <2>5 DEF Stream!Take, Stream!Rest
  <2>7. QED
    BY <2>6 DEF Refines, Stream!Next
<1>10. QED
  BY <1>7, <1>8, <1>9, ReadDone

LEMMA WriteRefines ==
    ASSUME IInv, IInv', RequestsOK, NEW p \in Process, PipeWrite(p)
    PROVE  Refines
<1>1. pc[p] = "pipewrite" /\ call[p].n = 0 /\ Asks(p)
  BY DEF PipeWrite, At, RequestsOK, Writing, Asks
<1>2. UNCHANGED killed /\ pipe'.readopen = pipe.readopen /\ pipe'.writeopen = pipe.writeopen
  BY DEF PipeWrite, IInv, TypeOK
<1>3. \A q \in Process \ {p} : SameRequest(q)
  BY OthersQuiet
<1>4. PICK bs : bs = call[p].bytes
  OBVIOUS
<1>5. ToPut[p] = bs /\ ToTake[p] = 0
  BY <1>1, <1>4, Request
<1>6. PICK k : k = Smaller(Len(bs), Room)
  OBVIOUS
<1>7. PICK rest : rest = SubSeq(bs, k + 1, Len(bs))
  OBVIOUS
<1>8. /\ k \in 0 .. Len(bs) /\ k <= Len(bs) /\ Len(Content) + k <= PIPESIZE
      /\ Content' = Content \o SubSeq(bs, 1, k)
      /\ rest # <<>> => Len(Content') = PIPESIZE
  <2>1. bs \in Seq(Byte)
    BY <1>4 DEF IInv, TypeOK
  <2>2. Len(bs) \in Nat
    BY <2>1, LenProperties
  <2>3. /\ k \in 0 .. Len(bs) /\ Len(Content) + k <= PIPESIZE
        /\ Content' = Content \o SubSeq(bs, 1, k)
        /\ rest # <<>> => Len(Content') = PIPESIZE
    BY <1>4, <1>6, <1>7, WritePuts
  <2>4. QED
    BY <2>2, <2>3
<1>9. PICK put : put = IF Asks(p)' THEN call'[p].bytes ELSE <<>>
  OBVIOUS
<1>10. \/ put = rest
       \/ put = <<>> /\ Len(Content') = PIPESIZE /\ (~pipe.readopen \/ killed[p])
  <2>1. ASSUME pc'[p] = "user" PROVE put = <<>>
    BY <1>9, <2>1 DEF Asks, Reading, Writing
  <2>2. ASSUME pc'[p] = "writesleep" PROVE put = call'[p].bytes
    BY <1>9, <2>2 DEF Asks, Writing
  <2>3. QED
    BY <1>4, <1>6, <1>7, <1>8, <2>1, <2>2, WriteDone
<1>11. ToPut' = [ToPut EXCEPT ![p] = put]
  BY <1>3, <1>9, OneChanges
<1>12. ToTake' = ToTake
  <2>1. (IF Asks(p)' THEN call'[p].n ELSE 0) = 0
    BY <1>1, <1>4, <1>6, <1>7, WriteDone DEF Asks, Reading, Writing
  <2>2. ToTake' = [ToTake EXCEPT ![p] = 0]
    BY <1>3, <2>1, OneChanges
  <2>3. QED
    BY <1>5, <2>2, Request
<1>13. Stream!Put(p, k)
  BY <1>2, <1>5, <1>7, <1>8, <1>10, <1>11, <1>12 DEF Stream!Put, Stream!Prefix, Stream!Rest
<1>14. k \in 0 .. Len(ToPut[p])
  BY <1>5, <1>8
<1>15. QED
  BY <1>13, <1>14 DEF Refines, Stream!Next

(* A pipe is a bounded stream of bytes: what is read is what was written,  *)
(* in its order, each byte once, whoever waits, closes or is killed between*)
(* and however often the counters go around (pipe.c:56-109).               *)
THEOREM StreamRefined == Spec => ImplementsByteStream
<1>1. Init => Stream!Init
  <2> SUFFICES ASSUME Init PROVE Stream!Init
    OBVIOUS
  <2>1. ~pipe.readopen /\ ~pipe.writeopen /\ pipe.readopen = FALSE /\ pipe.writeopen = FALSE
    BY DEF Init, FreePage
  <2>2. Content = <<>>
    BY <2>1 DEF Content
  <2>3. ToPut = [p \in Process |-> <<>>] /\ ToTake = [p \in Process |-> 0]
    BY DEF Init, ToPut, ToTake, Asks, Reading, Writing
  <2>4. QED
    BY <2>1, <2>2, <2>3 DEF Init, Stream!Init
<1>2. IInv /\ IInv' /\ RequestsOK /\ [Next]_vars => [Stream!Next]_(Stream!vars)
  <2> SUFFICES ASSUME IInv, IInv', RequestsOK, [Next]_vars PROVE Refines
    BY DEF Refines
  <2>1. ASSUME NEW p \in Process, Step(p) PROVE Refines
    BY <2>1, QuietRefines, KillRefines, PageRefines, CloseRefines, AskRefines, ReadRefines, WriteRefines DEF Step
  <2>2. CASE UNCHANGED vars
    BY <2>2 DEF vars, Refines, Stream!vars, Content, Fetched, Held, ToPut, ToTake, Asks
  <2>3. QED
    BY <2>1, <2>2 DEF Next
<1>3. QED
  BY Inductive, Requests, <1>1, <1>2, PTL DEF Spec, ImplementsByteStream, Stream!Spec
=============================================================================
