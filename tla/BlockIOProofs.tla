--------------------------- MODULE BlockIOProofs ---------------------------
(***************************************************************************)
(* Proofs that the buffer cache and the disk driver keep the invariants of *)
(* BlockIOProps and implement SectorStore, for any processes, buffers and  *)
(* sectors.  Only ProgressCorrect rests on who holds what while it reads   *)
(* another.                                                                *)
(***************************************************************************)
EXTENDS BlockIOProps, Integers, SequencesExt, SequenceTheorems, FiniteSetTheorems, TLAPS

(* RemoveAt takes one element out of a sequence and keeps the others in    *)
(* their order.                                                            *)
LEMMA RemoveAtProperties ==
    ASSUME NEW S, NEW s \in Seq(S), NEW i \in 1 .. Len(s)
    PROVE  /\ RemoveAt(s, i) \in Seq(S)
           /\ Len(RemoveAt(s, i)) = Len(s) - 1
           /\ \A j \in 1 .. Len(s) - 1 :
                RemoveAt(s, i)[j] = IF j < i THEN s[j] ELSE s[j + 1]
<1> DEFINE a == SubSeq(s, 1, i - 1)
           b == SubSeq(s, i + 1, Len(s))
<1>1. Len(s) \in Nat /\ i \in Nat /\ 1 <= i /\ i <= Len(s)
  BY LenProperties
<1>2. /\ a \in Seq(S) /\ Len(a) = i - 1
      /\ \A j \in 1 .. i - 1 : a[j] = s[j]
  BY <1>1, SubSeqProperties
<1>3. /\ b \in Seq(S) /\ Len(b) = Len(s) - i
      /\ \A j \in 1 .. Len(s) - i : b[j] = s[i + j]
  BY <1>1, SubSeqProperties
<1> HIDE DEF a, b
<1>4. /\ a \o b \in Seq(S)
      /\ Len(a \o b) = Len(a) + Len(b)
      /\ \A j \in 1 .. Len(a) + Len(b) :
           (a \o b)[j] = IF j <= Len(a) THEN a[j] ELSE b[j - Len(a)]
  BY <1>2, <1>3, ConcatProperties
<1>5. RemoveAt(s, i) = a \o b
  BY DEF RemoveAt, a, b
<1>6. ASSUME NEW j \in 1 .. Len(s) - 1
      PROVE  (a \o b)[j] = IF j < i THEN s[j] ELSE s[j + 1]
  <2>0. j \in 1 .. Len(a) + Len(b) /\ j \in Nat
    BY <1>1, <1>2, <1>3
  <2>1. CASE j < i
    <3>1. j <= Len(a) /\ j \in 1 .. i - 1
      BY <2>0, <2>1, <1>1, <1>2
    <3>2. QED
      BY <3>1, <2>0, <2>1, <1>2, <1>4
  <2>2. CASE ~(j < i)
    <3>1. j - Len(a) \in 1 .. Len(s) - i /\ ~(j <= Len(a))
      BY <2>2, <1>1, <1>2
    <3>2. b[j - Len(a)] = s[i + (j - Len(a))]
      BY <3>1, <1>3
    <3>3. i + (j - Len(a)) = j + 1
      BY <1>1, <1>2, <2>0
    <3>4. QED
      BY <2>0, <3>1, <3>2, <3>3, <1>4, <2>2
  <2>3. QED
    BY <2>1, <2>2
<1>7. Len(a) + Len(b) = Len(s) - 1
  BY <1>1, <1>2, <1>3
<1>8. QED
  BY <1>4, <1>5, <1>6, <1>7

LEMMA SingletonSeq == \A S : \A e \in S : <<e>> \in Seq(S) /\ Len(<<e>>) = 1 /\ <<e>>[1] = e
OBVIOUS

(* The last element, and those before it.                                  *)
LEMMA LastFront ==
    ASSUME NEW S, NEW s \in Seq(S), s # <<>>
    PROVE  /\ Len(s) \in Nat \ {0} /\ Last(s) = s[Len(s)] /\ Last(s) \in S
           /\ Front(s) \in Seq(S) /\ Len(Front(s)) = Len(s) - 1
           /\ \A i \in 1 .. Len(s) - 1 : Front(s)[i] = s[i]
<1>1. Len(s) \in Nat \ {0} /\ \A i \in 1 .. Len(s) : s[i] \in S
  BY EmptySeq, LenProperties
<1>2. Last(s) = s[Len(s)] /\ Last(s) \in S
  BY <1>1 DEF Last
<1>3. /\ SubSeq(s, 1, Len(s) - 1) \in Seq(S)
      /\ Len(SubSeq(s, 1, Len(s) - 1)) = Len(s) - 1
      /\ \A i \in 1 .. Len(s) - 1 : SubSeq(s, 1, Len(s) - 1)[i] = s[i]
  <2> DEFINE n == Len(s) - 1
  <2>1. n \in Nat /\ \A i \in 1 .. n : s[i] \in S
    BY <1>1
  <2> HIDE DEF n
  <2>2. /\ SubSeq(s, 1, n) \in Seq(S) /\ Len(SubSeq(s, 1, n)) = n
        /\ \A i \in 1 .. n : SubSeq(s, 1, n)[i] = s[i]
    BY <2>1, SubSeqProperties
  <2>3. QED
    BY <2>2 DEF n
<1>4. QED
  BY <1>1, <1>2, <1>3 DEF Front

(* A finite set as a sequence.                                             *)
LEMMA SetAsSequence ==
    ASSUME NEW S, IsFiniteSet(S)
    PROVE  LET s == SetToSeq(S) IN s \in Seq(S) /\ IsInjective(s) /\ ToSet(s) = S
<1> DEFINE n == Cardinality(S)
           s == SetToSeq(S)
<1>1. n \in Nat /\ ExistsBijection(1 .. n, S)
  BY FS_CardinalityType
<1>2. \E f \in [1 .. n -> S] : IsInjective(f)
  BY <1>1 DEF ExistsBijection, Bijection, Injection, IsInjective
<1>3. s \in [1 .. n -> S] /\ IsInjective(s)
  BY <1>2 DEF SetToSeq
<1>4. s \in Seq(S)
  BY <1>1, <1>3, SeqDef
<1>5. s \in Surjection(1 .. n, S)
  <2>1. s \in Injection(1 .. n, S)
    BY <1>3 DEF Injection, IsInjective
  <2>2. Cardinality(1 .. n) = n
    BY <1>1, FS_Interval
  <2>3. QED
    BY <2>1, <2>2, FS_Injection
<1> HIDE DEF s
<1>6. ToSet(s) = S
  <2>1. DOMAIN s = 1 .. n
    BY <1>3
  <2>2. \A x \in S : \E i \in 1 .. n : s[i] = x
    BY <1>5 DEF Surjection
  <2>3. \A i \in 1 .. n : s[i] \in S
    BY <1>3
  <2>4. QED
    BY <2>1, <2>2, <2>3 DEF ToSet
<1>7. QED
  BY <1>3, <1>4, <1>6 DEF s

(* An element of a sequence without repetitions, moved to the front.       *)
LEMMA MovedToFront ==
    ASSUME NEW S, NEW s \in Seq(S), IsInjective(s), ToSet(s) = S, NEW i \in 1 .. Len(s)
    PROVE  LET t == <<s[i]>> \o RemoveAt(s, i) IN t \in Seq(S) /\ IsInjective(t) /\ ToSet(t) = S
<1> DEFINE r == RemoveAt(s, i)
           h == <<s[i]>>
           t == h \o r
           n == Len(s)
           From(j) == IF j = 1 THEN i ELSE IF j - 1 < i THEN j - 1 ELSE j
<1>1. n \in Nat /\ DOMAIN s = 1 .. n /\ \A j \in 1 .. n : s[j] \in S
  BY LenProperties
<1>2. h \in Seq(S) /\ Len(h) = 1 /\ h[1] = s[i]
  BY <1>1, SingletonSeq
<1>3. r \in Seq(S) /\ Len(r) = n - 1 /\ \A j \in 1 .. n - 1 : r[j] = IF j < i THEN s[j] ELSE s[j + 1]
  BY RemoveAtProperties
<1> HIDE DEF h, r
<1>4. /\ t \in Seq(S) /\ Len(t) = Len(h) + Len(r)
      /\ \A j \in 1 .. Len(h) + Len(r) : t[j] = IF j <= Len(h) THEN h[j] ELSE r[j - Len(h)]
  <2>1. h \in Seq(S) /\ r \in Seq(S)
    BY <1>2, <1>3
  <2>2. QED
    BY <2>1, ConcatProperties, Zenon
<1>5. Len(t) = n /\ DOMAIN t = 1 .. n
  <2>1. t \in Seq(S) /\ Len(t) = n
    BY <1>1, <1>2, <1>3, <1>4
  <2> HIDE DEF t
  <2>2. QED
    BY <2>1, LenProperties
<1> HIDE DEF t
<1>6. \A j \in 1 .. n : From(j) \in 1 .. n /\ t[j] = s[From(j)]
  <2> SUFFICES ASSUME NEW j \in 1 .. n PROVE From(j) \in 1 .. n /\ t[j] = s[From(j)]
    OBVIOUS
  <2>1. i \in 1 .. n
    OBVIOUS
  <2> HIDE DEF n
  <2>2. CASE j = 1
    BY <1>1, <1>2, <1>3, <1>4, <1>5, <2>1, <2>2
  <2>3. CASE j # 1
    <3>1. j - 1 \in 1 .. n - 1 /\ ~(j <= 1) /\ (j - 1) + 1 = j
      BY <1>1, <2>3
    <3>2. t[j] = r[j - 1]
      BY <1>1, <1>2, <1>3, <1>4, <3>1
    <3>3. QED
      BY <1>1, <1>3, <2>1, <2>3, <3>1, <3>2
  <2>4. QED
    BY <2>2, <2>3
<1>7. \A j, k \in 1 .. n : From(j) = From(k) => j = k
  BY <1>1
<1>8. \A k \in 1 .. n : \E j \in 1 .. n : From(j) = k
  <2> SUFFICES ASSUME NEW k \in 1 .. n PROVE \E j \in 1 .. n : From(j) = k
    OBVIOUS
  <2>1. i \in 1 .. n
    OBVIOUS
  <2> HIDE DEF n
  <2>2. CASE k = i
    <3>1. 1 \in 1 .. n /\ From(1) = k
      BY <1>1, <2>1, <2>2
    <3>2. QED
      BY <3>1
  <2>3. CASE k < i
    <3>1. k + 1 \in 1 .. n /\ From(k + 1) = k
      BY <1>1, <2>1, <2>3
    <3>2. QED
      BY <3>1
  <2>4. CASE k > i
    <3>1. k \in 1 .. n /\ From(k) = k
      BY <1>1, <2>1, <2>4
    <3>2. QED
      BY <3>1
  <2>5. QED
    BY <1>1, <2>1, <2>2, <2>3, <2>4
<1> HIDE DEF From, n
<1>9. IsInjective(t)
  BY <1>1, <1>5, <1>6, <1>7 DEF IsInjective
<1>10. ToSet(t) = S
  <2>1. \A j \in 1 .. n : t[j] \in S
    BY <1>1, <1>6
  <2>2. \A x \in S : \E k \in 1 .. n : s[k] = x
    BY <1>1 DEF ToSet
  <2>3. ASSUME NEW x \in S PROVE \E j \in 1 .. n : t[j] = x
    <3>1. PICK k \in 1 .. n : s[k] = x
      BY <2>2
    <3>2. PICK j \in 1 .. n : From(j) = k
      BY <1>8
    <3>3. QED
      BY <1>6, <3>1, <3>2
  <2>4. ToSet(t) \subseteq S
    BY <1>5, <2>1 DEF ToSet
  <2>5. S \subseteq ToSet(t)
    BY <1>5, <2>3 DEF ToSet
  <2>6. QED
    BY <2>4, <2>5
<1>11. QED
  BY <1>4, <1>9, <1>10 DEF t, h, r


Has(p, b)  == \E i \in 1 .. Len(holds[p]) : holds[p][i] = b
Queued(b)  == \E i \in 1 .. Len(idequeue) : idequeue[i] = b
InDriver(p) == pc[p] \in {"bread", "iderw"}

(* A buffer is B_BUSY exactly while one process has it, once.              *)
HoldsOK ==
    /\ \A p \in Process : \A i, j \in 1 .. Len(holds[p]) : holds[p][i] = holds[p][j] => i = j
    /\ \A p, q \in Process, b \in Buf : Has(p, b) /\ Has(q, b) => p = q
    /\ \A b \in Buf : buf[b].busy <=> \E p \in Process : Has(p, b)
    /\ \A p \in Process : InDriver(p) => holds[p] # <<>>

SectorsOK ==
    /\ OneBufferPerSector
    /\ \A b \in Buf : buf[b].busy => buf[b].sector # None
    /\ \A p \in Process : pc[p] = "bget" => want[p] \in Sector

(* A buffer that has a sector holds it, but for the one that a process is  *)
(* reading or writing.                                                     *)
FlagsOK ==
    /\ \A b \in Buf : buf[b].sector # None /\ ~Transferred(b) => \E p \in Process : InDriver(p) /\ Has(p, b) /\ b = InUse(p)
    /\ \A b \in Buf : buf[b].sector = None => ~buf[b].valid /\ ~buf[b].dirty
    /\ \A p \in Process : pc[p] = "bread" => ~buf[InUse(p)].dirty
    /\ \A p \in Process : pc[p] = "iderw" => (Transferred(InUse(p)) <=> ~Queued(InUse(p)))

QueueOK ==
    /\ \A i, j \in 1 .. Len(idequeue) : idequeue[i] = idequeue[j] => i = j
    /\ \A i \in 1 .. Len(idequeue) : \E p \in Process : pc[p] = "iderw" /\ InUse(p) = idequeue[i]

DriveOK ==
    /\ drive = None <=> idequeue = <<>>
    /\ drive # None =>
         LET r == buf[Head(idequeue)] IN
         /\ drive.sector = r.sector
         /\ drive.write = IF r.dirty THEN r.data ELSE None
         /\ drive.done /\ r.dirty => disk[r.sector] = r.data

CacheOK == \A b \in Buf : Transferred(b) => buf[b].data = disk[buf[b].sector]

SleepOK ==
    \A p \in Process : ~Awake(p) =>
        \/ pc[p] = "bget" /\ buf[asleep[p]].busy
        \/ pc[p] = "iderw" /\ asleep[p] = InUse(p) /\ Queued(InUse(p))

IInv == TypeOK /\ HoldsOK /\ SectorsOK /\ FlagsOK /\ QueueOK /\ DriveOK /\ CacheOK /\ SleepOK

-----------------------------------------------------------------------------
(* Types.                                                                  *)

LEMMA UseFacts ==
    ASSUME TypeOK, NEW p \in Process, holds[p] # <<>>
    PROVE  /\ Len(holds[p]) \in Nat \ {0}
           /\ InUse(p) = holds[p][Len(holds[p])] /\ InUse(p) \in Buf /\ Has(p, InUse(p))
           /\ Front(holds[p]) \in Seq(Buf) /\ Len(Front(holds[p])) = Len(holds[p]) - 1
           /\ \A i \in 1 .. Len(holds[p]) - 1 : Front(holds[p])[i] = holds[p][i]
<1>1. holds[p] \in Seq(Buf)
  BY DEF TypeOK
<1>2. QED
  BY <1>1, LastFront DEF InUse, Has

LEMMA EmptyType == Empty \in Buffer
BY BlockAssumption DEF Empty, Buffer

LEMMA StartType ==
    ASSUME NEW b, NEW r \in Buffer, r.sector # None
    PROVE  Start(b, r) \in Command /\ Start(b, r) # None
<1>1. r.sector \in Sector /\ r.data \in Data /\ r.dirty \in BOOLEAN
  BY DEF Buffer
<1>2. Start(b, r) \in Command
  BY <1>1 DEF Start, Command
<1>3. QED
  BY <1>2, CommandAssumption

(* A buffer after its transfer.                                            *)
TransferredWith(r, d) ==
    [sector |-> r.sector, busy |-> r.busy, valid |-> TRUE, dirty |-> FALSE, data |-> d]

LEMMA TransferredType ==
    ASSUME NEW r \in Buffer, NEW d \in Data
    PROVE  /\ [r EXCEPT !.valid = TRUE, !.dirty = FALSE, !.data = d] = TransferredWith(r, d)
           /\ TransferredWith(r, d) \in Buffer
<1> DEFINE x == [r EXCEPT !.valid = TRUE, !.dirty = FALSE, !.data = d]
<1>1. x \in Buffer /\ x.sector = r.sector /\ x.busy = r.busy /\ x.valid = TRUE /\ x.dirty = FALSE /\ x.data = d
  BY DEF Buffer
<1> HIDE DEF x
<1>2. x = [sector |-> x.sector, busy |-> x.busy, valid |-> x.valid, dirty |-> x.dirty, data |-> x.data]
  BY <1>1 DEF Buffer
<1>3. x = TransferredWith(r, d)
  BY <1>1, <1>2 DEF TransferredWith
<1>4. QED
  BY <1>1, <1>3 DEF x

(* A request for the buffer that p uses, as bread and bwrite make it.      *)
LEMMA IderwType ==
    ASSUME TypeOK, NEW p \in Process, holds[p] # <<>>, NEW r \in Buffer, r.sector # None, Iderw(p, r)
    PROVE  TypeOK'
<1>1. InUse(p) \in Buf
  BY UseFacts
<1>2. idequeue' \in Seq(Buf)
  BY <1>1, AppendProperties DEF Iderw, TypeOK
<1>3. drive' \in Command \cup {None}
  BY StartType DEF Iderw, TypeOK
<1>4. QED
  BY <1>1, <1>2, <1>3 DEF Iderw, TypeOK, Goto, Points

LEMMA NextCommandType ==
    ASSUME IInv, NEW queue \in Seq(Buf), \A i \in 1 .. Len(queue) : Queued(queue[i])
    PROVE  queue # <<>> => NextCommand(queue) = Start(Head(queue), buf[Head(queue)]) /\ Head(queue) \in Buf
                           /\ NextCommand(queue) \in Command
<1> SUFFICES ASSUME queue # <<>>
             PROVE  NextCommand(queue) = Start(Head(queue), buf[Head(queue)]) /\ Head(queue) \in Buf
                    /\ NextCommand(queue) \in Command
  OBVIOUS
<1>1. Head(queue) = queue[1] /\ Head(queue) \in Buf /\ 1 \in 1 .. Len(queue)
  BY HeadTailProperties, EmptySeq
<1>2. Queued(Head(queue))
  BY <1>1
<1>3. PICK p \in Process : pc[p] = "iderw" /\ InUse(p) = Head(queue)
  BY <1>2 DEF Queued, IInv, QueueOK
<1>4. buf[Head(queue)].sector # None /\ buf[Head(queue)] \in Buffer
  <2>1. Has(p, Head(queue))
    BY <1>3, UseFacts DEF IInv, HoldsOK, InDriver
  <2>2. QED
    BY <1>1, <2>1 DEF IInv, HoldsOK, SectorsOK, TypeOK
<1>5. QED
  BY <1>1, <1>4, StartType DEF NextCommand

LEMMA ProcessTypes ==
    ASSUME IInv, NEW p \in Process,
           \/ \E s \in Sector : Bread(p, s)
           \/ BgetSleep(p) \/ BgetPanic(p) \/ BreadValid(p) \/ IderwDone(p) \/ IderwSleep(p) \/ Kick(p)
    PROVE  TypeOK'
<1> USE DEF TypeOK, cache, driver, process, Goto, Points
<1>0. TypeOK
  BY DEF IInv
<1>1. ASSUME NEW s \in Sector, Bread(p, s) PROVE TypeOK'
  BY <1>0, <1>1 DEF Bread
<1>2. CASE BgetSleep(p)
  BY <1>0, <1>2 DEF BgetSleep, Cached
<1>3. CASE BgetPanic(p)
  BY <1>0, <1>3 DEF BgetPanic
<1>4. CASE BreadValid(p)
  BY <1>0, <1>4 DEF BreadValid
<1>5. CASE IderwDone(p)
  BY <1>0, <1>5 DEF IderwDone
<1>6. CASE IderwSleep(p)
  <2>1. InUse(p) \in Buf
    BY <1>6, UseFacts DEF IderwSleep, IInv, HoldsOK, InDriver
  <2>2. QED
    BY <1>0, <1>6, <2>1 DEF IderwSleep
<1>7. CASE Kick(p)
  BY <1>0, <1>7 DEF Kick
<1>8. QED
  BY <1>1, <1>2, <1>3, <1>4, <1>5, <1>6, <1>7

LEMMA GotType ==
    ASSUME TypeOK, NEW p \in Process, NEW b \in Buf, NEW r \in Buffer, Got(p, b, r)
    PROVE  TypeOK'
<1>1. Append(holds[p], b) \in Seq(Buf)
  BY AppendProperties DEF TypeOK
<1>2. QED
  BY <1>1 DEF Got, TypeOK, driver, Goto, Points

LEMMA BrelseType ==
    ASSUME IInv, NEW p \in Process, Brelse(p)
    PROVE  TypeOK'
<1> DEFINE b == InUse(p)
           i == CHOOSE j \in 1 .. Len(lru) : lru[j] = b
<1>0. TypeOK
  BY DEF IInv
<1>1. b \in Buf /\ Front(holds[p]) \in Seq(Buf)
  BY <1>0, UseFacts DEF Brelse
<1>2. lru \in Seq(Buf) /\ IsInjective(lru) /\ ToSet(lru) = Buf /\ DOMAIN lru = 1 .. Len(lru)
  BY <1>0, LenProperties DEF TypeOK
<1>3. i \in 1 .. Len(lru) /\ lru[i] = b
  BY <1>1, <1>2 DEF ToSet
<1>4. lru' = <<lru[i]>> \o RemoveAt(lru, i)
  BY <1>3 DEF Brelse, Moved
<1> HIDE DEF i
<1>5. lru' \in Seq(Buf) /\ IsInjective(lru') /\ ToSet(lru') = Buf
  BY <1>2, <1>3, <1>4, MovedToFront
<1>6. asleep' \in [Process -> Buf \cup {None}]
  BY <1>0 DEF Brelse, Woken, TypeOK
<1> HIDE DEF b
<1>7. buf' \in [Buf -> Buffer]
  <2>1. buf' = [buf EXCEPT ![b].busy = FALSE]
    BY DEF Brelse, b
  <2>2. QED
    BY <1>0, <1>1, <2>1 DEF TypeOK, Buffer
<1>8. QED
  BY <1>0, <1>1, <1>5, <1>6, <1>7 DEF Brelse, TypeOK, driver

LEMMA DriverTypes ==
    ASSUME IInv, DriveWorks \/ Ideintr
    PROVE  TypeOK'
<1>0. TypeOK
  BY DEF IInv
<1>1. CASE DriveWorks
  <2>1. drive \in Command
    BY <1>0, <1>1 DEF DriveWorks, TypeOK
  <2>2. drive' \in Command /\ disk' \in [Sector -> Data]
    BY <1>0, <1>1, <2>1 DEF DriveWorks, TypeOK, Command
  <2>3. QED
    BY <1>0, <1>1, <2>2 DEF DriveWorks, TypeOK, cache, process
<1>2. CASE Ideintr
  <2>1. idequeue # <<>> /\ drive \in Command /\ drive # None
    BY <1>0, <1>2 DEF Ideintr, IInv, DriveOK, TypeOK
  <2>2. Head(idequeue) \in Buf /\ Tail(idequeue) \in Seq(Buf)
    BY <1>0, <2>1, HeadTailProperties DEF TypeOK
  <2> DEFINE b == Head(idequeue)
  <2>3. buf' \in [Buf -> Buffer]
    <3>1. buf' = [buf EXCEPT ![b].valid = TRUE, ![b].dirty = FALSE,
                             ![b].data = IF buf[b].dirty THEN @ ELSE disk[drive.sector]]
      BY <1>2 DEF Ideintr
    <3>2. disk[drive.sector] \in Data
      BY <1>0, <2>1 DEF TypeOK, Command
    <3>3. b \in Buf
      BY <2>2
    <3> DEFINE d == IF buf[b].dirty THEN buf[b].data ELSE disk[drive.sector]
    <3>4. buf[b] \in Buffer /\ d \in Data
      BY <1>0, <3>2, <3>3 DEF TypeOK, Buffer
    <3> HIDE DEF b
    <3>5. buf' = [buf EXCEPT ![b] = [@ EXCEPT !.valid = TRUE, !.dirty = FALSE, !.data = d]]
      BY <1>0, <3>1, <3>3 DEF TypeOK
    <3> HIDE DEF d
    <3>6. buf' = [buf EXCEPT ![b] = TransferredWith(buf[b], d)]
      BY <1>0, <3>3, <3>4, <3>5, TransferredType DEF TypeOK
    <3>7. QED
      BY <1>0, <3>3, <3>4, <3>6, TransferredType DEF TypeOK
  <2>4. asleep' \in [Process -> Buf \cup {None}]
    BY <1>0, <1>2 DEF Ideintr, Woken, TypeOK
  <2>5. drive' \in Command \cup {None}
    <3> DEFINE queue == Tail(idequeue)
    <3>1. \A i \in 1 .. Len(queue) : Queued(queue[i])
      <4>1. \A i \in 1 .. Len(queue) : queue[i] = idequeue[i + 1] /\ i + 1 \in 1 .. Len(idequeue)
        BY <1>0, <2>1, HeadTailProperties, EmptySeq DEF TypeOK
      <4>2. QED
        BY <4>1 DEF Queued
    <3>2. queue \in Seq(Buf) /\ drive' = NextCommand(queue)
      BY <1>2, <2>2 DEF Ideintr
    <3> HIDE DEF queue
    <3>3. CASE queue = <<>>
      BY <3>2, <3>3 DEF NextCommand
    <3>4. CASE queue # <<>>
      BY <3>1, <3>2, <3>4, NextCommandType
    <3>5. QED
      BY <3>3, <3>4
  <2>6. QED
    BY <1>0, <1>2, <2>2, <2>3, <2>4, <2>5 DEF Ideintr, TypeOK
<1>3. QED
  BY <1>1, <1>2

-----------------------------------------------------------------------------
(* The rest of the invariant, action by action.                            *)
Rest == HoldsOK /\ SectorsOK /\ FlagsOK /\ QueueOK /\ DriveOK /\ CacheOK /\ SleepOK

(* What a process in the driver uses, and what is queued.                  *)
LEMMA Facts ==
    ASSUME IInv
    PROVE  /\ \A p \in Process : holds[p] # <<>> =>
                InUse(p) \in Buf /\ Has(p, InUse(p)) /\ buf[InUse(p)].busy /\ buf[InUse(p)].sector \in Sector
           /\ \A p \in Process : InDriver(p) => holds[p] # <<>>
           /\ \A p, q \in Process : InDriver(p) /\ holds[q] # <<>> /\ InUse(p) = InUse(q) => p = q
           /\ \A b \in Buf : buf[b] \in Buffer
           /\ \A i \in 1 .. Len(idequeue) :
                /\ idequeue[i] \in Buf /\ Queued(idequeue[i]) /\ ~Transferred(idequeue[i])
                /\ buf[idequeue[i]].sector \in Sector /\ buf[idequeue[i]].busy
           /\ idequeue \in Seq(Buf) /\ Len(idequeue) \in Nat
<1>1. TypeOK /\ HoldsOK /\ SectorsOK
  BY DEF IInv
<1>2. \A b \in Buf : buf[b] \in Buffer
  BY <1>1 DEF TypeOK
<1>3. ASSUME NEW p \in Process, holds[p] # <<>>
      PROVE  InUse(p) \in Buf /\ Has(p, InUse(p)) /\ buf[InUse(p)].busy /\ buf[InUse(p)].sector \in Sector
  <2>1. InUse(p) \in Buf /\ Has(p, InUse(p))
    BY <1>1, <1>3, UseFacts
  <2>2. buf[InUse(p)].busy
    BY <1>1, <2>1 DEF HoldsOK
  <2>3. buf[InUse(p)].sector \in Sector
    BY <1>1, <1>2, <2>1, <2>2 DEF SectorsOK, Buffer
  <2>4. QED
    BY <2>1, <2>2, <2>3
<1>4. \A p \in Process : InDriver(p) => holds[p] # <<>>
  BY <1>1 DEF HoldsOK
<1>5. \A p, q \in Process : InDriver(p) /\ holds[q] # <<>> /\ InUse(p) = InUse(q) => p = q
  BY <1>1, <1>3, <1>4 DEF HoldsOK
<1>6. idequeue \in Seq(Buf) /\ Len(idequeue) \in Nat /\ \A i \in 1 .. Len(idequeue) : idequeue[i] \in Buf
  BY <1>1, LenProperties DEF TypeOK
<1>7. ASSUME NEW i \in 1 .. Len(idequeue)
      PROVE  /\ Queued(idequeue[i]) /\ ~Transferred(idequeue[i])
             /\ buf[idequeue[i]].sector \in Sector /\ buf[idequeue[i]].busy
  <2>1. PICK p \in Process : pc[p] = "iderw" /\ InUse(p) = idequeue[i]
    BY DEF IInv, QueueOK
  <2>2. Queued(idequeue[i])
    BY DEF Queued
  <2>3. QED
    BY <1>3, <1>4, <2>1, <2>2 DEF IInv, FlagsOK, InDriver
<1>8. QED
  BY <1>2, <1>3, <1>4, <1>5, <1>6, <1>7

(* A call of bread, and steps that change only where one process is.       *)
LEMMA LightSteps ==
    ASSUME IInv, NEW p \in Process,
           \/ \E s \in Sector : Bread(p, s)
           \/ BgetSleep(p) \/ BgetPanic(p) \/ BreadValid(p) \/ IderwDone(p) \/ IderwSleep(p) \/ Kick(p)
    PROVE  Rest'
<1>0. TypeOK /\ Rest
  BY DEF IInv, Rest
<1>1. UNCHANGED <<buf, lru, idequeue, drive, disk, holds>>
  BY DEF Bread, BgetSleep, BgetPanic, BreadValid, IderwDone, IderwSleep, Kick, cache, driver, process
<1>2. UNCHANGED InUse(p) /\ \A q \in Process : InUse(q)' = InUse(q)
  BY <1>1 DEF InUse
<1>3. DriveOK' /\ CacheOK'
  BY <1>0, <1>1 DEF Rest, DriveOK, CacheOK, Transferred
<1>4. /\ \A b : Transferred(b)' <=> Transferred(b)
      /\ \A b : Queued(b)' <=> Queued(b)
      /\ \A q \in Process, b \in Buf : Has(q, b)' <=> Has(q, b)
  BY <1>1 DEF Transferred, Queued, Has
<1>5. /\ \A q \in Process \ {p} : pc'[q] = pc[q] /\ want'[q] = want[q] /\ asleep'[q] = asleep[q]
      /\ \/ pc'[p] = pc[p] /\ want'[p] = want[p]
         \/ pc'[p] = "bget" /\ pc[p] = "run" /\ want'[p] \in Sector /\ asleep'[p] = asleep[p]
         \/ /\ pc'[p] = "run" /\ want'[p] = want[p] /\ asleep'[p] = asleep[p] /\ Awake(p)
            /\ InDriver(p) /\ Transferred(InUse(p))
  <2>1. ASSUME BreadValid(p) PROVE Awake(p) /\ InDriver(p) /\ Transferred(InUse(p))
    BY <1>0, <2>1 DEF BreadValid, Rest, FlagsOK, SleepOK, InDriver, Transferred
  <2>2. QED
    BY <1>0, <2>1 DEF Bread, BgetSleep, BgetPanic, BreadValid, IderwDone, IderwSleep, Kick, Goto, InDriver,
                      TypeOK, process
<1>6. HoldsOK'
  BY <1>0, <1>1, <1>4, <1>5 DEF Rest, HoldsOK, InDriver
<1>7. SectorsOK'
  BY <1>0, <1>1, <1>5 DEF Rest, SectorsOK, OneBufferPerSector
<1>8. \A q \in Process : InDriver(q)' => InDriver(q) /\ pc'[q] = pc[q]
  BY <1>5 DEF InDriver
<1>9. FlagsOK'
  <2>1. \A b \in Buf : buf'[b].sector # None /\ ~Transferred(b)' =>
          \E q \in Process : InDriver(q)' /\ Has(q, b)' /\ b = InUse(q)'
    <3>1. \A q \in Process : InDriver(q) /\ ~Transferred(InUse(q)) => InDriver(q)'
      BY <1>5 DEF InDriver
    <3>2. QED
      BY <1>0, <1>1, <1>2, <1>4, <3>1 DEF Rest, FlagsOK
  <2>2. \A q \in Process : /\ pc'[q] = "bread" => ~buf'[InUse(q)'].dirty
                           /\ pc'[q] = "iderw" => (Transferred(InUse(q))' <=> ~Queued(InUse(q))')
    <3>1. \A q \in Process : /\ Transferred(InUse(q))' <=> Transferred(InUse(q))
                             /\ Queued(InUse(q))' <=> Queued(InUse(q))
      BY <1>1, <1>2 DEF Transferred, Queued
    <3>2. QED
      BY <1>0, <1>1, <1>2, <1>8, <3>1 DEF Rest, FlagsOK, InDriver
  <2>3. \A b \in Buf : buf'[b].sector = None => ~buf'[b].valid /\ ~buf'[b].dirty
    BY <1>0, <1>1 DEF Rest, FlagsOK
  <2>4. QED
    BY <2>1, <2>2, <2>3 DEF FlagsOK
<1>10. QueueOK'
  <2>1. \A i \in 1 .. Len(idequeue) : ~Transferred(idequeue[i])
    BY Facts
  <2>2. \A q \in Process : pc[q] = "iderw" /\ ~Transferred(InUse(q)) => pc'[q] = "iderw"
    BY <1>5
  <2>3. QED
    BY <1>0, <1>1, <1>2, <2>1, <2>2 DEF Rest, QueueOK
<1>11. SleepOK'
  <2>1. ASSUME NEW q \in Process \ {p}, ~Awake(q)'
        PROVE  \/ pc'[q] = "bget" /\ buf'[asleep'[q]].busy
               \/ pc'[q] = "iderw" /\ asleep'[q] = InUse(q)' /\ Queued(InUse(q))'
    <3>1. Queued(InUse(q))' <=> Queued(InUse(q))
      BY <1>1, <1>2 DEF Queued
    <3>2. QED
      BY <1>0, <1>1, <1>2, <1>5, <2>1, <3>1 DEF Rest, SleepOK, Awake
  <2>2. ASSUME ~Awake(p)'
        PROVE  \/ pc'[p] = "bget" /\ buf'[asleep'[p]].busy
               \/ pc'[p] = "iderw" /\ asleep'[p] = InUse(p)' /\ Queued(InUse(p))'
    <3>1. Queued(InUse(p))' <=> Queued(InUse(p))
      BY <1>1, <1>2 DEF Queued
    <3>2. CASE BgetSleep(p)
      BY <1>0, <1>1, <2>2, <3>2 DEF BgetSleep, InBget, TypeOK
    <3>3. CASE IderwSleep(p)
      BY <1>0, <1>1, <1>2, <3>1, <3>3 DEF IderwSleep, TypeOK, Rest, FlagsOK
    <3>4. CASE \/ \E s \in Sector : Bread(p, s)
               \/ BgetPanic(p) \/ BreadValid(p) \/ IderwDone(p) \/ Kick(p)
      BY <1>0, <1>1, <1>2, <1>5, <2>2, <3>1, <3>4
         DEF Rest, SleepOK, Awake, Bread, BgetPanic, BreadValid, IderwDone, Kick, process, TypeOK, Goto
    <3>5. QED
      BY <3>2, <3>3, <3>4
  <2>3. QED
    BY <2>1, <2>2 DEF SleepOK
<1>12. QED
  BY <1>3, <1>6, <1>7, <1>9, <1>10, <1>11 DEF Rest

(* bget has found a buffer nobody has: that of the sector, or another one  *)
(* if there is none.                                                       *)
Fits(r, b, s) ==
    /\ r \in Buffer /\ r.sector = s /\ r.busy /\ ~r.dirty
    /\ \/ r.valid = buf[b].valid /\ r.data = buf[b].data /\ ~buf[b].dirty /\ buf[b].sector = s
       \/ ~r.valid /\ \A c \in Buf : buf[c].sector # s

LEMMA BgetGets ==
    ASSUME IInv, NEW p \in Process, BgetHit(p) \/ BgetFresh(p)
    PROVE  /\ InBget(p) /\ want[p] \in Sector
           /\ \E b \in Buf, r \in Buffer : ~buf[b].busy /\ Fits(r, b, want[p]) /\ Got(p, b, r)
<1>0. TypeOK /\ HoldsOK /\ SectorsOK /\ FlagsOK
  BY DEF IInv
<1>1. InBget(p) /\ want[p] \in Sector /\ None \notin Sector
  BY <1>0, BlockAssumption DEF BgetHit, BgetFresh, InBget, SectorsOK
<1>2. CASE BgetHit(p)
  <2>1. PICK b \in Cached(want[p]) : ~buf[b].busy /\ Got(p, b, [buf[b] EXCEPT !.busy = TRUE])
    BY <1>2 DEF BgetHit
  <2> DEFINE r == [buf[b] EXCEPT !.busy = TRUE]
  <2>2. b \in Buf /\ buf[b].sector = want[p] /\ buf[b] \in Buffer
    BY <1>0, <2>1 DEF Cached, TypeOK
  <2>3. ~buf[b].dirty
    <3>1. Transferred(b)
      BY <1>0, <1>1, <2>1, <2>2 DEF FlagsOK, HoldsOK
    <3>2. QED
      BY <3>1 DEF Transferred
  <2>4. r \in Buffer /\ Fits(r, b, want[p])
    BY <2>2, <2>3 DEF Buffer, Fits
  <2>5. QED
    BY <1>1, <2>1, <2>2, <2>4
<1>3. CASE BgetFresh(p)
  <2>1. PICK i \in Idle : Got(p, lru[i], Recycled(lru[i], want[p]))
    BY <1>3 DEF BgetFresh
  <2> DEFINE b == lru[i]
             r == Recycled(b, want[p])
  <2>2. b \in Buf /\ ~buf[b].busy /\ buf[b] \in Buffer
    <3>1. i \in 1 .. Len(lru) /\ ~buf[b].busy
      BY <2>1 DEF Idle
    <3>2. b \in Buf
      BY <1>0, <3>1, LenProperties DEF TypeOK
    <3>3. QED
      BY <1>0, <3>1, <3>2 DEF TypeOK
  <2>3. \A c \in Buf : buf[c].sector # want[p]
    BY <1>3 DEF BgetFresh, Cached
  <2> HIDE DEF b
  <2>4. r \in Buffer /\ r.sector = want[p] /\ r.busy /\ ~r.dirty /\ ~r.valid
    BY <1>1, <2>2 DEF Recycled, Buffer
  <2> HIDE DEF r
  <2>5. Fits(r, b, want[p])
    BY <2>3, <2>4 DEF Fits
  <2>6. Got(p, b, r)
    BY <2>1 DEF b, r
  <2>7. QED
    BY <1>1, <2>2, <2>4, <2>5, <2>6
<1>4. QED
  BY <1>2, <1>3

(* A sequence of buffers and one more.                                     *)
LEMMA AppendFacts ==
    ASSUME NEW s \in Seq(Buf), NEW b \in Buf, NEW t, t = Append(s, b)
    PROVE  /\ Len(t) = Len(s) + 1 /\ Len(s) \in Nat
           /\ t[Len(s) + 1] = b
           /\ \A i \in 1 .. Len(s) : t[i] = s[i]
           /\ t # <<>> /\ t \in Seq(Buf)
<1>1. Len(s) \in Nat
  BY LenProperties
<1>2. QED
  BY <1>1, AppendProperties

LEMMA GotSteps ==
    ASSUME IInv, NEW p \in Process, InBget(p), want[p] \in Sector,
           NEW b \in Buf, NEW r \in Buffer, ~buf[b].busy, Fits(r, b, want[p]), Got(p, b, r)
    PROVE  Rest'
<1>0. TypeOK /\ Rest /\ None \notin Sector
  BY BlockAssumption DEF IInv, Rest
<1>1. /\ buf' = [buf EXCEPT ![b] = r] /\ pc' = [pc EXCEPT ![p] = "bread"]
      /\ holds' = [holds EXCEPT ![p] = Append(@, b)]
      /\ UNCHANGED <<lru, idequeue, drive, disk, want, asleep>>
  BY DEF Got, Goto, driver
<1>2. /\ buf'[b] = r /\ \A c \in Buf \ {b} : buf'[c] = buf[c]
      /\ pc'[p] = "bread" /\ \A q \in Process \ {p} : pc'[q] = pc[q] /\ holds'[q] = holds[q]
      /\ holds'[p] = Append(holds[p], b) /\ pc[p] = "bget" /\ Awake(p)
  BY <1>0, <1>1 DEF TypeOK, InBget
<1>3. /\ Len(holds'[p]) = Len(holds[p]) + 1 /\ Len(holds[p]) \in Nat
      /\ holds'[p][Len(holds[p]) + 1] = b
      /\ \A i \in 1 .. Len(holds[p]) : holds'[p][i] = holds[p][i]
      /\ holds'[p] # <<>>
  <2>1. holds[p] \in Seq(Buf) /\ holds'[p] = Append(holds[p], b)
    BY <1>0, <1>2 DEF TypeOK
  <2>2. QED
    BY <2>1, AppendFacts
<1>4. \A q \in Process : ~Has(q, b)
  BY <1>0 DEF Rest, HoldsOK
<1>5. /\ Has(p, b)' /\ \A c \in Buf : Has(p, c)' <=> Has(p, c) \/ c = b
      /\ \A q \in Process \ {p}, c \in Buf : Has(q, c)' <=> Has(q, c)
  <2>1. Has(p, b)'
    BY <1>3 DEF Has
  <2>2. ASSUME NEW c \in Buf PROVE Has(p, c)' <=> Has(p, c) \/ c = b
    <3>1. \A i \in 1 .. Len(holds'[p]) : i \in 1 .. Len(holds[p]) \/ (i = Len(holds[p]) + 1)
      BY <1>3
    <3>2. \A i \in 1 .. Len(holds[p]) : i \in 1 .. Len(holds'[p])
      BY <1>3
    <3>3. QED
      BY <1>3, <2>1, <3>1, <3>2 DEF Has
  <2>3. \A q \in Process \ {p}, c \in Buf : Has(q, c)' <=> Has(q, c)
    BY <1>2 DEF Has
  <2>4. QED
    BY <2>1, <2>2, <2>3
<1>6. InUse(p)' = b /\ \A q \in Process \ {p} : InUse(q)' = InUse(q)
  BY <1>2, <1>3 DEF InUse, Last
<1>7. \A c \in Buf \ {b} : Transferred(c)' <=> Transferred(c)
  BY <1>2 DEF Transferred
<1>8. \A c : Queued(c)' <=> Queued(c)
  BY <1>1 DEF Queued
<1>9. \A q \in Process : InDriver(q) => q # p /\ InUse(q) \in Buf \ {b} /\ InDriver(q)'
  BY <1>2, <1>4, Facts DEF InDriver
<1>10. HoldsOK'
  <2>1. \A i, j \in 1 .. Len(holds'[p]) : holds'[p][i] = holds'[p][j] => i = j
    <3>1. \A i \in 1 .. Len(holds'[p]) : i \in 1 .. Len(holds[p]) \/ (i = Len(holds[p]) + 1)
      BY <1>3
    <3>2. \A i \in 1 .. Len(holds[p]) : holds[p][i] # b
      BY <1>4 DEF Has
    <3>3. QED
      BY <1>0, <1>3, <3>1, <3>2 DEF Rest, HoldsOK
  <2>2. \A q \in Process \ {p} : \A i, j \in 1 .. Len(holds'[q]) : holds'[q][i] = holds'[q][j] => i = j
    BY <1>0, <1>2 DEF Rest, HoldsOK
  <2>3. \A q, s \in Process, c \in Buf : Has(q, c)' /\ Has(s, c)' => q = s
    BY <1>0, <1>4, <1>5 DEF Rest, HoldsOK
  <2>4. \A c \in Buf : buf'[c].busy <=> \E q \in Process : Has(q, c)'
    <3>1. r.busy
      BY DEF Fits
    <3>2. ASSUME NEW c \in Buf PROVE buf'[c].busy <=> \E q \in Process : Has(q, c)'
      <4>1. CASE c = b
        BY <1>2, <1>5, <3>1, <4>1
      <4>2. CASE c # b
        BY <1>0, <1>2, <1>5, <4>2 DEF Rest, HoldsOK
      <4>3. QED
        BY <4>1, <4>2
    <3>3. QED
      BY <3>2
  <2>5. \A q \in Process : InDriver(q)' => holds'[q] # <<>>
    BY <1>0, <1>2, <1>3 DEF Rest, HoldsOK, InDriver
  <2>6. QED
    BY <2>1, <2>2, <2>3, <2>4, <2>5 DEF HoldsOK
<1>11. SectorsOK'
  <2>1. r.sector = want[p]
    BY DEF Fits
  <2>2. \A c, d \in Buf : buf'[c].sector = buf'[d].sector /\ buf'[c].sector # None => c = d
    BY <1>0, <1>2 DEF Rest, SectorsOK, OneBufferPerSector, Fits
  <2>3. \A c \in Buf : buf'[c].busy => buf'[c].sector # None
    BY <1>0, <1>2, <2>1 DEF Rest, SectorsOK
  <2>4. \A q \in Process : pc'[q] = "bget" => want'[q] \in Sector
    BY <1>0, <1>1, <1>2 DEF Rest, SectorsOK
  <2>5. QED
    BY <2>2, <2>3, <2>4 DEF SectorsOK, OneBufferPerSector
<1>12. FlagsOK'
  <2>1. \A c \in Buf : buf'[c].sector # None /\ ~Transferred(c)' =>
          \E q \in Process : InDriver(q)' /\ Has(q, c)' /\ c = InUse(q)'
    <3>1. InDriver(p)' /\ Has(p, b)' /\ b = InUse(p)'
      BY <1>2, <1>5, <1>6 DEF InDriver
    <3>2. ASSUME NEW c \in Buf \ {b}, buf'[c].sector # None, ~Transferred(c)'
          PROVE  \E q \in Process : InDriver(q)' /\ Has(q, c)' /\ c = InUse(q)'
      <4>1. PICK q \in Process : InDriver(q) /\ Has(q, c) /\ c = InUse(q)
        BY <1>0, <1>2, <1>7, <3>2 DEF Rest, FlagsOK
      <4>2. QED
        BY <1>5, <1>6, <1>9, <4>1
    <3>3. QED
      BY <3>1, <3>2
  <2>2. \A c \in Buf : buf'[c].sector = None => ~buf'[c].valid /\ ~buf'[c].dirty
    BY <1>0, <1>2 DEF Rest, FlagsOK, Fits
  <2>3. \A q \in Process : pc'[q] = "bread" => ~buf'[InUse(q)'].dirty
    BY <1>0, <1>2, <1>6, <1>9 DEF Rest, FlagsOK, Fits, InDriver
  <2>4. ASSUME NEW q \in Process, pc'[q] = "iderw"
        PROVE  Transferred(InUse(q))' <=> ~Queued(InUse(q))'
    <3>1. q # p /\ pc[q] = "iderw"
      BY <1>2, <2>4
    <3>2. InUse(q)' = InUse(q) /\ InUse(q) \in Buf \ {b}
      BY <1>6, <1>9, <3>1 DEF InDriver
    <3>3. Transferred(InUse(q))' <=> Transferred(InUse(q))
      BY <1>2, <3>2 DEF Transferred
    <3>4. Queued(InUse(q))' <=> Queued(InUse(q))
      BY <1>1, <3>2 DEF Queued
    <3>5. QED
      BY <1>0, <3>1, <3>3, <3>4 DEF Rest, FlagsOK
  <2>5. QED
    BY <2>1, <2>2, <2>3, <2>4 DEF FlagsOK
<1>13. QueueOK'
  BY <1>0, <1>1, <1>2, <1>6 DEF Rest, QueueOK
<1>14. DriveOK'
  <2>1. ASSUME drive # None
        PROVE  Head(idequeue) \in Buf \ {b}
    <3>1. idequeue # <<>>
      BY <1>0, <2>1 DEF Rest, DriveOK
    <3>2. Head(idequeue) = idequeue[1] /\ 1 \in 1 .. Len(idequeue)
      BY <3>1, Facts, EmptySeq
    <3>3. QED
      BY <3>2, Facts
  <2>2. QED
    BY <1>0, <1>1, <1>2, <2>1 DEF Rest, DriveOK
<1>15. CacheOK'
  BY <1>0, <1>1, <1>2 DEF Rest, CacheOK, Transferred, Fits
<1>16. SleepOK'
  <2>1. ASSUME NEW q \in Process, ~Awake(q)'
        PROVE  \/ pc'[q] = "bget" /\ buf'[asleep'[q]].busy
               \/ pc'[q] = "iderw" /\ asleep'[q] = InUse(q)' /\ Queued(InUse(q))'
    <3>1. q # p /\ ~Awake(q) /\ asleep[q] \in Buf
      BY <1>0, <1>1, <1>2, <2>1 DEF Awake, TypeOK
    <3>2. CASE pc[q] = "bget"
      BY <1>0, <1>1, <1>2, <3>1, <3>2 DEF Rest, SleepOK, Fits
    <3>3. CASE pc[q] = "iderw"
      <4>1. Queued(InUse(q))' <=> Queued(InUse(q))
        BY <1>1, <1>6, <3>1 DEF Queued
      <4>2. QED
        BY <1>0, <1>1, <1>2, <1>6, <3>1, <3>3, <4>1 DEF Rest, SleepOK
    <3>4. QED
      BY <1>0, <3>1, <3>2, <3>3 DEF Rest, SleepOK
  <2>2. QED
    BY <2>1 DEF SleepOK
<1>17. QED
  BY <1>10, <1>11, <1>12, <1>13, <1>14, <1>15, <1>16 DEF Rest

(* A request for the buffer that p uses.                                   *)
LEMMA IderwSteps ==
    ASSUME IInv, NEW p \in Process, holds[p] # <<>>, NEW r \in Buffer, ~Queued(InUse(p)),
           r.sector = buf[InUse(p)].sector, r.busy, ~r.valid \/ r.dirty, Iderw(p, r)
    PROVE  Rest'
<1>0. TypeOK /\ Rest
  BY DEF IInv, Rest
<1>13. PICK b : b = InUse(p)
  OBVIOUS
<1>1. b \in Buf /\ Has(p, b) /\ buf[b].busy /\ r.sector \in Sector /\ r.sector # None
  <2>1. b \in Buf /\ Has(p, b) /\ buf[b].busy /\ r.sector \in Sector
    BY <1>13, Facts
  <2>2. QED
    BY <2>1, BlockAssumption
<1>2. /\ buf' = [buf EXCEPT ![b] = r] /\ pc' = [pc EXCEPT ![p] = "iderw"]
      /\ asleep' = [asleep EXCEPT ![p] = b] /\ idequeue' = Append(idequeue, b)
      /\ drive' = IF idequeue = <<>> THEN Start(b, r) ELSE drive
      /\ UNCHANGED <<lru, disk, want, holds>>
  BY <1>13 DEF Iderw, Goto
<1>3. /\ \A q \in Process, c \in Buf : Has(q, c)' <=> Has(q, c)
      /\ \A q \in Process : InUse(q)' = InUse(q)
  BY <1>2 DEF Has, InUse
<1>4. \A q \in Process : InDriver(q) /\ q # p => InUse(q) \in Buf /\ InUse(q) # b
  BY <1>13, Facts
<1>5. ~Queued(b)
  BY <1>13
<1>6. /\ buf'[b] = r /\ \A c \in Buf \ {b} : buf'[c] = buf[c]
      /\ pc'[p] = "iderw" /\ \A q \in Process \ {p} : pc'[q] = pc[q] /\ asleep'[q] = asleep[q]
      /\ asleep'[p] = b
  BY <1>0, <1>1, <1>2 DEF TypeOK
<1>7. /\ Len(idequeue') = Len(idequeue) + 1 /\ Len(idequeue) \in Nat
      /\ idequeue'[Len(idequeue) + 1] = b
      /\ \A i \in 1 .. Len(idequeue) : idequeue'[i] = idequeue[i]
      /\ idequeue' # <<>> /\ idequeue' \in Seq(Buf)
  <2>1. idequeue \in Seq(Buf)
    BY <1>0 DEF TypeOK
  <2>2. QED
    BY <1>1, <1>2, <2>1, AppendFacts
<1>8. \A i \in 1 .. Len(idequeue') : i \in 1 .. Len(idequeue) \/ i = Len(idequeue) + 1
  BY <1>7
<1>9. \A i \in 1 .. Len(idequeue) + 1 : i \in 1 .. Len(idequeue')
  BY <1>7
<1>10. Queued(b)' /\ \A c \in Buf \ {b} : Queued(c)' <=> Queued(c)
  <2>1. Len(idequeue) + 1 \in 1 .. Len(idequeue')
    BY <1>7
  <2>2. Queued(b)'
    BY <1>7, <2>1 DEF Queued
  <2>3. ASSUME NEW c \in Buf \ {b} PROVE Queued(c)' <=> Queued(c)
    <3>1. \A i \in 1 .. Len(idequeue) : i \in 1 .. Len(idequeue')
      BY <1>7
    <3>2. QED
      BY <1>7, <1>8, <2>3, <3>1 DEF Queued
  <2>4. QED
    BY <2>2, <2>3
<1>11. ~Transferred(b)' /\ \A c \in Buf \ {b} : Transferred(c)' <=> Transferred(c)
  BY <1>6 DEF Transferred
<1>12. InDriver(p)' /\ \A q \in Process : InDriver(q) => InDriver(q)'
  BY <1>6 DEF InDriver
<1>14. HoldsOK'
  <2>1. \A c \in Buf : buf'[c].busy <=> buf[c].busy
    BY <1>1, <1>6
  <2>2. \A q \in Process : InDriver(q)' => holds'[q] # <<>>
    BY <1>0, <1>2, <1>6 DEF Rest, HoldsOK, InDriver
  <2>3. QED
    BY <1>0, <1>2, <1>3, <2>1, <2>2 DEF Rest, HoldsOK
<1>15. SectorsOK'
  <2>1. \A c \in Buf : buf'[c].busy = buf[c].busy /\ buf'[c].sector = buf[c].sector
    <3>1. buf[b] \in Buffer /\ r.busy \in BOOLEAN
      BY <1>0, <1>1 DEF TypeOK, Buffer
    <3>2. buf[b].busy = TRUE /\ r.busy = TRUE
      BY <1>1, <3>1 DEF Buffer
    <3>3. QED
      BY <1>6, <1>13, <3>2
  <2>2. \A q \in Process : pc'[q] = "bget" => pc[q] = "bget" /\ want'[q] = want[q]
    BY <1>2, <1>6
  <2>3. QED
    BY <1>0, <2>1, <2>2 DEF Rest, SectorsOK, OneBufferPerSector
<1>16. FlagsOK'
  <2>1. \A c \in Buf : buf'[c].sector # None /\ ~Transferred(c)' =>
          \E q \in Process : InDriver(q)' /\ Has(q, c)' /\ c = InUse(q)'
    <3>1. ASSUME NEW c \in Buf \ {b}, buf'[c].sector # None, ~Transferred(c)'
          PROVE  \E q \in Process : InDriver(q)' /\ Has(q, c)' /\ c = InUse(q)'
      <4>1. PICK q \in Process : InDriver(q) /\ Has(q, c) /\ c = InUse(q)
        BY <1>0, <1>6, <1>11, <3>1 DEF Rest, FlagsOK
      <4>2. QED
        BY <1>3, <1>12, <4>1
    <3>2. InDriver(p)' /\ Has(p, b)' /\ b = InUse(p)'
      BY <1>1, <1>3, <1>12, <1>13
    <3>3. QED
      BY <3>1, <3>2
  <2>2. \A c \in Buf : buf'[c].sector = None => ~buf'[c].valid /\ ~buf'[c].dirty
    BY <1>0, <1>1, <1>6 DEF Rest, FlagsOK
  <2>3. \A q \in Process : pc'[q] = "bread" => ~buf'[InUse(q)'].dirty
    BY <1>0, <1>3, <1>4, <1>6 DEF Rest, FlagsOK, InDriver
  <2>4. ASSUME NEW q \in Process, pc'[q] = "iderw"
        PROVE  Transferred(InUse(q))' <=> ~Queued(InUse(q))'
    <3>1. CASE q = p
      <4>1. InUse(q)' = b
        BY <1>3, <1>13, <3>1
      <4>2. (Transferred(InUse(q))' <=> Transferred(b)') /\ (Queued(InUse(q))' <=> Queued(b)')
        BY <1>13, <4>1, <1>3 DEF Transferred, Queued
      <4>3. QED
        BY <1>10, <1>11, <4>2
    <3>2. CASE q # p
      <4>1. pc[q] = "iderw" /\ InUse(q) \in Buf \ {b} /\ InUse(q)' = InUse(q)
        BY <1>3, <1>4, <1>6, <2>4, <3>2 DEF InDriver
      <4>2. Transferred(InUse(q))' <=> Transferred(InUse(q))
        BY <1>6, <4>1 DEF Transferred
      <4>3. Queued(InUse(q))' <=> Queued(InUse(q))
        <5> DEFINE c == InUse(q)
        <5>1. c \in Buf \ {b} /\ c' = c
          BY <4>1
        <5> HIDE DEF c
        <5>2. (\E i \in 1 .. Len(idequeue') : idequeue'[i] = c) <=> Queued(c)
          BY <1>10, <5>1 DEF Queued
        <5>3. QED
          BY <5>1, <5>2 DEF Queued, c
      <4>4. QED
        BY <1>0, <4>1, <4>2, <4>3 DEF Rest, FlagsOK
    <3>3. QED
      BY <3>1, <3>2
  <2>5. QED
    BY <2>1, <2>2, <2>3, <2>4 DEF FlagsOK
<1>17. QueueOK'
  <2>1. \A i \in 1 .. Len(idequeue) : idequeue[i] # b
    BY <1>5 DEF Queued
  <2>2. \A i, j \in 1 .. Len(idequeue') : idequeue'[i] = idequeue'[j] => i = j
    BY <1>0, <1>7, <1>8, <2>1 DEF Rest, QueueOK
  <2>3. ASSUME NEW i \in 1 .. Len(idequeue')
        PROVE  \E q \in Process : pc'[q] = "iderw" /\ InUse(q)' = idequeue'[i]
    <3>1. CASE i \in 1 .. Len(idequeue)
      <4>1. PICK q \in Process : pc[q] = "iderw" /\ InUse(q) = idequeue[i]
        BY <1>0, <3>1 DEF Rest, QueueOK
      <4>2. pc'[q] = "iderw" /\ InUse(q)' = idequeue'[i]
        BY <1>3, <1>6, <1>7, <3>1, <4>1
      <4>3. QED
        BY <4>2
    <3>2. CASE i = Len(idequeue) + 1
      BY <1>3, <1>6, <1>7, <1>13, <3>2
    <3>3. QED
      BY <1>8, <3>1, <3>2
  <2>4. QED
    BY <2>2, <2>3 DEF QueueOK
<1>18. DriveOK'
  <2>1. Head(idequeue') = idequeue'[1]
    BY <1>7, HeadTailProperties
  <2>2. CASE idequeue = <<>>
    <3>1. Len(idequeue) = 0
      BY <2>2, EmptySeq
    <3>2. Head(idequeue') = b
      BY <1>7, <2>1, <3>1
    <3>3. drive' = Start(b, r) /\ drive' # None
      BY <1>1, <1>2, <2>2, StartType
    <3>4. QED
      BY <1>6, <1>7, <3>2, <3>3 DEF DriveOK, Start
  <2>3. CASE idequeue # <<>>
    <3>1. Len(idequeue) # 0 /\ Head(idequeue) = idequeue[1]
      BY <1>0, <2>3, HeadTailProperties, EmptySeq DEF TypeOK
    <3>2. 1 \in 1 .. Len(idequeue)
      BY <1>7, <3>1
    <3>3. Head(idequeue) \in Buf \ {b}
      BY <1>5, <3>1, <3>2, Facts DEF Queued
    <3>4. Head(idequeue') = Head(idequeue)
      BY <1>7, <2>1, <3>1, <3>2
    <3>5. drive' = drive
      BY <1>2, <2>3
    <3>6. buf'[Head(idequeue)] = buf[Head(idequeue)]
      BY <1>6, <3>3
    <3>7. QED
      BY <1>0, <1>2, <1>7, <2>3, <3>4, <3>5, <3>6 DEF Rest, DriveOK
  <2>4. QED
    BY <2>2, <2>3
<1>19. CacheOK'
  BY <1>0, <1>2, <1>6, <1>11 DEF Rest, CacheOK, Transferred
<1>20. SleepOK'
  <2>1. ASSUME NEW q \in Process, ~Awake(q)'
        PROVE  \/ pc'[q] = "bget" /\ buf'[asleep'[q]].busy
               \/ pc'[q] = "iderw" /\ asleep'[q] = InUse(q)' /\ Queued(InUse(q))'
    <3>1. CASE q = p
      <4>1. Queued(InUse(q))' <=> Queued(b)'
        BY <1>3, <1>13, <3>1 DEF Queued
      <4>2. QED
        BY <1>3, <1>6, <1>10, <1>13, <3>1, <4>1
    <3>2. CASE q # p
      <4>1. ~Awake(q) /\ asleep[q] \in Buf
        BY <1>0, <1>6, <2>1, <3>2 DEF Awake, TypeOK
      <4>2. CASE pc[q] = "bget" /\ buf[asleep[q]].busy
        BY <1>1, <1>6, <3>2, <4>1, <4>2
      <4>3. CASE pc[q] = "iderw" /\ asleep[q] = InUse(q) /\ Queued(InUse(q))
        <5> DEFINE c == InUse(q)
        <5>1. c' = c /\ Queued(c)
          BY <1>3, <4>3
        <5> HIDE DEF c
        <5>2. \E i \in 1 .. Len(idequeue') : idequeue'[i] = c
          <6>1. PICK i \in 1 .. Len(idequeue) : idequeue[i] = c
            BY <5>1 DEF Queued
          <6>2. i \in 1 .. Len(idequeue')
            BY <1>7
          <6>3. QED
            BY <1>7, <6>1, <6>2
        <5>3. Queued(InUse(q))'
          BY <5>1, <5>2 DEF Queued, c
        <5>4. QED
          BY <1>3, <1>6, <3>2, <4>3, <5>3
      <4>4. QED
        BY <1>0, <4>1, <4>2, <4>3 DEF Rest, SleepOK
    <3>3. QED
      BY <3>1, <3>2
  <2>2. QED
    BY <2>1 DEF SleepOK
<1>21. QED
  BY <1>14, <1>15, <1>16, <1>17, <1>18, <1>19, <1>20 DEF Rest

LEMMA BrelseSteps ==
    ASSUME IInv, NEW p \in Process, Brelse(p)
    PROVE  Rest'
<1>0. TypeOK /\ Rest
  BY DEF IInv, Rest
<1>1. PICK b : b = InUse(p)
  OBVIOUS
<1>2. /\ pc[p] = "run" /\ holds[p] # <<>>
      /\ buf' = [buf EXCEPT ![b].busy = FALSE]
      /\ asleep' = Woken(b) /\ holds' = [holds EXCEPT ![p] = Front(@)]
      /\ UNCHANGED <<idequeue, drive, disk, pc, want>>
  BY <1>1 DEF Brelse, driver
<1>3. /\ b \in Buf /\ Has(p, b) /\ buf[b].busy
      /\ Len(holds[p]) \in Nat \ {0} /\ b = holds[p][Len(holds[p])]
      /\ Len(Front(holds[p])) = Len(holds[p]) - 1
      /\ \A i \in 1 .. Len(holds[p]) - 1 : Front(holds[p])[i] = holds[p][i]
  BY <1>0, <1>1, <1>2, Facts, UseFacts
<1>4. /\ \A c \in Buf : /\ buf'[c].sector = buf[c].sector /\ buf'[c].valid = buf[c].valid
                         /\ buf'[c].dirty = buf[c].dirty /\ buf'[c].data = buf[c].data
      /\ \A c \in Buf \ {b} : buf'[c] = buf[c]
      /\ ~buf'[b].busy
      /\ holds'[p] = Front(holds[p]) /\ \A q \in Process \ {p} : holds'[q] = holds[q]
      /\ \A q \in Process : asleep'[q] # None => asleep'[q] = asleep[q] /\ asleep[q] # b
  <2>1. \A c \in Buf : buf[c] \in Buffer
    BY <1>0 DEF TypeOK
  <2>2. /\ buf'[b].sector = buf[b].sector /\ buf'[b].valid = buf[b].valid
        /\ buf'[b].dirty = buf[b].dirty /\ buf'[b].data = buf[b].data /\ ~buf'[b].busy
    BY <1>0, <1>2, <1>3, <2>1 DEF TypeOK, Buffer
  <2>3. \A c \in Buf \ {b} : buf'[c] = buf[c]
    BY <1>0, <1>2 DEF TypeOK
  <2>4. holds'[p] = Front(holds[p]) /\ \A q \in Process \ {p} : holds'[q] = holds[q]
    BY <1>0, <1>2 DEF TypeOK
  <2>5. \A q \in Process : asleep'[q] # None => asleep'[q] = asleep[q] /\ asleep[q] # b
    BY <1>2 DEF Woken
  <2>6. QED
    BY <2>2, <2>3, <2>4, <2>5
<1>5. \A i \in 1 .. Len(holds'[p]) : i \in 1 .. Len(holds[p]) /\ holds'[p][i] = holds[p][i] /\ holds[p][i] # b
  BY <1>0, <1>3, <1>4 DEF Rest, HoldsOK
<1>6. \A c \in Buf : Has(p, c)' <=> Has(p, c) /\ c # b
  <2>1. ASSUME NEW c \in Buf, Has(p, c)' PROVE Has(p, c) /\ c # b
    BY <1>5, <2>1 DEF Has
  <2>2. ASSUME NEW c \in Buf, Has(p, c), c # b PROVE Has(p, c)'
    <3>1. PICK i \in 1 .. Len(holds[p]) : holds[p][i] = c
      BY <2>2 DEF Has
    <3>2. i \in 1 .. Len(holds[p]) - 1
      BY <1>3, <2>2, <3>1
    <3>3. i \in 1 .. Len(holds'[p]) /\ holds'[p][i] = c
      BY <1>3, <1>4, <3>1, <3>2
    <3>4. QED
      BY <3>3 DEF Has
  <2>3. QED
    BY <2>1, <2>2
<1>7. /\ \A q \in Process \ {p}, c \in Buf : Has(q, c)' <=> Has(q, c)
      /\ \A q \in Process \ {p} : InUse(q)' = InUse(q)
  BY <1>4 DEF Has, InUse
<1>8. \A q \in Process : InDriver(q) => q # p
  BY <1>2 DEF InDriver
<1>9. /\ \A c : Queued(c)' <=> Queued(c)
      /\ \A c \in Buf : Transferred(c)' <=> Transferred(c)
      /\ \A q \in Process : InDriver(q)' <=> InDriver(q)
  BY <1>2, <1>4 DEF Queued, Transferred, InDriver
<1>10. HoldsOK'
  <2>1. \A q \in Process : \A i, j \in 1 .. Len(holds'[q]) : holds'[q][i] = holds'[q][j] => i = j
    BY <1>0, <1>4, <1>5 DEF Rest, HoldsOK
  <2>2. \A q, s \in Process, c \in Buf : Has(q, c)' /\ Has(s, c)' => q = s
    BY <1>0, <1>6, <1>7 DEF Rest, HoldsOK
  <2>3. ASSUME NEW c \in Buf PROVE buf'[c].busy <=> \E q \in Process : Has(q, c)'
    <3>1. CASE c = b
      BY <1>0, <1>3, <1>4, <1>6, <1>7, <3>1 DEF Rest, HoldsOK
    <3>2. CASE c # b
      BY <1>0, <1>4, <1>6, <1>7, <3>2 DEF Rest, HoldsOK
    <3>3. QED
      BY <3>1, <3>2
  <2>4. \A q \in Process : InDriver(q)' => holds'[q] # <<>>
    BY <1>0, <1>4, <1>8, <1>9 DEF Rest, HoldsOK
  <2>5. QED
    BY <2>1, <2>2, <2>3, <2>4 DEF HoldsOK
<1>11. SectorsOK'
  <2>1. \A c \in Buf : buf'[c].busy => buf[c].busy
    BY <1>4
  <2>2. QED
    BY <1>0, <1>2, <1>4, <2>1 DEF Rest, SectorsOK, OneBufferPerSector
<1>12. FlagsOK'
  <2>1. ASSUME NEW c \in Buf, buf'[c].sector # None, ~Transferred(c)'
        PROVE  \E q \in Process : InDriver(q)' /\ Has(q, c)' /\ c = InUse(q)'
    <3>1. PICK q \in Process : InDriver(q) /\ Has(q, c) /\ c = InUse(q)
      BY <1>0, <1>4, <1>9, <2>1 DEF Rest, FlagsOK
    <3>2. QED
      BY <1>7, <1>8, <1>9, <3>1
  <2>2. \A c \in Buf : buf'[c].sector = None => ~buf'[c].valid /\ ~buf'[c].dirty
    BY <1>0, <1>4 DEF Rest, FlagsOK
  <2>3. \A q \in Process : pc'[q] = "bread" => ~buf'[InUse(q)'].dirty
    BY <1>0, <1>2, <1>4, <1>7, <1>8, Facts DEF Rest, FlagsOK, InDriver
  <2>4. ASSUME NEW q \in Process, pc'[q] = "iderw"
        PROVE  Transferred(InUse(q))' <=> ~Queued(InUse(q))'
    <3>1. pc[q] = "iderw" /\ InDriver(q) /\ InUse(q) \in Buf /\ InUse(q)' = InUse(q)
      BY <1>2, <1>7, <1>8, <2>4, Facts DEF InDriver
    <3>2. Transferred(InUse(q))' <=> Transferred(InUse(q))
      BY <1>4, <3>1 DEF Transferred
    <3>3. Queued(InUse(q))' <=> Queued(InUse(q))
      BY <1>2, <3>1 DEF Queued
    <3>4. QED
      BY <1>0, <3>1, <3>2, <3>3 DEF Rest, FlagsOK
  <2>5. QED
    BY <2>1, <2>2, <2>3, <2>4 DEF FlagsOK
<1>13. QueueOK'
  BY <1>0, <1>2, <1>7, <1>8 DEF Rest, QueueOK, InDriver
<1>14. DriveOK'
  <2>1. ASSUME drive # None PROVE Head(idequeue) \in Buf
    <3>1. idequeue # <<>>
      BY <1>0, <2>1 DEF Rest, DriveOK
    <3>2. QED
      BY <1>0, <3>1, HeadTailProperties DEF TypeOK
  <2>2. QED
    BY <1>0, <1>2, <1>4, <2>1 DEF Rest, DriveOK
<1>15. CacheOK'
  BY <1>0, <1>2, <1>4, <1>9 DEF Rest, CacheOK
<1>16. SleepOK'
  <2>1. ASSUME NEW q \in Process, ~Awake(q)'
        PROVE  \/ pc'[q] = "bget" /\ buf'[asleep'[q]].busy
               \/ pc'[q] = "iderw" /\ asleep'[q] = InUse(q)' /\ Queued(InUse(q))'
    <3>1. ~Awake(q) /\ asleep'[q] = asleep[q] /\ asleep[q] \in Buf \ {b}
      BY <1>0, <1>4, <2>1 DEF Awake, TypeOK
    <3>2. CASE pc[q] = "bget" /\ buf[asleep[q]].busy
      BY <1>2, <1>4, <3>1, <3>2
    <3>3. CASE pc[q] = "iderw" /\ asleep[q] = InUse(q) /\ Queued(InUse(q))
      <4>1. InUse(q)' = InUse(q)
        BY <1>7, <1>8, <3>3 DEF InDriver
      <4>2. Queued(InUse(q))'
        BY <1>2, <3>3, <4>1 DEF Queued
      <4>3. QED
        BY <1>2, <3>1, <3>3, <4>1, <4>2
    <3>4. QED
      BY <1>0, <3>1, <3>2, <3>3 DEF Rest, SleepOK
  <2>2. QED
    BY <2>1 DEF SleepOK
<1>17. QED
  BY <1>10, <1>11, <1>12, <1>13, <1>14, <1>15, <1>16 DEF Rest

(* What the drive does, seen from the request it was started for.          *)
LEMMA AtTheDrive ==
    ASSUME IInv, drive # None
    PROVE  /\ idequeue # <<>> /\ drive \in Command /\ Head(idequeue) \in Buf
           /\ Head(idequeue) = idequeue[1] /\ Len(idequeue) \in Nat \ {0}
           /\ Queued(Head(idequeue)) /\ ~Transferred(Head(idequeue))
           /\ drive.sector = buf[Head(idequeue)].sector /\ drive.sector \in Sector
           /\ drive.write = IF buf[Head(idequeue)].dirty THEN buf[Head(idequeue)].data ELSE None
           /\ drive.done /\ buf[Head(idequeue)].dirty => disk[drive.sector] = buf[Head(idequeue)].data
           /\ buf[Head(idequeue)].data # None /\ buf[Head(idequeue)].data \in Data
<1>1. idequeue # <<>> /\ drive \in Command /\ idequeue \in Seq(Buf)
  BY DEF IInv, DriveOK, TypeOK
<1>2. Head(idequeue) = idequeue[1] /\ Len(idequeue) \in Nat \ {0} /\ 1 \in 1 .. Len(idequeue)
  BY <1>1, HeadTailProperties, EmptySeq, LenProperties
<1>3. Head(idequeue) \in Buf /\ Queued(Head(idequeue)) /\ ~Transferred(Head(idequeue))
  BY <1>2, Facts
<1>4. buf[Head(idequeue)].data # None /\ buf[Head(idequeue)].data \in Data
  BY <1>3, Facts, BlockAssumption DEF Buffer
<1>5. drive.sector \in Sector
  BY <1>1 DEF Command
<1>6. QED
  BY <1>1, <1>2, <1>3, <1>4, <1>5 DEF IInv, DriveOK

LEMMA DriveSteps ==
    ASSUME IInv, DriveWorks
    PROVE  Rest'
<1>0. TypeOK /\ Rest
  BY DEF IInv, Rest
<1>1. /\ UNCHANGED <<buf, lru, idequeue, pc, want, holds, asleep>>
      /\ drive # None /\ drive' = [drive EXCEPT !.done = TRUE]
      /\ disk' = IF drive.write = None THEN disk ELSE [disk EXCEPT ![drive.sector] = drive.write]
  BY DEF DriveWorks, cache, process
<1>2. /\ drive' # None /\ drive'.sector = drive.sector /\ drive'.write = drive.write /\ drive'.done
  <2>1. drive' \in Command /\ drive'.sector = drive.sector /\ drive'.write = drive.write /\ drive'.done
    BY <1>1, AtTheDrive DEF Command
  <2>2. QED
    BY <2>1, CommandAssumption
<1>3. HoldsOK' /\ SectorsOK' /\ QueueOK' /\ SleepOK' /\ FlagsOK'
  BY <1>0, <1>1 DEF Rest, HoldsOK, SectorsOK, OneBufferPerSector, QueueOK, SleepOK, FlagsOK, InUse, Has, Queued,
                    Awake, InDriver, Transferred
<1>4. DriveOK'
  <2>1. buf[Head(idequeue)].dirty => disk'[buf[Head(idequeue)].sector] = buf[Head(idequeue)].data
    BY <1>0, <1>1, AtTheDrive DEF TypeOK
  <2>2. QED
    BY <1>0, <1>1, <1>2, <2>1 DEF Rest, DriveOK
<1>5. CacheOK'
  <2>1. ASSUME NEW c \in Buf, Transferred(c) PROVE disk'[buf[c].sector] = disk[buf[c].sector]
    <3>1. c # Head(idequeue) /\ buf[c].sector # None
      BY <1>0, <1>1, <2>1, AtTheDrive DEF Rest, FlagsOK, Transferred
    <3>2. buf[c].sector # drive.sector
      BY <1>0, <1>1, <3>1, AtTheDrive DEF Rest, SectorsOK, OneBufferPerSector
    <3>3. buf[c].sector \in Sector
      BY <3>1, Facts DEF Buffer
    <3>4. QED
      BY <1>0, <1>1, <3>2, <3>3 DEF TypeOK
  <2>2. QED
    BY <1>0, <1>1, <2>1 DEF Rest, CacheOK, Transferred
<1>6. QED
  BY <1>3, <1>4, <1>5 DEF Rest

LEMMA IdeintrSteps ==
    ASSUME IInv, Ideintr
    PROVE  Rest'
<1>0. TypeOK /\ Rest
  BY DEF IInv, Rest
<1>1. drive # None /\ drive.done
  BY DEF Ideintr
<1>2. PICK b : b = Head(idequeue)
  OBVIOUS
<1>3. PICK d : d = IF buf[b].dirty THEN buf[b].data ELSE disk[drive.sector]
  OBVIOUS
<1>4. /\ b \in Buf /\ b = idequeue[1] /\ Len(idequeue) \in Nat \ {0} /\ idequeue # <<>>
      /\ idequeue \in Seq(Buf)
      /\ buf[b].sector \in Sector /\ buf[b] \in Buffer
      /\ d \in Data /\ d = disk[buf[b].sector]
  <2>1. /\ b \in Buf /\ b = idequeue[1] /\ Len(idequeue) \in Nat \ {0} /\ idequeue # <<>>
        /\ drive.sector = buf[b].sector /\ drive.sector \in Sector
        /\ buf[b].dirty => disk[drive.sector] = buf[b].data
    BY <1>1, <1>2, AtTheDrive
  <2>2. idequeue \in Seq(Buf) /\ buf[b] \in Buffer /\ disk[drive.sector] \in Data
    BY <1>0, <2>1 DEF TypeOK
  <2>3. d = disk[drive.sector]
    BY <1>3, <2>1
  <2>4. QED
    BY <2>1, <2>2, <2>3
<1>5. /\ idequeue' = Tail(idequeue) /\ drive' = NextCommand(Tail(idequeue)) /\ asleep' = Woken(b)
      /\ UNCHANGED <<disk, pc, want, holds>>
      /\ buf' = [buf EXCEPT ![b] = TransferredWith(buf[b], d)]
  <2>1. buf' = [buf EXCEPT ![b].valid = TRUE, ![b].dirty = FALSE,
                           ![b].data = IF buf[b].dirty THEN @ ELSE disk[drive.sector]]
    BY <1>2 DEF Ideintr
  <2>2. buf' = [buf EXCEPT ![b] = [@ EXCEPT !.valid = TRUE, !.dirty = FALSE, !.data = d]]
    BY <1>0, <1>3, <1>4, <2>1 DEF TypeOK
  <2>3. buf' = [buf EXCEPT ![b] = TransferredWith(buf[b], d)]
    BY <1>0, <1>4, <2>2, TransferredType DEF TypeOK
  <2>4. QED
    BY <1>2, <2>3 DEF Ideintr
<1>6. /\ buf'[b] = TransferredWith(buf[b], d) /\ \A c \in Buf \ {b} : buf'[c] = buf[c]
      /\ \A c \in Buf : buf'[c].sector = buf[c].sector /\ buf'[c].busy = buf[c].busy
      /\ \A q \in Process : asleep'[q] # None => asleep'[q] = asleep[q] /\ asleep[q] # b
  <2>1. buf'[b] = TransferredWith(buf[b], d) /\ \A c \in Buf \ {b} : buf'[c] = buf[c]
    BY <1>0, <1>4, <1>5 DEF TypeOK
  <2>2. \A c \in Buf : buf'[c].sector = buf[c].sector /\ buf'[c].busy = buf[c].busy
    BY <2>1 DEF TransferredWith
  <2>3. \A q \in Process : asleep'[q] # None => asleep'[q] = asleep[q] /\ asleep[q] # b
    BY <1>5 DEF Woken
  <2>4. QED
    BY <2>1, <2>2, <2>3
<1>7. /\ Len(idequeue') = Len(idequeue) - 1 /\ idequeue' \in Seq(Buf)
      /\ \A i \in 1 .. Len(idequeue') : idequeue'[i] = idequeue[i + 1] /\ i + 1 \in 1 .. Len(idequeue)
  BY <1>4, <1>5, HeadTailProperties
<1>8. ~Queued(b)' /\ \A c \in Buf \ {b} : Queued(c)' <=> Queued(c)
  <2>1. \A i \in 1 .. Len(idequeue') : i + 1 # 1 /\ i + 1 \in 1 .. Len(idequeue) /\ 1 \in 1 .. Len(idequeue)
    BY <1>4, <1>7
  <2>2. \A i \in 1 .. Len(idequeue') : idequeue'[i] # b
    BY <1>0, <1>4, <1>7, <2>1 DEF Rest, QueueOK
  <2>3. ASSUME NEW c \in Buf \ {b}, Queued(c) PROVE Queued(c)'
    <3>1. PICK i \in 1 .. Len(idequeue) : idequeue[i] = c
      BY <2>3 DEF Queued
    <3>2. i - 1 \in 1 .. Len(idequeue') /\ (i - 1) + 1 = i
      BY <1>4, <1>7, <2>3, <3>1
    <3>3. idequeue'[i - 1] = c
      BY <1>7, <3>1, <3>2
    <3>4. QED
      BY <3>2, <3>3 DEF Queued
  <2>4. ASSUME NEW c \in Buf, Queued(c)' PROVE Queued(c)
    BY <1>7, <2>4 DEF Queued
  <2>5. ~Queued(b)'
    BY <2>2 DEF Queued
  <2>6. QED
    BY <2>3, <2>4, <2>5
<1>9. /\ \A q \in Process, c \in Buf : Has(q, c)' <=> Has(q, c)
      /\ \A q \in Process : InUse(q)' = InUse(q) /\ (InDriver(q)' <=> InDriver(q))
  BY <1>5 DEF Has, InUse, InDriver
<1>10. Transferred(b)' /\ \A c \in Buf \ {b} : Transferred(c)' <=> Transferred(c)
  BY <1>6 DEF Transferred, TransferredWith
<1>11. HoldsOK' /\ SectorsOK'
  BY <1>0, <1>5, <1>6, <1>9 DEF Rest, HoldsOK, SectorsOK, OneBufferPerSector
<1>12. FlagsOK'
  <2>1. \A c \in Buf : buf'[c].sector # None /\ ~Transferred(c)' =>
          \E q \in Process : InDriver(q)' /\ Has(q, c)' /\ c = InUse(q)'
    BY <1>0, <1>6, <1>9, <1>10 DEF Rest, FlagsOK
  <2>2. \A c \in Buf : buf'[c].sector = None => ~buf'[c].valid /\ ~buf'[c].dirty
    BY <1>0, <1>4, <1>6, BlockAssumption DEF Rest, FlagsOK
  <2>3. \A q \in Process : pc'[q] = "bread" => ~buf'[InUse(q)'].dirty
    BY <1>0, <1>5, <1>6, <1>9, Facts DEF Rest, FlagsOK, InDriver, TransferredWith
  <2>4. ASSUME NEW q \in Process, pc'[q] = "iderw"
        PROVE  Transferred(InUse(q))' <=> ~Queued(InUse(q))'
    <3>1. PICK c : c = InUse(q)
      OBVIOUS
    <3>2. c \in Buf /\ c = InUse(q)'
      BY <1>5, <1>9, <2>4, <3>1, Facts DEF InDriver
    <3>3. Transferred(c)' <=> ~Queued(c)'
      <4>1. CASE c = b
        BY <1>8, <1>10, <4>1
      <4>2. CASE c # b
        <5>1. Transferred(c) <=> ~Queued(c)
          BY <1>0, <1>5, <2>4, <3>1 DEF Rest, FlagsOK
        <5>2. QED
          BY <1>8, <1>10, <3>2, <4>2, <5>1
      <4>3. QED
        BY <4>1, <4>2
    <3>4. (Transferred(InUse(q))' <=> Transferred(c)') /\ (Queued(InUse(q))' <=> Queued(c)')
      BY <3>2 DEF Transferred, Queued
    <3>5. QED
      BY <3>3, <3>4
  <2>5. QED
    BY <2>1, <2>2, <2>3, <2>4 DEF FlagsOK
<1>13. QueueOK'
  <2>1. \A i, j \in 1 .. Len(idequeue') : idequeue'[i] = idequeue'[j] => i = j
    <3>1. \A i, j \in 1 .. Len(idequeue') : i + 1 = j + 1 => i = j
      BY <1>4, <1>7
    <3>2. QED
      BY <1>0, <1>7, <3>1 DEF Rest, QueueOK
  <2>2. \A i \in 1 .. Len(idequeue') : \E q \in Process : pc'[q] = "iderw" /\ InUse(q)' = idequeue'[i]
    BY <1>0, <1>5, <1>7, <1>9 DEF Rest, QueueOK
  <2>3. QED
    BY <2>1, <2>2 DEF QueueOK
<1>14. DriveOK'
  <2>1. CASE idequeue' = <<>>
    BY <1>5, <2>1 DEF NextCommand, DriveOK
  <2>2. CASE idequeue' # <<>>
    <3>1. PICK c : c = Head(idequeue')
      OBVIOUS
    <3>2. 1 \in 1 .. Len(idequeue') /\ c = idequeue'[1]
      BY <1>7, <2>2, <3>1, HeadTailProperties, EmptySeq, LenProperties
    <3>3. c \in Buf /\ c # b /\ buf[c].sector \in Sector /\ buf[c] \in Buffer
      <4>1. c = idequeue[2] /\ 2 \in 1 .. Len(idequeue) /\ 1 \in 1 .. Len(idequeue)
        BY <1>4, <1>7, <3>2
      <4>2. QED
        BY <1>0, <1>4, <4>1, Facts DEF Rest, QueueOK
    <3>4. drive' = Start(c, buf[c])
      BY <1>5, <2>2, <3>1 DEF NextCommand
    <3>5. drive' # None
      BY <3>3, <3>4, BlockAssumption, StartType
    <3>6. buf'[c] = buf[c]
      BY <1>6, <3>3
    <3>7. QED
      BY <2>2, <3>1, <3>4, <3>5, <3>6 DEF DriveOK, Start
  <2>3. QED
    BY <2>1, <2>2
<1>15. CacheOK'
  <2>1. ASSUME NEW c \in Buf, Transferred(c)' PROVE buf'[c].data = disk'[buf'[c].sector]
    <3>1. CASE c = b
      BY <1>4, <1>5, <1>6, <3>1 DEF TransferredWith
    <3>2. CASE c # b
      BY <1>0, <1>5, <1>6, <1>10, <2>1, <3>2 DEF Rest, CacheOK
    <3>3. QED
      BY <3>1, <3>2
  <2>2. QED
    BY <2>1 DEF CacheOK
<1>16. SleepOK'
  <2>1. ASSUME NEW q \in Process, ~Awake(q)'
        PROVE  \/ pc'[q] = "bget" /\ buf'[asleep'[q]].busy
               \/ pc'[q] = "iderw" /\ asleep'[q] = InUse(q)' /\ Queued(InUse(q))'
    <3>1. PICK c : c = asleep[q]
      OBVIOUS
    <3>2. ~Awake(q) /\ asleep'[q] = c /\ c \in Buf \ {b}
      BY <1>0, <1>6, <2>1, <3>1 DEF Awake, TypeOK
    <3>3. CASE pc[q] = "bget" /\ buf[c].busy
      BY <1>5, <1>6, <3>2, <3>3
    <3>4. CASE pc[q] = "iderw" /\ c = InUse(q) /\ Queued(c)
      <4>1. InUse(q)' = c /\ Queued(c)'
        BY <1>8, <1>9, <3>2, <3>4
      <4>2. Queued(InUse(q))'
        BY <4>1 DEF Queued
      <4>3. QED
        BY <1>5, <3>2, <3>4, <4>1, <4>2
    <3>5. QED
      BY <1>0, <3>1, <3>2, <3>3, <3>4 DEF Rest, SleepOK
  <2>2. QED
    BY <2>1 DEF SleepOK
<1>17. QED
  BY <1>11, <1>12, <1>13, <1>14, <1>15, <1>16 DEF Rest

-----------------------------------------------------------------------------
LEMMA InitInductive == Init => IInv
<1> SUFFICES ASSUME Init PROVE IInv
  OBVIOUS
<1> USE DEF Init
<1>1. /\ lru \in Seq(Buf) /\ IsInjective(lru) /\ ToSet(lru) = Buf
      /\ buf \in [Buf -> Buffer] /\ <<>> \in Seq(Buf)
  BY BlockAssumption, SetAsSequence, EmptyType, EmptySeq
<1>2. TypeOK
  BY <1>1 DEF TypeOK, Points
<1>3. /\ \A p \in Process : holds[p] = <<>> /\ pc[p] = "run" /\ Awake(p)
      /\ \A b \in Buf : buf[b].sector = None /\ ~buf[b].busy /\ ~buf[b].valid /\ ~buf[b].dirty
  BY DEF Empty, Awake
<1>4. Len(<<>>) = 0 /\ 1 .. 0 = {}
  OBVIOUS
<1>5. HoldsOK
  BY <1>3, <1>4 DEF HoldsOK, Has, InDriver
<1>6. SectorsOK /\ FlagsOK /\ CacheOK /\ SleepOK
  BY <1>3 DEF SectorsOK, OneBufferPerSector, FlagsOK, CacheOK, SleepOK, InDriver, Transferred
<1>7. QueueOK /\ DriveOK
  BY <1>4 DEF QueueOK, DriveOK
<1>8. QED
  BY <1>2, <1>5, <1>6, <1>7 DEF IInv

(* The machine starts again in one of its initial states.                  *)
LEMMA RebootInductive == IInv /\ Reboot => IInv'
<1>1. Init => IInv
  BY InitInductive
<1>2. IInv /\ Reboot => Init'
  BY DEF IInv, TypeOK, Reboot, Init
<1>3. QED
  BY <1>1, <1>2, PTL

LEMMA Inductive == IInv /\ [Next]_vars => IInv'
<1> SUFFICES ASSUME IInv, [Next]_vars PROVE IInv'
  OBVIOUS
<1>0. IInv' <=> TypeOK' /\ Rest'
  BY DEF IInv, Rest
<1>1. CASE UNCHANGED vars
  BY <1>1 DEF vars, cache, driver, process, IInv, TypeOK, HoldsOK, SectorsOK, OneBufferPerSector, FlagsOK, QueueOK,
              DriveOK, CacheOK, SleepOK, Has, Queued, InUse, InDriver, Transferred, Awake
<1>2. CASE Reboot
  BY <1>2, RebootInductive
<1>3. ASSUME NEW p \in Process,
             \/ \E s \in Sector : Bread(p, s)
             \/ BgetSleep(p) \/ BgetPanic(p) \/ BreadValid(p) \/ IderwDone(p) \/ IderwSleep(p) \/ Kick(p)
      PROVE  IInv'
  BY <1>0, <1>3, ProcessTypes, LightSteps
<1>4. ASSUME NEW p \in Process, BgetHit(p) \/ BgetFresh(p) PROVE IInv'
  <2>1. /\ InBget(p) /\ want[p] \in Sector
        /\ \E b \in Buf, r \in Buffer : ~buf[b].busy /\ Fits(r, b, want[p]) /\ Got(p, b, r)
    BY <1>4, BgetGets
  <2>2. PICK b \in Buf, r \in Buffer : ~buf[b].busy /\ Fits(r, b, want[p]) /\ Got(p, b, r)
    BY <2>1
  <2>3. TypeOK' /\ Rest'
    BY <2>1, <2>2, GotType, GotSteps DEF IInv
  <2>4. QED
    BY <1>0, <2>3
<1>5. ASSUME NEW p \in Process, BreadMiss(p) \/ \E d \in Data : Bwrite(p, d) PROVE IInv'
  <2>1. holds[p] # <<>> /\ pc[p] \in {"run", "bread"}
    BY <1>5, Facts DEF BreadMiss, Bwrite, InDriver
  <2>2. InUse(p) \in Buf /\ buf[InUse(p)] \in Buffer /\ buf[InUse(p)].busy /\ buf[InUse(p)].sector \in Sector
    BY <2>1, Facts
  <2>3. PICK b : b = InUse(p)
    OBVIOUS
  <2>4. \E r \in Buffer : /\ r.sector = buf[b].sector /\ r.busy /\ (~r.valid \/ r.dirty)
                          /\ Iderw(p, r)
    <3>1. CASE BreadMiss(p)
      BY <2>2, <2>3, <3>1 DEF BreadMiss
    <3>2. ASSUME NEW d \in Data, Bwrite(p, d)
          PROVE  \E r \in Buffer : /\ r.sector = buf[b].sector /\ r.busy /\ (~r.valid \/ r.dirty)
                                   /\ Iderw(p, r)
      <4> DEFINE r == [buf[b] EXCEPT !.data = d, !.dirty = TRUE]
      <4>1. r \in Buffer /\ r.sector = buf[b].sector /\ r.busy /\ r.dirty
        BY <2>2, <2>3 DEF Buffer
      <4>2. Iderw(p, r)
        BY <2>3, <3>2 DEF Bwrite
      <4> HIDE DEF r
      <4>3. QED
        BY <4>1, <4>2
    <3>3. QED
      BY <1>5, <3>1, <3>2
  <2>5. ~Queued(InUse(p))
    <3>1. ASSUME NEW i \in 1 .. Len(idequeue), idequeue[i] = InUse(p) PROVE FALSE
      <4>1. PICK q \in Process : pc[q] = "iderw" /\ InUse(q) = idequeue[i]
        BY DEF IInv, QueueOK
      <4>2. QED
        BY <2>1, <3>1, <4>1, Facts DEF InDriver
    <3>2. QED
      BY <3>1 DEF Queued
  <2>6. PICK r \in Buffer : r.sector = buf[b].sector /\ r.busy /\ (~r.valid \/ r.dirty) /\ Iderw(p, r)
    BY <2>4
  <2>7. r.sector = buf[InUse(p)].sector /\ r.sector # None
    BY <2>2, <2>3, <2>6, BlockAssumption
  <2>8. TypeOK'
    BY <2>1, <2>6, <2>7, IderwType DEF IInv
  <2>9. Rest'
    BY <2>1, <2>5, <2>6, <2>7, IderwSteps
  <2>10. QED
    BY <1>0, <2>8, <2>9
<1>6. ASSUME NEW p \in Process, Brelse(p) PROVE IInv'
  BY <1>0, <1>6, BrelseType, BrelseSteps
<1>7. CASE DriveWorks
  BY <1>0, <1>7, DriverTypes, DriveSteps
<1>8. CASE Ideintr
  BY <1>0, <1>8, DriverTypes, IdeintrSteps
<1>9. QED
  BY <1>1, <1>2, <1>3, <1>4, <1>5, <1>6, <1>7, <1>8 DEF Next, Bget, Ide

LEMMA Invariance == Spec => []IInv
BY InitInductive, Inductive, PTL DEF Spec

(* The type invariant of the buffer cache and the disk driver.             *)
THEOREM TypeCorrect == Spec => []TypeOK
<1>1. IInv => TypeOK
  BY DEF IInv
<1>2. QED
  BY <1>1, Invariance, PTL

(* bget never gives a sector a second buffer, though it goes round again   *)
(* with its lock dropped and a buffer of another sector under it.          *)
THEOREM CacheCorrect == Spec => []OneBufferPerSector
<1>1. IInv => OneBufferPerSector
  BY DEF IInv, SectorsOK
<1>2. QED
  BY <1>1, Invariance, PTL

LEMMA HasMeans ==
    ASSUME TypeOK, NEW p \in Process, NEW b \in Buf
    PROVE  /\ b \in ToSet(holds[p]) <=> Has(p, b)
           /\ IsInjective(holds[p]) <=> \A i, j \in 1 .. Len(holds[p]) : holds[p][i] = holds[p][j] => i = j
<1>1. holds[p] \in Seq(Buf) /\ DOMAIN holds[p] = 1 .. Len(holds[p])
  BY LenProperties DEF TypeOK
<1>2. QED
  BY <1>1 DEF ToSet, Has, IsInjective

(* B_BUSY keeps a buffer for one process, and none stays busy without a    *)
(* user.                                                                   *)
THEOREM OneUserCorrect == Spec => []OneUser
<1>1. IInv => OneUser
  <2> SUFFICES ASSUME IInv, NEW b \in Buf
               PROVE  buf[b].busy <=>
                        \E p \in Process : /\ b \in ToSet(holds[p])
                                           /\ IsInjective(holds[p])
                                           /\ \A q \in Process : b \in ToSet(holds[q]) => q = p
    BY DEF OneUser
  <2>1. TypeOK /\ HoldsOK
    BY DEF IInv
  <2>2. \A p \in Process : (b \in ToSet(holds[p]) <=> Has(p, b)) /\ IsInjective(holds[p])
    BY <2>1, HasMeans DEF HoldsOK
  <2>3. QED
    BY <2>1, <2>2 DEF HoldsOK
<1>2. QED
  BY <1>1, Invariance, PTL

(* Whoever sleeps in bget or iderw sleeps on a buffer that somebody is     *)
(* still to wake it for.                                                   *)
THEOREM WakeupsCorrect == Spec => []NoLostWakeup
<1>1. IInv => NoLostWakeup
  <2> SUFFICES ASSUME IInv, NEW p \in Process, ~Awake(p)
               PROVE  /\ pc[p] = "bget" => buf[asleep[p]].busy
                      /\ pc[p] = "iderw" => asleep[p] \in ToSet(idequeue)
    BY DEF NoLostWakeup
  <2>1. idequeue \in Seq(Buf) /\ DOMAIN idequeue = 1 .. Len(idequeue)
    BY LenProperties DEF IInv, TypeOK
  <2>2. QED
    BY <2>1 DEF IInv, SleepOK, ToSet, Queued
<1>2. QED
  BY <1>1, Invariance, PTL

-----------------------------------------------------------------------------
(* Nobody waits in a circle.                                               *)

(* Who is in bget holds nothing, or an indirect block while it wants one   *)
(* that is none; and the buffer it sleeps on keeps its sector meanwhile.   *)
WaitOK(p) ==
    pc[p] = "bget" =>
        /\ MayRead(p, want[p])
        /\ ~Awake(p) => buf[asleep[p]].sector = want[p]

(* A step leaves p in bget as it was, or wakes it, or calls bget, or puts p*)
(* to sleep on a buffer of its sector.  No buffer in use is given another  *)
(* sector.                                                                 *)
Waits(p) ==
    /\ UNCHANGED <<holds[p], want[p]>> /\ pc[p] = "bget"
    /\ asleep'[p] \in {asleep[p], None} \/ buf'[asleep'[p]].sector = want[p]

Calls(p) == holds'[p] = holds[p] /\ MayRead(p, want'[p]) /\ asleep'[p] = None

SameSectors == \A b \in Buf : buf[b].busy => buf'[b].sector = buf[b].sector

LEMMA WaitStep ==
    ASSUME IInv, \A p \in Process : WaitOK(p), SameSectors,
           \A p \in Process : pc'[p] = "bget" => Waits(p) \/ Calls(p)
    PROVE  \A p \in Process : WaitOK(p)'
<1> SUFFICES ASSUME NEW p \in Process, pc'[p] = "bget"
             PROVE  MayRead(p, want[p])' /\ (~Awake(p)' => buf'[asleep'[p]].sector = want'[p])
  BY DEF WaitOK
<1>1. ASSUME holds[p] # <<>> PROVE buf'[Last(holds[p])].sector = buf[Last(holds[p])].sector
  BY <1>1, Facts DEF SameSectors, InUse
<1>2. CASE Waits(p)
  <2>1. /\ holds'[p] = holds[p] /\ want'[p] = want[p] /\ pc[p] = "bget"
        /\ asleep'[p] \in {asleep[p], None} \/ buf'[asleep'[p]].sector = want[p]
    BY <1>2 DEF Waits
  <2>2. MayRead(p, want[p])'
    BY <1>1, <2>1 DEF WaitOK, MayRead
  <2>3. ASSUME ~Awake(p)', asleep'[p] = asleep[p] PROVE buf'[asleep'[p]].sector = want'[p]
    <3>1. ~Awake(p) /\ asleep[p] \in Buf
      BY <2>3 DEF Awake, IInv, TypeOK
    <3>2. buf[asleep[p]].busy /\ buf[asleep[p]].sector = want[p]
      BY <2>1, <3>1 DEF IInv, SleepOK, WaitOK
    <3>3. QED
      BY <2>1, <2>3, <3>1, <3>2 DEF SameSectors
  <2>4. QED
    BY <2>1, <2>2, <2>3 DEF Awake
<1>3. CASE Calls(p)
  BY <1>1, <1>3 DEF Calls, MayRead, Awake
<1>4. QED
  BY <1>2, <1>3

LEMMA WaitInductive ==
    ASSUME IInv, \A p \in Process : WaitOK(p), [Next]_vars
    PROVE  \A p \in Process : WaitOK(p)'
<1>0. TypeOK
  BY DEF IInv
<1> DEFINE Good == SameSectors /\ \A p \in Process : pc'[p] = "bget" => Waits(p) \/ Calls(p)
<1>1. ASSUME UNCHANGED vars PROVE Good
  BY <1>1 DEF vars, cache, process, SameSectors, Waits
<1>2. CASE Reboot
  BY <1>2 DEF Reboot, WaitOK
<1>3. ASSUME NEW p \in Process, NEW s \in Sector, Bread(p, s) PROVE Good
  <2>1. Calls(p)
    <3>1. Awake(p)
      BY <1>3 DEF Bread, IInv, SleepOK
    <3>2. QED
      BY <1>0, <1>3, <3>1 DEF Bread, Calls, TypeOK, Awake
  <2>2. QED
    BY <1>0, <1>3, <2>1 DEF Bread, cache, SameSectors, Waits, Goto, TypeOK
<1>4. ASSUME NEW p \in Process, BgetSleep(p) PROVE Good
  <2>1. PICK b \in Cached(want[p]) : asleep' = [asleep EXCEPT ![p] = b]
    BY <1>4 DEF BgetSleep
  <2>2. buf[b].sector = want[p] /\ UNCHANGED <<buf, pc, want, holds>>
    BY <1>4, <2>1 DEF BgetSleep, Cached, cache
  <2>3. QED
    BY <1>0, <2>1, <2>2 DEF SameSectors, Waits, TypeOK
<1>5. ASSUME NEW p \in Process, BgetPanic(p) \/ BreadValid(p) \/ IderwDone(p) \/ Kick(p) PROVE Good
  BY <1>0, <1>5 DEF BgetPanic, BreadValid, IderwDone, Kick, cache, process, Goto, SameSectors, Waits, TypeOK
<1>6. ASSUME NEW p \in Process, IderwSleep(p) PROVE Good
  BY <1>0, <1>6 DEF IderwSleep, cache, SameSectors, Waits, TypeOK
<1>7. ASSUME NEW p \in Process, BgetHit(p) \/ BgetFresh(p) PROVE Good
  <2>1. PICK b \in Buf, r \in Buffer : ~buf[b].busy /\ Got(p, b, r)
    BY <1>7, BgetGets
  <2>2. QED
    BY <1>0, <2>1 DEF Got, Goto, SameSectors, Waits, TypeOK
<1>8. ASSUME NEW p \in Process, BreadMiss(p) \/ \E d \in Data : Bwrite(p, d) PROVE Good
  <2>1. InUse(p) \in Buf /\ buf[InUse(p)] \in Buffer
    BY <1>8, Facts DEF BreadMiss, Bwrite, InDriver
  <2>2. \E r : r.sector = buf[InUse(p)].sector /\ Iderw(p, r)
    <3>1. ASSUME NEW d \in Data, Bwrite(p, d) PROVE \E r : r.sector = buf[InUse(p)].sector /\ Iderw(p, r)
      <4> DEFINE r == [buf[InUse(p)] EXCEPT !.data = d, !.dirty = TRUE]
      <4>1. r.sector = buf[InUse(p)].sector
        BY <2>1 DEF Buffer
      <4>2. Iderw(p, r)
        BY <3>1 DEF Bwrite
      <4> HIDE DEF r
      <4>3. QED
        BY <4>1, <4>2
    <3>2. QED
      BY <1>8, <3>1 DEF BreadMiss
  <2>3. PICK r : r.sector = buf[InUse(p)].sector /\ Iderw(p, r)
    BY <2>2
  <2>4. PICK b : b = InUse(p)
    OBVIOUS
  <2>5. /\ buf' = [buf EXCEPT ![b] = r] /\ asleep' = [asleep EXCEPT ![p] = b]
        /\ pc' = [pc EXCEPT ![p] = "iderw"] /\ UNCHANGED <<want, holds>>
    BY <2>3, <2>4 DEF Iderw, Goto
  <2>6. QED
    BY <1>0, <2>1, <2>3, <2>4, <2>5 DEF SameSectors, Waits, TypeOK
<1>9. ASSUME NEW p \in Process, Brelse(p) PROVE Good
  <2>1. PICK b : b = InUse(p)
    OBVIOUS
  <2>2. /\ pc[p] = "run" /\ buf' = [buf EXCEPT ![b].busy = FALSE] /\ asleep' = Woken(b)
        /\ holds' = [holds EXCEPT ![p] = Front(@)] /\ UNCHANGED <<pc, want>>
    BY <1>9, <2>1 DEF Brelse
  <2>3. SameSectors
    BY <1>0, <2>2 DEF SameSectors, TypeOK, Buffer
  <2>4. QED
    BY <1>0, <2>2, <2>3 DEF Waits, Woken, TypeOK
<1>10. ASSUME DriveWorks PROVE Good
  BY <1>0, <1>10 DEF DriveWorks, cache, process, SameSectors, Waits, TypeOK
<1>11. ASSUME Ideintr PROVE Good
  <2>1. PICK b : b = Head(idequeue)
    OBVIOUS
  <2>2. PICK d : buf' = [buf EXCEPT ![b].valid = TRUE, ![b].dirty = FALSE, ![b].data = d]
    BY <1>11, <2>1, Zenon DEF Ideintr
  <2>3. asleep' = Woken(b) /\ UNCHANGED <<pc, want, holds>>
    BY <1>11, <2>1 DEF Ideintr
  <2>4. SameSectors
    BY <1>0, <2>2 DEF SameSectors, TypeOK, Buffer
  <2>5. QED
    BY <1>0, <2>3, <2>4 DEF Waits, Woken, TypeOK
<1>12. QED
  <2>1. Good => \A p \in Process : WaitOK(p)'
    BY WaitStep
  <2>2. QED
    BY <1>1, <1>2, <1>3, <1>4, <1>5, <1>6, <1>7, <1>8, <1>9, <1>10, <1>11, <2>1 DEF Next, Bget, Ide

(* A process that sleeps in bget waits for one that holds its sector.  If  *)
(* that one sleeps in bget, too, the sector is an indirect block's and it  *)
(* waits for another; whoever holds that one is not asleep in bget.        *)
LEMMA SomebodyIsAwake ==
    ASSUME IInv, \A p \in Process : WaitOK(p)
    PROVE  SomebodyMoves
<1> DEFINE Inside == {p \in Process : pc[p] # "run" \/ holds[p] # <<>>}
<1> SUFFICES ASSUME NEW p \in Inside, \A q \in Inside : ~Awake(q), drive = None PROVE FALSE
  BY DEF SomebodyMoves
<1>1. ASSUME NEW q \in Inside PROVE pc[q] = "bget" /\ buf[asleep[q]].busy /\ asleep[q] \in Buf
  <2>1. idequeue = <<>>
    BY DEF IInv, DriveOK
  <2>2. Len(idequeue) = 0
    BY <2>1
  <2>3. \A b : ~Queued(b)
    BY <2>2 DEF Queued
  <2>4. ~Awake(q) /\ q \in Process
    OBVIOUS
  <2>5. asleep[q] \in Buf
    BY <2>4 DEF Awake, IInv, TypeOK
  <2>6. QED
    BY <2>3, <2>4, <2>5 DEF IInv, SleepOK
<1>2. ASSUME NEW q \in Inside
      PROVE  \E r \in Inside : /\ buf[asleep[q]].sector = want[q]
                               /\ want[q] \in Indirect /\ want[r] \notin Indirect
  <2>1. pc[q] = "bget" /\ buf[asleep[q]].busy /\ asleep[q] \in Buf /\ q \in Process
    BY <1>1
  <2>2. buf[asleep[q]].sector = want[q]
    BY <2>1 DEF WaitOK
  <2>3. PICK r \in Process : Has(r, asleep[q])
    BY <2>1 DEF IInv, HoldsOK
  <2>4. holds[r] \in Seq(Buf) /\ holds[r] # <<>>
    <3>1. holds[r] \in Seq(Buf) /\ Len(holds[r]) # 0
      BY <2>3, LenProperties DEF Has, IInv, TypeOK
    <3>2. QED
      BY <3>1
  <2>5. r \in Inside
    BY <2>4
  <2>6. MayRead(r, want[r])
    BY <1>1, <2>5 DEF WaitOK
  <2>7. Len(holds[r]) = 1 /\ buf[Last(holds[r])].sector \in Indirect /\ want[r] \notin Indirect
    BY <2>4, <2>6 DEF MayRead
  <2>8. Last(holds[r]) = asleep[q]
    BY <2>3, <2>4, <2>7 DEF Has, Last
  <2>9. QED
    BY <2>2, <2>5, <2>7, <2>8
<1>3. PICK r \in Inside : want[r] \notin Indirect
  BY <1>2
<1>4. QED
  BY <1>2, <1>3

(* The block layer does not deadlock on buffers, for any number of them    *)
(* and of processes: fs.c holds an indirect block while it reads another,  *)
(* and never one that is none.                                             *)
THEOREM ProgressCorrect == Spec => []SomebodyMoves
<1> DEFINE Wait == \A p \in Process : WaitOK(p)
<1>1. Init => Wait
  BY DEF Init, WaitOK
<1>2. IInv /\ Wait /\ [Next]_vars => Wait'
  BY WaitInductive
<1>3. IInv /\ Wait => SomebodyMoves
  BY SomebodyIsAwake
<1> HIDE DEF Wait
<1>4. QED
  BY <1>1, <1>2, <1>3, Invariance, PTL DEF Spec

-----------------------------------------------------------------------------
(* What the store shows of a sector whose buffer somebody has, and of one  *)
(* whose buffer nobody has.                                                *)
ViewOK ==
    /\ \A s \in Sector, p \in Process, b \in Buf : Has(p, b) /\ buf[b].sector = s =>
         /\ UserOf(s) = p
         /\ SeenOf(s) = IF Transferred(b) THEN buf[b].data ELSE None
         /\ WritingOf(s) = IF buf[b].dirty THEN buf[b].data ELSE None
    /\ \A s \in Sector : (\A b \in Buf : buf[b].sector = s => ~buf[b].busy) =>
         UserOf(s) = None /\ SeenOf(s) = None /\ WritingOf(s) = None

LEMMA Views == IInv => ViewOK
<1> SUFFICES ASSUME IInv PROVE ViewOK
  OBVIOUS
<1>0. TypeOK /\ HoldsOK /\ SectorsOK /\ None \notin Sector
  BY BlockAssumption DEF IInv
<1>1. /\ \A p \in Process, b \in Buf : b \in ToSet(holds[p]) <=> Has(p, b)
      /\ \A p \in Process : \A b \in ToSet(holds[p]) : b \in Buf
  <2>1. \A p \in Process : holds[p] \in Seq(Buf) /\ DOMAIN holds[p] = 1 .. Len(holds[p])
    BY <1>0, LenProperties DEF TypeOK
  <2>2. \A p \in Process : \A b \in ToSet(holds[p]) : b \in Buf
    BY <2>1 DEF ToSet
  <2>3. QED
    BY <1>0, <2>2, HasMeans
<1>2. ASSUME NEW s \in Sector, NEW p \in Process, NEW b \in Buf, Has(p, b), buf[b].sector = s
      PROVE  /\ UserOf(s) = p
             /\ SeenOf(s) = IF Transferred(b) THEN buf[b].data ELSE None
             /\ WritingOf(s) = IF buf[b].dirty THEN buf[b].data ELSE None
  <2>1. \A c \in Buf : buf[c].sector = s <=> c = b
    BY <1>0, <1>2 DEF SectorsOK, OneBufferPerSector
  <2>2. p \in Users(s) /\ \A q \in Users(s) : q = p
    BY <1>0, <1>1, <1>2, <2>1 DEF Users, HoldsOK
  <2>3. BufferOf(s) = b
    BY <2>1 DEF BufferOf
  <2>4. QED
    BY <2>2, <2>3 DEF UserOf, SeenOf, WritingOf
<1>3. ASSUME NEW s \in Sector, \A b \in Buf : buf[b].sector = s => ~buf[b].busy
      PROVE  UserOf(s) = None /\ SeenOf(s) = None /\ WritingOf(s) = None
  <2>1. Users(s) = {}
    BY <1>0, <1>1, <1>3 DEF Users, HoldsOK
  <2>2. QED
    BY <2>1 DEF UserOf, SeenOf, WritingOf
<1>4. QED
  BY <1>2, <1>3 DEF ViewOK

LEMMA ViewsAfter == IInv' => ViewOK'
BY Views, PTL

(* A sector is seen as before if its buffer is as it was, or still has no  *)
(* user.                                                                   *)
LEMMA SameView ==
    ASSUME IInv, IInv', NEW s \in Sector,
           \A b \in Buf : /\ (buf[b].sector = s /\ buf[b].busy) <=> (buf'[b].sector = s /\ buf'[b].busy)
                          /\ buf[b].sector = s /\ buf[b].busy =>
                               /\ \A p \in Process : Has(p, b)' <=> Has(p, b)
                               /\ Transferred(b)' <=> Transferred(b)
                               /\ buf'[b].dirty = buf[b].dirty /\ buf'[b].data = buf[b].data
    PROVE  UserOf(s)' = UserOf(s) /\ SeenOf(s)' = SeenOf(s) /\ WritingOf(s)' = WritingOf(s)
<1>1. CASE \A b \in Buf : buf[b].sector = s => ~buf[b].busy
  BY <1>1, Views, ViewsAfter DEF ViewOK
<1>2. CASE \E b \in Buf : buf[b].sector = s /\ buf[b].busy
  <2>1. PICK b \in Buf : buf[b].sector = s /\ buf[b].busy
    BY <1>2
  <2>2. PICK p \in Process : Has(p, b)
    BY <2>1 DEF IInv, HoldsOK
  <2>3. Has(p, b)' /\ buf'[b].sector = s
    BY <2>1, <2>2
  <2>4. QED
    BY <2>1, <2>2, <2>3, Views, ViewsAfter DEF ViewOK
<1>3. QED
  BY <1>1, <1>2

LEMMA Updated ==
    ASSUME NEW s \in Sector, NEW u, NEW n, NEW w,
           \A t \in Sector \ {s} : UserOf(t)' = UserOf(t) /\ SeenOf(t)' = SeenOf(t) /\ WritingOf(t)' = WritingOf(t),
           UserOf(s)' = u, SeenOf(s)' = n, WritingOf(s)' = w
    PROVE  /\ [t \in Sector |-> UserOf(t)]' = [[t \in Sector |-> UserOf(t)] EXCEPT ![s] = u]
           /\ [t \in Sector |-> SeenOf(t)]' = [[t \in Sector |-> SeenOf(t)] EXCEPT ![s] = n]
           /\ [t \in Sector |-> WritingOf(t)]' = [[t \in Sector |-> WritingOf(t)] EXCEPT ![s] = w]
           /\ UserOf(s) = u => UNCHANGED [t \in Sector |-> UserOf(t)]
           /\ SeenOf(s) = n => UNCHANGED [t \in Sector |-> SeenOf(t)]
           /\ WritingOf(s) = w => UNCHANGED [t \in Sector |-> WritingOf(t)]
OBVIOUS

LEMMA Stutters ==
    ASSUME \A t \in Sector : UserOf(t)' = UserOf(t) /\ SeenOf(t)' = SeenOf(t) /\ WritingOf(t)' = WritingOf(t)
    PROVE  /\ UNCHANGED [t \in Sector |-> UserOf(t)]
           /\ UNCHANGED [t \in Sector |-> SeenOf(t)]
           /\ UNCHANGED [t \in Sector |-> WritingOf(t)]
OBVIOUS

-----------------------------------------------------------------------------
(* What the steps are to the store.                                        *)
StoreStep == [Store!Next]_(Store!vars)

LEMMA StutterStep ==
    ASSUME \A t \in Sector : UserOf(t)' = UserOf(t) /\ SeenOf(t)' = SeenOf(t) /\ WritingOf(t)' = WritingOf(t),
           UNCHANGED disk
    PROVE  StoreStep
BY Stutters DEF StoreStep, Store!vars

LEMMA LightStores ==
    ASSUME IInv, IInv', UNCHANGED <<buf, holds, disk>>
    PROVE  StoreStep
<1>1. /\ \A p \in Process, b \in Buf : Has(p, b)' <=> Has(p, b)
      /\ \A b \in Buf : Transferred(b)' <=> Transferred(b)
  BY DEF Has, Transferred
<1>2. \A s \in Sector : UserOf(s)' = UserOf(s) /\ SeenOf(s)' = SeenOf(s) /\ WritingOf(s)' = WritingOf(s)
  <2> SUFFICES ASSUME NEW s \in Sector
               PROVE  UserOf(s)' = UserOf(s) /\ SeenOf(s)' = SeenOf(s) /\ WritingOf(s)' = WritingOf(s)
    OBVIOUS
  <2>1. QED
    BY <1>1, SameView
<1>3. QED
  BY <1>2, StutterStep

LEMMA GotStores ==
    ASSUME IInv, IInv', NEW p \in Process, InBget(p), want[p] \in Sector,
           NEW b \in Buf, NEW r \in Buffer, ~buf[b].busy, Fits(r, b, want[p]), Got(p, b, r)
    PROVE  StoreStep
<1>0. TypeOK /\ HoldsOK /\ SectorsOK
  BY DEF IInv
<1>1. PICK s \in Sector : s = want[p]
  OBVIOUS
<1>2. /\ buf'[b] = r /\ \A c \in Buf \ {b} : buf'[c] = buf[c]
      /\ r.sector = s /\ r.busy /\ ~r.dirty /\ UNCHANGED disk
      /\ \A c \in Buf : buf[c].sector = s => ~buf[c].busy
  <2>1. buf' = [buf EXCEPT ![b] = r] /\ UNCHANGED disk
    BY DEF Got
  <2>2. buf'[b] = r /\ \A c \in Buf \ {b} : buf'[c] = buf[c]
    BY <1>0, <2>1 DEF TypeOK
  <2>3. \A c \in Buf : buf[c].sector = s => ~buf[c].busy
    BY <1>0, <1>1, BlockAssumption DEF SectorsOK, OneBufferPerSector, Fits
  <2>4. QED
    BY <1>1, <2>1, <2>2, <2>3 DEF Fits
<1>3. Has(p, b)' /\ \A q \in Process, c \in Buf \ {b} : Has(q, c)' <=> Has(q, c)
  <2>1. holds[p] \in Seq(Buf) /\ holds'[p] = Append(holds[p], b)
        /\ \A q \in Process \ {p} : holds'[q] = holds[q]
    BY <1>0 DEF TypeOK, Got
  <2>2. /\ Len(holds'[p]) = Len(holds[p]) + 1 /\ Len(holds[p]) \in Nat
        /\ holds'[p][Len(holds[p]) + 1] = b
        /\ \A i \in 1 .. Len(holds[p]) : holds'[p][i] = holds[p][i]
    BY <2>1, AppendFacts
  <2>3. /\ Len(holds[p]) + 1 \in 1 .. Len(holds'[p])
        /\ \A i \in 1 .. Len(holds'[p]) : i \in 1 .. Len(holds[p]) \/ i = Len(holds[p]) + 1
        /\ \A i \in 1 .. Len(holds[p]) : i \in 1 .. Len(holds'[p])
    BY <2>2
  <2>4. Has(p, b)'
    BY <2>2, <2>3 DEF Has
  <2>5. \A c \in Buf \ {b} : Has(p, c)' <=> Has(p, c)
    BY <2>2, <2>3 DEF Has
  <2>6. \A q \in Process \ {p}, c \in Buf \ {b} : Has(q, c)' <=> Has(q, c)
    BY <2>1 DEF Has
  <2>7. QED
    BY <2>4, <2>5, <2>6
<1>4. \A t \in Sector \ {s} : UserOf(t)' = UserOf(t) /\ SeenOf(t)' = SeenOf(t) /\ WritingOf(t)' = WritingOf(t)
  <2> SUFFICES ASSUME NEW t \in Sector \ {s}
               PROVE  UserOf(t)' = UserOf(t) /\ SeenOf(t)' = SeenOf(t) /\ WritingOf(t)' = WritingOf(t)
    OBVIOUS
  <2>1. \A c \in Buf \ {b} : Transferred(c)' <=> Transferred(c)
    BY <1>2 DEF Transferred
  <2>2. QED
    BY <1>2, <1>3, <2>1, SameView
<1>5. UserOf(s) = None /\ SeenOf(s) = None /\ WritingOf(s) = None
  BY <1>2, Views DEF ViewOK
<1>6. UserOf(s)' = p /\ WritingOf(s)' = None
      /\ SeenOf(s)' = IF r.valid THEN disk[s] ELSE None
  <2>1. Transferred(b)' <=> r.valid
    BY <1>2 DEF Transferred, Buffer
  <2>2. r.valid => r.data = disk[s]
    BY <1>2, <2>1 DEF IInv, CacheOK
  <2>3. QED
    BY <1>2, <1>3, <2>1, <2>2, ViewsAfter DEF ViewOK
<1>7. PICK n : n = SeenOf(s)'
  OBVIOUS
<1>8. /\ [t \in Sector |-> UserOf(t)]' = [[t \in Sector |-> UserOf(t)] EXCEPT ![s] = p]
      /\ [t \in Sector |-> SeenOf(t)]' = [[t \in Sector |-> SeenOf(t)] EXCEPT ![s] = n]
      /\ UNCHANGED [t \in Sector |-> WritingOf(t)]
      /\ n = None => UNCHANGED [t \in Sector |-> SeenOf(t)]
  BY <1>4, <1>5, <1>6, <1>7, Updated
<1>9. Store!Take(p, s) \/ Store!TakeAndShow(p, s)
  <2>1. CASE r.valid
    BY <1>2, <1>5, <1>6, <1>7, <1>8, <2>1 DEF Store!TakeAndShow
  <2>2. CASE ~r.valid
    BY <1>2, <1>5, <1>6, <1>7, <1>8, <2>2 DEF Store!Take
  <2>3. QED
    BY <2>1, <2>2
<1>10. QED
  BY <1>9 DEF StoreStep, Store!Next

LEMMA BwriteStores ==
    ASSUME IInv, IInv', NEW p \in Process, NEW d \in Data, Bwrite(p, d)
    PROVE  StoreStep
<1>0. TypeOK /\ HoldsOK /\ SectorsOK /\ FlagsOK
  BY DEF IInv
<1>1. PICK b : b = InUse(p)
  OBVIOUS
<1>2. /\ pc[p] = "run" /\ UNCHANGED <<holds, disk>>
      /\ b \in Buf /\ Has(p, b) /\ buf[b].busy /\ buf[b].sector \in Sector /\ buf[b] \in Buffer
      /\ buf' = [buf EXCEPT ![b] = [buf[b] EXCEPT !.data = d, !.dirty = TRUE]]
  BY <1>1, Facts DEF Bwrite, Iderw
<1>3. PICK s \in Sector : s = buf[b].sector
  BY <1>2
<1>4. /\ buf'[b].sector = s /\ buf'[b].dirty /\ buf'[b].data = d
      /\ \A c \in Buf \ {b} : buf'[c] = buf[c]
  BY <1>0, <1>2, <1>3 DEF TypeOK, Buffer
<1>5. \A q \in Process, c \in Buf : Has(q, c)' <=> Has(q, c)
  BY <1>2 DEF Has
<1>6. \A t \in Sector \ {s} : UserOf(t)' = UserOf(t) /\ SeenOf(t)' = SeenOf(t) /\ WritingOf(t)' = WritingOf(t)
  <2> SUFFICES ASSUME NEW t \in Sector \ {s}
               PROVE  UserOf(t)' = UserOf(t) /\ SeenOf(t)' = SeenOf(t) /\ WritingOf(t)' = WritingOf(t)
    OBVIOUS
  <2>1. \A c \in Buf \ {b} : Transferred(c)' <=> Transferred(c)
    BY <1>4 DEF Transferred
  <2>2. QED
    BY <1>3, <1>4, <1>5, <2>1, SameView
<1>7. Transferred(b)
  BY <1>0, <1>2, BlockAssumption DEF FlagsOK, HoldsOK, InDriver
<1>8. UserOf(s) = p /\ SeenOf(s) # None /\ UserOf(s) # None
  BY <1>2, <1>3, <1>7, Views, BlockAssumption DEF ViewOK, Buffer
<1>9. UserOf(s)' = p /\ SeenOf(s)' = None /\ WritingOf(s)' = d
  BY <1>2, <1>4, <1>5, ViewsAfter DEF ViewOK, Transferred
<1>10. /\ UNCHANGED [t \in Sector |-> UserOf(t)]
       /\ [t \in Sector |-> SeenOf(t)]' = [[t \in Sector |-> SeenOf(t)] EXCEPT ![s] = None]
       /\ [t \in Sector |-> WritingOf(t)]' = [[t \in Sector |-> WritingOf(t)] EXCEPT ![s] = d]
  BY <1>6, <1>8, <1>9, Updated
<1>11. Store!BeginWrite(s, d)
  BY <1>2, <1>8, <1>10 DEF Store!BeginWrite
<1>12. QED
  BY <1>11 DEF StoreStep, Store!Next

LEMMA BrelseStores ==
    ASSUME IInv, IInv', NEW p \in Process, Brelse(p)
    PROVE  StoreStep
<1>0. TypeOK /\ HoldsOK /\ SectorsOK /\ FlagsOK
  BY DEF IInv
<1>1. PICK b : b = InUse(p)
  OBVIOUS
<1>2. /\ pc[p] = "run" /\ UNCHANGED disk
      /\ b \in Buf /\ Has(p, b) /\ buf[b].busy /\ buf[b].sector \in Sector /\ buf[b] \in Buffer
      /\ buf' = [buf EXCEPT ![b].busy = FALSE]
      /\ holds' = [holds EXCEPT ![p] = Front(@)]
      /\ \A i \in 1 .. Len(holds[p]) - 1 : Front(holds[p])[i] = holds[p][i]
      /\ Len(Front(holds[p])) = Len(holds[p]) - 1 /\ Len(holds[p]) \in Nat \ {0} /\ b = holds[p][Len(holds[p])]
  BY <1>0, <1>1, Facts, UseFacts DEF Brelse
<1>3. PICK s \in Sector : s = buf[b].sector
  BY <1>2
<1>4. /\ buf'[b].sector = s /\ ~buf'[b].busy
      /\ \A c \in Buf \ {b} : buf'[c] = buf[c]
  BY <1>0, <1>2, <1>3 DEF TypeOK, Buffer
<1>5. \A q \in Process, c \in Buf \ {b} : Has(q, c)' <=> Has(q, c)
  <2>1. holds'[p] = Front(holds[p]) /\ \A q \in Process \ {p} : holds'[q] = holds[q]
    BY <1>0, <1>2 DEF TypeOK
  <2>2. /\ \A i \in 1 .. Len(holds'[p]) : i \in 1 .. Len(holds[p]) /\ holds'[p][i] = holds[p][i]
        /\ \A i \in 1 .. Len(holds[p]) : i \in 1 .. Len(holds'[p]) \/ i = Len(holds[p])
    BY <1>2, <2>1
  <2>3. \A c \in Buf \ {b} : Has(p, c)' <=> Has(p, c)
    BY <1>2, <2>2 DEF Has
  <2>4. \A q \in Process \ {p}, c \in Buf \ {b} : Has(q, c)' <=> Has(q, c)
    BY <2>1 DEF Has
  <2>5. QED
    BY <2>3, <2>4
<1>6. \A t \in Sector \ {s} : UserOf(t)' = UserOf(t) /\ SeenOf(t)' = SeenOf(t) /\ WritingOf(t)' = WritingOf(t)
  <2> SUFFICES ASSUME NEW t \in Sector \ {s}
               PROVE  UserOf(t)' = UserOf(t) /\ SeenOf(t)' = SeenOf(t) /\ WritingOf(t)' = WritingOf(t)
    OBVIOUS
  <2>1. \A c \in Buf \ {b} : Transferred(c)' <=> Transferred(c)
    BY <1>4 DEF Transferred
  <2>2. QED
    BY <1>3, <1>4, <1>5, <2>1, SameView
<1>7. Transferred(b)
  BY <1>0, <1>2, BlockAssumption DEF FlagsOK, HoldsOK, InDriver
<1>8. UserOf(s) = p /\ SeenOf(s) # None /\ UserOf(s) # None /\ WritingOf(s) = None
  BY <1>2, <1>3, <1>7, Views, BlockAssumption DEF ViewOK, Buffer, Transferred
<1>9. UserOf(s)' = None /\ SeenOf(s)' = None /\ WritingOf(s)' = None
  <2>1. \A c \in Buf : buf'[c].sector = s => ~buf'[c].busy
    <3>1. s # None
      BY BlockAssumption
    <3>2. \A c \in Buf : buf[c].sector = s => c = b
      BY <1>0, <1>2, <1>3, <3>1 DEF SectorsOK, OneBufferPerSector
    <3>3. QED
      BY <1>4, <3>2
  <2>2. QED
    BY <2>1, ViewsAfter DEF ViewOK
<1>10. /\ [t \in Sector |-> UserOf(t)]' = [[t \in Sector |-> UserOf(t)] EXCEPT ![s] = None]
       /\ [t \in Sector |-> SeenOf(t)]' = [[t \in Sector |-> SeenOf(t)] EXCEPT ![s] = None]
       /\ UNCHANGED [t \in Sector |-> WritingOf(t)]
  BY <1>6, <1>8, <1>9, Updated
<1>11. Store!Give(s)
  BY <1>2, <1>8, <1>10 DEF Store!Give
<1>12. QED
  BY <1>11 DEF StoreStep, Store!Next

LEMMA DriveStores ==
    ASSUME IInv, IInv', DriveWorks
    PROVE  StoreStep
<1>1. /\ UNCHANGED <<buf, holds>> /\ drive # None
      /\ disk' = IF drive.write = None THEN disk ELSE [disk EXCEPT ![drive.sector] = drive.write]
  BY DEF DriveWorks, cache, process
<1>2. CASE drive.write = None
  BY <1>1, <1>2, LightStores
<1>3. CASE drive.write # None
  <2>1. PICK b \in Buf, s \in Sector, d \in Data :
          /\ b = Head(idequeue) /\ s = drive.sector /\ d = drive.write
          /\ buf[b].sector = s /\ buf[b].dirty /\ buf[b].data = d
    BY <1>1, <1>3, AtTheDrive
  <2>2. PICK p \in Process : Has(p, b)
    BY <1>1, <2>1, AtTheDrive, Facts DEF IInv, HoldsOK
  <2>3. WritingOf(s) = d
    BY <2>1, <2>2, Views DEF ViewOK
  <2>4. /\ \A q \in Process, c \in Buf : Has(q, c)' <=> Has(q, c)
        /\ \A c \in Buf : Transferred(c)' <=> Transferred(c)
    BY <1>1 DEF Has, Transferred
  <2>5. \A t \in Sector : UserOf(t)' = UserOf(t) /\ SeenOf(t)' = SeenOf(t) /\ WritingOf(t)' = WritingOf(t)
    <3> SUFFICES ASSUME NEW t \in Sector
                 PROVE  UserOf(t)' = UserOf(t) /\ SeenOf(t)' = SeenOf(t) /\ WritingOf(t)' = WritingOf(t)
      OBVIOUS
    <3>1. QED
      BY <1>1, <2>4, SameView
  <2>6. Store!Write(s)
    BY <1>1, <1>3, <2>1, <2>3, <2>5, Stutters DEF Store!Write
  <2>7. QED
    BY <2>6 DEF StoreStep, Store!Next
<1>4. QED
  BY <1>2, <1>3

LEMMA IdeintrStores ==
    ASSUME IInv, IInv', Ideintr
    PROVE  StoreStep
<1>0. TypeOK /\ SectorsOK
  BY DEF IInv
<1>1. drive # None /\ drive.done /\ UNCHANGED <<disk, holds>>
  BY DEF Ideintr
<1>2. PICK b \in Buf, s \in Sector :
        /\ b = Head(idequeue) /\ s = drive.sector /\ buf[b].sector = s /\ ~Transferred(b)
        /\ buf[b].dirty => disk[s] = buf[b].data
        /\ buf[b].data # None
  BY <1>1, AtTheDrive
<1>3. PICK p \in Process : Has(p, b)
  BY <1>1, <1>2, AtTheDrive, Facts DEF IInv, HoldsOK
<1>4. /\ buf'[b].sector = s /\ buf'[b].valid /\ ~buf'[b].dirty
      /\ \A c \in Buf \ {b} : buf'[c] = buf[c]
      /\ \A q \in Process, c \in Buf : Has(q, c)' <=> Has(q, c)
  <2>1. buf' = [buf EXCEPT ![b].valid = TRUE, ![b].dirty = FALSE,
                           ![b].data = IF buf[b].dirty THEN @ ELSE disk[drive.sector]]
    BY <1>2 DEF Ideintr
  <2>2. buf[b] \in Buffer
    BY <1>0 DEF TypeOK
  <2>3. QED
    BY <1>0, <1>1, <1>2, <2>1, <2>2 DEF TypeOK, Has, Buffer
<1>5. Transferred(b)' /\ \A c \in Buf \ {b} : Transferred(c)' <=> Transferred(c)
  BY <1>4 DEF Transferred
<1>6. \A t \in Sector \ {s} : UserOf(t)' = UserOf(t) /\ SeenOf(t)' = SeenOf(t) /\ WritingOf(t)' = WritingOf(t)
  <2> SUFFICES ASSUME NEW t \in Sector \ {s}
               PROVE  UserOf(t)' = UserOf(t) /\ SeenOf(t)' = SeenOf(t) /\ WritingOf(t)' = WritingOf(t)
    OBVIOUS
  <2>1. QED
    BY <1>2, <1>4, <1>5, SameView
<1>7. UserOf(s) = p /\ SeenOf(s) = None /\ WritingOf(s) \in {None, disk[s]} /\ UserOf(s) # None
  BY <1>2, <1>3, Views, BlockAssumption DEF ViewOK
<1>8. UserOf(s)' = p /\ SeenOf(s)' = disk[s] /\ WritingOf(s)' = None
  <2>1. buf'[b].data = disk[s]
    BY <1>1, <1>4, <1>5 DEF IInv, CacheOK
  <2>2. QED
    BY <1>3, <1>4, <1>5, <2>1, ViewsAfter DEF ViewOK
<1>9. PICK n : n = disk[s]
  OBVIOUS
<1>10. /\ UNCHANGED [t \in Sector |-> UserOf(t)]
       /\ [t \in Sector |-> SeenOf(t)]' = [[t \in Sector |-> SeenOf(t)] EXCEPT ![s] = n]
       /\ [t \in Sector |-> WritingOf(t)]' = [[t \in Sector |-> WritingOf(t)] EXCEPT ![s] = None]
  BY <1>6, <1>7, <1>8, <1>9, Updated
<1>11. Store!Show(s)
  BY <1>1, <1>7, <1>9, <1>10 DEF Store!Show
<1>12. QED
  BY <1>11 DEF StoreStep, Store!Next

LEMMA NobodyAtFirst ==
    ASSUME IInv, \A b \in Buf : ~buf[b].busy
    PROVE  /\ [t \in Sector |-> UserOf(t)] = [t \in Sector |-> None]
           /\ [t \in Sector |-> SeenOf(t)] = [t \in Sector |-> None]
           /\ [t \in Sector |-> WritingOf(t)] = [t \in Sector |-> None]
<1>1. \A t \in Sector : UserOf(t) = None /\ SeenOf(t) = None /\ WritingOf(t) = None
  BY Views DEF ViewOK
<1>2. QED
  BY <1>1

LEMMA InitStores == Init => Store!Init
<1> SUFFICES ASSUME Init PROVE Store!Init
  OBVIOUS
<1>1. IInv /\ \A b \in Buf : ~buf[b].busy
  BY InitInductive DEF Init, Empty
<1>2. QED
  BY <1>1, NobodyAtFirst DEF Init, Store!Init

LEMMA RebootStores ==
    ASSUME IInv, IInv', Reboot
    PROVE  StoreStep
<1>1. \A b \in Buf : ~buf'[b].busy
  BY DEF Reboot, Empty
<1>2. \A t \in Sector : UserOf(t)' = None /\ SeenOf(t)' = None /\ WritingOf(t)' = None
  BY <1>1, ViewsAfter DEF ViewOK
<1>3. Store!Stop
  BY <1>2 DEF Reboot, Store!Stop
<1>4. QED
  BY <1>3 DEF StoreStep, Store!Next

LEMMA StepStores == IInv /\ IInv' /\ [Next]_vars => StoreStep
<1> SUFFICES ASSUME IInv, IInv', [Next]_vars PROVE StoreStep
  OBVIOUS
<1>1. CASE UNCHANGED vars
  BY <1>1, LightStores DEF vars, cache, process
<1>2. CASE Reboot
  BY <1>2, RebootStores
<1>3. ASSUME NEW p \in Process,
             \/ \E s \in Sector : Bread(p, s)
             \/ BgetSleep(p) \/ BgetPanic(p) \/ BreadValid(p) \/ IderwDone(p) \/ IderwSleep(p) \/ Kick(p)
      PROVE  StoreStep
  <2>1. UNCHANGED <<buf, holds, disk>>
    BY <1>3 DEF Bread, BgetSleep, BgetPanic, BreadValid, IderwDone, IderwSleep, Kick, cache, process
  <2>2. QED
    BY <2>1, LightStores
<1>4. ASSUME NEW p \in Process, BreadMiss(p) PROVE StoreStep
  <2>1. UNCHANGED <<holds, disk>> /\ buf' = [buf EXCEPT ![InUse(p)] = buf[InUse(p)]]
    BY <1>4 DEF BreadMiss, Iderw
  <2>2. UNCHANGED buf
    BY <2>1 DEF IInv, TypeOK
  <2>3. QED
    BY <2>1, <2>2, LightStores
<1>5. ASSUME NEW p \in Process, BgetHit(p) \/ BgetFresh(p) PROVE StoreStep
  <2>1. /\ InBget(p) /\ want[p] \in Sector
        /\ \E b \in Buf, r \in Buffer : ~buf[b].busy /\ Fits(r, b, want[p]) /\ Got(p, b, r)
    BY <1>5, BgetGets
  <2>2. QED
    BY <2>1, GotStores
<1>6. ASSUME NEW p \in Process, \E d \in Data : Bwrite(p, d) PROVE StoreStep
  BY <1>6, BwriteStores
<1>7. ASSUME NEW p \in Process, Brelse(p) PROVE StoreStep
  BY <1>7, BrelseStores
<1>8. CASE DriveWorks
  BY <1>8, DriveStores
<1>9. CASE Ideintr
  BY <1>9, IdeintrStores
<1>10. QED
  BY <1>1, <1>2, <1>3, <1>4, <1>5, <1>6, <1>7, <1>8, <1>9 DEF Next, Bget, Ide

(* Whatever processes share the cache, each sees of a sector what was last *)
(* written to it, has it to itself from bread to brelse, and finds on the  *)
(* disk, however often the machine stops, what bwrite has returned from.   *)
THEOREM StoreRefined == Spec => ImplementsSectorStore
<1>1. Init => Store!Init
  BY InitStores
<1>2. IInv /\ IInv' /\ [Next]_vars => [Store!Next]_(Store!vars)
  BY StepStores DEF StoreStep
<1>3. Spec => []IInv
  BY Invariance
<1>4. QED
  BY <1>1, <1>2, <1>3, PTL DEF Spec, ImplementsSectorStore, Store!Spec
=============================================================================
