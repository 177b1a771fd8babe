--------------------------- MODULE WebServerProofs ---------------------------
(***************************************************************************)
(* Proofs that the web server keeps the invariants of WebServerProps and   *)
(* implements RequestQueue, for every number of workers and connections,   *)
(* every buffer size, policy and bound on spurious wakeups.                *)
(***************************************************************************)
EXTENDS WebServerProps, Integers, SequencesExt, SequenceTheorems, FiniteSetTheorems, TLAPS

(* RemoveAt takes one element out of a sequence and keeps the others in    *)
(* their order.                                                            *)
LEMMA RemoveAtProperties ==
    ASSUME NEW S, NEW s \in Seq(S), NEW i \in 1 .. Len(s)
    PROVE  /\ RemoveAt(s, i) \in Seq(S)
           /\ Len(RemoveAt(s, i)) = Len(s) - 1
           /\ \A j \in 1 .. Len(s) - 1 :
                RemoveAt(s, i)[j] = IF j < i THEN s[j] ELSE s[j + 1]
<1> DEFINE a == SubSeq(s, 1, i - 1)
           b == SubSeq(s, i + 1, Len(s))
<1>1. Len(s) \in Nat /\ i \in Nat /\ 1 <= i /\ i <= Len(s)
  BY LenProperties
<1>2. /\ a \in Seq(S) /\ Len(a) = i - 1
      /\ \A j \in 1 .. i - 1 : a[j] = s[j]
  BY <1>1, SubSeqProperties
<1>3. /\ b \in Seq(S) /\ Len(b) = Len(s) - i
      /\ \A j \in 1 .. Len(s) - i : b[j] = s[i + j]
  BY <1>1, SubSeqProperties
<1> HIDE DEF a, b
<1>4. /\ a \o b \in Seq(S)
      /\ Len(a \o b) = Len(a) + Len(b)
      /\ \A j \in 1 .. Len(a) + Len(b) :
           (a \o b)[j] = IF j <= Len(a) THEN a[j] ELSE b[j - Len(a)]
  BY <1>2, <1>3, ConcatProperties
<1>5. RemoveAt(s, i) = a \o b
  BY DEF RemoveAt, a, b
<1>6. ASSUME NEW j \in 1 .. Len(s) - 1
      PROVE  (a \o b)[j] = IF j < i THEN s[j] ELSE s[j + 1]
  <2>0. j \in 1 .. Len(a) + Len(b) /\ j \in Nat
    BY <1>1, <1>2, <1>3
  <2>1. CASE j < i
    <3>1. j <= Len(a) /\ j \in 1 .. i - 1
      BY <2>0, <2>1, <1>1, <1>2
    <3>2. QED
      BY <3>1, <2>0, <2>1, <1>2, <1>4
  <2>2. CASE ~(j < i)
    <3>1. j - Len(a) \in 1 .. Len(s) - i /\ ~(j <= Len(a))
      BY <2>2, <1>1, <1>2
    <3>2. b[j - Len(a)] = s[i + (j - Len(a))]
      BY <3>1, <1>3
    <3>3. i + (j - Len(a)) = j + 1
      BY <1>1, <1>2, <2>0
    <3>4. QED
      BY <2>0, <3>1, <3>2, <3>3, <1>4, <2>2
  <2>3. QED
    BY <2>1, <2>2
<1>7. Len(a) + Len(b) = Len(s) - 1
  BY <1>1, <1>2, <1>3
<1>8. QED
  BY <1>4, <1>5, <1>6, <1>7

LEMMA SingletonSeq == \A S : \A e \in S : <<e>> \in Seq(S) /\ Len(<<e>>) = 1 /\ <<e>>[1] = e
OBVIOUS

LEMMA AppendToLast ==
    ASSUME NEW S, NEW s \in Seq(S), NEW t \in Seq(S), NEW e \in S
    PROVE  s \o Append(t, e) = Append(s \o t, e)
<1>1. <<e>> \in Seq(S) /\ s \o t \in Seq(S)
  BY SingletonSeq, ConcatProperties
<1>2. QED
  BY <1>1, AppendIsConcat, ConcatAssociative

LEMMA HeadToMiddle ==
    ASSUME NEW S, NEW s \in Seq(S), NEW t \in Seq(S), t # <<>>
    PROVE  (s \o <<Head(t)>>) \o Tail(t) = (s \o <<>>) \o t
<1>1. Head(t) \in S /\ Tail(t) \in Seq(S) /\ <<Head(t)>> \in Seq(S)
  BY SingletonSeq, HeadTailProperties
<1>2. <<Head(t)>> \o Tail(t) = t
  <2> DEFINE h == <<Head(t)>>
             u == Tail(t)
  <2>1. /\ h \in Seq(S) /\ u \in Seq(S) /\ Len(h) = 1 /\ Len(u) = Len(t) - 1
        /\ h[1] = t[1] /\ \A i \in 1 .. Len(u) : u[i] = t[i + 1]
    BY <1>1, HeadTailProperties, SingletonSeq
  <2>2. Len(t) \in Nat \ {0}
    BY EmptySeq
  <2> HIDE DEF h, u
  <2>3. /\ h \o u \in Seq(S) /\ Len(h \o u) = Len(h) + Len(u)
        /\ \A i \in 1 .. Len(h) + Len(u) : (h \o u)[i] = IF i <= Len(h) THEN h[i] ELSE u[i - Len(h)]
    <3>1. h \in Seq(S) /\ u \in Seq(S)
      BY <2>1
    <3>2. QED
      BY <3>1, ConcatProperties, Zenon
  <2>4. Len(h \o u) = Len(t) /\ \A i \in 1 .. Len(h \o u) : (h \o u)[i] = t[i]
    <3>1. Len(h) + Len(u) = Len(t)
      BY <2>1, <2>2
    <3>2. ASSUME NEW i \in 1 .. Len(t) PROVE (h \o u)[i] = t[i]
      <4>1. CASE i = 1
        BY <2>1, <2>2, <2>3, <3>1, <4>1
      <4>2. CASE i # 1
        <5>1. i - 1 \in 1 .. Len(u) /\ ~(i <= Len(h)) /\ i - Len(h) = i - 1 /\ (i - 1) + 1 = i
          BY <2>1, <2>2, <4>2
        <5>2. (h \o u)[i] = u[i - 1]
          BY <2>3, <3>1, <5>1
        <5>3. u[i - 1] = t[(i - 1) + 1]
          BY <2>1, <5>1
        <5>4. QED
          BY <5>1, <5>2, <5>3
      <4>3. QED
        BY <4>1, <4>2
    <3>3. QED
      BY <2>3, <3>1, <3>2
  <2>5. h \o u = t
    BY <2>3, <2>4, SeqEqual
  <2>6. QED
    BY <2>5 DEF h, u
<1>3. QED
  BY <1>1, <1>2, ConcatAssociative, ConcatEmptySeq

LEMMA MiddleToFirst ==
    ASSUME NEW S, NEW s \in Seq(S), NEW t \in Seq(S), NEW e \in S
    PROVE  (Append(s, e) \o <<>>) \o t = (s \o <<e>>) \o t
<1>1. Append(s, e) \in Seq(S) /\ Append(s, e) = s \o <<e>>
  BY AppendProperties, AppendIsConcat
<1>2. QED
  BY <1>1, ConcatEmptySeq

LEMMA RemoveFromFirst ==
    ASSUME NEW S, NEW s \in Seq(S), NEW t \in Seq(S), NEW i \in 1 .. Len(s)
    PROVE  RemoveAt(s, i) \o t = RemoveAt(s \o t, i)
<1> DEFINE r == RemoveAt(s, i)
           st == s \o t
           m1 == Len(s)
           n1 == Len(t)
<1>0. m1 \in Nat /\ n1 \in Nat
  BY LenProperties
<1>1. /\ r \in Seq(S) /\ Len(r) = m1 - 1
      /\ \A j \in 1 .. m1 - 1 : r[j] = IF j < i THEN s[j] ELSE s[j + 1]
  BY RemoveAtProperties
<1>2. /\ st \in Seq(S) /\ Len(st) = m1 + n1
      /\ \A j \in 1 .. m1 + n1 : st[j] = IF j <= m1 THEN s[j] ELSE t[j - m1]
  BY ConcatProperties
<1>3. i \in 1 .. Len(st)
  BY <1>0, <1>2
<1> HIDE DEF st
<1>4. /\ RemoveAt(st, i) \in Seq(S) /\ Len(RemoveAt(st, i)) = m1 + n1 - 1
      /\ \A j \in 1 .. m1 + n1 - 1 : RemoveAt(st, i)[j] = IF j < i THEN st[j] ELSE st[j + 1]
  <2>1. st \in Seq(S)
    BY <1>2
  <2>2. /\ RemoveAt(st, i) \in Seq(S) /\ Len(RemoveAt(st, i)) = Len(st) - 1
        /\ \A j \in 1 .. Len(st) - 1 : RemoveAt(st, i)[j] = IF j < i THEN st[j] ELSE st[j + 1]
    BY <1>3, <2>1, RemoveAtProperties, Zenon
  <2>3. Len(st) - 1 = m1 + n1 - 1
    BY <1>2
  <2>4. QED
    BY <2>2, <2>3
<1>5. /\ r \o t \in Seq(S) /\ Len(r \o t) = Len(r) + n1
      /\ \A j \in 1 .. Len(r) + n1 : (r \o t)[j] = IF j <= Len(r) THEN r[j] ELSE t[j - Len(r)]
  BY <1>1, ConcatProperties DEF st
<1> HIDE DEF r
<1>6. Len(r \o t) = Len(RemoveAt(st, i)) /\ Len(r) + n1 = m1 + n1 - 1
  BY <1>0, <1>1, <1>4, <1>5
<1>7. ASSUME NEW j \in 1 .. m1 + n1 - 1 PROVE (r \o t)[j] = RemoveAt(st, i)[j]
  <2>1. /\ (r \o t)[j] = IF j <= m1 - 1 THEN r[j] ELSE t[j - (m1 - 1)]
        /\ RemoveAt(st, i)[j] = IF j < i THEN st[j] ELSE st[j + 1]
    BY <1>1, <1>4, <1>5, <1>6
  <2>2. i \in 1 .. m1
    OBVIOUS
  <2> HIDE DEF m1, n1
  <2>3. CASE j < i
    <3>1. j \in 1 .. m1 - 1 /\ j \in 1 .. m1 + n1 /\ j <= m1
      BY <1>0, <2>2, <2>3
    <3>2. QED
      BY <1>1, <1>2, <2>1, <2>3, <3>1
  <2>4. CASE ~(j < i) /\ j <= m1 - 1
    <3>1. j \in 1 .. m1 - 1 /\ j + 1 \in 1 .. m1 + n1 /\ j + 1 <= m1
      BY <1>0, <2>2, <2>4
    <3>2. QED
      BY <1>1, <1>2, <2>1, <2>4, <3>1
  <2>5. CASE ~(j <= m1 - 1)
    <3>1. ~(j < i) /\ j + 1 \in 1 .. m1 + n1 /\ ~(j + 1 <= m1) /\ j - (m1 - 1) = (j + 1) - m1
      BY <1>0, <2>2, <2>5
    <3>2. QED
      BY <1>2, <2>1, <2>5, <3>1
  <2>6. QED
    BY <2>3, <2>4, <2>5
<1>8. QED
  BY <1>4, <1>5, <1>6, <1>7, SeqEqual DEF r, st


(* Whatever the policy, do_get takes a slot below tail. *)
LEMMA SelectedInBuffer ==
    ASSUME TypeOK, NEW i \in Selected, ~BufferEmpty
    PROVE  i \in 1 .. Len(connfd)
<1>1. Len(connfd) \in Nat /\ Len(connfd) # 0
  BY EmptySeq, LenProperties DEF TypeOK, BufferEmpty
<1>2. CASE SchedAlg = "FIFO"
  BY <1>1, <1>2 DEF Selected
<1>3. CASE SchedAlg = "SFNF"
  BY <1>1, <1>3 DEF Selected
<1>4. CASE SchedAlg = "SFF"
  BY <1>1, <1>4 DEF Selected
<1>5. QED
  BY <1>2, <1>3, <1>4, ServerAssumption

(* Types, who holds the mutex, and whose locals are set: inductive together. *)
ControlInv == TypeOK /\ MutexHeld /\ LocalsSet

(* Every step of the server preserves them. *)
LEMMA ControlStep == ControlInv /\ [Next]_vars => ControlInv'
<1> SUFFICES ASSUME ControlInv, [Next]_vars PROVE ControlInv'
  OBVIOUS
<1> USE DEF ControlInv, TypeOK, MutexHeld, LocalsSet, Busy, clients, buffer, main, workers, children, ClientState, MainPc, WorkerPc
<1> USE ServerAssumption
<1>1. ASSUME NEW c \in Conn, ClientConnect(c) PROVE ControlInv'
  BY <1>1, AppendProperties DEF ClientConnect
<1>2. ASSUME NEW c \in Conn, ClientSend(c) PROVE ControlInv'
  BY <1>2 DEF ClientSend
<1>3. ASSUME NEW c \in Conn, ClientHangUp(c) PROVE ControlInv'
  BY <1>3 DEF ClientHangUp
<1>4. CASE ChildExit
  BY <1>4 DEF ChildExit
<1>22. ASSUME NEW c \in Conn, ClientAsk(c) PROVE ControlInv'
  BY <1>22 DEF ClientAsk
<1>23. ASSUME NEW w \in Worker, GetCrash(w) PROVE ControlInv'
  BY <1>23 DEF GetCrash
<1>24. ASSUME NEW w \in Worker, Spin(w) PROVE ControlInv'
  BY <1>24 DEF Spin
<1>5. CASE Accept
  BY <1>5, HeadTailProperties DEF Accept
<1>6. CASE MainLock
  BY <1>6 DEF MainLock, Lock
<1>7. CASE MainWait
  BY <1>7 DEF MainWait, Unlock
<1>8. CASE MainRoom
  BY <1>8 DEF MainRoom
<1>9. CASE MainPut
  <2>1. mainFd \in Conn
    BY <1>9 DEF MainPut
  <2>2. PICK s \in ParsedSize(mainFd) : req' = [req EXCEPT ![Len(connfd) + 1] = s]
    BY <1>9 DEF MainPut
  <2>3. s \in Size
    BY <2>2 DEF ParsedSize
  <2>4. /\ pc' \in [Worker -> WorkerPc]
        /\ \A w \in Worker : pc'[w] = "locked" <=> pc[w] = "locked"
        /\ \A w \in Worker : w \in Busy' <=> w \in Busy
    BY <1>9 DEF MainPut, SignalFull, Waiting
  <2>5. TypeOK'
    BY <1>9, <2>1, <2>2, <2>3, <2>4, AppendProperties DEF MainPut, Unlock
  <2>6. QED
    BY <1>9, <2>4, <2>5 DEF MainPut, Unlock
<1>10. CASE MainSpurious
  BY <1>10 DEF MainSpurious
<1>11. ASSUME NEW w \in Worker, WorkerLock(w) PROVE ControlInv'
  BY <1>11 DEF WorkerLock, Lock
<1>12. ASSUME NEW w \in Worker, WorkerWait(w) PROVE ControlInv'
  BY <1>12 DEF WorkerWait, Unlock
<1>13. ASSUME NEW w \in Worker, WorkerGet(w) PROVE ControlInv'
  <2>1. PICK i \in Selected : /\ fd' = [fd EXCEPT ![w] = connfd[i]]
                              /\ connfd' = RemoveAt(connfd, i)
    BY <1>13 DEF WorkerGet
  <2>2. i \in 1 .. Len(connfd)
    BY <1>13, SelectedInBuffer DEF WorkerGet
  <2>3. connfd[i] \in Conn /\ connfd' \in Seq(Conn)
    BY <2>1, <2>2, ElementOfSeq, RemoveAtProperties
  <2>4. QED
    BY <1>13, <2>1, <2>3 DEF WorkerGet, Unlock, SignalEmpty
<1>14. ASSUME NEW w \in Worker, WorkerSpurious(w) PROVE ControlInv'
  BY <1>14 DEF WorkerSpurious
<1>15. ASSUME NEW w \in Worker, ServeStatic(w) PROVE ControlInv'
  BY <1>15 DEF ServeStatic
<1>16. ASSUME NEW w \in Worker, ServeDynamic(w) PROVE ControlInv'
  BY <1>16 DEF ServeDynamic
<1>17. ASSUME NEW w \in Worker, Reap(w) PROVE ControlInv'
  BY <1>17 DEF Reap
<1>18. ASSUME NEW w \in Worker, Die(w) PROVE ControlInv'
  BY <1>18 DEF Die
<1>19. ASSUME NEW w \in Worker, WorkerClose(w) PROVE ControlInv'
  BY <1>19 DEF WorkerClose
<1>20. CASE UNCHANGED vars
  BY <1>20 DEF vars
<1>21. QED
  BY <1>1, <1>2, <1>3, <1>4, <1>5, <1>6, <1>7, <1>8, <1>9, <1>10, <1>11, <1>12,
     <1>13, <1>14, <1>15, <1>16, <1>17, <1>18, <1>19, <1>20, <1>22, <1>23, <1>24
     DEF Next, Client, MainStep, WorkerStep

(* They hold initially. *)
LEMMA ControlInit == Init => ControlInv
  BY ServerAssumption, EmptySeq
     DEF Init, ControlInv, TypeOK, MutexHeld, LocalsSet, Busy, ClientState, MainPc, WorkerPc

(* Every reachable state of the web server has the right types, and its    *)
(* mutex is held by the one thread inside a critical section.              *)
THEOREM ControlCorrect == Spec => [](TypeOK /\ MutexHeld /\ LocalsSet)
<1>1. Init => ControlInv
  BY ControlInit
<1>2. ControlInv /\ [Next]_vars => ControlInv'
  BY ControlStep
<1>3. ControlInv => TypeOK /\ MutexHeld /\ LocalsSet
  BY DEF ControlInv
<1>4. QED
  BY <1>1, <1>2, <1>3, PTL DEF Spec

-----------------------------------------------------------------------------
(* Capacity and signalling. *)

(* Once the master has seen that there is room, there is room until it has *)
(* put its connection: it keeps the mutex while it waits for the request.  *)
RoomKept == mainPc = "parse" => ~BufferFull

BufferInv ==
    /\ ControlInv
    /\ CapacityRespected /\ RoomKept
    /\ NoLostSignalEmpty /\ NoLostSignalFull

(* A set of workers is finite; one more or one fewer counts one. *)
LEMMA WorkersCount ==
    ASSUME NEW S \in SUBSET Worker
    PROVE  /\ IsFiniteSet(S) /\ Cardinality(S) \in Nat
           /\ \A w \in Worker : w \notin S => Cardinality(S \cup {w}) = Cardinality(S) + 1
           /\ \A w \in Worker : w \in S => Cardinality(S \ {w}) = Cardinality(S) - 1
<1>1. IsFiniteSet(S) /\ Cardinality(S) \in Nat
  BY ServerAssumption, FS_Subset, FS_CardinalityType
<1>2. QED
  BY <1>1, FS_AddElement, FS_RemoveElement

(* A step that changes neither the buffer, nor where the master is, nor who*)
(* waits and who is awake, does not disturb capacity and signalling.       *)
LEMMA BufferUndisturbed ==
    ASSUME BufferInv, ControlInv', connfd' = connfd, mainPc' = mainPc,
           Waiting' = Waiting, Awake' = Awake
    PROVE  BufferInv'
  BY DEF BufferInv, CapacityRespected, RoomKept, NoLostSignalEmpty, NoLostSignalFull,
         BufferFull

(* Every step preserves capacity and signalling. *)
LEMMA BufferStep == BufferInv /\ [Next]_vars => BufferInv'
<1> SUFFICES ASSUME BufferInv, [Next]_vars PROVE BufferInv'
  OBVIOUS
<1>0. ControlInv /\ ControlInv'
  BY ControlStep DEF BufferInv
<1>a. TypeOK /\ TypeOK' /\ MutexHeld
  BY <1>0 DEF ControlInv
<1>l. Len(connfd) \in Nat /\ Len(connfd') \in Nat /\ BufferSize \in Nat
  BY <1>a, LenProperties, ServerAssumption DEF TypeOK
<1>c. /\ Cardinality(Awake) \in Nat /\ Cardinality(Awake') \in Nat
      /\ Awake \in SUBSET Worker
  BY WorkersCount DEF Awake
<1> DEFINE Parts == /\ CapacityRespected /\ RoomKept
                    /\ NoLostSignalEmpty /\ NoLostSignalFull
<1> USE DEF CapacityRespected, RoomKept, NoLostSignalEmpty, NoLostSignalFull, BufferFull
<1>1. CASE (\E c \in Conn : Client(c)) \/ ChildExit
  BY <1>0, <1>1, BufferUndisturbed
     DEF Client, ClientConnect, ClientAsk, ClientSend, ClientHangUp, ChildExit,
         buffer, main, workers, Waiting, Awake
<1>2. CASE Accept \/ MainLock \/ MainWait \/ MainRoom \/ MainSpurious
  <2>1. connfd' = connfd /\ Waiting' = Waiting /\ Awake' = Awake
    BY <1>2 DEF Accept, MainLock, MainWait, MainRoom, MainSpurious, buffer, workers,
                Waiting, Awake
  <2>2. QED
    BY <1>0, <1>2, <1>l, <2>1
       DEF BufferInv, Accept, MainLock, MainWait, MainRoom, MainSpurious, BufferFull
<1>3. CASE MainPut
  <2>1. connfd' = Append(connfd, mainFd) /\ mainPc' = "accept" /\ mainPc = "parse"
    BY <1>3 DEF MainPut
  <2>2. Len(connfd') = Len(connfd) + 1
    BY <1>a, <1>0, <2>1, AppendProperties DEF ControlInv, LocalsSet, TypeOK
  <2>3. CASE Waiting = {} /\ pc' = pc
    BY <1>0, <1>l, <2>1, <2>2, <2>3 DEF BufferInv, Waiting
  <2>4. CASE \E w \in Waiting : pc' = [pc EXCEPT ![w] = "lock"]
    <3>1. PICK w \in Waiting : pc' = [pc EXCEPT ![w] = "lock"]
      BY <2>4
    <3>2. w \in Worker /\ w \notin Awake /\ Awake' = Awake \cup {w} /\ Waiting # {}
      BY <1>a, <3>1 DEF Waiting, Awake, TypeOK
    <3>3. Cardinality(Awake') = Cardinality(Awake) + 1
      BY <1>c, <3>2, WorkersCount
    <3>4. QED
      BY <1>0, <1>l, <1>c, <2>1, <2>2, <3>2, <3>3 DEF BufferInv
  <2>5. QED
    BY <1>3, <2>3, <2>4 DEF MainPut, SignalFull
<1>4. ASSUME NEW w \in Worker, WorkerLock(w) PROVE BufferInv'
  <2>1. connfd' = connfd /\ mainPc' = mainPc /\ Waiting' = Waiting /\ Awake' = Awake
    BY <1>4, <1>a DEF WorkerLock, buffer, main, Waiting, Awake, TypeOK
  <2>2. QED
    BY <1>0, <2>1, BufferUndisturbed
<1>5. ASSUME NEW w \in Worker, WorkerWait(w) PROVE BufferInv'
  <2>1. connfd' = connfd /\ mainPc' = mainPc /\ Len(connfd') = 0
    BY <1>5, EmptySeq DEF WorkerWait, BufferEmpty, buffer, main
  <2>2. QED
    BY <1>0, <1>l, <1>c, <2>1 DEF BufferInv
<1>6. ASSUME NEW w \in Worker, WorkerGet(w) PROVE BufferInv'
  <2>1. PICK i \in Selected : connfd' = RemoveAt(connfd, i)
    BY <1>6 DEF WorkerGet
  <2>2. Len(connfd') = Len(connfd) - 1
    BY <1>6, <1>a, <2>1, SelectedInBuffer, RemoveAtProperties DEF WorkerGet, TypeOK
  <2>3. w \in Awake /\ Awake' = Awake \ {w} /\ Waiting' = Waiting
    BY <1>6, <1>a DEF WorkerGet, Awake, Waiting, TypeOK
  <2>4. Cardinality(Awake') = Cardinality(Awake) - 1
    BY <1>c, <2>3, WorkersCount
  <2>5. mainPc' # "waitEmpty" /\ (mainPc' = "parse" => mainPc = "parse")
    BY <1>6 DEF WorkerGet, SignalEmpty
  <2>6. QED
    BY <1>0, <1>l, <1>c, <2>2, <2>3, <2>4, <2>5 DEF BufferInv
<1>7. ASSUME NEW w \in Worker, WorkerSpurious(w) \/ WorkerClose(w) PROVE BufferInv'
  <2>1. /\ connfd' = connfd /\ mainPc' = mainPc
        /\ w \notin Awake /\ Awake' = Awake \cup {w}
        /\ Waiting' \subseteq Waiting
    BY <1>7, <1>a DEF WorkerSpurious, WorkerClose, buffer, main, Awake, Waiting, TypeOK
  <2>2. Cardinality(Awake') = Cardinality(Awake) + 1
    BY <1>c, <2>1, WorkersCount
  <2>3. QED
    BY <1>0, <1>l, <1>c, <2>1, <2>2 DEF BufferInv
<1>8. ASSUME NEW w \in Worker,
             GetCrash(w) \/ Spin(w) \/ ServeStatic(w) \/ ServeDynamic(w) \/ Reap(w) \/ Die(w)
      PROVE  BufferInv'
  <2>1. connfd' = connfd /\ mainPc' = mainPc /\ Waiting' = Waiting /\ Awake' = Awake
    BY <1>8, <1>a DEF GetCrash, Spin, ServeStatic, ServeDynamic, Reap, Die, buffer, main, workers,
                      Waiting, Awake, TypeOK
  <2>2. QED
    BY <1>0, <2>1, BufferUndisturbed
<1>9. CASE UNCHANGED vars
  BY <1>0, <1>9, BufferUndisturbed DEF vars, buffer, main, workers, Waiting, Awake
<1>10. QED
  BY <1>1, <1>2, <1>3, <1>4, <1>5, <1>6, <1>7, <1>8, <1>9 DEF Next, MainStep, WorkerStep

LEMMA BufferInit == Init => BufferInv
<1> SUFFICES ASSUME Init PROVE BufferInv
  OBVIOUS
<1>1. ControlInv
  BY ControlInit
<1>2. Len(connfd) = 0 /\ mainPc = "accept" /\ Waiting = {}
  BY EmptySeq DEF Init, Waiting
<1>3. QED
  BY <1>1, <1>2, ServerAssumption DEF BufferInv, CapacityRespected, RoomKept,
     NoLostSignalEmpty, NoLostSignalFull, BufferFull

(* The master never writes beyond the arrays it allocated. *)
THEOREM CapacityCorrect == Spec => []CapacityRespected
<1>1. BufferInv => CapacityRespected
  BY DEF BufferInv
<1>2. QED
  BY <1>1, BufferInit, BufferStep, PTL DEF Spec

(* No signal on the condition variable full is lost: for each request that *)
(* is queued while a worker sleeps, another is awake.                      *)
THEOREM FullSignalsCorrect == Spec => []NoLostSignalFull
<1>1. BufferInv => NoLostSignalFull
  BY DEF BufferInv
<1>2. QED
  BY <1>1, BufferInit, BufferStep, PTL DEF Spec

(* No signal on the condition variable empty is lost: the master sleeps    *)
(* only while the buffer is full.                                          *)
THEOREM EmptySignalsCorrect == Spec => []NoLostSignalEmpty
<1>1. BufferInv => NoLostSignalEmpty
  BY DEF BufferInv
<1>2. QED
  BY <1>1, BufferInit, BufferStep, PTL DEF Spec

-----------------------------------------------------------------------------
(* The steps of the server as the queue sees them: a request arrives, a    *)
(* worker takes one, a worker is done with its own, or none of these.      *)

Queue  == connfd \o Holding \o backlog
Window == IF SchedAlg = "FIFO" THEN 1 ELSE BufferSize

Arrives(c) ==
    /\ client[c] = "absent"
    /\ client' = [client EXCEPT ![c] = "connected"]
    /\ Queue' = Append(Queue, c)
    /\ UNCHANGED <<pc, fd>>

Takes(w, i) ==
    /\ w \notin Busy
    /\ i \in 1 .. Window /\ i \in 1 .. Len(Queue)
    /\ fd' = [fd EXCEPT ![w] = Queue[i]]
    /\ Queue' = RemoveAt(Queue, i)
    /\ pc' = [pc EXCEPT ![w] = "handle"]
    /\ UNCHANGED client

Finishes(w) ==
    /\ w \in Busy
    /\ client' = [client EXCEPT ![fd[w]] = "absent"]
    /\ fd' = [fd EXCEPT ![w] = None]
    /\ pc' = [pc EXCEPT ![w] = "lock"]
    /\ UNCHANGED Queue

Stays ==
    /\ UNCHANGED <<Queue, fd, Busy>>
    /\ \A c \in Conn : client'[c] = "absent" <=> client[c] = "absent"

LEMMA QueueType ==
    ASSUME ControlInv
    PROVE  /\ connfd \in Seq(Conn) /\ Holding \in Seq(Conn) /\ backlog \in Seq(Conn)
           /\ connfd \o Holding \in Seq(Conn) /\ Holding \o backlog \in Seq(Conn)
           /\ Queue \in Seq(Conn)
           /\ Queue = connfd \o (Holding \o backlog)
<1>1. connfd \in Seq(Conn) /\ backlog \in Seq(Conn) /\ mainFd \in Conn \cup {None}
  BY DEF ControlInv, TypeOK
<1>2. Holding \in Seq(Conn)
  BY <1>1, EmptySeq, SingletonSeq DEF Holding
<1>3. QED
  BY <1>1, <1>2, ConcatProperties, ConcatAssociative DEF Queue

LEMMA MasterMoves ==
    ASSUME BufferInv, Accept \/ MainPut
    PROVE  Stays
<1>0. ControlInv /\ ControlInv /\ TypeOK
  BY DEF BufferInv, ControlInv
<1>1. CASE Accept
  <2>1. Holding = <<>> /\ Holding' = <<Head(backlog)>> /\ backlog' = Tail(backlog) /\ connfd' = connfd
    <3>1. Head(backlog) \in Conn
      BY <1>0, <1>1, HeadTailProperties DEF Accept, TypeOK
    <3>2. mainFd = None /\ None \notin Conn
      BY <1>0, <1>1, ServerAssumption DEF ControlInv, LocalsSet, Accept
    <3>3. QED
      BY <1>1, <3>1, <3>2 DEF Accept, Holding, buffer
  <2>2. Queue' = Queue
    <3>1. connfd \in Seq(Conn) /\ backlog \in Seq(Conn) /\ backlog # <<>>
      BY <1>0, <1>1 DEF Accept, TypeOK
    <3>2. QED
      BY <2>1, <3>1, HeadToMiddle DEF Queue
  <2>3. QED
    BY <1>1, <2>2 DEF Accept, Stays, workers, clients, Busy
<1>2. CASE MainPut
  <2>1. mainFd \in Conn /\ None \notin Conn
    BY <1>0, <1>2, ServerAssumption DEF ControlInv, LocalsSet, MainPut, TypeOK
  <2>2. /\ Holding = <<mainFd>> /\ Holding' = <<>> /\ backlog' = backlog
        /\ connfd' = Append(connfd, mainFd)
    BY <1>2, <2>1 DEF MainPut, Holding
  <2>3. Queue' = Queue
    BY <1>0, <2>1, <2>2, MiddleToFirst DEF Queue, TypeOK
  <2>4. \A w \in Worker : w \in Busy' <=> w \in Busy
    BY <1>0, <1>2 DEF MainPut, SignalFull, Waiting, Busy, TypeOK
  <2>5. Busy' = Busy
    BY <2>4 DEF Busy
  <2>6. QED
    BY <1>2, <2>3, <2>4, <2>5 DEF MainPut, Stays, clients
<1>3. QED
  BY <1>1, <1>2

LEMMA GetMoves ==
    ASSUME BufferInv, NEW w \in Worker, WorkerGet(w)
    PROVE  \E i \in Nat : Takes(w, i)
<1>0. ControlInv /\ TypeOK /\ CapacityRespected
  BY DEF BufferInv, ControlInv
<1>1. PICK i \in Selected : fd' = [fd EXCEPT ![w] = connfd[i]] /\ connfd' = RemoveAt(connfd, i)
  BY DEF WorkerGet
<1>2. i \in 1 .. Len(connfd) /\ i \in Nat /\ i >= 1
  BY <1>0, SelectedInBuffer DEF WorkerGet
<1> DEFINE rest == Holding \o backlog
<1>3. connfd \in Seq(Conn) /\ rest \in Seq(Conn) /\ Queue = connfd \o rest /\ Len(connfd) \in Nat /\ Len(rest) \in Nat
  BY <1>0, QueueType, LenProperties
<1>4. Queue' = connfd' \o rest
  <2>1. Holding' = Holding /\ backlog' = backlog
    BY DEF WorkerGet, Holding
  <2>2. connfd' \in Seq(Conn)
    BY <1>1, <1>2, <1>3, RemoveAtProperties
  <2>3. QED
    BY <1>0, <2>1, <2>2, QueueType, ConcatAssociative DEF Queue
<1> HIDE DEF rest
<1>5. Queue' = RemoveAt(Queue, i)
  BY <1>1, <1>2, <1>3, <1>4, RemoveFromFirst
<1>6. i \in 1 .. Len(Queue) /\ Queue[i] = connfd[i]
  <2>1. /\ Len(connfd \o rest) = Len(connfd) + Len(rest)
        /\ \A j \in 1 .. Len(connfd) + Len(rest) :
             (connfd \o rest)[j] = IF j <= Len(connfd) THEN connfd[j] ELSE rest[j - Len(connfd)]
    BY <1>3, ConcatProperties
  <2>2. i \in 1 .. Len(connfd) + Len(rest) /\ i <= Len(connfd)
    BY <1>2, <1>3
  <2>3. QED
    BY <1>3, <2>1, <2>2
<1>7. i \in 1 .. Window
  <2>1. CASE SchedAlg = "FIFO"
    BY <1>2, <2>1 DEF Selected, Window
  <2>2. CASE SchedAlg # "FIFO"
    BY <1>0, <1>2, <1>3, <2>2, ServerAssumption DEF CapacityRespected, Window
  <2>3. QED
    BY <2>1, <2>2
<1>8. QED
  BY <1>1, <1>2, <1>5, <1>6, <1>7 DEF WorkerGet, Takes, Busy, clients

LEMMA Moves ==
    ASSUME BufferInv, [Next]_vars
    PROVE  \/ \E c \in Conn : Arrives(c)
           \/ \E w \in Worker, i \in Nat : Takes(w, i)
           \/ \E w \in Worker : Finishes(w)
           \/ Stays
<1>0. ControlInv /\ TypeOK
  BY DEF BufferInv, ControlInv
<1> DEFINE Goal == \/ \E c \in Conn : Arrives(c)
                   \/ \E w \in Worker, i \in Nat : Takes(w, i)
                   \/ \E w \in Worker : Finishes(w)
                   \/ Stays
<1> USE DEF clients, buffer, main, workers
<1>1. ASSUME NEW c \in Conn, ClientConnect(c) PROVE Goal
  <2>1. Queue' = Append(Queue, c)
    <3>1. connfd' = connfd /\ Holding' = Holding /\ backlog' = Append(backlog, c)
      BY <1>1 DEF ClientConnect, Holding
    <3>2. connfd \o Holding \in Seq(Conn) /\ backlog \in Seq(Conn)
      BY <1>0, QueueType
    <3>3. QED
      BY <3>1, <3>2, AppendToLast DEF Queue
  <2>2. Arrives(c)
    BY <1>1, <2>1 DEF ClientConnect, Arrives
  <2>3. QED
    BY <2>2
<1>2. CASE \/ \E c \in Conn : ClientAsk(c) \/ ClientSend(c) \/ ClientHangUp(c)
           \/ ChildExit \/ MainLock \/ MainWait \/ MainRoom \/ MainSpurious
           \/ \E w \in Worker : \/ WorkerLock(w) \/ WorkerWait(w) \/ WorkerSpurious(w)
                                \/ GetCrash(w) \/ Spin(w)
                                \/ ServeStatic(w) \/ ServeDynamic(w) \/ Reap(w) \/ Die(w)
  <2>1. Queue' = Queue
    BY <1>2 DEF ClientAsk, ClientSend, ClientHangUp, ChildExit, MainLock, MainWait, MainRoom, MainSpurious,
                WorkerLock, WorkerWait, WorkerSpurious, GetCrash, Spin, ServeStatic, ServeDynamic, Reap, Die, Queue, Holding
  <2>2. CASE \/ \E c \in Conn : ClientAsk(c) \/ ClientSend(c) \/ ClientHangUp(c)
             \/ ChildExit \/ MainLock \/ MainWait \/ MainRoom \/ MainSpurious
    BY <1>0, <2>1, <2>2 DEF ClientAsk, ClientSend, ClientHangUp, ChildExit, MainLock, MainWait, MainRoom, MainSpurious,
                            Stays, Busy, TypeOK, ClientState
  <2>3. ASSUME NEW w \in Worker, WorkerLock(w) \/ WorkerWait(w) \/ WorkerSpurious(w) PROVE Goal
    BY <1>0, <2>1, <2>3 DEF WorkerLock, WorkerWait, WorkerSpurious, Stays, Busy, TypeOK
  <2>4. ASSUME NEW w \in Worker,
               GetCrash(w) \/ Spin(w) \/ ServeStatic(w) \/ ServeDynamic(w) \/ Reap(w) \/ Die(w)
        PROVE  Goal
    <3>1. UNCHANGED <<fd, client>> /\ Busy' = Busy
      BY <1>0, <2>4 DEF GetCrash, Spin, ServeStatic, ServeDynamic, Reap, Die, Busy, TypeOK
    <3>2. QED
      BY <2>1, <3>1 DEF Stays
  <2>5. QED
    BY <1>2, <2>2, <2>3, <2>4
<1>3. CASE Accept \/ MainPut
  BY <1>3, MasterMoves
<1>4. ASSUME NEW w \in Worker, WorkerGet(w) PROVE Goal
  BY <1>4, GetMoves
<1>5. ASSUME NEW w \in Worker, WorkerClose(w) PROVE Goal
  <2>1. Finishes(w)
    BY <1>5 DEF WorkerClose, Finishes, Queue, Holding, Busy
  <2>2. QED
    BY <2>1
<1>6. CASE UNCHANGED vars
  BY <1>6 DEF vars, Stays, Queue, Holding, Busy
<1>7. QED
  BY <1>1, <1>2, <1>3, <1>4, <1>5, <1>6 DEF Next, Client, MainStep, WorkerStep

-----------------------------------------------------------------------------
(* A connection waits at one place of the queue, or one worker has it, and *)
(* its client has not gone away for good.                                  *)
OnePlace ==
    /\ \A i, j \in 1 .. Len(Queue) : Queue[i] = Queue[j] => i = j
    /\ \A i \in 1 .. Len(Queue), w \in Busy : Queue[i] # fd[w]
    /\ \A v, w \in Busy : fd[v] = fd[w] => v = w
    /\ \A i \in 1 .. Len(Queue) : client[Queue[i]] # "absent"
    /\ \A w \in Busy : client[fd[w]] # "absent"

QueueInv == BufferInv /\ OnePlace

(* What the types give for the variables that the moves change.            *)
LEMMA QueueFacts ==
    ASSUME BufferInv
    PROVE  /\ Queue \in Seq(Conn) /\ Len(Queue) \in Nat
           /\ \A i \in 1 .. Len(Queue) : Queue[i] \in Conn
           /\ fd \in [Worker -> Conn \cup {None}] /\ None \notin Conn
           /\ pc \in [Worker -> WorkerPc]
           /\ client \in [Conn -> ClientState]
           /\ \A w \in Busy : w \in Worker /\ fd[w] \in Conn
<1>1. ControlInv /\ TypeOK /\ LocalsSet
  BY DEF BufferInv, ControlInv
<1>2. Queue \in Seq(Conn)
  BY <1>1, QueueType
<1>3. Len(Queue) \in Nat /\ \A i \in 1 .. Len(Queue) : Queue[i] \in Conn
  BY <1>2, LenProperties
<1>4. QED
  BY <1>1, <1>2, <1>3, ServerAssumption DEF TypeOK, LocalsSet, Busy

LEMMA ArriveStep ==
    ASSUME QueueInv, NEW c \in Conn, Arrives(c)
    PROVE  OnePlace'
<1> DEFINE n == Len(Queue)
<1>1. BufferInv
  BY DEF QueueInv
<1>2. Queue \in Seq(Conn) /\ n \in Nat /\ Queue' = Append(Queue, c)
  BY <1>1, QueueFacts DEF Arrives
<1>3. /\ Len(Queue') = n + 1 /\ Queue'[n + 1] = c
      /\ \A i \in 1 .. n : Queue'[i] = Queue[i]
  BY <1>2, AppendProperties
<1>4. Busy' = Busy /\ client[c] = "absent" /\ UNCHANGED <<fd, pc>>
  BY DEF Arrives, Busy
<1>5. client' = [client EXCEPT ![c] = "connected"]
  BY DEF Arrives
<1>6. /\ \A i \in 1 .. n : Queue[i] # c /\ Queue[i] \in Conn
      /\ \A w \in Busy : fd[w] # c
  BY <1>1, <1>4, QueueFacts DEF QueueInv, OnePlace
<1>7. \A i \in 1 .. Len(Queue') : (i \in 1 .. n /\ Queue'[i] = Queue[i]) \/ (i = n + 1 /\ Queue'[i] = c)
  BY <1>2, <1>3
<1>8. \A d \in Conn : client'[d] = "absent" => client[d] = "absent" /\ d # c
  BY <1>1, <1>5, QueueFacts
<1> HIDE DEF n
<1>9. \A i, j \in 1 .. Len(Queue') : Queue'[i] = Queue'[j] => i = j
  BY <1>6, <1>7 DEF QueueInv, OnePlace, n
<1>10. \A i \in 1 .. Len(Queue'), w \in Busy : Queue'[i] # fd[w]
  BY <1>6, <1>7 DEF QueueInv, OnePlace, n
<1>11. \A i \in 1 .. Len(Queue') : client'[Queue'[i]] # "absent"
  BY <1>6, <1>7, <1>8 DEF QueueInv, OnePlace, n
<1>12. \A w \in Busy : client'[fd[w]] # "absent"
  BY <1>1, <1>8, QueueFacts DEF QueueInv, OnePlace
<1>13. QED
  BY <1>4, <1>9, <1>10, <1>11, <1>12 DEF QueueInv, OnePlace

LEMMA TakeStep ==
    ASSUME QueueInv, NEW w \in Worker, NEW i \in Nat, Takes(w, i)
    PROVE  OnePlace'
<1> DEFINE n == Len(Queue)
<1>1. BufferInv
  BY DEF QueueInv
<1>2. Queue \in Seq(Conn) /\ n \in Nat /\ i \in 1 .. n /\ Queue' = RemoveAt(Queue, i) /\ Queue[i] \in Conn
  BY <1>1, QueueFacts DEF Takes
<1>3. /\ Len(Queue') = n - 1
      /\ \A j \in 1 .. n - 1 : Queue'[j] = IF j < i THEN Queue[j] ELSE Queue[j + 1]
  BY <1>2, RemoveAtProperties
<1>4. /\ Busy' = Busy \cup {w} /\ w \notin Busy
      /\ fd'[w] = Queue[i] /\ \A v \in Busy : fd'[v] = fd[v]
      /\ UNCHANGED client
  BY <1>1, QueueFacts DEF Takes, Busy
<1> DEFINE Old(j) == IF j < i THEN j ELSE j + 1
<1>5. /\ \A j \in 1 .. Len(Queue') : Old(j) \in 1 .. n /\ Old(j) # i /\ Queue'[j] = Queue[Old(j)]
      /\ \A j, k \in 1 .. Len(Queue') : Old(j) = Old(k) => j = k
  BY <1>2, <1>3
<1> HIDE DEF n, Old
<1>6. \A j, k \in 1 .. Len(Queue') : Queue'[j] = Queue'[k] => j = k
  BY <1>5 DEF QueueInv, OnePlace, n
<1>7. \A j \in 1 .. Len(Queue'), v \in Busy' : Queue'[j] # fd'[v]
  BY <1>2, <1>4, <1>5 DEF QueueInv, OnePlace, n
<1>8. \A u, v \in Busy' : fd'[u] = fd'[v] => u = v
  BY <1>2, <1>4 DEF QueueInv, OnePlace, n
<1>9. \A j \in 1 .. Len(Queue') : client'[Queue'[j]] # "absent"
  BY <1>4, <1>5 DEF QueueInv, OnePlace, n
<1>10. \A v \in Busy' : client'[fd'[v]] # "absent"
  BY <1>2, <1>4 DEF QueueInv, OnePlace, n
<1>11. QED
  BY <1>6, <1>7, <1>8, <1>9, <1>10 DEF OnePlace

LEMMA FinishStep ==
    ASSUME QueueInv, NEW w \in Worker, Finishes(w)
    PROVE  OnePlace'
<1>1. BufferInv
  BY DEF QueueInv
<1>2. /\ Busy' = Busy \ {w} /\ w \in Busy /\ fd[w] \in Conn
      /\ \A v \in Busy \ {w} : fd'[v] = fd[v]
      /\ UNCHANGED Queue
  BY <1>1, QueueFacts DEF Finishes, Busy
<1>3. \A d \in Conn : client'[d] = "absent" => client[d] = "absent" \/ d = fd[w]
  BY <1>1, <1>2, QueueFacts DEF Finishes
<1>4. \A i \in 1 .. Len(Queue) : Queue[i] \in Conn
  BY <1>1, QueueFacts
<1>5. \A v \in Busy : fd[v] \in Conn
  BY <1>1, QueueFacts
<1>6. QED
  BY <1>2, <1>3, <1>4, <1>5 DEF QueueInv, OnePlace

LEMMA StayStep ==
    ASSUME QueueInv, Stays
    PROVE  OnePlace'
<1>1. BufferInv
  BY DEF QueueInv
<1>2. /\ \A i \in 1 .. Len(Queue) : Queue[i] \in Conn
      /\ \A v \in Busy : v \in Worker /\ fd[v] \in Conn
  BY <1>1, QueueFacts
<1>3. QED
  BY <1>2 DEF QueueInv, OnePlace, Stays

LEMMA QueueInit == Init => Queue = <<>> /\ QueueInv
<1> SUFFICES ASSUME Init PROVE Queue = <<>> /\ QueueInv
  OBVIOUS
<1>1. Holding = <<>> /\ connfd = <<>> /\ backlog = <<>>
  BY DEF Init, Holding
<1>2. Queue = <<>>
  BY <1>1, EmptySeq, ConcatEmptySeq DEF Queue
<1>3. Len(Queue) = 0 /\ Busy = {}
  BY <1>2, EmptySeq DEF Init, Busy
<1>4. OnePlace
  BY <1>3 DEF Init, OnePlace
<1>5. QED
  BY <1>2, <1>4, BufferInit DEF QueueInv

LEMMA QueueStep == QueueInv /\ [Next]_vars => QueueInv'
<1> SUFFICES ASSUME QueueInv, [Next]_vars PROVE QueueInv'
  OBVIOUS
<1>1. BufferInv /\ BufferInv'
  BY BufferStep DEF QueueInv
<1>2. QED
  BY <1>1, Moves, ArriveStep, TakeStep, FinishStep, StayStep DEF QueueInv

-----------------------------------------------------------------------------
(* The refinement.                                                         *)

Serving == {fd[w] : w \in Busy}

(* The instance has its own copies of the operators of the libraries.      *)
LEMMA SameOperators ==
    /\ \A S : Service!Cardinality(S) = Cardinality(S)
    /\ \A s : Service!ToSet(s) = ToSet(s)
    /\ \A s, i : Service!RemoveAt(s, i) = RemoveAt(s, i)
<1>1. \A S : Service!Cardinality(S) = Cardinality(S)
  BY Zenon DEF Service!Cardinality, Cardinality
<1>2. \A s : Service!ToSet(s) = ToSet(s)
  BY Zenon DEF Service!ToSet, ToSet
<1>3. \A s, i : Service!RemoveAt(s, i) = RemoveAt(s, i)
  BY Zenon DEF Service!RemoveAt, RemoveAt
<1>4. QED
  BY <1>1, <1>2, <1>3

(* A worker that is not busy leaves room among those that serve.           *)
LEMMA FewServed ==
    ASSUME BufferInv, NEW w \in Worker, w \notin Busy
    PROVE  Cardinality(Serving) < Cardinality(Worker)
<1> DEFINE f == [v \in Busy |-> fd[v]]
<1>1. IsFiniteSet(Worker) /\ Busy \subseteq Worker
  BY ServerAssumption DEF Busy
<1>2. IsFiniteSet(Busy) /\ Cardinality(Busy) \in Nat
  BY <1>1, FS_Subset, FS_CardinalityType
<1>3. Cardinality(Busy) < Cardinality(Worker)
  <2>1. Busy \subseteq Worker \ {w}
    BY <1>1
  <2>2. IsFiniteSet(Worker \ {w}) /\ Cardinality(Worker \ {w}) = Cardinality(Worker) - 1
    BY <1>1, FS_RemoveElement
  <2>3. Cardinality(Busy) <= Cardinality(Worker) - 1
    BY <2>1, <2>2, FS_Subset
  <2>4. Cardinality(Worker) \in Nat
    BY <1>1, FS_CardinalityType
  <2>5. QED
    BY <1>2, <2>3, <2>4
<1>4. f \in Surjection(Busy, Serving)
  BY DEF Serving, Surjection
<1>5. Cardinality(Serving) <= Cardinality(Busy) /\ IsFiniteSet(Serving)
  BY <1>2, <1>4, FS_Surjection
<1>6. Cardinality(Serving) \in Nat /\ Cardinality(Worker) \in Nat
  BY <1>1, <1>5, FS_CardinalityType
<1>7. QED
  BY <1>2, <1>3, <1>5, <1>6

LEMMA RefinementInit == Init => Service!Init
<1> SUFFICES ASSUME Init PROVE Service!Init
  OBVIOUS
<1>1. Queue = <<>>
  BY QueueInit
<1>2. Serving = {}
  BY DEF Init, Serving, Busy
<1>3. QED
  BY <1>1, <1>2 DEF Service!Init, Queue, Serving

LEMMA RefinementStep == QueueInv /\ [Next]_vars => [Service!Next]_(Service!vars)
<1> SUFFICES ASSUME QueueInv, [Next]_vars PROVE [Service!Next]_(Service!vars)
  OBVIOUS
<1>1. BufferInv
  BY DEF QueueInv
<1>2. ASSUME NEW c \in Conn, Arrives(c) PROVE Service!Arrive(c)
  <2>1. Serving' = Serving /\ Queue' = Append(Queue, c)
    BY <1>2 DEF Arrives, Serving, Busy
  <2>2. c \notin Serving
    BY <1>2 DEF QueueInv, OnePlace, Arrives, Serving
  <2>3. c \notin ToSet(Queue)
    <3>1. DOMAIN Queue = 1 .. Len(Queue)
      BY <1>1, QueueFacts, LenProperties
    <3>2. QED
      BY <1>2, <3>1 DEF QueueInv, OnePlace, Arrives, ToSet
  <2>4. QED
    BY <2>1, <2>2, <2>3, SameOperators DEF Service!Arrive, Queue, Serving
<1>3. ASSUME NEW w \in Worker, NEW i \in Nat, Takes(w, i) PROVE Service!Take(i)
  <2>1. Serving' = Serving \cup {Queue[i]} /\ Queue' = RemoveAt(Queue, i)
    <3>1. /\ Busy' = Busy \cup {w} /\ w \notin Busy
          /\ fd'[w] = Queue[i] /\ \A v \in Busy : fd'[v] = fd[v]
      BY <1>1, <1>3, QueueFacts DEF Takes, Busy
    <3>2. QED
      BY <1>3, <3>1 DEF Takes, Serving
  <2>2. Cardinality(Serving) < Cardinality(Worker)
    BY <1>1, <1>3, FewServed DEF Takes
  <2>3. Queue[i] \notin Serving
    BY <1>3 DEF QueueInv, OnePlace, Takes, Serving
  <2>4. i <= Window /\ i <= Len(Queue)
    BY <1>3 DEF Takes
  <2>5. QED
    BY <2>1, <2>2, <2>3, <2>4, SameOperators DEF Service!Take, Queue, Serving, Window
<1>4. ASSUME NEW w \in Worker, Finishes(w) PROVE \E c \in Conn : Service!Finish(c)
  <2>1. /\ Busy' = Busy \ {w} /\ w \in Busy /\ fd[w] \in Conn /\ Queue' = Queue
        /\ \A v \in Busy \ {w} : fd'[v] = fd[v]
    BY <1>1, <1>4, QueueFacts DEF Finishes, Busy
  <2>2. fd[w] \in Serving /\ Serving' = Serving \ {fd[w]}
    BY <2>1 DEF QueueInv, OnePlace, Serving
  <2>3. PICK c \in Conn : c = fd[w]
    BY <2>1
  <2>4. Service!Finish(c)
    BY <2>1, <2>2, <2>3 DEF Service!Finish, Queue, Serving
  <2>5. QED
    BY <2>4
<1>5. CASE Stays
  <2>1. Queue' = Queue /\ Serving' = Serving
    BY <1>5 DEF Stays, Serving
  <2>2. QED
    BY <2>1 DEF Service!vars, Queue, Serving
<1>6. ASSUME NEW w \in Worker, NEW i \in Nat, Takes(w, i) PROVE i \in 1 .. Window
  BY <1>6 DEF Takes
<1>7. QED
  BY <1>1, <1>2, <1>3, <1>4, <1>5, <1>6, Moves DEF Service!Next, Window

(* The server implements the request queue: it loses, invents and repeats  *)
(* no request, serves at most as many at once as it has workers, and under *)
(* FIFO takes them in the order in which they came.                        *)
THEOREM QueueRefined == Spec => ImplementsRequestQueue
<1>1. Init => QueueInv
  BY QueueInit
<1>2. QED
  BY <1>1, QueueStep, RefinementInit, RefinementStep, PTL DEF Spec, ImplementsRequestQueue, Service!Spec

-----------------------------------------------------------------------------
(* The children that are there are as many as the workers that wait.       *)
Parents == {w \in Worker : pc[w] = "cgi"}

LEMMA ChildStep ==
    ASSUME ControlInv, EveryWaitHasAChild, [Next]_vars
    PROVE  EveryWaitHasAChild'
<1>0. TypeOK /\ Parents \in SUBSET Worker
  BY DEF ControlInv, Parents
<1>1. /\ Cardinality(Parents) = running + zombies
      /\ Cardinality(Parents) \in Nat /\ running \in Nat /\ zombies \in Nat
  BY <1>0, WorkersCount DEF EveryWaitHasAChild, Parents, TypeOK
<1>2. SUFFICES Cardinality(Parents') = running' + zombies'
  BY DEF EveryWaitHasAChild, Parents
<1> DEFINE Goal == Cardinality(Parents') = running' + zombies'
<1>3. ASSUME Parents' = Parents, running' + zombies' = running + zombies PROVE Goal
  BY <1>1, <1>3
<1> USE DEF clients, buffer, main, workers, children
<1>4. CASE (\E c \in Conn : Client(c)) \/ ChildExit
  <2>1. Parents' = Parents /\ running' + zombies' = running + zombies
    BY <1>1, <1>4 DEF Client, ClientConnect, ClientAsk, ClientSend, ClientHangUp, ChildExit, Parents
  <2>2. QED
    BY <1>3, <2>1
<1>5. CASE MainStep
  <2>1. UNCHANGED children
    BY <1>5 DEF MainStep, Accept, MainLock, MainWait, MainRoom, MainPut, MainSpurious
  <2>2. Parents' = Parents
    BY <1>0, <1>5 DEF MainStep, Accept, MainLock, MainWait, MainRoom, MainPut, MainSpurious,
                      SignalFull, Waiting, Parents, TypeOK
  <2>3. QED
    BY <1>3, <2>1, <2>2
<1>6. ASSUME NEW w \in Worker,
             \/ WorkerLock(w) \/ WorkerWait(w) \/ WorkerGet(w) \/ WorkerSpurious(w)
             \/ GetCrash(w) \/ Spin(w) \/ ServeStatic(w) \/ Die(w) \/ WorkerClose(w)
      PROVE  Goal
  <2>1. UNCHANGED children
    BY <1>6 DEF WorkerLock, WorkerWait, WorkerGet, WorkerSpurious, GetCrash, Spin, ServeStatic, Die,
                WorkerClose
  <2>2. Parents' = Parents
    BY <1>0, <1>6 DEF WorkerLock, WorkerWait, WorkerGet, WorkerSpurious, GetCrash, Spin, ServeStatic,
                      Die, WorkerClose, Parents, TypeOK
  <2>3. QED
    BY <1>3, <2>1, <2>2
<1>7. ASSUME NEW w \in Worker, ServeDynamic(w) PROVE Goal
  <2>1. Parents' = Parents \cup {w} /\ w \notin Parents
    BY <1>0, <1>7 DEF ServeDynamic, Parents, TypeOK
  <2>2. running' = running + 1 /\ zombies' = zombies
    BY <1>7 DEF ServeDynamic
  <2>3. Cardinality(Parents') = Cardinality(Parents) + 1
    BY <1>0, <2>1, WorkersCount
  <2>4. QED
    BY <1>1, <2>2, <2>3
<1>8. ASSUME NEW w \in Worker, Reap(w) PROVE Goal
  <2>1. Parents' = Parents \ {w} /\ w \in Parents
    BY <1>0, <1>8 DEF Reap, Parents, TypeOK
  <2>2. running' = running /\ zombies' = zombies - 1
    BY <1>8 DEF Reap
  <2>3. Cardinality(Parents') = Cardinality(Parents) - 1
    BY <1>0, <2>1, WorkersCount
  <2>4. QED
    BY <1>1, <2>2, <2>3
<1>9. CASE UNCHANGED vars
  BY <1>3, <1>9 DEF vars, Parents
<1>10. QED
  BY <1>4, <1>5, <1>6, <1>7, <1>8, <1>9 DEF Next, WorkerStep

(* A worker that waits for a child always has one to wait for, though any  *)
(* of them may collect the one that another has forked.                    *)
THEOREM ChildrenCorrect == Spec => []EveryWaitHasAChild
<1>1. Init => EveryWaitHasAChild
  <2> SUFFICES ASSUME Init PROVE EveryWaitHasAChild
    OBVIOUS
  <2>1. Parents = {} /\ running + zombies = 0
    BY DEF Init, Parents
  <2>2. QED
    BY <2>1, FS_EmptySet DEF EveryWaitHasAChild, Parents
<1>2. ControlInv /\ EveryWaitHasAChild /\ [Next]_vars => ControlInv' /\ EveryWaitHasAChild'
  BY ControlStep, ChildStep
<1>3. Init => ControlInv
  BY ControlInit
<1>4. QED
  BY <1>1, <1>2, <1>3, PTL DEF Spec
=============================================================================
