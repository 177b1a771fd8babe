---------------------------- MODULE InodeProofs -----------------------------
(***************************************************************************)
(* Proofs about the inodes of the kernel, for all finite sets of processes,*)
(* inodes and names, and for any paths.  The count of references of an     *)
(* inode is the number of those who have it: a step of a process changes   *)
(* the count by what it changes of the references of that process, and     *)
(* nobody else's.  What a process has is counted in its directory, its     *)
(* file, its call and the list of routines it has still to run.  What it   *)
(* has locked is told by where it is in its call and by that list, and     *)
(* whatever is locked is referenced by the one who locked it.              *)
(*                                                                         *)
(* The links are counted in the same way: each link of an inode is claimed *)
(* by an entry, a subdirectory or a call, and what is claimed is neither   *)
(* free nor being freed.  A step of a process writes only inodes that it   *)
(* has locked, that it frees or that nobody has.  This part is for paths   *)
(* without "..".                                                           *)
(***************************************************************************)
EXTENDS InodeProps, Integers, SequenceTheorems, FiniteSetTheorems, WellFoundedInduction, TLAPS

(* 1 if x is j, to be summed.                                              *)
Is(x, j) == IF x = j THEN 1 ELSE 0

-----------------------------------------------------------------------------
(* Counting.  What all have is counted process by process.                 *)
All(R) == UNION {{p} \X R[p] : p \in Process}
Rest(R, p) == {h \in All(R) : h[1] # p}

LEMMA AllFinite ==
    ASSUME IsFiniteSet(Process), NEW R, \A p \in Process : IsFiniteSet(R[p])
    PROVE  IsFiniteSet(All(R))
<1> DEFINE rows == {{p} \X R[p] : p \in Process}
           f    == [p \in Process |-> {p} \X R[p]]
<1>1. f \in Surjection(Process, rows)
  BY DEF Surjection
<1> HIDE DEF f
<1>2. IsFiniteSet(rows)
  BY <1>1, FS_Surjection
<1>3. \A row \in rows : IsFiniteSet(row)
  <2>1. ASSUME NEW p \in Process PROVE IsFiniteSet({p} \X R[p])
    <3>1. IsFiniteSet({p}) /\ IsFiniteSet(R[p])
      BY FS_Singleton
    <3>2. QED
      BY <3>1, FS_Product
  <2>2. QED
    BY <2>1
<1> HIDE DEF rows
<1>4. IsFiniteSet(UNION rows)
  BY <1>2, <1>3, FS_UNION
<1>5. QED
  BY <1>4 DEF All, rows

LEMMA AllSplit ==
    ASSUME IsFiniteSet(Process), NEW R, \A q \in Process : IsFiniteSet(R[q]), NEW p \in Process
    PROVE  /\ Cardinality(All(R)) \in Nat /\ Cardinality(Rest(R, p)) \in Nat /\ Cardinality(R[p]) \in Nat
           /\ Cardinality(All(R)) = Cardinality(Rest(R, p)) + Cardinality(R[p])
<1> DEFINE Row == {p} \X R[p]
<1>1. IsFiniteSet(All(R)) /\ IsFiniteSet(Rest(R, p))
  <2>1. IsFiniteSet(All(R))
    BY AllFinite
  <2>2. QED
    BY <2>1, FS_Subset DEF Rest
<1>2. IsFiniteSet(Row) /\ Cardinality(Row) = 1 * Cardinality(R[p])
  <2>1. IsFiniteSet({p}) /\ Cardinality({p}) = 1 /\ IsFiniteSet(R[p])
    BY FS_Singleton
  <2>2. IsFiniteSet(Row) /\ Cardinality(Row) = Cardinality({p}) * Cardinality(R[p])
    BY <2>1, FS_Product
  <2>3. QED
    BY <2>1, <2>2
<1>3. Rest(R, p) \cap Row = {}
  BY DEF Rest
<1>4. All(R) = Rest(R, p) \cup Row
  BY DEF All, Rest
<1> HIDE DEF Row
<1>5. Cardinality(All(R)) = Cardinality(Rest(R, p)) + Cardinality(Row) - Cardinality({})
  <2>1. Cardinality(Rest(R, p) \cup Row) = Cardinality(Rest(R, p)) + Cardinality(Row) - Cardinality(Rest(R, p) \cap Row)
    BY <1>1, <1>2, FS_Union
  <2>2. QED
    BY <1>3, <1>4, <2>1, Zenon
<1>6. Cardinality({}) = 0 /\ Cardinality(All(R)) \in Nat /\ Cardinality(Rest(R, p)) \in Nat /\ Cardinality(R[p]) \in Nat
  BY <1>1, FS_EmptySet, FS_CardinalityType
<1>7. QED
  BY <1>2, <1>5, <1>6

(* When one process has something else, the number of all changes with     *)
(* what this one has.                                                      *)
LEMMA AllMoves ==
    ASSUME IsFiniteSet(Process), NEW R, NEW Q, \A q \in Process : IsFiniteSet(R[q]) /\ IsFiniteSet(Q[q]),
           NEW p \in Process, \A q \in Process \ {p} : R[q] = Q[q]
    PROVE  Cardinality(All(Q)) + Cardinality(R[p]) = Cardinality(All(R)) + Cardinality(Q[p])
<1>1. Rest(R, p) = Rest(Q, p)
  BY DEF Rest, All
<1>2. /\ Cardinality(All(R)) \in Nat /\ Cardinality(Rest(R, p)) \in Nat /\ Cardinality(R[p]) \in Nat
      /\ Cardinality(All(R)) = Cardinality(Rest(R, p)) + Cardinality(R[p])
  BY AllSplit
<1>3. /\ Cardinality(All(Q)) \in Nat /\ Cardinality(Rest(Q, p)) \in Nat /\ Cardinality(Q[p]) \in Nat
      /\ Cardinality(All(Q)) = Cardinality(Rest(Q, p)) + Cardinality(Q[p])
  BY AllSplit
<1>4. QED
  BY <1>1, <1>2, <1>3

-----------------------------------------------------------------------------
(* The routines of a list that hold a reference.                           *)
Routines == {"ilock", "iunlock", "iput", "itrunc", "iputdone"} \X Inum
Puts     == {"iput", "itrunc", "iputdone"}
Gives(x, i) == x[1] \in Puts /\ x[2] = i
Places(s, i) == {k \in DOMAIN s : s[k][1] \in Puts /\ s[k][2] = i}
Times(s, i)  == Cardinality(Places(s, i))

LEMMA PlacesFinite ==
    ASSUME NEW S, NEW s \in Seq(S), NEW i
    PROVE  IsFiniteSet(Places(s, i)) /\ Times(s, i) \in Nat /\ Places(s, i) \in SUBSET (1 .. Len(s))
<1>1. Places(s, i) \in SUBSET (1 .. Len(s)) /\ Len(s) \in Nat
  BY DEF Places
<1>2. IsFiniteSet(1 .. Len(s))
  BY <1>1, FS_Interval
<1>3. IsFiniteSet(Places(s, i))
  BY <1>1, <1>2, FS_Subset
<1>4. QED
  BY <1>1, <1>3, FS_CardinalityType DEF Times

LEMMA TimesEmpty == ASSUME NEW i PROVE Times(<<>>, i) = 0
<1>1. Places(<<>>, i) = {}
  BY DEF Places
<1>2. QED
  BY <1>1, FS_EmptySet DEF Times

LEMMA TimesOne == ASSUME NEW i, NEW x PROVE Times(<<x>>, i) = IF Gives(x, i) THEN 1 ELSE 0
<1>1. Places(<<x>>, i) = IF Gives(x, i) THEN {1} ELSE {}
  BY DEF Places, Gives
<1>2. QED
  BY <1>1, FS_EmptySet, FS_Singleton DEF Times

(* The places in a list are counted part by part.                          *)
LEMMA TimesConcat ==
    ASSUME NEW S, NEW s \in Seq(S), NEW t \in Seq(S), NEW i
    PROVE  Times(s \o t, i) = Times(s, i) + Times(t, i)
<1> DEFINE n == Len(s)
           A == Places(s, i)
           B == Places(t, i)
           C == Places(s \o t, i)
           D == {k \in C : k > n}
           f == [k \in B |-> k + n]
<1>0. n \in Nat /\ Len(t) \in Nat
  OBVIOUS
<1>1. /\ s \o t \in Seq(S) /\ Len(s \o t) = n + Len(t)
      /\ \A k \in 1 .. n + Len(t) : (s \o t)[k] = IF k <= n THEN s[k] ELSE t[k - n]
  BY ConcatProperties
<1>2. /\ IsFiniteSet(A) /\ A \in SUBSET (1 .. n)
      /\ IsFiniteSet(B) /\ B \in SUBSET (1 .. Len(t))
  BY PlacesFinite
<1>3. IsFiniteSet(C) /\ C \in SUBSET (1 .. n + Len(t))
  BY <1>1, PlacesFinite
<1>4. \A k \in 1 .. n : k \in A <=> k \in C
  <2>1. \A k \in 1 .. n : k \in DOMAIN s /\ k \in DOMAIN (s \o t) /\ (s \o t)[k] = s[k]
    BY <1>0, <1>1
  <2>2. QED
    BY <2>1 DEF Places
<1>5. \A k \in 1 .. Len(t) : k \in B <=> k + n \in C
  <2>1. \A k \in 1 .. Len(t) : k \in DOMAIN t /\ k + n \in DOMAIN (s \o t) /\ (s \o t)[k + n] = t[k]
    <3>1. ASSUME NEW k \in 1 .. Len(t) PROVE k \in DOMAIN t /\ k + n \in DOMAIN (s \o t) /\ (s \o t)[k + n] = t[k]
      <4>1. k + n \in 1 .. n + Len(t) /\ ~(k + n <= n) /\ (k + n) - n = k
        BY <1>0
      <4>2. k \in DOMAIN t /\ DOMAIN (s \o t) = 1 .. n + Len(t)
        BY <1>1
      <4> HIDE DEF n
      <4>3. QED
        BY <1>1, <4>1, <4>2
    <3>2. QED
      BY <3>1
  <2>2. QED
    BY <2>1 DEF Places
<1> HIDE DEF A, B, C, n
<1>6. C = A \cup D /\ A \cap D = {} /\ IsFiniteSet(D)
  <2>1. IsFiniteSet(D)
    BY <1>3, FS_Subset
  <2>2. \A k \in A : k \in C /\ k <= n /\ k \notin D
    BY <1>0, <1>2, <1>4
  <2>3. \A k \in C : k \notin D => k \in A
    <3>1. ASSUME NEW k \in C, k \notin D PROVE k \in A
      <4>1. k \in 1 .. n + Len(t) /\ ~(k > n)
        BY <1>3, <3>1
      <4>2. k \in 1 .. n
        BY <1>0, <4>1
      <4>3. QED
        BY <1>4, <4>2
    <3>2. QED
      BY <3>1
  <2>4. D \subseteq C
    OBVIOUS
  <2> HIDE DEF D
  <2>5. QED
    BY <2>1, <2>2, <2>3, <2>4
<1>7. Cardinality(D) = Cardinality(B)
  <2>1. f \in Bijection(B, D)
    <3>1. \A k \in B : k \in 1 .. Len(t) /\ f[k] = k + n /\ k + n \in D
      BY <1>0, <1>2, <1>5
    <3>2. ASSUME NEW d \in D PROVE \E k \in B : f[k] = d
      <4>1. d - n \in 1 .. Len(t) /\ (d - n) + n = d
        BY <1>0, <1>3
      <4>2. d - n \in B
        BY <1>5, <4>1
      <4>3. QED
        BY <4>1, <4>2
    <3>3. \A k, l \in B : f[k] = f[l] => k = l
      BY <1>0, <1>2
    <3>4. DOMAIN f = B /\ f = [k \in DOMAIN f |-> f[k]]
      OBVIOUS
    <3> HIDE DEF f, D
    <3>5. f \in [B -> D]
      BY <3>1, <3>4
    <3>6. QED
      BY <3>2, <3>3, <3>5 DEF Bijection, Injection, Surjection, IsInjective
  <2>2. ExistsBijection(B, D)
    BY <2>1 DEF ExistsBijection
  <2>3. QED
    BY <1>2, <2>2, FS_Bijection
<1>8. Cardinality(A \cup D) = Cardinality(A) + Cardinality(D) - Cardinality(A \cap D)
  BY <1>2, <1>6, FS_Union
<1> HIDE DEF D
<1>9. Cardinality(C) = Cardinality(A) + Cardinality(B)
  <2>1. Cardinality(A \cap D) = 0
    BY <1>6, FS_EmptySet, Zenon
  <2>2. Cardinality(A) \in Nat /\ Cardinality(B) \in Nat
    BY <1>2, FS_CardinalityType
  <2>3. QED
    BY <1>6, <1>7, <1>8, <2>1, <2>2
<1>10. QED
  BY <1>9 DEF Times, A, B, C

(* A list is its head and its tail.                                        *)
LEMMA HeadAndTail ==
    ASSUME NEW S, NEW s \in Seq(S), s # <<>>
    PROVE  Head(s) \in S /\ Tail(s) \in Seq(S) /\ s = <<Head(s)>> \o Tail(s)
<1> DEFINE h == <<Head(s)>>
           t == Tail(s)
<1>1. /\ Head(s) \in S /\ Head(s) = s[1] /\ t \in Seq(S) /\ Len(t) = Len(s) - 1
      /\ \A k \in 1 .. Len(t) : t[k] = s[k + 1]
  BY HeadTailProperties
<1>2. Len(s) \in Nat \ {0}
  BY EmptySeq
<1>3. h \in Seq(S) /\ Len(h) = 1 /\ h[1] = s[1]
  BY <1>1
<1> HIDE DEF h, t
<1>4. /\ h \o t \in Seq(S) /\ Len(h \o t) = Len(h) + Len(t)
      /\ \A k \in 1 .. Len(h) + Len(t) : (h \o t)[k] = IF k <= Len(h) THEN h[k] ELSE t[k - Len(h)]
  <2>1. h \in Seq(S) /\ t \in Seq(S)
    BY <1>1, <1>3
  <2>2. QED
    BY <2>1, ConcatProperties, Zenon
<1>5. Len(h \o t) = Len(s)
  BY <1>1, <1>2, <1>3, <1>4
<1>6. ASSUME NEW k \in 1 .. Len(s) PROVE (h \o t)[k] = s[k]
  <2>1. CASE k = 1
    BY <1>1, <1>2, <1>3, <1>4, <1>5, <2>1
  <2>2. CASE k # 1
    <3>1. k - 1 \in 1 .. Len(t) /\ ~(k <= Len(h)) /\ k - Len(h) = k - 1 /\ (k - 1) + 1 = k
      BY <1>1, <1>2, <1>3, <2>2
    <3>2. (h \o t)[k] = t[k - 1]
      BY <1>4, <1>5, <3>1
    <3>3. QED
      BY <1>1, <3>1, <3>2
  <2>3. QED
    BY <2>1, <2>2
<1>7. h \o t = s
  BY <1>4, <1>5, <1>6, SeqEqual
<1>8. QED
  BY <1>1, <1>7 DEF h, t

-----------------------------------------------------------------------------
(* What one process has of an inode.                                       *)
Given(s, i) == {<<"todo", k>> : k \in Places(s, i)}
RefSet(w, f, c, s, i) ==
    {h \in {<<"cwd", w>>, <<"file", f>>, <<"ip", c.ip>>, <<"dp", c.dp>>} : h[2] = i} \cup Given(s, i)
Has(w, f, c, i) == Is(w, i) + Is(f, i) + Is(c.ip, i) + Is(c.dp, i)

(* The references of a process, before and after a step.                   *)
LEMMA ReferencesIs ==
    ASSUME NEW p, NEW i
    PROVE  /\ References(p, i) = RefSet(cwd[p], file[p], call[p], todo[p], i)
           /\ References(p, i)' = RefSet(cwd'[p], file'[p], call'[p], todo'[p], i)
BY DEF References, RefSet, Ip, Dp, Given, Places, Puts

With(T, x, i, h) == IF x = i THEN T \cup {h} ELSE T

LEMMA OneMore ==
    ASSUME NEW T, IsFiniteSet(T), NEW x, NEW i, NEW h, h \notin T
    PROVE  IsFiniteSet(With(T, x, i, h)) /\ Cardinality(With(T, x, i, h)) = Cardinality(T) + Is(x, i)
<1>1. IsFiniteSet(T \cup {h}) /\ Cardinality(T \cup {h}) = Cardinality(T) + 1 /\ Cardinality(T) \in Nat
  BY FS_AddElement, FS_CardinalityType
<1>2. QED
  BY <1>1 DEF With, Is

(* They are as many as the places that have the inode.                     *)
LEMMA RefSetCount ==
    ASSUME NEW S, NEW s \in Seq(S), NEW w, NEW f, NEW c, NEW i
    PROVE  /\ IsFiniteSet(RefSet(w, f, c, s, i))
           /\ Cardinality(RefSet(w, f, c, s, i)) = Has(w, f, c, i) + Times(s, i)
<1> DEFINE T  == Given(s, i)
           T1 == With(T, w, i, <<"cwd", w>>)
           T2 == With(T1, f, i, <<"file", f>>)
           T3 == With(T2, c.ip, i, <<"ip", c.ip>>)
           T4 == With(T3, c.dp, i, <<"dp", c.dp>>)
           g  == [k \in Places(s, i) |-> <<"todo", k>>]
<1>1. g \in Bijection(Places(s, i), T)
  <2>1. g \in [Places(s, i) -> T] /\ \A k \in Places(s, i) : g[k] = <<"todo", k>>
    BY DEF Given
  <2>2. \A h \in T : \E k \in Places(s, i) : h = <<"todo", k>>
    BY DEF Given
  <2> HIDE DEF g, T
  <2>3. \A k, l \in Places(s, i) : g[k] = g[l] => k = l
    BY <2>1
  <2>4. QED
    BY <2>1, <2>2, <2>3 DEF Bijection, Injection, Surjection, IsInjective
<1> HIDE DEF g
<1>2. IsFiniteSet(T) /\ Cardinality(T) = Times(s, i) /\ Times(s, i) \in Nat
  BY <1>1, PlacesFinite, FS_Bijection DEF ExistsBijection, Times
<1>3. \A h \in T : h[1] = "todo"
  BY DEF Given
<1>4. /\ <<"cwd", w>> \notin T /\ <<"file", f>> \notin T1 /\ <<"ip", c.ip>> \notin T2 /\ <<"dp", c.dp>> \notin T3
      /\ RefSet(w, f, c, s, i) = T4
  <2>1. RefSet(w, f, c, s, i) = T4
    BY DEF RefSet, With
  <2> HIDE DEF T
  <2>2. QED
    BY <1>3, <2>1 DEF With
<1> HIDE DEF T
<1>5. IsFiniteSet(T1) /\ Cardinality(T1) = Cardinality(T) + Is(w, i)
  BY <1>2, <1>4, OneMore
<1> HIDE DEF T1
<1>6. IsFiniteSet(T2) /\ Cardinality(T2) = Cardinality(T1) + Is(f, i)
  BY <1>4, <1>5, OneMore
<1> HIDE DEF T2
<1>7. IsFiniteSet(T3) /\ Cardinality(T3) = Cardinality(T2) + Is(c.ip, i)
  BY <1>4, <1>6, OneMore
<1> HIDE DEF T3
<1>8. IsFiniteSet(T4) /\ Cardinality(T4) = Cardinality(T3) + Is(c.dp, i)
  BY <1>4, <1>7, OneMore
<1> HIDE DEF T4
<1>9. Is(w, i) \in Nat /\ Is(f, i) \in Nat /\ Is(c.ip, i) \in Nat /\ Is(c.dp, i) \in Nat
  BY DEF Is
<1>10. QED
  BY <1>2, <1>4, <1>5, <1>6, <1>7, <1>8, <1>9 DEF Has

-----------------------------------------------------------------------------
(* Types of the state, and what a call has at each point: the part that    *)
(* the counting rests on.                                                  *)
Types  == {"free", "file", "dir"}
Points == {"user", "element", "open", "chdir", "link", "nameiparent", "badlink", "unlink", "unlinkinode",
           "unlinked", "create", "existing", "iget", "created"}

NameLists == Seq(Names)

DInodeSet == [type : Types, nlink : Int, entries : [Names -> Inum \cup {None}]]
CacheSet  == [ref : Int, busy : Process \cup {None}, valid : BOOLEAN, type : Types, nlink : Int]
CallSet   == [op : {"none", "open", "chdir", "create", "unlink", "link"}, names : NameLists, parent : BOOLEAN,
              new : Paths \cup Inum \cup {None}, name : Names \cup {None}, type : Types,
              ip : Inum \cup {None}, dp : Inum \cup {None}]

(* What a call has while it walks, and at the points where it continues.   *)
WalkOK(c) ==
    /\ c.op # "none" /\ c.dp \in Inum
    /\ c.op \in {"open", "chdir"} => ~c.parent
    /\ c.op \in {"create", "unlink"} => c.parent
    /\ c.op = "create" => c.type # "free"
    /\ c.ip # None <=> c.op = "link" /\ c.parent
    /\ c.op = "link" /\ ~c.parent => c.new \in Paths

CallIs(l, c) ==
    /\ l = "user" => c = NoCall
    /\ l = "element" => WalkOK(c) /\ c.names # <<>>
    /\ l \in {"open", "chdir"} => c.op = l /\ c.ip \in Inum /\ c.dp = None
    /\ l = "link" => c.op = "link" /\ c.ip \in Inum
    /\ l = "link" /\ ~c.parent => c.dp = None /\ c.new \in Paths
    /\ l = "link" /\ c.parent => c.dp \in Inum /\ c.name \in Names
    /\ l = "nameiparent" => c.op = "link" /\ c.parent /\ c.ip \in Inum /\ c.dp = None /\ c.new \in Paths
    /\ l = "badlink" => c.op = "link" /\ c.ip \in Inum /\ c.dp = None
    /\ l = "unlinked" => c.op = "unlink" /\ c.ip \in Inum /\ c.dp = None
    /\ l = "existing" => c.op = "create" /\ c.ip \in Inum /\ c.dp = None
    /\ l \in {"create", "unlink"} => c.op = l /\ c.parent /\ c.dp \in Inum /\ c.ip = None /\ c.name \in Names
    /\ l = "unlinkinode" => c.op = "unlink" /\ c.ip \in Inum /\ c.dp \in Inum /\ c.name \in Names
    /\ l = "iget" => c.op = "create" /\ c.new \in Inum /\ c.dp \in Inum /\ c.ip = None /\ c.name \in Names
    /\ l = "created" => c.op = "create" /\ c.ip \in Inum /\ c.dp \in Inum /\ c.name \in Names
    /\ c.op = "create" => c.type # "free"

(* A call that is to open a file has none to begin with.                   *)
Opens(c)       == c.op = "open" \/ (c.op = "create" /\ c.type = "file")
CallFile(c, f) == Opens(c) => f = None

Lists == Seq(Routines)

Inodes ==
    /\ dinode \in [Inum -> DInodeSet] /\ icache \in [Inum -> CacheSet]
    /\ \A i \in Inum : icache[i].ref >= 0
Runs ==
    /\ cwd \in [Process -> Inum] /\ file \in [Process -> Inum \cup {None}]
    /\ pc \in [Process -> Points] /\ todo \in [Process -> Lists] /\ call \in [Process -> CallSet]
    /\ \A p \in Process : CallIs(pc[p], call[p]) /\ CallFile(call[p], file[p])

(* The inductive invariant.                                                *)
RInv == Inodes /\ Runs /\ RefsAreHolders

-----------------------------------------------------------------------------
(* Lists of routines.                                                      *)

LEMMA RoutineTypes ==
    /\ <<>> \in Lists
    /\ \A i \in Inum : /\ LockIt(i) \in Routines /\ UnlockIt(i) \in Routines /\ PutIt(i) \in Routines
                       /\ <<LockIt(i)>> \in Lists /\ <<UnlockIt(i)>> \in Lists
                       /\ <<PutIt(i)>> \in Lists /\ UnlockPutIt(i) \in Lists
                       /\ <<UnlockIt(i), LockIt(i)>> \in Lists /\ <<LockIt(i), UnlockIt(i)>> \in Lists
BY DEF LockIt, UnlockIt, PutIt, UnlockPutIt, Routines, Lists

LEMMA Joined ==
    ASSUME NEW s \in Lists, NEW t \in Lists
    PROVE  /\ s \o t \in Lists
           /\ \A j : Times(s \o t, j) = Times(s, j) + Times(t, j) /\ Times(s, j) \in Nat /\ Times(t, j) \in Nat
BY ConcatProperties, TimesConcat, PlacesFinite DEF Lists

LEMMA TwoJoined ==
    ASSUME NEW x \in Routines, NEW y \in Routines
    PROVE  \A j : Times(<<x, y>>, j) = Times(<<x>>, j) + Times(<<y>>, j)
<1> DEFINE a == <<x>>
           b == <<y>>
           c == <<x, y>>
<1>1. /\ a \in Seq(Routines) /\ b \in Seq(Routines) /\ c \in Seq(Routines)
      /\ Len(a) = 1 /\ Len(b) = 1 /\ Len(c) = 2 /\ a[1] = x /\ b[1] = y /\ c[1] = x /\ c[2] = y
  OBVIOUS
<1> HIDE DEF a, b, c
<1>2. /\ a \o b \in Seq(Routines) /\ Len(a \o b) = Len(a) + Len(b)
      /\ \A k \in 1 .. Len(a) + Len(b) : (a \o b)[k] = IF k <= Len(a) THEN a[k] ELSE b[k - Len(a)]
  BY <1>1, ConcatProperties
<1>3. a \o b = c
  <2>1. Len(a \o b) = Len(c) /\ \A k \in 1 .. Len(c) : (a \o b)[k] = c[k]
    BY <1>1, <1>2
  <2>2. QED
    BY <1>1, <1>2, <2>1, SeqEqual
<1>4. \A j : Times(a \o b, j) = Times(a, j) + Times(b, j)
  BY <1>1, TimesConcat
<1>5. QED
  BY <1>3, <1>4 DEF a, b, c

LEMMA RoutineTimes ==
    /\ \A j : Times(<<>>, j) = 0
    /\ \A i \in Inum : \A j :
         /\ Times(<<LockIt(i)>>, j) = 0 /\ Times(<<UnlockIt(i)>>, j) = 0
         /\ Times(<<PutIt(i)>>, j) = Is(i, j) /\ Times(UnlockPutIt(i), j) = Is(i, j)
         /\ Times(<<UnlockIt(i), LockIt(i)>>, j) = 0 /\ Times(<<LockIt(i), UnlockIt(i)>>, j) = 0
<1>1. \A j : Times(<<>>, j) = 0
  BY TimesEmpty
<1>2. ASSUME NEW i \in Inum, NEW j
      PROVE  /\ Times(<<LockIt(i)>>, j) = 0 /\ Times(<<UnlockIt(i)>>, j) = 0
             /\ Times(<<PutIt(i)>>, j) = Is(i, j) /\ Times(UnlockPutIt(i), j) = Is(i, j)
             /\ Times(<<UnlockIt(i), LockIt(i)>>, j) = 0 /\ Times(<<LockIt(i), UnlockIt(i)>>, j) = 0
  <2>1. /\ Times(<<LockIt(i)>>, j) = IF Gives(LockIt(i), j) THEN 1 ELSE 0
        /\ Times(<<UnlockIt(i)>>, j) = IF Gives(UnlockIt(i), j) THEN 1 ELSE 0
        /\ Times(<<PutIt(i)>>, j) = IF Gives(PutIt(i), j) THEN 1 ELSE 0
    BY TimesOne
  <2>2. ~Gives(LockIt(i), j) /\ ~Gives(UnlockIt(i), j) /\ (Gives(PutIt(i), j) <=> i = j)
    BY DEF Gives, LockIt, UnlockIt, PutIt, Puts
  <2>3. /\ Times(<<LockIt(i)>>, j) = 0 /\ Times(<<UnlockIt(i)>>, j) = 0
        /\ Times(<<PutIt(i)>>, j) = Is(i, j)
    BY <2>1, <2>2 DEF Is
  <2>4. /\ Times(UnlockPutIt(i), j) = Times(<<UnlockIt(i)>>, j) + Times(<<PutIt(i)>>, j)
        /\ Times(<<UnlockIt(i), LockIt(i)>>, j) = Times(<<UnlockIt(i)>>, j) + Times(<<LockIt(i)>>, j)
        /\ Times(<<LockIt(i), UnlockIt(i)>>, j) = Times(<<LockIt(i)>>, j) + Times(<<UnlockIt(i)>>, j)
    BY RoutineTypes, TwoJoined DEF UnlockPutIt
  <2>5. QED
    BY <2>3, <2>4 DEF Is
<1>3. QED
  BY <1>1, <1>2

-----------------------------------------------------------------------------
(* How a step of p leaves its call: with the references ip and dp, and the *)
(* routines r, or with what comes to the same.                             *)
Continues(p, c, s, l) ==
    /\ call' = [call EXCEPT ![p] = c] /\ todo' = [todo EXCEPT ![p] = s] /\ pc' = [pc EXCEPT ![p] = l]
    /\ CallIs(l, c)

Goes(p, ip, dp, r) ==
    \E c \in CallSet, s \in Lists, l \in Points :
        /\ Continues(p, c, s, l) /\ CallFile(c, file'[p])
        /\ \A j \in Inum : Is(c.ip, j) + Is(c.dp, j) + Times(s, j) = Is(ip, j) + Is(dp, j) + Times(r, j)

Mine(p, j)     == Has(cwd[p], file[p], call[p], j) + Times(todo[p], j)
MineNext(p, j) == Has(cwd'[p], file'[p], call'[p], j) + Times(todo'[p], j)

Weighs(p, w, f, ip, dp, r) ==
    \A j \in Inum : MineNext(p, j) = Is(w, j) + Is(f, j) + Is(ip, j) + Is(dp, j) + Times(r, j)

OthersKept(p) ==
    \A q \in Process \ {p} :
        cwd'[q] = cwd[q] /\ file'[q] = file[q] /\ call'[q] = call[q] /\ todo'[q] = todo[q] /\ pc'[q] = pc[q]

(* A step that goes on like this keeps the types of what is not an inode,  *)
(* and the process has afterwards what the step gave it.                   *)
LEMMA GoesOn ==
    ASSUME Runs, NEW p \in Process, NEW ip, NEW dp, NEW r \in Lists, Goes(p, ip, dp, r),
           NEW w \in Inum, NEW f \in Inum \cup {None},
           cwd' = [cwd EXCEPT ![p] = w], file' = [file EXCEPT ![p] = f]
    PROVE  Runs' /\ OthersKept(p) /\ Weighs(p, w, f, ip, dp, r)
<1>1. PICK c \in CallSet, s \in Lists, l \in Points :
        /\ Continues(p, c, s, l) /\ CallFile(c, file'[p])
        /\ \A j \in Inum : Is(c.ip, j) + Is(c.dp, j) + Times(s, j) = Is(ip, j) + Is(dp, j) + Times(r, j)
  BY DEF Goes
<1>2. /\ call' \in [Process -> CallSet] /\ todo' \in [Process -> Lists] /\ pc' \in [Process -> Points]
      /\ cwd' \in [Process -> Inum] /\ file' \in [Process -> Inum \cup {None}]
  BY <1>1 DEF Runs, Continues
<1>3. call'[p] = c /\ todo'[p] = s /\ pc'[p] = l /\ cwd'[p] = w /\ file'[p] = f
  BY <1>1 DEF Runs, Continues
<1>4. OthersKept(p)
  BY <1>1 DEF Runs, Continues, OthersKept
<1>5. \A q \in Process : CallIs(pc'[q], call'[q]) /\ CallFile(call'[q], file'[q])
  <2>1. CallIs(pc'[p], call'[p]) /\ CallFile(call'[p], file'[p])
    BY <1>1, <1>3 DEF Continues
  <2>2. \A q \in Process \ {p} : CallIs(pc'[q], call'[q]) /\ CallFile(call'[q], file'[q])
    BY <1>4 DEF OthersKept, Runs
  <2>3. QED
    BY <2>1, <2>2
<1>6. Runs'
  BY <1>2, <1>5 DEF Runs
<1>7. ASSUME NEW j \in Inum
      PROVE  MineNext(p, j) = Is(w, j) + Is(f, j) + Is(ip, j) + Is(dp, j) + Times(r, j)
  <2> DEFINE x == Is(c.ip, j)
             y == Is(c.dp, j)
             t == Times(s, j)
             m == MineNext(p, j)
  <2>1. m = Is(w, j) + Is(f, j) + x + y + t
    BY <1>3 DEF MineNext, Has
  <2>2. t \in Nat /\ Times(r, j) \in Nat
    BY PlacesFinite DEF Lists
  <2>3. /\ Is(w, j) \in Nat /\ Is(f, j) \in Nat /\ x \in Nat /\ y \in Nat
        /\ Is(ip, j) \in Nat /\ Is(dp, j) \in Nat
    BY DEF Is
  <2>4. x + y + t = Is(ip, j) + Is(dp, j) + Times(r, j)
    BY <1>1
  <2> HIDE DEF x, y, t, m
  <2>5. QED
    <3>1. m = Is(w, j) + Is(f, j) + Is(ip, j) + Is(dp, j) + Times(r, j)
      BY <2>1, <2>2, <2>3, <2>4
    <3>2. QED
      BY <3>1 DEF m
<1>8. QED
  BY <1>4, <1>6, <1>7 DEF Weighs

LEMMA IsValues == \A x, j : Is(x, j) \in Nat /\ (Is(x, j) = IF x = j THEN 1 ELSE 0)
BY DEF Is

LEMMA NobodyIs == \A j \in Inum : Is(None, j) = 0
BY InodeAssumption DEF Is

(* One more routine at the end of a list.                                  *)
LEMMA OneJoined ==
    ASSUME NEW r \in Lists, NEW i \in Inum
    PROVE  /\ r \o <<LockIt(i)>> \in Lists
           /\ \A j : Times(r \o <<LockIt(i)>>, j) = Times(r, j) + 0
           /\ r \o <<PutIt(i)>> \in Lists
           /\ \A j : Times(r \o <<PutIt(i)>>, j) = Times(r, j) + Is(i, j)
           /\ r \o <<UnlockIt(i)>> \in Lists
           /\ \A j : Times(r \o <<UnlockIt(i)>>, j) = Times(r, j) + 0
           /\ r \o UnlockPutIt(i) \in Lists
           /\ \A j : Times(r \o UnlockPutIt(i), j) = Times(r, j) + Is(i, j)
           /\ \A j : Times(r, j) \in Nat
<1>1. /\ <<LockIt(i)>> \in Lists /\ <<PutIt(i)>> \in Lists /\ <<UnlockIt(i)>> \in Lists /\ UnlockPutIt(i) \in Lists
      /\ <<>> \in Lists
  BY RoutineTypes
<1>2. \A t \in Lists : r \o t \in Lists /\ \A j : Times(r \o t, j) = Times(r, j) + Times(t, j) /\ Times(r, j) \in Nat
  BY Joined
<1>3. \A j : /\ Times(<<LockIt(i)>>, j) = 0 /\ Times(<<UnlockIt(i)>>, j) = 0
             /\ Times(<<PutIt(i)>>, j) = Is(i, j) /\ Times(UnlockPutIt(i), j) = Is(i, j)
  BY RoutineTimes
<1>4. r \o <<LockIt(i)>> \in Lists /\ \A j : Times(r \o <<LockIt(i)>>, j) = Times(r, j) + 0
  BY <1>1, <1>2, <1>3
<1>5. r \o <<PutIt(i)>> \in Lists /\ \A j : Times(r \o <<PutIt(i)>>, j) = Times(r, j) + Is(i, j)
  BY <1>1, <1>2, <1>3
<1>6. r \o <<UnlockIt(i)>> \in Lists /\ \A j : Times(r \o <<UnlockIt(i)>>, j) = Times(r, j) + 0
  BY <1>1, <1>2, <1>3
<1>7. r \o UnlockPutIt(i) \in Lists /\ \A j : Times(r \o UnlockPutIt(i), j) = Times(r, j) + Is(i, j)
  BY <1>1, <1>2, <1>3
<1>8. \A j : Times(r, j) \in Nat
  BY <1>1, <1>2
<1>9. QED
  BY <1>4, <1>5, <1>6, <1>7, <1>8, Zenon

LEMMA NoCallType == NoCall \in CallSet /\ CallIs("user", NoCall) /\ NoCall.ip = None /\ NoCall.dp = None
                     /\ \A f : CallFile(NoCall, f)
<1>1. <<>> \in NameLists
  BY DEF NameLists
<1>2. QED
  BY <1>1 DEF NoCall, CallSet, CallIs, Types, CallFile, Opens

LEMMA CallTypes ==
    ASSUME Runs, NEW p \in Process
    PROVE  /\ call[p] \in CallSet /\ Ip(p) \in Inum \cup {None} /\ Dp(p) \in Inum \cup {None}
           /\ cwd[p] \in Inum /\ file[p] \in Inum \cup {None}
           /\ CallIs(pc[p], call[p]) /\ CallFile(call[p], file[p])
           /\ Ip(p) = call[p].ip /\ Dp(p) = call[p].dp /\ call[p].names \in NameLists
BY DEF Runs, CallSet, Ip, Dp

LEMMA ReturnGoes ==
    ASSUME NEW p \in Process, NEW r \in Lists, Return(p, r)
    PROVE  Goes(p, None, None, r)
<1>1. Continues(p, NoCall, r, "user")
  BY NoCallType DEF Return, Then, Continues
<1>2. QED
  BY <1>1, NoCallType DEF Goes, Points

(* With another call.                                                      *)
LEMMA ThenGoes ==
    ASSUME NEW p \in Process, NEW r \in Lists, NEW l \in Points, Then(p, r, l),
           NEW c \in CallSet, call' = [call EXCEPT ![p] = c], CallIs(l, c), CallFile(c, file'[p])
    PROVE  Goes(p, c.ip, c.dp, r)
<1>1. Continues(p, c, r, l)
  BY DEF Then, Continues
<1>2. QED
  BY <1>1 DEF Goes

(* A call that fails keeps ip, which is there only for link to take its    *)
(* link back.                                                              *)
LEMMA FailGoes ==
    ASSUME Runs, NEW p \in Process, NEW r \in Lists, Fail(p, r), Ip(p) # None => call[p].op = "link"
    PROVE  Goes(p, Ip(p), None, r)
<1>1. CASE call[p].op = "link" /\ Ip(p) # None
  <2> DEFINE c == [NoCall EXCEPT !.op = "link", !.ip = Ip(p)]
             s == r \o <<LockIt(Ip(p))>>
  <2>1. Ip(p) \in Inum
    BY <1>1, CallTypes
  <2>2. c \in CallSet /\ CallIs("badlink", c) /\ c.ip = Ip(p) /\ c.dp = None /\ CallFile(c, file'[p])
    BY <2>1, NoCallType DEF CallIs, NoCall, CallSet, CallFile, Opens
  <2>3. <<LockIt(Ip(p))>> \in Lists
    BY <2>1, RoutineTypes
  <2>4. s \in Lists /\ \A j : Times(s, j) = Times(r, j) + 0 /\ Times(r, j) \in Nat
    BY <2>1, OneJoined, Zenon
  <2>5. Continues(p, c, s, "badlink")
    BY <1>1, <2>2 DEF Fail, Then, Continues
  <2> HIDE DEF c, s
  <2>6. QED
    BY <2>2, <2>4, <2>5 DEF Goes, Points
<1>2. CASE ~(call[p].op = "link" /\ Ip(p) # None)
  <2>1. Ip(p) = None /\ Return(p, r)
    BY <1>2 DEF Fail
  <2>2. QED
    BY <2>1, ReturnGoes
<1>3. QED
  BY <1>1, <1>2

(* The walk goes on with what it has, or fails.                            *)
LEMMA NameXGoes ==
    ASSUME Runs, NEW p \in Process, NEW c \in CallSet, WalkOK(c), NEW r \in Lists, NameX(p, c, r),
           c.ip = Ip(p), c.ip # None => call[p].op = "link", CallFile(c, file'[p])
    PROVE  Goes(p, c.ip, c.dp, r)
<1> DEFINE s == r \o <<LockIt(c.dp)>>
<1>0. c.dp \in Inum
  BY DEF WalkOK
<1>1. s \in Lists /\ \A j : Times(s, j) = Times(r, j) + 0 /\ Times(r, j) \in Nat
  BY <1>0, OneJoined, Zenon
<1> HIDE DEF s
<1>2. CASE c.names # <<>> /\ call' = [call EXCEPT ![p] = c] /\ Then(p, s, "element")
  <2>1. Continues(p, c, s, "element")
    BY <1>2 DEF Continues, Then, CallIs, WalkOK
  <2>2. QED
    BY <1>1, <2>1 DEF Goes, Points
<1>3. CASE /\ ~c.parent
           /\ call' = [call EXCEPT ![p] = [c EXCEPT !.ip = c.dp, !.dp = None]]
           /\ Then(p, s, c.op)
  <2> DEFINE d == [c EXCEPT !.ip = c.dp, !.dp = None]
  <2>1. /\ d \in CallSet /\ CallIs(c.op, d) /\ c.op \in Points /\ c.ip = None /\ d.ip = c.dp /\ d.dp = None
        /\ CallFile(d, file'[p])
    <3>1. d \in CallSet /\ d.ip = c.dp /\ d.dp = None /\ d.op = c.op /\ d.parent = c.parent /\ d.new = c.new
          /\ d.type = c.type
      BY <1>0 DEF CallSet
    <3>2. c.op \in {"none", "open", "chdir", "create", "unlink", "link"}
      BY DEF CallSet
    <3> HIDE DEF d
    <3>3. QED
      BY <1>0, <1>3, <3>1, <3>2 DEF CallIs, WalkOK, Points, CallFile, Opens
  <2>2. Continues(p, d, s, c.op)
    BY <1>3, <2>1 DEF Continues, Then
  <2> HIDE DEF d
  <2>3. QED
    BY <1>1, <2>1, <2>2, IsValues DEF Goes
<1>4. CASE Fail(p, r \o <<PutIt(c.dp)>>)
  <2> DEFINE t == r \o <<PutIt(c.dp)>>
  <2>1. t \in Lists /\ \A j : Times(t, j) = Times(r, j) + Is(c.dp, j) /\ Times(r, j) \in Nat
    BY <1>0, OneJoined, Zenon
  <2> HIDE DEF t
  <2>2. Goes(p, c.ip, None, t)
    BY <1>4, <2>1, FailGoes DEF t
  <2>3. \A j \in Inum : Is(c.ip, j) + Is(None, j) + Times(t, j) = Is(c.ip, j) + Is(c.dp, j) + Times(r, j)
    BY <2>1, IsValues, NobodyIs
  <2>4. QED
    BY <2>2, <2>3 DEF Goes
<1>5. QED
  BY <1>2, <1>3, <1>4 DEF NameX, s

-----------------------------------------------------------------------------
(* What a step does to the counts.                                         *)

(* iget and idup: one more reference to i, whether it was cached or not.   *)
LEMMA ReferencedDoes ==
    ASSUME Inodes, NEW i \in Inum, icache' = Referenced(i)
    PROVE  icache' \in [Inum -> CacheSet] /\ \A j \in Inum : icache'[j].ref = icache[j].ref + Is(i, j)
<1>1. CASE icache[i].ref > 0
  <2>1. icache' = [icache EXCEPT ![i].ref = @ + 1]
    BY <1>1 DEF Referenced
  <2>2. icache[i] \in CacheSet /\ icache[i].ref \in Int
    BY DEF Inodes, CacheSet
  <2>3. [icache[i] EXCEPT !.ref = @ + 1] \in CacheSet /\ [icache[i] EXCEPT !.ref = @ + 1].ref = icache[i].ref + 1
    BY <2>2 DEF CacheSet
  <2>4. \A j \in Inum : icache[j] \in CacheSet /\ icache[j].ref \in Int
    BY DEF Inodes, CacheSet
  <2>5. QED
    BY <2>1, <2>3, <2>4 DEF Inodes, Is
<1>2. CASE ~(icache[i].ref > 0)
  <2>1. icache' = [icache EXCEPT ![i] = [Uncached EXCEPT !.ref = 1]] /\ icache[i].ref = 0
    BY <1>2 DEF Referenced, Inodes, CacheSet
  <2> DEFINE u == [Uncached EXCEPT !.ref = 1]
  <2>2. Uncached \in CacheSet
    BY InodeAssumption DEF Uncached, CacheSet, Types
  <2>3. u \in CacheSet /\ u.ref = 1
    BY <2>2 DEF CacheSet
  <2>4. \A j \in Inum : icache[j] \in CacheSet /\ icache[j].ref \in Int
    BY DEF Inodes, CacheSet
  <2> HIDE DEF u
  <2>5. icache' = [icache EXCEPT ![i] = u] /\ icache[i].ref = 0
    BY <2>1 DEF u
  <2>6. QED
    BY <2>3, <2>4, <2>5 DEF Inodes, Is
<1>3. QED
  BY <1>1, <1>2

LEMMA SameInodes ==
    ASSUME Inodes
    PROVE  /\ UNCHANGED dinode => dinode' \in [Inum -> DInodeSet]
           /\ UNCHANGED icache => icache' \in [Inum -> CacheSet] /\ \A j \in Inum : icache'[j].ref = icache[j].ref
BY DEF Inodes

LEMMA SameOwn ==
    ASSUME Runs, NEW p \in Process
    PROVE  /\ UNCHANGED cwd => cwd' = [cwd EXCEPT ![p] = cwd[p]]
           /\ UNCHANGED file => file' = [file EXCEPT ![p] = file[p]]
           /\ UNCHANGED call => call' = [call EXCEPT ![p] = call[p]]
           /\ UNCHANGED pc => pc' = [pc EXCEPT ![p] = pc[p]]
BY DEF Runs

(* What every step of p comes to.                                          *)
Moved(p) ==
    /\ dinode' \in [Inum -> DInodeSet] /\ icache' \in [Inum -> CacheSet]
    /\ Runs' /\ OthersKept(p)
    /\ \A j \in Inum : icache'[j].ref + Mine(p, j) = icache[j].ref + MineNext(p, j)

(* The counts change by what p has afterwards and did not have before.     *)
Pays(p, w, f, ip, dp, r) ==
    \A j \in Inum : icache'[j].ref + (Is(cwd[p], j) + Is(file[p], j) + Is(Ip(p), j) + Is(Dp(p), j))
                      = icache[j].ref + (Is(w, j) + Is(f, j) + Is(ip, j) + Is(dp, j) + Times(r, j))

(* A step of a call, with nothing left to run.                             *)
LEMMA Balanced ==
    ASSUME Inodes, Runs, NEW p \in Process, todo[p] = <<>>,
           NEW ip, NEW dp, NEW r \in Lists, Goes(p, ip, dp, r),
           NEW w \in Inum, NEW f \in Inum \cup {None},
           cwd' = [cwd EXCEPT ![p] = w], file' = [file EXCEPT ![p] = f],
           dinode' \in [Inum -> DInodeSet], icache' \in [Inum -> CacheSet],
           Pays(p, w, f, ip, dp, r)
    PROVE  Moved(p)
<1>1. Runs' /\ OthersKept(p) /\ Weighs(p, w, f, ip, dp, r)
  BY GoesOn
<1>2. ASSUME NEW j \in Inum PROVE Mine(p, j) = Is(cwd[p], j) + Is(file[p], j) + Is(Ip(p), j) + Is(Dp(p), j)
  <2>1. Times(todo[p], j) = 0
    BY TimesEmpty
  <2> DEFINE h == Has(cwd[p], file[p], call[p], j)
  <2>2. h = Is(cwd[p], j) + Is(file[p], j) + Is(Ip(p), j) + Is(Dp(p), j)
    BY DEF Has, Ip, Dp
  <2>3. \A x : Is(x, j) \in Nat
    BY IsValues
  <2>4. h \in Nat
    BY <2>2, <2>3
  <2>5. Mine(p, j) = h + 0
    BY <2>1, Zenon DEF Mine
  <2> HIDE DEF h
  <2>6. QED
    BY <2>2, <2>4, <2>5
<1>3. QED
  BY <1>1, <1>2 DEF Moved, Weighs, Pays

(* The same, of a step that leaves cwd and file alone.                     *)
PaysCall(p, ip, dp, r) ==
    \A j \in Inum : icache'[j].ref + (Is(Ip(p), j) + Is(Dp(p), j))
                      = icache[j].ref + (Is(ip, j) + Is(dp, j) + Times(r, j))

LEMMA BalancedCall ==
    ASSUME Inodes, Runs, NEW p \in Process, todo[p] = <<>>,
           NEW ip, NEW dp, NEW r \in Lists, Goes(p, ip, dp, r), UNCHANGED <<cwd, file>>,
           dinode' \in [Inum -> DInodeSet], icache' \in [Inum -> CacheSet],
           PaysCall(p, ip, dp, r)
    PROVE  Moved(p)
<1>1. /\ cwd' = [cwd EXCEPT ![p] = cwd[p]] /\ file' = [file EXCEPT ![p] = file[p]]
      /\ cwd[p] \in Inum /\ file[p] \in Inum \cup {None}
  BY SameOwn, CallTypes
<1>2. ASSUME NEW j \in Inum
      PROVE  icache'[j].ref + (Is(cwd[p], j) + Is(file[p], j) + Is(Ip(p), j) + Is(Dp(p), j))
               = icache[j].ref + (Is(cwd[p], j) + Is(file[p], j) + Is(ip, j) + Is(dp, j) + Times(r, j))
  <2>1. icache'[j].ref \in Int /\ icache[j].ref \in Int /\ Times(r, j) \in Nat
    <3>1. icache'[j] \in CacheSet /\ icache[j] \in CacheSet
      BY DEF Inodes
    <3>2. QED
      BY <3>1, PlacesFinite DEF CacheSet, Lists
  <2>2. icache'[j].ref + (Is(Ip(p), j) + Is(Dp(p), j)) = icache[j].ref + (Is(ip, j) + Is(dp, j) + Times(r, j))
    BY DEF PaysCall
  <2>3. /\ Is(cwd[p], j) \in Nat /\ Is(file[p], j) \in Nat /\ Is(Ip(p), j) \in Nat /\ Is(Dp(p), j) \in Nat
        /\ Is(ip, j) \in Nat /\ Is(dp, j) \in Nat
    BY IsValues
  <2> DEFINE a == icache'[j].ref
             b == icache[j].ref
             x == Is(Ip(p), j)
             y == Is(Dp(p), j)
             v == Is(cwd[p], j)
             f == Is(file[p], j)
             m == Is(ip, j)
             n == Is(dp, j)
             t == Times(r, j)
  <2>4. /\ a \in Int /\ b \in Int /\ t \in Nat /\ a + (x + y) = b + (m + n + t)
        /\ v \in Nat /\ f \in Nat /\ x \in Nat /\ y \in Nat /\ m \in Nat /\ n \in Nat
    BY <2>1, <2>2, <2>3
  <2> HIDE DEF a, b, x, y, v, f, m, n, t
  <2>6. a + (v + f + x + y) = b + (v + f + m + n + t)
    BY ONLY <2>4
  <2>5. QED
    BY <2>6 DEF a, b, x, y, v, f, m, n, t
<1>3. Pays(p, cwd[p], file[p], ip, dp, r)
  BY <1>2 DEF Pays
<1>4. QED
  BY <1>1, <1>3, Balanced

(* A walk begins with a reference to its directory.                        *)
LEMMA WalkMoves ==
    ASSUME Inodes, Runs, NEW p \in Process, todo[p] = <<>>, Dp(p) = None,
           NEW c \in CallSet, c.ip = Ip(p), c.ip # None => call[p].op = "link", CallFile(c, file[p]),
           \A i \in Inum, n \in NameLists : WalkOK([c EXCEPT !.names = n, !.dp = i]),
           NEW path \in Paths, Walk(p, c, path), UNCHANGED <<dinode, cwd, file>>
    PROVE  Moved(p)
<1> DEFINE i == IF path.absolute THEN ROOTINO ELSE cwd[p]
           d == [c EXCEPT !.names = path.names, !.dp = i]
<1>1. i \in Inum /\ path.names \in NameLists
  BY InodeAssumption, CallTypes DEF Names, NameLists
<1>2. icache' = Referenced(i) /\ NameX(p, d, <<>>)
  BY DEF Walk
<1>3. d \in CallSet /\ WalkOK(d) /\ d.ip = c.ip /\ d.dp = i /\ CallFile(d, file'[p])
  <2>1. d \in CallSet /\ d.ip = c.ip /\ d.dp = i /\ d.op = c.op /\ d.type = c.type
    BY <1>1 DEF CallSet
  <2>2. WalkOK(d)
    BY <1>1
  <2>3. CallFile(d, file'[p])
    BY <2>1 DEF CallFile, Opens
  <2>4. QED
    BY <2>1, <2>2, <2>3
<1> HIDE DEF d, i
<1>4. Goes(p, d.ip, d.dp, <<>>)
  BY <1>2, <1>3, NameXGoes, RoutineTypes
<1>5. icache' \in [Inum -> CacheSet] /\ \A j \in Inum : icache'[j].ref = icache[j].ref + Is(i, j)
  BY <1>1, <1>2, ReferencedDoes
<1>6. dinode' \in [Inum -> DInodeSet] /\ UNCHANGED <<cwd, file>>
  BY SameInodes
<1>7. PaysCall(p, d.ip, d.dp, <<>>)
  <2>1. ASSUME NEW j \in Inum
        PROVE  icache'[j].ref + (Is(Ip(p), j) + Is(Dp(p), j))
                 = icache[j].ref + (Is(d.ip, j) + Is(d.dp, j) + Times(<<>>, j))
    <3>1. /\ Is(Dp(p), j) = 0 /\ Is(d.ip, j) = Is(Ip(p), j) /\ Is(d.dp, j) = Is(i, j)
          /\ Is(Ip(p), j) \in Nat /\ Is(i, j) \in Nat
      BY <1>3, NobodyIs, IsValues
    <3>2. Times(<<>>, j) = 0 /\ icache'[j].ref = icache[j].ref + Is(i, j) /\ icache[j].ref \in Int
      BY <1>5, RoutineTimes DEF Inodes, CacheSet
    <3> DEFINE a == icache'[j].ref
               b == icache[j].ref
               x == Is(Ip(p), j)
               y == Is(i, j)
    <3>3. a = b + y /\ b \in Int /\ x \in Nat /\ y \in Nat
      BY <3>1, <3>2
    <3> HIDE DEF a, b, x, y
    <3>4. a + (x + 0) = b + (x + y + 0)
      BY ONLY <3>3
    <3>5. QED
      BY <3>1, <3>2, <3>4 DEF a, b, x, y
  <2>2. QED
    BY <2>1 DEF PaysCall
<1>8. QED
  BY <1>4, <1>6, <1>5, <1>7, BalancedCall, RoutineTypes

LEMMA Begins ==
    ASSUME NEW c \in CallSet, c.op # "none",
           c.op \in {"open", "chdir"} => ~c.parent,
           c.op \in {"create", "unlink"} => c.parent,
           c.op = "create" => c.type # "free",
           c.ip # None <=> c.op = "link" /\ c.parent,
           c.op = "link" /\ ~c.parent => c.new \in Paths
    PROVE  \A i \in Inum, n \in NameLists : WalkOK([c EXCEPT !.names = n, !.dp = i])
<1> SUFFICES ASSUME NEW i \in Inum, NEW n \in NameLists PROVE WalkOK([c EXCEPT !.names = n, !.dp = i])
  OBVIOUS
<1> DEFINE d == [c EXCEPT !.names = n, !.dp = i]
<1>1. /\ d.op = c.op /\ d.dp = i /\ d.parent = c.parent /\ d.type = c.type /\ d.ip = c.ip /\ d.new = c.new
      /\ c.op \in {"none", "open", "chdir", "create", "unlink", "link"}
  BY DEF CallSet
<1> HIDE DEF d
<1>2. WalkOK(d)
  BY <1>1 DEF WalkOK
<1>3. QED
  BY <1>2 DEF d

(* A walk that p is about to begin, with the call c.                       *)
Walks(p, c, path) ==
    /\ todo[p] = <<>> /\ pc[p] \in {"user", "nameiparent"} /\ Dp(p) = None /\ UNCHANGED <<dinode, cwd, file>>
    /\ c.ip = Ip(p) /\ (c.ip # None => call[p].op = "link") /\ CallFile(c, file[p])
    /\ \A i \in Inum, n \in NameLists : WalkOK([c EXCEPT !.names = n, !.dp = i])
    /\ Walk(p, c, path)

LEMMA SysCallsWalk ==
    ASSUME Runs, NEW p \in Process,
           SysOpen(p) \/ SysChdir(p) \/ SysCreate(p) \/ SysMkdir(p) \/ SysUnlink(p) \/ SysLink(p)
    PROVE  \E c \in CallSet, path \in Paths : Walks(p, c, path) /\ c.name = None
<1>1. ASSUME NEW c \in CallSet, NEW path \in Paths, Calls(p, c, path), c.ip = None, c.op # "none", CallFile(c, file[p]), c.name = None,
             c.op \in {"open", "chdir"} => ~c.parent,
             c.op \in {"create", "unlink"} => c.parent,
             c.op = "create" => c.type # "free",
             c.op = "link" => ~c.parent /\ c.new \in Paths
      PROVE  Walks(p, c, path) /\ c.name = None
  <2>1. call[p] = NoCall /\ Ip(p) = None /\ Dp(p) = None
    BY <1>1, CallTypes, NoCallType DEF Calls, At, CallIs
  <2>2. \A i \in Inum, n \in NameLists : WalkOK([c EXCEPT !.names = n, !.dp = i])
    BY <1>1, Begins
  <2>3. QED
    BY <1>1, <2>1, <2>2 DEF Calls, At, Walks
<1>2. CASE SysOpen(p)
  <2> DEFINE c == [NoCall EXCEPT !.op = "open"]
  <2>1. c \in CallSet /\ c.ip = None /\ c.name = None /\ c.op = "open" /\ ~c.parent /\ CallFile(c, file[p])
    BY <1>2, NoCallType DEF SysOpen, CallSet, NoCall, CallFile, Opens
  <2>2. \E path \in Paths : Calls(p, c, path)
    BY <1>2 DEF SysOpen
  <2> HIDE DEF c
  <2>3. QED
    BY <1>1, <2>1, <2>2
<1>3. CASE SysChdir(p)
  <2> DEFINE c == [NoCall EXCEPT !.op = "chdir"]
  <2>1. c \in CallSet /\ c.ip = None /\ c.name = None /\ c.op = "chdir" /\ ~c.parent /\ CallFile(c, file[p])
    BY NoCallType DEF CallSet, NoCall, CallFile, Opens
  <2>2. \E path \in Paths : Calls(p, c, path)
    BY <1>3 DEF SysChdir
  <2> HIDE DEF c
  <2>3. QED
    BY <1>1, <2>1, <2>2
<1>4. CASE SysCreate(p)
  <2> DEFINE c == [NoCall EXCEPT !.op = "create", !.type = "file", !.parent = TRUE]
  <2>1. c \in CallSet /\ c.ip = None /\ c.name = None /\ c.op = "create" /\ c.parent /\ c.type = "file" /\ CallFile(c, file[p])
    BY <1>4, NoCallType DEF SysCreate, CallSet, NoCall, CallFile, Opens, Types
  <2>2. \E path \in Paths : Calls(p, c, path)
    BY <1>4 DEF SysCreate
  <2> HIDE DEF c
  <2>3. QED
    BY <1>1, <2>1, <2>2
<1>5. CASE SysMkdir(p)
  <2> DEFINE c == [NoCall EXCEPT !.op = "create", !.type = "dir", !.parent = TRUE]
  <2>1. c \in CallSet /\ c.ip = None /\ c.name = None /\ c.op = "create" /\ c.parent /\ c.type = "dir" /\ CallFile(c, file[p])
    BY NoCallType DEF CallSet, NoCall, CallFile, Opens, Types
  <2>2. \E path \in Paths : Calls(p, c, path)
    BY <1>5 DEF SysMkdir
  <2> HIDE DEF c
  <2>3. QED
    BY <1>1, <2>1, <2>2
<1>6. CASE SysUnlink(p)
  <2> DEFINE c == [NoCall EXCEPT !.op = "unlink", !.parent = TRUE]
  <2>1. c \in CallSet /\ c.ip = None /\ c.name = None /\ c.op = "unlink" /\ c.parent /\ CallFile(c, file[p])
    BY NoCallType DEF CallSet, NoCall, CallFile, Opens
  <2>2. \E path \in Paths : Calls(p, c, path)
    BY <1>6 DEF SysUnlink
  <2> HIDE DEF c
  <2>3. QED
    BY <1>1, <2>1, <2>2
<1>7. CASE SysLink(p)
  <2>1. PICK path \in Paths, new \in Paths : Calls(p, [NoCall EXCEPT !.op = "link", !.new = new], path)
    BY <1>7 DEF SysLink
  <2> DEFINE c == [NoCall EXCEPT !.op = "link", !.new = new]
  <2>2. c \in CallSet /\ c.ip = None /\ c.name = None /\ c.op = "link" /\ ~c.parent /\ c.new \in Paths /\ CallFile(c, file[p])
    BY NoCallType DEF CallSet, NoCall, CallFile, Opens
  <2>3. Calls(p, c, path)
    BY <2>1
  <2> HIDE DEF c
  <2>4. QED
    BY <1>1, <2>2, <2>3
<1>8. QED
  BY <1>2, <1>3, <1>4, <1>5, <1>6, <1>7

LEMMA NameIParentWalks ==
    ASSUME Runs, NEW p \in Process, NameIParent(p)
    PROVE  \E c \in CallSet, path \in Paths : Walks(p, c, path) /\ c.name = call[p].name
<1> DEFINE c == [call[p] EXCEPT !.new = None]
<1>1. /\ todo[p] = <<>> /\ call[p] \in CallSet /\ pc[p] = "nameiparent"
      /\ call[p].op = "link" /\ call[p].parent /\ Ip(p) \in Inum /\ Dp(p) = None /\ call[p].new \in Paths
  BY CallTypes DEF NameIParent, At, CallIs
<1>2. c \in CallSet /\ c.ip = Ip(p) /\ CallFile(c, file[p]) /\ \A i \in Inum, n \in NameLists : WalkOK([c EXCEPT !.names = n, !.dp = i])
  <2>1. c \in CallSet /\ c.ip = Ip(p) /\ c.op = "link" /\ c.parent /\ c.ip # None /\ CallFile(c, file[p])
    BY <1>1, InodeAssumption DEF CallSet, Ip, CallFile, Opens
  <2> HIDE DEF c
  <2>2. QED
    BY <2>1, Begins
<1>3. Walk(p, c, call[p].new) /\ UNCHANGED <<dinode, cwd, file>> /\ c.name = call[p].name
  BY <1>1 DEF NameIParent, CallSet
<1> HIDE DEF c
<1>4. QED
  BY <1>1, <1>2, <1>3 DEF Walks

LEMMA WalksMove ==
    ASSUME Inodes, Runs, NEW p \in Process,
           SysOpen(p) \/ SysChdir(p) \/ SysCreate(p) \/ SysMkdir(p) \/ SysUnlink(p) \/ SysLink(p) \/ NameIParent(p)
    PROVE  Moved(p)
<1>1. PICK c \in CallSet, path \in Paths : Walks(p, c, path)
  BY SysCallsWalk, NameIParentWalks
<1>2. QED
  BY <1>1, WalkMoves DEF Walks

-----------------------------------------------------------------------------
(* One more reference to i is counted, or none when i is None; and it is   *)
(* among those that p has afterwards.                                      *)
Counts(i) == icache' \in [Inum -> CacheSet] /\ \A j \in Inum : icache'[j].ref = icache[j].ref + Is(i, j)
Even(p, ip, dp, r, i) ==
    \A j \in Inum : Is(Ip(p), j) + Is(Dp(p), j) + Is(i, j) = Is(ip, j) + Is(dp, j) + Times(r, j)
EvenFile(p, w, f, ip, dp, r) ==
    \A j \in Inum : Is(cwd[p], j) + Is(file[p], j) + Is(Ip(p), j) + Is(Dp(p), j)
                      = Is(w, j) + Is(f, j) + Is(ip, j) + Is(dp, j) + Times(r, j)

LEMMA CountsSame ==
    ASSUME Inodes, icache' \in [Inum -> CacheSet], \A j \in Inum : icache'[j].ref = icache[j].ref
    PROVE  Counts(None)
<1>1. \A j \in Inum : icache[j].ref \in Int
  BY DEF Inodes, CacheSet
<1>2. QED
  BY <1>1, NobodyIs DEF Counts

LEMMA CountsUnchanged == ASSUME Inodes, UNCHANGED icache PROVE Counts(None)
BY CountsSame, SameInodes

LEMMA CountsOne == ASSUME Inodes, NEW i \in Inum, icache' = Referenced(i) PROVE Counts(i)
BY ReferencedDoes DEF Counts

LEMMA EvenMoves ==
    ASSUME Inodes, Runs, NEW p \in Process, todo[p] = <<>>,
           NEW ip, NEW dp, NEW r \in Lists, Goes(p, ip, dp, r), UNCHANGED <<cwd, file>>,
           dinode' \in [Inum -> DInodeSet], NEW i, Counts(i), Even(p, ip, dp, r, i)
    PROVE  Moved(p)
<1>1. ASSUME NEW j \in Inum
      PROVE  icache'[j].ref + (Is(Ip(p), j) + Is(Dp(p), j)) = icache[j].ref + (Is(ip, j) + Is(dp, j) + Times(r, j))
  <2> DEFINE a == icache'[j].ref
             b == icache[j].ref
             x == Is(Ip(p), j)
             y == Is(Dp(p), j)
             m == Is(ip, j)
             n == Is(dp, j)
             k == Is(i, j)
             t == Times(r, j)
  <2>1. /\ a = b + k /\ x + y + k = m + n + t /\ b \in Int /\ k \in Nat
        /\ x \in Nat /\ y \in Nat /\ m \in Nat /\ n \in Nat /\ t \in Nat
    BY IsValues, PlacesFinite DEF Counts, Even, Inodes, CacheSet, Lists
  <2> HIDE DEF a, b, x, y, m, n, k, t
  <2>2. a + (x + y) = b + (m + n + t)
    BY ONLY <2>1
  <2>3. QED
    BY <2>2 DEF a, b, x, y, m, n, t
<1>2. PaysCall(p, ip, dp, r)
  BY <1>1 DEF PaysCall
<1>3. QED
  BY <1>2, BalancedCall DEF Counts

LEMMA EvenFileMoves ==
    ASSUME Inodes, Runs, NEW p \in Process, todo[p] = <<>>,
           NEW ip, NEW dp, NEW r \in Lists, Goes(p, ip, dp, r),
           NEW w \in Inum, NEW f \in Inum \cup {None},
           cwd' = [cwd EXCEPT ![p] = w], file' = [file EXCEPT ![p] = f],
           dinode' \in [Inum -> DInodeSet], Counts(None), EvenFile(p, w, f, ip, dp, r)
    PROVE  Moved(p)
<1>1. ASSUME NEW j \in Inum PROVE icache'[j].ref = icache[j].ref
  <2>1. icache'[j].ref = icache[j].ref + Is(None, j) /\ Is(None, j) = 0 /\ icache[j].ref \in Int
    BY NobodyIs DEF Counts, Inodes, CacheSet
  <2>2. QED
    BY <2>1
<1>2. Pays(p, w, f, ip, dp, r)
  BY <1>1 DEF Pays, EvenFile
<1>3. QED
  BY <1>2, Balanced DEF Counts

-----------------------------------------------------------------------------
(* What a call that fails gives back.                                      *)
LEMMA GivesDirectory ==
    ASSUME NEW p \in Process, NEW d \in Inum, Dp(p) = d
    PROVE  Even(p, Ip(p), None, UnlockPutIt(d), None)
<1>1. ASSUME NEW j \in Inum
      PROVE  Is(Ip(p), j) + Is(Dp(p), j) + Is(None, j) = Is(Ip(p), j) + Is(None, j) + Times(UnlockPutIt(d), j)
  <2>1. /\ Times(UnlockPutIt(d), j) = Is(d, j) /\ Is(None, j) = 0
        /\ Is(Ip(p), j) \in Nat /\ Is(d, j) \in Nat
    BY IsValues, NobodyIs, RoutineTimes
  <2>2. QED
    BY <2>1
<1>2. QED
  BY <1>1 DEF Even

LEMMA ElementMoves ==
    ASSUME Inodes, Runs, NEW p \in Process, Element(p)
    PROVE  Moved(p)
<1> DEFINE d == Dp(p)
           n == Head(call[p].names)
           i == dinode[d].entries[n]
<1>1. /\ todo[p] = <<>> /\ call[p] \in CallSet /\ WalkOK(call[p]) /\ call[p].names # <<>>
      /\ d \in Inum /\ d = call[p].dp /\ Ip(p) = call[p].ip /\ (Ip(p) # None => call[p].op = "link")
  BY CallTypes DEF Element, At, CallIs, WalkOK
<1>2. call[p].names \in NameLists /\ n \in Names /\ Tail(call[p].names) \in NameLists /\ <<>> \in NameLists
  BY <1>1, CallTypes, HeadTailProperties DEF NameLists
<1>3. i \in Inum \cup {None} /\ UNCHANGED <<dinode, cwd, file>> /\ dinode' \in [Inum -> DInodeSet]
  <2>1. dinode[d] \in DInodeSet
    BY <1>1 DEF Inodes
  <2>2. QED
    BY <1>2, <2>1, SameInodes DEF Element, DInodeSet
<1>4. UnlockPutIt(d) \in Lists /\ <<UnlockIt(d), LockIt(d)>> \in Lists
  BY <1>1, RoutineTypes
<1>5. CASE Fail(p, UnlockPutIt(d)) /\ UNCHANGED icache
  <2>1. Goes(p, Ip(p), None, UnlockPutIt(d))
    BY <1>1, <1>4, <1>5, FailGoes
  <2>2. Counts(None) /\ Even(p, Ip(p), None, UnlockPutIt(d), None)
    BY <1>1, <1>5, CountsUnchanged, GivesDirectory
  <2>3. QED
    BY <1>1, <1>3, <1>4, <2>1, <2>2, EvenMoves
<1>6. CASE /\ call[p].parent
           /\ call' = [call EXCEPT ![p].name = n, ![p].names = <<>>]
           /\ Then(p, <<UnlockIt(d), LockIt(d)>>, call[p].op)
           /\ UNCHANGED icache
  <2> DEFINE c == [call[p] EXCEPT !.name = n, !.names = <<>>]
             l == call[p].op
  <2>1. call' = [call EXCEPT ![p] = c]
    BY <1>6, <1>1 DEF Runs
  <2>2. /\ c \in CallSet /\ c.op = l /\ c.dp = d /\ c.ip = Ip(p) /\ c.parent /\ c.name = n /\ c.type = call[p].type
        /\ c.new = call[p].new /\ CallFile(c, file'[p])
    BY <1>1, <1>2, <1>3, <1>6, CallTypes DEF CallSet, CallFile, Opens
  <2> HIDE DEF c
  <2>3. l \in Points /\ CallIs(l, c)
    <3>1. l \in {"create", "unlink", "link"} /\ (Ip(p) # None <=> l = "link") /\ Ip(p) \in Inum \cup {None}
      BY <1>1, <1>6, CallTypes DEF WalkOK, CallSet
    <3>2. QED
      BY <1>1, <1>2, <2>2, <3>1 DEF CallIs, WalkOK, Points
  <2>4. Goes(p, c.ip, c.dp, <<UnlockIt(d), LockIt(d)>>)
    BY <1>4, <1>6, <2>1, <2>2, <2>3, ThenGoes
  <2>5. Even(p, c.ip, c.dp, <<UnlockIt(d), LockIt(d)>>, None)
    BY <1>1, <2>2, IsValues, NobodyIs, RoutineTimes DEF Even
  <2>6. Counts(None)
    BY <1>6, CountsUnchanged
  <2>7. QED
    BY <1>1, <1>3, <1>4, <2>4, <2>5, <2>6, EvenMoves
<1>7. CASE i # None /\ icache' = Referenced(i) /\ NameX(p, [call[p] EXCEPT !.dp = i, !.names = Tail(@)], UnlockPutIt(d))
  <2> DEFINE c == [call[p] EXCEPT !.dp = i, !.names = Tail(@)]
  <2>1. i \in Inum
    BY <1>3, <1>7
  <2>2. c \in CallSet /\ c.ip = Ip(p) /\ c.dp = i /\ WalkOK(c) /\ CallFile(c, file'[p])
    <3>1. /\ c \in CallSet /\ c.ip = Ip(p) /\ c.dp = i /\ c.op = call[p].op /\ c.parent = call[p].parent
          /\ c.type = call[p].type /\ c.new = call[p].new
      BY <1>1, <1>2, <2>1 DEF CallSet
    <3> HIDE DEF c
    <3>2. QED
      BY <1>1, <1>3, <2>1, <3>1, CallTypes DEF WalkOK, CallFile, Opens
  <2>3. NameX(p, c, UnlockPutIt(d))
    BY <1>7
  <2> HIDE DEF c
  <2>4. Goes(p, c.ip, c.dp, UnlockPutIt(d))
    BY <1>1, <1>4, <2>2, <2>3, NameXGoes
  <2>5. Counts(i)
    BY <1>7, <2>1, CountsOne
  <2>6. Even(p, c.ip, c.dp, UnlockPutIt(d), i)
    <3>1. ASSUME NEW j \in Inum
          PROVE  Is(Ip(p), j) + Is(Dp(p), j) + Is(i, j) = Is(c.ip, j) + Is(c.dp, j) + Times(UnlockPutIt(d), j)
      <4>1. Times(UnlockPutIt(d), j) = Is(d, j)
        BY <1>1, RoutineTimes
      <4> DEFINE x == Is(Ip(p), j)
                 y == Is(d, j)
                 z == Is(i, j)
      <4>2. x \in Nat /\ y \in Nat /\ z \in Nat
        BY IsValues
      <4> HIDE DEF x, y, z
      <4>3. x + y + z = x + z + y
        BY ONLY <4>2
      <4>4. QED
        BY <2>2, <4>1, <4>3 DEF x, y, z
    <3>2. QED
      BY <3>1 DEF Even
  <2> HIDE DEF i
  <2>7. QED
    BY <1>1, <1>3, <1>4, <2>4, <2>5, <2>6, EvenMoves
<1>8. QED
  BY <1>5, <1>6, <1>7 DEF Element

-----------------------------------------------------------------------------
(* The entry that a call looks at.                                         *)
LEMMA EntryType ==
    ASSUME Inodes, NEW d \in Inum, NEW n \in Names
    PROVE  dinode[d].entries[n] \in Inum \cup {None}
<1>1. dinode[d] \in DInodeSet
  BY DEF Inodes
<1>2. QED
  BY <1>1 DEF DInodeSet

LEMMA LinksDoes ==
    ASSUME Inodes, NEW i \in Inum, NEW n \in Int, Links(i, n)
    PROVE  dinode' \in [Inum -> DInodeSet] /\ Counts(None)
<1>1. dinode[i] \in DInodeSet /\ icache[i] \in CacheSet
  BY DEF Inodes
<1>2. [dinode[i] EXCEPT !.nlink = n] \in DInodeSet
  BY <1>1 DEF DInodeSet
<1>3. [icache[i] EXCEPT !.nlink = n] \in CacheSet /\ [icache[i] EXCEPT !.nlink = n].ref = icache[i].ref
  BY <1>1 DEF CacheSet
<1>4. dinode' \in [Inum -> DInodeSet]
  BY <1>2 DEF Links, Inodes
<1>5. icache' \in [Inum -> CacheSet] /\ \A j \in Inum : icache'[j].ref = icache[j].ref
  BY <1>3 DEF Links, Inodes
<1>6. QED
  BY <1>4, <1>5, CountsSame

(* A call returns with these routines to be run.                           *)
LEMMA ReturnMoves ==
    ASSUME Inodes, Runs, NEW p \in Process, todo[p] = <<>>, NEW r \in Lists, Return(p, r), UNCHANGED <<cwd, file>>,
           dinode' \in [Inum -> DInodeSet], NEW i, Counts(i), Even(p, None, None, r, i)
    PROVE  Moved(p)
<1>1. Goes(p, None, None, r)
  BY ReturnGoes
<1>2. QED
  BY <1>1, EvenMoves

LEMMA GivesOne ==
    ASSUME NEW p \in Process, NEW i \in Inum, (Ip(p) = i /\ Dp(p) = None) \/ (Ip(p) = None /\ Dp(p) = i)
    PROVE  Even(p, None, None, UnlockPutIt(i), None)
<1>1. ASSUME NEW j \in Inum
      PROVE  Is(Ip(p), j) + Is(Dp(p), j) + Is(None, j) = Is(None, j) + Is(None, j) + Times(UnlockPutIt(i), j)
  <2>1. Times(UnlockPutIt(i), j) = Is(i, j) /\ Is(None, j) = 0 /\ Is(i, j) \in Nat
    BY IsValues, NobodyIs, RoutineTimes
  <2>2. QED
    BY <2>1
<1>2. QED
  BY <1>1 DEF Even

(* The rest of open: the file has the reference of the call, or it is put. *)
LEMMA OpenFileMoves ==
    ASSUME Inodes, Runs, NEW p \in Process, todo[p] = <<>>, Ip(p) \in Inum, file[p] = None,
           NEW r \in Lists, OpenFile(p, Ip(p), r), UNCHANGED cwd,
           dinode' \in [Inum -> DInodeSet], Counts(None), \A j \in Inum : Times(r, j) = Is(Dp(p), j)
    PROVE  Moved(p)
<1> DEFINE i == Ip(p)
           s == r \o <<UnlockIt(i)>>
           t == r \o UnlockPutIt(i)
<1>1. /\ s \in Lists /\ t \in Lists
      /\ \A j : Times(s, j) = Times(r, j) + 0 /\ Times(t, j) = Times(r, j) + Is(i, j) /\ Times(r, j) \in Nat
  <2>1. i \in Inum
    OBVIOUS
  <2> HIDE DEF i
  <2>2. s \in Lists /\ \A j : Times(s, j) = Times(r, j) + 0
    BY <2>1, OneJoined
  <2>3. t \in Lists /\ \A j : Times(t, j) = Times(r, j) + Is(i, j)
    BY <2>1, OneJoined
  <2>4. \A j : Times(r, j) \in Nat
    BY PlacesFinite DEF Lists
  <2> HIDE DEF s, t
  <2>5. QED
    BY <2>2, <2>3, <2>4
<1> HIDE DEF s, t
<1>2. CASE file' = [file EXCEPT ![p] = i] /\ Return(p, s)
  <2>1. Goes(p, None, None, s)
    BY <1>1, <1>2, ReturnGoes
  <2>2. EvenFile(p, cwd[p], i, None, None, s)
    <3>1. ASSUME NEW j \in Inum
          PROVE  Is(cwd[p], j) + Is(file[p], j) + Is(Ip(p), j) + Is(Dp(p), j)
                   = Is(cwd[p], j) + Is(i, j) + Is(None, j) + Is(None, j) + Times(s, j)
      <4> DEFINE x == Is(cwd[p], j)
                 y == Is(i, j)
                 z == Is(Dp(p), j)
      <4>1. x \in Nat /\ y \in Nat /\ z \in Nat
        BY IsValues
      <4>2. Is(None, j) = 0 /\ Is(file[p], j) = 0 /\ Times(s, j) = z
        BY <1>1, <4>1, NobodyIs
      <4> HIDE DEF x, y, z
      <4>3. x + 0 + y + z = x + y + 0 + 0 + z
        BY ONLY <4>1
      <4>4. QED
        BY <4>2, <4>3 DEF x, y, z
    <3>2. QED
      BY <3>1 DEF EvenFile
  <2>3. cwd' = [cwd EXCEPT ![p] = cwd[p]] /\ cwd[p] \in Inum
    BY SameOwn, CallTypes
  <2>4. QED
    BY <1>1, <1>2, <2>1, <2>2, <2>3, EvenFileMoves
<1>3. CASE UNCHANGED file /\ Return(p, t)
  <2>1. Even(p, None, None, t, None)
    <3>1. ASSUME NEW j \in Inum
          PROVE  Is(Ip(p), j) + Is(Dp(p), j) + Is(None, j) = Is(None, j) + Is(None, j) + Times(t, j)
      <4> DEFINE y == Is(i, j)
                 z == Is(Dp(p), j)
      <4>1. y \in Nat /\ z \in Nat
        BY IsValues
      <4>2. Is(None, j) = 0 /\ Times(t, j) = z + y
        BY <1>1, <4>1, NobodyIs
      <4> HIDE DEF y, z
      <4>3. y + z + 0 = 0 + 0 + (z + y)
        BY ONLY <4>1
      <4>4. QED
        BY <4>2, <4>3 DEF y, z
    <3>2. QED
      BY <3>1 DEF Even
  <2>2. QED
    BY <1>1, <1>3, <2>1, ReturnMoves
<1>4. QED
  BY <1>2, <1>3 DEF OpenFile, s, t

LEMMA OpenMoves ==
    ASSUME Inodes, Runs, NEW p \in Process, Open(p)
    PROVE  Moved(p)
<1>1. todo[p] = <<>> /\ Ip(p) \in Inum /\ Dp(p) = None /\ call[p].op = "open"
  BY CallTypes DEF Open, At, CallIs
<1>2. file[p] = None
  <2>1. CallFile(call[p], file[p])
    BY CallTypes
  <2>2. QED
    BY ONLY <1>1, <2>1 DEF CallFile, Opens
<1>3. OpenFile(p, Ip(p), <<>>) /\ UNCHANGED cwd /\ dinode' \in [Inum -> DInodeSet] /\ Counts(None)
  BY CountsUnchanged, SameInodes DEF Open
<1>4. <<>> \in Lists /\ \A j \in Inum : Times(<<>>, j) = Is(Dp(p), j)
  BY <1>1, NobodyIs, RoutineTypes, RoutineTimes
<1>5. QED
  BY <1>1, <1>2, <1>3, <1>4, OpenFileMoves

LEMMA UseFileMoves ==
    ASSUME Inodes, Runs, NEW p \in Process, UseFile(p)
    PROVE  Moved(p)
<1> DEFINE f == file[p]
           r == <<LockIt(f), UnlockIt(f)>>
<1>1. /\ todo[p] = <<>> /\ f \in Inum /\ call[p] = NoCall /\ UNCHANGED <<dinode, icache, cwd, file>>
      /\ Then(p, r, "user") /\ UNCHANGED call
  BY CallTypes DEF UseFile, At, CallIs
<1>2. r \in Lists /\ \A j : Times(r, j) = 0
  BY <1>1, RoutineTypes, RoutineTimes
<1> HIDE DEF r
<1>3. call' = [call EXCEPT ![p] = NoCall]
  BY <1>1, SameOwn
<1>4. Goes(p, None, None, r)
  BY <1>1, <1>2, <1>3, NoCallType, ThenGoes DEF Points
<1>5. Even(p, None, None, r, None)
  BY <1>1, <1>2, NoCallType, NobodyIs DEF Even, Ip, Dp
<1>6. QED
  BY <1>1, <1>2, <1>4, <1>5, EvenMoves, CountsUnchanged, SameInodes

LEMMA CloseMoves ==
    ASSUME Inodes, Runs, NEW p \in Process, Close(p)
    PROVE  Moved(p)
<1> DEFINE f == file[p]
           r == <<PutIt(f)>>
<1>1. /\ todo[p] = <<>> /\ f \in Inum /\ call[p] = NoCall /\ UNCHANGED <<dinode, icache, cwd, call>>
      /\ Then(p, r, "user") /\ file' = [file EXCEPT ![p] = None]
  BY CallTypes DEF Close, At, CallIs
<1>2. r \in Lists /\ \A j : Times(r, j) = Is(f, j)
  BY <1>1, RoutineTypes, RoutineTimes
<1> HIDE DEF r
<1>3. call' = [call EXCEPT ![p] = NoCall] /\ cwd' = [cwd EXCEPT ![p] = cwd[p]] /\ cwd[p] \in Inum
  BY <1>1, SameOwn, CallTypes
<1>4. Goes(p, None, None, r)
  <2>1. /\ NoCall \in CallSet /\ CallIs("user", NoCall) /\ CallFile(NoCall, file'[p]) /\ "user" \in Points
        /\ NoCall.ip = None /\ NoCall.dp = None
    BY NoCallType, Zenon DEF Points
  <2>2. Goes(p, NoCall.ip, NoCall.dp, r)
    BY <1>1, <1>2, <1>3, <2>1, ThenGoes
  <2>3. QED
    BY <2>1, <2>2
<1>5. EvenFile(p, cwd[p], None, None, None, r)
  <2>1. ASSUME NEW j \in Inum
        PROVE  Is(cwd[p], j) + Is(file[p], j) + Is(Ip(p), j) + Is(Dp(p), j)
                 = Is(cwd[p], j) + Is(None, j) + Is(None, j) + Is(None, j) + Times(r, j)
    <3>1. Is(None, j) = 0 /\ Times(r, j) = Is(f, j) /\ Ip(p) = None /\ Dp(p) = None
      BY <1>1, <1>2, NobodyIs, NoCallType DEF Ip, Dp
    <3>2. Is(cwd[p], j) + Is(f, j) + 0 + 0 = Is(cwd[p], j) + 0 + 0 + 0 + Is(f, j)
      <4> DEFINE x == Is(cwd[p], j)
                 y == Is(f, j)
      <4>1. x \in Nat /\ y \in Nat
        BY IsValues
      <4> HIDE DEF x, y
      <4>2. x + y + 0 + 0 = x + 0 + 0 + 0 + y
        BY ONLY <4>1
      <4>3. QED
        BY <4>2 DEF x, y
    <3>3. QED
      BY <3>1, <3>2
  <2>2. QED
    BY <2>1 DEF EvenFile
<1>6. QED
  BY <1>1, <1>2, <1>3, <1>4, <1>5, EvenFileMoves, CountsUnchanged, SameInodes

LEMMA ChdirMoves ==
    ASSUME Inodes, Runs, NEW p \in Process, Chdir(p)
    PROVE  Moved(p)
<1> DEFINE i == Ip(p)
           w == cwd[p]
           r == <<UnlockIt(i), PutIt(w)>>
<1>1. todo[p] = <<>> /\ i \in Inum /\ w \in Inum /\ Dp(p) = None /\ UNCHANGED <<dinode, icache, file>>
  BY CallTypes DEF Chdir, At, CallIs
<1>2. Counts(None) /\ dinode' \in [Inum -> DInodeSet]
  BY <1>1, CountsUnchanged, SameInodes
<1>3. CASE Return(p, UnlockPutIt(i)) /\ UNCHANGED cwd
  <2>1. UnlockPutIt(i) \in Lists /\ Even(p, None, None, UnlockPutIt(i), None)
    <3>1. UnlockPutIt(i) \in Lists
      BY <1>1, RoutineTypes
    <3>2. i \in Inum /\ i = Ip(p) /\ Dp(p) = None
      BY <1>1
    <3> HIDE DEF i
    <3>3. Even(p, None, None, UnlockPutIt(i), None)
      BY <1>1, <3>2, GivesOne
    <3>4. QED
      BY <3>1, <3>3
  <2>2. QED
    BY <1>1, <1>2, <1>3, <2>1, ReturnMoves
<1>4. CASE Return(p, r) /\ cwd' = [cwd EXCEPT ![p] = i]
  <2>1. r \in Lists /\ \A j : Times(r, j) = Times(<<UnlockIt(i)>>, j) + Times(<<PutIt(w)>>, j)
    <3>1. UnlockIt(i) \in Routines /\ PutIt(w) \in Routines
      BY <1>1, RoutineTypes
    <3>2. QED
      BY <3>1, TwoJoined DEF Lists
  <2>2. \A j : Times(<<UnlockIt(i)>>, j) = 0 /\ Times(<<PutIt(w)>>, j) = Is(w, j)
    BY <1>1, RoutineTimes
  <2> HIDE DEF r
  <2>3. Goes(p, None, None, r)
    BY <1>4, <2>1, ReturnGoes
  <2>4. EvenFile(p, i, file[p], None, None, r)
    <3>1. ASSUME NEW j \in Inum
          PROVE  Is(cwd[p], j) + Is(file[p], j) + Is(Ip(p), j) + Is(Dp(p), j)
                   = Is(i, j) + Is(file[p], j) + Is(None, j) + Is(None, j) + Times(r, j)
      <4> DEFINE x == Is(w, j)
                 y == Is(file[p], j)
                 z == Is(i, j)
      <4>1. x \in Nat /\ y \in Nat /\ z \in Nat
        BY IsValues
      <4>2. Is(None, j) = 0 /\ Times(r, j) = 0 + x /\ Dp(p) = None
        BY <1>1, <2>1, <2>2, NobodyIs
      <4> HIDE DEF x, y, z
      <4>3. x + y + z + 0 = z + y + 0 + 0 + (0 + x)
        BY ONLY <4>1
      <4>4. QED
        BY <4>2, <4>3 DEF x, y, z
    <3>2. QED
      BY <3>1 DEF EvenFile
  <2>5. file' = [file EXCEPT ![p] = file[p]] /\ file[p] \in Inum \cup {None}
    BY <1>1, SameOwn, CallTypes
  <2>6. QED
    BY <1>1, <1>2, <1>4, <2>1, <2>3, <2>4, <2>5, EvenFileMoves
<1>5. QED
  BY <1>3, <1>4 DEF Chdir

LEMMA GivesTwo ==
    ASSUME NEW p \in Process, NEW i \in Inum, NEW d \in Inum, Ip(p) = i, Dp(p) = d, NEW r,
           \A j \in Inum : Times(r, j) = Is(i, j) + Is(d, j)
    PROVE  Even(p, None, None, r, None)
<1>1. ASSUME NEW j \in Inum
      PROVE  Is(Ip(p), j) + Is(Dp(p), j) + Is(None, j) = Is(None, j) + Is(None, j) + Times(r, j)
  <2>1. Times(r, j) = Is(i, j) + Is(d, j) /\ Is(None, j) = 0 /\ Is(i, j) \in Nat /\ Is(d, j) \in Nat
    BY IsValues, NobodyIs
  <2>2. QED
    BY <2>1
<1>2. QED
  BY <1>1 DEF Even

LEMMA TwoPuts ==
    ASSUME NEW i \in Inum, NEW d \in Inum
    PROVE  /\ UnlockPutIt(i) \o UnlockPutIt(d) \in Lists
           /\ \A j : Times(UnlockPutIt(i) \o UnlockPutIt(d), j) = Is(i, j) + Is(d, j)
           /\ UnlockPutIt(d) \o <<PutIt(i)>> \in Lists
           /\ \A j : Times(UnlockPutIt(d) \o <<PutIt(i)>>, j) = Is(i, j) + Is(d, j)
           /\ <<PutIt(i)>> \o UnlockPutIt(d) \in Lists
           /\ \A j : Times(<<PutIt(i)>> \o UnlockPutIt(d), j) = Is(i, j) + Is(d, j)
           /\ UnlockPutIt(d) \o <<LockIt(i)>> \in Lists
           /\ \A j : Times(UnlockPutIt(d) \o <<LockIt(i)>>, j) = Is(d, j)
<1>1. /\ UnlockPutIt(i) \in Lists /\ UnlockPutIt(d) \in Lists /\ <<PutIt(i)>> \in Lists /\ <<LockIt(i)>> \in Lists
  BY RoutineTypes
<1>2. \A j : /\ Times(UnlockPutIt(i), j) = Is(i, j) /\ Times(UnlockPutIt(d), j) = Is(d, j)
             /\ Times(<<PutIt(i)>>, j) = Is(i, j) /\ Times(<<LockIt(i)>>, j) = 0
             /\ Is(i, j) \in Nat /\ Is(d, j) \in Nat
  BY RoutineTimes, IsValues
<1> DEFINE a == UnlockPutIt(i)
           b == UnlockPutIt(d)
           c == <<PutIt(i)>>
           e == <<LockIt(i)>>
<1> HIDE DEF a, b, c, e
<1>3. /\ a \in Lists /\ b \in Lists /\ c \in Lists /\ e \in Lists
      /\ \A j : /\ Times(a, j) = Is(i, j) /\ Times(b, j) = Is(d, j) /\ Times(c, j) = Is(i, j) /\ Times(e, j) = 0
                /\ Is(i, j) \in Nat /\ Is(d, j) \in Nat
  BY <1>1, <1>2 DEF a, b, c, e
<1>4. a \o b \in Lists /\ \A j : Times(a \o b, j) = Is(i, j) + Is(d, j)
  <2>1. a \o b \in Lists /\ \A j : Times(a \o b, j) = Times(a, j) + Times(b, j)
    BY <1>3, Joined
  <2>2. QED
    BY <1>3, <2>1
<1>5. b \o c \in Lists /\ \A j : Times(b \o c, j) = Is(i, j) + Is(d, j)
  <2>1. b \o c \in Lists /\ \A j : Times(b \o c, j) = Times(b, j) + Times(c, j)
    BY <1>3, Joined
  <2>2. QED
    BY <1>3, <2>1
<1>6. c \o b \in Lists /\ \A j : Times(c \o b, j) = Is(i, j) + Is(d, j)
  <2>1. c \o b \in Lists /\ \A j : Times(c \o b, j) = Times(c, j) + Times(b, j)
    BY <1>3, Joined
  <2>2. QED
    BY <1>3, <2>1
<1>7. b \o e \in Lists /\ \A j : Times(b \o e, j) = Is(d, j)
  <2>1. b \o e \in Lists /\ \A j : Times(b \o e, j) = Times(b, j) + Times(e, j)
    BY <1>3, Joined
  <2>2. QED
    BY <1>3, <2>1
<1>8. QED
  BY <1>4, <1>5, <1>6, <1>7 DEF a, b, c, e

-----------------------------------------------------------------------------
LEMMA LinkMoves ==
    ASSUME Inodes, Runs, NEW p \in Process, Link(p)
    PROVE  Moved(p)
<1> DEFINE i == Ip(p)
<1>1. /\ todo[p] = <<>> /\ i \in Inum /\ Dp(p) = None /\ UNCHANGED <<cwd, file>>
      /\ call[p] \in CallSet /\ call[p].op = "link" /\ call[p].new \in Paths /\ call[p].ip = i /\ call[p].dp = None
  BY CallTypes DEF Link, At, CallIs
<1>2. UnlockPutIt(i) \in Lists /\ <<UnlockIt(i)>> \in Lists /\ \A j : Times(<<UnlockIt(i)>>, j) = 0
  BY <1>1, RoutineTypes, RoutineTimes
<1>3. CASE Return(p, UnlockPutIt(i)) /\ UNCHANGED <<dinode, icache>>
  <2>1. Even(p, None, None, UnlockPutIt(i), None)
    BY <1>1, GivesOne
  <2>2. Counts(None) /\ dinode' \in [Inum -> DInodeSet]
    BY <1>3, CountsUnchanged, SameInodes
  <2>3. QED
    BY <1>1, <1>2, <1>3, <2>1, <2>2, ReturnMoves
<1>4. CASE /\ Links(i, icache[i].nlink + 1)
           /\ Then(p, <<UnlockIt(i)>>, "nameiparent")
           /\ call' = [call EXCEPT ![p].parent = TRUE]
  <2> DEFINE c == [call[p] EXCEPT !.parent = TRUE]
  <2>1. dinode' \in [Inum -> DInodeSet] /\ Counts(None)
    <3>1. icache[i].nlink + 1 \in Int
      BY <1>1 DEF Inodes, CacheSet
    <3>2. QED
      BY <1>1, <1>4, <3>1, LinksDoes
  <2>2. call' = [call EXCEPT ![p] = c]
    BY <1>4, <1>1 DEF Runs
  <2>3. c \in CallSet /\ c.ip = i /\ c.dp = None /\ c.op = "link" /\ c.parent /\ c.new \in Paths
    BY <1>1 DEF CallSet
  <2> HIDE DEF c
  <2>4. CallIs("nameiparent", c) /\ CallFile(c, file'[p]) /\ "nameiparent" \in Points
    BY <1>1, <2>3 DEF CallIs, CallFile, Opens, Points
  <2>5. Goes(p, c.ip, c.dp, <<UnlockIt(i)>>)
    BY <1>2, <1>4, <2>2, <2>3, <2>4, ThenGoes
  <2>6. Even(p, c.ip, c.dp, <<UnlockIt(i)>>, None)
    BY <1>1, <1>2, <2>3, IsValues, NobodyIs DEF Even
  <2>7. QED
    BY <1>1, <1>2, <2>1, <2>5, <2>6, EvenMoves
<1>5. QED
  BY <1>3, <1>4 DEF Link

LEMMA DirLinkMoves ==
    ASSUME Inodes, Runs, NEW p \in Process, DirLink(p)
    PROVE  Moved(p)
<1> DEFINE d == Dp(p)
           n == call[p].name
           i == dinode[d].entries[n]
           f == Ip(p)
<1>1. /\ todo[p] = <<>> /\ f \in Inum /\ d \in Inum /\ n \in Names /\ call[p].op = "link" /\ UNCHANGED <<cwd, file>>
  BY CallTypes DEF DirLink, At, CallIs
<1>2. i \in Inum \cup {None}
  BY <1>1, EntryType
<1>3. CASE i # None /\ icache' = Referenced(i) /\ Fail(p, <<PutIt(i)>> \o UnlockPutIt(d)) /\ UNCHANGED dinode
  <2> DEFINE r == <<PutIt(i)>> \o UnlockPutIt(d)
  <2>1. i \in Inum
    BY <1>2, <1>3
  <2>2. r \in Lists /\ \A j : Times(r, j) = Is(i, j) + Is(d, j)
    <3> HIDE DEF i, d
    <3>1. QED
      BY <1>1, <2>1, TwoPuts
  <2>3. Fail(p, r)
    BY <1>3
  <2> HIDE DEF r
  <2>4. Goes(p, f, None, r)
    BY <1>1, <2>2, <2>3, FailGoes
  <2>5. Counts(i) /\ dinode' \in [Inum -> DInodeSet]
    BY <1>3, <2>1, CountsOne, SameInodes
  <2>6. Even(p, f, None, r, i)
    <3>1. ASSUME NEW j \in Inum
          PROVE  Is(Ip(p), j) + Is(Dp(p), j) + Is(i, j) = Is(f, j) + Is(None, j) + Times(r, j)
      <4> DEFINE x == Is(i, j)
                 y == Is(d, j)
                 z == Is(f, j)
      <4>1. x \in Nat /\ y \in Nat /\ z \in Nat
        BY IsValues
      <4>2. Is(None, j) = 0 /\ Times(r, j) = x + y
        BY <2>2, NobodyIs
      <4> HIDE DEF x, y, z
      <4>3. z + y + x = z + 0 + (x + y)
        BY ONLY <4>1
      <4>4. QED
        BY <4>2, <4>3 DEF x, y, z
    <3>2. QED
      BY <3>1 DEF Even
  <2> HIDE DEF i
  <2>7. QED
    BY <1>1, <2>2, <2>4, <2>5, <2>6, EvenMoves
<1>4. CASE /\ dinode' = [dinode EXCEPT ![d].entries[n] = f]
           /\ Return(p, UnlockPutIt(d) \o <<PutIt(f)>>) /\ UNCHANGED icache
  <2>1. dinode' \in [Inum -> DInodeSet]
    <3>1. dinode[d] \in DInodeSet
      BY <1>1 DEF Inodes
    <3>2. [dinode[d] EXCEPT !.entries[n] = f] \in DInodeSet
      BY <1>1, <3>1 DEF DInodeSet
    <3>3. QED
      BY <1>1, <1>4, <3>2 DEF Inodes
  <2> DEFINE r == UnlockPutIt(d) \o <<PutIt(f)>>
  <2>2. r \in Lists /\ \A j : Times(r, j) = Is(f, j) + Is(d, j)
    <3>1. d \in Inum /\ f \in Inum
      BY <1>1
    <3> HIDE DEF f, d
    <3>2. QED
      BY <3>1, TwoPuts
  <2>3. Return(p, r) /\ Counts(None)
    BY <1>4, CountsUnchanged
  <2> HIDE DEF r
  <2>4. Even(p, None, None, r, None)
    BY <1>1, <2>2, GivesTwo
  <2>5. QED
    BY <1>1, <2>1, <2>2, <2>3, <2>4, ReturnMoves
<1>5. QED
  BY <1>3, <1>4 DEF DirLink, DirLinkPuts

(* The two that lower nlink and return.                                    *)
LEMMA LowerMoves ==
    ASSUME Inodes, Runs, NEW p \in Process, BadLink(p) \/ Unlinked(p)
    PROVE  Moved(p)
<1>1. /\ todo[p] = <<>> /\ Ip(p) \in Inum /\ Dp(p) = None /\ UNCHANGED <<cwd, file>>
      /\ Links(Ip(p), icache[Ip(p)].nlink - 1) /\ Return(p, UnlockPutIt(Ip(p)))
  BY CallTypes DEF BadLink, Unlinked, At, CallIs
<1>2. icache[Ip(p)].nlink - 1 \in Int
  BY <1>1 DEF Inodes, CacheSet
<1>3. dinode' \in [Inum -> DInodeSet] /\ Counts(None)
  BY <1>1, <1>2, LinksDoes
<1>4. UnlockPutIt(Ip(p)) \in Lists /\ Even(p, None, None, UnlockPutIt(Ip(p)), None)
  BY <1>1, RoutineTypes, GivesOne
<1>5. QED
  BY <1>1, <1>3, <1>4, ReturnMoves

LEMMA UnlinkMoves ==
    ASSUME Inodes, Runs, NEW p \in Process, Unlink(p)
    PROVE  Moved(p)
<1> DEFINE d == Dp(p)
           n == call[p].name
           i == dinode[d].entries[n]
<1>1. /\ todo[p] = <<>> /\ d \in Inum /\ n \in Names /\ Ip(p) = None /\ call[p].op = "unlink"
      /\ UNCHANGED <<dinode, cwd, file>> /\ call[p] \in CallSet /\ call[p].dp = d
  BY CallTypes DEF Unlink, At, CallIs
<1>2. i \in Inum \cup {None} /\ dinode' \in [Inum -> DInodeSet]
  BY <1>1, EntryType, SameInodes
<1>3. CASE Return(p, UnlockPutIt(d)) /\ UNCHANGED icache
  <2>1. UnlockPutIt(d) \in Lists /\ Counts(None)
    BY <1>1, <1>3, RoutineTypes, CountsUnchanged
  <2>2. d \in Inum /\ Ip(p) = None /\ Dp(p) = d
    BY <1>1
  <2> HIDE DEF d
  <2>3. Even(p, None, None, UnlockPutIt(d), None)
    BY <2>2, GivesOne
  <2>4. QED
    BY <1>1, <1>2, <1>3, <2>1, <2>3, ReturnMoves
<1>4. CASE /\ i # None
           /\ icache' = Referenced(i)
           /\ call' = [call EXCEPT ![p].ip = i]
           /\ Then(p, <<LockIt(i)>>, "unlinkinode")
  <2> DEFINE c == [call[p] EXCEPT !.ip = i]
  <2>1. i \in Inum
    BY <1>2, <1>4
  <2>2. call' = [call EXCEPT ![p] = c]
    BY <1>4, <1>1 DEF Runs
  <2>3. c \in CallSet /\ c.ip = i /\ c.dp = d /\ c.op = "unlink" /\ c.name \in Names
    BY <1>1, <2>1 DEF CallSet
  <2> HIDE DEF c
  <2>4. CallIs("unlinkinode", c) /\ CallFile(c, file'[p]) /\ "unlinkinode" \in Points
    BY <1>1, <2>1, <2>3 DEF CallIs, CallFile, Opens, Points
  <2>5. <<LockIt(i)>> \in Lists /\ \A j : Times(<<LockIt(i)>>, j) = 0
    BY <2>1, RoutineTypes, RoutineTimes
  <2>6. Goes(p, c.ip, c.dp, <<LockIt(i)>>)
    BY <1>4, <2>2, <2>3, <2>4, <2>5, ThenGoes
  <2>7. Counts(i)
    BY <1>4, <2>1, CountsOne
  <2>8. Even(p, c.ip, c.dp, <<LockIt(i)>>, i)
    <3>1. ASSUME NEW j \in Inum
          PROVE  Is(Ip(p), j) + Is(Dp(p), j) + Is(i, j) = Is(c.ip, j) + Is(c.dp, j) + Times(<<LockIt(i)>>, j)
      <4> DEFINE x == Is(i, j)
                 y == Is(d, j)
      <4>1. x \in Nat /\ y \in Nat
        BY IsValues
      <4>2. Is(Ip(p), j) = 0 /\ Times(<<LockIt(i)>>, j) = 0 /\ Is(c.ip, j) = x /\ Is(c.dp, j) = y
        BY <1>1, <2>3, <2>5, NobodyIs
      <4> HIDE DEF x, y
      <4>3. 0 + y + x = x + y + 0
        BY ONLY <4>1
      <4>4. QED
        BY <4>2, <4>3 DEF x, y
    <3>2. QED
      BY <3>1 DEF Even
  <2> HIDE DEF i
  <2>9. QED
    BY <1>1, <1>2, <2>5, <2>6, <2>7, <2>8, EvenMoves
<1>5. QED
  BY <1>3, <1>4 DEF Unlink

LEMMA UnlinkInodeMoves ==
    ASSUME Inodes, Runs, NEW p \in Process, UnlinkInode(p)
    PROVE  Moved(p)
<1> DEFINE d == Dp(p)
           i == Ip(p)
           n == call[p].name
           m == IF icache[i].type = "dir" THEN 1 ELSE 0
<1>1. /\ todo[p] = <<>> /\ d \in Inum /\ i \in Inum /\ n \in Names /\ call[p].op = "unlink"
      /\ UNCHANGED <<cwd, file>> /\ call[p] \in CallSet /\ call[p].dp = d /\ call[p].ip = i
  BY CallTypes DEF UnlinkInode, At, CallIs
<1>3. CASE Return(p, UnlockPutIt(i) \o UnlockPutIt(d)) /\ UNCHANGED <<dinode, icache>>
  <2> DEFINE r == UnlockPutIt(i) \o UnlockPutIt(d)
  <2>1. r \in Lists /\ \A j : Times(r, j) = Is(i, j) + Is(d, j)
    <3>1. d \in Inum /\ i \in Inum
      BY <1>1
    <3> HIDE DEF i, d
    <3>2. QED
      BY <3>1, TwoPuts
  <2>2. Return(p, r) /\ Counts(None) /\ dinode' \in [Inum -> DInodeSet]
    BY <1>3, CountsUnchanged, SameInodes
  <2> HIDE DEF r
  <2>3. Even(p, None, None, r, None)
    BY <1>1, <2>1, GivesTwo
  <2>4. QED
    BY <1>1, <2>1, <2>2, <2>3, ReturnMoves
<1>4. CASE /\ dinode' = [dinode EXCEPT ![d].entries[n] = None,
                                       ![d].nlink = IF icache[i].type = "dir" THEN @ - 1 ELSE @]
           /\ icache' = [icache EXCEPT ![d].nlink = IF icache[i].type = "dir" THEN @ - 1 ELSE @]
           /\ Then(p, UnlockPutIt(d), "unlinked") /\ call' = [call EXCEPT ![p].dp = None]
  <2> DEFINE c == [call[p] EXCEPT !.dp = None]
             x == [dinode[d] EXCEPT !.entries[n] = None,
                                    !.nlink = IF icache[i].type = "dir" THEN @ - 1 ELSE @]
             y == [icache[d] EXCEPT !.nlink = IF icache[i].type = "dir" THEN @ - 1 ELSE @]
  <2>1. x \in DInodeSet /\ y \in CacheSet /\ y.ref = icache[d].ref
    <3>1. dinode[d] \in DInodeSet /\ icache[d] \in CacheSet
      BY <1>1 DEF Inodes
    <3>2. (IF icache[i].type = "dir" THEN dinode[d].nlink - 1 ELSE dinode[d].nlink) \in Int
      BY <3>1 DEF DInodeSet
    <3>3. (IF icache[i].type = "dir" THEN icache[d].nlink - 1 ELSE icache[d].nlink) \in Int
      BY <3>1 DEF CacheSet
    <3>4. x \in DInodeSet
      BY <1>1, <3>1, <3>2 DEF DInodeSet
    <3>5. y \in CacheSet /\ y.ref = icache[d].ref
      BY <3>1, <3>3 DEF CacheSet
    <3>6. QED
      BY <3>4, <3>5
  <2>2. dinode' = [dinode EXCEPT ![d] = x] /\ icache' = [icache EXCEPT ![d] = y]
    BY <1>1, <1>4 DEF Inodes
  <2> HIDE DEF x, y
  <2>3. dinode' \in [Inum -> DInodeSet] /\ Counts(None)
    <3>1. icache' \in [Inum -> CacheSet] /\ \A j \in Inum : icache'[j].ref = icache[j].ref
      BY <1>1, <2>1, <2>2 DEF Inodes
    <3>2. dinode' \in [Inum -> DInodeSet]
      BY <1>1, <2>1, <2>2 DEF Inodes
    <3>3. QED
      BY <3>1, <3>2, CountsSame
  <2>4. call' = [call EXCEPT ![p] = c]
    BY <1>4, <1>1 DEF Runs
  <2>5. c \in CallSet /\ c.ip = i /\ c.dp = None /\ c.op = "unlink"
    BY <1>1 DEF CallSet
  <2> HIDE DEF c
  <2>6. CallIs("unlinked", c) /\ CallFile(c, file'[p]) /\ "unlinked" \in Points
    BY <1>1, <2>5 DEF CallIs, CallFile, Opens, Points
  <2>7. UnlockPutIt(d) \in Lists
    BY <1>1, RoutineTypes
  <2>8. Goes(p, c.ip, c.dp, UnlockPutIt(d))
    BY <1>4, <2>4, <2>5, <2>6, <2>7, ThenGoes
  <2>9. Even(p, c.ip, c.dp, UnlockPutIt(d), None)
    <3>1. d \in Inum /\ Dp(p) = d /\ c.ip = Ip(p) /\ c.dp = None
      BY <1>1, <2>5
    <3> HIDE DEF d
    <3>2. QED
      BY <3>1, GivesDirectory
  <2>10. QED
    BY <1>1, <2>3, <2>7, <2>8, <2>9, EvenMoves
<1>5. QED
  BY <1>3, <1>4 DEF UnlinkInode

LEMMA CreateMoves ==
    ASSUME Inodes, Runs, NEW p \in Process, Create(p)
    PROVE  Moved(p)
<1> DEFINE d == Dp(p)
           n == call[p].name
           i == dinode[d].entries[n]
<1>1. /\ todo[p] = <<>> /\ d \in Inum /\ n \in Names /\ Ip(p) = None /\ call[p].op = "create"
      /\ UNCHANGED <<cwd, file>> /\ call[p] \in CallSet /\ call[p].dp = d /\ call[p].ip = None
      /\ call[p].type # "free" /\ CallFile(call[p], file'[p])
  BY CallTypes DEF Create, At, CallIs
<1>2. i \in Inum \cup {None}
  BY <1>1, EntryType
<1>3. CASE /\ i # None
           /\ icache' = Referenced(i)
           /\ call' = [call EXCEPT ![p].ip = i, ![p].dp = None]
           /\ Then(p, UnlockPutIt(d) \o <<LockIt(i)>>, "existing")
           /\ UNCHANGED dinode
  <2> DEFINE c == [call[p] EXCEPT !.ip = i, !.dp = None]
             r == UnlockPutIt(d) \o <<LockIt(i)>>
  <2>1. i \in Inum
    BY <1>2, <1>3
  <2>2. call' = [call EXCEPT ![p] = c]
    BY <1>3, <1>1 DEF Runs
  <2>3. c \in CallSet /\ c.ip = i /\ c.dp = None /\ c.op = "create" /\ c.type = call[p].type
    BY <1>1, <2>1 DEF CallSet
  <2> HIDE DEF c
  <2>4. CallIs("existing", c) /\ CallFile(c, file'[p]) /\ "existing" \in Points
    BY <1>1, <2>1, <2>3 DEF CallIs, CallFile, Opens, Points
  <2>5. r \in Lists /\ \A j : Times(r, j) = Is(d, j)
    <3>1. d \in Inum
      BY <1>1
    <3> HIDE DEF i, d
    <3>2. QED
      BY <2>1, <3>1, TwoPuts
  <2>6. Then(p, r, "existing")
    BY <1>3
  <2> HIDE DEF r
  <2>7. Goes(p, c.ip, c.dp, r)
    BY <2>2, <2>3, <2>4, <2>5, <2>6, ThenGoes
  <2>8. Counts(i) /\ dinode' \in [Inum -> DInodeSet]
    BY <1>3, <2>1, CountsOne, SameInodes
  <2>9. Even(p, c.ip, c.dp, r, i)
    <3>1. ASSUME NEW j \in Inum
          PROVE  Is(Ip(p), j) + Is(Dp(p), j) + Is(i, j) = Is(c.ip, j) + Is(c.dp, j) + Times(r, j)
      <4> DEFINE x == Is(i, j)
                 y == Is(d, j)
      <4>1. x \in Nat /\ y \in Nat
        BY IsValues
      <4>2. Is(Ip(p), j) = 0 /\ Times(r, j) = y /\ Is(c.ip, j) = x /\ Is(c.dp, j) = 0
        BY <1>1, <2>3, <2>5, NobodyIs
      <4> HIDE DEF x, y
      <4>3. 0 + y + x = x + 0 + y
        BY ONLY <4>1
      <4>4. QED
        BY <4>2, <4>3 DEF x, y
    <3>2. QED
      BY <3>1 DEF Even
  <2> HIDE DEF i
  <2>10. QED
    BY <1>1, <2>5, <2>7, <2>8, <2>9, EvenMoves
<1>4. CASE /\ \E free \in {j \in Inum : dinode[j].type = "free"} :
                /\ dinode' = [dinode EXCEPT ![free] = [FreeInode EXCEPT !.type = call[p].type]]
                /\ call' = [call EXCEPT ![p].new = free]
           /\ Then(p, <<>>, "iget")
           /\ UNCHANGED icache
  <2>1. PICK free \in Inum :
                /\ dinode' = [dinode EXCEPT ![free] = [FreeInode EXCEPT !.type = call[p].type]]
                /\ call' = [call EXCEPT ![p].new = free]
    BY <1>4
  <2> DEFINE c == [call[p] EXCEPT !.new = free]
             x == [FreeInode EXCEPT !.type = call[p].type]
  <2>2. dinode' \in [Inum -> DInodeSet]
    <3>1. x \in DInodeSet
      BY <1>1 DEF FreeInode, NoEntries, DInodeSet, CallSet, Types
    <3> HIDE DEF x
    <3>2. dinode' = [dinode EXCEPT ![free] = x]
      BY <2>1 DEF x
    <3>3. QED
      BY <3>1, <3>2 DEF Inodes
  <2>3. call' = [call EXCEPT ![p] = c]
    BY <2>1, <1>1 DEF Runs
  <2>4. c \in CallSet /\ c.ip = None /\ c.dp = d /\ c.op = "create" /\ c.type = call[p].type /\ c.new = free
        /\ c.name = n
    BY <1>1 DEF CallSet
  <2> HIDE DEF c
  <2>5. CallIs("iget", c) /\ CallFile(c, file'[p]) /\ "iget" \in Points
    BY <1>1, <2>4 DEF CallIs, CallFile, Opens, Points
  <2>6. <<>> \in Lists /\ \A j : Times(<<>>, j) = 0
    BY RoutineTypes, RoutineTimes
  <2>7. Goes(p, c.ip, c.dp, <<>>)
    BY <1>4, <2>3, <2>4, <2>5, <2>6, ThenGoes
  <2>8. Counts(None)
    BY <1>4, CountsUnchanged
  <2>9. Even(p, c.ip, c.dp, <<>>, None)
    BY <1>1, <2>4, <2>6, IsValues, NobodyIs DEF Even
  <2>10. QED
    BY <1>1, <2>2, <2>6, <2>7, <2>8, <2>9, EvenMoves
<1>5. QED
  BY <1>3, <1>4 DEF Create, LockExisting

LEMMA ExistingMoves ==
    ASSUME Inodes, Runs, NEW p \in Process, Existing(p)
    PROVE  Moved(p)
<1>1. /\ todo[p] = <<>> /\ Ip(p) \in Inum /\ Dp(p) = None /\ call[p].op = "create"
      /\ UNCHANGED <<dinode, icache, cwd>>
  BY CallTypes DEF Existing, At, CallIs
<1>2. Counts(None) /\ dinode' \in [Inum -> DInodeSet]
  BY <1>1, CountsUnchanged, SameInodes
<1>3. CASE call[p].type = "file" /\ OpenFile(p, Ip(p), <<>>)
  <2>1. file[p] = None
    <3>1. CallFile(call[p], file[p])
      BY CallTypes
    <3>2. QED
      BY ONLY <1>1, <1>3, <3>1 DEF CallFile, Opens
  <2>2. <<>> \in Lists /\ \A j \in Inum : Times(<<>>, j) = Is(Dp(p), j)
    BY <1>1, NobodyIs, RoutineTypes, RoutineTimes
  <2>3. QED
    BY <1>1, <1>2, <1>3, <2>1, <2>2, OpenFileMoves
<1>4. CASE Return(p, UnlockPutIt(Ip(p))) /\ UNCHANGED file
  <2>1. UnlockPutIt(Ip(p)) \in Lists /\ Even(p, None, None, UnlockPutIt(Ip(p)), None)
    BY <1>1, RoutineTypes, GivesOne
  <2>2. QED
    BY <1>1, <1>2, <1>4, <2>1, ReturnMoves
<1>5. QED
  BY <1>3, <1>4 DEF Existing

LEMMA IGetMoves ==
    ASSUME Inodes, Runs, NEW p \in Process, IGet(p)
    PROVE  Moved(p)
<1> DEFINE i == call[p].new
           d == Dp(p)
           c == [call[p] EXCEPT !.ip = i, !.new = None]
<1>1. /\ todo[p] = <<>> /\ i \in Inum /\ d \in Inum /\ Ip(p) = None /\ call[p].op = "create"
      /\ UNCHANGED <<dinode, cwd, file>> /\ call[p] \in CallSet /\ call[p].dp = d /\ call[p].name \in Names
      /\ call[p].type # "free" /\ CallFile(call[p], file'[p])
      /\ icache' = Referenced(i) /\ Then(p, <<LockIt(i)>>, "created")
      /\ call' = [call EXCEPT ![p].ip = i, ![p].new = None]
  BY CallTypes DEF IGet, At, CallIs
<1>2. call' = [call EXCEPT ![p] = c]
  BY <1>1 DEF Runs
<1>3. c \in CallSet /\ c.ip = i /\ c.dp = d /\ c.op = "create" /\ c.type = call[p].type /\ c.name = call[p].name
  BY <1>1 DEF CallSet
<1> HIDE DEF c
<1>4. CallIs("created", c) /\ CallFile(c, file'[p]) /\ "created" \in Points
  BY <1>1, <1>3 DEF CallIs, CallFile, Opens, Points
<1>5. <<LockIt(i)>> \in Lists /\ \A j : Times(<<LockIt(i)>>, j) = 0
  BY <1>1, RoutineTypes, RoutineTimes
<1>6. Goes(p, c.ip, c.dp, <<LockIt(i)>>)
  BY <1>1, <1>2, <1>3, <1>4, <1>5, ThenGoes
<1>7. Counts(i) /\ dinode' \in [Inum -> DInodeSet]
  BY <1>1, CountsOne, SameInodes
<1>8. Even(p, c.ip, c.dp, <<LockIt(i)>>, i)
  <2>1. ASSUME NEW j \in Inum
        PROVE  Is(Ip(p), j) + Is(Dp(p), j) + Is(i, j) = Is(c.ip, j) + Is(c.dp, j) + Times(<<LockIt(i)>>, j)
    <3> DEFINE x == Is(i, j)
               y == Is(d, j)
    <3>1. x \in Nat /\ y \in Nat
      BY IsValues
    <3>2. Is(Ip(p), j) = 0 /\ Times(<<LockIt(i)>>, j) = 0 /\ Is(c.ip, j) = x /\ Is(c.dp, j) = y
      BY <1>1, <1>3, <1>5, NobodyIs
    <3> HIDE DEF x, y
    <3>3. 0 + y + x = x + y + 0
      BY ONLY <3>1
    <3>4. QED
      BY <3>2, <3>3 DEF x, y
  <2>2. QED
    BY <2>1 DEF Even
<1>9. QED
  BY <1>1, <1>5, <1>6, <1>7, <1>8, EvenMoves

LEMMA WithLinks ==
    ASSUME NEW f \in [Inum -> CacheSet], NEW i \in Inum, NEW n \in Int
    PROVE  /\ [f EXCEPT ![i].nlink = n] \in [Inum -> CacheSet]
           /\ \A j \in Inum : [f EXCEPT ![i].nlink = n][j].ref = f[j].ref
<1>1. f[i] \in CacheSet
  OBVIOUS
<1>2. [f[i] EXCEPT !.nlink = n] \in CacheSet /\ [f[i] EXCEPT !.nlink = n].ref = f[i].ref
  BY <1>1 DEF CacheSet
<1>3. QED
  BY <1>2

LEMMA CreatedMoves ==
    ASSUME Inodes, Runs, NEW p \in Process, Created(p)
    PROVE  Moved(p)
<1> DEFINE d == Dp(p)
           i == Ip(p)
           n == call[p].name
           dir == call[p].type = "dir"
           dots == IF dir THEN [dinode[i].entries EXCEPT ![Dot] = i, ![DotDot] = d] ELSE dinode[i].entries
<1>1. /\ todo[p] = <<>> /\ i \in Inum /\ d \in Inum /\ n \in Names /\ call[p].op = "create"
      /\ call[p] \in CallSet /\ call[p].type \in {"file", "dir"} /\ UNCHANGED cwd
  BY CallTypes DEF Created, At, CallIs, CallSet, Types
<1>2. dinode' \in [Inum -> DInodeSet]
  <2> DEFINE a == [dinode EXCEPT ![i].nlink = 1]
             b == [a EXCEPT ![i].entries = dots]
             c == [b EXCEPT ![d].entries[n] = i]
             m == dinode[d].nlink + IF dir THEN 1 ELSE 0
             e == [c EXCEPT ![d].nlink = m]
  <2>1. a \in [Inum -> DInodeSet]
    <3>1. dinode[i] \in DInodeSet
      BY <1>1 DEF Inodes
    <3>2. [dinode[i] EXCEPT !.nlink = 1] \in DInodeSet
      BY <3>1 DEF DInodeSet
    <3>3. QED
      BY <1>1, <3>2 DEF Inodes
  <2>2. dots \in [Names -> Inum \cup {None}]
    <3>1. dinode[i].entries \in [Names -> Inum \cup {None}]
      BY <1>1 DEF Inodes, DInodeSet
    <3>2. QED
      BY <1>1, <3>1
  <2>3. dinode' = e
    BY DEF Created
  <2>8. m \in Int
    <3>1. dinode[d] \in DInodeSet
      BY <1>1 DEF Inodes
    <3>2. QED
      BY <3>1 DEF DInodeSet
  <2> HIDE DEF a, dots, m
  <2>4. b \in [Inum -> DInodeSet]
    <3>1. a[i] \in DInodeSet
      BY <1>1, <2>1
    <3>2. [a[i] EXCEPT !.entries = dots] \in DInodeSet
      BY <2>2, <3>1 DEF DInodeSet
    <3>3. QED
      BY <1>1, <2>1, <3>2
  <2> HIDE DEF b
  <2>5. c \in [Inum -> DInodeSet]
    <3>1. b[d] \in DInodeSet
      BY <1>1, <2>4
    <3>2. [b[d] EXCEPT !.entries[n] = i] \in DInodeSet
      BY <1>1, <3>1 DEF DInodeSet
    <3>3. QED
      BY <1>1, <2>4, <3>2
  <2> HIDE DEF c
  <2>6. e \in [Inum -> DInodeSet]
    <3>1. c[d] \in DInodeSet
      BY <1>1, <2>5
    <3>2. [c[d] EXCEPT !.nlink = m] \in DInodeSet
      BY <2>8, <3>1 DEF DInodeSet
    <3>3. QED
      BY <1>1, <2>5, <3>2
  <2>7. QED
    BY <2>3, <2>6
<1>3. Counts(None)
  <2> DEFINE a == [icache EXCEPT ![i].nlink = 1]
             n2 == icache[d].nlink + IF dir THEN 1 ELSE 0
  <2>1. icache' = [a EXCEPT ![d].nlink = n2]
    BY DEF Created
  <2>2. a \in [Inum -> CacheSet] /\ \A j \in Inum : a[j].ref = icache[j].ref
    <3>1. icache \in [Inum -> CacheSet]
      BY DEF Inodes
    <3>2. 1 \in Int
      OBVIOUS
    <3>3. a \in [Inum -> CacheSet]
      BY <1>1, <3>1, <3>2, WithLinks
    <3>4. \A j \in Inum : a[j].ref = icache[j].ref
      BY <1>1, <3>1, <3>2, WithLinks
    <3> HIDE DEF a
    <3>5. QED
      BY <3>3, <3>4
  <2> HIDE DEF a
  <2>3. n2 \in Int
    <3>1. icache[d] \in CacheSet
      BY <1>1 DEF Inodes
    <3>2. QED
      BY <3>1 DEF CacheSet
  <2> HIDE DEF n2
  <2>4. icache' \in [Inum -> CacheSet] /\ \A j \in Inum : icache'[j].ref = a[j].ref
    BY <1>1, <2>1, <2>2, <2>3, WithLinks
  <2>5. QED
    BY <2>2, <2>4, CountsSame
<1>4. CASE dir /\ Return(p, UnlockPutIt(d) \o UnlockPutIt(i)) /\ UNCHANGED file
  <2> DEFINE r == UnlockPutIt(d) \o UnlockPutIt(i)
  <2>1. r \in Lists /\ \A j : Times(r, j) = Is(i, j) + Is(d, j)
    <3>1. d \in Inum /\ i \in Inum
      BY <1>1
    <3> HIDE DEF i, d
    <3>2. r \in Lists /\ \A j : Times(r, j) = Is(d, j) + Is(i, j)
      BY <3>1, TwoPuts
    <3>3. \A j : Is(d, j) + Is(i, j) = Is(i, j) + Is(d, j)
      BY IsValues
    <3> HIDE DEF r
    <3>4. QED
      BY <3>2, <3>3
  <2>2. Return(p, r)
    BY <1>4
  <2> HIDE DEF r
  <2>3. Even(p, None, None, r, None)
    BY <1>1, <2>1, GivesTwo
  <2>4. QED
    BY <1>1, <1>2, <1>3, <1>4, <2>1, <2>2, <2>3, ReturnMoves
<1>5. CASE ~dir /\ OpenFile(p, i, UnlockPutIt(d))
  <2>1. file[p] = None
    <3>1. CallFile(call[p], file[p])
      BY CallTypes
    <3>2. QED
      BY ONLY <1>1, <1>5, <3>1 DEF CallFile, Opens
  <2>2. UnlockPutIt(d) \in Lists /\ \A j \in Inum : Times(UnlockPutIt(d), j) = Is(Dp(p), j)
    BY <1>1, RoutineTypes, RoutineTimes
  <2>3. QED
    BY <1>1, <1>2, <1>3, <1>5, <2>1, <2>2, OpenFileMoves
<1>6. QED
  BY <1>4, <1>5 DEF Created

-----------------------------------------------------------------------------
(* The routines.                                                           *)

(* A list of which the first has been replaced by s.                       *)
LEMMA ListMoves ==
    ASSUME Inodes, Runs, NEW p \in Process, todo[p] # <<>>, NEW s \in Lists,
           todo' = [todo EXCEPT ![p] = s \o Tail(@)], UNCHANGED <<pc, cwd, file, call>>,
           dinode' \in [Inum -> DInodeSet], icache' \in [Inum -> CacheSet],
           \A j \in Inum : icache'[j].ref + Times(<<Head(todo[p])>>, j) = icache[j].ref + Times(s, j)
    PROVE  Moved(p)
<1> DEFINE h == <<Head(todo[p])>>
           t == Tail(todo[p])
<1>1. h \in Lists /\ t \in Lists /\ todo[p] = h \o t
  <2>1. todo[p] \in Seq(Routines)
    BY DEF Runs, Lists
  <2>2. Head(todo[p]) \in Routines /\ t \in Seq(Routines) /\ todo[p] = h \o t
    BY <2>1, HeadAndTail, Zenon
  <2>3. h \in Seq(Routines)
    BY <2>2
  <2>4. QED
    BY <2>2, <2>3 DEF Lists
<1>2. todo' = [todo EXCEPT ![p] = s \o t]
  OBVIOUS
<1>3. \A j \in Inum : icache'[j].ref + Times(h, j) = icache[j].ref + Times(s, j)
  OBVIOUS
<1> HIDE DEF h, t
<1>4. s \o t \in Lists /\ \A j : Times(s \o t, j) = Times(s, j) + Times(t, j) /\ Times(s, j) \in Nat /\ Times(t, j) \in Nat
  BY <1>1, Joined
<1>5. \A j : Times(todo[p], j) = Times(h, j) + Times(t, j) /\ Times(h, j) \in Nat
  BY <1>1, Joined
<1> DEFINE u == s \o t
<1>6. u \in Lists /\ todo' = [todo EXCEPT ![p] = u] /\ \A j : Times(u, j) = Times(s, j) + Times(t, j)
  BY <1>2, <1>4
<1> HIDE DEF u
<1>7. Runs' /\ OthersKept(p) /\ todo'[p] = u
  BY <1>6 DEF Runs, OthersKept
<1>8. ASSUME NEW j \in Inum PROVE icache'[j].ref + Mine(p, j) = icache[j].ref + MineNext(p, j)
  <2> DEFINE has == Has(cwd[p], file[p], call[p], j)
             a == icache'[j].ref
             b == icache[j].ref
             x == Times(h, j)
             y == Times(s, j)
             z == Times(t, j)
             k == Times(todo[p], j)
             l == Times(u, j)
  <2>1. has = Is(cwd[p], j) + Is(file[p], j) + Is(call[p].ip, j) + Is(call[p].dp, j)
    BY DEF Has
  <2>2. \A v : Is(v, j) \in Nat
    BY IsValues
  <2> HIDE DEF has
  <2>3. has \in Nat
    BY <2>1, <2>2
  <2>4. Mine(p, j) = has + k /\ MineNext(p, j) = has + l
    BY <1>7 DEF Mine, MineNext, has
  <2>5. /\ k = x + z /\ l = y + z /\ a + x = b + y
        /\ a \in Int /\ b \in Int /\ x \in Nat /\ y \in Nat /\ z \in Nat
    BY <1>3, <1>4, <1>5, <1>6 DEF Inodes, CacheSet
  <2> HIDE DEF a, b, x, y, z, k, l
  <2>6. a + (has + k) = b + (has + l)
    BY ONLY <2>3, <2>5
  <2>7. QED
    BY <2>4, <2>6 DEF a, b
<1>9. QED
  BY <1>7, <1>8 DEF Moved

LEMMA DoneMoves ==
    ASSUME Inodes, Runs, NEW p \in Process, todo[p] # <<>>, Done(p), UNCHANGED <<cwd, file, call>>,
           dinode' \in [Inum -> DInodeSet], icache' \in [Inum -> CacheSet],
           \A j \in Inum : icache'[j].ref + Times(<<Head(todo[p])>>, j) = icache[j].ref
    PROVE  Moved(p)
<1>1. Tail(todo[p]) \in Seq(Routines)
  <2>1. todo[p] \in Seq(Routines)
    BY DEF Runs, Lists
  <2>2. QED
    BY <2>1, HeadAndTail
<1>2. <<>> \o Tail(todo[p]) = Tail(todo[p])
  BY <1>1, ConcatEmptySeq
<1>3. todo' = [todo EXCEPT ![p] = <<>> \o Tail(@)] /\ UNCHANGED pc
  BY <1>2 DEF Done
<1>4. <<>> \in Lists /\ \A j : Times(<<>>, j) = 0
  BY RoutineTypes, RoutineTimes
<1>5. \A j \in Inum : icache'[j].ref + Times(<<Head(todo[p])>>, j) = icache[j].ref + Times(<<>>, j)
  <2>1. \A j \in Inum : icache[j].ref \in Int
    BY DEF Inodes, CacheSet
  <2>2. QED
    BY <1>4, <2>1
<1>6. QED
  BY <1>3, <1>4, <1>5, ListMoves

LEMMA FirstIs ==
    ASSUME Runs, NEW p \in Process, todo[p] # <<>>
    PROVE  Subject(p) \in Inum /\ Head(todo[p]) \in Routines /\ Head(todo[p])[2] = Subject(p)
<1>1. todo[p] \in Seq(Routines)
  BY DEF Runs, Lists
<1>2. Head(todo[p]) \in Routines
  BY <1>1, HeadAndTail
<1>3. QED
  BY <1>2 DEF Routines, Subject

LEMMA HeadTimes ==
    ASSUME Runs, NEW p \in Process, NEW r, First(p, r)
    PROVE  /\ todo[p] # <<>> /\ Subject(p) \in Inum
           /\ r \notin Puts => \A j : Times(<<Head(todo[p])>>, j) = 0
           /\ r \in Puts => \A j : Times(<<Head(todo[p])>>, j) = Is(Subject(p), j)
<1>1. todo[p] # <<>> /\ Subject(p) \in Inum /\ Head(todo[p])[1] = r /\ Head(todo[p])[2] = Subject(p)
  BY FirstIs DEF First
<1>2. \A j : Times(<<Head(todo[p])>>, j) = IF Gives(Head(todo[p]), j) THEN 1 ELSE 0
  BY TimesOne
<1>3. \A j : Gives(Head(todo[p]), j) <=> r \in Puts /\ Subject(p) = j
  BY <1>1 DEF Gives
<1>4. QED
  BY <1>1, <1>2, <1>3 DEF Is

(* One inode of the cache becomes x, with as many references.              *)
LEMMA OneChanges ==
    ASSUME Inodes, NEW i \in Inum, NEW x \in CacheSet, icache' = [icache EXCEPT ![i] = x]
    PROVE  /\ icache' \in [Inum -> CacheSet]
           /\ x.ref = icache[i].ref => \A j \in Inum : icache'[j].ref = icache[j].ref
           /\ x.ref = icache[i].ref - 1 => \A j \in Inum : icache'[j].ref + Is(i, j) = icache[j].ref
<1>1. icache \in [Inum -> CacheSet] /\ \A j \in Inum : icache[j].ref \in Int
  BY DEF Inodes, CacheSet
<1>2. QED
  BY <1>1 DEF Is

LEMMA ILockMoves ==
    ASSUME Inodes, Runs, NEW p \in Process, ILock(p)
    PROVE  Moved(p)
<1> DEFINE i == Subject(p)
           x == IF icache[i].valid
                THEN [icache[i] EXCEPT !.busy = p]
                ELSE [icache[i] EXCEPT !.busy = p, !.valid = TRUE, !.type = dinode[i].type, !.nlink = dinode[i].nlink]
<1>1. First(p, "ilock") /\ Done(p) /\ UNCHANGED <<dinode, cwd, file, call>>
  BY DEF ILock
<1>2. todo[p] # <<>> /\ i \in Inum /\ \A j : Times(<<Head(todo[p])>>, j) = 0
  BY <1>1, HeadTimes DEF Puts
<1>3. icache' = [icache EXCEPT ![i] = x]
  BY DEF ILock
<1>4. icache[i] \in CacheSet /\ dinode[i] \in DInodeSet
  BY <1>2 DEF Inodes
<1>5. x \in CacheSet /\ x.ref = icache[i].ref
  BY <1>4 DEF CacheSet, DInodeSet
<1> HIDE DEF x, i
<1>6. icache' \in [Inum -> CacheSet] /\ \A j \in Inum : icache'[j].ref = icache[j].ref
  BY <1>2, <1>3, <1>5, OneChanges
<1>7. \A j \in Inum : icache'[j].ref + Times(<<Head(todo[p])>>, j) = icache[j].ref
  <2>1. \A j \in Inum : icache[j].ref \in Int /\ icache'[j].ref = icache[j].ref /\ Times(<<Head(todo[p])>>, j) = 0
    BY <1>2, <1>6 DEF Inodes, CacheSet
  <2>2. QED
    BY <2>1
<1>8. QED
  BY <1>1, <1>2, <1>6, <1>7, DoneMoves, SameInodes

LEMMA IUnlockMoves ==
    ASSUME Inodes, Runs, NEW p \in Process, IUnlock(p)
    PROVE  Moved(p)
<1> DEFINE i == Subject(p)
           x == [icache[i] EXCEPT !.busy = None]
<1>1. First(p, "iunlock") /\ Done(p) /\ UNCHANGED <<dinode, cwd, file, call>>
  BY DEF IUnlock
<1>2. todo[p] # <<>> /\ i \in Inum /\ \A j : Times(<<Head(todo[p])>>, j) = 0
  BY <1>1, HeadTimes DEF Puts
<1>3. icache' = [icache EXCEPT ![i] = x]
  BY DEF IUnlock
<1>4. icache[i] \in CacheSet
  BY <1>2 DEF Inodes
<1>5. x \in CacheSet /\ x.ref = icache[i].ref
  BY <1>4 DEF CacheSet
<1> HIDE DEF x, i
<1>6. icache' \in [Inum -> CacheSet] /\ \A j \in Inum : icache'[j].ref = icache[j].ref
  BY <1>2, <1>3, <1>5, OneChanges
<1>7. \A j \in Inum : icache'[j].ref + Times(<<Head(todo[p])>>, j) = icache[j].ref
  <2>1. \A j \in Inum : icache[j].ref \in Int /\ icache'[j].ref = icache[j].ref /\ Times(<<Head(todo[p])>>, j) = 0
    BY <1>2, <1>6 DEF Inodes, CacheSet
  <2>2. QED
    BY <2>1
<1>8. QED
  BY <1>1, <1>2, <1>6, <1>7, DoneMoves, SameInodes

(* The routine at the head gives its reference back later, as r.           *)
LEMMA BecomesMoves ==
    ASSUME Inodes, Runs, NEW p \in Process, NEW q \in Puts, First(p, q), NEW r \in Puts, Becomes(p, r),
           UNCHANGED <<cwd, file, call>>,
           dinode' \in [Inum -> DInodeSet], icache' \in [Inum -> CacheSet],
           \A j \in Inum : icache'[j].ref = icache[j].ref
    PROVE  Moved(p)
<1> DEFINE s == <<<<r, Subject(p)>>>>
<1>1. todo[p] # <<>> /\ Subject(p) \in Inum /\ \A j : Times(<<Head(todo[p])>>, j) = Is(Subject(p), j)
  BY HeadTimes
<1>2. s \in Lists
  BY <1>1 DEF Lists, Routines, Puts
<1>3. \A j : Times(s, j) = Is(Subject(p), j)
  <2>1. \A j : Times(s, j) = IF Gives(<<r, Subject(p)>>, j) THEN 1 ELSE 0
    BY TimesOne
  <2>2. QED
    BY <2>1 DEF Gives, Is
<1>4. todo' = [todo EXCEPT ![p] = s \o Tail(@)] /\ UNCHANGED pc
  BY DEF Becomes
<1> HIDE DEF s
<1>5. \A j \in Inum : icache'[j].ref + Times(<<Head(todo[p])>>, j) = icache[j].ref + Times(s, j)
  BY <1>1, <1>3
<1>6. QED
  BY <1>1, <1>2, <1>4, <1>5, ListMoves

(* The routine at the head has given its reference back.                   *)
LEMMA GivenBack ==
    ASSUME Inodes, Runs, NEW p \in Process, NEW q \in Puts, First(p, q), Done(p),
           UNCHANGED <<dinode, cwd, file, call>>,
           NEW x \in CacheSet, icache' = [icache EXCEPT ![Subject(p)] = x], x.ref = icache[Subject(p)].ref - 1
    PROVE  Moved(p)
<1>1. todo[p] # <<>> /\ Subject(p) \in Inum /\ \A j : Times(<<Head(todo[p])>>, j) = Is(Subject(p), j)
  BY HeadTimes
<1>2. icache' \in [Inum -> CacheSet] /\ \A j \in Inum : icache'[j].ref + Is(Subject(p), j) = icache[j].ref
  BY <1>1, OneChanges
<1>3. \A j \in Inum : icache'[j].ref + Times(<<Head(todo[p])>>, j) = icache[j].ref
  BY <1>1, <1>2
<1>4. QED
  BY <1>1, <1>2, <1>3, DoneMoves, SameInodes

LEMMA IPutMoves ==
    ASSUME Inodes, Runs, NEW p \in Process, IPut(p)
    PROVE  Moved(p)
<1> DEFINE i == Subject(p)
<1>1. First(p, "iput") /\ UNCHANGED <<dinode, cwd, file, call>> /\ "iput" \in Puts /\ "itrunc" \in Puts
  BY DEF IPut, Puts
<1>2. i \in Inum /\ icache[i] \in CacheSet
  BY <1>1, HeadTimes DEF Inodes
<1>3. CASE icache' = [icache EXCEPT ![i].busy = p] /\ Becomes(p, "itrunc")
  <2> DEFINE x == [icache[i] EXCEPT !.busy = p]
  <2>1. x \in CacheSet /\ x.ref = icache[i].ref
    BY <1>2 DEF CacheSet
  <2>2. icache' = [icache EXCEPT ![i] = x]
    BY <1>3
  <2> HIDE DEF x, i
  <2>3. icache' \in [Inum -> CacheSet] /\ \A j \in Inum : icache'[j].ref = icache[j].ref
    BY <1>2, <2>1, <2>2, OneChanges
  <2>4. QED
    BY <1>1, <1>3, <2>3, BecomesMoves, SameInodes
<1>4. CASE icache' = [icache EXCEPT ![i].ref = @ - 1] /\ Done(p)
  <2> DEFINE x == [icache[i] EXCEPT !.ref = @ - 1]
  <2>1. x \in CacheSet /\ x.ref = icache[i].ref - 1
    BY <1>2 DEF CacheSet
  <2>2. icache' = [icache EXCEPT ![i] = x]
    BY <1>4
  <2> HIDE DEF x
  <2>3. QED
    BY <1>1, <1>4, <2>1, <2>2, GivenBack
<1>5. QED
  BY <1>3, <1>4 DEF IPut

LEMMA ITruncMoves ==
    ASSUME Inodes, Runs, NEW p \in Process, ITrunc(p)
    PROVE  Moved(p)
<1> DEFINE i == Subject(p)
           x == [icache[i] EXCEPT !.type = "free"]
<1>1. First(p, "itrunc") /\ Becomes(p, "iputdone") /\ UNCHANGED <<cwd, file, call>>
      /\ "itrunc" \in Puts /\ "iputdone" \in Puts
  BY DEF ITrunc, Puts
<1>2. i \in Inum /\ icache[i] \in CacheSet
  BY <1>1, HeadTimes DEF Inodes
<1>3. x \in CacheSet /\ x.ref = icache[i].ref
  BY <1>2 DEF CacheSet, Types
<1>4. icache' = [icache EXCEPT ![i] = x]
  BY DEF ITrunc
<1>5. dinode' \in [Inum -> DInodeSet]
  <2>1. FreeInode \in DInodeSet
    BY DEF FreeInode, NoEntries, DInodeSet, Types
  <2>2. QED
    BY <1>2, <2>1 DEF ITrunc, Inodes
<1> HIDE DEF x, i
<1>6. icache' \in [Inum -> CacheSet] /\ \A j \in Inum : icache'[j].ref = icache[j].ref
  BY <1>2, <1>3, <1>4, OneChanges
<1>7. QED
  BY <1>1, <1>5, <1>6, BecomesMoves

LEMMA IPutDoneMoves ==
    ASSUME Inodes, Runs, NEW p \in Process, IPutDone(p)
    PROVE  Moved(p)
<1>1. First(p, "iputdone") /\ Done(p) /\ UNCHANGED <<dinode, cwd, file, call>> /\ "iputdone" \in Puts
      /\ icache' = [icache EXCEPT ![Subject(p)] = Cleared(Subject(p))]
  BY DEF IPutDone, Puts
<1>2. icache[Subject(p)] \in CacheSet
  BY <1>1, HeadTimes DEF Inodes
<1>3. Cleared(Subject(p)) \in CacheSet /\ Cleared(Subject(p)).ref = icache[Subject(p)].ref - 1
  <2>1. \A y \in CacheSet :
          LET z == [y EXCEPT !.busy = None, !.valid = FALSE, !.ref = @ - 1] IN z \in CacheSet /\ z.ref = y.ref - 1
    <3>1. SUFFICES ASSUME NEW y \in CacheSet, NEW z, z = [y EXCEPT !.busy = None, !.valid = FALSE, !.ref = y.ref - 1]
                   PROVE  z \in CacheSet /\ z.ref = y.ref - 1
      OBVIOUS
    <3>2. y.ref - 1 \in Int
      BY DEF CacheSet
    <3>3. QED
      BY <3>1, <3>2 DEF CacheSet
  <2>2. QED
    BY <1>2, <2>1 DEF Cleared
<1>4. QED
  BY <1>1, <1>3, GivenBack

(* Every step of a process moves its references like this.                 *)
LEMMA StepMoves ==
    ASSUME Inodes, Runs, NEW p \in Process, Step(p)
    PROVE  Moved(p)
BY ILockMoves, IUnlockMoves, IPutMoves, ITruncMoves, IPutDoneMoves,
   WalksMove, ElementMoves, OpenMoves, UseFileMoves, CloseMoves, ChdirMoves,
   LinkMoves, DirLinkMoves, LowerMoves, UnlinkMoves, UnlinkInodeMoves,
   CreateMoves, ExistingMoves, IGetMoves, CreatedMoves DEF Step, Routine

-----------------------------------------------------------------------------
(* The references of one process, counted.                                 *)
LEMMA MineIs ==
    ASSUME Runs, NEW p \in Process, NEW i \in Inum
    PROVE  IsFiniteSet(References(p, i)) /\ Cardinality(References(p, i)) = Mine(p, i)
<1>1. todo[p] \in Seq(Routines)
  BY DEF Runs, Lists
<1>2. References(p, i) = RefSet(cwd[p], file[p], call[p], todo[p], i)
  BY ReferencesIs
<1>3. QED
  BY <1>1, <1>2, RefSetCount DEF Mine

LEMMA MineIsNext ==
    ASSUME Runs', NEW p \in Process, NEW i \in Inum
    PROVE  IsFiniteSet(References(p, i)') /\ Cardinality(References(p, i)') = MineNext(p, i)
<1>1. todo'[p] \in Seq(Routines)
  BY DEF Runs, Lists
<1>2. References(p, i)' = RefSet(cwd'[p], file'[p], call'[p], todo'[p], i)
  BY ReferencesIs
<1>3. QED
  BY <1>1, <1>2, RefSetCount DEF MineNext

(* A step that moves the references of one process keeps the counts right. *)
LEMMA MovesCount ==
    ASSUME RInv, NEW p \in Process, Moved(p)
    PROVE  RInv'
<1> DEFINE R(i) == [q \in Process |-> References(q, i)]
           Q(i) == [q \in Process |-> References(q, i)']
<1>1. ASSUME NEW i \in Inum
      PROVE  icache'[i].ref = Cardinality(UNION {{q} \X References(q, i)' : q \in Process}) /\ icache'[i].ref >= 0
  <2>1. All(R(i)) = UNION {{q} \X References(q, i) : q \in Process}
    BY DEF All
  <2>2. All(Q(i)) = UNION {{q} \X References(q, i)' : q \in Process}
    BY DEF All
  <2>3. \A q \in Process : IsFiniteSet(R(i)[q]) /\ Cardinality(R(i)[q]) = Mine(q, i)
    BY MineIs DEF RInv
  <2>4. \A q \in Process : IsFiniteSet(Q(i)[q]) /\ Cardinality(Q(i)[q]) = MineNext(q, i)
    BY MineIsNext DEF Moved
  <2>5. ASSUME NEW q \in Process \ {p} PROVE R(i)[q] = Q(i)[q]
    <3>1. References(q, i)' = References(q, i)
      BY ReferencesIs DEF Moved, OthersKept
    <3>2. QED
      BY <3>1
  <2>6. icache[i].ref = Cardinality(All(R(i))) /\ icache[i].ref + MineNext(p, i) = icache'[i].ref + Mine(p, i)
    BY <2>1 DEF RInv, RefsAreHolders, Moved
  <2>7. icache'[i].ref \in Int
    BY DEF Moved, CacheSet
  <2> DEFINE a == R(i)
             b == Q(i)
  <2>8. All(b) = UNION {{q} \X References(q, i)' : q \in Process} /\ icache[i].ref = Cardinality(All(a))
    BY <2>2, <2>6
  <2> HIDE DEF a, b
  <2>9. IsFiniteSet(Process)
    BY InodeAssumption
  <2>10. Cardinality(All(b)) + Cardinality(a[p]) = Cardinality(All(a)) + Cardinality(b[p])
    BY <2>3, <2>4, <2>5, <2>9, AllMoves DEF a, b
  <2>11. /\ Cardinality(All(b)) \in Nat /\ Cardinality(All(a)) \in Nat
         /\ Cardinality(a[p]) \in Nat /\ Cardinality(b[p]) \in Nat
    BY <2>3, <2>4, <2>9, AllSplit DEF a, b
  <2>12. Cardinality(a[p]) = Mine(p, i) /\ Cardinality(b[p]) = MineNext(p, i)
    BY <2>3, <2>4 DEF a, b
  <2>13. icache'[i].ref = Cardinality(All(b))
    BY <2>6, <2>7, <2>8, <2>10, <2>11, <2>12
  <2>14. QED
    BY <2>8, <2>11, <2>13
<1>2. Inodes' /\ Runs'
  BY <1>1 DEF Moved, Inodes
<1>3. RefsAreHolders'
  BY <1>1 DEF RefsAreHolders
<1>4. QED
  BY <1>2, <1>3 DEF RInv

(* At first each process has the root for its directory.                   *)
LEMMA InitTypes == Init => Inodes /\ Runs
<1> SUFFICES ASSUME Init PROVE Inodes /\ Runs
  OBVIOUS
<1>1. Root \in DInodeSet /\ FreeInode \in DInodeSet
  BY InodeAssumption DEF Root, FreeInode, NoEntries, DInodeSet, Types, Names
<1>2. Cardinality(Process) \in Nat
  BY InodeAssumption, FS_CardinalityType
<1>3. Uncached \in CacheSet /\ [Uncached EXCEPT !.ref = Cardinality(Process)] \in CacheSet
      /\ Uncached.ref = 0 /\ [Uncached EXCEPT !.ref = Cardinality(Process)].ref = Cardinality(Process)
  <2>1. Uncached \in CacheSet /\ Uncached.ref = 0
    BY DEF Uncached, CacheSet, Types
  <2>2. \A n \in Nat : [Uncached EXCEPT !.ref = n] \in CacheSet /\ [Uncached EXCEPT !.ref = n].ref = n
    BY <2>1 DEF CacheSet
  <2>3. QED
    BY <1>2, <2>1, <2>2
<1>4. dinode \in [Inum -> DInodeSet]
  BY <1>1 DEF Init
<1>5. icache \in [Inum -> CacheSet] /\ \A i \in Inum : icache[i].ref = IF i = ROOTINO THEN Cardinality(Process) ELSE 0
  BY <1>3 DEF Init
<1>6. Inodes
  BY <1>2, <1>4, <1>5 DEF Inodes
<1>7. Runs
  <2>1. ROOTINO \in Inum /\ "user" \in Points
    BY InodeAssumption DEF Points
  <2>2. <<>> \in Lists /\ NoCall \in CallSet /\ CallIs("user", NoCall) /\ \A f : CallFile(NoCall, f)
    BY RoutineTypes, NoCallType
  <2>3. cwd \in [Process -> Inum] /\ file \in [Process -> Inum \cup {None}]
    BY <2>1 DEF Init
  <2>4. pc \in [Process -> Points] /\ todo \in [Process -> Lists] /\ call \in [Process -> CallSet]
    BY <2>1, <2>2 DEF Init
  <2>5. ASSUME NEW p \in Process PROVE CallIs(pc[p], call[p]) /\ CallFile(call[p], file[p])
    <3>1. pc[p] = "user" /\ call[p] = NoCall
      BY DEF Init
    <3>2. QED
      BY <2>2, <3>1
  <2>6. QED
    BY <2>3, <2>4, <2>5 DEF Runs
<1>8. QED
  BY <1>6, <1>7

LEMMA InitCounts == Init => RefsAreHolders
<1> SUFFICES ASSUME Init, NEW i \in Inum
             PROVE  icache[i].ref = Cardinality(UNION {{p} \X References(p, i) : p \in Process})
  BY DEF RefsAreHolders
<1>1. IsFiniteSet(Process) /\ Cardinality(Process) \in Nat
  BY InodeAssumption, FS_CardinalityType
<1>2. icache[i].ref = IF i = ROOTINO THEN Cardinality(Process) ELSE 0
  BY DEF Init, Uncached
<1>3. ASSUME NEW p \in Process
      PROVE  References(p, i) = IF i = ROOTINO THEN {<<"cwd", ROOTINO>>} ELSE {}
  <2>1. cwd[p] = ROOTINO /\ file[p] = None /\ Ip(p) = None /\ Dp(p) = None /\ todo[p] = <<>> /\ i # None
    BY InodeAssumption DEF Init, Ip, Dp, NoCall
  <2>2. DOMAIN todo[p] = {}
    BY <2>1
  <2>3. QED
    BY <2>1, <2>2 DEF References
<1>4. CASE i = ROOTINO
  <2> DEFINE one == {<<"cwd", ROOTINO>>}
  <2>1. UNION {{p} \X References(p, i) : p \in Process} = Process \X one
    <3>1. \A p \in Process : References(p, i) = one
      BY <1>3, <1>4
    <3> HIDE DEF one
    <3>2. QED
      BY <3>1
  <2>2. IsFiniteSet(one) /\ Cardinality(one) = 1
    BY FS_Singleton
  <2> HIDE DEF one
  <2>3. Cardinality(Process \X one) = Cardinality(Process) * Cardinality(one)
    BY <1>1, <2>2, FS_Product
  <2>4. Cardinality(Process) * Cardinality(one) = Cardinality(Process)
    BY <1>1, <2>2
  <2>5. icache[i].ref = Cardinality(Process)
    BY <1>2, <1>4
  <2>6. QED
    BY <2>1, <2>3, <2>4, <2>5, Zenon
<1>5. CASE i # ROOTINO
  <2>1. UNION {{p} \X References(p, i) : p \in Process} = {}
    BY <1>3, <1>5
  <2>2. QED
    BY <1>2, <1>5, <2>1, FS_EmptySet
<1>6. QED
  BY <1>4, <1>5

LEMMA RefsStutter == RInv /\ UNCHANGED vars => RInv'
<1> SUFFICES ASSUME RInv, UNCHANGED vars PROVE RInv'
  OBVIOUS
<1>1. UNCHANGED <<dinode, icache, cwd, file, pc, todo, call>>
  BY DEF vars
<1>2. Inodes' /\ Runs'
  BY <1>1 DEF RInv, Inodes, Runs
<1>3. \A p, i : References(p, i)' = References(p, i)
  BY <1>1, ReferencesIs
<1>4. RefsAreHolders'
  BY <1>1, <1>3 DEF RInv, RefsAreHolders
<1>5. QED
  BY <1>2, <1>4 DEF RInv

(* The count of references of an inode is the number of those who have it, *)
(* whatever calls run at once and however they fail: iget, idup, iput and  *)
(* the calls of sysfile.c drop no reference twice and keep none.           *)
THEOREM RefsCorrect == Spec => []RefsAreHolders
<1>1. Init => RInv
  BY InitTypes, InitCounts DEF RInv
<1>2. RInv /\ [Next]_vars => RInv'
  <2>1. RInv /\ Next => RInv'
    BY StepMoves, MovesCount DEF RInv, Next
  <2>2. QED
    BY <2>1, RefsStutter
<1>3. RInv => RefsAreHolders
  BY DEF RInv
<1>4. QED
  BY <1>1, <1>2, <1>3, PTL DEF Spec

-----------------------------------------------------------------------------
(* Locks.  A list of routines takes the inodes X that a process has locked *)
(* to Y, and whatever is locked on the way is held: by one of Q, or by a   *)
(* routine that will give it back.                                         *)
Putting(s) == {i \in Inum : Places(s, i) # {}}

Turns(x, X, Y) ==
    \/ x[1] = "ilock" /\ X = {} /\ Y = {x[2]}
    \/ x[1] = "iunlock" /\ x[2] \in X /\ Y = X \ {x[2]}
    \/ x[1] = "iput" /\ Y = X

Puttings(s, k) == {i \in Inum : \E m \in k .. Len(s) : s[m][1] \in Puts /\ s[m][2] = i}

Path(s, X, Y, Q) ==
    \E h \in [1 .. Len(s) + 1 -> SUBSET Inum] :
        /\ h[1] = X /\ h[Len(s) + 1] = Y
        /\ \A k \in 1 .. Len(s) : Turns(s[k], h[k], h[k + 1])
        /\ \A k \in 1 .. Len(s) + 1 : h[k] \subseteq Q \cup Puttings(s, k)

LEMMA PuttingsIs ==
    ASSUME NEW s \in Lists
    PROVE  Puttings(s, 1) = Putting(s) /\ Puttings(s, Len(s) + 1) = {} /\ Len(s) \in Nat /\ DOMAIN s = 1 .. Len(s)
<1>1. Len(s) \in Nat /\ DOMAIN s = 1 .. Len(s)
  BY DEF Lists
<1> DEFINE n == Len(s)
<1>2. n \in Nat /\ DOMAIN s = 1 .. n
  BY <1>1
<1>3. Puttings(s, n + 1) = {i \in Inum : \E m \in n + 1 .. n : s[m][1] \in Puts /\ s[m][2] = i}
  BY DEF Puttings
<1>4. n + 1 .. n = {}
  BY <1>2
<1>5. Puttings(s, n + 1) = {}
  BY <1>3, <1>4
<1>6. Puttings(s, 1) = Putting(s)
  BY <1>2 DEF Puttings, Putting, Places
<1>7. QED
  BY <1>1, <1>5, <1>6

LEMMA PathEmpty ==
    ASSUME NEW X, NEW Y, NEW Q
    PROVE  /\ Path(<<>>, X, Y, Q) => X = Y /\ X \subseteq Q
           /\ X = Y /\ X \subseteq Q /\ X \in SUBSET Inum => Path(<<>>, X, Y, Q)
<1>1. Len(<<>>) = 0 /\ Puttings(<<>>, 1) = {} /\ 0 + 1 = 1 /\ 1 .. 0 = {} /\ 1 .. 1 = {1}
  BY DEF Puttings
<1>2. ASSUME Path(<<>>, X, Y, Q) PROVE X = Y /\ X \subseteq Q
  <2>1. PICK h \in [1 .. 0 + 1 -> SUBSET Inum] :
          /\ h[1] = X /\ h[0 + 1] = Y
          /\ \A k \in 1 .. 0 + 1 : h[k] \subseteq Q \cup Puttings(<<>>, k)
    BY <1>1, <1>2 DEF Path
  <2>2. QED
    BY <1>1, <2>1
<1>3. ASSUME X = Y, X \subseteq Q, X \in SUBSET Inum PROVE Path(<<>>, X, Y, Q)
  <2> DEFINE h == [k \in 1 .. 1 |-> X]
  <2>1. h \in [1 .. 1 -> SUBSET Inum] /\ h[1] = X /\ h[1] = Y
    BY <1>1, <1>3
  <2> HIDE DEF h
  <2>2. \A k \in 1 .. 1 : h[k] \subseteq Q \cup Puttings(<<>>, k)
    BY <1>1, <1>3, <2>1
  <2>3. QED
    BY <1>1, <2>1, <2>2 DEF Path
<1>4. QED
  BY <1>2, <1>3

LEMMA PathOne ==
    ASSUME NEW x \in Routines, NEW X \in SUBSET Inum, NEW Y \in SUBSET Inum, NEW Q, Turns(x, X, Y),
           X \subseteq Q \cup (IF x[1] \in Puts THEN {x[2]} ELSE {}), Y \subseteq Q
    PROVE  Path(<<x>>, X, Y, Q)
<1> DEFINE s == <<x>>
           h == [k \in 1 .. 2 |-> IF k = 1 THEN X ELSE Y]
<1>1. s \in Lists /\ Len(s) = 1 /\ s[1] = x /\ 1 .. 1 = {1} /\ 1 .. 2 = {1, 2} /\ 1 + 1 = 2
  BY DEF Lists
<1>2. h \in [1 .. 2 -> SUBSET Inum] /\ h[1] = X /\ h[2] = Y
  BY <1>1
<1>3. Puttings(s, 1) = IF x[1] \in Puts THEN {x[2]} ELSE {}
  <2>1. x[2] \in Inum
    BY DEF Routines
  <2> HIDE DEF s
  <2>2. QED
    BY <1>1, <2>1 DEF Puttings
<1> HIDE DEF s, h
<1>4. \A k \in 1 .. 1 : Turns(s[k], h[k], h[k + 1])
  BY <1>1, <1>2
<1>5. \A k \in 1 .. 2 : h[k] \subseteq Q \cup Puttings(s, k)
  BY <1>1, <1>2, <1>3
<1>6. Path(s, X, Y, Q)
  BY <1>1, <1>2, <1>4, <1>5 DEF Path
<1>7. QED
  BY <1>6 DEF s

LEMMA PathJoined ==
    ASSUME NEW s \in Lists, NEW t \in Lists, NEW X, NEW Y, NEW Z, NEW P, NEW Q,
           Path(s, X, Y, P), Path(t, Y, Z, Q), P \subseteq Q \cup Putting(t)
    PROVE  Path(s \o t, X, Z, Q)
<1> DEFINE m == Len(s)
           n == Len(t)
           u == s \o t
<1>1. m \in Nat /\ n \in Nat /\ Puttings(t, 1) = Putting(t)
  BY PuttingsIs
<1>2. Len(u) = m + n /\ \A k \in 1 .. m + n : u[k] = IF k <= m THEN s[k] ELSE t[k - m]
  BY ConcatProperties DEF Lists
<1>3. PICK f \in [1 .. m + 1 -> SUBSET Inum] :
        /\ f[1] = X /\ f[m + 1] = Y
        /\ \A k \in 1 .. m : Turns(s[k], f[k], f[k + 1])
        /\ \A k \in 1 .. m + 1 : f[k] \subseteq P \cup Puttings(s, k)
  BY DEF Path
<1>4. PICK g \in [1 .. n + 1 -> SUBSET Inum] :
        /\ g[1] = Y /\ g[n + 1] = Z
        /\ \A k \in 1 .. n : Turns(t[k], g[k], g[k + 1])
        /\ \A k \in 1 .. n + 1 : g[k] \subseteq Q \cup Puttings(t, k)
  BY DEF Path
<1> DEFINE h == [k \in 1 .. m + n + 1 |-> IF k <= m THEN f[k] ELSE g[k - m]]
<1> HIDE DEF m, n, u
<1>5. /\ h \in [1 .. m + n + 1 -> SUBSET Inum]
      /\ \A k \in 1 .. m + 1 : h[k] = f[k]
      /\ \A k \in 1 .. n + 1 : h[m + k] = g[k]
  <2>1. ASSUME NEW k \in 1 .. m + n + 1 PROVE (IF k <= m THEN f[k] ELSE g[k - m]) \in SUBSET Inum
    <3>1. CASE k <= m
      <4>1. k \in 1 .. m + 1
        BY <1>1, <3>1
      <4>2. QED
        BY <3>1, <4>1
    <3>2. CASE ~(k <= m)
      <4>1. k - m \in 1 .. n + 1
        BY <1>1, <3>2
      <4>2. QED
        BY <3>2, <4>1
    <3>3. QED
      BY <3>1, <3>2
  <2>2. h \in [1 .. m + n + 1 -> SUBSET Inum]
    BY <2>1
  <2>3. ASSUME NEW k \in 1 .. m + 1 PROVE h[k] = f[k]
    <3>1. k \in 1 .. m + n + 1
      BY <1>1
    <3>2. CASE k <= m
      BY <3>1, <3>2
    <3>3. CASE ~(k <= m)
      <4>1. k = m + 1 /\ k - m = 1
        BY <1>1, <3>3
      <4>2. QED
        BY <1>3, <1>4, <3>1, <3>3, <4>1
    <3>4. QED
      BY <3>2, <3>3
  <2>4. ASSUME NEW k \in 1 .. n + 1 PROVE h[m + k] = g[k]
    <3>1. m + k \in 1 .. m + n + 1 /\ ~(m + k <= m) /\ (m + k) - m = k
      BY <1>1
    <3>2. QED
      BY <3>1
  <2>5. QED
    BY <2>2, <2>3, <2>4
<1> HIDE DEF h
<1>6. h[1] = X /\ h[m + n + 1] = Z
  <2>1. 1 \in 1 .. m + 1 /\ n + 1 \in 1 .. n + 1 /\ m + (n + 1) = m + n + 1
    BY <1>1
  <2>2. QED
    BY <1>3, <1>4, <1>5, <2>1
<1>7. ASSUME NEW k \in 1 .. m + n PROVE Turns(u[k], h[k], h[k + 1])
  <2>1. CASE k <= m
    <3>1. k \in 1 .. m /\ k \in 1 .. m + 1 /\ k + 1 \in 1 .. m + 1
      BY <1>1, <2>1
    <3>2. QED
      BY <1>2, <1>3, <1>5, <2>1, <3>1
  <2>2. CASE ~(k <= m)
    <3>1. /\ k - m \in 1 .. n /\ k - m \in 1 .. n + 1 /\ (k - m) + 1 \in 1 .. n + 1
          /\ m + (k - m) = k /\ m + ((k - m) + 1) = k + 1
      BY <1>1, <2>2
    <3>2. h[k] = g[k - m] /\ h[k + 1] = g[(k - m) + 1]
      BY <1>5, <3>1
    <3>3. QED
      BY <1>2, <1>4, <2>2, <3>1, <3>2
  <2>3. QED
    BY <2>1, <2>2
<1>8. ASSUME NEW k \in 1 .. n + 1 PROVE Puttings(t, k) \subseteq Puttings(u, m + k)
  <2>1. ASSUME NEW i \in Inum, NEW j \in k .. n, t[j][1] \in Puts, t[j][2] = i
        PROVE  \E l \in m + k .. m + n : u[l][1] \in Puts /\ u[l][2] = i
    <3>1. j + m \in m + k .. m + n /\ j + m \in 1 .. m + n /\ ~(j + m <= m) /\ (j + m) - m = j
      BY <1>1
    <3>2. u[j + m] = t[j]
      BY <1>2, <3>1
    <3>3. QED
      BY <2>1, <3>1, <3>2
  <2>2. QED
    BY <1>2, <2>1 DEF Puttings, n
<1>9. ASSUME NEW k \in 1 .. m + 1 PROVE Puttings(s, k) \subseteq Puttings(u, k)
  <2>1. ASSUME NEW i \in Inum, NEW j \in k .. m, s[j][1] \in Puts, s[j][2] = i
        PROVE  \E l \in k .. m + n : u[l][1] \in Puts /\ u[l][2] = i
    <3>1. j \in k .. m + n /\ j \in 1 .. m + n /\ j <= m
      BY <1>1
    <3>2. u[j] = s[j]
      BY <1>2, <3>1
    <3>3. QED
      BY <2>1, <3>1, <3>2
  <2>2. QED
    BY <1>2, <2>1 DEF Puttings, m
<1>10. ASSUME NEW k \in 1 .. m + 1 PROVE Putting(t) \subseteq Puttings(u, k)
  <2>1. Putting(t) \subseteq Puttings(u, m + 1)
    <3>1. 1 \in 1 .. n + 1
      BY <1>1
    <3>2. QED
      BY <1>1, <1>8, <3>1
  <2>2. Puttings(u, m + 1) \subseteq Puttings(u, k)
    <3>1. m + 1 .. m + n \subseteq k .. m + n
      BY <1>1
    <3>2. QED
      BY <1>2, <3>1 DEF Puttings
  <2>3. QED
    BY <2>1, <2>2
<1>11. ASSUME NEW k \in 1 .. m + n + 1 PROVE h[k] \subseteq Q \cup Puttings(u, k)
  <2>1. CASE k <= m
    <3>1. k \in 1 .. m + 1
      BY <1>1, <2>1
    <3>2. h[k] \subseteq P \cup Puttings(s, k)
      BY <1>3, <1>5, <3>1
    <3>3. P \subseteq Q \cup Puttings(u, k) /\ Puttings(s, k) \subseteq Puttings(u, k)
      BY <1>9, <1>10, <3>1
    <3>4. QED
      BY <3>2, <3>3
  <2>2. CASE ~(k <= m)
    <3>1. k - m \in 1 .. n + 1 /\ m + (k - m) = k
      BY <1>1, <2>2
    <3>2. h[k] \subseteq Q \cup Puttings(t, k - m)
      BY <1>4, <1>5, <3>1
    <3>3. Puttings(t, k - m) \subseteq Puttings(u, k)
      BY <1>8, <3>1
    <3>4. QED
      BY <3>2, <3>3
  <2>3. QED
    BY <2>1, <2>2
<1>12. Path(u, X, Z, Q)
  BY <1>2, <1>5, <1>6, <1>7, <1>11 DEF Path
<1>13. QED
  BY <1>12 DEF u

(* What the first routine does, and the rest.                              *)
LEMMA PathHead ==
    ASSUME NEW s \in Lists, s # <<>>, NEW X, NEW Y, NEW Q, Path(s, X, Y, Q)
    PROVE  \E Z \in SUBSET Inum :
             /\ X \in SUBSET Inum /\ Turns(Head(s), X, Z) /\ Path(Tail(s), Z, Y, Q)
             /\ X \subseteq Q \cup Putting(s) /\ Z \subseteq Q \cup Putting(Tail(s))
<1> DEFINE n == Len(s)
           t == Tail(s)
<1>1. n \in Nat \ {0} /\ Head(s) = s[1] /\ t \in Lists /\ Len(t) = n - 1 /\ \A k \in 1 .. n - 1 : t[k] = s[k + 1]
  BY EmptySeq, HeadTailProperties DEF Lists
<1>2. PICK f \in [1 .. n + 1 -> SUBSET Inum] :
        /\ f[1] = X /\ f[n + 1] = Y
        /\ \A k \in 1 .. n : Turns(s[k], f[k], f[k + 1])
        /\ \A k \in 1 .. n + 1 : f[k] \subseteq Q \cup Puttings(s, k)
  BY DEF Path
<1>3. Puttings(s, 1) = Putting(s) /\ Puttings(t, 1) = Putting(t)
  BY <1>1, PuttingsIs
<1> DEFINE g == [k \in 1 .. n |-> f[k + 1]]
<1> HIDE DEF n, t
<1>4. g \in [1 .. n -> SUBSET Inum] /\ g[1] = f[2] /\ g[n] = Y /\ (n - 1) + 1 = n /\ f[2] \in SUBSET Inum
  <2>1. \A k \in 1 .. n : k + 1 \in 1 .. n + 1
    BY <1>1
  <2>2. 1 \in 1 .. n /\ n \in 1 .. n /\ 1 + 1 = 2 /\ (n - 1) + 1 = n
    BY <1>1
  <2>3. QED
    BY <1>2, <2>1, <2>2
<1>5. ASSUME NEW k \in 1 .. n - 1 PROVE Turns(t[k], g[k], g[k + 1])
  <2>1. k \in 1 .. n /\ k + 1 \in 1 .. n
    BY <1>1
  <2>2. QED
    BY <1>1, <1>2, <2>1
<1>6. ASSUME NEW k \in 1 .. n PROVE g[k] \subseteq Q \cup Puttings(t, k)
  <2>1. k + 1 \in 1 .. n + 1
    BY <1>1
  <2>2. Puttings(s, k + 1) \subseteq Puttings(t, k)
    <3>1. ASSUME NEW i \in Inum, NEW j \in k + 1 .. n, s[j][1] \in Puts, s[j][2] = i
          PROVE  \E l \in k .. n - 1 : t[l][1] \in Puts /\ t[l][2] = i
      <4>1. j - 1 \in k .. n - 1 /\ j - 1 \in 1 .. n - 1 /\ (j - 1) + 1 = j
        BY <1>1
      <4>2. t[j - 1] = s[j]
        BY <1>1, <4>1
      <4>3. QED
        BY <3>1, <4>1, <4>2
    <3>2. QED
      BY <1>1, <3>1 DEF Puttings, n
  <2>3. QED
    BY <1>2, <2>1, <2>2
<1> HIDE DEF g
<1>7. Path(t, f[2], Y, Q)
  <2>1. Len(t) + 1 = n
    BY <1>1
  <2>2. QED
    BY <1>1, <1>4, <1>5, <1>6, <2>1 DEF Path
<1>8. Turns(Head(s), X, f[2]) /\ X \subseteq Q \cup Putting(s) /\ f[2] \subseteq Q \cup Putting(t) /\ X \in SUBSET Inum
  <2>1. 1 \in 1 .. n /\ 1 \in 1 .. n + 1 /\ 1 + 1 = 2
    BY <1>1
  <2>2. f[2] \subseteq Q \cup Puttings(t, 1)
    BY <1>4, <1>6, <2>1
  <2>3. QED
    BY <1>1, <1>2, <1>3, <2>1, <2>2
<1>9. QED
  BY <1>4, <1>7, <1>8 DEF t

LEMMA PathWider ==
    ASSUME NEW s, NEW X, NEW Y, NEW P, NEW Q, Path(s, X, Y, P), P \subseteq Q
    PROVE  Path(s, X, Y, Q)
BY DEF Path

LEMMA PuttingTimes ==
    ASSUME NEW s \in Lists, NEW i \in Inum
    PROVE  i \in Putting(s) <=> Times(s, i) > 0
<1>1. IsFiniteSet(Places(s, i)) /\ Times(s, i) \in Nat
  BY PlacesFinite DEF Lists
<1>2. Places(s, i) = {} <=> Times(s, i) = 0
  BY <1>1, FS_EmptySet DEF Times
<1>3. QED
  BY <1>1, <1>2 DEF Putting

LEMMA PuttingLists ==
    /\ Putting(<<>>) = {}
    /\ \A i \in Inum : /\ Putting(<<LockIt(i)>>) = {} /\ Putting(<<UnlockIt(i)>>) = {}
                       /\ Putting(<<PutIt(i)>>) = {i} /\ Putting(UnlockPutIt(i)) = {i}
<1>1. ASSUME NEW s \in Lists PROVE Putting(s) = {j \in Inum : Times(s, j) > 0}
  BY PuttingTimes DEF Putting
<1>2. Putting(<<>>) = {}
  BY <1>1, RoutineTypes, RoutineTimes
<1>3. ASSUME NEW i \in Inum
      PROVE  /\ Putting(<<LockIt(i)>>) = {} /\ Putting(<<UnlockIt(i)>>) = {}
             /\ Putting(<<PutIt(i)>>) = {i} /\ Putting(UnlockPutIt(i)) = {i}
  <2>1. ASSUME NEW s \in Lists, \A j : Times(s, j) = 0 PROVE Putting(s) = {}
    <3>1. \A j \in Inum : ~(Times(s, j) > 0)
      BY <2>1
    <3>2. QED
      BY <1>1, <3>1
  <2>2. ASSUME NEW s \in Lists, \A j : Times(s, j) = Is(i, j) PROVE Putting(s) = {i}
    <3>1. \A j \in Inum : Times(s, j) > 0 <=> j = i
      BY <2>2 DEF Is
    <3>2. QED
      BY <1>1, <3>1
  <2>3. Putting(<<LockIt(i)>>) = {}
    BY <2>1, RoutineTypes, RoutineTimes
  <2>4. Putting(<<UnlockIt(i)>>) = {}
    BY <2>1, RoutineTypes, RoutineTimes
  <2>5. Putting(<<PutIt(i)>>) = {i}
    BY <2>2, RoutineTypes, RoutineTimes
  <2>6. Putting(UnlockPutIt(i)) = {i}
    BY <2>2, RoutineTypes, RoutineTimes
  <2>7. QED
    BY <2>3, <2>4, <2>5, <2>6
<1>4. QED
  BY <1>2, <1>3

LEMMA OnePaths ==
    ASSUME NEW i \in Inum, NEW X \in SUBSET Inum, NEW Q, X \subseteq Q
    PROVE  /\ i \in Q => Path(<<LockIt(i)>>, {}, {i}, Q)
           /\ i \in X => Path(<<UnlockIt(i)>>, X, X \ {i}, Q)
           /\ Path(<<PutIt(i)>>, X, X, Q)
<1>1. LockIt(i) \in Routines /\ UnlockIt(i) \in Routines /\ PutIt(i) \in Routines
  BY RoutineTypes
<1>2. /\ LockIt(i)[1] = "ilock" /\ LockIt(i)[2] = i
      /\ UnlockIt(i)[1] = "iunlock" /\ UnlockIt(i)[2] = i
      /\ PutIt(i)[1] = "iput" /\ PutIt(i)[2] = i
  BY DEF LockIt, UnlockIt, PutIt
<1>3. /\ Turns(LockIt(i), {}, {i}) /\ Turns(PutIt(i), X, X)
      /\ i \in X => Turns(UnlockIt(i), X, X \ {i})
  BY <1>2 DEF Turns
<1>4. /\ {i} \in SUBSET Inum /\ {} \in SUBSET Inum /\ X \ {i} \in SUBSET Inum /\ X \ {i} \subseteq Q
      /\ (i \in Q => {i} \subseteq Q) /\ {} \subseteq Q
  OBVIOUS
<1>5. i \in Q => Path(<<LockIt(i)>>, {}, {i}, Q)
  BY <1>1, <1>3, <1>4, PathOne
<1>6. i \in X => Path(<<UnlockIt(i)>>, X, X \ {i}, Q)
  BY <1>1, <1>3, <1>4, PathOne
<1>7. Path(<<PutIt(i)>>, X, X, Q)
  BY <1>1, <1>3, <1>4, PathOne
<1>8. QED
  BY <1>5, <1>6, <1>7

(* iunlockput gives back what is locked, whoever else has it.              *)
LEMMA UnlockPutPath ==
    ASSUME NEW i \in Inum, NEW X \in SUBSET Inum, i \in X, NEW Q, X \ {i} \subseteq Q
    PROVE  Path(UnlockPutIt(i), X, X \ {i}, Q)
<1>1. Path(<<UnlockIt(i)>>, X, X \ {i}, Q \cup {i})
  BY OnePaths
<1>2. Path(<<PutIt(i)>>, X \ {i}, X \ {i}, Q)
  BY OnePaths
<1>3. <<UnlockIt(i)>> \in Lists /\ <<PutIt(i)>> \in Lists /\ Putting(<<PutIt(i)>>) = {i}
  BY RoutineTypes, PuttingLists
<1>4. Path(<<UnlockIt(i)>> \o <<PutIt(i)>>, X, X \ {i}, Q)
  BY <1>1, <1>2, <1>3, PathJoined
<1>5. UnlockPutIt(i) = <<UnlockIt(i)>> \o <<PutIt(i)>>
  BY <1>3 DEF UnlockPutIt, Lists
<1>6. QED
  BY <1>4, <1>5

LEMMA UnlockPutOne ==
    ASSUME NEW i \in Inum, NEW Q
    PROVE  Path(UnlockPutIt(i), {i}, {}, Q)
<1>1. {i} \ {i} = {} /\ {i} \in SUBSET Inum
  OBVIOUS
<1>2. QED
  BY <1>1, UnlockPutPath

(* One more routine at the end.                                            *)
LEMMA PathThen ==
    ASSUME NEW r \in Lists, NEW i \in Inum, NEW X, NEW P, NEW Q, P \subseteq Q
    PROVE  /\ Path(r, X, {}, P) /\ i \in Q => Path(r \o <<LockIt(i)>>, X, {i}, Q)
           /\ Path(r, X, {}, P) => Path(r \o <<PutIt(i)>>, X, {}, Q)
           /\ Path(r, X, {i}, P) /\ i \in Q => Path(r \o <<UnlockIt(i)>>, X, {}, Q)
           /\ Path(r, X, {i}, P \cup {i}) => Path(r \o UnlockPutIt(i), X, {}, Q)
<1>1. {} \in SUBSET Inum /\ {i} \in SUBSET Inum /\ {i} \ {i} = {}
  OBVIOUS
<1>2. /\ <<LockIt(i)>> \in Lists /\ <<PutIt(i)>> \in Lists /\ <<UnlockIt(i)>> \in Lists /\ UnlockPutIt(i) \in Lists
      /\ Putting(UnlockPutIt(i)) = {i}
  BY RoutineTypes, PuttingLists
<1>3. Path(<<PutIt(i)>>, {}, {}, Q) /\ Path(UnlockPutIt(i), {i}, {}, Q)
  BY <1>1, OnePaths, UnlockPutOne
<1>4. i \in Q => Path(<<LockIt(i)>>, {}, {i}, Q) /\ Path(<<UnlockIt(i)>>, {i}, {}, Q)
  <2>1. ASSUME i \in Q PROVE Path(<<LockIt(i)>>, {}, {i}, Q) /\ Path(<<UnlockIt(i)>>, {i}, {i} \ {i}, Q)
    BY <1>1, <2>1, OnePaths
  <2>2. QED
    BY <1>1, <2>1
<1>5. Path(r, X, {}, P) => Path(r \o <<PutIt(i)>>, X, {}, Q)
  BY <1>2, <1>3, PathJoined
<1>6. Path(r, X, {}, P) /\ i \in Q => Path(r \o <<LockIt(i)>>, X, {i}, Q)
  BY <1>2, <1>4, PathJoined
<1>7. Path(r, X, {i}, P) /\ i \in Q => Path(r \o <<UnlockIt(i)>>, X, {}, Q)
  BY <1>2, <1>4, PathJoined
<1>8. Path(r, X, {i}, P \cup {i}) => Path(r \o UnlockPutIt(i), X, {}, Q)
  BY <1>2, <1>3, PathJoined
<1>9. QED
  BY <1>5, <1>6, <1>7, <1>8

-----------------------------------------------------------------------------
(* What a process has locked when it goes on with its call, and what it    *)
(* has besides the routines that are still to be run.                      *)
LockedAt(l, c) ==
    CASE l \in {"element", "unlink", "create", "iget"} -> {c.dp}
      [] l \in {"open", "chdir", "badlink", "unlinked", "existing"} -> {c.ip}
      [] l = "link" -> IF c.parent THEN {c.dp} ELSE {c.ip}
      [] l \in {"unlinkinode", "created"} -> {c.dp, c.ip}
      [] l \in {"user", "nameiparent"} -> {}
KeptAt(w, f, c) == {w, f, c.ip, c.dp} \ {None}

HeldBy(p) == {i \in Inum : icache[i].busy = p}
Kept(p)   == KeptAt(cwd[p], file[p], call[p])

(* A second inode is locked only by unlink and create, which have locked   *)
(* its directory.                                                          *)
LocksAt(l, c, s, X, Q) ==
    IF l \in {"unlinkinode", "created"}
    THEN (s = <<>> /\ c.ip # c.dp /\ X = {c.dp, c.ip}) \/ (s = <<LockIt(c.ip)>> /\ X = {c.dp})
    ELSE Path(s, X, LockedAt(l, c), Q)

(* Who frees an inode has locked it besides.                               *)
Freeing(p)  == First(p, "itrunc") \/ First(p, "iputdone")
LockPath(p) ==
    IF Freeing(p)
    THEN Subject(p) \in HeldBy(p) /\ LocksAt(pc[p], call[p], Tail(todo[p]), HeldBy(p) \ {Subject(p)}, Kept(p))
    ELSE LocksAt(pc[p], call[p], todo[p], HeldBy(p), Kept(p))

LInv == RInv /\ \A p \in Process : LockPath(p)

(* A step of a call leads to this, from the locks X.                       *)
Leads(p, X) == LocksAt(pc'[p], call'[p], todo'[p], X, KeptAt(cwd'[p], file'[p], call'[p]))

-----------------------------------------------------------------------------
(* Where a call leads.                                                     *)
LEMMA LeadsTo ==
    ASSUME Runs, NEW p \in Process, NEW l, NEW c, NEW s, NEW X,
           pc' = [pc EXCEPT ![p] = l], call' = [call EXCEPT ![p] = c], todo' = [todo EXCEPT ![p] = s],
           LocksAt(l, c, s, X, KeptAt(cwd'[p], file'[p], c))
    PROVE  Leads(p, X)
<1>1. pc'[p] = l /\ call'[p] = c /\ todo'[p] = s
  BY DEF Runs
<1>2. QED
  BY <1>1 DEF Leads

LEMMA ReturnLeads ==
    ASSUME Runs, NEW p \in Process, NEW r, NEW X, Return(p, r),
           Path(r, X, {}, {cwd'[p], file'[p]} \ {None})
    PROVE  Leads(p, X)
<1>1. LockedAt("user", NoCall) = {} /\ {cwd'[p], file'[p]} \ {None} \subseteq KeptAt(cwd'[p], file'[p], NoCall)
  BY DEF LockedAt, KeptAt
<1>2. Path(r, X, LockedAt("user", NoCall), KeptAt(cwd'[p], file'[p], NoCall))
  BY <1>1, PathWider
<1>3. QED
  BY <1>2, LeadsTo DEF LocksAt, Return, Then

LEMMA ReturnPuts ==
    ASSUME Runs, NEW p \in Process, NEW r, NEW X, Return(p, r), Path(r, X, {}, {})
    PROVE  Leads(p, X)
<1>1. Path(r, X, {}, {cwd'[p], file'[p]} \ {None})
  BY PathWider
<1>2. QED
  BY <1>1, ReturnLeads

LEMMA FailLeads ==
    ASSUME Runs, NEW p \in Process, NEW r \in Lists, NEW X, Fail(p, r), Path(r, X, {}, {})
    PROVE  Leads(p, X)
<1>1. CASE call[p].op = "link" /\ Ip(p) # None
  <2> DEFINE c == [NoCall EXCEPT !.op = "link", !.ip = Ip(p)]
             s == r \o <<LockIt(Ip(p))>>
  <2>1. Ip(p) \in Inum
    BY <1>1, CallTypes
  <2>2. c.ip = Ip(p)
    BY DEF NoCall
  <2>3. pc' = [pc EXCEPT ![p] = "badlink"] /\ call' = [call EXCEPT ![p] = c] /\ todo' = [todo EXCEPT ![p] = s]
    BY <1>1 DEF Fail, Then
  <2>4. LockedAt("badlink", c) = {Ip(p)} /\ Ip(p) \in KeptAt(cwd'[p], file'[p], c)
    BY <1>1, <2>2 DEF LockedAt, KeptAt
  <2>5. {} \subseteq KeptAt(cwd'[p], file'[p], c)
    OBVIOUS
  <2> HIDE DEF c
  <2>6. Path(s, X, LockedAt("badlink", c), KeptAt(cwd'[p], file'[p], c))
    BY <2>1, <2>4, <2>5, PathThen
  <2> HIDE DEF s
  <2>7. QED
    BY <2>3, <2>6, LeadsTo DEF LocksAt
<1>2. CASE ~(call[p].op = "link" /\ Ip(p) # None)
  <2>1. Return(p, r)
    BY <1>2 DEF Fail
  <2>2. QED
    BY <2>1, ReturnPuts
<1>3. QED
  BY <1>1, <1>2

LEMMA NameXLeads ==
    ASSUME Runs, NEW p \in Process, NEW c \in CallSet, WalkOK(c), NEW r \in Lists, NEW X, NameX(p, c, r),
           Path(r, X, {}, {})
    PROVE  Leads(p, X)
<1> DEFINE s == r \o <<LockIt(c.dp)>>
<1>0. c.dp \in Inum /\ c.dp # None
  BY InodeAssumption DEF WalkOK
<1>1. \A Q : c.dp \in Q => Path(s, X, {c.dp}, Q)
  BY <1>0, PathThen
<1>2. CASE c.names # <<>> /\ call' = [call EXCEPT ![p] = c] /\ Then(p, s, "element")
  <2>1. LockedAt("element", c) = {c.dp} /\ c.dp \in KeptAt(cwd'[p], file'[p], c)
    BY <1>0 DEF LockedAt, KeptAt
  <2> HIDE DEF s
  <2>2. Path(s, X, LockedAt("element", c), KeptAt(cwd'[p], file'[p], c))
    BY <1>1, <2>1
  <2>3. QED
    BY <1>2, <2>2, LeadsTo DEF LocksAt, Then
<1>3. CASE /\ ~c.parent
           /\ call' = [call EXCEPT ![p] = [c EXCEPT !.ip = c.dp, !.dp = None]]
           /\ Then(p, s, c.op)
  <2> DEFINE d == [c EXCEPT !.ip = c.dp, !.dp = None]
  <2>1. d.ip = c.dp /\ d.parent = c.parent
    BY DEF CallSet
  <2>2. c.op \in {"open", "chdir", "link"}
    BY <1>3 DEF WalkOK, CallSet
  <2> HIDE DEF d, s
  <2>3. LockedAt(c.op, d) = {c.dp} /\ c.dp \in KeptAt(cwd'[p], file'[p], d)
    BY <1>0, <1>3, <2>1, <2>2 DEF LockedAt, KeptAt
  <2>4. Path(s, X, LockedAt(c.op, d), KeptAt(cwd'[p], file'[p], d))
    BY <1>1, <2>3
  <2>5. QED
    BY <1>3, <2>2, <2>4, LeadsTo DEF LocksAt, Then, d
<1>4. CASE Fail(p, r \o <<PutIt(c.dp)>>)
  <2> DEFINE t == r \o <<PutIt(c.dp)>>
  <2>1. t \in Lists
    BY <1>0, OneJoined, Zenon
  <2>2. Path(t, X, {}, {})
    BY <1>0, PathThen
  <2> HIDE DEF t
  <2>3. QED
    BY <1>4, <2>1, <2>2, FailLeads DEF t
<1>5. QED
  BY <1>2, <1>3, <1>4 DEF NameX, s

LEMMA WalkLeads ==
    ASSUME Runs, NEW p \in Process, NEW c \in CallSet, NEW path \in Paths, Walks(p, c, path)
    PROVE  Leads(p, {}) /\ \E i \in Inum : icache' = Referenced(i)
<1> DEFINE i == IF path.absolute THEN ROOTINO ELSE cwd[p]
           d == [c EXCEPT !.names = path.names, !.dp = i]
<1>1. i \in Inum /\ path.names \in NameLists
  BY InodeAssumption, CallTypes DEF Names, NameLists
<1>2. icache' = Referenced(i) /\ NameX(p, d, <<>>)
  BY DEF Walks, Walk
<1>3. d \in CallSet /\ WalkOK(d)
  <2>1. d \in CallSet
    BY <1>1 DEF CallSet
  <2>2. WalkOK(d)
    BY <1>1 DEF Walks
  <2>3. QED
    BY <2>1, <2>2
<1> HIDE DEF d, i
<1>4. Path(<<>>, {}, {}, {})
  BY PathEmpty
<1>5. QED
  BY <1>1, <1>2, <1>3, <1>4, NameXLeads, RoutineTypes

(* The steps of the calls lock and unlock nothing themselves.              *)
BusyKept == \A j \in Inum : icache'[j].busy = icache[j].busy
Calm     == BusyKept \/ \E i \in Inum : icache' = Referenced(i)
Plans(p) == Leads(p, LockedAt(pc[p], call[p])) /\ Calm

LEMMA PairIs ==
    ASSUME NEW x \in Routines, NEW y \in Routines
    PROVE  <<x>> \o <<y>> = <<x, y>>
<1> DEFINE a == <<x>>
           b == <<y>>
           c == <<x, y>>
<1>1. /\ a \in Seq(Routines) /\ b \in Seq(Routines) /\ c \in Seq(Routines)
      /\ Len(a) = 1 /\ Len(b) = 1 /\ Len(c) = 2 /\ a[1] = x /\ b[1] = y /\ c[1] = x /\ c[2] = y
  OBVIOUS
<1> HIDE DEF a, b, c
<1>2. /\ a \o b \in Seq(Routines) /\ Len(a \o b) = Len(a) + Len(b)
      /\ \A k \in 1 .. Len(a) + Len(b) : (a \o b)[k] = IF k <= Len(a) THEN a[k] ELSE b[k - Len(a)]
  BY <1>1, ConcatProperties
<1>3. Len(a \o b) = Len(c) /\ \A k \in 1 .. Len(c) : (a \o b)[k] = c[k]
  BY <1>1, <1>2
<1>4. a \o b = c
  BY <1>1, <1>2, <1>3, SeqEqual
<1>5. QED
  BY <1>4 DEF a, b, c

LEMMA CalmUnchanged == UNCHANGED icache => Calm
BY DEF Calm, BusyKept

LEMMA WalksPlan ==
    ASSUME Runs, NEW p \in Process, NEW c \in CallSet, NEW path \in Paths, Walks(p, c, path)
    PROVE  Plans(p)
<1>1. LockedAt(pc[p], call[p]) = {}
  BY DEF Walks, LockedAt
<1>2. QED
  BY <1>1, WalkLeads DEF Plans, Calm

LEMMA ElementPlans ==
    ASSUME Inodes, Runs, NEW p \in Process, Element(p)
    PROVE  Plans(p)
<1> DEFINE d == Dp(p)
           n == Head(call[p].names)
           i == dinode[d].entries[n]
<1>1. /\ call[p] \in CallSet /\ WalkOK(call[p]) /\ call[p].names # <<>> /\ d \in Inum /\ d = call[p].dp
  BY CallTypes DEF Element, At, CallIs, WalkOK
<1>2. call[p].names \in NameLists /\ n \in Names /\ Tail(call[p].names) \in NameLists /\ <<>> \in NameLists
  BY <1>1, CallTypes, HeadTailProperties DEF NameLists
<1>3. i \in Inum \cup {None}
  BY <1>1, <1>2, EntryType
<1>4. LockedAt(pc[p], call[p]) = {d}
  BY <1>1 DEF Element, At, LockedAt
<1>5. UnlockPutIt(d) \in Lists /\ Path(UnlockPutIt(d), {d}, {}, {})
  BY <1>1, RoutineTypes, UnlockPutOne
<1>6. CASE Fail(p, UnlockPutIt(d)) /\ UNCHANGED icache
  BY <1>4, <1>5, <1>6, FailLeads, CalmUnchanged DEF Plans
<1>7. CASE /\ call[p].parent
           /\ call' = [call EXCEPT ![p].name = n, ![p].names = <<>>]
           /\ Then(p, <<UnlockIt(d), LockIt(d)>>, call[p].op)
           /\ UNCHANGED icache
  <2> DEFINE c == [call[p] EXCEPT !.name = n, !.names = <<>>]
             l == call[p].op
  <2>1. call' = [call EXCEPT ![p] = c]
    BY <1>1, <1>7 DEF Runs
  <2>2. c.op = l /\ c.dp = d /\ c.parent
    BY <1>1, <1>7 DEF CallSet
  <2>3. l \in {"create", "unlink", "link"}
    BY <1>1, <1>7 DEF WalkOK, CallSet
  <2> HIDE DEF c
  <2>4. LockedAt(l, c) = {d} /\ d \in KeptAt(cwd'[p], file'[p], c)
    BY <1>1, <2>2, <2>3, InodeAssumption DEF LockedAt, KeptAt
  <2>5. Path(<<UnlockIt(d), LockIt(d)>>, {d}, {d}, KeptAt(cwd'[p], file'[p], c))
    <3>1. {d} \in SUBSET Inum /\ {d} \ {d} = {} /\ {} \subseteq {d} /\ d \in {d} /\ {d} \subseteq {d}
      BY <1>1
    <3>2. Path(<<UnlockIt(d)>>, {d}, {}, {d})
      BY <1>1, <3>1, OnePaths
    <3>3. <<UnlockIt(d)>> \in Lists /\ {d} \subseteq KeptAt(cwd'[p], file'[p], c)
      BY <1>1, <2>4, RoutineTypes
    <3>4. Path(<<UnlockIt(d)>> \o <<LockIt(d)>>, {d}, {d}, KeptAt(cwd'[p], file'[p], c))
      BY <1>1, <3>2, <3>3, PathThen
    <3>5. <<UnlockIt(d)>> \o <<LockIt(d)>> = <<UnlockIt(d), LockIt(d)>>
      BY <1>1, RoutineTypes, PairIs
    <3>6. QED
      BY <3>4, <3>5
  <2>6. Leads(p, {d})
    <3>1. todo' = [todo EXCEPT ![p] = <<UnlockIt(d), LockIt(d)>>] /\ pc' = [pc EXCEPT ![p] = l]
      BY <1>7 DEF Then
    <3>2. Path(<<UnlockIt(d), LockIt(d)>>, {d}, LockedAt(l, c), KeptAt(cwd'[p], file'[p], c))
      BY <2>4, <2>5
    <3>3. l \notin {"unlinkinode", "created"}
      BY <2>3
    <3> HIDE DEF l, d
    <3>4. QED
      BY <2>1, <3>1, <3>2, <3>3, LeadsTo DEF LocksAt
  <2>7. QED
    BY <1>4, <1>7, <2>6, CalmUnchanged DEF Plans
<1>8. CASE i # None /\ icache' = Referenced(i) /\ NameX(p, [call[p] EXCEPT !.dp = i, !.names = Tail(@)], UnlockPutIt(d))
  <2> DEFINE c == [call[p] EXCEPT !.dp = i, !.names = Tail(@)]
  <2>1. i \in Inum
    BY <1>3, <1>8
  <2>2. c \in CallSet /\ WalkOK(c)
    <3>1. /\ c \in CallSet /\ c.ip = call[p].ip /\ c.dp = i /\ c.op = call[p].op /\ c.parent = call[p].parent
          /\ c.type = call[p].type /\ c.new = call[p].new
      BY <1>1, <1>2, <2>1 DEF CallSet
    <3> HIDE DEF c
    <3>2. QED
      BY <1>1, <2>1, <3>1 DEF WalkOK
  <2>3. NameX(p, c, UnlockPutIt(d))
    BY <1>8
  <2> HIDE DEF c
  <2>4. Leads(p, {d})
    BY <1>5, <2>2, <2>3, NameXLeads
  <2>5. QED
    BY <1>4, <1>8, <2>1, <2>4 DEF Plans, Calm
<1>9. QED
  BY <1>6, <1>7, <1>8 DEF Element

LEMMA OpenFilePlans ==
    ASSUME Runs, NEW p \in Process, NEW i \in Inum, NEW r \in Lists, NEW X, OpenFile(p, i, r), Path(r, X, {i}, {i})
    PROVE  Leads(p, X)
<1>1. CASE file' = [file EXCEPT ![p] = i] /\ Return(p, r \o <<UnlockIt(i)>>)
  <2>1. file'[p] = i
    BY <1>1 DEF Runs
  <2>2. i \in {cwd'[p], file'[p]} \ {None} /\ {i} \subseteq {cwd'[p], file'[p]} \ {None}
    BY <2>1, InodeAssumption
  <2>3. Path(r \o <<UnlockIt(i)>>, X, {}, {cwd'[p], file'[p]} \ {None})
    BY <2>2, PathThen
  <2>4. QED
    BY <1>1, <2>3, ReturnLeads
<1>2. CASE Return(p, r \o UnlockPutIt(i))
  <2>1. Path(r, X, {i}, {} \cup {i}) /\ {} \subseteq {}
    OBVIOUS
  <2>2. Path(r \o UnlockPutIt(i), X, {}, {})
    BY <2>1, PathThen
  <2>3. QED
    BY <1>2, <2>2, ReturnPuts
<1>3. QED
  BY <1>1, <1>2 DEF OpenFile

LEMMA OpenPlans ==
    ASSUME Runs, NEW p \in Process, Open(p) \/ Existing(p)
    PROVE  Plans(p)
<1>1. Ip(p) \in Inum /\ LockedAt(pc[p], call[p]) = {Ip(p)} /\ UNCHANGED icache
  BY CallTypes DEF Open, Existing, At, CallIs, LockedAt
<1>2. OpenFile(p, Ip(p), <<>>) \/ Return(p, UnlockPutIt(Ip(p)))
  BY DEF Open, Existing
<1>3. Path(<<>>, {Ip(p)}, {Ip(p)}, {Ip(p)}) /\ <<>> \in Lists /\ Path(UnlockPutIt(Ip(p)), {Ip(p)}, {}, {})
  BY <1>1, PathEmpty, RoutineTypes, UnlockPutOne
<1>4. Leads(p, {Ip(p)})
  BY <1>1, <1>2, <1>3, OpenFilePlans, ReturnPuts
<1>5. QED
  BY <1>1, <1>4, CalmUnchanged DEF Plans

LEMMA FilePlans ==
    ASSUME Runs, NEW p \in Process, UseFile(p) \/ Close(p)
    PROVE  Plans(p)
<1> DEFINE f == file[p]
<1>1. f \in Inum /\ f # None /\ pc[p] = "user" /\ call[p] = NoCall /\ UNCHANGED <<icache, call>>
  BY CallTypes DEF UseFile, Close, At, CallIs
<1>2. \A c : LockedAt("user", c) = {}
  BY DEF LockedAt
<1>3. {} \in SUBSET Inum /\ {} \cup {f} = {f} /\ {f} \ {f} = {} /\ {} \subseteq {}
  OBVIOUS
<1>4. \E s : /\ todo' = [todo EXCEPT ![p] = s] /\ pc' = [pc EXCEPT ![p] = "user"]
             /\ Path(s, {}, {}, KeptAt(cwd'[p], file'[p], call[p]))
  <2>1. CASE UseFile(p)
    <3>1. Then(p, <<LockIt(f), UnlockIt(f)>>, "user") /\ file'[p] = f
      BY <2>1 DEF UseFile
    <3>2. f \in KeptAt(cwd'[p], file'[p], call[p])
      BY <1>1, <3>1 DEF KeptAt
    <3> DEFINE Q == KeptAt(cwd'[p], file'[p], call[p])
    <3>3. f \in Q /\ {f} \subseteq Q
      BY <3>2
    <3> HIDE DEF f, Q
    <3>4. Path(<<LockIt(f)>>, {}, {f}, {f})
      BY <1>1, <1>3, OnePaths
    <3>5. <<LockIt(f)>> \in Lists
      BY <1>1, RoutineTypes
    <3>6. Path(<<LockIt(f)>> \o <<UnlockIt(f)>>, {}, {}, Q)
      BY <1>1, <1>3, <3>3, <3>4, <3>5, PathThen
    <3>7. <<LockIt(f)>> \o <<UnlockIt(f)>> = <<LockIt(f), UnlockIt(f)>>
      BY <1>1, RoutineTypes, PairIs
    <3>8. QED
      BY <3>1, <3>6, <3>7 DEF Then, Q
  <2>2. CASE Close(p)
    <3>1. Then(p, <<PutIt(f)>>, "user")
      BY <2>2 DEF Close
    <3>2. Path(<<PutIt(f)>>, {}, {}, KeptAt(cwd'[p], file'[p], call[p]))
      BY <1>1, OnePaths
    <3>3. QED
      BY <3>1, <3>2 DEF Then
  <2>3. QED
    BY <2>1, <2>2
<1>5. call' = [call EXCEPT ![p] = call[p]]
  BY <1>1, SameOwn
<1>6. Leads(p, {})
  <2>1. PICK s : /\ todo' = [todo EXCEPT ![p] = s] /\ pc' = [pc EXCEPT ![p] = "user"]
                 /\ Path(s, {}, {}, KeptAt(cwd'[p], file'[p], call[p]))
    BY <1>4
  <2>2. Path(s, {}, LockedAt("user", call[p]), KeptAt(cwd'[p], file'[p], call[p]))
    BY <1>2, <2>1
  <2>3. QED
    BY <1>5, <2>1, <2>2, LeadsTo DEF LocksAt
<1>7. QED
  BY <1>1, <1>2, <1>6, CalmUnchanged DEF Plans

LEMMA ChdirPlans ==
    ASSUME Runs, NEW p \in Process, Chdir(p)
    PROVE  Plans(p)
<1> DEFINE i == Ip(p)
<1>1. i \in Inum /\ i # None /\ LockedAt(pc[p], call[p]) = {i} /\ UNCHANGED icache /\ cwd[p] \in Inum
  BY CallTypes, InodeAssumption DEF Chdir, At, CallIs, LockedAt
<1>2. CASE Return(p, UnlockPutIt(i))
  <2>1. Path(UnlockPutIt(i), {i}, {}, {})
    BY <1>1, UnlockPutOne
  <2>2. Leads(p, {i})
    BY <1>2, <2>1, ReturnPuts
  <2>3. QED
    BY <1>1, <2>2, CalmUnchanged DEF Plans
<1>3. CASE Return(p, <<UnlockIt(i), PutIt(cwd[p])>>) /\ cwd' = [cwd EXCEPT ![p] = i]
  <2>1. cwd'[p] = i
    BY <1>3 DEF Runs
  <2> DEFINE Q == {cwd'[p], file'[p]} \ {None}
             w == cwd[p]
  <2>2. i \in Q /\ {i} \subseteq Q /\ Q \subseteq Q /\ {i} \ {i} = {} /\ {i} \in SUBSET Inum /\ w \in Inum
    BY <1>1, <2>1
  <2> HIDE DEF Q, w, i
  <2>3. Path(<<UnlockIt(i)>>, {i}, {}, Q) /\ <<UnlockIt(i)>> \in Lists
    BY <1>1, <2>2, OnePaths, RoutineTypes
  <2>4. Path(<<UnlockIt(i)>> \o <<PutIt(w)>>, {i}, {}, Q)
    BY <1>1, <2>2, <2>3, PathThen
  <2>5. <<UnlockIt(i)>> \o <<PutIt(w)>> = <<UnlockIt(i), PutIt(w)>>
    BY <1>1, <2>2, RoutineTypes, PairIs
  <2>6. Leads(p, {i})
    BY <1>3, <2>4, <2>5, ReturnLeads DEF Q, w
  <2>7. QED
    BY <1>1, <2>6, CalmUnchanged DEF Plans
<1>4. QED
  BY <1>2, <1>3 DEF Chdir

(* Who counts links keeps the locks.                                       *)
LEMMA LinkedBusy ==
    ASSUME NEW f \in [Inum -> CacheSet], NEW i, NEW n
    PROVE  /\ \A j \in Inum : [f EXCEPT ![i].nlink = n][j].busy = f[j].busy
           /\ i \in Inum /\ n \in Int => [f EXCEPT ![i].nlink = n] \in [Inum -> CacheSet]
BY DEF CacheSet

LEMMA LinksCalm ==
    ASSUME Inodes, NEW i, NEW n, icache' = [icache EXCEPT ![i].nlink = n]
    PROVE  Calm
BY LinkedBusy DEF Inodes, Calm, BusyKept

LEMMA LinkPlans ==
    ASSUME Inodes, Runs, NEW p \in Process, Link(p)
    PROVE  Plans(p)
<1> DEFINE i == Ip(p)
<1>1. i \in Inum /\ LockedAt(pc[p], call[p]) = {i} /\ call[p] \in CallSet /\ i = call[p].ip
  BY CallTypes DEF Link, At, CallIs, LockedAt
<1>2. CASE Return(p, UnlockPutIt(i)) /\ UNCHANGED icache
  <2>1. Path(UnlockPutIt(i), {i}, {}, {})
    BY <1>1, UnlockPutOne
  <2>2. Leads(p, {i})
    BY <1>2, <2>1, ReturnPuts
  <2>3. QED
    BY <1>1, <1>2, <2>2, CalmUnchanged DEF Plans
<1>3. CASE /\ Links(i, icache[i].nlink + 1)
           /\ Then(p, <<UnlockIt(i)>>, "nameiparent")
           /\ call' = [call EXCEPT ![p].parent = TRUE]
  <2> DEFINE c == [call[p] EXCEPT !.parent = TRUE]
  <2>1. call' = [call EXCEPT ![p] = c] /\ c.ip = i
    BY <1>1, <1>3 DEF Runs, CallSet
  <2> HIDE DEF c
  <2> DEFINE Q == KeptAt(cwd'[p], file'[p], c)
             s == <<UnlockIt(i)>>
  <2>2. {i} \subseteq Q /\ LockedAt("nameiparent", c) = {} /\ {i} \ {i} = {} /\ {i} \in SUBSET Inum /\ i \in {i}
    BY <1>1, <2>1, InodeAssumption DEF KeptAt, LockedAt
  <2> HIDE DEF Q, i
  <2>3. Path(s, {i}, {}, Q)
    <3>1. Path(s, {i}, {i} \ {i}, Q)
      BY <1>1, <2>2, OnePaths
    <3>2. QED
      BY <2>2, <3>1
  <2>4. Leads(p, {i})
    <3>1. todo' = [todo EXCEPT ![p] = s] /\ pc' = [pc EXCEPT ![p] = "nameiparent"]
      BY <1>3 DEF Then
    <3>2. Path(s, {i}, LockedAt("nameiparent", c), KeptAt(cwd'[p], file'[p], c))
      BY <2>2, <2>3 DEF Q
    <3> HIDE DEF s
    <3>3. QED
      BY <2>1, <3>1, <3>2, LeadsTo DEF LocksAt
  <2>5. Calm
    BY <1>3, LinksCalm DEF Links
  <2>6. QED
    BY <1>1, <2>4, <2>5 DEF Plans
<1>4. QED
  BY <1>2, <1>3 DEF Link

LEMMA DirLinkPlans ==
    ASSUME Inodes, Runs, NEW p \in Process, DirLink(p)
    PROVE  Plans(p)
<1> DEFINE d == Dp(p)
           n == call[p].name
           i == dinode[d].entries[n]
<1>1. d \in Inum /\ n \in Names /\ Ip(p) \in Inum /\ LockedAt(pc[p], call[p]) = {d}
  BY CallTypes DEF DirLink, At, CallIs, LockedAt
<1>2. i \in Inum \cup {None}
  BY <1>1, EntryType
<1>3. Path(UnlockPutIt(d), {d}, {}, {}) /\ UnlockPutIt(d) \in Lists /\ Putting(UnlockPutIt(d)) = {d}
  BY <1>1, UnlockPutOne, RoutineTypes, PuttingLists
<1>4. CASE i # None /\ icache' = Referenced(i) /\ Fail(p, <<PutIt(i)>> \o UnlockPutIt(d))
  <2>1. i \in Inum
    BY <1>2, <1>4
  <2> DEFINE r == <<PutIt(i)>> \o UnlockPutIt(d)
  <2>2. r \in Lists
    BY <1>1, <2>1, RoutineTypes, Joined
  <2>3. Path(<<PutIt(i)>>, {d}, {d}, {d}) /\ <<PutIt(i)>> \in Lists /\ {d} \subseteq {} \cup {d}
    BY <1>1, <2>1, OnePaths, RoutineTypes
  <2>4. Path(r, {d}, {}, {})
    BY <1>3, <2>3, PathJoined
  <2> HIDE DEF r
  <2>5. Leads(p, {d})
    BY <1>4, <2>2, <2>4, FailLeads DEF r
  <2>6. QED
    BY <1>1, <1>4, <2>1, <2>5 DEF Plans, Calm
<1>5. CASE Return(p, UnlockPutIt(d) \o <<PutIt(Ip(p))>>) /\ UNCHANGED icache
  <2>1. Path(UnlockPutIt(d) \o <<PutIt(Ip(p))>>, {d}, {}, {})
    BY <1>1, <1>3, PathThen
  <2>2. Leads(p, {d})
    BY <1>5, <2>1, ReturnPuts
  <2>3. QED
    BY <1>1, <1>5, <2>2, CalmUnchanged DEF Plans
<1>6. QED
  BY <1>4, <1>5 DEF DirLink, DirLinkPuts

LEMMA LowerPlans ==
    ASSUME Inodes, Runs, NEW p \in Process, BadLink(p) \/ Unlinked(p)
    PROVE  Plans(p)
<1> DEFINE i == Ip(p)
<1>1. i \in Inum /\ LockedAt(pc[p], call[p]) = {i} /\ Return(p, UnlockPutIt(i)) /\ Links(i, icache[i].nlink - 1)
  BY CallTypes DEF BadLink, Unlinked, At, CallIs, LockedAt
<1> HIDE DEF i
<1>2. Path(UnlockPutIt(i), {i}, {}, {})
  BY <1>1, UnlockPutOne
<1>3. Leads(p, {i})
  BY <1>1, <1>2, ReturnPuts
<1>4. Calm
  BY <1>1, LinksCalm DEF Links
<1>5. QED
  BY <1>1, <1>3, <1>4 DEF Plans

LEMMA UnlinkPlans ==
    ASSUME Inodes, Runs, NEW p \in Process, Unlink(p)
    PROVE  Plans(p)
<1> DEFINE d == Dp(p)
           n == call[p].name
           i == dinode[d].entries[n]
<1>1. d \in Inum /\ d = call[p].dp /\ n \in Names /\ LockedAt(pc[p], call[p]) = {d} /\ call[p] \in CallSet
  BY CallTypes DEF Unlink, At, CallIs, LockedAt
<1>2. i \in Inum \cup {None}
  BY <1>1, EntryType
<1>3. CASE Return(p, UnlockPutIt(d)) /\ UNCHANGED icache
  <2>1. Path(UnlockPutIt(d), {d}, {}, {})
    BY <1>1, UnlockPutOne
  <2>2. Leads(p, {d})
    BY <1>3, <2>1, ReturnPuts
  <2>3. QED
    BY <1>1, <1>3, <2>2, CalmUnchanged DEF Plans
<1>4. CASE /\ i # None
           /\ icache' = Referenced(i)
           /\ call' = [call EXCEPT ![p].ip = i]
           /\ Then(p, <<LockIt(i)>>, "unlinkinode")
  <2> DEFINE c == [call[p] EXCEPT !.ip = i]
  <2>1. i \in Inum
    BY <1>2, <1>4
  <2>2. call' = [call EXCEPT ![p] = c] /\ c.ip = i /\ c.dp = d
    BY <1>1, <1>4 DEF Runs, CallSet
  <2> HIDE DEF c
  <2> HIDE DEF d, i
  <2>3. Then(p, <<LockIt(c.ip)>>, "unlinkinode")
    BY <1>4, <2>2
  <2>4. Leads(p, {d})
    BY <2>2, <2>3, LeadsTo DEF LocksAt, Then
  <2>5. QED
    BY <1>1, <1>4, <2>1, <2>4 DEF Plans, Calm
<1>5. QED
  BY <1>3, <1>4 DEF Unlink

LEMMA UnlinkInodePlans ==
    ASSUME Inodes, Runs, NEW p \in Process, UnlinkInode(p), LockPath(p)
    PROVE  Plans(p)
<1> DEFINE d == Dp(p)
           i == Ip(p)
<1>1. /\ i \in Inum /\ d \in Inum /\ LockedAt(pc[p], call[p]) = {d, i} /\ call[p] \in CallSet /\ call[p].ip = i
      /\ i # d /\ i # None
  <2>1. i \in Inum /\ d \in Inum /\ LockedAt(pc[p], call[p]) = {d, i} /\ call[p] \in CallSet /\ call[p].ip = i
    BY CallTypes DEF UnlinkInode, At, CallIs, LockedAt
  <2>2. <<>> # <<LockIt(i)>>
    OBVIOUS
  <2>3. QED
    BY <2>1, <2>2, InodeAssumption DEF UnlinkInode, At, LockPath, LocksAt, Freeing, First, Ip, Dp
<1>2. UnlockPutIt(i) \in Lists /\ UnlockPutIt(d) \in Lists /\ Putting(UnlockPutIt(d)) = {d}
  BY <1>1, RoutineTypes, PuttingLists
<1>3. {d, i} \in SUBSET Inum /\ {d, i} \ {i} = {d} /\ {d, i} \ {d} = {i} /\ i \in {d, i} /\ d \in {d, i}
  BY <1>1
<1>4. CASE Return(p, UnlockPutIt(i) \o UnlockPutIt(d)) /\ UNCHANGED icache
  <2>1. Path(UnlockPutIt(i), {d, i}, {d}, {d})
    <3>1. {d, i} \ {i} \subseteq {d}
      BY <1>3
    <3> HIDE DEF d, i
    <3>2. Path(UnlockPutIt(i), {d, i}, {d, i} \ {i}, {d})
      BY <1>1, <1>3, <3>1, UnlockPutPath
    <3>3. QED
      BY <1>3, <3>2
  <2>2. Path(UnlockPutIt(d), {d}, {}, {}) /\ {d} \subseteq {} \cup {d}
    BY <1>1, UnlockPutOne
  <2> HIDE DEF d, i
  <2>3. Path(UnlockPutIt(i) \o UnlockPutIt(d), {d, i}, {}, {})
    BY <1>2, <2>1, <2>2, PathJoined
  <2>4. Leads(p, {d, i})
    BY <1>4, <2>3, ReturnPuts
  <2>5. QED
    BY <1>1, <1>4, <2>4, CalmUnchanged DEF Plans
<1>5. CASE /\ icache' = [icache EXCEPT ![d].nlink = IF icache[i].type = "dir" THEN @ - 1 ELSE @]
           /\ Then(p, UnlockPutIt(d), "unlinked") /\ call' = [call EXCEPT ![p].dp = None]
  <2> DEFINE c == [call[p] EXCEPT !.dp = None]
             m == IF icache[i].type = "dir" THEN icache[d].nlink - 1 ELSE icache[d].nlink
             Q == KeptAt(cwd'[p], file'[p], c)
  <2>1. call' = [call EXCEPT ![p] = c] /\ c.ip = i
    BY <1>1, <1>5 DEF Runs, CallSet
  <2>2. icache' = [icache EXCEPT ![d].nlink = m]
    BY <1>1, <1>5 DEF Inodes
  <2> HIDE DEF c, m
  <2>3. Calm
    BY <2>2, LinksCalm
  <2>4. i \in Q /\ {d, i} \ {d} \subseteq Q /\ LockedAt("unlinked", c) = {i}
    BY <1>1, <1>3, <2>1 DEF KeptAt, LockedAt
  <2> HIDE DEF Q, d, i
  <2>5. Path(UnlockPutIt(d), {d, i}, {d, i} \ {d}, Q)
    BY <1>1, <1>3, <2>4, UnlockPutPath
  <2>6. Path(UnlockPutIt(d), {d, i}, LockedAt("unlinked", c), Q)
    BY <1>3, <2>4, <2>5
  <2>7. Leads(p, {d, i})
    BY <1>5, <2>1, <2>6, LeadsTo DEF LocksAt, Then, Q
  <2>8. QED
    BY <1>1, <2>3, <2>7 DEF Plans
<1>6. QED
  BY <1>4, <1>5 DEF UnlinkInode

LEMMA CreatePlans ==
    ASSUME Inodes, Runs, NEW p \in Process, Create(p)
    PROVE  Plans(p)
<1> DEFINE d == Dp(p)
           n == call[p].name
           i == dinode[d].entries[n]
<1>1. d \in Inum /\ d = call[p].dp /\ n \in Names /\ LockedAt(pc[p], call[p]) = {d} /\ call[p] \in CallSet /\ d # None
  BY CallTypes, InodeAssumption DEF Create, At, CallIs, LockedAt
<1>2. i \in Inum \cup {None}
  BY <1>1, EntryType
<1>3. CASE /\ i # None
           /\ icache' = Referenced(i)
           /\ call' = [call EXCEPT ![p].ip = i, ![p].dp = None]
           /\ Then(p, UnlockPutIt(d) \o <<LockIt(i)>>, "existing")
  <2> DEFINE c == [call[p] EXCEPT !.ip = i, !.dp = None]
             Q == KeptAt(cwd'[p], file'[p], c)
  <2>1. i \in Inum /\ i # None
    BY <1>2, <1>3
  <2>2. call' = [call EXCEPT ![p] = c] /\ c.ip = i
    BY <1>1, <1>3 DEF Runs, CallSet
  <2> HIDE DEF c
  <2>3. i \in Q /\ LockedAt("existing", c) = {i} /\ {} \subseteq Q
    BY <2>1, <2>2 DEF KeptAt, LockedAt
  <2>4. Path(UnlockPutIt(d), {d}, {}, {}) /\ UnlockPutIt(d) \in Lists
    BY <1>1, UnlockPutOne, RoutineTypes
  <2> HIDE DEF Q, d, i
  <2>5. Path(UnlockPutIt(d) \o <<LockIt(i)>>, {d}, LockedAt("existing", c), Q)
    BY <2>1, <2>3, <2>4, PathThen
  <2>6. Leads(p, {d})
    BY <1>3, <2>2, <2>5, LeadsTo DEF LocksAt, Then, Q
  <2>7. QED
    BY <1>1, <1>3, <2>1, <2>6 DEF Plans, Calm
<1>4. ASSUME NEW free, call' = [call EXCEPT ![p].new = free], Then(p, <<>>, "iget"), UNCHANGED icache
      PROVE  Plans(p)
  <2> DEFINE c == [call[p] EXCEPT !.new = free]
             Q == KeptAt(cwd'[p], file'[p], c)
  <2>1. call' = [call EXCEPT ![p] = c] /\ c.dp = d
    BY <1>1, <1>4 DEF Runs, CallSet
  <2> HIDE DEF c
  <2>2. {d} \subseteq Q /\ LockedAt("iget", c) = {d} /\ {d} \in SUBSET Inum
    BY <1>1, <2>1 DEF KeptAt, LockedAt
  <2> HIDE DEF Q
  <2>3. Path(<<>>, {d}, LockedAt("iget", c), Q)
    BY <2>2, PathEmpty
  <2>4. Leads(p, {d})
    BY <1>4, <2>1, <2>3, LeadsTo DEF LocksAt, Then, Q
  <2>5. QED
    BY <1>1, <1>4, <2>4, CalmUnchanged DEF Plans
<1>5. QED
  BY <1>3, <1>4 DEF Create, LockExisting

LEMMA IGetPlans ==
    ASSUME Inodes, Runs, NEW p \in Process, IGet(p)
    PROVE  Plans(p)
<1> DEFINE d == Dp(p)
           i == call[p].new
           c == [call[p] EXCEPT !.ip = i, !.new = None]
<1>1. d \in Inum /\ d = call[p].dp /\ i \in Inum /\ LockedAt(pc[p], call[p]) = {d} /\ call[p] \in CallSet /\ d # None /\ i # None
  BY CallTypes, InodeAssumption DEF IGet, At, CallIs, LockedAt
<1>2. icache' = Referenced(i) /\ Then(p, <<LockIt(i)>>, "created") /\ call' = [call EXCEPT ![p].ip = i, ![p].new = None]
  BY DEF IGet
<1>3. call' = [call EXCEPT ![p] = c] /\ c.ip = i /\ c.dp = d
  BY <1>1, <1>2 DEF Runs, CallSet
<1> HIDE DEF c
<1>4. Then(p, <<LockIt(c.ip)>>, "created")
  BY <1>2, <1>3
<1> HIDE DEF d, i
<1>5. Leads(p, {d})
  BY <1>3, <1>4, LeadsTo DEF LocksAt, Then
<1>6. QED
  BY <1>1, <1>2, <1>5 DEF Plans, Calm

LEMMA CreatedPlans ==
    ASSUME Inodes, Runs, NEW p \in Process, Created(p), LockPath(p)
    PROVE  Plans(p)
<1> DEFINE d == Dp(p)
           i == Ip(p)
<1>1. i \in Inum /\ d \in Inum /\ LockedAt(pc[p], call[p]) = {d, i} /\ i # d
  <2>1. i \in Inum /\ d \in Inum /\ LockedAt(pc[p], call[p]) = {d, i}
    BY CallTypes DEF Created, At, CallIs, LockedAt
  <2>2. <<>> # <<LockIt(i)>>
    OBVIOUS
  <2>3. QED
    BY <2>1, <2>2 DEF Created, At, LockPath, LocksAt, Freeing, First, Ip, Dp
<1>2. UnlockPutIt(i) \in Lists /\ UnlockPutIt(d) \in Lists /\ Putting(UnlockPutIt(i)) = {i}
  BY <1>1, RoutineTypes, PuttingLists
<1>3. {d, i} \in SUBSET Inum /\ {d, i} \ {d} = {i} /\ d \in {d, i} /\ {i} \subseteq {i}
  BY <1>1
<1>4. Path(UnlockPutIt(d), {d, i}, {i}, {i})
  <2>1. {d, i} \ {d} \subseteq {i}
    BY <1>3
  <2> HIDE DEF d, i
  <2>2. Path(UnlockPutIt(d), {d, i}, {d, i} \ {d}, {i})
    BY <1>1, <1>3, <2>1, UnlockPutPath
  <2>3. QED
    BY <1>3, <2>2
<1>5. Calm
  <2> DEFINE a == 1
             b == icache[d].nlink + IF call[p].type = "dir" THEN 1 ELSE 0
             f == [icache EXCEPT ![i].nlink = a]
  <2>1. icache \in [Inum -> CacheSet] /\ a \in Int
    BY DEF Inodes
  <2> HIDE DEF a, i
  <2>2. f \in [Inum -> CacheSet] /\ \A j \in Inum : f[j].busy = icache[j].busy
    BY <1>1, <2>1, LinkedBusy
  <2>3. icache' = [f EXCEPT ![d].nlink = b]
    BY DEF Created, a, i
  <2> HIDE DEF b, f, d
  <2>4. \A j \in Inum : [f EXCEPT ![d].nlink = b][j].busy = f[j].busy
    BY <2>2, LinkedBusy
  <2>5. QED
    BY <2>2, <2>3, <2>4 DEF Calm, BusyKept
<1>6. Return(p, UnlockPutIt(d) \o UnlockPutIt(i)) \/ OpenFile(p, i, UnlockPutIt(d))
  BY DEF Created
<1> HIDE DEF d, i
<1>7. Path(UnlockPutIt(i), {i}, {}, {}) /\ {i} \subseteq {} \cup {i}
  BY <1>1, UnlockPutOne
<1>8. Path(UnlockPutIt(d) \o UnlockPutIt(i), {d, i}, {}, {})
  BY <1>2, <1>4, <1>7, PathJoined
<1>9. Leads(p, {d, i})
  BY <1>1, <1>2, <1>4, <1>6, <1>8, ReturnPuts, OpenFilePlans
<1>10. QED
  BY <1>1, <1>5, <1>9 DEF Plans

(* What is locked, and what is kept, is referenced.                        *)
LEMMA PathHeld ==
    ASSUME NEW s \in Lists, NEW X, NEW Y, NEW Q, Path(s, X, Y, Q)
    PROVE  X \subseteq Q \cup Putting(s) /\ X \in SUBSET Inum
<1> DEFINE n == Len(s)
<1>1. n \in Nat /\ Puttings(s, 1) = Putting(s)
  BY PuttingsIs
<1>2. PICK h \in [1 .. n + 1 -> SUBSET Inum] :
        /\ h[1] = X
        /\ \A k \in 1 .. n + 1 : h[k] \subseteq Q \cup Puttings(s, k)
  BY DEF Path
<1> HIDE DEF n
<1>3. 1 \in 1 .. n + 1
  BY <1>1
<1>4. h[1] \subseteq Q \cup Puttings(s, 1) /\ h[1] \in SUBSET Inum
  BY <1>2, <1>3
<1>5. QED
  BY <1>1, <1>2, <1>4

LEMMA MineAtLeast ==
    ASSUME Runs, NEW p \in Process, NEW i \in Inum
    PROVE  /\ Mine(p, i) \in Nat /\ Times(todo[p], i) \in Nat
           /\ i \in Putting(todo[p]) => Mine(p, i) >= 1
           /\ i \in Kept(p) => Mine(p, i) >= Times(todo[p], i) + 1
<1> DEFINE a == Is(cwd[p], i)
           b == Is(file[p], i)
           c == Is(call[p].ip, i)
           d == Is(call[p].dp, i)
           t == Times(todo[p], i)
<1>1. a \in Nat /\ b \in Nat /\ c \in Nat /\ d \in Nat
  BY IsValues
<1>2. todo[p] \in Lists
  BY DEF Runs
<1>3. t \in Nat /\ (i \in Putting(todo[p]) => t > 0)
  BY <1>2, PlacesFinite, PuttingTimes DEF Lists
<1>4. i \in Kept(p) => a = 1 \/ b = 1 \/ c = 1 \/ d = 1
  BY DEF Kept, KeptAt, Is
<1>5. Mine(p, i) = a + b + c + d + t
  BY DEF Mine, Has
<1> DEFINE m == Mine(p, i)
           P == i \in Kept(p)
           T == i \in Putting(todo[p])
<1>6. m = a + b + c + d + t /\ (P => a = 1 \/ b = 1 \/ c = 1 \/ d = 1) /\ (T => t > 0) /\ t \in Nat
  BY <1>3, <1>4, <1>5
<1> HIDE DEF a, b, c, d, t, m, P, T
<1>7. m \in Nat /\ (T => m >= 1) /\ (P => m >= t + 1)
  BY ONLY <1>1, <1>6
<1>8. QED
  BY <1>3, <1>7 DEF m, t, P, T

(* The count is at least that of one process, and more if another has one. *)
LEMMA RefAtLeast ==
    ASSUME RInv, NEW p \in Process, NEW i \in Inum
    PROVE  /\ icache[i].ref \in Int /\ icache[i].ref >= Mine(p, i)
           /\ \A q \in Process \ {p} : Mine(q, i) >= 1 => icache[i].ref >= Mine(p, i) + 1
<1> DEFINE R == [q \in Process |-> References(q, i)]
<1>1. All(R) = UNION {{q} \X References(q, i) : q \in Process}
  BY DEF All
<1>2. \A q \in Process : IsFiniteSet(R[q]) /\ Cardinality(R[q]) = Mine(q, i)
  BY MineIs DEF RInv
<1>3. icache[i].ref = Cardinality(All(R))
  BY <1>1 DEF RInv, RefsAreHolders
<1> HIDE DEF R
<1>4. IsFiniteSet(Process)
  BY InodeAssumption
<1>5. /\ Cardinality(All(R)) \in Nat /\ Cardinality(Rest(R, p)) \in Nat /\ Cardinality(R[p]) \in Nat
      /\ Cardinality(All(R)) = Cardinality(Rest(R, p)) + Cardinality(R[p])
  BY <1>2, <1>4, AllSplit
<1>6. icache[i].ref \in Int /\ icache[i].ref >= Mine(p, i)
  BY <1>2, <1>3, <1>5
<1>7. ASSUME NEW q \in Process \ {p}, Mine(q, i) >= 1 PROVE icache[i].ref >= Mine(p, i) + 1
  <2>1. R[q] # {}
    <3>1. Cardinality(R[q]) = Mine(q, i) /\ 0 # Mine(q, i)
      BY <1>2, <1>7
    <3>2. QED
      BY <3>1, FS_EmptySet
  <2>2. PICK h : h \in R[q]
    BY <2>1
  <2>3. <<q, h>> \in Rest(R, p)
    BY <2>2 DEF Rest, All
  <2>4. IsFiniteSet(Rest(R, p))
    BY <1>2, <1>4, AllFinite, FS_Subset DEF Rest
  <2>5. Cardinality(Rest(R, p)) # 0
    BY <2>3, <2>4, FS_EmptySet
  <2>6. QED
    BY <1>2, <1>3, <1>5, <2>5
<1>8. QED
  BY <1>6, <1>7

LEMMA LocksAtHeld ==
    ASSUME Runs, NEW p \in Process, NEW s \in Lists, NEW X, LocksAt(pc[p], call[p], s, X, Kept(p))
    PROVE  /\ X \subseteq Kept(p) \cup Putting(s)
           /\ s # <<>> => Head(s)[1] \in {"ilock", "iunlock", "iput"}
<1>1. CASE pc[p] \in {"unlinkinode", "created"}
  <2>1. Ip(p) \in Inum /\ Dp(p) \in Inum /\ Ip(p) = call[p].ip /\ Dp(p) = call[p].dp
    BY <1>1, CallTypes DEF CallIs
  <2>2. {call[p].dp, call[p].ip} \subseteq Kept(p)
    BY <2>1, InodeAssumption DEF Kept, KeptAt
  <2>3. X \subseteq {call[p].dp, call[p].ip}
    BY <1>1 DEF LocksAt
  <2>4. Head(<<LockIt(call[p].ip)>>)[1] = "ilock"
    BY DEF LockIt
  <2>5. s # <<>> => s = <<LockIt(call[p].ip)>>
    BY <1>1 DEF LocksAt
  <2>6. QED
    BY <2>2, <2>3, <2>4, <2>5
<1>2. CASE pc[p] \notin {"unlinkinode", "created"}
  <2>1. Path(s, X, LockedAt(pc[p], call[p]), Kept(p))
    BY <1>2 DEF LocksAt
  <2>2. X \subseteq Kept(p) \cup Putting(s)
    BY <2>1, PathHeld
  <2>3. ASSUME s # <<>> PROVE Head(s)[1] \in {"ilock", "iunlock", "iput"}
    <3>1. \E Z : Turns(Head(s), X, Z)
      BY <2>1, <2>3, PathHead
    <3>2. QED
      BY <3>1 DEF Turns
  <2>4. QED
    BY <2>2, <2>3
<1>3. QED
  BY <1>1, <1>2

LEMMA HeadCount ==
    ASSUME NEW s \in Lists, s # <<>>
    PROVE  \A j : /\ Times(s, j) = Times(<<Head(s)>>, j) + Times(Tail(s), j)
                  /\ Times(<<Head(s)>>, j) \in Nat /\ Times(Tail(s), j) \in Nat
<1> DEFINE x == Head(s)
           h == <<x>>
           t == Tail(s)
<1>1. x \in Routines /\ t \in Lists /\ s = h \o t
  BY HeadAndTail DEF Lists
<1>2. h \in Lists
  BY <1>1 DEF Lists
<1> HIDE DEF h, t
<1>3. \A j : Times(h \o t, j) = Times(h, j) + Times(t, j) /\ Times(h, j) \in Nat /\ Times(t, j) \in Nat
  BY <1>1, <1>2, Joined
<1>4. \A j : Times(s, j) = Times(h, j) + Times(t, j) /\ Times(h, j) \in Nat /\ Times(t, j) \in Nat
  BY <1>1, <1>3, Zenon
<1>5. QED
  BY <1>4 DEF h, t

LEMMA PuttingHead ==
    ASSUME NEW s \in Lists, s # <<>>
    PROVE  /\ Tail(s) \in Lists /\ Head(s) \in Routines /\ Putting(Tail(s)) \subseteq Putting(s)
           /\ Head(s)[1] \in Puts => Head(s)[2] \in Putting(s)
<1>1. Tail(s) \in Lists /\ Head(s) \in Routines /\ Head(s)[2] \in Inum
  BY HeadAndTail DEF Lists, Routines
<1>2. ASSUME NEW i \in Inum, Times(<<Head(s)>>, i) > 0 \/ Times(Tail(s), i) > 0 PROVE i \in Putting(s)
  <2> DEFINE a == Times(s, i)
             b == Times(<<Head(s)>>, i)
             c == Times(Tail(s), i)
  <2>1. a = b + c /\ b \in Nat /\ c \in Nat /\ (b > 0 \/ c > 0)
    BY <1>2, HeadCount
  <2> HIDE DEF a, b, c
  <2>2. a > 0
    BY ONLY <2>1
  <2>3. QED
    BY <2>2, PuttingTimes DEF a
<1>3. Putting(Tail(s)) \subseteq Putting(s)
  BY <1>1, <1>2, PuttingTimes DEF Putting
<1>4. ASSUME Head(s)[1] \in Puts PROVE Head(s)[2] \in Putting(s)
  <2>1. Times(<<Head(s)>>, Head(s)[2]) = 1
    BY <1>4, TimesOne DEF Gives
  <2>2. QED
    BY <1>1, <1>2, <2>1
<1>5. QED
  BY <1>1, <1>3, <1>4

(* What p has locked it has, or is about to give back.                     *)
LEMMA LockPathHeld ==
    ASSUME Runs, NEW p \in Process, LockPath(p)
    PROVE  HeldBy(p) \subseteq Kept(p) \cup Putting(todo[p])
<1>1. todo[p] \in Lists
  BY DEF Runs
<1>2. CASE Freeing(p)
  <2>1. todo[p] # <<>> /\ Head(todo[p])[1] \in Puts
    BY <1>2 DEF Freeing, First, Puts
  <2>2. Tail(todo[p]) \in Lists /\ Putting(Tail(todo[p])) \subseteq Putting(todo[p]) /\ Subject(p) \in Putting(todo[p])
    BY <1>1, <2>1, PuttingHead DEF Subject
  <2>3. LocksAt(pc[p], call[p], Tail(todo[p]), HeldBy(p) \ {Subject(p)}, Kept(p))
    BY <1>2 DEF LockPath
  <2>4. HeldBy(p) \ {Subject(p)} \subseteq Kept(p) \cup Putting(Tail(todo[p]))
    BY <2>2, <2>3, LocksAtHeld
  <2>5. QED
    BY <2>2, <2>4
<1>3. CASE ~Freeing(p)
  BY <1>1, <1>3, LocksAtHeld DEF LockPath
<1>4. QED
  BY <1>2, <1>3

LEMMA HeldMine ==
    ASSUME LInv, NEW p \in Process, NEW i \in Inum, icache[i].busy = p
    PROVE  Mine(p, i) >= 1 /\ icache[i].ref >= 1 /\ i \in Kept(p) \cup Putting(todo[p])
<1>1. Runs /\ RInv /\ LockPath(p)
  BY DEF LInv, RInv
<1>2. i \in HeldBy(p)
  BY DEF HeldBy
<1>3. i \in Kept(p) \cup Putting(todo[p])
  BY <1>1, <1>2, LockPathHeld
<1>4. Mine(p, i) >= 1
  <2>1. /\ Mine(p, i) \in Nat /\ Times(todo[p], i) \in Nat
        /\ i \in Putting(todo[p]) => Mine(p, i) >= 1
        /\ i \in Kept(p) => Mine(p, i) >= Times(todo[p], i) + 1
    BY <1>1, MineAtLeast
  <2>2. QED
    BY <1>3, <2>1
<1>5. icache[i].ref \in Int /\ icache[i].ref >= Mine(p, i) /\ Mine(p, i) \in Nat
  BY <1>1, RefAtLeast, MineAtLeast
<1>6. QED
  BY <1>3, <1>4, <1>5

(* A reference to an inode that nobody has is to one that nobody locked.   *)
LEMMA CalmBusy ==
    ASSUME LInv, Calm
    PROVE  BusyKept
<1>1. ASSUME NEW i \in Inum, icache' = Referenced(i), NEW j \in Inum PROVE icache'[j].busy = icache[j].busy
  <2>1. icache \in [Inum -> CacheSet] /\ \A k \in Inum : icache[k] \in CacheSet /\ icache[k].ref \in Int
    BY DEF LInv, RInv, Inodes, CacheSet
  <2>2. CASE icache[i].ref > 0
    BY <1>1, <2>1, <2>2 DEF Referenced, CacheSet
  <2>3. CASE ~(icache[i].ref > 0)
    <3>1. icache[i].busy = None
      <4>1. SUFFICES ASSUME icache[i].busy \in Process PROVE FALSE
        BY <2>1 DEF CacheSet
      <4>2. icache[i].ref >= 1
        BY <4>1, HeldMine
      <4>3. QED
        BY <2>1, <2>3, <4>2
    <3>2. icache' = [icache EXCEPT ![i] = [Uncached EXCEPT !.ref = 1]]
      BY <1>1, <2>3 DEF Referenced
    <3>3. [Uncached EXCEPT !.ref = 1].busy = None
      BY DEF Uncached
    <3>4. QED
      BY <2>1, <3>1, <3>2, <3>3
  <2>4. QED
    BY <2>2, <2>3
<1>2. QED
  BY <1>1 DEF Calm, BusyKept

-----------------------------------------------------------------------------
(* Steps.                                                                  *)
LEMMA LocksMoved ==
    ASSUME LInv, NEW p \in Process, Moved(p), \A q \in Process \ {p} : HeldBy(q)' = HeldBy(q), LockPath(p)'
    PROVE  LInv'
<1>1. RInv'
  BY MovesCount DEF LInv
<1>2. ASSUME NEW q \in Process \ {p} PROVE LockPath(q)'
  <2>1. /\ cwd'[q] = cwd[q] /\ file'[q] = file[q] /\ call'[q] = call[q] /\ todo'[q] = todo[q] /\ pc'[q] = pc[q]
        /\ HeldBy(q)' = HeldBy(q) /\ LockPath(q)
    BY DEF LInv, Moved, OthersKept
  <2>2. (Freeing(q)' <=> Freeing(q)) /\ Subject(q)' = Subject(q) /\ Kept(q)' = Kept(q)
    BY <2>1 DEF Freeing, First, Subject, Kept
  <2>3. QED
    BY <2>1, <2>2 DEF LockPath
<1>3. QED
  BY <1>1, <1>2 DEF LInv

LEMMA LocksAtHead ==
    ASSUME NEW l, NEW c, NEW s \in Lists, s # <<>>, NEW X, NEW Q, LocksAt(l, c, s, X, Q)
    PROVE  Head(s)[1] \in {"ilock", "iunlock", "iput"}
<1>1. CASE l \in {"unlinkinode", "created"}
  <2>1. s = <<LockIt(c.ip)>>
    BY <1>1 DEF LocksAt
  <2>2. QED
    BY <2>1 DEF LockIt
<1>2. CASE l \notin {"unlinkinode", "created"}
  <2>1. \E Z : Turns(Head(s), X, Z)
    BY <1>2, PathHead DEF LocksAt
  <2>2. QED
    BY <2>1 DEF Turns
<1>3. QED
  BY <1>1, <1>2

(* A list that no freeing begins.                                          *)
LEMMA PlainLocks ==
    ASSUME NEW p \in Process, Runs', LocksAt(pc'[p], call'[p], todo'[p], HeldBy(p)', Kept(p)')
    PROVE  LockPath(p)' /\ ~Freeing(p)'
<1>1. todo'[p] \in Lists
  BY DEF Runs
<1>2. todo'[p] # <<>> => Head(todo'[p])[1] \in {"ilock", "iunlock", "iput"}
  BY <1>1, LocksAtHead
<1>3. ~Freeing(p)'
  BY <1>2 DEF Freeing, First
<1>4. QED
  BY <1>3 DEF LockPath

LEMMA CallLocks ==
    ASSUME LInv, NEW p \in Process, Moved(p), todo[p] = <<>>, Plans(p)
    PROVE  LInv' /\ ~Freeing(p)'
<1>1. BusyKept
  BY CalmBusy DEF Plans
<1>2. \A q : HeldBy(q)' = HeldBy(q)
  BY <1>1 DEF HeldBy, BusyKept
<1>3. HeldBy(p) = LockedAt(pc[p], call[p])
  <2>1. LocksAt(pc[p], call[p], <<>>, HeldBy(p), Kept(p))
    BY DEF LInv, LockPath, Freeing, First
  <2>2. \A i : <<>> # <<LockIt(i)>>
    OBVIOUS
  <2>3. QED
    BY <2>1, <2>2, PathEmpty DEF LocksAt, LockedAt
<1>4. LocksAt(pc'[p], call'[p], todo'[p], HeldBy(p)', Kept(p)')
  BY <1>2, <1>3 DEF Plans, Leads, Kept
<1>5. LockPath(p)' /\ ~Freeing(p)'
  BY <1>4, PlainLocks DEF Moved
<1>6. QED
  BY <1>2, <1>5, LocksMoved

LEMMA BusyOne ==
    ASSUME Inodes, NEW p \in Process, NEW i \in Inum, icache[i].busy \in {None, p}, NEW b \in {None, p},
           \A j \in Inum : icache'[j].busy = IF j = i THEN b ELSE icache[j].busy
    PROVE  /\ \A q \in Process \ {p} : HeldBy(q)' = HeldBy(q)
           /\ b = p => HeldBy(p)' = HeldBy(p) \cup {i}
           /\ b = None => HeldBy(p)' = HeldBy(p) \ {i}
<1>1. None \notin Process
  BY InodeAssumption
<1>2. QED
  BY <1>1 DEF HeldBy

(* What is at the head of the list, with what p has locked.                *)
LEMMA HeadPath ==
    ASSUME LInv, NEW p \in Process, NEW r, First(p, r)
    PROVE  /\ Runs /\ todo[p] \in Lists /\ todo[p] # <<>> /\ Tail(todo[p]) \in Lists /\ Subject(p) \in Inum
           /\ HeldBy(p) \in SUBSET Inum /\ Head(todo[p]) = <<r, Subject(p)>> /\ LockPath(p)
<1>1. Runs /\ todo[p] \in Lists /\ todo[p] # <<>> /\ LockPath(p)
  BY DEF LInv, RInv, Runs, First
<1>2. Subject(p) \in Inum /\ Head(todo[p]) \in Routines /\ Head(todo[p])[1] = r /\ Head(todo[p])[2] = Subject(p)
  BY <1>1, FirstIs DEF First
<1>3. Head(todo[p]) = <<r, Subject(p)>>
  BY <1>2 DEF Routines
<1>4. Tail(todo[p]) \in Lists
  BY <1>1, HeadAndTail DEF Lists
<1>5. HeldBy(p) \in SUBSET Inum
  BY DEF HeldBy
<1>6. QED
  BY <1>1, <1>2, <1>3, <1>4, <1>5

LEMMA HeadPlain ==
    ASSUME LInv, NEW p \in Process, NEW r \in {"iunlock", "iput"}, First(p, r)
    PROVE  /\ pc[p] \notin {"unlinkinode", "created"}
           /\ \E Z \in SUBSET Inum :
                /\ Turns(<<r, Subject(p)>>, HeldBy(p), Z)
                /\ Path(Tail(todo[p]), Z, LockedAt(pc[p], call[p]), Kept(p))
                /\ Z \subseteq Kept(p) \cup Putting(Tail(todo[p]))
<1>1. /\ todo[p] \in Lists /\ todo[p] # <<>> /\ LockPath(p) /\ Head(todo[p]) = <<r, Subject(p)>>
  BY HeadPath
<1>2. LocksAt(pc[p], call[p], todo[p], HeldBy(p), Kept(p))
  BY <1>1 DEF LockPath, Freeing, First
<1>3. \A i : Head(<<LockIt(i)>>)[1] = "ilock"
  BY DEF LockIt
<1>4. pc[p] \notin {"unlinkinode", "created"} /\ Path(todo[p], HeldBy(p), LockedAt(pc[p], call[p]), Kept(p))
  BY <1>1, <1>2, <1>3 DEF LocksAt
<1>5. QED
  BY <1>1, <1>4, PathHead

LEMMA HeadLock ==
    ASSUME LInv, NEW p \in Process, First(p, "ilock")
    PROVE  /\ Subject(p) \in Kept(p) \cup Putting(todo[p])
           /\ \/ /\ pc[p] \in {"unlinkinode", "created"} /\ HeldBy(p) = {Dp(p)} /\ Subject(p) = Ip(p)
                 /\ Tail(todo[p]) = <<>>
              \/ /\ pc[p] \notin {"unlinkinode", "created"} /\ HeldBy(p) = {}
                 /\ Path(Tail(todo[p]), {Subject(p)}, LockedAt(pc[p], call[p]), Kept(p))
<1> DEFINE i == Subject(p)
<1>1. /\ todo[p] \in Lists /\ todo[p] # <<>> /\ LockPath(p) /\ Head(todo[p]) = <<"ilock", i>> /\ Runs
      /\ Tail(todo[p]) \in Lists
  BY HeadPath
<1>2. LocksAt(pc[p], call[p], todo[p], HeldBy(p), Kept(p))
  BY <1>1 DEF LockPath, Freeing, First
<1>3. CASE pc[p] \in {"unlinkinode", "created"}
  <2>1. todo[p] = <<LockIt(call[p].ip)>> /\ HeldBy(p) = {call[p].dp}
    BY <1>1, <1>2, <1>3 DEF LocksAt
  <2>2. i = Ip(p) /\ Tail(todo[p]) = <<>>
    BY <2>1 DEF Subject, LockIt, Ip
  <2>3. Ip(p) \in Inum
    BY <1>1, <1>3, CallTypes DEF CallIs
  <2>4. i \in Kept(p)
    BY <2>2, <2>3, InodeAssumption DEF Kept, KeptAt, Ip
  <2>5. QED
    BY <1>3, <2>1, <2>2, <2>4 DEF Dp
<1>4. CASE pc[p] \notin {"unlinkinode", "created"}
  <2>1. Path(todo[p], HeldBy(p), LockedAt(pc[p], call[p]), Kept(p))
    BY <1>2, <1>4 DEF LocksAt
  <2>2. PICK Z \in SUBSET Inum :
           /\ Turns(<<"ilock", i>>, HeldBy(p), Z)
           /\ Path(Tail(todo[p]), Z, LockedAt(pc[p], call[p]), Kept(p))
           /\ Z \subseteq Kept(p) \cup Putting(Tail(todo[p]))
    BY <1>1, <2>1, PathHead
  <2>3. HeldBy(p) = {} /\ Z = {i}
    BY <2>2 DEF Turns
  <2>4. Putting(Tail(todo[p])) \subseteq Putting(todo[p])
    BY <1>1, PuttingHead
  <2>5. QED
    BY <1>4, <2>2, <2>3, <2>4
<1>5. QED
  BY <1>3, <1>4

(* Who gives i back and has it locked as well has it twice.                *)
LEMMA HeadTwice ==
    ASSUME LInv, NEW p \in Process, NEW r \in Puts, First(p, r), Subject(p) \in Kept(p) \cup Putting(Tail(todo[p]))
    PROVE  Mine(p, Subject(p)) >= 2
<1> DEFINE i == Subject(p)
           s == todo[p]
           t == Tail(todo[p])
           h == <<Head(todo[p])>>
<1>1. Runs /\ s \in Lists /\ s # <<>> /\ i \in Inum /\ t \in Lists
  BY HeadPath
<1>3. Times(h, i) = 1
  BY <1>1, HeadTimes DEF Is
<1>4. Times(s, i) = Times(h, i) + Times(t, i) /\ Times(t, i) \in Nat
  BY <1>1, HeadCount
<1>5. i \in Putting(t) => Times(t, i) > 0
  BY <1>1, PuttingTimes
<1>6. /\ Mine(p, i) \in Nat /\ (i \in Kept(p) => Mine(p, i) >= Times(s, i) + 1)
      /\ Mine(p, i) >= Times(s, i)
  <2>1. Mine(p, i) \in Nat /\ (i \in Kept(p) => Mine(p, i) >= Times(s, i) + 1)
    BY <1>1, MineAtLeast
  <2>2. Mine(p, i) = Has(cwd[p], file[p], call[p], i) + Times(s, i) /\ Has(cwd[p], file[p], call[p], i) \in Nat
    <3>1. Is(cwd[p], i) \in Nat /\ Is(file[p], i) \in Nat /\ Is(call[p].ip, i) \in Nat /\ Is(call[p].dp, i) \in Nat
      BY IsValues
    <3>2. QED
      BY <3>1 DEF Mine, Has
  <2>3. Times(s, i) \in Nat
    BY <1>1, Joined, RoutineTypes
  <2> HIDE DEF i, s
  <2>4. QED
    BY <2>1, <2>2, <2>3
<1>7. i \in Kept(p) \/ i \in Putting(t)
  OBVIOUS
<1> HIDE DEF i, s, t, h
<1>8. Mine(p, i) >= 2
  BY <1>3, <1>4, <1>5, <1>6, <1>7
<1>9. QED
  BY <1>8 DEF i

(* iput frees an inode only when nobody has locked it.                     *)
LEMMA LastAlone ==
    ASSUME LInv, NEW p \in Process, First(p, "iput"), icache[Subject(p)].ref = 1
    PROVE  /\ icache[Subject(p)].busy = None
           /\ \A q \in Process \ {p} : Mine(q, Subject(p)) = 0
           /\ Mine(p, Subject(p)) = 1 /\ Subject(p) \notin Kept(p) \cup Putting(Tail(todo[p]))
<1> DEFINE i == Subject(p)
<1>1. Runs /\ RInv /\ i \in Inum /\ "iput" \in Puts /\ icache[i].busy \in Process \cup {None}
  BY HeadPath DEF LInv, RInv, Puts, Inodes, CacheSet
<1>2. icache[i].ref >= Mine(p, i) /\ Mine(p, i) \in Nat
  BY <1>1, RefAtLeast, MineAtLeast
<1>3. Mine(p, i) >= 1
  <2>1. todo[p] \in Lists /\ todo[p] # <<>> /\ Head(todo[p])[1] \in Puts
    BY <1>1, HeadPath
  <2>2. i \in Putting(todo[p])
    BY <2>1, PuttingHead DEF Subject
  <2>3. QED
    BY <1>1, <2>2, MineAtLeast
<1>4. Mine(p, i) = 1
  BY <1>2, <1>3
<1>5. ASSUME NEW q \in Process \ {p} PROVE Mine(q, i) = 0
  <2>1. Mine(q, i) \in Nat
    BY <1>1, MineAtLeast
  <2>2. Mine(q, i) >= 1 => icache[i].ref >= Mine(p, i) + 1
    BY <1>1, RefAtLeast
  <2>3. QED
    BY <1>4, <2>1, <2>2
<1>6. i \notin Kept(p) \cup Putting(Tail(todo[p]))
  <2>1. SUFFICES ASSUME i \in Kept(p) \cup Putting(Tail(todo[p])) PROVE FALSE
    OBVIOUS
  <2>2. Mine(p, i) >= 2
    BY <1>1, <2>1, HeadTwice
  <2>3. QED
    BY <1>4, <2>2
<1>7. icache[i].busy = None
  <2>1. ASSUME NEW q \in Process \ {p}, icache[i].busy = q PROVE FALSE
    <3>1. Mine(q, i) >= 1
      BY <1>1, <2>1, HeldMine
    <3>2. QED
      BY <1>5, <3>1
  <2>2. ASSUME icache[i].busy = p PROVE FALSE
    <3>1. PICK Z \in SUBSET Inum : Turns(<<"iput", i>>, HeldBy(p), Z) /\ Z \subseteq Kept(p) \cup Putting(Tail(todo[p]))
      BY HeadPlain
    <3>2. i \in HeldBy(p) /\ Z = HeldBy(p)
      BY <1>1, <2>2, <3>1 DEF HeldBy, Turns
    <3>3. QED
      BY <1>6, <3>1, <3>2
  <2>3. QED
    BY <1>1, <2>1, <2>2
<1>8. QED
  BY <1>4, <1>5, <1>6, <1>7

(* A routine that leaves the call where it is, and a list that no freeing  *)
(* begins.                                                                 *)
LEMMA RoutineLocks ==
    ASSUME LInv, NEW p \in Process, Moved(p), UNCHANGED <<pc, cwd, file, call>>,
           \A q \in Process \ {p} : HeldBy(q)' = HeldBy(q),
           LocksAt(pc[p], call[p], todo'[p], HeldBy(p)', Kept(p))
    PROVE  LInv' /\ ~Freeing(p)'
<1>1. pc'[p] = pc[p] /\ call'[p] = call[p] /\ Kept(p)' = Kept(p)
  BY DEF Kept
<1>2. Runs'
  BY DEF Moved
<1>3. LocksAt(pc'[p], call'[p], todo'[p], HeldBy(p)', Kept(p)')
  BY <1>1
<1>4. LockPath(p)' /\ ~Freeing(p)'
  BY <1>2, <1>3, PlainLocks
<1>5. QED
  BY <1>4, LocksMoved

LEMMA DoneIs ==
    ASSUME Runs, NEW p \in Process, Done(p)
    PROVE  todo'[p] = Tail(todo[p]) /\ UNCHANGED pc
BY DEF Done, Runs

LEMMA BecomesIs ==
    ASSUME Runs, NEW p \in Process, NEW r, Becomes(p, r)
    PROVE  /\ todo'[p] = <<<<r, Subject(p)>>>> \o Tail(todo[p]) /\ UNCHANGED pc
           /\ todo[p] # <<>> => /\ todo'[p] # <<>> /\ Head(todo'[p]) = <<r, Subject(p)>>
                                /\ Tail(todo'[p]) = Tail(todo[p])
<1> DEFINE x == <<r, Subject(p)>>
           t == Tail(todo[p])
<1>1. todo'[p] = <<x>> \o t /\ UNCHANGED pc
  BY DEF Becomes, Runs
<1>2. ASSUME todo[p] # <<>> PROVE <<x>> \o t # <<>> /\ Head(<<x>> \o t) = x /\ Tail(<<x>> \o t) = t
  <2>1. t \in Seq(Routines)
    BY <1>2, HeadAndTail DEF Runs, Lists
  <2> HIDE DEF x, t
  <2>2. QED
    BY <2>1
<1>3. QED
  BY <1>1, <1>2

LEMMA ILockLocks ==
    ASSUME LInv, NEW p \in Process, ILock(p)
    PROVE  LInv' /\ ~Freeing(p)'
<1> DEFINE i == Subject(p)
           X == HeldBy(p)
<1>1. /\ First(p, "ilock") /\ Done(p) /\ UNCHANGED <<dinode, cwd, file, call>> /\ icache[i].busy = None
      /\ Inodes /\ Runs
  BY DEF ILock, LInv, RInv
<1>2. Moved(p)
  BY <1>1, ILockMoves
<1>3. i \in Inum
  BY <1>1, HeadPath
<1>4. i \notin X
  BY <1>1, InodeAssumption DEF HeldBy
<1>5. \A j \in Inum : icache'[j].busy = IF j = i THEN p ELSE icache[j].busy
  <2> DEFINE x == IF icache[i].valid
                  THEN [icache[i] EXCEPT !.busy = p]
                  ELSE [icache[i] EXCEPT !.busy = p, !.valid = TRUE, !.type = dinode[i].type, !.nlink = dinode[i].nlink]
  <2>1. icache' = [icache EXCEPT ![i] = x]
    BY DEF ILock
  <2>2. icache[i] \in CacheSet /\ icache \in [Inum -> CacheSet]
    BY <1>1, <1>3 DEF Inodes
  <2>3. x.busy = p
    BY <2>2 DEF CacheSet
  <2> HIDE DEF x
  <2>4. QED
    BY <1>3, <2>1, <2>2, <2>3
<1>6. (\A q \in Process \ {p} : HeldBy(q)' = HeldBy(q)) /\ HeldBy(p)' = X \cup {i}
  BY <1>1, <1>3, <1>5, BusyOne
<1>7. todo'[p] = Tail(todo[p]) /\ UNCHANGED pc
  BY <1>1, DoneIs
<1>8. LocksAt(pc[p], call[p], todo'[p], HeldBy(p)', Kept(p))
  <2>1. CASE /\ pc[p] \in {"unlinkinode", "created"} /\ X = {Dp(p)} /\ i = Ip(p) /\ Tail(todo[p]) = <<>>
    BY <1>4, <1>6, <1>7, <2>1 DEF LocksAt, Ip, Dp
  <2>2. CASE /\ pc[p] \notin {"unlinkinode", "created"} /\ X = {}
             /\ Path(Tail(todo[p]), {i}, LockedAt(pc[p], call[p]), Kept(p))
    <3>1. HeldBy(p)' = {i}
      BY <1>6, <2>2
    <3>2. QED
      BY <1>7, <2>2, <3>1 DEF LocksAt
  <2>3. QED
    BY <1>1, <2>1, <2>2, HeadLock
<1>9. QED
  BY <1>1, <1>2, <1>6, <1>7, <1>8, RoutineLocks

LEMMA IUnlockLocks ==
    ASSUME LInv, NEW p \in Process, IUnlock(p)
    PROVE  LInv' /\ ~Freeing(p)'
<1> DEFINE i == Subject(p)
           X == HeldBy(p)
<1>1. /\ First(p, "iunlock") /\ Done(p) /\ UNCHANGED <<dinode, cwd, file, call>> /\ Inodes /\ Runs
  BY DEF IUnlock, LInv, RInv
<1>2. Moved(p)
  BY <1>1, IUnlockMoves
<1>3. i \in Inum
  BY <1>1, HeadPath
<1>4. /\ pc[p] \notin {"unlinkinode", "created"} /\ i \in X
      /\ Path(Tail(todo[p]), X \ {i}, LockedAt(pc[p], call[p]), Kept(p))
  <2>1. PICK Z \in SUBSET Inum : /\ Turns(<<"iunlock", i>>, X, Z)
                                 /\ Path(Tail(todo[p]), Z, LockedAt(pc[p], call[p]), Kept(p))
    BY <1>1, HeadPlain
  <2>2. i \in X /\ Z = X \ {i}
    BY <2>1 DEF Turns
  <2>3. QED
    BY <1>1, <2>1, <2>2, HeadPlain
<1>5. icache[i].busy = p
  BY <1>4 DEF HeldBy
<1>6. \A j \in Inum : icache'[j].busy = IF j = i THEN None ELSE icache[j].busy
  BY <1>1, <1>3 DEF IUnlock, Inodes, CacheSet
<1>7. (\A q \in Process \ {p} : HeldBy(q)' = HeldBy(q)) /\ HeldBy(p)' = X \ {i}
  BY <1>1, <1>3, <1>5, <1>6, BusyOne
<1>8. todo'[p] = Tail(todo[p]) /\ UNCHANGED pc
  BY <1>1, DoneIs
<1>9. LocksAt(pc[p], call[p], todo'[p], HeldBy(p)', Kept(p))
  BY <1>4, <1>7, <1>8 DEF LocksAt
<1>10. QED
  BY <1>1, <1>2, <1>7, <1>8, <1>9, RoutineLocks

(* One routine of freeing follows another.                                 *)
LEMMA FreeingLocks ==
    ASSUME LInv, NEW p \in Process, Moved(p), UNCHANGED <<cwd, file, call>>, NEW r \in {"itrunc", "iputdone"},
           Becomes(p, r), todo[p] # <<>>, \A q \in Process \ {p} : HeldBy(q)' = HeldBy(q),
           Subject(p) \in HeldBy(p)',
           LocksAt(pc[p], call[p], Tail(todo[p]), HeldBy(p)' \ {Subject(p)}, Kept(p))
    PROVE  LInv'
<1>1. /\ todo'[p] # <<>> /\ Head(todo'[p]) = <<r, Subject(p)>> /\ Tail(todo'[p]) = Tail(todo[p]) /\ UNCHANGED pc
  BY BecomesIs DEF LInv, RInv
<1>2. Freeing(p)' /\ Subject(p)' = Subject(p) /\ Kept(p)' = Kept(p)
  BY <1>1 DEF Freeing, First, Subject, Kept
<1>3. LockPath(p)'
  BY <1>1, <1>2 DEF LockPath
<1>4. QED
  BY <1>3, LocksMoved

LEMMA IPutLocks ==
    ASSUME LInv, NEW p \in Process, IPut(p)
    PROVE  LInv' /\ (~Last(Subject(p)) => ~Freeing(p)')
<1> DEFINE i == Subject(p)
           X == HeldBy(p)
           t == Tail(todo[p])
<1>1. /\ First(p, "iput") /\ UNCHANGED <<dinode, cwd, file, call>> /\ Inodes /\ Runs /\ todo[p] # <<>>
  BY DEF IPut, LInv, RInv, First
<1>2. Moved(p)
  BY <1>1, IPutMoves
<1>3. i \in Inum
  BY <1>1, HeadPath
<1>4. LocksAt(pc[p], call[p], t, X, Kept(p))
  <2>1. PICK Z \in SUBSET Inum : /\ Turns(<<"iput", i>>, X, Z)
                                 /\ Path(t, Z, LockedAt(pc[p], call[p]), Kept(p))
    BY <1>1, HeadPlain
  <2>2. Z = X
    BY <2>1 DEF Turns
  <2>3. pc[p] \notin {"unlinkinode", "created"}
    BY <1>1, HeadPlain
  <2>4. QED
    BY <2>1, <2>2, <2>3 DEF LocksAt
<1>5. CASE Last(i) /\ icache' = [icache EXCEPT ![i].busy = p] /\ Becomes(p, "itrunc")
  <2>1. icache[i].busy = None
    BY <1>1, <1>5, LastAlone DEF Last
  <2>2. \A j \in Inum : icache'[j].busy = IF j = i THEN p ELSE icache[j].busy
    BY <1>1, <1>3, <1>5 DEF Inodes, CacheSet
  <2>3. (\A q \in Process \ {p} : HeldBy(q)' = HeldBy(q)) /\ HeldBy(p)' = X \cup {i}
    BY <1>1, <1>3, <2>1, <2>2, BusyOne
  <2>4. i \in HeldBy(p)' /\ HeldBy(p)' \ {i} = X
    BY <2>1, <2>3, InodeAssumption DEF HeldBy
  <2>5. LocksAt(pc[p], call[p], t, HeldBy(p)' \ {i}, Kept(p))
    BY <1>4, <2>4
  <2>6. QED
    BY <1>1, <1>2, <1>5, <2>3, <2>4, <2>5, FreeingLocks
<1>6. CASE icache' = [icache EXCEPT ![i].ref = @ - 1] /\ Done(p)
  <2>1. \A j \in Inum : icache'[j].busy = icache[j].busy
    BY <1>1, <1>3, <1>6 DEF Inodes, CacheSet
  <2>2. \A q : HeldBy(q)' = HeldBy(q)
    BY <2>1 DEF HeldBy
  <2>3. todo'[p] = t /\ UNCHANGED pc
    BY <1>1, <1>6, DoneIs
  <2>4. LocksAt(pc[p], call[p], todo'[p], HeldBy(p)', Kept(p))
    BY <1>4, <2>2, <2>3
  <2>5. QED
    BY <1>1, <1>2, <2>2, <2>3, <2>4, RoutineLocks
<1>7. QED
  BY <1>5, <1>6 DEF IPut

LEMMA ITruncLocks ==
    ASSUME LInv, NEW p \in Process, ITrunc(p)
    PROVE  LInv'
<1> DEFINE i == Subject(p)
<1>1. /\ First(p, "itrunc") /\ UNCHANGED <<cwd, file, call>> /\ Becomes(p, "iputdone")
      /\ Inodes /\ Runs /\ todo[p] # <<>> /\ LockPath(p)
  BY DEF ITrunc, LInv, RInv, First
<1>2. Moved(p)
  BY <1>1, ITruncMoves DEF ITrunc
<1>3. i \in Inum
  BY <1>1, HeadPath
<1>4. i \in HeldBy(p) /\ LocksAt(pc[p], call[p], Tail(todo[p]), HeldBy(p) \ {i}, Kept(p))
  BY <1>1 DEF LockPath, Freeing
<1>5. \A j \in Inum : icache'[j].busy = icache[j].busy
  BY <1>1, <1>3 DEF ITrunc, Inodes, CacheSet
<1>6. \A q : HeldBy(q)' = HeldBy(q)
  BY <1>5 DEF HeldBy
<1>7. QED
  BY <1>1, <1>2, <1>4, <1>6, FreeingLocks

LEMMA IPutDoneLocks ==
    ASSUME LInv, NEW p \in Process, IPutDone(p)
    PROVE  LInv' /\ ~Freeing(p)'
<1> DEFINE i == Subject(p)
           X == HeldBy(p)
<1>1. /\ First(p, "iputdone") /\ Done(p) /\ UNCHANGED <<dinode, cwd, file, call>>
      /\ Inodes /\ Runs /\ LockPath(p)
  BY DEF IPutDone, LInv, RInv
<1>2. Moved(p)
  BY <1>1, IPutDoneMoves
<1>3. i \in Inum
  BY <1>1, HeadPath
<1>4. i \in X /\ LocksAt(pc[p], call[p], Tail(todo[p]), X \ {i}, Kept(p))
  BY <1>1 DEF LockPath, Freeing
<1>5. icache[i].busy = p
  BY <1>4 DEF HeldBy
<1>6. \A j \in Inum : icache'[j].busy = IF j = i THEN None ELSE icache[j].busy
  <2>1. Cleared(i).busy = None
    BY <1>1, <1>3 DEF Cleared, Inodes, CacheSet
  <2>2. icache' = [icache EXCEPT ![i] = Cleared(i)]
    BY DEF IPutDone
  <2>3. icache \in [Inum -> CacheSet]
    BY <1>1 DEF Inodes
  <2>4. QED
    BY <1>3, <2>1, <2>2, <2>3
<1>7. (\A q \in Process \ {p} : HeldBy(q)' = HeldBy(q)) /\ HeldBy(p)' = X \ {i}
  BY <1>1, <1>3, <1>5, <1>6, BusyOne
<1>8. todo'[p] = Tail(todo[p]) /\ UNCHANGED pc
  BY <1>1, DoneIs
<1>9. LocksAt(pc[p], call[p], todo'[p], HeldBy(p)', Kept(p))
  BY <1>4, <1>7, <1>8
<1>10. QED
  BY <1>1, <1>2, <1>7, <1>8, <1>9, RoutineLocks

-----------------------------------------------------------------------------
LEMMA CallsLock ==
    ASSUME LInv, NEW p \in Process, Step(p), ~Routine(p)
    PROVE  todo[p] = <<>> /\ LInv' /\ ~Freeing(p)'
<1>1. Inodes /\ Runs /\ LockPath(p)
  BY DEF LInv, RInv
<1>2. Moved(p)
  BY <1>1, StepMoves
<1>3. CASE SysOpen(p) \/ SysChdir(p) \/ SysCreate(p) \/ SysMkdir(p) \/ SysUnlink(p) \/ SysLink(p) \/ NameIParent(p)
  <2>1. PICK c \in CallSet, path \in Paths : Walks(p, c, path)
    BY <1>1, <1>3, SysCallsWalk, NameIParentWalks
  <2>2. todo[p] = <<>>
    BY <2>1 DEF Walks
  <2>3. QED
    BY <1>1, <1>2, <2>1, <2>2, WalksPlan, CallLocks
<1>4. CASE \/ Element(p) \/ Open(p) \/ UseFile(p) \/ Close(p) \/ Chdir(p) \/ Link(p) \/ DirLink(p) \/ BadLink(p)
           \/ Unlink(p) \/ UnlinkInode(p) \/ Unlinked(p) \/ Create(p) \/ Existing(p) \/ IGet(p) \/ Created(p)
  <2>1. todo[p] = <<>>
    BY <1>4 DEF Element, Open, UseFile, Close, Chdir, Link, DirLink, BadLink, Unlink, UnlinkInode, Unlinked, Create,
                Existing, IGet, Created, At
  <2>2. Plans(p)
    BY <1>1, <1>4, ElementPlans, OpenPlans, FilePlans, ChdirPlans, LinkPlans, DirLinkPlans, LowerPlans,
       UnlinkPlans, UnlinkInodePlans, CreatePlans, IGetPlans, CreatedPlans
  <2>3. QED
    BY <1>2, <2>1, <2>2, CallLocks
<1>5. QED
  BY <1>3, <1>4 DEF Step

LEMMA LocksStep ==
    ASSUME LInv, NEW p \in Process, Step(p)
    PROVE  LInv'
<1>1. CASE Routine(p)
  BY <1>1, ILockLocks, IUnlockLocks, IPutLocks, ITruncLocks, IPutDoneLocks DEF Routine
<1>2. QED
  BY <1>1, CallsLock

LEMMA InitLocks == Init => LInv
<1> SUFFICES ASSUME Init PROVE LInv
  OBVIOUS
<1>1. RInv
  BY InitTypes, InitCounts DEF RInv
<1>2. ASSUME NEW p \in Process PROVE LockPath(p)
  <2>1. pc[p] = "user" /\ todo[p] = <<>>
    BY <1>2 DEF Init
  <2>2. HeldBy(p) = {}
    <3>1. \A i \in Inum : icache[i].busy = None
      BY DEF Init, Uncached
    <3>2. QED
      BY <3>1, InodeAssumption DEF HeldBy
  <2>3. LockedAt("user", call[p]) = {}
    BY DEF LockedAt
  <2>4. Path(<<>>, {}, {}, Kept(p))
    BY PathEmpty
  <2>5. LocksAt("user", call[p], <<>>, {}, Kept(p))
    BY <2>3, <2>4 DEF LocksAt
  <2>6. QED
    BY <2>1, <2>2, <2>5 DEF LockPath, Freeing, First
<1>3. QED
  BY <1>1, <1>2 DEF LInv

LEMMA LocksStutter == LInv /\ UNCHANGED vars => LInv'
<1> SUFFICES ASSUME LInv, UNCHANGED vars PROVE LInv'
  OBVIOUS
<1>1. RInv'
  BY RefsStutter DEF LInv
<1>2. \A q : HeldBy(q)' = HeldBy(q)
  BY DEF HeldBy, vars
<1>3. ASSUME NEW p \in Process PROVE LockPath(p)'
  <2>1. /\ (Freeing(p)' <=> Freeing(p)) /\ Subject(p)' = Subject(p) /\ Kept(p)' = Kept(p)
        /\ UNCHANGED <<pc, call, todo>>
    BY DEF Freeing, First, Subject, Kept, vars
  <2>2. QED
    BY <1>2, <2>1 DEF LInv, LockPath
<1>4. QED
  BY <1>1, <1>3 DEF LInv

LEMMA LocksInvariant == Spec => []LInv
<1>1. LInv /\ [Next]_vars => LInv'
  BY LocksStep, LocksStutter DEF Next
<1>2. QED
  BY InitLocks, <1>1, PTL DEF Spec

(* What a routine asks of the locks and the counts of the cache.           *)
LocksHeld ==
    \A p \in Process :
        /\ First(p, "ilock") => icache[Subject(p)].ref > 0
        /\ First(p, "iunlock") => icache[Subject(p)].busy = p /\ icache[Subject(p)].ref > 0
        /\ First(p, "iput") => ~(Last(Subject(p)) /\ icache[Subject(p)].busy # None)

LEMMA LocksAreHeld == LInv => LocksHeld
<1> SUFFICES ASSUME LInv, NEW p \in Process
             PROVE  /\ First(p, "ilock") => icache[Subject(p)].ref > 0
                    /\ First(p, "iunlock") => icache[Subject(p)].busy = p /\ icache[Subject(p)].ref > 0
                    /\ First(p, "iput") => ~(Last(Subject(p)) /\ icache[Subject(p)].busy # None)
  BY DEF LocksHeld
<1> DEFINE i == Subject(p)
<1>1. Runs /\ RInv
  BY DEF LInv, RInv
<1>2. ASSUME First(p, "ilock") PROVE icache[i].ref > 0
  <2>1. i \in Inum
    BY <1>2, HeadPath
  <2>2. i \in Kept(p) \cup Putting(todo[p])
    BY <1>2, HeadLock
  <2>3. /\ Mine(p, i) \in Nat /\ Times(todo[p], i) \in Nat
        /\ i \in Putting(todo[p]) => Mine(p, i) >= 1
        /\ i \in Kept(p) => Mine(p, i) >= Times(todo[p], i) + 1
    BY <1>1, <2>1, MineAtLeast
  <2>4. Mine(p, i) >= 1
    BY <2>2, <2>3
  <2>5. icache[i].ref \in Int /\ icache[i].ref >= Mine(p, i)
    BY <1>1, <2>1, RefAtLeast
  <2>6. QED
    BY <2>3, <2>4, <2>5
<1>3. ASSUME First(p, "iunlock") PROVE icache[i].busy = p /\ icache[i].ref > 0
  <2>1. i \in Inum /\ \E Z \in SUBSET Inum : Turns(<<"iunlock", i>>, HeldBy(p), Z)
    BY <1>3, HeadPath, HeadPlain
  <2>2. icache[i].busy = p
    BY <2>1 DEF Turns, HeldBy
  <2>3. icache[i].ref >= 1 /\ icache[i].ref \in Int
    BY <1>1, <2>1, <2>2, HeldMine, RefAtLeast
  <2>4. QED
    BY <2>2, <2>3
<1>4. ASSUME First(p, "iput") PROVE ~(Last(i) /\ icache[i].busy # None)
  BY <1>4, LastAlone DEF Last
<1>5. QED
  BY <1>2, <1>3, <1>4

(* No process gives back a lock that it does not have, locks or unlocks an *)
(* inode that nobody refers to, or frees one that is locked: the panics of *)
(* ilock, iunlock and iput (fs.c) that are about the cache.                *)
THEOREM LocksCorrect == Spec => []LocksHeld
<1>1. LInv => LocksHeld
  BY LocksAreHeld
<1>2. QED
  BY LocksInvariant, <1>1, PTL

-----------------------------------------------------------------------------
(* The inodes that are being made or freed: nobody else has to do with     *)
(* them, although a number that is being freed may be given out again.     *)
Fresh(p, i) == (pc[p] = "iget" /\ call[p].new = i) \/ (pc[p] = "created" /\ Ip(p) = i)
Frees(p, i) == Freeing(p) /\ Subject(p) = i
Private(i)  == \E q \in Process : Fresh(q, i) \/ Frees(q, i)

UsedOK(p, i) ==
    Mine(p, i) >= 1 => IF Private(i) THEN Fresh(p, i) \/ Frees(p, i) ELSE dinode[i].type # "free"

FreshOK(p, i) ==
    Fresh(p, i) =>
        /\ dinode[i].nlink = 0 /\ dinode[i].type = call[p].type /\ dinode[i].entries = NoEntries
        /\ i # Dp(p)
        /\ \A q \in Process : Fresh(q, i) => q = p

FreesOK(p, i) ==
    Frees(p, i) =>
        /\ dinode[i].nlink = 0 /\ Mine(p, i) = 1
        /\ First(p, "itrunc") => dinode[i].type # "free" /\ \A q \in Process : ~Fresh(q, i)
        /\ First(p, "iputdone") => dinode[i].type = "free" \/ \E q \in Process : Fresh(q, i)

(* What a call has found out, and still rests on.                          *)
NoDotDot(s) == \A k \in DOMAIN s : s[k] # DotDot
DirAt(p)    == pc[p] \in {"unlink", "create", "unlinkinode", "iget", "created"} \/ (pc[p] = "link" /\ call[p].parent)
Linking(p)  == call[p].op = "link" /\ (call[p].parent \/ pc[p] = "badlink")
EntryOf(p)  == dinode[Dp(p)].entries[call[p].name]

CallOK(p) ==
    /\ NoDotDot(call[p].names)
    /\ DirAt(p) => dinode[Dp(p)].type = "dir" /\ call[p].name # DotDot
    /\ pc[p] = "unlinkinode" => call[p].name \in Name /\ EntryOf(p) = Ip(p)
    /\ pc[p] \in {"iget", "created"} => call[p].name \in Name /\ EntryOf(p) = None
    /\ pc[p] = "iget" => todo[p] = <<>>
    /\ Linking(p) => dinode[Ip(p)].type # "dir"

KindsOK(i) ==
    /\ dinode[i].type = "free" => dinode[i] = FreeInode
    /\ dinode[i].type = "file" => dinode[i].entries = NoEntries
    /\ dinode[i].type = "dir" => dinode[i].entries[Dot] = i \/ \E q \in Process : Fresh(q, i)

(* What the links of an inode are for: the names it has, the directories in*)
(* it, the calls that have still to lower them or to make a name, and the  *)
(* link that the root has in itself.                                       *)
Pledged(p, i) == Ip(p) = i /\ (pc[p] \in {"unlinked", "badlink"} \/ Linking(p))
Claims(i) ==
    {<<"entry", e[1], e[2]>> : e \in EntriesTo(i)} \cup {<<"subdir", i, n>> : n \in SubdirsOf(i)}
    \cup {<<"pledge", q, q>> : q \in {q \in Process : Pledged(q, i)}} \cup {<<"root", r, r>> : r \in {ROOTINO} \cap {i}}
LinksOK(i) == Cardinality(Claims(i)) <= dinode[i].nlink

(* The directories make a tree: each is deeper than the one it is in.      *)
Below(rank) ==
    \A d, e \in Inum : \A n \in Name :
        dinode[d].type = "dir" /\ dinode[d].entries[n] = e /\ dinode[e].type = "dir" => rank[d] < rank[e]
Ranked == \E B \in Nat : \E rank \in [Inum -> 0 .. B] : Below(rank)

Clearing(i) == \E p \in Process : First(p, "iputdone") /\ Subject(p) = i
CacheOK(i) ==
    /\ icache[i].busy # None => icache[i].valid
    /\ icache[i].ref > 0 /\ icache[i].valid /\ ~Clearing(i)
           => icache[i].type = dinode[i].type /\ icache[i].nlink = dinode[i].nlink
RemovedOK(i) ==
    dinode[i].type # "free" /\ dinode[i].nlink = 0
        => (icache[i].ref > 0 /\ icache[i].valid) \/ \E q \in Process : Fresh(q, i)

DInv ==
    /\ LInv
    /\ \A p \in Process : CallOK(p)
    /\ \A p \in Process, i \in Inum : UsedOK(p, i) /\ FreshOK(p, i) /\ FreesOK(p, i)
    /\ \A i \in Inum : KindsOK(i) /\ LinksOK(i) /\ CacheOK(i) /\ RemovedOK(i)
    /\ Ranked

(* No path goes through the parent of a directory, which may have been     *)
(* removed: with such a path the panic of ilock is reached.                *)
NoParents == \A path \in Paths : NoDotDot(path.names)

LEMMA AtLocks ==
    ASSUME LInv, NEW p \in Process, todo[p] = <<>>
    PROVE  /\ HeldBy(p) = LockedAt(pc[p], call[p]) /\ ~Freeing(p)
           /\ pc[p] \in {"unlinkinode", "created"} => Ip(p) # Dp(p)
           /\ \A i \in LockedAt(pc[p], call[p]) : i \in Inum /\ icache[i].busy = p
<1>1. ~Freeing(p)
  BY DEF Freeing, First
<1>2. LocksAt(pc[p], call[p], <<>>, HeldBy(p), Kept(p))
  BY <1>1 DEF LInv, LockPath
<1>3. \A i : <<>> # <<LockIt(i)>>
  OBVIOUS
<1>4. HeldBy(p) = LockedAt(pc[p], call[p])
  BY <1>2, <1>3, PathEmpty DEF LocksAt, LockedAt
<1>5. pc[p] \in {"unlinkinode", "created"} => Ip(p) # Dp(p)
  BY <1>2, <1>3 DEF LocksAt, Ip, Dp
<1>6. QED
  BY <1>1, <1>4, <1>5 DEF HeldBy

LEMMA FreesLocked ==
    ASSUME LInv, NEW p \in Process, NEW i, Frees(p, i)
    PROVE  /\ i \in Inum /\ icache[i].busy = p /\ todo[p] # <<>> /\ i = Subject(p)
           /\ First(p, "itrunc") \/ First(p, "iputdone")
           /\ \A j \in Kept(p) : j = i => Mine(p, i) >= 2
<1>1. Subject(p) \in HeldBy(p) /\ i = Subject(p) /\ (First(p, "itrunc") \/ First(p, "iputdone"))
  BY DEF Frees, LInv, LockPath, Freeing
<1>2. "itrunc" \in Puts /\ "iputdone" \in Puts
  BY DEF Puts
<1>3. i \in Kept(p) => Mine(p, i) >= 2
  BY <1>1, <1>2, HeadTwice
<1>4. QED
  BY <1>1, <1>3 DEF HeldBy, First

(* Who is counted.                                                         *)
LEMMA UserOf ==
    ASSUME RInv, NEW i \in Inum, icache[i].ref > 0
    PROVE  \E p \in Process : Mine(p, i) >= 1
<1> DEFINE U == UNION {{p} \X References(p, i) : p \in Process}
<1>1. icache[i].ref = Cardinality(U)
  BY DEF RInv, RefsAreHolders
<1>2. U # {}
  <2>1. ASSUME U = {} PROVE Cardinality(U) = 0
    BY <2>1, FS_EmptySet
  <2>2. QED
    BY <1>1, <2>1
<1>3. PICK p \in Process : References(p, i) # {}
  BY <1>2
<1>4. IsFiniteSet(References(p, i)) /\ Cardinality(References(p, i)) = Mine(p, i)
  BY MineIs DEF RInv
<1>5. Cardinality(References(p, i)) # 0 /\ Cardinality(References(p, i)) \in Nat
  BY <1>3, <1>4, FS_EmptySet, FS_CardinalityType
<1>6. QED
  BY <1>4, <1>5

LEMMA MineHas ==
    ASSUME Runs, NEW p \in Process, NEW i \in Inum
    PROVE  /\ Mine(p, i) \in Nat
           /\ i \in Kept(p) => Mine(p, i) >= 1
           /\ i \in Putting(todo[p]) => Mine(p, i) >= 1
<1>1. /\ Mine(p, i) \in Nat /\ Times(todo[p], i) \in Nat
      /\ i \in Putting(todo[p]) => Mine(p, i) >= 1
      /\ i \in Kept(p) => Mine(p, i) >= Times(todo[p], i) + 1
  BY MineAtLeast
<1>2. QED
  BY <1>1

LEMMA KeptIs ==
    ASSUME Runs, NEW p \in Process
    PROVE  /\ \A i \in Inum : i \in {cwd[p], file[p], Ip(p), Dp(p)} => i \in Kept(p)
           /\ Kept(p) \subseteq Inum /\ cwd[p] \in Kept(p)
<1>1. cwd[p] \in Inum /\ file[p] \in Inum \cup {None} /\ Ip(p) \in Inum \cup {None} /\ Dp(p) \in Inum \cup {None}
  BY CallTypes
<1>2. None \notin Inum
  BY InodeAssumption
<1>3. QED
  BY <1>1, <1>2 DEF Kept, KeptAt, Ip, Dp

(* What a process keeps is in use, and is not being freed.                 *)
LEMMA KeptInUse ==
    ASSUME DInv, NEW p \in Process, NEW i \in Kept(p)
    PROVE  /\ i \in Inum /\ dinode[i].type # "free"
           /\ ~Fresh(p, i) => ~Private(i)
           /\ \A q \in Process : ~(First(q, "itrunc") /\ Subject(q) = i)
<1>1. LInv /\ Runs /\ i \in Inum
  BY KeptIs DEF DInv, LInv, RInv
<1>2. Mine(p, i) >= 1 /\ Mine(p, i) \in Nat
  BY <1>1, MineHas
<1>3. ~Frees(p, i)
  <2>1. ASSUME Frees(p, i) PROVE FALSE
    <3>1. Mine(p, i) >= 2
      BY <1>1, <2>1, FreesLocked
    <3>2. Mine(p, i) = 1
      BY <1>1, <2>1 DEF DInv, FreesOK
    <3>3. QED
      BY <3>1, <3>2
  <2>2. QED
    BY <2>1
<1>4. IF Private(i) THEN Fresh(p, i) ELSE dinode[i].type # "free"
  BY <1>1, <1>2, <1>3 DEF DInv, UsedOK
<1>5. Fresh(p, i) => dinode[i].type # "free"
  <2>1. Fresh(p, i) => dinode[i].type = call[p].type
    BY <1>1 DEF DInv, FreshOK
  <2>2. Fresh(p, i) => call[p].type # "free"
    BY <1>1, CallTypes DEF Fresh, CallIs
  <2>3. QED
    BY <2>1, <2>2
<1>6. ASSUME NEW q \in Process, First(q, "itrunc"), Subject(q) = i PROVE FALSE
  <2>1. Frees(q, i)
    BY <1>6 DEF Frees, Freeing
  <2>2. Private(i)
    BY <2>1 DEF Private
  <2>3. ~Fresh(p, i)
    BY <1>1, <1>6, <2>1 DEF DInv, FreesOK
  <2>4. QED
    BY <1>4, <2>2, <2>3
<1>7. QED
  BY <1>1, <1>4, <1>5, <1>6

-----------------------------------------------------------------------------
(* Claims.                                                                 *)
LEMMA ClaimsFinite ==
    ASSUME NEW i
    PROVE  /\ IsFiniteSet(EntriesTo(i)) /\ IsFiniteSet(SubdirsOf(i)) /\ IsFiniteSet(Claims(i))
           /\ Cardinality(Claims(i)) \in Nat
<1>1. IsFiniteSet(Process) /\ IsFiniteSet(Inum) /\ IsFiniteSet(Name)
  BY InodeAssumption
<1>2. IsFiniteSet(Inum \X Name)
  BY <1>1, FS_Product
<1>3. IsFiniteSet(EntriesTo(i)) /\ IsFiniteSet(SubdirsOf(i))
  <2>1. EntriesTo(i) \subseteq Inum \X Name /\ SubdirsOf(i) \subseteq Name
    BY DEF EntriesTo, SubdirsOf
  <2>2. QED
    BY <1>1, <1>2, <2>1, FS_Subset
<1> DEFINE Q == {q \in Process : Pledged(q, i)}
           R == {ROOTINO} \cap {i}
           fe == [e \in EntriesTo(i) |-> <<"entry", e[1], e[2]>>]
           fs == [n \in SubdirsOf(i) |-> <<"subdir", i, n>>]
           fq == [q \in Q |-> <<"pledge", q, q>>]
           fr == [r \in R |-> <<"root", r, r>>]
           E == {<<"entry", e[1], e[2]>> : e \in EntriesTo(i)}
           S == {<<"subdir", i, n>> : n \in SubdirsOf(i)}
           P == {<<"pledge", q, q>> : q \in Q}
           O == {<<"root", r, r>> : r \in R}
<1>4. IsFiniteSet(Q) /\ IsFiniteSet(R)
  <2>1. IsFiniteSet({ROOTINO})
    BY FS_Singleton
  <2>2. QED
    BY <1>1, <2>1, FS_Subset
<1>5. IsFiniteSet(E)
  <2>1. fe \in Surjection(EntriesTo(i), E)
    BY DEF Surjection
  <2> HIDE DEF fe, E
  <2>2. QED
    BY <1>3, <2>1, FS_Surjection
<1>6. IsFiniteSet(S)
  <2>1. fs \in Surjection(SubdirsOf(i), S)
    BY DEF Surjection
  <2> HIDE DEF fs, S
  <2>2. QED
    BY <1>3, <2>1, FS_Surjection
<1>7. IsFiniteSet(P)
  <2>1. fq \in Surjection(Q, P)
    BY DEF Surjection
  <2> HIDE DEF fq, P, Q
  <2>2. QED
    BY <1>4, <2>1, FS_Surjection
<1>8. IsFiniteSet(O)
  <2>1. fr \in Surjection(R, O)
    BY DEF Surjection
  <2> HIDE DEF fr, O, R
  <2>2. QED
    BY <1>4, <2>1, FS_Surjection
<1>9. Claims(i) = ((E \cup S) \cup P) \cup O
  BY DEF Claims
<1> HIDE DEF E, S, P, O
<1>10. IsFiniteSet(((E \cup S) \cup P) \cup O)
  BY <1>5, <1>6, <1>7, <1>8, FS_Union
<1>11. QED
  BY <1>3, <1>9, <1>10, FS_CardinalityType

(* A claim more, or less, or another.                                      *)
LEMMA FewerClaims ==
    ASSUME NEW S, NEW T, IsFiniteSet(S), NEW n \in Int, Cardinality(S) <= n
    PROVE  /\ T \subseteq S => IsFiniteSet(T) /\ Cardinality(T) <= n
           /\ \A x : T \subseteq S \cup {x} => Cardinality(T) <= n + 1
           /\ \A x \in S : T \subseteq S \ {x} => Cardinality(T) <= n - 1
           /\ \A x \in S : \A y : T \subseteq (S \ {x}) \cup {y} => Cardinality(T) <= n
<1>1. Cardinality(S) \in Nat
  BY FS_CardinalityType
<1>2. ASSUME NEW V, IsFiniteSet(V), NEW W, W \subseteq V
      PROVE  IsFiniteSet(W) /\ Cardinality(W) <= Cardinality(V) /\ Cardinality(W) \in Nat /\ Cardinality(V) \in Nat
  BY <1>2, FS_Subset, FS_CardinalityType
<1>3. ASSUME NEW V, IsFiniteSet(V), NEW x
      PROVE  /\ IsFiniteSet(V \cup {x}) /\ Cardinality(V \cup {x}) <= Cardinality(V) + 1
             /\ Cardinality(V) \in Nat /\ Cardinality(V \cup {x}) \in Nat
  <2>1. IsFiniteSet(V \cup {x}) /\ Cardinality(V \cup {x}) = IF x \in V THEN Cardinality(V) ELSE Cardinality(V) + 1
    BY <1>3, FS_AddElement
  <2>2. Cardinality(V) \in Nat
    BY <1>3, FS_CardinalityType
  <2>3. QED
    BY <2>1, <2>2
<1>4. ASSUME NEW x \in S
      PROVE  IsFiniteSet(S \ {x}) /\ Cardinality(S \ {x}) = Cardinality(S) - 1 /\ Cardinality(S \ {x}) \in Nat
  <2>1. IsFiniteSet(S \ {x}) /\ Cardinality(S \ {x}) = IF x \in S THEN Cardinality(S) - 1 ELSE Cardinality(S)
    BY FS_RemoveElement
  <2>2. QED
    BY <2>1, FS_CardinalityType
<1>5. T \subseteq S => IsFiniteSet(T) /\ Cardinality(T) <= n
  <2>1. ASSUME T \subseteq S PROVE IsFiniteSet(T) /\ Cardinality(T) <= Cardinality(S) /\ Cardinality(T) \in Nat
    BY <1>2, <2>1
  <2>2. QED
    BY <1>1, <2>1
<1>6. ASSUME NEW x, T \subseteq S \cup {x} PROVE Cardinality(T) <= n + 1
  <2>1. /\ IsFiniteSet(S \cup {x}) /\ Cardinality(S \cup {x}) <= Cardinality(S) + 1 /\ Cardinality(S \cup {x}) \in Nat
    BY <1>3
  <2>2. Cardinality(T) <= Cardinality(S \cup {x}) /\ Cardinality(T) \in Nat
    BY <1>2, <1>6, <2>1
  <2>3. QED
    BY <1>1, <2>1, <2>2
<1>7. ASSUME NEW x \in S, T \subseteq S \ {x} PROVE Cardinality(T) <= n - 1
  <2>1. Cardinality(T) <= Cardinality(S \ {x}) /\ Cardinality(T) \in Nat
    BY <1>2, <1>4, <1>7
  <2> DEFINE s == Cardinality(S)
             u == Cardinality(S \ {x})
             t == Cardinality(T)
  <2>2. s \in Nat /\ u = s - 1 /\ t <= u /\ t \in Nat /\ s <= n
    BY <1>1, <1>4, <2>1
  <2> HIDE DEF s, u, t
  <2>3. t <= n - 1
    BY <2>2
  <2>4. QED
    BY <2>3 DEF t
<1>8. ASSUME NEW x \in S, NEW y, T \subseteq (S \ {x}) \cup {y} PROVE Cardinality(T) <= n
  <2> DEFINE V == S \ {x}
             W == V \cup {y}
  <2>1. IsFiniteSet(V) /\ Cardinality(V) = Cardinality(S) - 1 /\ Cardinality(V) \in Nat
    BY <1>4
  <2> HIDE DEF V
  <2>2. IsFiniteSet(W) /\ Cardinality(W) <= Cardinality(V) + 1 /\ Cardinality(W) \in Nat
    BY <1>3, <2>1
  <2>3. T \subseteq W
    BY <1>8 DEF V
  <2> HIDE DEF W
  <2>4. Cardinality(T) <= Cardinality(W) /\ Cardinality(T) \in Nat
    BY <1>2, <2>2, <2>3
  <2>5. QED
    BY <1>1, <2>1, <2>2, <2>4
<1>9. QED
  BY <1>5, <1>6, <1>7, <1>8

LEMMA ClaimsInt ==
    ASSUME DInv, NEW i \in Inum
    PROVE  /\ dinode[i].nlink \in Int /\ icache[i].nlink \in Int /\ IsFiniteSet(Claims(i))
           /\ Cardinality(Claims(i)) <= dinode[i].nlink /\ Cardinality(Claims(i)) \in Nat
<1>1. dinode[i].nlink \in Int /\ icache[i].nlink \in Int
  BY DEF DInv, LInv, RInv, Inodes, DInodeSet, CacheSet
<1>2. QED
  BY <1>1, ClaimsFinite DEF DInv, LinksOK

(* What has a claim has a link, and is neither free nor being freed.       *)
LEMMA ClaimedInUse ==
    ASSUME DInv, NEW i \in Inum, Claims(i) # {}
    PROVE  dinode[i].nlink >= 1
<1>1. Cardinality(Claims(i)) # 0
  BY ClaimsFinite, FS_EmptySet
<1>2. QED
  BY <1>1, ClaimsInt

LEMMA LinkedInUse ==
    ASSUME DInv, NEW i \in Inum, dinode[i].nlink >= 1
    PROVE  ~Private(i) /\ dinode[i].type # "free"
<1>1. ASSUME NEW q \in Process, Fresh(q, i) \/ Frees(q, i) PROVE FALSE
  <2>1. dinode[i].nlink = 0
    BY <1>1 DEF DInv, FreshOK, FreesOK
  <2>2. QED
    BY <2>1
<1>2. dinode[i].type = "free" => dinode[i].nlink = 0
  BY DEF DInv, KindsOK, FreeInode
<1>3. QED
  BY <1>1, <1>2 DEF Private

LEMMA EntryInUse ==
    ASSUME DInv, NEW d \in Inum, dinode[d].type = "dir", NEW n \in Name, NEW i \in Inum, dinode[d].entries[n] = i
    PROVE  dinode[i].nlink >= 1 /\ ~Private(i) /\ dinode[i].type # "free"
<1>1. <<d, n>> \in EntriesTo(i)
  BY DEF EntriesTo
<1>2. Claims(i) # {}
  BY <1>1 DEF Claims
<1>3. QED
  BY <1>2, ClaimedInUse, LinkedInUse

LEMMA RootInUse ==
    ASSUME DInv
    PROVE  ROOTINO \in Inum /\ dinode[ROOTINO].nlink >= 1
<1>1. ROOTINO \in Inum
  BY InodeAssumption
<1>2. Claims(ROOTINO) # {}
  BY DEF Claims
<1>3. QED
  BY <1>1, <1>2, ClaimedInUse

(* What a process has locked is in the cache as it is on the disk.         *)
LEMMA LockedCache ==
    ASSUME DInv, NEW p \in Process, NEW i \in Inum, icache[i].busy = p, ~First(p, "iputdone")
    PROVE  /\ icache[i].type = dinode[i].type /\ icache[i].nlink = dinode[i].nlink
           /\ icache[i].valid /\ icache[i].ref > 0
<1>1. LInv /\ icache[i].ref >= 1 /\ icache[i].ref \in Int
  BY HeldMine DEF DInv, LInv, RInv, Inodes, CacheSet
<1>2. icache[i].valid
  BY InodeAssumption DEF DInv, CacheOK
<1>3. ~Clearing(i)
  <2>1. ASSUME NEW q \in Process, First(q, "iputdone"), Subject(q) = i PROVE FALSE
    <3>1. Frees(q, i)
      BY <2>1 DEF Frees, Freeing
    <3>2. icache[i].busy = q
      BY <1>1, <3>1, FreesLocked
    <3>3. QED
      BY <2>1, <3>2
  <2>2. QED
    BY <2>1 DEF Clearing
<1>4. icache[i].ref > 0
  BY <1>1
<1>5. QED
  BY <1>2, <1>3, <1>4 DEF DInv, CacheOK

-----------------------------------------------------------------------------
(* What a step of p leaves of the others.                                  *)
LEMMA OthersSame ==
    ASSUME NEW p \in Process, OthersKept(p), NEW q \in Process \ {p}
    PROVE  /\ \A i : (Fresh(q, i)' <=> Fresh(q, i)) /\ (Frees(q, i)' <=> Frees(q, i))
           /\ \A i : (Pledged(q, i)' <=> Pledged(q, i)) /\ Mine(q, i)' = Mine(q, i)
           /\ Kept(q)' = Kept(q) /\ Subject(q)' = Subject(q) /\ Dp(q)' = Dp(q) /\ Ip(q)' = Ip(q)
           /\ \A r : First(q, r)' <=> First(q, r)
<1>1. /\ cwd'[q] = cwd[q] /\ file'[q] = file[q] /\ call'[q] = call[q] /\ todo'[q] = todo[q] /\ pc'[q] = pc[q]
  BY DEF OthersKept
<1>2. /\ Subject(q)' = Subject(q) /\ \A r : First(q, r)' <=> First(q, r)
  BY <1>1 DEF Subject, First
<1>3. Freeing(q)' <=> Freeing(q)
  BY <1>2 DEF Freeing
<1>4. Dp(q)' = Dp(q) /\ Ip(q)' = Ip(q) /\ (Linking(q)' <=> Linking(q))
  BY <1>1 DEF Dp, Ip, Linking
<1>5. \A i : (Fresh(q, i)' <=> Fresh(q, i)) /\ (Frees(q, i)' <=> Frees(q, i)) /\ (Pledged(q, i)' <=> Pledged(q, i))
  BY <1>1, <1>2, <1>3, <1>4 DEF Fresh, Frees, Pledged
<1>6. \A i : Mine(q, i)' = Mine(q, i)
  BY <1>1 DEF Mine
<1>7. Kept(q)' = Kept(q)
  BY <1>1 DEF Kept
<1>8. QED
  BY <1>2, <1>4, <1>5, <1>6, <1>7

LEMMA MineNextIs == ASSUME NEW p, NEW j PROVE Mine(p, j)' = MineNext(p, j)
BY DEF Mine, MineNext

(* What p may write: the inodes that it has locked, the one that it frees, *)
(* and a free one that it takes.                                           *)
Disk(p) ==
    \A j \in Inum :
        \/ dinode'[j] = dinode[j]
        \/ icache[j].busy = p /\ todo[p] = <<>> /\ dinode'[j].type = dinode[j].type
        \/ First(p, "itrunc") /\ Subject(p) = j
        \/ dinode[j].type = "free" /\ dinode'[j].nlink = 0 /\ Fresh(p, j)'

LEMMA LinkingHas ==
    ASSUME Runs, NEW p \in Process, Linking(p)
    PROVE  Ip(p) \in Inum
<1>1. CallIs(pc[p], call[p]) /\ call[p] \in CallSet /\ pc[p] \in Points
  BY CallTypes DEF Runs
<1>2. call[p].ip \in Inum \cup {None}
  BY <1>1 DEF CallSet
<1>3. pc[p] = "element" => call[p].ip \in Inum
  BY <1>1, <1>2 DEF CallIs, WalkOK, Linking
<1>4. pc[p] # "element" => call[p].ip \in Inum
  BY <1>1 DEF CallIs, Points, Linking, NoCall
<1>5. QED
  BY <1>3, <1>4 DEF Ip

LEMMA DirHas ==
    ASSUME Runs, NEW p \in Process, DirAt(p)
    PROVE  Dp(p) \in Inum
BY CallTypes DEF DirAt, CallIs

(* A call that works in a directory has locked it.                         *)
LEMMA DirLocked ==
    ASSUME LInv, NEW p \in Process, CallOK(p), pc[p] \in {"unlinkinode", "iget", "created"}
    PROVE  Dp(p) \in Inum /\ icache[Dp(p)].busy = p
<1>1. Dp(p) \in Inum /\ Dp(p) = call[p].dp
  BY DirHas DEF LInv, RInv, DirAt, Dp
<1>2. CASE pc[p] = "iget"
  BY <1>2, AtLocks DEF CallOK, LockedAt, Dp
<1>3. CASE pc[p] \in {"unlinkinode", "created"}
  <2>1. call[p].dp \in HeldBy(p)
    BY <1>3 DEF LInv, LockPath, LocksAt
  <2>2. QED
    BY <1>1, <2>1 DEF HeldBy
<1>4. QED
  BY <1>2, <1>3

LEMMA OthersOK ==
    ASSUME DInv, NEW p \in Process, Moved(p), Disk(p),
           \A j \in Inum : Fresh(p, j)' => Fresh(p, j) \/ dinode[j].type = "free",
           \A j \in Inum : Fresh(p, j) => Fresh(p, j)' \/ (icache[j].busy = p /\ todo[p] = <<>>),
           NEW q \in Process \ {p}
    PROVE  CallOK(q)' /\ \A i \in Inum : FreshOK(q, i)' /\ FreesOK(q, i)'
<1>1. LInv /\ Runs /\ OthersKept(p) /\ call'[q] = call[q] /\ todo'[q] = todo[q] /\ pc'[q] = pc[q]
  BY DEF DInv, LInv, RInv, Moved, OthersKept
<1>2. /\ \A i : (Fresh(q, i)' <=> Fresh(q, i)) /\ (Frees(q, i)' <=> Frees(q, i)) /\ Mine(q, i)' = Mine(q, i)
      /\ Dp(q)' = Dp(q) /\ Ip(q)' = Ip(q) /\ \A r : First(q, r)' <=> First(q, r)
  BY <1>1, OthersSame
<1>3. ASSUME NEW j \in Inum, j \in Kept(q)
      PROVE  dinode'[j].type = dinode[j].type /\ (icache[j].busy = q => dinode'[j] = dinode[j])
  <2>1. dinode[j].type # "free" /\ ~(First(p, "itrunc") /\ Subject(p) = j)
    BY <1>3, KeptInUse
  <2>2. QED
    BY <2>1 DEF Disk
<1>4. CallOK(q)'
  <2>1. CallOK(q)
    BY DEF DInv
  <2>2. DirAt(q) => Dp(q) \in Inum /\ Dp(q) \in Kept(q)
    BY <1>1, DirHas, KeptIs
  <2>3. Linking(q) => Ip(q) \in Inum /\ Ip(q) \in Kept(q)
    BY <1>1, LinkingHas, KeptIs
  <2>4. pc[q] \in {"unlinkinode", "iget", "created"} => EntryOf(q)' = EntryOf(q)
    <3>1. ASSUME pc[q] \in {"unlinkinode", "iget", "created"} PROVE dinode'[Dp(q)] = dinode[Dp(q)]
      BY <1>1, <1>3, <2>1, <2>2, <3>1, DirLocked DEF DirAt
    <3>2. QED
      BY <1>1, <1>2, <3>1 DEF EntryOf
  <2>5. (DirAt(q)' <=> DirAt(q)) /\ (Linking(q)' <=> Linking(q))
    BY <1>1 DEF DirAt, Linking
  <2>6. DirAt(q) => dinode'[Dp(q)].type = "dir"
    BY <1>3, <2>1, <2>2 DEF CallOK
  <2>7. Linking(q) => dinode'[Ip(q)].type # "dir"
    BY <1>3, <2>1, <2>3 DEF CallOK
  <2>8. QED
    BY <1>1, <1>2, <2>1, <2>4, <2>5, <2>6, <2>7 DEF CallOK
<1>5. ASSUME NEW i \in Inum, Fresh(q, i) PROVE FreshOK(q, i)'
  <2>1. /\ dinode[i].nlink = 0 /\ dinode[i].type = call[q].type /\ dinode[i].entries = NoEntries
        /\ i # Dp(q) /\ \A r \in Process : Fresh(r, i) => r = q
    BY <1>5 DEF DInv, FreshOK
  <2>2. dinode[i].type # "free"
    BY <1>1, <1>5, <2>1, CallTypes DEF Fresh, CallIs
  <2>3. ~(icache[i].busy = p /\ todo[p] = <<>>)
    <3>1. SUFFICES ASSUME icache[i].busy = p, todo[p] = <<>> PROVE FALSE
      OBVIOUS
    <3>2. Mine(p, i) >= 1 /\ Private(i)
      BY <1>1, <1>5, <3>1, HeldMine DEF Private
    <3>3. Fresh(p, i) \/ Frees(p, i)
      BY <3>2 DEF DInv, UsedOK
    <3>4. ~Frees(p, i)
      BY <3>1 DEF Frees, Freeing, First
    <3>5. QED
      BY <2>1, <3>3, <3>4
  <2>4. ~(First(p, "itrunc") /\ Subject(p) = i)
    <3>1. SUFFICES ASSUME First(p, "itrunc"), Subject(p) = i PROVE FALSE
      OBVIOUS
    <3>2. Frees(p, i)
      BY <3>1 DEF Frees, Freeing
    <3>3. QED
      BY <1>5, <3>1, <3>2 DEF DInv, FreesOK
  <2>5. dinode'[i] = dinode[i]
    BY <2>2, <2>3, <2>4 DEF Disk
  <2>6. ASSUME NEW r \in Process, Fresh(r, i)' PROVE r = q
    <3>1. CASE r = p
      BY <2>1, <2>2, <2>6, <3>1
    <3>2. CASE r # p
      BY <1>1, <2>1, <2>6, <3>2, OthersSame
    <3>3. QED
      BY <3>1, <3>2
  <2>7. QED
    BY <1>1, <1>2, <2>1, <2>5, <2>6 DEF FreshOK
<1>6. ASSUME NEW i \in Inum, Frees(q, i) PROVE FreesOK(q, i)'
  <2>1. icache[i].busy = q
    BY <1>1, <1>6, FreesLocked
  <2>2. /\ dinode[i].nlink = 0 /\ Mine(q, i) = 1
        /\ First(q, "itrunc") => dinode[i].type # "free" /\ \A r \in Process : ~Fresh(r, i)
        /\ First(q, "iputdone") => dinode[i].type = "free" \/ \E r \in Process : Fresh(r, i)
    BY <1>6 DEF DInv, FreesOK
  <2>3. ~(First(p, "itrunc") /\ Subject(p) = i)
    <3>1. ASSUME First(p, "itrunc"), Subject(p) = i PROVE Frees(p, i)
      BY <3>1 DEF Frees, Freeing
    <3>2. QED
      BY <1>1, <2>1, <3>1, FreesLocked
  <2>4. dinode'[i] = dinode[i] \/ (dinode[i].type = "free" /\ dinode'[i].nlink = 0 /\ Fresh(p, i)')
    BY <2>1, <2>3 DEF Disk
  <2>5. ASSUME First(q, "itrunc") PROVE dinode'[i].type # "free" /\ \A r \in Process : ~Fresh(r, i)'
    <3>1. dinode'[i] = dinode[i]
      BY <2>2, <2>4, <2>5
    <3>2. ASSUME NEW r \in Process, Fresh(r, i)' PROVE FALSE
      <4>1. CASE r = p
        BY <2>2, <2>5, <3>2, <4>1
      <4>2. CASE r # p
        BY <1>1, <2>2, <2>5, <3>2, <4>2, OthersSame
      <4>3. QED
        BY <4>1, <4>2
    <3>3. QED
      BY <2>2, <2>5, <3>1, <3>2
  <2>6. ASSUME First(q, "iputdone") PROVE dinode'[i].type = "free" \/ \E r \in Process : Fresh(r, i)'
    <3>1. ASSUME NEW r \in Process, Fresh(r, i) PROVE Fresh(r, i)'
      <4>1. CASE r = p
        BY <2>1, <3>1, <4>1
      <4>2. CASE r # p
        BY <1>1, <3>1, <4>2, OthersSame
      <4>3. QED
        BY <4>1, <4>2
    <3>2. QED
      BY <2>2, <2>4, <2>6, <3>1
  <2>7. QED
    BY <1>2, <2>2, <2>4, <2>5, <2>6 DEF FreesOK
<1>7. QED
  BY <1>2, <1>4, <1>5, <1>6 DEF FreshOK, FreesOK

(* A step that begins and ends neither the making nor the freeing of one.  *)
SamePrivate(p) == \A j \in Inum : (Fresh(p, j)' <=> Fresh(p, j)) /\ (Frees(p, j)' <=> Frees(p, j))

LEMMA PrivateKept ==
    ASSUME NEW p \in Process, OthersKept(p), SamePrivate(p)
    PROVE  \A j \in Inum : /\ Private(j)' <=> Private(j)
                           /\ \A q \in Process : (Fresh(q, j)' <=> Fresh(q, j)) /\ (Frees(q, j)' <=> Frees(q, j))
<1>1. ASSUME NEW j \in Inum, NEW q \in Process PROVE (Fresh(q, j)' <=> Fresh(q, j)) /\ (Frees(q, j)' <=> Frees(q, j))
  <2>1. CASE q = p
    BY <2>1 DEF SamePrivate
  <2>2. CASE q # p
    BY <2>2, OthersSame
  <2>3. QED
    BY <2>1, <2>2
<1>2. QED
  BY <1>1 DEF Private

(* New references are to inodes with a link, or which p has already.       *)
SafeUses(p) == \A j \in Inum : icache'[j].ref > icache[j].ref => Mine(p, j) >= 1 \/ dinode[j].nlink >= 1

LEMMA NewUses ==
    ASSUME DInv, NEW p \in Process, Moved(p), SafeUses(p), NEW i \in Inum, Mine(p, i)' >= 1
    PROVE  Mine(p, i) >= 1 \/ dinode[i].nlink >= 1
<1>1. icache'[i].ref + Mine(p, i) = icache[i].ref + MineNext(p, i) /\ MineNext(p, i) = Mine(p, i)'
  BY MineNextIs DEF Moved
<1>2. icache[i].ref \in Int /\ icache'[i].ref \in Int /\ Mine(p, i) \in Nat
  BY MineHas DEF DInv, LInv, RInv, Inodes, Moved, CacheSet
<1>3. Mine(p, i)' \in Int
  <2>1. Runs'
    BY DEF Moved
  <2>2. (Runs /\ p \in Process /\ i \in Inum => Mine(p, i) \in Nat)'
    BY MineHas, PTL
  <2>3. QED
    BY <2>1, <2>2
<1> DEFINE m == Mine(p, i)
           n == Mine(p, i)'
           r == icache[i].ref
           s == icache'[i].ref
<1>4. s + m = r + n /\ r \in Int /\ s \in Int /\ m \in Nat /\ n \in Int /\ n >= 1
  BY <1>1, <1>2, <1>3
<1> HIDE DEF m, n, r, s
<1>5. m >= 1 \/ s > r
  BY <1>4
<1>6. QED
  BY <1>5 DEF SafeUses, m, r, s

LEMMA UsedKept ==
    ASSUME DInv, NEW p \in Process, Moved(p), SamePrivate(p), SafeUses(p),
           \A j \in Inum : dinode'[j].type = "free" => dinode[j].type = "free"
    PROVE  \A q \in Process, i \in Inum : UsedOK(q, i)'
<1>1. ASSUME NEW q \in Process, NEW i \in Inum, Mine(q, i)' >= 1
      PROVE  Mine(q, i) >= 1 \/ dinode[i].nlink >= 1
  <2>1. CASE q = p
    BY <1>1, <2>1, NewUses
  <2>2. CASE q # p
    BY <1>1, <2>2, OthersSame DEF Moved
  <2>3. QED
    BY <2>1, <2>2
<1>2. ASSUME NEW q \in Process, NEW i \in Inum, Mine(q, i)' >= 1
      PROVE  IF Private(i) THEN Fresh(q, i) \/ Frees(q, i) ELSE dinode[i].type # "free"
  <2>1. CASE Mine(q, i) >= 1
    BY <2>1 DEF DInv, UsedOK
  <2>2. CASE dinode[i].nlink >= 1
    BY <2>2, LinkedInUse
  <2>3. QED
    BY <1>1, <1>2, <2>1, <2>2
<1>3. OthersKept(p)
  BY DEF Moved
<1>4. ASSUME NEW q \in Process, NEW i \in Inum
      PROVE  (Private(i)' <=> Private(i)) /\ (Fresh(q, i)' <=> Fresh(q, i)) /\ (Frees(q, i)' <=> Frees(q, i))
  BY <1>3, PrivateKept
<1>5. QED
  BY <1>2, <1>4 DEF UsedOK

-----------------------------------------------------------------------------
(* A step that writes nothing on the disk.                                 *)
LEMMA ClaimsSame ==
    ASSUME NEW p \in Process, OthersKept(p), UNCHANGED dinode, NEW i, Pledged(p, i)' => Pledged(p, i)
    PROVE  Claims(i)' \subseteq Claims(i)
<1>1. EntriesTo(i)' = EntriesTo(i) /\ SubdirsOf(i)' = SubdirsOf(i)
  BY DEF EntriesTo, SubdirsOf
<1>2. \A q \in Process : Pledged(q, i)' => Pledged(q, i)
  BY OthersSame
<1>3. QED
  BY <1>1, <1>2 DEF Claims

Sound(p) == CallOK(p)' /\ \A j \in Inum : Pledged(p, j)' => Pledged(p, j)

LEMMA NothingWritten ==
    ASSUME DInv, NEW p \in Process, Moved(p), LInv', UNCHANGED dinode, ~Freeing(p), ~Freeing(p)',
           \A j \in Inum : Fresh(p, j)' <=> Fresh(p, j),
           \A j \in Inum : Fresh(p, j) => call'[p].type = call[p].type /\ Dp(p)' = Dp(p),
           SafeUses(p), Sound(p), \A j \in Inum : CacheOK(j)' /\ RemovedOK(j)'
    PROVE  DInv'
<1>1. OthersKept(p) /\ SamePrivate(p)
  BY DEF Moved, SamePrivate, Frees
<1>2. \A q \in Process, i \in Inum : UsedOK(q, i)'
  BY <1>1, UsedKept
<1>3. ASSUME NEW q \in Process \ {p}
      PROVE  CallOK(q)' /\ \A i \in Inum : FreshOK(q, i)' /\ FreesOK(q, i)'
  BY OthersOK DEF Disk
<1>4. ASSUME NEW j \in Inum, NEW q \in Process
      PROVE  (Fresh(q, j)' <=> Fresh(q, j)) /\ (Frees(q, j)' <=> Frees(q, j))
  BY <1>1, PrivateKept
<1>5. ASSUME NEW i \in Inum PROVE FreshOK(p, i)' /\ FreesOK(p, i)'
  <2>1. FreshOK(p, i)
    BY DEF DInv
  <2>2. FreshOK(p, i)'
    BY <1>4, <2>1 DEF FreshOK
  <2>3. QED
    BY <2>2 DEF FreesOK, Frees
<1>6. CallOK(p)'
  BY DEF Sound
<1>7. ASSUME NEW i \in Inum PROVE KindsOK(i)' /\ LinksOK(i)'
  <2>1. KindsOK(i)'
    BY <1>4 DEF DInv, KindsOK
  <2>2. Claims(i)' \subseteq Claims(i)
    BY <1>1, ClaimsSame DEF Sound
  <2>3. Cardinality(Claims(i)') <= dinode[i].nlink
    BY <2>2, ClaimsInt, FewerClaims
  <2>4. QED
    BY <2>1, <2>3 DEF LinksOK
<1>8. Ranked'
  BY DEF DInv, Ranked, Below
<1>9. QED
  BY <1>2, <1>3, <1>5, <1>6, <1>7, <1>8 DEF DInv

(* The cache, when it changes only by a new reference.                     *)
LEMMA ClearingKept ==
    ASSUME NEW p \in Process, OthersKept(p), ~Freeing(p), ~Freeing(p)', NEW i
    PROVE  Clearing(i)' <=> Clearing(i)
<1>1. ~First(p, "iputdone") /\ ~First(p, "iputdone")'
  BY DEF Freeing
<1>2. \A q \in Process \ {p} : (First(q, "iputdone")' <=> First(q, "iputdone")) /\ Subject(q)' = Subject(q)
  BY OthersSame
<1>3. QED
  BY <1>1, <1>2 DEF Clearing

References1(p) == icache' = icache \/ \E i \in Inum : icache' = Referenced(i) /\ (Mine(p, i) >= 1 \/ dinode[i].nlink >= 1)

LEMMA OneReference ==
    ASSUME DInv, NEW p \in Process, Moved(p), UNCHANGED dinode, ~Freeing(p), ~Freeing(p)',
           \A j \in Inum : Fresh(p, j)' <=> Fresh(p, j),
           icache' = icache \/ \E i \in Inum : icache' = Referenced(i)
    PROVE  \A j \in Inum : CacheOK(j)' /\ RemovedOK(j)'
<1> SUFFICES ASSUME NEW j \in Inum PROVE CacheOK(j)' /\ RemovedOK(j)'
  OBVIOUS
<1>1. /\ OthersKept(p) /\ SamePrivate(p) /\ LInv /\ icache \in [Inum -> CacheSet] /\ icache[j] \in CacheSet
      /\ icache[j].ref >= 0 /\ CacheOK(j) /\ RemovedOK(j)
  BY DEF Moved, SamePrivate, Frees, DInv, LInv, RInv, Inodes
<1>2. /\ Clearing(j)' <=> Clearing(j)
      /\ \A q \in Process : Fresh(q, j)' <=> Fresh(q, j)
  BY <1>1, ClearingKept, PrivateKept
<1>3. \/ icache'[j] = icache[j]
      \/ icache[j].ref > 0 /\ icache'[j] = [icache[j] EXCEPT !.ref = @ + 1]
      \/ icache[j].ref = 0 /\ icache'[j] = [Uncached EXCEPT !.ref = 1]
  BY <1>1 DEF Referenced, CacheSet
<1>4. CASE icache'[j] = icache[j]
  BY <1>1, <1>2, <1>4 DEF CacheOK, RemovedOK
<1>5. CASE icache[j].ref > 0 /\ icache'[j] = [icache[j] EXCEPT !.ref = @ + 1]
  <2>1. /\ icache'[j].ref > 0 /\ icache'[j].busy = icache[j].busy /\ icache'[j].valid = icache[j].valid
        /\ icache'[j].type = icache[j].type /\ icache'[j].nlink = icache[j].nlink
    BY <1>1, <1>5 DEF CacheSet
  <2>2. QED
    BY <1>1, <1>2, <1>5, <2>1 DEF CacheOK, RemovedOK
<1>6. CASE icache[j].ref = 0 /\ icache'[j] = [Uncached EXCEPT !.ref = 1]
  <2>1. icache'[j].busy = None /\ icache'[j].valid = FALSE
    BY <1>6 DEF Uncached
  <2>2. QED
    BY <1>1, <1>2, <1>6, <2>1 DEF CacheOK, RemovedOK
<1>7. QED
  BY <1>3, <1>4, <1>5, <1>6

(* A step of a call that only looks.                                       *)
Looks(p) ==
    /\ UNCHANGED dinode /\ References1(p) /\ Sound(p)
    /\ pc[p] \notin {"iget", "created"} /\ pc'[p] \notin {"iget", "created"}

LEMMA LooksOK ==
    ASSUME DInv, NEW p \in Process, Step(p), ~Routine(p), Looks(p)
    PROVE  DInv'
<1>1. LInv /\ Inodes /\ Runs
  BY DEF DInv, LInv, RInv
<1>2. Moved(p) /\ todo[p] = <<>> /\ LInv' /\ ~Freeing(p)' /\ ~Freeing(p)
  BY <1>1, StepMoves, CallsLock, AtLocks
<1>3. \A j \in Inum : ~Fresh(p, j) /\ ~Fresh(p, j)'
  BY DEF Looks, Fresh
<1>4. SafeUses(p)
  <2>1. ASSUME NEW i \in Inum, icache' = Referenced(i), NEW j \in Inum, icache'[j].ref > icache[j].ref PROVE j = i
    <3>1. icache'[j].ref = icache[j].ref + Is(i, j) /\ icache[j].ref \in Int
      BY <1>1, <2>1, ReferencedDoes DEF Inodes, CacheSet
    <3>2. QED
      BY <2>1, <3>1 DEF Is
  <2>2. \A j \in Inum : icache[j].ref \in Int
    BY <1>1 DEF Inodes, CacheSet
  <2>3. icache' = icache => \A j \in Inum : ~(icache'[j].ref > icache[j].ref)
    BY <2>2
  <2>4. QED
    BY <2>1, <2>3 DEF Looks, References1, SafeUses
<1>5. \A j \in Inum : CacheOK(j)' /\ RemovedOK(j)'
  BY <1>2, <1>3, OneReference DEF Looks, References1
<1>6. UNCHANGED dinode /\ Sound(p)
  BY DEF Looks
<1>7. QED
  BY <1>2, <1>3, <1>4, <1>5, <1>6, NothingWritten

-----------------------------------------------------------------------------
(* The parts of a call that only look.                                     *)
LEMMA SoundNext ==
    ASSUME Runs, NEW p \in Process, CallOK(p), UNCHANGED dinode,
           NEW c, NEW l, call' = [call EXCEPT ![p] = c], pc' = [pc EXCEPT ![p] = l],
           NoDotDot(c.names),
           l \notin {"unlink", "create", "unlinkinode", "iget", "created", "unlinked"}, ~(l = "link" /\ c.parent),
           c.op = "link" /\ (c.parent \/ l = "badlink") => Linking(p) /\ c.ip = Ip(p),
           l = "badlink" => c.op = "link"
    PROVE  Sound(p) /\ pc'[p] = l
<1>1. call'[p] = c /\ pc'[p] = l
  BY DEF Runs
<1>2. Ip(p)' = c.ip
  BY <1>1 DEF Ip
<1>3. CallOK(p)'
  <2>1. ~DirAt(p)' /\ (Linking(p)' => Linking(p) /\ Ip(p)' = Ip(p))
    BY <1>1, <1>2 DEF DirAt, Linking
  <2>2. QED
    BY <1>1, <1>2, <2>1 DEF CallOK
<1>4. ASSUME NEW j \in Inum, Pledged(p, j)' PROVE Pledged(p, j)
  BY <1>1, <1>2, <1>4 DEF Pledged, Linking
<1>5. QED
  BY <1>1, <1>3, <1>4 DEF Sound

LEMMA NoDots == NoDotDot(<<>>) /\ \A s \in NameLists : NoDotDot(s) /\ s # <<>> => NoDotDot(Tail(s)) /\ Head(s) \in Names /\ Head(s) # DotDot
<1>1. NoDotDot(<<>>)
  BY DEF NoDotDot
<1>2. ASSUME NEW s \in NameLists, NoDotDot(s), s # <<>> PROVE NoDotDot(Tail(s)) /\ Head(s) \in Names /\ Head(s) # DotDot
  <2>1. Head(s) = s[1] /\ 1 \in DOMAIN s /\ Head(s) \in Names
    BY <1>2 DEF NameLists
  <2>2. \A k \in DOMAIN Tail(s) : k + 1 \in DOMAIN s /\ Tail(s)[k] = s[k + 1]
    BY <1>2 DEF NameLists
  <2>3. QED
    BY <1>2, <2>1, <2>2 DEF NoDotDot
<1>3. QED
  BY <1>1, <1>2

LEMMA ReturnSound ==
    ASSUME Runs, NEW p \in Process, CallOK(p), UNCHANGED dinode, NEW r, Return(p, r)
    PROVE  Sound(p) /\ pc'[p] = "user"
<1>1. NoCall.names = <<>> /\ NoCall.op = "none" /\ NoCall.parent = FALSE
  BY DEF NoCall
<1>2. call' = [call EXCEPT ![p] = NoCall] /\ pc' = [pc EXCEPT ![p] = "user"]
  BY DEF Return, Then
<1> DEFINE c == NoCall
           l == "user"
<1>3. /\ call' = [call EXCEPT ![p] = c] /\ pc' = [pc EXCEPT ![p] = l] /\ NoDotDot(c.names)
      /\ l \notin {"unlink", "create", "unlinkinode", "iget", "created", "unlinked"}
      /\ ~(l = "link" /\ c.parent) /\ c.op # "link" /\ l # "badlink"
  BY <1>1, <1>2, NoDots
<1> HIDE DEF c, l
<1>4. Sound(p) /\ pc'[p] = l
  BY <1>3, SoundNext
<1>5. QED
  BY <1>4 DEF l

LEMMA FailSound ==
    ASSUME Runs, NEW p \in Process, CallOK(p), UNCHANGED dinode, NEW r, Fail(p, r),
           call[p].op = "link" /\ Ip(p) # None => call[p].parent
    PROVE  Sound(p) /\ pc'[p] \in {"user", "badlink"}
<1>1. CASE call[p].op = "link" /\ Ip(p) # None
  <2> DEFINE c == [NoCall EXCEPT !.op = "link", !.ip = Ip(p)]
  <2>1. call' = [call EXCEPT ![p] = c] /\ pc' = [pc EXCEPT ![p] = "badlink"]
    BY <1>1 DEF Fail, Then
  <2>2. c.names = <<>> /\ c.op = "link" /\ c.ip = Ip(p)
    BY DEF NoCall
  <2>3. Linking(p)
    BY <1>1 DEF Linking
  <2> HIDE DEF c
  <2>4. QED
    BY <2>1, <2>2, <2>3, NoDots, SoundNext
<1>2. CASE ~(call[p].op = "link" /\ Ip(p) # None)
  <2>1. Return(p, r)
    BY <1>2 DEF Fail
  <2>2. QED
    BY <2>1, ReturnSound
<1>3. QED
  BY <1>1, <1>2

LEMMA NameXSound ==
    ASSUME Runs, NEW p \in Process, CallOK(p), UNCHANGED dinode, NEW c \in CallSet, WalkOK(c), NEW r, NameX(p, c, r),
           c.ip = Ip(p), NoDotDot(c.names),
           Ip(p) # None => call[p].op = "link" /\ call[p].parent
    PROVE  Sound(p) /\ pc'[p] \notin {"iget", "created"}
<1>0. c.op = "link" /\ c.parent => Linking(p) /\ c.ip = Ip(p)
  BY DEF WalkOK, Linking
<1>1. CASE c.names # <<>> /\ call' = [call EXCEPT ![p] = c] /\ pc' = [pc EXCEPT ![p] = "element"]
  BY <1>0, <1>1, SoundNext
<1>2. CASE /\ c.names = <<>> /\ ~c.parent /\ call' = [call EXCEPT ![p] = [c EXCEPT !.ip = c.dp, !.dp = None]]
           /\ pc' = [pc EXCEPT ![p] = c.op]
  <2> DEFINE e == [c EXCEPT !.ip = c.dp, !.dp = None]
  <2>1. e.names = <<>> /\ e.op = c.op /\ ~e.parent
    BY <1>2 DEF CallSet
  <2>2. c.op \in {"open", "chdir", "link"}
    BY <1>2 DEF WalkOK, CallSet
  <2>3. call' = [call EXCEPT ![p] = e] /\ pc' = [pc EXCEPT ![p] = c.op]
    BY <1>2
  <2> HIDE DEF e
  <2> DEFINE l == c.op
  <2>4. /\ call' = [call EXCEPT ![p] = e] /\ pc' = [pc EXCEPT ![p] = l] /\ NoDotDot(e.names)
        /\ l \notin {"unlink", "create", "unlinkinode", "iget", "created", "unlinked"}
        /\ ~(l = "link" /\ e.parent) /\ ~e.parent /\ l # "badlink"
    BY <2>1, <2>2, <2>3, NoDots
  <2> HIDE DEF l
  <2>5. Sound(p) /\ pc'[p] = l
    BY <2>4, SoundNext
  <2>6. QED
    BY <2>4, <2>5
<1>3. CASE c.names = <<>> /\ c.parent /\ Fail(p, r \o <<PutIt(c.dp)>>)
  <2> DEFINE s == r \o <<PutIt(c.dp)>>
  <2>1. Fail(p, s) /\ (call[p].op = "link" /\ Ip(p) # None => call[p].parent)
    BY <1>3
  <2> HIDE DEF s
  <2>2. Sound(p) /\ pc'[p] \in {"user", "badlink"}
    BY <2>1, FailSound
  <2>3. QED
    BY <2>2
<1>4. QED
  BY <1>1, <1>2, <1>3 DEF NameX, Then

LEMMA WalksLook ==
    ASSUME DInv, NoParents, NEW p \in Process, NEW c \in CallSet, NEW path \in Paths, Walks(p, c, path)
    PROVE  Looks(p)
<1> DEFINE i == IF path.absolute THEN ROOTINO ELSE cwd[p]
           d == [c EXCEPT !.names = path.names, !.dp = i]
<1>1. Runs /\ LInv /\ CallOK(p)
  BY DEF DInv, LInv, RInv
<1>2. i \in Inum /\ path.names \in NameLists /\ NoDotDot(path.names)
  BY <1>1, CallTypes, InodeAssumption DEF NoParents, NameLists, Names
<1>3. /\ pc[p] \in {"user", "nameiparent"} /\ UNCHANGED dinode /\ c.ip = Ip(p) /\ (c.ip # None => call[p].op = "link")
      /\ WalkOK(d) /\ icache' = Referenced(i) /\ NameX(p, d, <<>>)
  BY <1>2 DEF Walks, Walk
<1>4. d \in CallSet /\ d.ip = Ip(p) /\ NoDotDot(d.names)
  BY <1>2, <1>3 DEF CallSet
<1>5. Ip(p) # None => call[p].op = "link" /\ call[p].parent
  BY <1>1, <1>3, CallTypes DEF CallIs, NoCall
<1> HIDE DEF d
<1>6. Sound(p) /\ pc'[p] \notin {"iget", "created"}
  BY <1>1, <1>3, <1>4, <1>5, NameXSound
<1>7. Mine(p, i) >= 1 \/ dinode[i].nlink >= 1
  <2>1. Mine(p, cwd[p]) >= 1
    BY <1>1, KeptIs, MineHas
  <2>2. QED
    BY <2>1, RootInUse
<1>8. QED
  BY <1>2, <1>3, <1>6, <1>7 DEF Looks, References1

(* An entry that is looked up leads to an inode in use.                    *)
LEMMA EntrySafe ==
    ASSUME DInv, NEW p \in Process, pc[p] \notin {"iget", "created"}, NEW d \in Inum, d = Dp(p), dinode[d].type = "dir",
           NEW n \in Names, n # DotDot, dinode[d].entries[n] # None
    PROVE  /\ dinode[d].entries[n] \in Inum
           /\ Mine(p, dinode[d].entries[n]) >= 1 \/ dinode[dinode[d].entries[n]].nlink >= 1
<1>1. Runs /\ Inodes
  BY DEF DInv, LInv, RInv
<1>2. dinode[d].entries[n] \in Inum
  BY <1>1, EntryType
<1>3. CASE n = Dot
  <2>1. d \in Kept(p) /\ ~Fresh(p, d)
    BY <1>1, KeptIs DEF Fresh
  <2>2. ~Private(d)
    BY <2>1, KeptInUse
  <2>3. dinode[d].entries[Dot] = d
    BY <2>2 DEF Private, DInv, KindsOK
  <2>4. QED
    BY <1>1, <1>2, <1>3, <2>1, <2>3, MineHas
<1>4. CASE n \in Name
  BY <1>2, <1>4, EntryInUse
<1>5. QED
  BY <1>2, <1>3, <1>4 DEF Names

(* What p reads of an inode that it has locked is what is on the disk.     *)
LEMMA ReadsDisk ==
    ASSUME DInv, NEW p \in Process, todo[p] = <<>>, NEW i \in LockedAt(pc[p], call[p])
    PROVE  /\ i \in Inum /\ icache[i].busy = p /\ icache[i].ref > 0 /\ icache[i].valid
           /\ icache[i].type = dinode[i].type /\ icache[i].nlink = dinode[i].nlink
<1>1. i \in Inum /\ icache[i].busy = p
  BY AtLocks DEF DInv
<1>2. ~First(p, "iputdone")
  BY DEF First
<1>3. QED
  BY <1>1, <1>2, LockedCache

LEMMA ElementLooks ==
    ASSUME DInv, NEW p \in Process, Element(p)
    PROVE  Looks(p)
<1> DEFINE d == Dp(p)
           n == Head(call[p].names)
           i == dinode[d].entries[n]
<1>1. /\ Runs /\ CallOK(p) /\ pc[p] = "element" /\ todo[p] = <<>> /\ UNCHANGED dinode
      /\ call[p] \in CallSet /\ WalkOK(call[p]) /\ call[p].names # <<>> /\ d \in Inum /\ d = call[p].dp
      /\ call[p].names \in NameLists /\ Ip(p) = call[p].ip
  BY CallTypes DEF DInv, LInv, RInv, Element, At, CallIs, WalkOK, Dp, Ip
<1>2. icache[d].type = dinode[d].type
  BY <1>1, ReadsDisk DEF LockedAt
<1>3. n \in Names /\ n # DotDot /\ NoDotDot(Tail(call[p].names))
  BY <1>1, NoDots DEF CallOK
<1>4. Ip(p) # None => call[p].op = "link" /\ call[p].parent
  BY <1>1 DEF WalkOK
<1>5. ASSUME NEW r, Fail(p, r), UNCHANGED icache PROVE Looks(p)
  <2>1. Sound(p) /\ pc'[p] \in {"user", "badlink"}
    BY <1>1, <1>4, <1>5, FailSound
  <2>2. QED
    BY <1>1, <1>5, <2>1 DEF Looks, References1
<1>6. CASE /\ icache[d].type = "dir" /\ call[p].parent /\ Len(call[p].names) = 1
           /\ call' = [call EXCEPT ![p].name = n, ![p].names = <<>>]
           /\ Then(p, <<UnlockIt(d), LockIt(d)>>, call[p].op)
           /\ UNCHANGED icache
  <2>1. call[p].op \in {"create", "unlink", "link"}
    BY <1>1, <1>6 DEF WalkOK, CallSet
  <2>2. /\ call'[p].name = n /\ call'[p].names = <<>> /\ call'[p].ip = call[p].ip /\ call'[p].dp = call[p].dp
        /\ call'[p].op = call[p].op /\ call'[p].parent = call[p].parent /\ pc'[p] = call[p].op
    BY <1>1, <1>6 DEF Then, Runs, CallSet
  <2>3. Ip(p)' = Ip(p) /\ Dp(p)' = d /\ (Linking(p)' <=> Linking(p))
    BY <1>1, <2>1, <2>2 DEF Ip, Dp, Linking
  <2>4. CallOK(p)'
    BY <1>1, <1>2, <1>3, <1>6, <2>1, <2>2, <2>3, NoDots DEF CallOK
  <2>5. \A j \in Inum : Pledged(p, j)' => Pledged(p, j)
    BY <2>1, <2>2, <2>3 DEF Pledged
  <2>6. QED
    BY <1>1, <1>6, <2>1, <2>2, <2>4, <2>5 DEF Looks, References1, Sound
<1>7. CASE /\ icache[d].type = "dir" /\ i # None /\ icache' = Referenced(i)
           /\ NameX(p, [call[p] EXCEPT !.dp = i, !.names = Tail(@)], UnlockPutIt(d))
  <2>1. i \in Inum /\ (Mine(p, i) >= 1 \/ dinode[i].nlink >= 1)
    BY <1>1, <1>2, <1>3, <1>7, EntrySafe
  <2> DEFINE c == [call[p] EXCEPT !.dp = i, !.names = Tail(@)]
  <2>2. Tail(call[p].names) \in NameLists
    BY <1>1 DEF NameLists
  <2>3. c \in CallSet /\ WalkOK(c) /\ c.ip = Ip(p) /\ c.names = Tail(call[p].names)
    BY <1>1, <2>1, <2>2 DEF CallSet, WalkOK
  <2>4. NameX(p, c, UnlockPutIt(d))
    BY <1>7
  <2> HIDE DEF c, i
  <2>5. Sound(p) /\ pc'[p] \notin {"iget", "created"}
    BY <1>1, <1>3, <1>4, <2>3, <2>4, NameXSound
  <2>6. QED
    BY <1>1, <1>7, <2>1, <2>5 DEF Looks, References1
<1>8. QED
  BY <1>5, <1>6, <1>7 DEF Element

LEMMA ReturnLooks ==
    ASSUME DInv, NEW p \in Process, pc[p] \notin {"iget", "created"}, UNCHANGED <<dinode, icache>>, NEW r, Return(p, r)
    PROVE  Looks(p)
<1>1. Runs /\ CallOK(p) /\ UNCHANGED dinode
  BY DEF DInv, LInv, RInv
<1>2. Sound(p) /\ pc'[p] = "user"
  BY <1>1, ReturnSound
<1>3. QED
  BY <1>1, <1>2 DEF Looks, References1

LEMMA FilesLook ==
    ASSUME DInv, NEW p \in Process,
           Open(p) \/ UseFile(p) \/ Close(p) \/ Chdir(p) \/ Existing(p)
    PROVE  Looks(p)
<1>1. Runs /\ CallOK(p)
  BY DEF DInv, LInv, RInv
<1>2. CASE Open(p) \/ Chdir(p) \/ Existing(p)
  <2>1. pc[p] \notin {"iget", "created"} /\ UNCHANGED <<dinode, icache>>
    BY <1>2 DEF Open, Chdir, Existing, At
  <2>2. \E r : Return(p, r)
    BY <1>2 DEF Open, Chdir, Existing, OpenFile
  <2>3. QED
    BY <2>1, <2>2, ReturnLooks
<1>3. CASE UseFile(p) \/ Close(p)
  <2> DEFINE c == call[p]
             l == "user"
  <2>1. pc[p] = "user" /\ UNCHANGED <<dinode, icache, call>> /\ pc' = [pc EXCEPT ![p] = l]
    BY <1>3 DEF UseFile, Close, At, Then
  <2>2. call' = [call EXCEPT ![p] = c] /\ NoDotDot(c.names) /\ c.op = "none"
    BY <1>1, <2>1, SameOwn, CallTypes DEF CallOK, CallIs, NoCall
  <2>3. /\ l \notin {"unlink", "create", "unlinkinode", "iget", "created", "unlinked"}
        /\ ~(l = "link" /\ c.parent) /\ c.op # "link" /\ l # "badlink" /\ UNCHANGED dinode
    BY <2>1, <2>2
  <2> HIDE DEF c, l
  <2>4. Sound(p) /\ pc'[p] = l
    BY <1>1, <2>1, <2>2, <2>3, SoundNext
  <2>5. QED
    BY <2>1, <2>4 DEF Looks, References1, l
<1>4. QED
  BY <1>2, <1>3

LEMMA UnlinkLooks ==
    ASSUME DInv, NEW p \in Process, Unlink(p)
    PROVE  Looks(p)
<1> DEFINE d == Dp(p)
           n == call[p].name
           i == dinode[d].entries[n]
<1>1. /\ Runs /\ CallOK(p) /\ pc[p] = "unlink" /\ UNCHANGED dinode /\ d \in Inum /\ n \in Names /\ call[p].op = "unlink"
      /\ d = call[p].dp
  BY CallTypes DEF DInv, LInv, RInv, Unlink, At, CallIs, Dp
<1>2. dinode[d].type = "dir" /\ n # DotDot
  BY <1>1 DEF CallOK, DirAt
<1>3. CASE Return(p, UnlockPutIt(d)) /\ UNCHANGED icache
  BY <1>1, <1>3, ReturnLooks
<1>4. CASE /\ n \notin {Dot, DotDot} /\ i # None /\ icache' = Referenced(i)
           /\ call' = [call EXCEPT ![p].ip = i] /\ Then(p, <<LockIt(i)>>, "unlinkinode")
  <2>1. i \in Inum /\ (Mine(p, i) >= 1 \/ dinode[i].nlink >= 1)
    BY <1>1, <1>2, <1>4, EntrySafe
  <2>2. /\ call'[p].name = n /\ call'[p].names = call[p].names /\ call'[p].ip = i /\ call'[p].dp = d
        /\ call'[p].op = "unlink" /\ pc'[p] = "unlinkinode"
    BY <1>1, <1>4, CallTypes DEF Then, Runs, CallSet
  <2>3. Ip(p)' = i /\ Dp(p)' = d /\ ~Linking(p)'
    BY <2>2 DEF Ip, Dp, Linking
  <2>4. n \in Name
    BY <1>1, <1>4 DEF Names
  <2>5. EntryOf(p)' = i
    BY <1>1, <2>2, <2>3 DEF EntryOf
  <2>6. CallOK(p)'
    BY <1>1, <1>2, <2>2, <2>3, <2>4, <2>5 DEF CallOK
  <2>7. \A j \in Inum : ~Pledged(p, j)'
    BY <2>2, <2>3 DEF Pledged
  <2>8. QED
    BY <1>1, <1>4, <2>1, <2>2, <2>6, <2>7 DEF Looks, References1, Sound
<1>5. QED
  BY <1>3, <1>4 DEF Unlink

(* The steps of the other calls that have nothing to do.                   *)
CreateLooks(p) == Create(p) /\ EntryOf(p) # None
DirLinkLooks(p) == DirLink(p) /\ EntryOf(p) # None
LinkLooks(p) == Link(p) /\ icache[Ip(p)].type = "dir"
UnlinkInodeLooks(p) == UnlinkInode(p) /\ icache[Ip(p)].type = "dir" /\ ~IsDirEmpty(Ip(p))

LEMMA LinksLook ==
    ASSUME DInv, NEW p \in Process, LinkLooks(p) \/ UnlinkInodeLooks(p)
    PROVE  Looks(p)
<1>1. CASE LinkLooks(p)
  <2>1. pc[p] = "link" /\ Return(p, UnlockPutIt(Ip(p))) /\ UNCHANGED <<dinode, icache>>
    BY <1>1 DEF LinkLooks, Link, At
  <2>2. QED
    BY <2>1, ReturnLooks
<1>2. CASE UnlinkInodeLooks(p)
  <2>1. pc[p] = "unlinkinode" /\ (\E r : Return(p, r)) /\ UNCHANGED <<dinode, icache>>
    BY <1>2 DEF UnlinkInodeLooks, UnlinkInode, At
  <2>2. QED
    BY <2>1, ReturnLooks
<1>3. QED
  BY <1>1, <1>2

LEMMA DirLinksLook ==
    ASSUME DInv, NEW p \in Process, DirLinkLooks(p)
    PROVE  Looks(p)
<1> DEFINE d == Dp(p)
           n == call[p].name
           i == dinode[d].entries[n]
           r == DirLinkPuts(i) \o UnlockPutIt(d)
<1>1. /\ Runs /\ CallOK(p) /\ pc[p] = "link" /\ call[p].parent /\ d \in Inum /\ n \in Names
      /\ d = call[p].dp
  BY CallTypes DEF DInv, LInv, RInv, DirLinkLooks, DirLink, At, CallIs, Dp
<1>2. dinode[d].type = "dir" /\ n # DotDot
  BY <1>1 DEF CallOK, DirAt
<1>3. i # None /\ icache' = Referenced(i) /\ Fail(p, r) /\ UNCHANGED dinode
  BY DEF DirLinkLooks, DirLink, EntryOf
<1>4. i \in Inum /\ (Mine(p, i) >= 1 \/ dinode[i].nlink >= 1)
  BY <1>1, <1>2, <1>3, EntrySafe
<1> HIDE DEF r
<1>5. Sound(p) /\ pc'[p] \in {"user", "badlink"}
  BY <1>1, <1>3, FailSound
<1>6. QED
  BY <1>1, <1>3, <1>4, <1>5 DEF Looks, References1

LEMMA CreatesLook ==
    ASSUME DInv, NEW p \in Process, CreateLooks(p)
    PROVE  Looks(p)
<1> DEFINE d == Dp(p)
           n == call[p].name
           i == dinode[d].entries[n]
           c == [call[p] EXCEPT !.ip = i, !.dp = None]
           l == "existing"
<1>1. /\ Runs /\ CallOK(p) /\ pc[p] = "create" /\ d \in Inum /\ n \in Names /\ call[p].op = "create"
      /\ d = call[p].dp /\ call[p] \in CallSet
  BY CallTypes DEF DInv, LInv, RInv, CreateLooks, Create, At, CallIs, Dp
<1>2. dinode[d].type = "dir" /\ n # DotDot
  BY <1>1 DEF CallOK, DirAt
<1>3. i # None /\ icache' = Referenced(i) /\ UNCHANGED dinode /\ pc' = [pc EXCEPT ![p] = l]
      /\ call' = [call EXCEPT ![p].ip = i, ![p].dp = None]
  BY DEF CreateLooks, Create, EntryOf, Then
<1>4. i \in Inum /\ (Mine(p, i) >= 1 \/ dinode[i].nlink >= 1)
  BY <1>1, <1>2, <1>3, EntrySafe
<1>5. /\ call' = [call EXCEPT ![p] = c] /\ NoDotDot(c.names) /\ c.op = "create"
  BY <1>1, <1>3 DEF CallOK, CallSet, Runs
<1>6. /\ l \notin {"unlink", "create", "unlinkinode", "iget", "created", "unlinked"}
      /\ ~(l = "link" /\ c.parent) /\ c.op # "link" /\ l # "badlink"
  BY <1>5
<1> HIDE DEF c, l
<1>7. Sound(p) /\ pc'[p] = l
  BY <1>1, <1>3, <1>5, <1>6, SoundNext
<1>8. QED
  BY <1>1, <1>3, <1>4, <1>7 DEF Looks, References1, l

LEMMA CallsLook ==
    ASSUME DInv, NoParents, NEW p \in Process,
           \/ SysOpen(p) \/ SysChdir(p) \/ SysCreate(p) \/ SysMkdir(p) \/ SysUnlink(p) \/ SysLink(p) \/ NameIParent(p)
           \/ Element(p) \/ Open(p) \/ UseFile(p) \/ Close(p) \/ Chdir(p) \/ Existing(p) \/ Unlink(p)
           \/ LinkLooks(p) \/ DirLinkLooks(p) \/ CreateLooks(p) \/ UnlinkInodeLooks(p)
    PROVE  Looks(p)
<1>1. CASE SysOpen(p) \/ SysChdir(p) \/ SysCreate(p) \/ SysMkdir(p) \/ SysUnlink(p) \/ SysLink(p) \/ NameIParent(p)
  <2>1. Runs
    BY DEF DInv, LInv, RInv
  <2>2. PICK c \in CallSet, path \in Paths : Walks(p, c, path)
    BY <1>1, <2>1, SysCallsWalk, NameIParentWalks
  <2>3. QED
    BY <2>2, WalksLook
<1>2. CASE \/ Element(p) \/ Open(p) \/ UseFile(p) \/ Close(p) \/ Chdir(p) \/ Existing(p) \/ Unlink(p)
  BY <1>2, ElementLooks, FilesLook, UnlinkLooks
<1>3. CASE LinkLooks(p) \/ DirLinkLooks(p) \/ CreateLooks(p) \/ UnlinkInodeLooks(p)
  BY <1>3, LinksLook, DirLinksLook, CreatesLook
<1>4. QED
  BY <1>1, <1>2, <1>3

-----------------------------------------------------------------------------
(* The routines.                                                           *)
LEMMA AllOK ==
    ASSUME DInv, NEW p \in Process, Moved(p), LInv', Disk(p),
           \A j \in Inum : Fresh(p, j)' => Fresh(p, j) \/ dinode[j].type = "free",
           \A j \in Inum : Fresh(p, j) => Fresh(p, j)' \/ (icache[j].busy = p /\ todo[p] = <<>>),
           CallOK(p)', \A j \in Inum : FreshOK(p, j)' /\ FreesOK(p, j)',
           \A q \in Process, j \in Inum : UsedOK(q, j)',
           \A j \in Inum : KindsOK(j)' /\ LinksOK(j)' /\ CacheOK(j)' /\ RemovedOK(j)',
           Ranked'
    PROVE  DInv'
<1>1. ASSUME NEW q \in Process \ {p} PROVE CallOK(q)' /\ \A j \in Inum : FreshOK(q, j)' /\ FreesOK(q, j)'
  BY OthersOK
<1>2. QED
  BY <1>1 DEF DInv

(* A routine leaves the call where it is.                                  *)
LEMMA RoutineSame ==
    ASSUME DInv, NEW p \in Process, NEW r, First(p, r), UNCHANGED <<pc, call>>
    PROVE  /\ \A j : (Fresh(p, j)' <=> Fresh(p, j)) /\ (Pledged(p, j)' <=> Pledged(p, j))
           /\ pc[p] # "iget" /\ Dp(p)' = Dp(p) /\ Ip(p)' = Ip(p) /\ (DirAt(p)' <=> DirAt(p)) /\ (Linking(p)' <=> Linking(p))
           /\ UNCHANGED dinode => CallOK(p)'
<1>1. pc[p] # "iget" /\ CallOK(p)
  BY DEF DInv, CallOK, First
<1>2. Dp(p)' = Dp(p) /\ Ip(p)' = Ip(p) /\ (DirAt(p)' <=> DirAt(p)) /\ (Linking(p)' <=> Linking(p))
  BY DEF Dp, Ip, DirAt, Linking
<1>3. \A j : (Fresh(p, j)' <=> Fresh(p, j)) /\ (Pledged(p, j)' <=> Pledged(p, j))
  BY <1>2 DEF Fresh, Pledged
<1>4. UNCHANGED dinode => CallOK(p)'
  BY <1>1, <1>2 DEF CallOK, EntryOf
<1>5. QED
  BY <1>1, <1>2, <1>3, <1>4

LEMMA QuietOK ==
    ASSUME DInv, NEW p \in Process, NEW r \in {"ilock", "iunlock", "iput"}, First(p, r), Moved(p), LInv', ~Freeing(p)',
           UNCHANGED <<dinode, pc, call>>, \A j \in Inum : ~(icache'[j].ref > icache[j].ref),
           \A j \in Inum : CacheOK(j)' /\ RemovedOK(j)'
    PROVE  DInv'
<1>1. ~Freeing(p)
  BY DEF Freeing, First
<1>2. SafeUses(p)
  BY DEF SafeUses
<1>3. /\ \A j : (Fresh(p, j)' <=> Fresh(p, j)) /\ (Pledged(p, j)' <=> Pledged(p, j))
      /\ Dp(p)' = Dp(p) /\ CallOK(p)' /\ call'[p].type = call[p].type
  BY RoutineSame
<1>4. Sound(p)
  BY <1>3 DEF Sound
<1>5. QED
  BY <1>1, <1>2, <1>3, <1>4, NothingWritten

LEMMA ILockOK ==
    ASSUME DInv, NEW p \in Process, ILock(p)
    PROVE  DInv'
<1> DEFINE i == Subject(p)
<1>1. /\ LInv /\ Inodes /\ Runs /\ First(p, "ilock") /\ i \in Inum /\ UNCHANGED <<dinode, pc, call>>
  BY HeadPath DEF DInv, LInv, RInv, ILock, Done
<1>2. Moved(p) /\ LInv' /\ ~Freeing(p)' /\ ~Freeing(p)
  BY <1>1, ILockMoves, ILockLocks DEF Freeing, First
<1>3. /\ \A j \in Inum \ {i} : icache'[j] = icache[j]
      /\ icache'[i].ref = icache[i].ref /\ icache'[i].valid
      /\ icache[i].valid => icache'[i].type = icache[i].type /\ icache'[i].nlink = icache[i].nlink
      /\ ~icache[i].valid => icache'[i].type = dinode[i].type /\ icache'[i].nlink = dinode[i].nlink
  BY <1>1 DEF ILock, Inodes, CacheSet
<1>4. \A j : (Fresh(p, j)' <=> Fresh(p, j))
  BY <1>1, RoutineSame
<1>5. \A j \in Inum, q \in Process : Fresh(q, j)' <=> Fresh(q, j)
  BY <1>2, <1>4, OthersSame DEF Moved
<1>6. ASSUME NEW j \in Inum PROVE CacheOK(j)' /\ RemovedOK(j)'
  <2>1. CacheOK(j) /\ RemovedOK(j) /\ (Clearing(j)' <=> Clearing(j))
    BY <1>2, ClearingKept DEF DInv, Moved
  <2>2. CASE j = i
    BY <1>1, <1>3, <1>5, <2>1, <2>2 DEF CacheOK, RemovedOK
  <2>3. CASE j # i
    BY <1>1, <1>3, <1>5, <2>1, <2>3 DEF CacheOK, RemovedOK
  <2>4. QED
    BY <2>2, <2>3
<1>7. \A j \in Inum : ~(icache'[j].ref > icache[j].ref)
  <2>1. \A j \in Inum : icache'[j].ref = icache[j].ref /\ icache[j].ref \in Int
    BY <1>1, <1>3 DEF Inodes, CacheSet
  <2>2. QED
    BY <2>1
<1>8. QED
  BY <1>1, <1>2, <1>6, <1>7, QuietOK

LEMMA IUnlockOK ==
    ASSUME DInv, NEW p \in Process, IUnlock(p)
    PROVE  DInv'
<1> DEFINE i == Subject(p)
<1>1. /\ LInv /\ Inodes /\ Runs /\ First(p, "iunlock") /\ i \in Inum /\ UNCHANGED <<dinode, pc, call>>
  BY HeadPath DEF DInv, LInv, RInv, IUnlock, Done
<1>2. Moved(p) /\ LInv' /\ ~Freeing(p)' /\ ~Freeing(p)
  BY <1>1, IUnlockMoves, IUnlockLocks DEF Freeing, First
<1>3. /\ \A j \in Inum : /\ icache'[j].ref = icache[j].ref /\ icache'[j].valid = icache[j].valid
                         /\ icache'[j].type = icache[j].type /\ icache'[j].nlink = icache[j].nlink
                         /\ icache'[j].busy = icache[j].busy \/ icache'[j].busy = None
  BY <1>1 DEF IUnlock, Inodes, CacheSet
<1>4. \A j : (Fresh(p, j)' <=> Fresh(p, j))
  BY <1>1, RoutineSame
<1>5. \A j \in Inum, q \in Process : Fresh(q, j)' <=> Fresh(q, j)
  BY <1>2, <1>4, OthersSame DEF Moved
<1>6. ASSUME NEW j \in Inum PROVE CacheOK(j)' /\ RemovedOK(j)'
  <2>1. CacheOK(j) /\ RemovedOK(j) /\ (Clearing(j)' <=> Clearing(j))
    BY <1>2, ClearingKept DEF DInv, Moved
  <2>2. QED
    BY <1>1, <1>3, <1>5, <2>1 DEF CacheOK, RemovedOK
<1>7. \A j \in Inum : ~(icache'[j].ref > icache[j].ref)
  <2>1. \A j \in Inum : icache'[j].ref = icache[j].ref /\ icache[j].ref \in Int
    BY <1>1, <1>3 DEF Inodes, CacheSet
  <2>2. QED
    BY <2>1
<1>8. QED
  BY <1>1, <1>2, <1>6, <1>7, QuietOK

(* Who frees an inode has it locked and is its only user.                  *)
LEMMA ClearingLocked ==
    ASSUME DInv, NEW i \in Inum, Clearing(i)
    PROVE  \E q \in Process : First(q, "iputdone") /\ Subject(q) = i /\ icache[i].busy = q /\ Mine(q, i) = 1
<1>1. PICK q \in Process : First(q, "iputdone") /\ Subject(q) = i
  BY DEF Clearing
<1>2. Frees(q, i)
  BY <1>1 DEF Frees, Freeing
<1>3. icache[i].busy = q
  BY <1>2, FreesLocked DEF DInv
<1>4. Mine(q, i) = 1
  BY <1>2 DEF DInv, FreesOK
<1>5. QED
  BY <1>1, <1>3, <1>4

LEMMA IPutOK ==
    ASSUME DInv, NEW p \in Process, IPut(p), ~Last(Subject(p))
    PROVE  DInv'
<1> DEFINE i == Subject(p)
<1>1. /\ LInv /\ Inodes /\ Runs /\ First(p, "iput") /\ i \in Inum /\ UNCHANGED <<dinode, pc, call>>
      /\ icache' = [icache EXCEPT ![i].ref = @ - 1]
  BY HeadPath DEF DInv, LInv, RInv, IPut, Done
<1>2. Moved(p) /\ LInv' /\ ~Freeing(p)' /\ ~Freeing(p)
  BY <1>1, IPutMoves, IPutLocks DEF Freeing, First
<1>3. /\ \A j \in Inum : /\ icache'[j].valid = icache[j].valid
                         /\ icache'[j].type = icache[j].type /\ icache'[j].nlink = icache[j].nlink
                         /\ icache'[j].busy = icache[j].busy
                         /\ icache'[j].ref = (IF j = i THEN icache[j].ref - 1 ELSE icache[j].ref)
                         /\ icache[j].ref \in Int
  BY <1>1 DEF Inodes, CacheSet
<1>4. \A j : (Fresh(p, j)' <=> Fresh(p, j))
  BY <1>1, RoutineSame
<1>5. \A j \in Inum, q \in Process : Fresh(q, j)' <=> Fresh(q, j)
  BY <1>2, <1>4, OthersSame DEF Moved
<1>6. ASSUME NEW j \in Inum PROVE CacheOK(j)' /\ RemovedOK(j)'
  <2>1. CacheOK(j) /\ RemovedOK(j) /\ (Clearing(j)' <=> Clearing(j))
    BY <1>2, ClearingKept DEF DInv, Moved
  <2>2. CacheOK(j)'
    BY <1>1, <1>3, <2>1 DEF CacheOK
  <2>3. CASE j # i \/ icache[j].ref > 1
    BY <1>1, <1>3, <1>5, <2>1, <2>2, <2>3 DEF RemovedOK
  <2>4. CASE j = i /\ ~(icache[j].ref > 1)
    <3>1. SUFFICES ASSUME dinode[i].type # "free", dinode[i].nlink = 0, icache[i].ref > 0, icache[i].valid
                   PROVE  \E q \in Process : Fresh(q, i)
      BY <1>1, <1>5, <2>1, <2>2, <2>4 DEF RemovedOK
    <3>2. icache[i].ref = 1
      BY <1>3, <2>4, <3>1
    <3>3. ~Clearing(i)
      <4>1. icache[i].busy = None
        BY <1>1, <3>2, LastAlone
      <4>2. QED
        BY <1>1, <4>1, ClearingLocked, InodeAssumption
    <3>4. icache[i].nlink = 0
      BY <2>1, <2>4, <3>1, <3>3 DEF CacheOK
    <3>5. QED
      BY <3>1, <3>2, <3>4 DEF Last
  <2>5. QED
    BY <2>3, <2>4
<1>7. \A j \in Inum : ~(icache'[j].ref > icache[j].ref)
  BY <1>3
<1>8. QED
  BY <1>1, <1>2, <1>6, <1>7, QuietOK

-----------------------------------------------------------------------------
(* The routines that free an inode.                                        *)
LEMMA BecomesFirst ==
    ASSUME Runs, NEW p \in Process, todo[p] # <<>>, NEW r, Becomes(p, r)
    PROVE  /\ Subject(p)' = Subject(p) /\ \A s : First(p, s)' <=> s = r
           /\ UNCHANGED pc
<1>1. todo'[p] # <<>> /\ Head(todo'[p]) = <<r, Subject(p)>> /\ UNCHANGED pc
  BY BecomesIs
<1>2. QED
  BY <1>1 DEF Subject, First

LEMMA MineNext1 ==
    ASSUME Inodes, Runs, NEW p \in Process, Moved(p), NEW j \in Inum
    PROVE  /\ icache'[j].ref + Mine(p, j) = icache[j].ref + Mine(p, j)'
           /\ icache'[j].ref \in Int /\ icache[j].ref \in Int /\ Mine(p, j) \in Nat /\ Mine(p, j)' \in Nat
           /\ icache'[j].ref = icache[j].ref => Mine(p, j)' = Mine(p, j)
<1>1. icache'[j].ref + Mine(p, j) = icache[j].ref + Mine(p, j)'
  BY MineNextIs DEF Moved
<1>2. Mine(p, j)' \in Nat
  <2>1. Runs'
    BY DEF Moved
  <2>2. ASSUME NEW a, NEW b, NEW c, NEW e PROVE Is(a, j) + Is(b, j) + Is(c, j) + Is(e, j) \in Nat
    <3>1. Is(a, j) \in Nat /\ Is(b, j) \in Nat /\ Is(c, j) \in Nat /\ Is(e, j) \in Nat
      BY IsValues
    <3>2. QED
      BY <3>1
  <2>3. Has(cwd'[p], file'[p], call'[p], j) \in Nat
    BY <2>2 DEF Has
  <2>4. Times(todo'[p], j) \in Nat
    <3>1. todo'[p] \in Lists
      BY <2>1 DEF Runs
    <3>2. QED
      BY <3>1, PlacesFinite DEF Lists
  <2>5. QED
    BY <2>3, <2>4 DEF Mine
<1>3. icache'[j].ref \in Int /\ icache[j].ref \in Int /\ Mine(p, j) \in Nat
  BY MineHas DEF Moved, Inodes, CacheSet
<1> DEFINE m == Mine(p, j)
           n == Mine(p, j)'
           r == icache[j].ref
           s == icache'[j].ref
<1>4. s + m = r + n /\ r \in Int /\ s \in Int /\ m \in Nat /\ n \in Nat
  BY <1>1, <1>2, <1>3
<1> HIDE DEF m, n, r, s
<1>5. s = r => n = m
  BY <1>4
<1>6. QED
  BY <1>4, <1>5 DEF m, n, r, s

(* The last reference is given back: p is then the only one who has to do  *)
(* with the inode.                                                         *)
LEMMA IPutLastOK ==
    ASSUME DInv, NEW p \in Process, IPut(p), Last(Subject(p))
    PROVE  DInv'
<1>0. PICK i \in Inum : i = Subject(p)
  BY HeadPath DEF DInv, IPut
<1>1. /\ LInv /\ RInv /\ Inodes /\ Runs /\ First(p, "iput") /\ UNCHANGED <<dinode, call, cwd, file>>
      /\ icache' = [icache EXCEPT ![i].busy = p] /\ Becomes(p, "itrunc") /\ todo[p] # <<>> /\ Last(i)
  BY <1>0 DEF DInv, LInv, RInv, IPut, First
<1>2. Moved(p) /\ OthersKept(p) /\ LInv' /\ ~Freeing(p)
  BY <1>0, <1>1, IPutMoves, IPutLocks DEF Freeing, First, Moved
<1>3. Subject(p)' = i /\ First(p, "itrunc")' /\ ~First(p, "iputdone")' /\ UNCHANGED pc
  BY <1>0, <1>1, BecomesFirst
<1>4. /\ \A j \in Inum : /\ icache'[j].valid = icache[j].valid /\ icache'[j].ref = icache[j].ref
                         /\ icache'[j].type = icache[j].type /\ icache'[j].nlink = icache[j].nlink
                         /\ icache'[j].busy = (IF j = i THEN p ELSE icache[j].busy)
  BY <1>1 DEF Inodes, CacheSet
<1>5. icache[i].busy = None /\ Mine(p, i) = 1 /\ (\A q \in Process \ {p} : Mine(q, i) = 0) /\ i \notin Kept(p)
  BY <1>0, <1>1, LastAlone DEF Last
<1>6. /\ \A j : (Fresh(p, j)' <=> Fresh(p, j)) /\ (Pledged(p, j)' <=> Pledged(p, j))
      /\ CallOK(p)' /\ Dp(p)' = Dp(p) /\ pc[p] # "iget"
  BY <1>1, <1>3, RoutineSame
<1>7. \A j : (Frees(p, j)' <=> j = i) /\ ~Frees(p, j)
  BY <1>2, <1>3 DEF Frees, Freeing
<1>8. \A q \in Process : /\ \A j \in Inum : /\ Fresh(q, j)' <=> Fresh(q, j)
                                            /\ Mine(q, j)' = Mine(q, j)
                                            /\ q # p => (Frees(q, j)' <=> Frees(q, j))
  <2>1. \A j \in Inum : Mine(p, j)' = Mine(p, j)
    BY <1>1, <1>2, <1>4, MineNext1
  <2>2. QED
    BY <1>2, <1>6, <2>1, OthersSame
<1>9. dinode[i].nlink = 0
  <2>1. ~Clearing(i)
    BY <1>1, <1>5, ClearingLocked, InodeAssumption
  <2>2. icache[i].ref > 0 /\ icache[i].valid /\ icache[i].nlink = 0
    BY <1>1 DEF Last
  <2>3. QED
    BY <1>1, <2>1, <2>2 DEF DInv, CacheOK
<1>10. dinode[i].type # "free" /\ ~Private(i)
  <2>1. ~Fresh(p, i)
    <3>1. Ip(p) \in Inum => Ip(p) \in Kept(p)
      BY <1>1, KeptIs
    <3>2. QED
      BY <1>1, <1>5, <1>6, <3>1 DEF Fresh
  <2>2. Mine(p, i) >= 1
    BY <1>5
  <2>3. QED
    BY <1>1, <1>7, <2>1, <2>2 DEF DInv, UsedOK
<1>11. \A j \in Inum : j # i => (Private(j)' <=> Private(j))
  BY <1>7, <1>8 DEF Private
<1>12. ASSUME NEW q \in Process, NEW j \in Inum PROVE UsedOK(q, j)'
  <2>1. CASE j # i
    <3>1. UsedOK(q, j)
      BY DEF DInv
    <3>2. QED
      BY <1>1, <1>7, <1>8, <1>11, <2>1, <3>1 DEF UsedOK
  <2>2. CASE j = i /\ q = p
    <3>1. Frees(p, i)'
      BY <1>7
    <3>2. Private(i)'
      BY <3>1 DEF Private
    <3>3. QED
      BY <2>2, <3>1, <3>2 DEF UsedOK
  <2>3. CASE j = i /\ q # p
    <3>1. ~(Mine(q, j)' >= 1)
      BY <1>1, <1>5, <1>8, <2>3
    <3>2. QED
      BY <3>1 DEF UsedOK
  <2>4. QED
    BY <2>1, <2>2, <2>3
<1>13. ASSUME NEW j \in Inum PROVE FreshOK(p, j)' /\ FreesOK(p, j)'
  <2>1. FreshOK(p, j)
    BY DEF DInv
  <2>2. FreshOK(p, j)'
    BY <1>1, <1>6, <1>8, <2>1 DEF FreshOK
  <2>3. CASE j = i
    <3>1. \A q \in Process : ~Fresh(q, i)
      BY <1>10 DEF Private
    <3>2. dinode'[i].nlink = 0 /\ Mine(p, i)' = 1 /\ dinode'[i].type # "free"
      BY <1>1, <1>5, <1>8, <1>9, <1>10
    <3>3. \A q \in Process : ~Fresh(q, i)'
      BY <1>1, <1>8, <3>1
    <3>4. FreesOK(p, i)'
      BY <1>3, <3>2, <3>3 DEF FreesOK
    <3>5. QED
      BY <2>2, <2>3, <3>4
  <2>4. CASE j # i
    BY <1>7, <2>2, <2>4 DEF FreesOK
  <2>5. QED
    BY <2>3, <2>4
<1>14. ASSUME NEW j \in Inum PROVE KindsOK(j)' /\ LinksOK(j)' /\ CacheOK(j)' /\ RemovedOK(j)'
  <2>1. KindsOK(j) /\ LinksOK(j) /\ CacheOK(j) /\ RemovedOK(j)
    BY DEF DInv
  <2>2. KindsOK(j)'
    BY <1>1, <1>8, <2>1 DEF KindsOK
  <2>3. RemovedOK(j)'
    BY <1>1, <1>4, <1>8, <2>1 DEF RemovedOK
  <2>4. LinksOK(j)'
    <3>1. Claims(j)' \subseteq Claims(j)
      BY <1>1, <1>2, <1>6, ClaimsSame
    <3>2. Cardinality(Claims(j)') <= dinode[j].nlink
      BY <3>1, ClaimsInt, FewerClaims
    <3>3. QED
      BY <1>1, <3>2 DEF LinksOK
  <2>5. Clearing(j)' <=> Clearing(j)
    <3>1. \A q \in Process : First(q, "iputdone")' /\ Subject(q)' = j <=> First(q, "iputdone") /\ Subject(q) = j
      <4>1. ~First(p, "iputdone")
        BY <1>2 DEF Freeing
      <4>2. QED
        BY <1>2, <1>3, <4>1, OthersSame
    <3>2. QED
      BY <3>1 DEF Clearing
  <2>6. CacheOK(j)'
    <3>1. j = i => icache[j].valid
      BY <1>1 DEF Last
    <3>2. QED
      BY <1>1, <1>4, <2>1, <2>5, <3>1 DEF CacheOK
  <2>7. QED
    BY <2>2, <2>3, <2>4, <2>6
<1>15. Ranked'
  BY <1>1 DEF DInv, Ranked, Below
<1>16. Disk(p)
  BY <1>1 DEF Disk
<1>17. QED
  BY <1>2, <1>6, <1>12, <1>13, <1>14, <1>15, <1>16, AllOK

LEMMA ClaimsFewer ==
    ASSUME NEW p \in Process, OthersKept(p), NEW i, Pledged(p, i)' => Pledged(p, i),
           EntriesTo(i)' \subseteq EntriesTo(i), SubdirsOf(i)' \subseteq SubdirsOf(i)
    PROVE  Claims(i)' \subseteq Claims(i)
<1>1. \A q \in Process : Pledged(q, i)' => Pledged(q, i)
  BY OthersSame
<1>2. QED
  BY <1>1 DEF Claims

LEMMA ITruncOK ==
    ASSUME DInv, NEW p \in Process, ITrunc(p)
    PROVE  DInv'
<1>0. PICK i \in Inum : i = Subject(p)
  BY HeadPath DEF DInv, ITrunc
<1>1. /\ LInv /\ RInv /\ Inodes /\ Runs /\ First(p, "itrunc") /\ UNCHANGED <<call, cwd, file>>
      /\ dinode' = [dinode EXCEPT ![i] = FreeInode] /\ icache' = [icache EXCEPT ![i].type = "free"]
      /\ Becomes(p, "iputdone") /\ todo[p] # <<>>
  BY <1>0 DEF DInv, LInv, RInv, ITrunc, First
<1>2. Moved(p) /\ OthersKept(p) /\ LInv'
  BY <1>1, ITruncMoves, ITruncLocks DEF Moved
<1>3. Subject(p)' = i /\ ~First(p, "itrunc")' /\ First(p, "iputdone")' /\ UNCHANGED pc
  BY <1>0, <1>1, BecomesFirst
<1>4. /\ \A j \in Inum : /\ icache'[j].valid = icache[j].valid /\ icache'[j].ref = icache[j].ref
                         /\ icache'[j].nlink = icache[j].nlink /\ icache'[j].busy = icache[j].busy
                         /\ j # i => icache'[j] = icache[j] /\ dinode'[j] = dinode[j]
      /\ dinode'[i] = FreeInode
  BY <1>1 DEF Inodes, CacheSet
<1>5. Frees(p, i) /\ icache[i].busy = p
  <2>1. Frees(p, i)
    BY <1>0, <1>1 DEF Frees, Freeing
  <2>2. QED
    BY <1>1, <2>1, FreesLocked
<1>6. /\ dinode[i].nlink = 0 /\ Mine(p, i) = 1 /\ \A q \in Process : ~Fresh(q, i)
  BY <1>1, <1>5 DEF DInv, FreesOK
<1>7. i \notin Kept(p)
  BY <1>1, <1>5, <1>6, FreesLocked
<1>8. /\ \A j : (Fresh(p, j)' <=> Fresh(p, j)) /\ (Pledged(p, j)' <=> Pledged(p, j))
      /\ Dp(p)' = Dp(p) /\ Ip(p)' = Ip(p) /\ pc[p] # "iget"
      /\ (DirAt(p)' <=> DirAt(p)) /\ (Linking(p)' <=> Linking(p))
  BY <1>1, <1>3, RoutineSame
<1>9. \A j : (Frees(p, j)' <=> j = i) /\ (Frees(p, j) <=> j = i)
  BY <1>0, <1>1, <1>3 DEF Frees, Freeing
<1>10. \A q \in Process : /\ \A j \in Inum : /\ Fresh(q, j)' <=> Fresh(q, j)
                                             /\ Mine(q, j)' = Mine(q, j)
                                             /\ Frees(q, j)' <=> Frees(q, j)
  <2>1. \A j \in Inum : Mine(p, j)' = Mine(p, j)
    BY <1>1, <1>2, <1>4, MineNext1
  <2>2. QED
    BY <1>2, <1>8, <1>9, <2>1, OthersSame
<1>11. \A j \in Inum : Private(j)' <=> Private(j)
  BY <1>10 DEF Private
<1>12. Private(i)
  BY <1>5 DEF Private
<1>13. ASSUME NEW q \in Process, NEW j \in Inum PROVE UsedOK(q, j)'
  <2>1. UsedOK(q, j)
    BY DEF DInv
  <2>2. CASE j # i
    BY <1>4, <1>10, <1>11, <2>1, <2>2 DEF UsedOK
  <2>3. CASE j = i
    BY <1>10, <1>11, <1>12, <2>1, <2>3 DEF UsedOK
  <2>4. QED
    BY <2>2, <2>3
<1>14. ASSUME NEW j \in Inum PROVE FreshOK(p, j)' /\ FreesOK(p, j)'
  <2>1. FreshOK(p, j)
    BY DEF DInv
  <2>2. FreshOK(p, j)'
    BY <1>1, <1>4, <1>6, <1>8, <1>10, <2>1 DEF FreshOK
  <2>3. CASE j = i
    <3>1. dinode'[i].nlink = 0 /\ Mine(p, i)' = 1 /\ dinode'[i].type = "free"
      BY <1>4, <1>6, <1>10 DEF FreeInode
    <3>2. FreesOK(p, i)'
      BY <1>3, <3>1 DEF FreesOK
    <3>3. QED
      BY <2>2, <2>3, <3>2
  <2>4. CASE j # i
    BY <1>9, <2>2, <2>4 DEF FreesOK
  <2>5. QED
    BY <2>3, <2>4
<1>15. CallOK(p)'
  <2>1. CallOK(p)
    BY DEF DInv
  <2>2. DirAt(p) => Dp(p) \in Inum /\ Dp(p) # i
    BY <1>1, <1>7, DirHas, KeptIs
  <2>3. Linking(p) => Ip(p) \in Inum /\ Ip(p) # i
    BY <1>1, <1>7, LinkingHas, KeptIs
  <2>4. DirAt(p) => EntryOf(p)' = EntryOf(p) /\ dinode'[Dp(p)] = dinode[Dp(p)]
    BY <1>1, <1>4, <1>8, <2>2 DEF EntryOf
  <2>5. Linking(p) => dinode'[Ip(p)] = dinode[Ip(p)]
    BY <1>4, <2>3
  <2>6. pc[p] \in {"unlinkinode", "iget", "created"} => DirAt(p)
    BY DEF DirAt
  <2>7. QED
    BY <1>1, <1>3, <1>8, <2>1, <2>4, <2>5, <2>6 DEF CallOK
<1>16. ASSUME NEW j \in Inum PROVE KindsOK(j)' /\ LinksOK(j)' /\ CacheOK(j)' /\ RemovedOK(j)'
  <2>1. KindsOK(j) /\ LinksOK(j) /\ CacheOK(j) /\ RemovedOK(j)
    BY DEF DInv
  <2>2. Claims(j)' \subseteq Claims(j)
    <3>1. ASSUME NEW d \in Inum, dinode'[d].type = "dir" PROVE d # i /\ dinode'[d] = dinode[d]
      BY <1>4, <3>1 DEF FreeInode
    <3>2. EntriesTo(j)' \subseteq EntriesTo(j)
      BY <3>1 DEF EntriesTo
    <3>3. ASSUME NEW n \in Name, n \in SubdirsOf(j)' PROVE n \in SubdirsOf(j)
      <4>1. dinode'[j].entries[n] # None /\ dinode'[dinode'[j].entries[n]].type = "dir"
        BY <3>3 DEF SubdirsOf
      <4>2. j # i
        <5>1. FreeInode.entries[n] = None
          BY DEF FreeInode, NoEntries, Names
        <5>2. QED
          BY <1>4, <4>1, <5>1
      <4>3. dinode'[j] = dinode[j] /\ dinode[j].entries[n] \in Inum
        BY <1>1, <1>4, <4>1, <4>2, EntryType DEF Names
      <4>4. QED
        BY <3>1, <4>1, <4>3 DEF SubdirsOf
    <3>4. SubdirsOf(j)' \subseteq SubdirsOf(j)
      BY <3>3 DEF SubdirsOf
    <3>5. QED
      BY <1>2, <1>8, <3>2, <3>4, ClaimsFewer
  <2>3. LinksOK(j)'
    <3>1. dinode'[j].nlink = dinode[j].nlink
      BY <1>4, <1>6 DEF FreeInode
    <3>2. Cardinality(Claims(j)') <= dinode[j].nlink
      BY <2>2, ClaimsInt, FewerClaims
    <3>3. QED
      BY <3>1, <3>2 DEF LinksOK
  <2>4. CASE j = i
    <3>1. FreeInode.type = "free"
      BY DEF FreeInode
    <3>2. KindsOK(i)' /\ RemovedOK(i)'
      BY <1>4, <3>1 DEF KindsOK, RemovedOK
    <3>3. Clearing(i)'
      BY <1>3 DEF Clearing
    <3>4. CacheOK(i)'
      BY <1>4, <2>1, <2>4, <3>3 DEF CacheOK
    <3>5. QED
      BY <2>3, <2>4, <3>2, <3>4
  <2>5. CASE j # i
    <3>1. KindsOK(j)' /\ RemovedOK(j)'
      BY <1>4, <1>10, <2>1, <2>5 DEF KindsOK, RemovedOK
    <3>2. Clearing(j) => Clearing(j)'
      <4>1. ASSUME NEW q \in Process, First(q, "iputdone"), Subject(q) = j PROVE First(q, "iputdone")' /\ Subject(q)' = j
        BY <1>0, <1>2, <2>5, <4>1, OthersSame
      <4>2. QED
        BY <4>1 DEF Clearing
    <3>3. CacheOK(j)'
      BY <1>4, <2>1, <2>5, <3>2 DEF CacheOK
    <3>4. QED
      BY <2>3, <3>1, <3>3
  <2>6. QED
    BY <2>4, <2>5
<1>17. Ranked'
  <2>1. ASSUME NEW rank, Below(rank) PROVE Below(rank)'
    <3>1. \A d \in Inum : dinode'[d].type = "dir" => dinode'[d] = dinode[d]
      BY <1>4 DEF FreeInode
    <3>2. QED
      BY <2>1, <3>1 DEF Below
  <2>2. QED
    BY <2>1 DEF DInv, Ranked
<1>18. Disk(p)
  BY <1>0, <1>1, <1>4 DEF Disk
<1>19. QED
  BY <1>2, <1>8, <1>13, <1>14, <1>15, <1>16, <1>17, <1>18, AllOK

LEMMA IPutDoneOK ==
    ASSUME DInv, NEW p \in Process, IPutDone(p)
    PROVE  DInv'
<1>0. PICK i \in Inum : i = Subject(p)
  BY HeadPath DEF DInv, IPutDone
<1>1. /\ LInv /\ RInv /\ Inodes /\ Runs /\ First(p, "iputdone") /\ UNCHANGED <<dinode, call, cwd, file, pc>>
      /\ icache' = [icache EXCEPT ![i] = Cleared(i)] /\ todo[p] # <<>>
  BY <1>0 DEF DInv, LInv, RInv, IPutDone, First, Done
<1>2. Moved(p) /\ OthersKept(p) /\ LInv' /\ ~Freeing(p)'
  BY <1>1, IPutDoneMoves, IPutDoneLocks DEF Moved
<1>3. ~First(p, "iputdone")'
  BY <1>2 DEF Freeing
<1>4. /\ \A j \in Inum : j # i => icache'[j] = icache[j]
      /\ icache'[i].busy = None /\ icache'[i].valid = FALSE /\ icache'[i].ref = icache[i].ref - 1
  BY <1>1 DEF Inodes, CacheSet, Cleared
<1>5. Frees(p, i)
  BY <1>0, <1>1 DEF Frees, Freeing
<1>7. \A j : (Fresh(p, j)' <=> Fresh(p, j)) /\ (Pledged(p, j)' <=> Pledged(p, j)) /\ CallOK(p)' /\ Dp(p)' = Dp(p)
  BY <1>1, RoutineSame
<1>8. \A j : ~Frees(p, j)' /\ (Frees(p, j) <=> j = i)
  BY <1>0, <1>1, <1>2 DEF Frees, Freeing
<1>9. \A q \in Process : \A j \in Inum : Fresh(q, j)' <=> Fresh(q, j)
  BY <1>2, <1>7, OthersSame
<1>10. \A q \in Process \ {p} : \A j \in Inum : Mine(q, j)' = Mine(q, j) /\ (Frees(q, j)' <=> Frees(q, j))
  BY <1>2, OthersSame
<1>11. \A j \in Inum : j # i => Mine(p, j)' = Mine(p, j)
  BY <1>1, <1>2, <1>4, MineNext1
<1>12. Mine(p, i)' = 0
  <2>1. /\ icache'[i].ref + Mine(p, i) = icache[i].ref + Mine(p, i)'
        /\ icache[i].ref \in Int /\ Mine(p, i)' \in Nat
    BY <1>1, <1>2, MineNext1
  <2> DEFINE r == icache[i].ref
             n == Mine(p, i)'
  <2>2. (r - 1) + 1 = r + n /\ r \in Int /\ n \in Nat
    BY <1>4, <1>5, <2>1, <1>1 DEF DInv, FreesOK
  <2> HIDE DEF r, n
  <2>3. n = 0
    BY <2>2
  <2>4. QED
    BY <2>3 DEF n
<1>13. \A j \in Inum : j # i => (Private(j)' <=> Private(j))
  BY <1>8, <1>9, <1>10 DEF Private
<1>14. ASSUME NEW q \in Process, NEW j \in Inum PROVE UsedOK(q, j)'
  <2>1. UsedOK(q, j)
    BY DEF DInv
  <2>2. CASE j # i
    <3>1. (Frees(q, j)' <=> Frees(q, j)) /\ Mine(q, j)' = Mine(q, j)
      BY <1>8, <1>10, <1>11, <2>2
    <3>2. QED
      BY <1>1, <1>9, <1>13, <2>1, <2>2, <3>1 DEF UsedOK
  <2>3. CASE j = i /\ q = p
    BY <1>12, <2>3 DEF UsedOK
  <2>4. CASE j = i /\ q # p
    <3>1. ~Frees(q, i)
      BY <1>1, <1>5, <2>4, FreesLocked
    <3>2. Private(i)
      BY <1>5 DEF Private
    <3>3. Mine(q, i)' >= 1 => Fresh(q, i)'
      BY <1>9, <1>10, <2>1, <2>4, <3>1, <3>2 DEF UsedOK
    <3>4. Fresh(q, i)' => Private(i)'
      BY DEF Private
    <3>5. QED
      BY <2>4, <3>3, <3>4 DEF UsedOK
  <2>5. QED
    BY <2>2, <2>3, <2>4
<1>15. ASSUME NEW j \in Inum PROVE FreshOK(p, j)' /\ FreesOK(p, j)'
  <2>1. FreshOK(p, j)
    BY DEF DInv
  <2>2. FreshOK(p, j)'
    BY <1>1, <1>7, <1>9, <2>1 DEF FreshOK
  <2>3. QED
    BY <1>8, <2>2 DEF FreesOK
<1>16. ASSUME NEW j \in Inum PROVE KindsOK(j)' /\ LinksOK(j)' /\ CacheOK(j)' /\ RemovedOK(j)'
  <2>1. KindsOK(j) /\ LinksOK(j) /\ CacheOK(j) /\ RemovedOK(j)
    BY DEF DInv
  <2>2. KindsOK(j)'
    BY <1>1, <1>9, <2>1 DEF KindsOK
  <2>3. LinksOK(j)'
    <3>1. Claims(j)' \subseteq Claims(j)
      BY <1>1, <1>2, <1>7, ClaimsSame
    <3>2. Cardinality(Claims(j)') <= dinode[j].nlink
      BY <3>1, ClaimsInt, FewerClaims
    <3>3. QED
      BY <1>1, <3>2 DEF LinksOK
  <2>4. CASE j = i
    <3>1. CacheOK(i)'
      BY <1>4 DEF CacheOK
    <3>2. RemovedOK(i)'
      BY <1>1, <1>5, <1>9 DEF RemovedOK, DInv, FreesOK
    <3>3. QED
      BY <2>2, <2>3, <2>4, <3>1, <3>2
  <2>5. CASE j # i
    <3>1. RemovedOK(j)'
      BY <1>1, <1>4, <1>9, <2>1, <2>5 DEF RemovedOK
    <3>2. Clearing(j) => Clearing(j)'
      <4>1. ASSUME NEW q \in Process, First(q, "iputdone"), Subject(q) = j PROVE First(q, "iputdone")' /\ Subject(q)' = j
        BY <1>0, <1>2, <2>5, <4>1, OthersSame
      <4>2. QED
        BY <4>1 DEF Clearing
    <3>3. CacheOK(j)'
      BY <1>1, <1>4, <2>1, <2>5, <3>2 DEF CacheOK
    <3>4. QED
      BY <2>2, <2>3, <3>1, <3>3
  <2>6. QED
    BY <2>4, <2>5
<1>17. Ranked'
  BY <1>1 DEF DInv, Ranked, Below
<1>18. Disk(p)
  BY <1>1 DEF Disk
<1>19. QED
  BY <1>2, <1>7, <1>14, <1>15, <1>16, <1>17, <1>18, AllOK

-----------------------------------------------------------------------------
(* The steps that write on the disk, to what p has locked.                 *)
Writes(p) ==
    \A j \in Inum :
        \/ dinode'[j] = dinode[j] /\ icache'[j] = icache[j]
        \/ /\ icache[j].busy = p /\ dinode'[j].type = dinode[j].type
           /\ \/ dinode'[j].entries = dinode[j].entries
              \/ dinode[j].type = "dir" /\ dinode'[j].entries[Dot] = dinode[j].entries[Dot]
           /\ icache'[j].ref = icache[j].ref /\ icache'[j].busy = icache[j].busy /\ icache'[j].valid = icache[j].valid
           /\ icache'[j].type = icache[j].type /\ icache'[j].nlink = dinode'[j].nlink

LEMMA WritesOK ==
    ASSUME DInv, NEW p \in Process, Step(p), ~Routine(p), Writes(p),
           pc[p] \notin {"iget", "created"}, pc'[p] \notin {"iget", "created"},
           CallOK(p)', \A j \in Inum : LinksOK(j)', Ranked'
    PROVE  DInv'
<1>1. LInv /\ RInv /\ Inodes /\ Runs
  BY DEF DInv, LInv, RInv
<1>2. Moved(p) /\ OthersKept(p) /\ todo[p] = <<>> /\ LInv' /\ ~Freeing(p)' /\ ~Freeing(p)
  BY <1>1, StepMoves, CallsLock, AtLocks DEF Moved
<1>3. \A j \in Inum : ~Fresh(p, j) /\ ~Fresh(p, j)' /\ ~Frees(p, j) /\ ~Frees(p, j)'
  BY <1>2 DEF Fresh, Frees
<1>4. ASSUME NEW j \in Inum, icache[j].busy = p
      PROVE  /\ icache[j].type = dinode[j].type /\ icache[j].valid /\ icache[j].ref > 0
             /\ dinode[j].type # "free"
  <2>1. ~First(p, "iputdone")
    BY <1>2 DEF First
  <2>2. icache[j].type = dinode[j].type /\ icache[j].valid /\ icache[j].ref > 0
    BY <1>4, <2>1, LockedCache
  <2>3. Mine(p, j) >= 1
    BY <1>1, <1>4, HeldMine
  <2>4. dinode[j].type # "free"
    BY <1>3, <2>3 DEF DInv, UsedOK
  <2>5. QED
    BY <2>2, <2>4
<1>5. SamePrivate(p)
  BY <1>3 DEF SamePrivate
<1>6. SafeUses(p)
  <2>1. \A j \in Inum : icache'[j].ref = icache[j].ref /\ icache[j].ref \in Int
    BY <1>1 DEF Writes, Inodes, CacheSet
  <2>2. QED
    BY <2>1 DEF SafeUses
<1>7. \A q \in Process, j \in Inum : UsedOK(q, j)'
  <2>1. \A j \in Inum : dinode'[j].type = "free" => dinode[j].type = "free"
    BY DEF Writes
  <2>2. QED
    BY <1>2, <1>5, <1>6, <2>1, UsedKept
<1>8. \A j \in Inum : FreshOK(p, j)' /\ FreesOK(p, j)'
  BY <1>3 DEF FreshOK, FreesOK
<1>9. \A j \in Inum, q \in Process : Fresh(q, j)' <=> Fresh(q, j)
  BY <1>2, <1>5, PrivateKept
<1>10. ASSUME NEW j \in Inum PROVE KindsOK(j)' /\ CacheOK(j)' /\ RemovedOK(j)'
  <2>1. KindsOK(j) /\ CacheOK(j) /\ RemovedOK(j) /\ (Clearing(j)' <=> Clearing(j))
    BY <1>2, ClearingKept DEF DInv
  <2>2. CASE dinode'[j] = dinode[j] /\ icache'[j] = icache[j]
    BY <1>9, <2>1, <2>2 DEF KindsOK, CacheOK, RemovedOK
  <2>3. CASE /\ icache[j].busy = p /\ dinode'[j].type = dinode[j].type
             /\ \/ dinode'[j].entries = dinode[j].entries
                \/ dinode[j].type = "dir" /\ dinode'[j].entries[Dot] = dinode[j].entries[Dot]
             /\ icache'[j].ref = icache[j].ref /\ icache'[j].busy = icache[j].busy /\ icache'[j].valid = icache[j].valid
             /\ icache'[j].type = icache[j].type /\ icache'[j].nlink = dinode'[j].nlink
    <3>1. /\ icache[j].type = dinode[j].type /\ icache[j].valid /\ icache[j].ref > 0
          /\ dinode[j].type # "free"
      BY <1>4, <2>3
    <3>2. KindsOK(j)'
      BY <1>9, <2>1, <2>3, <3>1 DEF KindsOK
    <3>3. CacheOK(j)' /\ RemovedOK(j)'
      BY <2>3, <3>1 DEF CacheOK, RemovedOK
    <3>4. QED
      BY <3>2, <3>3
  <2>4. QED
    BY <2>2, <2>3 DEF Writes
<1>11. Disk(p)
  BY <1>2 DEF Disk, Writes
<1>12. QED
  BY <1>2, <1>3, <1>7, <1>8, <1>10, <1>11, AllOK

(* The links of i, which p has locked, are counted anew.                   *)
LEMMA LinksWrite ==
    ASSUME DInv, NEW p \in Process, todo[p] = <<>>, NEW i \in Inum, icache[i].busy = p, NEW n, Links(i, n)
    PROVE  /\ Writes(p) /\ dinode'[i].nlink = n /\ \A j \in Inum : j # i => dinode'[j] = dinode[j]
           /\ \A j \in Inum : dinode'[j].type = dinode[j].type /\ dinode'[j].entries = dinode[j].entries
           /\ icache[i].nlink = dinode[i].nlink /\ icache[i].type = dinode[i].type
           /\ \A j \in Inum : EntriesTo(j)' = EntriesTo(j) /\ SubdirsOf(j)' = SubdirsOf(j)
           /\ Ranked'
<1>1. Inodes /\ ~First(p, "iputdone")
  BY DEF DInv, LInv, RInv, First
<1>2. icache[i].nlink = dinode[i].nlink /\ icache[i].type = dinode[i].type
  BY <1>1, LockedCache
<1>3. /\ \A j \in Inum : dinode[j] \in DInodeSet /\ icache[j] \in CacheSet
      /\ dinode' = [dinode EXCEPT ![i].nlink = n] /\ icache' = [icache EXCEPT ![i].nlink = n]
      /\ dinode \in [Inum -> DInodeSet] /\ icache \in [Inum -> CacheSet]
  BY <1>1 DEF Inodes, Links
<1>4. /\ dinode'[i].nlink = n /\ \A j \in Inum : j # i => dinode'[j] = dinode[j] /\ icache'[j] = icache[j]
      /\ \A j \in Inum : dinode'[j].type = dinode[j].type /\ dinode'[j].entries = dinode[j].entries
      /\ icache'[i].ref = icache[i].ref /\ icache'[i].busy = icache[i].busy /\ icache'[i].valid = icache[i].valid
      /\ icache'[i].type = icache[i].type /\ icache'[i].nlink = n
  BY <1>3 DEF DInodeSet, CacheSet
<1>5. Writes(p)
  BY <1>4 DEF Writes
<1>6. \A j \in Inum : EntriesTo(j)' = EntriesTo(j)
  BY <1>4 DEF EntriesTo
<1>7. ASSUME NEW j \in Inum PROVE SubdirsOf(j)' = SubdirsOf(j)
  <2>1. ASSUME NEW m \in Name, dinode[j].entries[m] # None PROVE dinode[j].entries[m] \in Inum
    BY <1>1, <2>1, EntryType DEF Names
  <2>2. QED
    BY <1>4, <2>1 DEF SubdirsOf
<1>8. Ranked'
  BY <1>4 DEF DInv, Ranked, Below
<1>9. QED
  BY <1>2, <1>4, <1>5, <1>6, <1>7, <1>8

LEMMA NoRoutine == ASSUME NEW p \in Process, todo[p] = <<>> PROVE ~Routine(p)
BY DEF Routine, ILock, IUnlock, IPut, ITrunc, IPutDone, First

LEMMA NotPledgedNow == ASSUME NEW p \in Process, pc'[p] = "user", call'[p] = NoCall PROVE \A j : ~Pledged(p, j)'
<1>1. NoCall.op = "none"
  BY DEF NoCall
<1>2. QED
  BY <1>1 DEF Pledged, Linking

LEMMA ReturnIs ==
    ASSUME Runs, NEW p \in Process, NEW r, Return(p, r)
    PROVE  pc'[p] = "user" /\ call'[p] = NoCall /\ CallOK(p)' /\ \A j : ~Pledged(p, j)'
<1>1. pc'[p] = "user" /\ call'[p] = NoCall
  BY DEF Return, Then, Runs
<1>2. NoCall.op = "none" /\ NoCall.names = <<>>
  BY DEF NoCall
<1>3. CallOK(p)'
  BY <1>1, <1>2, NoDots DEF CallOK, DirAt, Linking
<1>4. QED
  BY <1>1, <1>3, NotPledgedNow

(* One pledge more, or one less.                                           *)
LEMMA ClaimsPledged ==
    ASSUME NEW p \in Process, OthersKept(p), NEW i, EntriesTo(i)' \subseteq EntriesTo(i), SubdirsOf(i)' \subseteq SubdirsOf(i)
    PROVE  /\ Claims(i)' \subseteq Claims(i) \cup {<<"pledge", p, p>>}
           /\ (Pledged(p, i)' => Pledged(p, i)) => Claims(i)' \subseteq Claims(i)
           /\ ~Pledged(p, i)' => Claims(i)' \subseteq Claims(i) \ {<<"pledge", p, p>>}
           /\ Pledged(p, i) => <<"pledge", p, p>> \in Claims(i)
<1>1. \A q \in Process \ {p} : Pledged(q, i)' <=> Pledged(q, i)
  BY OthersSame
<1>2. Claims(i)' \subseteq Claims(i) \cup {<<"pledge", p, p>>}
  BY <1>1 DEF Claims
<1>3. (Pledged(p, i)' => Pledged(p, i)) => Claims(i)' \subseteq Claims(i)
  BY <1>1 DEF Claims
<1>4. ASSUME ~Pledged(p, i)' PROVE Claims(i)' \subseteq Claims(i) \ {<<"pledge", p, p>>}
  <2>1. Claims(i)' \subseteq Claims(i)
    BY <1>3, <1>4
  <2>2. <<"pledge", p, p>> \notin Claims(i)'
    BY <1>4 DEF Claims
  <2>3. QED
    BY <2>1, <2>2
<1>5. Pledged(p, i) => <<"pledge", p, p>> \in Claims(i)
  BY DEF Claims
<1>6. QED
  BY <1>2, <1>3, <1>4, <1>5

LEMMA LinkOK ==
    ASSUME DInv, NEW p \in Process, Link(p), ~LinkLooks(p)
    PROVE  DInv'
<1>0. /\ LInv /\ Inodes /\ Runs /\ CallOK(p) /\ pc[p] = "link" /\ todo[p] = <<>> /\ ~call[p].parent
      /\ call[p].op = "link" /\ Ip(p) \in Inum /\ call[p].ip = Ip(p) /\ call[p] \in CallSet
  BY CallTypes DEF DInv, LInv, RInv, Link, At, CallIs
<1>1. PICK i \in Inum : i = Ip(p)
  BY <1>0
<1>2. icache[i].busy = p
  BY <1>0, <1>1, AtLocks DEF LockedAt
<1>3. /\ icache[i].type # "dir" /\ Links(i, icache[i].nlink + 1)
      /\ pc'[p] = "nameiparent" /\ call' = [call EXCEPT ![p].parent = TRUE]
  BY <1>0, <1>1 DEF Link, LinkLooks, Then, Runs
<1>4. /\ Writes(p) /\ dinode'[i].nlink = icache[i].nlink + 1 /\ \A j \in Inum : j # i => dinode'[j] = dinode[j]
      /\ \A j \in Inum : dinode'[j].type = dinode[j].type /\ dinode'[j].entries = dinode[j].entries
      /\ icache[i].nlink = dinode[i].nlink /\ icache[i].type = dinode[i].type
      /\ \A j \in Inum : EntriesTo(j)' = EntriesTo(j) /\ SubdirsOf(j)' = SubdirsOf(j)
      /\ Ranked'
  BY <1>0, <1>2, <1>3, LinksWrite
<1>5. /\ call'[p].parent = TRUE /\ call'[p].ip = i /\ call'[p].op = "link" /\ call'[p].names = call[p].names
  BY <1>0, <1>1, <1>3 DEF Runs, CallSet
<1>6. Ip(p)' = i /\ \A j \in Inum : Pledged(p, j)' => j = i
  BY <1>5 DEF Ip, Pledged
<1>7. CallOK(p)'
  BY <1>0, <1>3, <1>4, <1>5, <1>6 DEF CallOK, DirAt, Linking
<1>8. Step(p) /\ ~Routine(p)
  BY <1>0, NoRoutine DEF Step
<1>9. OthersKept(p)
  BY <1>0, <1>8, StepMoves DEF Moved
<1>10. ASSUME NEW j \in Inum PROVE LinksOK(j)'
  <2>1. /\ Claims(j)' \subseteq Claims(j) \cup {<<"pledge", p, p>>}
        /\ j # i => Claims(j)' \subseteq Claims(j)
    BY <1>4, <1>6, <1>9, ClaimsPledged
  <2>2. j # i => Cardinality(Claims(j)') <= dinode[j].nlink
    BY <2>1, ClaimsInt, FewerClaims
  <2>3. Cardinality(Claims(j)') <= dinode[j].nlink + 1
    BY <2>1, ClaimsInt, FewerClaims
  <2>4. QED
    BY <1>4, <2>2, <2>3 DEF LinksOK
<1>11. QED
  BY <1>0, <1>3, <1>4, <1>7, <1>8, <1>10, WritesOK

LEMMA LowerOK ==
    ASSUME DInv, NEW p \in Process, BadLink(p) \/ Unlinked(p)
    PROVE  DInv'
<1>0. /\ LInv /\ Inodes /\ Runs /\ pc[p] \in {"badlink", "unlinked"} /\ todo[p] = <<>>
      /\ Ip(p) \in Inum /\ call[p].ip = Ip(p)
  BY CallTypes DEF DInv, LInv, RInv, BadLink, Unlinked, At, CallIs
<1>1. PICK i \in Inum : i = Ip(p)
  BY <1>0
<1>2. icache[i].busy = p
  BY <1>0, <1>1, AtLocks DEF LockedAt
<1>3. /\ Links(i, icache[i].nlink - 1) /\ \E r : Return(p, r)
  BY <1>1 DEF BadLink, Unlinked
<1>4. /\ Writes(p) /\ dinode'[i].nlink = icache[i].nlink - 1 /\ \A j \in Inum : j # i => dinode'[j] = dinode[j]
      /\ icache[i].nlink = dinode[i].nlink
      /\ \A j \in Inum : EntriesTo(j)' = EntriesTo(j) /\ SubdirsOf(j)' = SubdirsOf(j)
      /\ Ranked'
  BY <1>0, <1>2, <1>3, LinksWrite
<1>5. pc'[p] = "user" /\ CallOK(p)' /\ \A j : ~Pledged(p, j)'
  BY <1>0, <1>3, ReturnIs
<1>8. Step(p) /\ ~Routine(p)
  BY <1>0, NoRoutine DEF Step
<1>9. OthersKept(p)
  BY <1>0, <1>8, StepMoves DEF Moved
<1>10. ASSUME NEW j \in Inum PROVE LinksOK(j)'
  <2> DEFINE x == <<"pledge", p, p>>
  <2>1. /\ Claims(j)' \subseteq Claims(j) \ {x}
        /\ Pledged(p, j) => x \in Claims(j)
    BY <1>4, <1>5, <1>9, ClaimsPledged
  <2>2. j = i => Pledged(p, j)
    BY <1>0, <1>1 DEF Pledged
  <2> HIDE DEF x
  <2>3. Cardinality(Claims(j)') <= dinode[j].nlink
    BY <2>1, ClaimsInt, FewerClaims
  <2>4. j = i => Cardinality(Claims(j)') <= dinode[j].nlink - 1
    BY <2>1, <2>2, ClaimsInt, FewerClaims
  <2>5. QED
    BY <1>4, <2>3, <2>4 DEF LinksOK
<1>11. QED
  BY <1>0, <1>4, <1>5, <1>8, <1>10, WritesOK

(* A name in a directory that is locked, which has not been removed.       *)
LEMMA DotIsUsed ==
    ASSUME DInv, NEW p \in Process, DirAt(p), pc[p] # "iget", pc[p] # "created"
    PROVE  /\ Dp(p) \in Inum /\ dinode[Dp(p)].type = "dir" /\ dinode[Dp(p)].entries[Dot] = Dp(p)
           /\ call[p].name \in Names => call[p].name \in Name \/ EntryOf(p) # None
<1>1. Runs /\ CallOK(p) /\ Dp(p) \in Inum
  BY DirHas DEF DInv, LInv, RInv
<1>2. Dp(p) \in Kept(p) /\ ~Fresh(p, Dp(p))
  BY <1>1, KeptIs DEF Fresh
<1>3. ~Private(Dp(p))
  BY <1>1, <1>2, KeptInUse
<1>4. dinode[Dp(p)].type = "dir" /\ call[p].name # DotDot
  BY <1>1 DEF CallOK
<1>5. dinode[Dp(p)].entries[Dot] = Dp(p)
  BY <1>1, <1>3, <1>4 DEF DInv, KindsOK, Private
<1>6. QED
  BY <1>1, <1>4, <1>5, InodeAssumption DEF Names, EntryOf

LEMMA DirLinkOK ==
    ASSUME DInv, NEW p \in Process, DirLink(p), ~DirLinkLooks(p)
    PROVE  DInv'
<1>0. /\ LInv /\ Inodes /\ Runs /\ CallOK(p) /\ pc[p] = "link" /\ todo[p] = <<>> /\ call[p].parent
      /\ call[p].op = "link" /\ Ip(p) \in Inum /\ call[p].ip = Ip(p) /\ Dp(p) \in Inum /\ call[p].dp = Dp(p)
      /\ call[p].name \in Names
  BY CallTypes DEF DInv, LInv, RInv, DirLink, At, CallIs
<1>1. PICK i \in Inum : i = Ip(p)
  BY <1>0
<1>2. PICK d \in Inum : d = Dp(p)
  BY <1>0
<1>3. DirAt(p) /\ Linking(p)
  BY <1>0 DEF DirAt, Linking
<1>4. PICK n \in Names : n = call[p].name
  BY <1>0
<1>5. /\ dinode[d].entries[n] = None /\ dinode' = [dinode EXCEPT ![d].entries[n] = i] /\ UNCHANGED icache
      /\ \E r : Return(p, r)
  BY <1>1, <1>2, <1>4 DEF DirLink, DirLinkLooks, EntryOf
<1>6. n \in Name /\ dinode[d].type = "dir" /\ dinode[i].type # "dir" /\ d # i
  BY <1>0, <1>1, <1>2, <1>3, <1>4, <1>5, DotIsUsed DEF CallOK, EntryOf
<1>7. icache[d].busy = p /\ icache[d].nlink = dinode[d].nlink
  <2>1. icache[d].busy = p /\ ~First(p, "iputdone")
    BY <1>0, <1>2, AtLocks DEF LockedAt, First
  <2>2. QED
    BY <2>1, LockedCache
<1>8. /\ \A j \in Inum : j # d => dinode'[j] = dinode[j]
      /\ \A j \in Inum : dinode'[j].type = dinode[j].type /\ dinode'[j].nlink = dinode[j].nlink
      /\ dinode'[d].entries[n] = i /\ \A m \in Names : m # n => dinode'[d].entries[m] = dinode[d].entries[m]
  BY <1>0, <1>5 DEF Inodes, DInodeSet
<1>9. Writes(p)
  <2>1. Dot \in Names /\ Dot # n
    BY <1>6, InodeAssumption DEF Names
  <2>2. QED
    BY <1>5, <1>6, <1>7, <1>8, <2>1 DEF Writes
<1>10. pc'[p] = "user" /\ CallOK(p)' /\ \A j : ~Pledged(p, j)'
  BY <1>0, <1>5, ReturnIs
<1>11. Step(p) /\ ~Routine(p)
  BY <1>0, NoRoutine DEF Step
<1>12. OthersKept(p)
  BY <1>0, <1>11, StepMoves DEF Moved
<1>13. \A j \in Inum, m \in Names : dinode[j].entries[m] # None => dinode[j].entries[m] \in Inum
  BY <1>0, EntryType
<1>14. None \notin Inum /\ Name \subseteq Names
  BY InodeAssumption DEF Names
<1>15. ASSUME NEW j \in Inum PROVE SubdirsOf(j)' \subseteq SubdirsOf(j)
  <2>1. ASSUME NEW m \in Name, dinode'[j].entries[m] # None, dinode'[dinode'[j].entries[m]].type = "dir"
        PROVE  dinode[j].entries[m] # None /\ dinode[dinode[j].entries[m]].type = "dir"
    <3>1. j = d => m # n
      BY <1>6, <1>8, <2>1
    <3>2. dinode'[j].entries[m] = dinode[j].entries[m]
      BY <1>8, <1>14, <3>1
    <3>3. QED
      BY <1>8, <1>13, <1>14, <2>1, <3>2
  <2>2. QED
    BY <2>1 DEF SubdirsOf
<1>16. ASSUME NEW j \in Inum PROVE EntriesTo(j)' \subseteq EntriesTo(j) \cup {<<d, n>>} /\ (j # i => EntriesTo(j)' \subseteq EntriesTo(j))
  <2>1. ASSUME NEW e \in Inum, NEW m \in Name, dinode'[e].type = "dir", dinode'[e].entries[m] = j
        PROVE  (e = d /\ m = n /\ j = i) \/ (dinode[e].type = "dir" /\ dinode[e].entries[m] = j)
    BY <1>8, <1>14, <2>1
  <2>2. QED
    BY <2>1 DEF EntriesTo
<1>17. ASSUME NEW j \in Inum PROVE LinksOK(j)'
  <2>1. CASE j # i
    <3>1. Claims(j)' \subseteq Claims(j)
      BY <1>10, <1>12, <1>15, <1>16, <2>1, ClaimsPledged
    <3>2. Cardinality(Claims(j)') <= dinode[j].nlink
      BY <3>1, ClaimsInt, FewerClaims
    <3>3. QED
      BY <1>8, <3>2 DEF LinksOK
  <2>2. CASE j = i
    <3> DEFINE x == <<"pledge", p, p>>
               y == <<"entry", d, n>>
    <3>1. x \in Claims(i)
      BY <1>1, <1>3 DEF Claims, Pledged
    <3>2. \A q \in Process : Pledged(q, i)' => q # p /\ Pledged(q, i)
      BY <1>10, <1>12, OthersSame
    <3>3. Claims(i)' \subseteq (Claims(i) \ {x}) \cup {y}
      <4>1. SubdirsOf(i)' \subseteq SubdirsOf(i) /\ EntriesTo(i)' \subseteq EntriesTo(i) \cup {<<d, n>>}
        BY <1>15, <1>16
      <4>2. Claims(i)' \subseteq Claims(i) \cup {y}
        BY <3>2, <4>1 DEF Claims
      <4>3. x \notin Claims(i)'
        BY <3>2 DEF Claims
      <4>4. QED
        BY <4>2, <4>3
    <3> HIDE DEF x, y
    <3>4. Cardinality(Claims(i)') <= dinode[i].nlink
      BY <3>1, <3>3, ClaimsInt, FewerClaims
    <3>5. QED
      BY <1>8, <2>2, <3>4 DEF LinksOK
  <2>3. QED
    BY <2>1, <2>2
<1>18. Ranked'
  <2>1. ASSUME NEW rank, Below(rank) PROVE Below(rank)'
    <3>1. ASSUME NEW e \in Inum, NEW f \in Inum, NEW m \in Name,
                 dinode'[e].type = "dir", dinode'[e].entries[m] = f, dinode'[f].type = "dir"
          PROVE  rank[e] < rank[f]
      <4>1. dinode[e].type = "dir" /\ dinode[e].entries[m] = f /\ dinode[f].type = "dir"
        BY <1>6, <1>8, <1>14, <3>1
      <4>2. QED
        BY <2>1, <4>1 DEF Below
    <3>2. QED
      BY <3>1 DEF Below
  <2>2. QED
    BY <2>1 DEF DInv, Ranked
<1>19. QED
  BY <1>0, <1>9, <1>10, <1>11, <1>17, <1>18, WritesOK

LEMMA UnlinkInodeOK ==
    ASSUME DInv, NEW p \in Process, UnlinkInode(p), ~UnlinkInodeLooks(p)
    PROVE  DInv'
<1>0. /\ LInv /\ Inodes /\ Runs /\ CallOK(p) /\ pc[p] = "unlinkinode" /\ todo[p] = <<>>
      /\ call[p].op = "unlink" /\ Ip(p) \in Inum /\ call[p].ip = Ip(p) /\ Dp(p) \in Inum /\ call[p].dp = Dp(p)
      /\ call[p].name \in Name /\ call[p] \in CallSet /\ Ip(p) # Dp(p)
  BY CallTypes, AtLocks DEF DInv, LInv, RInv, UnlinkInode, At, CallIs, CallOK
<1>1. PICK i \in Inum : i = Ip(p)
  BY <1>0
<1>2. PICK d \in Inum : d = Dp(p)
  BY <1>0
<1>3. DirAt(p)
  BY <1>0 DEF DirAt
<1>4. PICK n \in Name : n = call[p].name
  BY <1>0
<1>5. d # i /\ dinode[d].entries[n] = i /\ dinode[d].type = "dir"
  BY <1>0, <1>1, <1>2, <1>3, <1>4 DEF CallOK, EntryOf
<1>6. /\ icache[d].busy = p /\ icache[d].nlink = dinode[d].nlink
      /\ icache[i].busy = p /\ icache[i].nlink = dinode[i].nlink /\ icache[i].type = dinode[i].type
  <2>1. icache[d].busy = p /\ icache[i].busy = p /\ ~First(p, "iputdone")
    BY <1>0, <1>1, <1>2, AtLocks DEF LockedAt, First
  <2>2. QED
    BY <2>1, LockedCache
<1>7. PICK l : l = IF dinode[i].type = "dir" THEN dinode[d].nlink - 1 ELSE dinode[d].nlink
  OBVIOUS
<1>8. /\ dinode' = [dinode EXCEPT ![d].entries[n] = None,
                                  ![d].nlink = IF icache[i].type = "dir" THEN @ - 1 ELSE @]
      /\ icache' = [icache EXCEPT ![d].nlink = IF icache[i].type = "dir" THEN @ - 1 ELSE @]
      /\ pc'[p] = "unlinked" /\ call' = [call EXCEPT ![p].dp = None]
  BY <1>0, <1>1, <1>2, <1>4 DEF UnlinkInode, UnlinkInodeLooks, Then, Runs
<1>9. /\ \A j \in Inum : j # d => dinode'[j] = dinode[j] /\ icache'[j] = icache[j]
      /\ dinode'[d].nlink = l /\ icache'[d].nlink = l /\ dinode'[d].type = dinode[d].type
      /\ icache'[d].ref = icache[d].ref /\ icache'[d].busy = icache[d].busy /\ icache'[d].valid = icache[d].valid
      /\ icache'[d].type = icache[d].type
      /\ dinode'[d].entries[n] = None /\ \A m \in Names : m # n => dinode'[d].entries[m] = dinode[d].entries[m]
  <2>1. dinode[d] \in DInodeSet /\ icache[d] \in CacheSet /\ n \in Names
    BY <1>0 DEF Inodes, Names
  <2>2. /\ dinode' = [dinode EXCEPT ![d].entries[n] = None, ![d].nlink = l]
        /\ icache' = [icache EXCEPT ![d].nlink = l]
    BY <1>0, <1>6, <1>7, <1>8, <2>1 DEF Inodes, DInodeSet, CacheSet
  <2>3. QED
    BY <1>0, <2>1, <2>2 DEF Inodes, DInodeSet, CacheSet
<1>10. \A j \in Inum : dinode'[j].type = dinode[j].type
  BY <1>9
<1>11. Writes(p)
  <2>1. Dot \in Names /\ Dot # n
    BY InodeAssumption DEF Names
  <2>2. QED
    BY <1>5, <1>6, <1>9, <2>1 DEF Writes
<1>12. call'[p].op = "unlink" /\ call'[p].ip = i /\ call'[p].names = call[p].names
  BY <1>0, <1>1, <1>8 DEF Runs, CallSet
<1>13. Ip(p)' = i /\ ~Linking(p)' /\ ~DirAt(p)' /\ \A j : Pledged(p, j)' => j = i
  BY <1>8, <1>12 DEF Ip, Linking, DirAt, Pledged
<1>14. CallOK(p)'
  BY <1>0, <1>8, <1>12, <1>13 DEF CallOK
<1>15. Step(p) /\ ~Routine(p)
  BY <1>0, NoRoutine DEF Step
<1>16. OthersKept(p)
  BY <1>0, <1>15, StepMoves DEF Moved
<1>17. \A j \in Inum, m \in Names : dinode[j].entries[m] # None => dinode[j].entries[m] \in Inum
  BY <1>0, EntryType
<1>18. None \notin Inum /\ Name \subseteq Names
  BY InodeAssumption DEF Names
<1>19. ASSUME NEW j \in Inum PROVE SubdirsOf(j)' \subseteq SubdirsOf(j) /\ (j = d => n \notin SubdirsOf(j)')
  <2>1. ASSUME NEW m \in Name, dinode'[j].entries[m] # None, dinode'[dinode'[j].entries[m]].type = "dir"
        PROVE  dinode[j].entries[m] # None /\ dinode[dinode[j].entries[m]].type = "dir"
    <3>1. dinode'[j].entries[m] = dinode[j].entries[m]
      BY <1>9, <1>18, <2>1
    <3>2. QED
      BY <1>10, <1>17, <1>18, <2>1, <3>1
  <2>2. QED
    BY <1>9, <2>1 DEF SubdirsOf
<1>20. ASSUME NEW j \in Inum PROVE EntriesTo(j)' \subseteq EntriesTo(j) /\ (j = i => <<d, n>> \notin EntriesTo(j)')
  <2>1. ASSUME NEW e \in Inum, NEW m \in Name, dinode'[e].type = "dir", dinode'[e].entries[m] = j
        PROVE  dinode[e].type = "dir" /\ dinode[e].entries[m] = j
    BY <1>9, <1>18, <2>1
  <2>2. dinode'[d].entries[n] # i
    BY <1>9, <1>18
  <2>3. QED
    BY <2>1, <2>2 DEF EntriesTo
<1>21. ASSUME NEW j \in Inum PROVE LinksOK(j)'
  <2>1. CASE j = i
    <3> DEFINE x == <<"pledge", p, p>>
               y == <<"entry", d, n>>
    <3>1. y \in Claims(i)
      <4>1. <<d, n>> \in EntriesTo(i)
        BY <1>5 DEF EntriesTo
      <4>2. QED
        BY <4>1 DEF Claims
    <3>2. Claims(i)' \subseteq Claims(i) \cup {x}
      BY <1>16, <1>19, <1>20, ClaimsPledged
    <3>3. y \notin Claims(i)'
      <4>1. ASSUME NEW e \in EntriesTo(i)', <<"entry", e[1], e[2]>> = y PROVE FALSE
        <5>1. e \in Inum \X Name
          BY DEF EntriesTo
        <5>2. e = <<d, n>>
          BY <4>1, <5>1
        <5>3. QED
          BY <1>20, <5>2
      <4>2. QED
        BY <4>1 DEF Claims
    <3>4. Claims(i)' \subseteq (Claims(i) \ {y}) \cup {x}
      BY <3>2, <3>3
    <3> HIDE DEF x, y
    <3>5. Cardinality(Claims(i)') <= dinode[i].nlink
      BY <3>1, <3>4, ClaimsInt, FewerClaims
    <3>6. QED
      BY <1>5, <1>9, <2>1, <3>5 DEF LinksOK
  <2>2. CASE j # i
    <3>1. Claims(j)' \subseteq Claims(j)
      BY <1>13, <1>16, <1>19, <1>20, <2>2, ClaimsPledged
    <3>2. Cardinality(Claims(j)') <= dinode[j].nlink
      BY <3>1, ClaimsInt, FewerClaims
    <3>3. CASE j = d /\ dinode[i].type = "dir"
      <4> DEFINE z == <<"subdir", d, n>>
      <4>1. z \in Claims(d)
        BY <1>5, <1>18, <3>3 DEF Claims, SubdirsOf
      <4>2. z \notin Claims(d)'
        BY <1>19 DEF Claims
      <4>3. Claims(d)' \subseteq Claims(d) \ {z}
        BY <3>1, <3>3, <4>2
      <4> HIDE DEF z
      <4>4. Cardinality(Claims(d)') <= dinode[d].nlink - 1
        BY <4>1, <4>3, ClaimsInt, FewerClaims
      <4>5. QED
        BY <1>7, <1>9, <3>3, <4>4 DEF LinksOK
    <3>4. CASE ~(j = d /\ dinode[i].type = "dir")
      BY <1>7, <1>9, <3>2, <3>4 DEF LinksOK
    <3>5. QED
      BY <3>3, <3>4
  <2>3. QED
    BY <2>1, <2>2
<1>22. Ranked'
  <2>1. ASSUME NEW rank, Below(rank) PROVE Below(rank)'
    <3>1. ASSUME NEW e \in Inum, NEW f \in Inum, NEW m \in Name,
                 dinode'[e].type = "dir", dinode'[e].entries[m] = f, dinode'[f].type = "dir"
          PROVE  rank[e] < rank[f]
      <4>1. dinode[e].type = "dir" /\ dinode[e].entries[m] = f /\ dinode[f].type = "dir"
        BY <1>9, <1>10, <1>18, <3>1
      <4>2. QED
        BY <2>1, <4>1 DEF Below
    <3>2. QED
      BY <3>1 DEF Below
  <2>2. QED
    BY <2>1 DEF DInv, Ranked
<1>23. QED
  BY <1>0, <1>8, <1>11, <1>14, <1>15, <1>21, <1>22, WritesOK

-----------------------------------------------------------------------------
(* A new inode.                                                            *)
LEMMA EntryTarget ==
    ASSUME DInv, NEW d \in Inum, NEW n \in Name, NEW i \in Inum, dinode[d].entries[n] = i
    PROVE  dinode[d].type = "dir" /\ dinode[i].nlink >= 1
<1>1. dinode[d] \in DInodeSet
  BY DEF DInv, LInv, RInv, Inodes
<1>2. FreeInode.entries[n] = None /\ NoEntries[n] = None /\ None \notin Inum
  BY InodeAssumption DEF FreeInode, NoEntries, Names
<1>3. dinode[d].type \notin {"free", "file"}
  BY <1>2 DEF DInv, KindsOK
<1>4. dinode[d].type = "dir"
  BY <1>1, <1>3 DEF DInodeSet, Types
<1>5. QED
  BY <1>4, EntryInUse

LEMMA FreeUsers ==
    ASSUME DInv, NEW i \in Inum, dinode[i].type = "free"
    PROVE  /\ dinode[i] = FreeInode /\ \A q \in Process : ~Fresh(q, i)
           /\ \A q \in Process : Mine(q, i) >= 1 => Frees(q, i) /\ First(q, "iputdone")
           /\ icache[i].ref > 0 => Clearing(i)
<1>1. RInv /\ LInv /\ Runs
  BY DEF DInv, LInv, RInv
<1>2. ASSUME NEW q \in Process PROVE ~Fresh(q, i)
  <2>1. Fresh(q, i) => dinode[i].type = call[q].type
    BY DEF DInv, FreshOK
  <2>2. Fresh(q, i) => call[q].type # "free"
    BY <1>1, CallTypes DEF Fresh, CallIs
  <2>3. QED
    BY <2>1, <2>2
<1>3. ASSUME NEW q \in Process, Mine(q, i) >= 1 PROVE Frees(q, i) /\ First(q, "iputdone")
  <2>1. Frees(q, i)
    BY <1>2, <1>3 DEF DInv, UsedOK
  <2>2. ~First(q, "itrunc")
    BY <2>1 DEF DInv, FreesOK
  <2>3. QED
    BY <2>1, <2>2 DEF Frees, Freeing
<1>4. ASSUME icache[i].ref > 0 PROVE Clearing(i)
  <2>1. PICK q \in Process : Mine(q, i) >= 1
    BY <1>1, <1>4, UserOf
  <2>2. QED
    BY <1>3, <2>1 DEF Clearing, Frees
<1>5. dinode[i] = FreeInode
  BY DEF DInv, KindsOK
<1>6. QED
  BY <1>2, <1>3, <1>4, <1>5

LEMMA CreateOK ==
    ASSUME DInv, NEW p \in Process, Create(p), ~CreateLooks(p)
    PROVE  DInv'
<1>0. /\ LInv /\ RInv /\ Inodes /\ Runs /\ CallOK(p) /\ pc[p] = "create" /\ todo[p] = <<>>
      /\ call[p].op = "create" /\ Dp(p) \in Inum /\ call[p].dp = Dp(p) /\ call[p].name \in Names
      /\ call[p] \in CallSet /\ call[p].type # "free"
  BY CallTypes DEF DInv, LInv, RInv, Create, At, CallIs
<1>1. PICK d \in Inum : d = Dp(p)
  BY <1>0
<1>2. PICK n \in Names : n = call[p].name
  BY <1>0
<1>3. PICK t \in {"file", "dir"} : t = call[p].type
  BY <1>0 DEF CallSet, Types
<1>4. EntryOf(p) = None /\ UNCHANGED <<icache, cwd, file>> /\ Then(p, <<>>, "iget")
  BY DEF Create, CreateLooks, EntryOf
<1>5. PICK f \in Inum : /\ dinode[f].type = "free" /\ dinode' = [dinode EXCEPT ![f] = [FreeInode EXCEPT !.type = t]]
                        /\ call' = [call EXCEPT ![p].new = f]
  BY <1>3 DEF Create, CreateLooks, EntryOf
<1>6. /\ dinode[d].type = "dir" /\ n \in Name /\ dinode[d].entries[n] = None /\ n # DotDot
  <2>1. DirAt(p) /\ pc[p] # "iget" /\ pc[p] # "created"
    BY <1>0 DEF DirAt
  <2>2. QED
    BY <1>0, <1>1, <1>2, <1>4, <2>1, DotIsUsed DEF EntryOf, CallOK
<1>7. d # f
  BY <1>5, <1>6
<1>8. /\ \A j \in Inum : j # f => dinode'[j] = dinode[j]
      /\ dinode'[f].type = t /\ dinode'[f].nlink = 0 /\ dinode'[f].entries = NoEntries
  BY <1>0, <1>5 DEF Inodes, FreeInode
<1>9. /\ dinode[f] = FreeInode /\ (\A q \in Process : ~Fresh(q, f))
      /\ \A q \in Process : Mine(q, f) >= 1 => Frees(q, f)
      /\ icache[f].ref > 0 => Clearing(f)
  BY <1>5, FreeUsers
<1>10. Step(p) /\ ~Routine(p)
  BY <1>0, NoRoutine DEF Step
<1>11. Moved(p) /\ OthersKept(p) /\ LInv' /\ ~Freeing(p)' /\ ~Freeing(p)
  BY <1>0, <1>10, StepMoves, CallsLock, AtLocks DEF Moved
<1>12. /\ call'[p].new = f /\ call'[p].op = "create" /\ call'[p].names = call[p].names /\ call'[p].name = n
       /\ call'[p].dp = d /\ call'[p].type = t /\ pc'[p] = "iget" /\ todo'[p] = <<>>
  BY <1>0, <1>1, <1>2, <1>3, <1>4, <1>5 DEF Runs, CallSet, Then
<1>13. /\ \A j : (Fresh(p, j)' <=> j = f) /\ ~Fresh(p, j) /\ ~Pledged(p, j)' /\ ~Frees(p, j)' /\ ~Frees(p, j)
       /\ Dp(p)' = d /\ ~Linking(p)'
  BY <1>0, <1>11, <1>12 DEF Fresh, Pledged, Frees, Dp, Linking
<1>14. \A q \in Process \ {p} : \A j : /\ Fresh(q, j)' <=> Fresh(q, j)
                                       /\ Frees(q, j)' <=> Frees(q, j)
                                       /\ Mine(q, j)' = Mine(q, j)
  BY <1>11, OthersSame
<1>15. \A j \in Inum : Mine(p, j)' = Mine(p, j)
  BY <1>0, <1>4, <1>11, MineNext1
<1>16. CallOK(p)'
  <2>1. dinode'[d] = dinode[d] /\ EntryOf(p)' = None
    BY <1>6, <1>7, <1>8, <1>12, <1>13 DEF EntryOf
  <2>2. QED
    BY <1>0, <1>6, <1>12, <1>13, <2>1 DEF CallOK
<1>17. ASSUME NEW j \in Inum PROVE FreshOK(p, j)' /\ FreesOK(p, j)'
  <2>1. FreesOK(p, j)'
    BY <1>13 DEF FreesOK
  <2>2. CASE j # f
    BY <1>13, <2>1, <2>2 DEF FreshOK
  <2>3. CASE j = f
    <3>1. \A q \in Process : Fresh(q, f)' => q = p
      BY <1>9, <1>14
    <3>2. FreshOK(p, f)'
      BY <1>7, <1>8, <1>12, <1>13, <3>1 DEF FreshOK
    <3>3. QED
      BY <2>1, <2>3, <3>2
  <2>4. QED
    BY <2>2, <2>3
<1>18. \A j \in Inum : j # f => (Private(j)' <=> Private(j))
  BY <1>13, <1>14 DEF Private
<1>19. ASSUME NEW q \in Process, NEW j \in Inum PROVE UsedOK(q, j)'
  <2>1. UsedOK(q, j)
    BY DEF DInv
  <2>2. CASE j # f
    <3>1. Mine(q, j)' = Mine(q, j) /\ (Fresh(q, j)' <=> Fresh(q, j)) /\ (Frees(q, j)' <=> Frees(q, j))
      BY <1>13, <1>14, <1>15, <2>2
    <3>2. QED
      BY <1>8, <1>18, <2>1, <2>2, <3>1 DEF UsedOK
  <2>3. CASE j = f
    <3>1. Fresh(p, f)'
      BY <1>13
    <3>2. Private(f)'
      BY <3>1 DEF Private
    <3>3. Mine(q, f)' >= 1 => Fresh(q, f)' \/ Frees(q, f)'
      BY <1>9, <1>14, <3>1
    <3>4. QED
      BY <2>3, <3>2, <3>3 DEF UsedOK
  <2>4. QED
    BY <2>2, <2>3
<1>20. \A j \in Inum, m \in Name : dinode[j].entries[m] # f /\ NoEntries[m] = None
  BY <1>9, EntryTarget DEF FreeInode, NoEntries, Names
<1>21. None \notin Inum
  BY InodeAssumption
<1>22. ASSUME NEW j \in Inum PROVE KindsOK(j)' /\ LinksOK(j)' /\ CacheOK(j)' /\ RemovedOK(j)'
  <2>1. KindsOK(j) /\ LinksOK(j) /\ CacheOK(j) /\ RemovedOK(j) /\ (Clearing(j)' <=> Clearing(j))
    BY <1>11, ClearingKept DEF DInv
  <2>2. Claims(j)' \subseteq Claims(j)
    <3>1. EntriesTo(j)' \subseteq EntriesTo(j)
      <4>1. ASSUME NEW e \in Inum, NEW m \in Name, dinode'[e].type = "dir", dinode'[e].entries[m] = j
            PROVE  dinode[e].type = "dir" /\ dinode[e].entries[m] = j
        BY <1>8, <1>20, <1>21, <4>1
      <4>2. QED
        BY <4>1 DEF EntriesTo
    <3>2. SubdirsOf(j)' \subseteq SubdirsOf(j)
      <4>1. ASSUME NEW m \in Name, dinode'[j].entries[m] # None, dinode'[dinode'[j].entries[m]].type = "dir"
            PROVE  dinode[j].entries[m] # None /\ dinode[dinode[j].entries[m]].type = "dir"
        <5>1. j # f
          BY <1>8, <1>20, <4>1
        <5>2. dinode'[j].entries[m] = dinode[j].entries[m] /\ dinode[j].entries[m] \in Inum
          BY <1>0, <1>8, <4>1, <5>1, EntryType DEF Names
        <5>3. QED
          BY <1>8, <1>20, <4>1, <5>2
      <4>2. QED
        BY <4>1 DEF SubdirsOf
    <3>3. QED
      BY <1>11, <1>13, <3>1, <3>2, ClaimsFewer
  <2>3. LinksOK(j)'
    <3>1. dinode'[j].nlink = dinode[j].nlink
      BY <1>8, <1>9 DEF FreeInode
    <3>2. Cardinality(Claims(j)') <= dinode[j].nlink
      BY <2>2, ClaimsInt, FewerClaims
    <3>3. QED
      BY <3>1, <3>2 DEF LinksOK
  <2>4. CASE j = f
    <3>1. Fresh(p, f)'
      BY <1>13
    <3>2. KindsOK(f)' /\ RemovedOK(f)'
      BY <1>8, <3>1 DEF KindsOK, RemovedOK
    <3>3. CacheOK(f)'
      BY <1>4, <1>9, <2>1, <2>4 DEF CacheOK
    <3>4. QED
      BY <2>3, <2>4, <3>2, <3>3
  <2>5. CASE j # f
    <3>1. \A q \in Process : Fresh(q, j) => Fresh(q, j)'
      BY <1>13, <1>14
    <3>2. KindsOK(j)' /\ RemovedOK(j)'
      BY <1>4, <1>8, <2>1, <2>5, <3>1 DEF KindsOK, RemovedOK
    <3>3. CacheOK(j)'
      BY <1>4, <1>8, <2>1, <2>5 DEF CacheOK
    <3>4. QED
      BY <2>3, <3>2, <3>3
  <2>6. QED
    BY <2>4, <2>5
<1>23. Ranked'
  <2>1. ASSUME NEW rank, Below(rank) PROVE Below(rank)'
    <3>1. ASSUME NEW e \in Inum, NEW g \in Inum, NEW m \in Name,
                 dinode'[e].type = "dir", dinode'[e].entries[m] = g, dinode'[g].type = "dir"
          PROVE  rank[e] < rank[g]
      <4>1. e # f
        BY <1>8, <1>20, <1>21, <3>1
      <4>2. dinode[e].type = "dir" /\ dinode[e].entries[m] = g /\ dinode[g].type = "dir"
        BY <1>8, <1>20, <3>1, <4>1
      <4>3. QED
        BY <2>1, <4>2 DEF Below
    <3>2. QED
      BY <3>1 DEF Below
  <2>2. QED
    BY <2>1 DEF DInv, Ranked
<1>24. Disk(p)
  BY <1>5, <1>8, <1>13 DEF Disk
<1>25. \A j \in Inum : (Fresh(p, j)' => Fresh(p, j) \/ dinode[j].type = "free") /\ ~Fresh(p, j)
  BY <1>5, <1>13
<1>26. QED
  BY <1>11, <1>16, <1>17, <1>19, <1>22, <1>23, <1>24, <1>25, AllOK

LEMMA IGetOK ==
    ASSUME DInv, NEW p \in Process, IGet(p)
    PROVE  DInv'
<1>0. /\ LInv /\ RInv /\ Inodes /\ Runs /\ CallOK(p) /\ pc[p] = "iget" /\ todo[p] = <<>>
      /\ call[p].op = "create" /\ Dp(p) \in Inum /\ call[p].dp = Dp(p) /\ call[p].new \in Inum /\ call[p] \in CallSet
  BY CallTypes DEF DInv, LInv, RInv, IGet, At, CallIs
<1>1. PICK d \in Inum : d = Dp(p)
  BY <1>0
<1>2. PICK f \in Inum : f = call[p].new
  BY <1>0
<1>3. /\ icache' = Referenced(f) /\ call' = [call EXCEPT ![p].ip = f, ![p].new = None]
      /\ pc'[p] = "created" /\ UNCHANGED dinode
  BY <1>0, <1>2 DEF IGet, Then, Runs
<1>4. /\ call'[p].ip = f /\ call'[p].op = "create" /\ call'[p].names = call[p].names /\ call'[p].name = call[p].name
      /\ call'[p].dp = d /\ call'[p].type = call[p].type
  BY <1>0, <1>1, <1>3 DEF Runs, CallSet
<1>5. Step(p) /\ ~Routine(p)
  BY <1>0, NoRoutine DEF Step
<1>6. Moved(p) /\ OthersKept(p) /\ LInv' /\ ~Freeing(p)' /\ ~Freeing(p)
  BY <1>0, <1>5, StepMoves, CallsLock, AtLocks DEF Moved
<1>7. /\ \A j : (Fresh(p, j)' <=> j = f) /\ (Fresh(p, j) <=> j = f) /\ ~Pledged(p, j)' /\ ~Frees(p, j)' /\ ~Frees(p, j)
      /\ Dp(p)' = Dp(p) /\ ~Linking(p)'
  BY <1>0, <1>1, <1>2, <1>3, <1>4, <1>6 DEF Fresh, Pledged, Frees, Dp, Ip, Linking
<1>8. \A q \in Process, j \in Inum : (Fresh(q, j)' <=> Fresh(q, j)) /\ (Frees(q, j)' <=> Frees(q, j)) /\ (Private(j)' <=> Private(j))
  <2>1. SamePrivate(p)
    BY <1>7 DEF SamePrivate
  <2>2. QED
    BY <1>6, <2>1, PrivateKept
<1>9. \A j \in Inum : j # f => icache'[j].ref = icache[j].ref
  <2>1. \A j \in Inum : icache'[j].ref = icache[j].ref + Is(f, j) /\ icache[j].ref \in Int
    BY <1>0, <1>3, ReferencedDoes DEF Inodes, CacheSet
  <2>2. QED
    BY <2>1 DEF Is
<1>10. CallOK(p)'
  <2>1. EntryOf(p)' = EntryOf(p)
    BY <1>3, <1>4, <1>7 DEF EntryOf
  <2>2. QED
    BY <1>0, <1>3, <1>4, <1>7, <2>1 DEF CallOK, DirAt
<1>11. ASSUME NEW j \in Inum PROVE FreshOK(p, j)' /\ FreesOK(p, j)'
  <2>1. FreshOK(p, j)
    BY DEF DInv
  <2>2. FreshOK(p, j)'
    BY <1>3, <1>4, <1>7, <1>8, <2>1 DEF FreshOK
  <2>3. QED
    BY <1>7, <2>2 DEF FreesOK
<1>12. ASSUME NEW q \in Process, NEW j \in Inum PROVE UsedOK(q, j)'
  <2>1. UsedOK(q, j)
    BY DEF DInv
  <2>2. CASE q = p /\ j = f
    <3>1. Fresh(p, f)'
      BY <1>7
    <3>2. Private(f)'
      BY <3>1 DEF Private
    <3>3. QED
      BY <2>2, <3>1, <3>2 DEF UsedOK
  <2>3. CASE ~(q = p /\ j = f)
    <3>1. Mine(q, j)' = Mine(q, j)
      <4>1. CASE q = p
        BY <1>0, <1>6, <1>9, <2>3, <4>1, MineNext1
      <4>2. CASE q # p
        BY <1>6, <4>2, OthersSame
      <4>3. QED
        BY <4>1, <4>2
    <3>2. QED
      BY <1>3, <1>8, <2>1, <3>1 DEF UsedOK
  <2>4. QED
    BY <2>2, <2>3
<1>13. \A j \in Inum : CacheOK(j)' /\ RemovedOK(j)'
  BY <1>3, <1>6, <1>7, OneReference
<1>14. ASSUME NEW j \in Inum PROVE KindsOK(j)' /\ LinksOK(j)'
  <2>1. KindsOK(j)'
    BY <1>3, <1>8 DEF DInv, KindsOK
  <2>2. Claims(j)' \subseteq Claims(j)
    BY <1>3, <1>6, <1>7, ClaimsSame
  <2>3. Cardinality(Claims(j)') <= dinode[j].nlink
    BY <2>2, ClaimsInt, FewerClaims
  <2>4. QED
    BY <1>3, <2>1, <2>3 DEF LinksOK
<1>15. Ranked'
  BY <1>3 DEF DInv, Ranked, Below
<1>16. Disk(p)
  BY <1>3 DEF Disk
<1>17. QED
  BY <1>6, <1>7, <1>10, <1>11, <1>12, <1>13, <1>14, <1>15, <1>16, AllOK

LEMMA CreatedOK ==
    ASSUME DInv, NEW p \in Process, Created(p)
    PROVE  DInv'
<1>0. /\ LInv /\ RInv /\ Inodes /\ Runs /\ CallOK(p) /\ pc[p] = "created" /\ todo[p] = <<>>
      /\ call[p].op = "create" /\ Dp(p) \in Inum /\ call[p].dp = Dp(p) /\ Ip(p) \in Inum /\ call[p].ip = Ip(p)
      /\ call[p] \in CallSet /\ call[p].type # "free" /\ Ip(p) # Dp(p) /\ call[p].name \in Name
  BY CallTypes, AtLocks DEF DInv, LInv, RInv, Created, At, CallIs, CallOK
<1>1. PICK d \in Inum : d = Dp(p)
  BY <1>0
<1>2. PICK i \in Inum : i = Ip(p)
  BY <1>0
<1>3. PICK n \in Name : n = call[p].name
  BY <1>0
<1>4. PICK t \in {"file", "dir"} : t = call[p].type
  BY <1>0 DEF CallSet, Types
<1>5. PICK s \in Nat : s = IF t = "dir" THEN 1 ELSE 0
  OBVIOUS
<1>6. PICK dots : dots = IF t = "dir" THEN [dinode[i].entries EXCEPT ![Dot] = i, ![DotDot] = d] ELSE dinode[i].entries
  OBVIOUS
<1>7. Step(p) /\ ~Routine(p)
  BY <1>0, NoRoutine DEF Step
<1>8. Moved(p) /\ OthersKept(p) /\ LInv' /\ ~Freeing(p)' /\ ~Freeing(p)
  BY <1>0, <1>7, StepMoves, CallsLock, AtLocks DEF Moved
<1>9. d # i /\ dinode[d].entries[n] = None /\ dinode[d].type = "dir"
  BY <1>0, <1>1, <1>2, <1>3 DEF CallOK, DirAt, EntryOf
<1>10. /\ icache[d].busy = p /\ icache[d].nlink = dinode[d].nlink /\ icache[d].type = dinode[d].type
       /\ icache[d].valid /\ icache[d].ref > 0
       /\ icache[i].busy = p /\ icache[i].nlink = dinode[i].nlink /\ icache[i].type = dinode[i].type
       /\ icache[i].valid /\ icache[i].ref > 0
  <2>1. icache[d].busy = p /\ icache[i].busy = p /\ ~First(p, "iputdone")
    BY <1>0, <1>1, <1>2, AtLocks DEF LockedAt, First
  <2>2. QED
    BY <2>1, LockedCache
<1>11. /\ \A j : Fresh(p, j) <=> j = i
       /\ dinode[i].nlink = 0 /\ dinode[i].type = t /\ dinode[i].entries = NoEntries
       /\ \A q \in Process : Fresh(q, i) => q = p
  <2>1. \A j : Fresh(p, j) <=> j = i
    BY <1>0, <1>2 DEF Fresh
  <2>2. QED
    BY <1>4, <2>1 DEF DInv, FreshOK
<1>12. /\ dinode' = [dinode EXCEPT ![i].nlink = 1, ![i].entries = dots, ![d].entries[n] = i, ![d].nlink = dinode[d].nlink + s]
       /\ icache' = [icache EXCEPT ![i].nlink = 1, ![d].nlink = icache[d].nlink + s]
       /\ \E r : Return(p, r)
  BY <1>1, <1>2, <1>3, <1>4, <1>5, <1>6 DEF Created, OpenFile
<1>13. /\ \A j \in Inum : j # d /\ j # i => dinode'[j] = dinode[j] /\ icache'[j] = icache[j]
       /\ \A j \in Inum : /\ dinode'[j].type = dinode[j].type /\ icache'[j].type = icache[j].type
                          /\ icache'[j].ref = icache[j].ref /\ icache'[j].busy = icache[j].busy
                          /\ icache'[j].valid = icache[j].valid
       /\ dinode'[i].nlink = 1 /\ dinode'[i].entries = dots /\ icache'[i].nlink = 1
       /\ dinode'[d].nlink = dinode[d].nlink + s /\ icache'[d].nlink = icache[d].nlink + s
       /\ dinode'[d].entries[n] = i /\ \A m \in Names : m # n => dinode'[d].entries[m] = dinode[d].entries[m]
  <2>1. /\ \A j \in Inum : dinode[j] \in DInodeSet /\ icache[j] \in CacheSet
        /\ dinode \in [Inum -> DInodeSet] /\ icache \in [Inum -> CacheSet] /\ n \in Names
    BY <1>0 DEF Inodes, Names
  <2>2. QED
    BY <1>9, <1>12, <2>1 DEF DInodeSet, CacheSet
<1>14. pc'[p] = "user" /\ CallOK(p)' /\ \A j : ~Pledged(p, j)'
  BY <1>0, <1>12, ReturnIs
<1>15. \A j : ~Fresh(p, j)' /\ ~Frees(p, j) /\ ~Frees(p, j)'
  BY <1>8, <1>14 DEF Fresh, Frees
<1>16. \A q \in Process \ {p} : \A j : /\ Fresh(q, j)' <=> Fresh(q, j)
                                       /\ Frees(q, j)' <=> Frees(q, j)
                                       /\ Mine(q, j)' = Mine(q, j)
  BY <1>8, OthersSame
<1>17. \A q \in Process, j \in Inum : Mine(q, j)' = Mine(q, j)
  BY <1>0, <1>8, <1>13, <1>16, MineNext1
<1>18. \A j \in Inum : j # i => (Private(j)' <=> Private(j))
  BY <1>11, <1>15, <1>16 DEF Private
<1>19. ~Private(i)'
  <2>1. ASSUME NEW q \in Process, Fresh(q, i)' \/ Frees(q, i)' PROVE FALSE
    <3>1. q # p
      BY <1>15, <2>1
    <3>2. Frees(q, i)
      BY <1>11, <1>16, <2>1, <3>1
    <3>3. QED
      BY <1>0, <1>10, <3>1, <3>2, FreesLocked
  <2>2. QED
    BY <2>1 DEF Private
<1>20. ASSUME NEW q \in Process, NEW j \in Inum PROVE UsedOK(q, j)'
  <2>1. UsedOK(q, j)
    BY DEF DInv
  <2>2. CASE j = i
    <3>1. dinode'[i].type # "free"
      BY <1>11, <1>13
    <3>2. QED
      BY <1>19, <2>2, <3>1 DEF UsedOK
  <2>3. CASE j # i
    <3>1. (Fresh(q, j)' <=> Fresh(q, j)) /\ (Frees(q, j)' <=> Frees(q, j))
      BY <1>11, <1>15, <1>16, <2>3
    <3>2. QED
      BY <1>13, <1>17, <1>18, <2>1, <2>3, <3>1 DEF UsedOK
  <2>4. QED
    BY <2>2, <2>3
<1>21. \A j \in Inum : FreshOK(p, j)' /\ FreesOK(p, j)'
  BY <1>15 DEF FreshOK, FreesOK
<1>22. /\ \A m \in Name : dots[m] = None /\ NoEntries[m] = None /\ m \in Names
       /\ t = "dir" => dots[Dot] = i
       /\ t = "file" => dots = NoEntries
       /\ None \notin Inum /\ Dot # n /\ Dot \in Names
  BY <1>6, <1>11, InodeAssumption DEF NoEntries, Names
<1>23. \A j \in Inum, m \in Name : dinode[j].entries[m] # i
  BY <1>11, EntryTarget
<1>24. \A j \in Inum, m \in Name : dinode[j].entries[m] # None => dinode[j].entries[m] \in Inum
  BY <1>0, <1>22, EntryType
<1>25. ASSUME NEW e \in Inum, NEW m \in Name
       PROVE  \/ e = d /\ m = n /\ dinode'[e].entries[m] = i
              \/ e = i /\ dinode'[e].entries[m] = None
              \/ e # i /\ dinode'[e].entries[m] = dinode[e].entries[m]
  BY <1>13, <1>22
<1>26. ASSUME NEW j \in Inum
       PROVE  /\ EntriesTo(j)' \subseteq EntriesTo(j) \cup {<<d, n>>} /\ (j # i => EntriesTo(j)' \subseteq EntriesTo(j))
              /\ SubdirsOf(j)' \subseteq SubdirsOf(j) \cup {n} /\ (j # d \/ t # "dir" => SubdirsOf(j)' \subseteq SubdirsOf(j))
  <2>1. ASSUME NEW e \in Inum, NEW m \in Name, dinode'[e].type = "dir", dinode'[e].entries[m] = j
        PROVE  (e = d /\ m = n /\ j = i) \/ (dinode[e].type = "dir" /\ dinode[e].entries[m] = j)
    BY <1>13, <1>22, <1>25, <2>1
  <2>2. EntriesTo(j)' \subseteq EntriesTo(j) \cup {<<d, n>>} /\ (j # i => EntriesTo(j)' \subseteq EntriesTo(j))
    BY <2>1 DEF EntriesTo
  <2>3. ASSUME NEW m \in Name, dinode'[j].entries[m] # None, dinode'[dinode'[j].entries[m]].type = "dir"
        PROVE  (j = d /\ m = n /\ t = "dir") \/ (dinode[j].entries[m] # None /\ dinode[dinode[j].entries[m]].type = "dir")
    BY <1>11, <1>13, <1>24, <1>25, <2>3
  <2>4. /\ SubdirsOf(j)' \subseteq SubdirsOf(j) \cup {n}
        /\ j # d \/ t # "dir" => SubdirsOf(j)' \subseteq SubdirsOf(j)
    BY <2>3 DEF SubdirsOf
  <2>5. QED
    BY <2>2, <2>4
<1>27. ASSUME NEW j \in Inum PROVE LinksOK(j)'
  <2>1. \A q \in Process : Pledged(q, j)' => Pledged(q, j)
    BY <1>8, <1>14, OthersSame
  <2>2. CASE j # i /\ (j # d \/ t # "dir")
    <3>1. Claims(j)' \subseteq Claims(j)
      BY <1>8, <1>26, <2>1, <2>2, ClaimsFewer
    <3>2. Cardinality(Claims(j)') <= dinode[j].nlink
      BY <3>1, ClaimsInt, FewerClaims
    <3>3. dinode[j].nlink \in Int /\ dinode'[j].nlink = dinode[j].nlink
      BY <1>5, <1>13, <2>2, ClaimsInt
    <3>4. QED
      BY <3>2, <3>3 DEF LinksOK
  <2>3. CASE j = i
    <3> DEFINE y == <<"entry", d, n>>
    <3>1. EntriesTo(i)' \subseteq EntriesTo(i) \cup {<<d, n>>} /\ SubdirsOf(i)' \subseteq SubdirsOf(i)
      BY <1>9, <1>26
    <3>2. Claims(i)' \subseteq Claims(i) \cup {y}
      BY <2>1, <2>3, <3>1 DEF Claims
    <3> HIDE DEF y
    <3>3. Cardinality(Claims(i)') <= dinode[i].nlink + 1
      BY <3>2, ClaimsInt, FewerClaims
    <3>4. QED
      BY <1>11, <1>13, <2>3, <3>3 DEF LinksOK
  <2>4. CASE j = d /\ t = "dir"
    <3> DEFINE z == <<"subdir", d, n>>
    <3>1. EntriesTo(d)' \subseteq EntriesTo(d) /\ SubdirsOf(d)' \subseteq SubdirsOf(d) \cup {n}
      BY <1>9, <1>26
    <3>2. Claims(d)' \subseteq Claims(d) \cup {z}
      BY <2>1, <2>4, <3>1 DEF Claims
    <3> HIDE DEF z
    <3>3. Cardinality(Claims(d)') <= dinode[d].nlink + 1
      BY <3>2, ClaimsInt, FewerClaims
    <3>4. QED
      BY <1>5, <1>13, <2>4, <3>3 DEF LinksOK
  <2>5. QED
    BY <1>9, <2>2, <2>3, <2>4
<1>28. ASSUME NEW j \in Inum PROVE KindsOK(j)' /\ CacheOK(j)' /\ RemovedOK(j)'
  <2>1. KindsOK(j) /\ CacheOK(j) /\ RemovedOK(j) /\ (Clearing(j)' <=> Clearing(j))
    BY <1>8, ClearingKept DEF DInv
  <2>2. CASE j # d /\ j # i
    <3>1. \A q \in Process : Fresh(q, j) => Fresh(q, j)'
      BY <1>11, <1>16, <2>2
    <3>2. QED
      BY <1>13, <2>1, <2>2, <3>1 DEF KindsOK, CacheOK, RemovedOK
  <2>3. CASE j = i
    <3>1. dinode'[i].type = t /\ dinode'[i].entries = dots /\ dinode'[i].nlink = 1
      BY <1>11, <1>13
    <3>2. KindsOK(i)' /\ RemovedOK(i)'
      BY <1>22, <3>1 DEF KindsOK, RemovedOK
    <3>3. CacheOK(i)'
      BY <1>10, <1>13 DEF CacheOK
    <3>4. QED
      BY <2>3, <3>2, <3>3
  <2>4. CASE j = d
    <3>1. ~Private(d)
      <4>1. d \in Kept(p) /\ ~Fresh(p, d)
        BY <1>0, <1>1, <1>9, <1>11, KeptIs
      <4>2. QED
        BY <4>1, KeptInUse
    <3>2. dinode[d].entries[Dot] = d
      BY <1>9, <2>1, <2>4, <3>1 DEF KindsOK, Private
    <3>3. dinode'[d].entries[Dot] = d /\ dinode'[d].type = "dir"
      BY <1>9, <1>13, <1>22, <3>2
    <3>4. KindsOK(d)'
      BY <3>3 DEF KindsOK
    <3>5. CacheOK(d)' /\ RemovedOK(d)'
      BY <1>10, <1>13 DEF CacheOK, RemovedOK
    <3>6. QED
      BY <2>4, <3>4, <3>5
  <2>5. QED
    BY <2>2, <2>3, <2>4
<1>29. Ranked'
  <2>1. PICK B \in Nat : \E rank \in [Inum -> 0 .. B] : Below(rank)
    BY DEF DInv, Ranked
  <2>2. PICK rank \in [Inum -> 0 .. B] : Below(rank)
    BY <2>1
  <2> DEFINE deep == [rank EXCEPT ![i] = rank[d] + 1]
  <2>3. deep \in [Inum -> 0 .. B + 1] /\ deep[i] = rank[d] + 1 /\ (\A j \in Inum : j # i => deep[j] = rank[j])
        /\ rank[d] \in Nat /\ B + 1 \in Nat
    BY <1>9
  <2> HIDE DEF deep
  <2>4. ASSUME NEW e \in Inum, NEW g \in Inum, NEW m \in Name,
               dinode'[e].type = "dir", dinode'[e].entries[m] = g, dinode'[g].type = "dir"
        PROVE  deep[e] < deep[g]
    <3>1. CASE e = d /\ g = i
      BY <1>9, <2>3, <3>1
    <3>2. CASE ~(e = d /\ g = i)
      <4>1. e # i /\ g # i /\ dinode[e].type = "dir" /\ dinode[e].entries[m] = g /\ dinode[g].type = "dir"
        BY <1>13, <1>22, <1>23, <1>25, <2>4, <3>2
      <4>2. rank[e] < rank[g]
        BY <2>2, <4>1 DEF Below
      <4>3. QED
        BY <2>3, <4>1, <4>2
    <3>3. QED
      BY <3>1, <3>2
  <2>5. Below(deep)'
    BY <2>4 DEF Below
  <2>6. QED
    BY <2>3, <2>5 DEF Ranked
<1>30. Disk(p)
  BY <1>0, <1>10, <1>13 DEF Disk
<1>31. QED
  BY <1>0, <1>8, <1>10, <1>11, <1>14, <1>15, <1>20, <1>21, <1>27, <1>28, <1>29, <1>30, AllOK

(* Every step keeps the inodes right.                                      *)
LEMMA LooksStep ==
    ASSUME DInv, NoParents, NEW p \in Process, Step(p), ~Routine(p),
           \/ SysOpen(p) \/ SysChdir(p) \/ SysCreate(p) \/ SysMkdir(p) \/ SysUnlink(p) \/ SysLink(p) \/ NameIParent(p)
           \/ Element(p) \/ Open(p) \/ UseFile(p) \/ Close(p) \/ Chdir(p) \/ Existing(p) \/ Unlink(p)
           \/ LinkLooks(p) \/ DirLinkLooks(p) \/ CreateLooks(p) \/ UnlinkInodeLooks(p)
    PROVE  DInv'
<1>1. Looks(p)
  BY CallsLook
<1>2. QED
  BY <1>1, LooksOK

LEMMA DataStep ==
    ASSUME DInv, NoParents, NEW p \in Process, Step(p)
    PROVE  DInv'
<1>1. CASE Routine(p)
  <2>1. CASE IPut(p)
    BY <2>1, IPutOK, IPutLastOK
  <2>2. QED
    BY <1>1, <2>1, ILockOK, IUnlockOK, ITruncOK, IPutDoneOK DEF Routine
<1>2. CASE ~Routine(p)
  <2>1. CASE LinkLooks(p) \/ DirLinkLooks(p) \/ CreateLooks(p) \/ UnlinkInodeLooks(p)
    BY <1>2, <2>1, LooksStep
  <2>2. CASE /\ ~(LinkLooks(p) \/ DirLinkLooks(p) \/ CreateLooks(p) \/ UnlinkInodeLooks(p))
             /\ Link(p) \/ DirLink(p) \/ Create(p) \/ UnlinkInode(p)
    BY <2>2, LinkOK, DirLinkOK, CreateOK, UnlinkInodeOK
  <2>3. CASE BadLink(p) \/ Unlinked(p) \/ IGet(p) \/ Created(p)
    BY <2>3, LowerOK, IGetOK, CreatedOK
  <2>4. CASE \/ SysOpen(p) \/ SysChdir(p) \/ SysCreate(p) \/ SysMkdir(p) \/ SysUnlink(p) \/ SysLink(p) \/ NameIParent(p)
             \/ Element(p) \/ Open(p) \/ UseFile(p) \/ Close(p) \/ Chdir(p) \/ Existing(p) \/ Unlink(p)
    BY <1>2, <2>4, LooksStep
  <2>5. QED
    BY <1>2, <2>1, <2>2, <2>3, <2>4 DEF Step
<1>3. QED
  BY <1>1, <1>2

LEMMA InitCalls ==
    ASSUME Init
    PROVE  /\ \A p \in Process : /\ pc[p] = "user" /\ todo[p] = <<>> /\ call[p] = NoCall /\ ~Freeing(p)
                                 /\ CallOK(p) /\ \A i : ~Pledged(p, i) /\ ~Fresh(p, i) /\ ~Frees(p, i)
           /\ \A i \in Inum : dinode[i] = IF i = ROOTINO THEN Root ELSE FreeInode
           /\ \A i \in Inum : ~icache[i].valid /\ icache[i].busy = None /\ (i # ROOTINO => icache[i].ref = 0)
<1>1. NoCall.op = "none" /\ NoCall.names = <<>> /\ NoCall.parent = FALSE
  BY DEF NoCall
<1>2. NoDotDot(<<>>)
  BY DEF NoDotDot
<1>3. ASSUME NEW p \in Process
      PROVE  /\ pc[p] = "user" /\ todo[p] = <<>> /\ call[p] = NoCall /\ ~Freeing(p)
             /\ CallOK(p) /\ \A i : ~Pledged(p, i) /\ ~Fresh(p, i) /\ ~Frees(p, i)
  <2>1. pc[p] = "user" /\ todo[p] = <<>> /\ call[p] = NoCall
    BY DEF Init
  <2>2. ~Freeing(p) /\ ~Linking(p) /\ ~DirAt(p)
    BY <1>1, <2>1 DEF Freeing, First, Linking, DirAt
  <2>3. CallOK(p)
    BY <1>1, <1>2, <2>1, <2>2 DEF CallOK
  <2>4. QED
    BY <2>1, <2>2, <2>3 DEF Pledged, Fresh, Frees
<1>4. \A i \in Inum : dinode[i] = IF i = ROOTINO THEN Root ELSE FreeInode
  BY DEF Init
<1>5. \A i \in Inum : icache[i] = IF i = ROOTINO THEN [Uncached EXCEPT !.ref = Cardinality(Process)] ELSE Uncached
  BY DEF Init
<1>6. \A i \in Inum : ~icache[i].valid /\ icache[i].busy = None /\ (i # ROOTINO => icache[i].ref = 0)
  BY <1>5 DEF Uncached
<1>7. QED
  BY <1>3, <1>4, <1>6

LEMMA InitLinks ==
    ASSUME Init, NEW i \in Inum
    PROVE  LinksOK(i) /\ KindsOK(i) /\ \A n \in Name : dinode[i].entries[n] = None
<1>1. dinode[i] = IF i = ROOTINO THEN Root ELSE FreeInode
  BY InitCalls
<1>2. /\ Root.type = "dir" /\ Root.nlink = 1 /\ FreeInode.type = "free" /\ FreeInode.nlink = 0
      /\ \A n \in Name : Root.entries[n] = None /\ FreeInode.entries[n] = None
      /\ Root.entries[Dot] = ROOTINO
  BY InodeAssumption DEF Root, FreeInode, NoEntries, Names
<1>3. \A d \in Inum, n \in Name : dinode[d].entries[n] = None
  BY <1>2, InitCalls
<1>4. EntriesTo(i) = {} /\ SubdirsOf(i) = {}
  BY <1>3, InodeAssumption DEF EntriesTo, SubdirsOf
<1>5. {q \in Process : Pledged(q, i)} = {}
  BY InitCalls
<1>6. CASE i = ROOTINO
  <2>1. Claims(i) = {<<"root", i, i>>}
    BY <1>4, <1>5, <1>6 DEF Claims
  <2>2. Cardinality({<<"root", i, i>>}) = 1
    BY FS_Singleton
  <2>3. LinksOK(i)
    BY <1>1, <1>2, <1>6, <2>1, <2>2 DEF LinksOK
  <2>4. KindsOK(i)
    BY <1>1, <1>2, <1>6 DEF KindsOK
  <2>5. QED
    BY <1>3, <2>3, <2>4
<1>7. CASE i # ROOTINO
  <2>1. Claims(i) = {}
    BY <1>4, <1>5, <1>7 DEF Claims
  <2>2. Cardinality({}) = 0
    BY FS_EmptySet
  <2>3. LinksOK(i)
    BY <1>1, <1>2, <1>7, <2>1, <2>2 DEF LinksOK
  <2>4. KindsOK(i)
    BY <1>1, <1>2, <1>7 DEF KindsOK
  <2>5. QED
    BY <1>3, <2>3, <2>4
<1>8. QED
  BY <1>6, <1>7

LEMMA InitData == Init => DInv
<1> SUFFICES ASSUME Init PROVE DInv
  OBVIOUS
<1>1. LInv /\ Runs /\ RInv
  BY InitLocks DEF LInv, RInv
<1>2. \A p \in Process : CallOK(p)
  BY InitCalls
<1>3. ASSUME NEW p \in Process, NEW i \in Inum PROVE UsedOK(p, i) /\ FreshOK(p, i) /\ FreesOK(p, i)
  <2>1. ~Fresh(p, i) /\ ~Frees(p, i) /\ ~Private(i)
    BY InitCalls DEF Private
  <2>2. Mine(p, i) >= 1 => i = ROOTINO
    <3>1. icache[i].ref >= Mine(p, i) /\ Mine(p, i) \in Nat /\ icache[i].ref \in Int
      BY <1>1, RefAtLeast, MineHas
    <3>2. i # ROOTINO => icache[i].ref = 0
      BY InitCalls
    <3>3. QED
      BY <3>1, <3>2
  <2>3. i = ROOTINO => dinode[i].type # "free"
    <3>1. Root.type = "dir" /\ dinode[ROOTINO] = Root
      BY InodeAssumption DEF Root, Init
    <3>2. QED
      BY <3>1
  <2>4. QED
    BY <2>1, <2>2, <2>3 DEF UsedOK, FreshOK, FreesOK
<1>4. ASSUME NEW i \in Inum PROVE KindsOK(i) /\ LinksOK(i) /\ CacheOK(i) /\ RemovedOK(i)
  <2>1. CacheOK(i)
    BY InitCalls DEF CacheOK
  <2>2. RemovedOK(i)
    <3>1. /\ dinode[i] = IF i = ROOTINO THEN Root ELSE FreeInode
          /\ Root.nlink = 1 /\ FreeInode.type = "free"
      BY DEF Init, Root, FreeInode
    <3>2. QED
      BY <3>1 DEF RemovedOK
  <2>3. QED
    BY <2>1, <2>2, InitLinks
<1>5. Ranked
  <2>1. [i \in Inum |-> 0] \in [Inum -> 0 .. 0] /\ 0 \in Nat
    OBVIOUS
  <2>2. Below([i \in Inum |-> 0])
    BY InitLinks, InodeAssumption DEF Below
  <2>3. QED
    BY <2>1, <2>2 DEF Ranked
<1>6. QED
  BY <1>1, <1>2, <1>3, <1>4, <1>5 DEF DInv

LEMMA DataStutter == DInv /\ UNCHANGED vars => DInv'
<1> SUFFICES ASSUME DInv, UNCHANGED vars PROVE DInv'
  OBVIOUS
<1>0. UNCHANGED <<dinode, icache, cwd, file, pc, todo, call>>
  BY DEF vars
<1>1. LInv'
  BY LocksStutter DEF DInv
<1>2. ASSUME NEW p \in Process
      PROVE  /\ \A i : (Fresh(p, i)' <=> Fresh(p, i)) /\ (Frees(p, i)' <=> Frees(p, i))
             /\ \A i : (Pledged(p, i)' <=> Pledged(p, i)) /\ Mine(p, i)' = Mine(p, i)
             /\ Subject(p)' = Subject(p) /\ Dp(p)' = Dp(p) /\ Ip(p)' = Ip(p)
             /\ \A r : First(p, r)' <=> First(p, r)
             /\ CallOK(p)' <=> CallOK(p)
  <2>1. Subject(p)' = Subject(p) /\ Dp(p)' = Dp(p) /\ Ip(p)' = Ip(p) /\ \A r : First(p, r)' <=> First(p, r)
    BY <1>0 DEF Subject, Dp, Ip, First
  <2>2. \A i : (Fresh(p, i)' <=> Fresh(p, i)) /\ (Frees(p, i)' <=> Frees(p, i))
    BY <1>0, <2>1 DEF Fresh, Frees, Freeing
  <2>3. \A i : (Pledged(p, i)' <=> Pledged(p, i)) /\ Mine(p, i)' = Mine(p, i)
    BY <1>0, <2>1 DEF Pledged, Linking, Mine
  <2>4. CallOK(p)' <=> CallOK(p)
    BY <1>0, <2>1 DEF CallOK, DirAt, Linking, EntryOf
  <2>5. QED
    BY <2>1, <2>2, <2>3, <2>4
<1>3. \A i : (Private(i)' <=> Private(i)) /\ (Clearing(i)' <=> Clearing(i))
  BY <1>2 DEF Private, Clearing
<1>4. \A p \in Process : CallOK(p)'
  BY <1>2 DEF DInv
<1>5. ASSUME NEW p \in Process, NEW i \in Inum PROVE UsedOK(p, i)' /\ FreshOK(p, i)' /\ FreesOK(p, i)'
  <2>1. UsedOK(p, i) /\ FreshOK(p, i) /\ FreesOK(p, i)
    BY DEF DInv
  <2>2. QED
    BY <1>0, <1>2, <1>3, <2>1 DEF UsedOK, FreshOK, FreesOK
<1>6. ASSUME NEW i \in Inum PROVE KindsOK(i)' /\ LinksOK(i)' /\ CacheOK(i)' /\ RemovedOK(i)'
  <2>1. KindsOK(i) /\ LinksOK(i) /\ CacheOK(i) /\ RemovedOK(i)
    BY DEF DInv
  <2>2. Claims(i)' = Claims(i)
    <3>1. EntriesTo(i)' = EntriesTo(i) /\ SubdirsOf(i)' = SubdirsOf(i)
      BY <1>0 DEF EntriesTo, SubdirsOf
    <3>2. QED
      BY <1>2, <3>1 DEF Claims
  <2>3. KindsOK(i)' /\ RemovedOK(i)'
    BY <1>0, <1>2, <2>1 DEF KindsOK, RemovedOK
  <2>4. LinksOK(i)' /\ CacheOK(i)'
    BY <1>0, <1>3, <2>1, <2>2 DEF LinksOK, CacheOK
  <2>5. QED
    BY <2>3, <2>4
<1>7. Ranked'
  BY <1>0 DEF DInv, Ranked, Below
<1>8. QED
  BY <1>1, <1>4, <1>5, <1>6, <1>7 DEF DInv

LEMMA DataInvariant == ASSUME NoParents PROVE Spec => []DInv
<1>1. DInv /\ [Next]_vars => DInv'
  BY DataStep, DataStutter DEF Next
<1>2. QED
  BY InitData, <1>1, PTL DEF Spec

LEMMA Tagged ==
    ASSUME NEW S, NEW T, IsFiniteSet(T), NEW f \in [S -> T], \A x, y \in S : f[x] = f[y] => x = y
    PROVE  Cardinality(S) <= Cardinality(T) /\ IsFiniteSet(S)
<1>1. f \in Injection(S, T)
  BY DEF Injection, IsInjective
<1>2. QED
  BY <1>1, FS_Injection

(* The entries and the subdirectories are claims of their own.             *)
LEMMA ClaimsAreLinks ==
    ASSUME DInv, NEW i \in Inum
    PROVE  Cardinality(EntriesTo(i)) + Cardinality(SubdirsOf(i)) <= dinode[i].nlink
<1> DEFINE A == {<<"entry", e[1], e[2]>> : e \in EntriesTo(i)}
           B == {<<"subdir", i, n>> : n \in SubdirsOf(i)}
           f == [e \in EntriesTo(i) |-> <<"entry", e[1], e[2]>>]
           g == [n \in SubdirsOf(i) |-> <<"subdir", i, n>>]
<1>1. A \cup B \subseteq Claims(i) /\ IsFiniteSet(Claims(i)) /\ A \cap B = {}
  BY ClaimsFinite DEF Claims
<1>2. IsFiniteSet(A) /\ IsFiniteSet(B)
  BY <1>1, FS_Subset
<1>3. f \in [EntriesTo(i) -> A] /\ \A x, y \in EntriesTo(i) : f[x] = f[y] => x = y
  <2>1. \A x \in EntriesTo(i) : x \in Inum \X Name
    BY DEF EntriesTo
  <2>2. \A x, y \in EntriesTo(i) : x[1] = y[1] /\ x[2] = y[2] => x = y
    BY <2>1
  <2>3. QED
    BY <2>2
<1>4. g \in [SubdirsOf(i) -> B] /\ \A x, y \in SubdirsOf(i) : g[x] = g[y] => x = y
  OBVIOUS
<1> HIDE DEF A, B, f, g
<1>5. Cardinality(EntriesTo(i)) <= Cardinality(A)
  BY <1>2, <1>3, Tagged
<1>6. Cardinality(SubdirsOf(i)) <= Cardinality(B)
  BY <1>2, <1>4, Tagged
<1>7. Cardinality(A \cup B) = Cardinality(A) + Cardinality(B)
  <2>1. Cardinality(A \cup B) = Cardinality(A) + Cardinality(B) - Cardinality(A \cap B)
    BY <1>2, FS_Union
  <2>2. Cardinality(A \cap B) = 0
    BY <1>1, FS_EmptySet
  <2>3. Cardinality(A) \in Nat /\ Cardinality(B) \in Nat
    BY <1>2, FS_CardinalityType
  <2>4. QED
    BY <2>1, <2>2, <2>3
<1>8. Cardinality(A \cup B) <= Cardinality(Claims(i))
  BY <1>1, FS_Subset
<1>9. Cardinality(Claims(i)) <= dinode[i].nlink /\ dinode[i].nlink \in Int
  BY ClaimsInt
<1>10. /\ Cardinality(EntriesTo(i)) \in Nat /\ Cardinality(SubdirsOf(i)) \in Nat /\ Cardinality(A) \in Nat
       /\ Cardinality(B) \in Nat /\ Cardinality(Claims(i)) \in Nat
  BY <1>1, <1>2, ClaimsFinite, FS_CardinalityType
<1>11. QED
  BY <1>5, <1>6, <1>7, <1>8, <1>9, <1>10

LEMMA DataLinks == DInv => LinksAreCounted
<1> SUFFICES ASSUME DInv, NEW i \in Inum
             PROVE  /\ EntriesTo(i) # {} => dinode[i].type # "free"
                    /\ dinode[i].nlink >= Cardinality(EntriesTo(i))
                                          + (IF dinode[i].type = "dir" THEN Cardinality(SubdirsOf(i)) ELSE 0)
  BY DEF LinksAreCounted
<1>1. ASSUME EntriesTo(i) # {} PROVE dinode[i].type # "free"
  <2>1. PICK e \in EntriesTo(i) : TRUE
    BY <1>1
  <2>2. e[1] \in Inum /\ e[2] \in Name /\ dinode[e[1]].type = "dir" /\ dinode[e[1]].entries[e[2]] = i
    BY DEF EntriesTo
  <2>3. QED
    BY <2>2, EntryInUse
<1>2. Cardinality(EntriesTo(i)) \in Nat /\ Cardinality(SubdirsOf(i)) \in Nat /\ dinode[i].nlink \in Int
  BY ClaimsInt, ClaimsFinite, FS_CardinalityType
<1>3. QED
  BY <1>1, <1>2, ClaimsAreLinks

(* No entry of a directory leads to an inode that is free, and the count   *)
(* of links of an inode (fs.c, sysfile.c) is never below the number of its *)
(* entries and subdirectories, whatever link, unlink, mkdir and create do  *)
(* at once.                                                                *)
THEOREM LinksCorrect == ASSUME NoParents PROVE Spec => []LinksAreCounted
BY DataInvariant, DataLinks, PTL

LEMMA DataRemoved == DInv => RemovedIsFreed
<1> SUFFICES ASSUME DInv, NEW i \in Inum, dinode[i].type # "free" /\ dinode[i].nlink = 0, ~(icache[i].ref > 0)
             PROVE  \E p \in Process : pc[p] = "iget" /\ call[p].new = i
  BY DEF RemovedIsFreed
<1>1. PICK q \in Process : Fresh(q, i)
  BY DEF DInv, RemovedOK
<1>2. CASE pc[q] = "created" /\ Ip(q) = i
  <2>1. RInv /\ Runs
    BY DEF DInv, LInv, RInv
  <2>2. i \in Kept(q)
    BY <1>2, <2>1, KeptIs
  <2>3. Mine(q, i) >= 1 /\ Mine(q, i) \in Nat /\ icache[i].ref >= Mine(q, i) /\ icache[i].ref \in Int
    BY <2>1, <2>2, MineHas, RefAtLeast
  <2>4. QED
    BY <2>3
<1>3. QED
  BY <1>1, <1>2 DEF Fresh

(* An inode without links that nobody refers to has been freed by iput, or *)
(* has just been taken by ialloc.  (One that mkdir has given a link again  *)
(* after its removal, or whose directory has gone, is not without links.)  *)
THEOREM RemovedCorrect == ASSUME NoParents PROVE Spec => []RemovedIsFreed
BY DataInvariant, DataRemoved, PTL

LEMMA DataCache == DInv => CacheIsDisk
BY DEF DInv, CacheOK, Clearing, CacheIsDisk

(* What ilock has read of an inode stays what is on the disk, until iput   *)
(* frees the inode and clears the flags (fs.c).                            *)
THEOREM CacheCorrect == ASSUME NoParents PROVE Spec => []CacheIsDisk
BY DataInvariant, DataCache, PTL

LEMMA DataPanics == DInv => NoPanic
<1> SUFFICES ASSUME DInv, NEW p \in Process
             PROVE  /\ First(p, "ilock") => /\ icache[Subject(p)].ref > 0
                                            /\ icache[Subject(p)].busy = None /\ ~icache[Subject(p)].valid
                                                   => dinode[Subject(p)].type # "free"
                    /\ First(p, "iunlock") => icache[Subject(p)].busy = p /\ icache[Subject(p)].ref > 0
                    /\ First(p, "iput") => ~(Last(Subject(p)) /\ icache[Subject(p)].busy # None)
                    /\ pc[p] \in {"unlink", "create", "link"} /\ todo[p] = <<>> /\ call[p].parent
                           => icache[Dp(p)].type = "dir"
                    /\ At(p, "unlinkinode") => icache[Ip(p)].nlink > 0
                    /\ At(p, "created") =>
                           /\ icache[Dp(p)].type = "dir" /\ Unnamed(Dp(p), call[p].name)
                           /\ call[p].type = "dir" =>
                                  icache[Ip(p)].type = "dir" /\ Unnamed(Ip(p), Dot) /\ Unnamed(Ip(p), DotDot)
  BY DEF NoPanic
<1>1. LInv /\ LocksHeld /\ Runs /\ CallOK(p)
  BY LocksAreHeld DEF DInv, LInv, RInv
<1>2. ASSUME First(p, "ilock") PROVE dinode[Subject(p)].type # "free"
  <2>1. PICK i \in Inum : i = Subject(p)
    BY <1>1, <1>2, HeadPath
  <2>2. Mine(p, i) >= 1
    BY <1>1, <1>2, <2>1, HeadLock, MineHas
  <2>3. ~Frees(p, i)
    BY <1>2 DEF Frees, Freeing, First
  <2>4. Fresh(p, i) => dinode[i].type = call[p].type
    BY DEF DInv, FreshOK
  <2>5. Fresh(p, i) => call[p].type # "free"
    BY <1>1, CallTypes DEF Fresh, CallIs
  <2>6. QED
    BY <2>1, <2>2, <2>3, <2>4, <2>5 DEF DInv, UsedOK
<1>3. ASSUME pc[p] \in {"unlink", "create", "link"}, todo[p] = <<>>, call[p].parent PROVE icache[Dp(p)].type = "dir"
  <2>1. Dp(p) \in LockedAt(pc[p], call[p])
    BY <1>3 DEF LockedAt, Dp
  <2>2. dinode[Dp(p)].type = "dir"
    BY <1>1, <1>3 DEF CallOK, DirAt
  <2>3. QED
    BY <1>3, <2>1, <2>2, ReadsDisk
<1>4. ASSUME At(p, "unlinkinode") PROVE icache[Ip(p)].nlink > 0
  <2>1. /\ pc[p] = "unlinkinode" /\ todo[p] = <<>> /\ Dp(p) \in Inum /\ Ip(p) \in Inum
        /\ Ip(p) \in LockedAt(pc[p], call[p])
    BY <1>1, <1>4, CallTypes DEF At, CallIs, LockedAt, Ip
  <2>2. dinode[Dp(p)].type = "dir" /\ call[p].name \in Name /\ dinode[Dp(p)].entries[call[p].name] = Ip(p)
    BY <1>1, <2>1 DEF CallOK, DirAt, EntryOf
  <2>3. dinode[Ip(p)].nlink >= 1 /\ dinode[Ip(p)].nlink \in Int
    BY <2>1, <2>2, EntryInUse, ClaimsInt
  <2>4. icache[Ip(p)].nlink = dinode[Ip(p)].nlink
    BY <2>1, ReadsDisk
  <2>5. QED
    BY <2>3, <2>4
<1>5. ASSUME At(p, "created")
      PROVE  /\ icache[Dp(p)].type = "dir" /\ Unnamed(Dp(p), call[p].name)
             /\ call[p].type = "dir" =>
                    icache[Ip(p)].type = "dir" /\ Unnamed(Ip(p), Dot) /\ Unnamed(Ip(p), DotDot)
  <2>1. /\ pc[p] = "created" /\ todo[p] = <<>> /\ Dp(p) \in Inum /\ Ip(p) \in Inum
        /\ Dp(p) \in LockedAt(pc[p], call[p]) /\ Ip(p) \in LockedAt(pc[p], call[p])
    BY <1>1, <1>5, CallTypes DEF At, CallIs, LockedAt, Ip, Dp
  <2>2. dinode[Dp(p)].type = "dir" /\ Unnamed(Dp(p), call[p].name)
    BY <1>1, <2>1 DEF CallOK, DirAt, EntryOf, Unnamed
  <2>3. icache[Dp(p)].type = dinode[Dp(p)].type /\ icache[Ip(p)].type = dinode[Ip(p)].type
    BY <2>1, ReadsDisk
  <2>4. PICK i \in Inum : i = Ip(p)
    BY <2>1
  <2>5. Fresh(p, i)
    BY <2>1, <2>4 DEF Fresh
  <2>6. dinode[i].type = call[p].type /\ dinode[i].entries = NoEntries
    BY <2>5 DEF DInv, FreshOK
  <2>7. Unnamed(i, Dot) /\ Unnamed(i, DotDot)
    BY <2>6 DEF Unnamed, NoEntries, Names
  <2>8. QED
    BY <2>2, <2>3, <2>4, <2>6, <2>7
<1>6. QED
  BY <1>1, <1>2, <1>3, <1>4, <1>5 DEF LocksHeld

(* ilock finds no free inode, dirlookup only directories, sys_unlink an    *)
(* inode that has a link, and create makes no name that somebody else has  *)
(* made since it looked, nor dots where there are any; and the panics of   *)
(* LocksCorrect.                                                           *)
THEOREM NoPanicCorrect == ASSUME NoParents PROVE Spec => []NoPanic
BY DataInvariant, DataPanics, PTL

-----------------------------------------------------------------------------
(* Waiting for locks.                                                      *)
LEMMA Smallest ==
    ASSUME NEW S \in SUBSET Nat, S # {}
    PROVE  \E x \in S : \A y \in S : x <= y
<1> DEFINE Segments == {1 .. n : n \in S}
<1>1. Segments \subseteq FiniteSubsetsOf(Nat) /\ Segments # {}
  <2>1. \A n \in Nat : IsFiniteSet(1 .. n) /\ 1 .. n \in SUBSET Nat
    BY FS_Interval
  <2>2. QED
    BY <2>1 DEF FiniteSubsetsOf
<1>2. PICK X \in Segments : \A Y \in Segments : <<Y, X>> \notin StrictSubsetOrdering(Nat)
  <2>1. IsWellFoundedOn(StrictSubsetOrdering(Nat), FiniteSubsetsOf(Nat))
    BY FS_StrictSubsetOrderingWellFounded
  <2> HIDE DEF Segments
  <2>2. QED
    BY <1>1, <2>1, WFMin
<1>3. PICK x \in S : X = 1 .. x
  BY <1>2
<1>4. ASSUME NEW y \in S, ~(x <= y) PROVE FALSE
  <2>1. 1 .. y \subseteq 1 .. x /\ x \in 1 .. x /\ x \notin 1 .. y
    BY <1>4
  <2>2. <<1 .. y, 1 .. x>> \in StrictSubsetOrdering(Nat)
    BY <2>1 DEF StrictSubsetOrdering
  <2>3. QED
    BY <1>2, <1>3, <2>2
<1>5. QED
  BY <1>4

(* Of two processes that wait and hold a lock, the one waited for holds a  *)
(* directory that is deeper in the tree.                                   *)
Waits(q) == First(q, "ilock") /\ HeldBy(q) # {}

LEMMA WaitsDeeper ==
    ASSUME DInv, NEW q \in Process, Waits(q), NEW r \in Process, First(r, "ilock"), icache[Subject(q)].busy = r,
           NEW rank, Below(rank)
    PROVE  Waits(r) /\ Dp(q) \in Inum /\ Dp(r) \in Inum /\ rank[Dp(q)] < rank[Dp(r)]
<1>1. LInv /\ Runs
  BY DEF DInv, LInv, RInv
<1>2. ASSUME NEW s \in Process, Waits(s)
      PROVE  /\ pc[s] \in {"unlinkinode", "created"} /\ HeldBy(s) = {Dp(s)} /\ Subject(s) = Ip(s)
             /\ Dp(s) \in Inum /\ dinode[Dp(s)].type = "dir" /\ Ip(s) \in Inum
  <2>1. pc[s] \in {"unlinkinode", "created"} /\ HeldBy(s) = {Dp(s)} /\ Subject(s) = Ip(s)
    BY <1>1, <1>2, HeadLock DEF Waits
  <2>2. Dp(s) \in Inum /\ Ip(s) \in Inum
    BY <1>1, <2>1, CallTypes DEF CallIs
  <2>3. dinode[Dp(s)].type = "dir"
    BY <2>1 DEF DInv, CallOK, DirAt
  <2>4. QED
    BY <2>1, <2>2, <2>3
<1>3. Ip(q) \in HeldBy(r)
  BY <1>2 DEF HeldBy
<1>4. Waits(r) /\ Ip(q) = Dp(r)
  BY <1>2, <1>3 DEF Waits
<1>5. pc[q] # "created"
  <2>1. SUFFICES ASSUME pc[q] = "created" PROVE FALSE
    OBVIOUS
  <2>2. PICK i \in Inum : i = Ip(q)
    BY <1>2
  <2>3. Fresh(q, i) /\ Private(i)
    BY <2>1, <2>2 DEF Fresh, Private
  <2>4. i \in Kept(r)
    BY <1>1, <1>4, <2>2, KeptIs
  <2>5. Fresh(r, i)
    BY <2>3, <2>4, KeptInUse
  <2>6. r = q /\ i # Dp(q)
    BY <2>3, <2>5 DEF DInv, FreshOK
  <2>7. QED
    BY <1>4, <2>2, <2>6
<1>6. call[q].name \in Name /\ dinode[Dp(q)].entries[call[q].name] = Dp(r)
  BY <1>2, <1>4, <1>5 DEF DInv, CallOK, EntryOf
<1>7. dinode[Dp(q)].type = "dir" /\ dinode[Dp(r)].type = "dir" /\ Dp(q) \in Inum /\ Dp(r) \in Inum
  BY <1>2, <1>4
<1>8. rank[Dp(q)] < rank[Dp(r)]
  BY <1>6, <1>7 DEF Below
<1>9. QED
  BY <1>4, <1>7, <1>8

LEMMA DataWaits == DInv => NoCircularWait
<1> SUFFICES ASSUME DInv, NEW S \in (SUBSET Process) \ {{}},
                    ~ \E p \in S : ~(First(p, "ilock") /\ icache[Subject(p)].busy \in S)
             PROVE  FALSE
  BY Zenon DEF NoCircularWait
<1>1. S \subseteq Process /\ S # {} /\ \A p \in S : First(p, "ilock") /\ icache[Subject(p)].busy \in S
  OBVIOUS
<1>2. PICK B \in Nat : \E rank \in [Inum -> 0 .. B] : Below(rank)
  BY DEF DInv, Ranked
<1>3. PICK rank \in [Inum -> 0 .. B] : Below(rank)
  BY <1>2
<1> DEFINE H == {q \in S : Waits(q)}
           D == {B - rank[Dp(q)] : q \in H}
<1>4. \A q \in H : \E r \in H : Dp(q) \in Inum /\ Dp(r) \in Inum /\ rank[Dp(q)] < rank[Dp(r)]
  BY <1>3, WaitsDeeper
<1>5. H # {}
  <2>1. PICK p \in S : TRUE
    OBVIOUS
  <2>2. PICK i \in Inum : i = Subject(p)
    BY HeadPath DEF DInv
  <2>3. i \in HeldBy(icache[i].busy)
    BY DEF HeldBy
  <2>4. icache[i].busy \in H
    BY <2>2, <2>3 DEF Waits
  <2>5. QED
    BY <2>4
<1>6. \A q \in H : rank[Dp(q)] \in 0 .. B
  BY <1>3, <1>4
<1>7. D \in SUBSET Nat /\ D # {}
  BY <1>3, <1>5, <1>6
<1> HIDE DEF D
<1>8. PICK x \in D : \A y \in D : x <= y
  BY <1>7, Smallest
<1>9. PICK q \in H : x = B - rank[Dp(q)]
  BY DEF D
<1>10. PICK r \in H : rank[Dp(q)] < rank[Dp(r)]
  BY <1>4
<1>11. B - rank[Dp(r)] \in D
  BY DEF D
<1>12. x <= B - rank[Dp(r)]
  BY <1>8, <1>11
<1>13. QED
  BY <1>3, <1>6, <1>9, <1>10, <1>12

(* Processes that have locked a directory and wait for an inode in it      *)
(* (sys_unlink, create) never wait for each other in a circle: whoever is  *)
(* waited for works deeper in the tree.                                    *)
THEOREM NoCircularWaitCorrect == ASSUME NoParents PROVE Spec => []NoCircularWait
BY DataInvariant, DataWaits, PTL

-----------------------------------------------------------------------------
(* Types.  No count of links falls below 0: neither on the disk, where it  *)
(* is that of the claims at least, nor in the cache.                       *)
NlinkMoves(p) ==
    \A j \in Inum :
        \/ icache'[j].nlink \in {icache[j].nlink, 0, dinode'[j].nlink}
        \/ icache'[j].busy = p /\ ~Freeing(p)'

LEMMA ReferencedNlink ==
    ASSUME Inodes, NEW i \in Inum, icache' = Referenced(i), NEW j \in Inum
    PROVE  icache'[j].nlink \in {icache[j].nlink, 0}
<1>1. icache[i] \in CacheSet /\ icache[j] \in CacheSet /\ icache \in [Inum -> CacheSet]
  BY DEF Inodes
<1>2. CASE icache[i].ref > 0
  <2>1. icache' = [icache EXCEPT ![i].ref = @ + 1]
    BY <1>2 DEF Referenced
  <2>2. QED
    BY <1>1, <2>1 DEF CacheSet
<1>3. CASE ~(icache[i].ref > 0)
  <2>1. icache' = [icache EXCEPT ![i] = [Uncached EXCEPT !.ref = 1]]
    BY <1>3 DEF Referenced
  <2>2. [Uncached EXCEPT !.ref = 1].nlink = 0
    BY DEF Uncached
  <2>3. QED
    BY <1>1, <2>1, <2>2
<1>4. QED
  BY <1>2, <1>3

LEMMA RoutineNlink ==
    ASSUME DInv, NEW p \in Process, Routine(p)
    PROVE  NlinkMoves(p)
<1>0. PICK i \in Inum : i = Subject(p)
  BY HeadPath DEF DInv, Routine, ILock, IUnlock, IPut, ITrunc, IPutDone
<1>1. icache \in [Inum -> CacheSet] /\ dinode \in [Inum -> DInodeSet]
  BY DEF DInv, LInv, RInv, Inodes
<1>2. CASE ILock(p)
  <2>1. UNCHANGED dinode /\ icache' = [icache EXCEPT ![i] =
                    IF @.valid
                    THEN [@ EXCEPT !.busy = p]
                    ELSE [@ EXCEPT !.busy = p, !.valid = TRUE, !.type = dinode[i].type, !.nlink = dinode[i].nlink]]
    BY <1>0, <1>2 DEF ILock
  <2>2. QED
    BY <1>1, <2>1 DEF NlinkMoves, CacheSet
<1>3. CASE IUnlock(p) \/ IPut(p)
  <2>1. \/ icache' = [icache EXCEPT ![i].busy = None] \/ icache' = [icache EXCEPT ![i].busy = p]
        \/ icache' = [icache EXCEPT ![i].ref = @ - 1]
    BY <1>0, <1>3 DEF IUnlock, IPut
  <2>2. QED
    BY <1>1, <2>1 DEF NlinkMoves, CacheSet
<1>4. CASE ITrunc(p) \/ IPutDone(p)
  <2>1. \/ icache' = [icache EXCEPT ![i].type = "free"] \/ icache' = [icache EXCEPT ![i] = Cleared(i)]
    BY <1>0, <1>4 DEF ITrunc, IPutDone
  <2>2. Cleared(i).nlink = icache[i].nlink
    BY <1>1 DEF Cleared, CacheSet
  <2>3. QED
    BY <1>1, <2>1, <2>2 DEF NlinkMoves, CacheSet
<1>5. QED
  BY <1>2, <1>3, <1>4 DEF Routine

LEMMA CallNlink ==
    ASSUME DInv, NoParents, NEW p \in Process, Step(p), ~Routine(p)
    PROVE  NlinkMoves(p)
<1>0. /\ todo[p] = <<>> /\ ~Freeing(p)' /\ LInv /\ Runs /\ Inodes
      /\ icache \in [Inum -> CacheSet] /\ dinode \in [Inum -> DInodeSet]
  BY CallsLock DEF DInv, LInv, RInv, Inodes
<1>1. CASE Looks(p)
  <2>1. icache' = icache \/ \E i \in Inum : icache' = Referenced(i)
    BY <1>1 DEF Looks, References1
  <2>2. QED
    BY <1>0, <2>1, ReferencedNlink DEF NlinkMoves
<1>2. CASE IGet(p)
  <2>1. call[p].new \in Inum /\ icache' = Referenced(call[p].new)
    BY <1>0, <1>2, CallTypes DEF IGet, At, CallIs
  <2>2. QED
    BY <1>0, <2>1, ReferencedNlink DEF NlinkMoves
<1>3. CASE \E n : Ip(p) \in Inum /\ Links(Ip(p), n)
  BY <1>0, <1>3 DEF Links, NlinkMoves, CacheSet, DInodeSet
<1>4. CASE UNCHANGED icache
  BY <1>4 DEF NlinkMoves
<1>5. CASE (UnlinkInode(p) /\ ~UnlinkInodeLooks(p)) \/ Created(p)
  <2>0. pc[p] \in {"unlinkinode", "created"}
    BY <1>5 DEF UnlinkInode, Created, At
  <2>1. PICK d \in Inum : d = Dp(p)
    BY <1>0, <2>0, CallTypes DEF CallIs
  <2>2. PICK i \in Inum : i = Ip(p)
    BY <1>0, <2>0, CallTypes DEF CallIs
  <2>3. icache[d].busy = p /\ icache[i].busy = p
    BY <1>0, <1>5, <2>1, <2>2, AtLocks DEF UnlinkInode, Created, At, LockedAt, Ip, Dp
  <2>4. \E m, n : icache' = [icache EXCEPT ![d].nlink = m] \/ icache' = [icache EXCEPT ![i].nlink = n, ![d].nlink = m]
    BY <1>5, <2>1, <2>2 DEF UnlinkInode, UnlinkInodeLooks, Created
  <2>5. \A j \in Inum : icache'[j].busy = icache[j].busy /\ (j # d /\ j # i => icache'[j] = icache[j])
    BY <1>0, <2>4 DEF CacheSet
  <2>6. QED
    BY <1>0, <2>3, <2>5 DEF NlinkMoves
<1>6. CASE \/ (Link(p) /\ ~LinkLooks(p)) \/ BadLink(p) \/ Unlinked(p)
  <2>1. Ip(p) \in Inum
    BY <1>0, <1>6, CallTypes DEF Link, BadLink, Unlinked, At, CallIs
  <2>2. \E n : Links(Ip(p), n)
    BY <1>6 DEF Link, LinkLooks, BadLink, Unlinked
  <2>3. QED
    BY <1>3, <2>1, <2>2
<1>7. CASE (DirLink(p) /\ ~DirLinkLooks(p)) \/ (Create(p) /\ ~CreateLooks(p))
  <2>1. UNCHANGED icache
    BY <1>7 DEF DirLink, DirLinkLooks, Create, CreateLooks, EntryOf
  <2>2. QED
    BY <1>4, <2>1
<1>8. CASE \/ SysOpen(p) \/ SysChdir(p) \/ SysCreate(p) \/ SysMkdir(p) \/ SysUnlink(p) \/ SysLink(p) \/ NameIParent(p)
           \/ Element(p) \/ Open(p) \/ UseFile(p) \/ Close(p) \/ Chdir(p) \/ Existing(p) \/ Unlink(p)
           \/ LinkLooks(p) \/ DirLinkLooks(p) \/ CreateLooks(p) \/ UnlinkInodeLooks(p)
  BY <1>1, <1>8, CallsLook
<1>9. QED
  BY <1>2, <1>5, <1>6, <1>7, <1>8 DEF Step

NlinkOK == \A j \in Inum : icache[j].nlink >= 0

DiskNlinkOK ==
    \A j \in Inum :
        /\ dinode[j].nlink >= 0
        /\ \A p \in Process : icache[j].busy = p /\ ~Freeing(p) => icache[j].nlink = dinode[j].nlink

LEMMA DiskNlink == DInv => DiskNlinkOK
<1> SUFFICES ASSUME DInv, NEW j \in Inum
             PROVE  /\ dinode[j].nlink >= 0
                    /\ \A p \in Process : icache[j].busy = p /\ ~Freeing(p) => icache[j].nlink = dinode[j].nlink
  BY DEF DiskNlinkOK
<1>1. dinode[j].nlink >= 0
  BY ClaimsInt
<1>2. \A p \in Process : icache[j].busy = p /\ ~Freeing(p) => icache[j].nlink = dinode[j].nlink
  BY LockedCache DEF Freeing
<1>3. QED
  BY <1>1, <1>2

LEMMA NlinkStep ==
    ASSUME DInv, NoParents, NlinkOK, NEW p \in Process, Step(p)
    PROVE  NlinkOK'
<1>1. DInv'
  BY DataStep
<1>2. NlinkMoves(p)
  BY RoutineNlink, CallNlink
<1> SUFFICES ASSUME NEW j \in Inum PROVE icache'[j].nlink >= 0
  BY DEF NlinkOK
<1>3. /\ dinode'[j].nlink >= 0
      /\ icache'[j].busy = p /\ ~Freeing(p)' => icache'[j].nlink = dinode'[j].nlink
  <2>1. DiskNlinkOK'
    BY <1>1, DiskNlink, PTL
  <2>2. QED
    BY <2>1 DEF DiskNlinkOK
<1>4. CASE icache'[j].busy = p /\ ~Freeing(p)'
  BY <1>3, <1>4
<1>5. CASE icache'[j].nlink \in {icache[j].nlink, 0, dinode'[j].nlink}
  BY <1>3, <1>5 DEF NlinkOK
<1>6. QED
  BY <1>2, <1>4, <1>5 DEF NlinkMoves

LEMMA DataTypes == DInv /\ NlinkOK => TypeOK
<1> SUFFICES ASSUME DInv, NlinkOK PROVE TypeOK
  OBVIOUS
<1>1. /\ dinode \in [Inum -> DInodeSet] /\ icache \in [Inum -> CacheSet] /\ \A i \in Inum : icache[i].ref >= 0
      /\ cwd \in [Process -> Inum] /\ file \in [Process -> Inum \cup {None}]
  BY DEF DInv, LInv, RInv, Inodes, Runs
<1>2. ASSUME NEW i \in Inum
      PROVE  dinode[i] \in [type : {"free", "file", "dir"}, nlink : Nat, entries : [Names -> Inum \cup {None}]]
  <2>1. dinode[i].nlink \in Nat
    BY ClaimsInt
  <2>2. QED
    BY <1>1, <2>1 DEF DInodeSet, Types
<1>3. ASSUME NEW i \in Inum
      PROVE  icache[i] \in [ref : Nat, busy : Process \cup {None}, valid : BOOLEAN,
                            type : {"free", "file", "dir"}, nlink : Nat]
  <2>1. icache[i].nlink \in Nat /\ icache[i].ref \in Nat
    BY <1>1 DEF NlinkOK, CacheSet
  <2>2. QED
    BY <1>1, <2>1 DEF CacheSet, Types
<1>4. QED
  BY <1>1, <1>2, <1>3 DEF TypeOK

(* The types of the inodes and of what the processes have of them; no      *)
(* count of references or links of fs.c falls below 0.                     *)
THEOREM TypesCorrect == ASSUME NoParents PROVE Spec => []TypeOK
<1>1. Init => DInv /\ NlinkOK
  <2>1. Init => NlinkOK
    BY DEF Init, NlinkOK, Uncached
  <2>2. QED
    BY <2>1, InitData
<1>2. DInv /\ NlinkOK /\ [Next]_vars => (DInv /\ NlinkOK)'
  <2>1. ASSUME DInv, NlinkOK, NEW p \in Process, Step(p) PROVE (DInv /\ NlinkOK)'
    BY <2>1, DataStep, NlinkStep
  <2>2. ASSUME DInv, NlinkOK, UNCHANGED vars PROVE (DInv /\ NlinkOK)'
    BY <2>2, DataStutter DEF NlinkOK, vars
  <2>3. QED
    BY <2>1, <2>2 DEF Next
<1>3. QED
  BY <1>1, <1>2, DataTypes, PTL DEF Spec
=============================================================================
