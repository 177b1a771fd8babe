--------------------------- MODULE MfsNetProofs ---------------------------
(***************************************************************************)
(* Proof that a call of the MFS library has one datagram at most, for any  *)
(* clients and requests, whatever is lost and whenever the server is       *)
(* killed; and that clients, network and server implement RemoteTree.      *)
(***************************************************************************)
EXTENDS MfsNetProps, FiniteSetTheorems, TLAPS

IsRequest(m) == "request" \in DOMAIN m

(* What a datagram says is what its client waits for.                      *)
Matches(m) ==
    IF IsRequest(m) THEN m.request = call[m.client] ELSE m.func = call[m.client].op

(* The server has the fields it starts with, and serves a client that      *)
(* waits for this answer.                                                  *)
ServerOK ==
    /\ server = [pc |-> server.pc, addr |-> server.addr, request |-> server.request,
                 res |-> server.res, rw_buf |-> server.rw_buf]
    /\ \A c \in Client : Serves(c) => call[c] # None /\ server.request = call[c]
    /\ server.pc = "reply" => server.addr \in Client

(* The invariant speaks of datagrams one by one: each has a client that    *)
(* waits and is not being served, and no two have the same.                *)
NetOK ==
    /\ \A m \in net : /\ m.client \in Client
                      /\ call[m.client] # None /\ ~Serves(m.client)
                      /\ Matches(m)
    /\ \A m, n \in net : m.client = n.client => m = n

CallOK == call \in [Client -> Requests \cup {None}]

IInv == CallOK /\ ServerOK /\ NetOK

LEMMA InitInductive == Init => IInv
BY DEF Init, IInv, CallOK, ServerOK, NetOK, Started, Serves

(* A call begins with one request. *)
LEMMA SendStep ==
    ASSUME IInv, NEW c \in Client, NEW r \in Requests, Send(c, r)
    PROVE  IInv'
<1>1. ~Serves(c) /\ r # None
  BY RequestsAssumption DEF Send, IInv, ServerOK
<1>2. \A m \in net : m.client # c
  BY DEF Send, IInv, NetOK
<1>3. call' = [call EXCEPT ![c] = r] /\ call[c] = None /\ UNCHANGED server
  BY DEF Send
<1>4. CallOK' /\ ServerOK'
  BY <1>1, <1>3 DEF IInv, CallOK, ServerOK, Serves
<1>5. NetOK'
  <2> DEFINE new == [client |-> c, request |-> r]
  <2>1. net' = net \cup {new} /\ new.client = c /\ new.request = r /\ IsRequest(new)
    BY DEF Send, Request, IsRequest
  <2> HIDE DEF new
  <2>2. ASSUME NEW m \in net
        PROVE  /\ m.client \in Client /\ call'[m.client] # None /\ ~Serves(m.client)'
               /\ Matches(m)'
    <3>1. call'[m.client] = call[m.client] /\ m.client \in Client
      BY <1>2, <1>3, <2>2 DEF IInv, NetOK, CallOK
    <3>2. QED
      BY <1>3, <3>1, <2>2 DEF IInv, NetOK, Matches, Serves
  <2>3. /\ call'[new.client] # None /\ ~Serves(new.client)' /\ Matches(new)'
    BY <1>1, <1>3, <2>1 DEF IInv, CallOK, Matches, Serves
  <2>4. QED
    BY <1>2, <2>1, <2>2, <2>3 DEF IInv, NetOK
<1>6. QED
  BY <1>4, <1>5 DEF IInv

(* What is taken out of the net leaves the others as they were, and its    *)
(* client without any.                                                     *)
LEMMA Taken ==
    ASSUME IInv, NEW m \in net, NEW n \in net \ {m}
    PROVE  n.client # m.client
BY DEF IInv, NetOK

LEMMA ReceiveStep ==
    ASSUME IInv, NEW c \in Client, Receive(c)
    PROVE  IInv'
<1>1. PICK m \in net : m.client = c /\ net' = net \ {m}
  BY DEF Receive, Replies
<1>2. ~Serves(c)
  BY <1>1 DEF IInv, NetOK
<1>3. call' = [call EXCEPT ![c] = None] /\ UNCHANGED server
  BY DEF Receive
<1>4. CallOK' /\ ServerOK'
  BY <1>2, <1>3 DEF IInv, CallOK, ServerOK, Serves
<1>5. \A n \in net' : n \in net /\ n.client # c /\ n.client \in Client /\ call'[n.client] = call[n.client]
  BY <1>1, <1>3, Taken DEF IInv, NetOK, CallOK
<1>6. NetOK'
  BY <1>3, <1>5 DEF IInv, NetOK, Matches, Serves
<1>7. QED
  BY <1>4, <1>6 DEF IInv

LEMMA ServeStep ==
    ASSUME IInv, NEW c \in Client, Serve(c)
    PROVE  IInv'
<1>0. PICK m \in net :
        /\ m.client = c /\ IsRequest(m) /\ net' = net \ {m}
        /\ \E res, buf : server' = [server EXCEPT !.pc = "reply", !.addr = c, !.request = m.request,
                                                 !.res = res, !.rw_buf = buf]
  BY DEF Serve, IsRequest
<1>1. PICK res, buf : server' = [server EXCEPT !.pc = "reply", !.addr = c, !.request = m.request,
                                              !.res = res, !.rw_buf = buf]
  BY <1>0
<1>2. /\ server'.pc = "reply" /\ server'.addr = c /\ server'.request = m.request
      /\ server' = [pc |-> server'.pc, addr |-> server'.addr, request |-> server'.request,
                    res |-> server'.res, rw_buf |-> server'.rw_buf]
  BY <1>1 DEF IInv, ServerOK
<1>3. UNCHANGED call
  BY DEF Serve
<1>4. m.request = call[c] /\ call[c] # None
  BY <1>0 DEF IInv, NetOK, Matches
<1>5. CallOK' /\ ServerOK'
  BY <1>2, <1>3, <1>4 DEF IInv, CallOK, ServerOK, Serves
<1>6. \A n \in net' : n \in net /\ n.client # c
  BY <1>0, Taken
<1>7. NetOK'
  BY <1>2, <1>3, <1>6 DEF IInv, NetOK, Matches, Serves
<1>8. QED
  BY <1>5, <1>7 DEF IInv

(* The reply takes the place of the service. *)
LEMMA RespStep ==
    ASSUME IInv, SendResp
    PROVE  IInv'
<1> DEFINE c == server.addr
           new == Response
<1>1. server.pc = "reply" /\ c \in Client /\ Serves(c) /\ call[c] # None /\ server.request = call[c]
  BY DEF SendResp, IInv, ServerOK, Serves
<1>2. new.client = c /\ new.func = call[c].op /\ ~IsRequest(new)
  BY <1>1 DEF Response, IsRequest
<1>3. \A m \in net : m.client # c
  BY <1>1 DEF IInv, NetOK
<1>4. /\ net' = net \cup {new} /\ UNCHANGED call
      /\ server' \in {Down, [Started EXCEPT !.rw_buf = server.rw_buf]}
  BY DEF SendResp, Respond
<1>5. /\ server'.pc # "reply"
      /\ server' = [pc |-> server'.pc, addr |-> server'.addr, request |-> server'.request,
                    res |-> server'.res, rw_buf |-> server'.rw_buf]
  BY <1>4 DEF Down, Started
<1>6. CallOK' /\ ServerOK'
  BY <1>4, <1>5 DEF IInv, CallOK, ServerOK, Serves
<1> HIDE DEF new
<1>7. NetOK'
  BY <1>1, <1>2, <1>3, <1>4, <1>5 DEF IInv, NetOK, Matches, Serves
<1>8. QED
  BY <1>6, <1>7 DEF IInv

(* What is lost, or a server that stops or starts, brings no datagram.     *)
LEMMA WorldStep ==
    ASSUME IInv, Lose \/ Kill \/ Restart
    PROVE  IInv'
<1>1. net' \subseteq net /\ UNCHANGED call
  BY DEF Lose, Kill, Restart
<1>2. \/ UNCHANGED server
      \/ server' = Down \/ server' = Started
  BY DEF Lose, Kill, Restart
<1>3. CallOK' /\ ServerOK'
  BY <1>1, <1>2 DEF IInv, CallOK, ServerOK, Serves, Down, Started
<1>4. \A c : Serves(c)' => Serves(c)
  BY <1>2 DEF Serves, Down, Started
<1>5. NetOK'
  BY <1>1, <1>4 DEF IInv, NetOK, Matches
<1>6. QED
  BY <1>3, <1>5 DEF IInv

LEMMA Inductive == Spec => []IInv
<1>1. IInv /\ [Next]_vars => IInv'
  <2> SUFFICES ASSUME IInv, [Next]_vars
               PROVE  IInv'
    OBVIOUS
  <2>1. CASE Next
    BY <2>1, SendStep, ReceiveStep, ServeStep, RespStep, WorldStep DEF Next
  <2>2. CASE UNCHANGED vars
    BY <2>2 DEF vars, IInv, CallOK, ServerOK, NetOK, Matches, Serves
  <2>3. QED
    BY <2>1, <2>2
<1>2. QED
  BY InitInductive, <1>1, PTL DEF Spec

(* A call has one request, or one reply, or is being served, and a client  *)
(* that waits for nothing has nothing on its way (mfs.c:83, :98).          *)
THEOREM DatagramsCorrect == Spec => []OneDatagramPerCall
<1>1. IInv => OneDatagramPerCall
  <2> SUFFICES ASSUME IInv, NEW c \in Client
               PROVE  /\ Cardinality(Datagrams(c)) <= IF call[c] = None \/ Serves(c) THEN 0 ELSE 1
                      /\ \A m \in Datagrams(c) : IF "request" \in DOMAIN m THEN m.request = call[c] ELSE m.func = call[c].op
                      /\ Serves(c) => server.request = call[c]
    BY DEF OneDatagramPerCall
  <2>1. CASE Datagrams(c) = {}
    BY <2>1, FS_EmptySet DEF IInv, ServerOK
  <2>2. CASE Datagrams(c) # {}
    <3>1. PICK m \in net : m.client = c /\ Datagrams(c) = {m}
      BY <2>2 DEF Datagrams, IInv, NetOK
    <3>2. Cardinality(Datagrams(c)) = 1
      BY <3>1, FS_Singleton
    <3>3. call[c] # None /\ ~Serves(c) /\ Matches(m)
      BY <3>1 DEF IInv, NetOK
    <3>4. QED
      BY <3>1, <3>2, <3>3 DEF Matches, IsRequest
  <2>3. QED
    BY <2>1, <2>2
<1>2. QED
  BY <1>1, Inductive, PTL

-----------------------------------------------------------------------------
(* The answers.  What is on the tree has its type, and an answer fits its  *)
(* request.                                                                *)
Entry == [name : Name \cup {Dot, DotDot, TooLong}, inum : Inum]

Trees == [Inum -> {None} \cup [type : {"dir"}, entries : SUBSET Entry]
                         \cup [type : {"file"}, blocks : [Block -> Data \cup {None}]]]

Fits(r, a) ==
    \/ a = Fail /\ r.op # "shutdown"
    \/ r.op = "lookup" /\ a \in [inum : Inum]
    \/ r.op = "stat" /\ a \in [type : {"dir", "file"}, size : Nat]
    \/ r.op = "read" /\ a \in [data : Data \cup {"dir"}]
    \/ r.op \in {"write", "creat", "unlink", "shutdown"} /\ a = T!Done

LEMMA RequestIs ==
    ASSUME NEW r \in Requests
    PROVE  /\ r.op \in {"shutdown", "lookup", "unlink", "stat", "read", "write", "creat"}
           /\ r.op = "shutdown" <=> r = Shutdown
           /\ r.op = "shutdown" => ~Long(r)
           /\ r.op = "write" => r.data \in Data
           /\ r.op = "creat" => r.name \in Name \cup {Dot, DotDot, TooLong} /\ r.type \in {"dir", "file"}
<1>1. r \in Callable
  BY RequestsAssumption
<1>2. CASE r = Shutdown
  BY <1>2 DEF Shutdown, Long
<1>3. CASE r # Shutdown
  BY <1>1, <1>3 DEF Callable, Shutdown, Long
<1>4. QED
  BY <1>2, <1>3

LEMMA TreeRead ==
    ASSUME tree \in Trees, NEW i
    PROVE  /\ T!IsDir(i) => /\ i \in Inum /\ tree[i].entries \in SUBSET Entry
                            /\ tree[i] = [type |-> "dir", entries |-> tree[i].entries]
           /\ T!IsFile(i) => i \in Inum /\ tree[i].blocks \in [Block -> Data \cup {None}]
           /\ \A n : T!Called(i, n) \subseteq Entry
BY DEF Trees, T!IsDir, T!IsFile, T!Called

LEMMA TreeCounts == \A S : T!Cardinality(S) = Cardinality(S)
BY DEF T!Cardinality, Cardinality

LEMMA OutcomeFits ==
    ASSUME tree \in Trees, NEW r \in Requests, NEW o \in Outcomes(r)
    PROVE  o.tree \in Trees /\ Fits(r, o.reply)
<1>1. ASSUME o \in T!Same(Fail), r.op # "shutdown" PROVE o.tree \in Trees /\ Fits(r, o.reply)
  BY <1>1 DEF T!Same, Fits
<1>2. CASE Long(r)
  BY <1>1, <1>2, RequestIs DEF Outcomes
<1>3. CASE r = Shutdown
  <2>1. o \in T!Same(T!Done) /\ r.op = "shutdown"
    BY <1>2, <1>3, RequestIs DEF Outcomes
  <2>2. QED
    BY <2>1 DEF T!Same, Fits
<1>4. ASSUME ~Long(r), r # Shutdown PROVE o \in T!Outcomes(r)
  BY <1>4 DEF Outcomes
<1>5. ASSUME ~Long(r), r.op = "lookup" PROVE o.tree \in Trees /\ Fits(r, o.reply)
  <2>1. o \in T!Lookup(r)
    BY <1>4, <1>5, RequestIs DEF T!Outcomes
  <2>2. o \in T!Same(Fail) \/ \E e \in T!Called(r.inum, r.name) : o \in T!Same([inum |-> e.inum])
    BY <2>1 DEF T!Lookup
  <2>3. ASSUME NEW e \in T!Called(r.inum, r.name), o \in T!Same([inum |-> e.inum])
        PROVE  o.tree \in Trees /\ Fits(r, o.reply)
    <3>1. e \in Entry
      BY TreeRead
    <3>2. o.tree = tree /\ o.reply = [inum |-> e.inum] /\ e.inum \in Inum
      BY <2>3, <3>1 DEF T!Same, Entry
    <3>3. QED
      BY <1>5, <3>2 DEF Fits
  <2>4. QED
    BY <1>1, <1>5, <2>2, <2>3
<1>6. ASSUME ~Long(r), r.op = "stat" PROVE o.tree \in Trees /\ Fits(r, o.reply)
  <2>1. o \in T!Stat(r)
    BY <1>4, <1>6, RequestIs DEF T!Outcomes
  <2>2. \/ o \in T!Same(Fail)
        \/ T!IsFile(r.inum) /\ o \in T!Same([type |-> "file", size |-> Cardinality(T!Written(r.inum))])
        \/ \E s \in 1 .. Cardinality(Block) : o \in T!Same([type |-> "dir", size |-> s])
    <3>1. CASE T!IsFile(r.inum)
      <4>1. o \in T!Same([type |-> "file", size |-> T!Cardinality(T!Written(r.inum))])
        BY <2>1, <3>1, Zenon DEF T!Stat, T!IsFile, T!IsDir
      <4>2. QED
        BY <3>1, <4>1, TreeCounts
    <3>2. CASE T!IsDir(r.inum) /\ ~T!IsFile(r.inum)
      <4>1. o \in UNION {T!Same([type |-> "dir", size |-> s]) : s \in 1 .. T!Cardinality(Block)}
        BY <2>1, <3>2, Zenon DEF T!Stat
      <4>2. QED
        BY <4>1, TreeCounts
    <3>3. CASE ~T!IsFile(r.inum) /\ ~T!IsDir(r.inum)
      BY <2>1, <3>3, Zenon DEF T!Stat
    <3>4. QED
      BY <3>1, <3>2, <3>3
  <2>3. Cardinality(Block) \in Nat /\ Cardinality(T!Written(r.inum)) \in Nat
    BY AnswersAssumption, FS_CardinalityType, FS_Subset DEF T!Written
  <2>4. QED
    BY <1>1, <1>6, <2>2, <2>3 DEF T!Same, Fits
<1>7. ASSUME ~Long(r), r.op = "read" PROVE o.tree \in Trees /\ Fits(r, o.reply)
  <2>1. o \in T!Read(r)
    BY <1>4, <1>7, RequestIs DEF T!Outcomes
  <2>2. \/ o \in T!Same(Fail)
        \/ /\ T!IsFile(r.inum) /\ r.block \in Block /\ tree[r.inum].blocks[r.block] # None
           /\ o \in T!Same([data |-> tree[r.inum].blocks[r.block]])
        \/ o \in T!Same([data |-> "dir"])
    BY <2>1 DEF T!Read
  <2>3. QED
    <3>1. ASSUME NEW d \in Data \cup {"dir"}, o \in T!Same([data |-> d]) PROVE o.tree \in Trees /\ Fits(r, o.reply)
      BY <1>7, <3>1 DEF T!Same, Fits
    <3>2. ASSUME T!IsFile(r.inum), r.block \in Block, tree[r.inum].blocks[r.block] # None
          PROVE  tree[r.inum].blocks[r.block] \in Data
      BY <3>2, TreeRead
    <3>3. QED
      BY <1>1, <1>7, <2>2, <3>1, <3>2
<1>8. ASSUME ~Long(r), r.op = "write" PROVE o.tree \in Trees /\ Fits(r, o.reply)
  <2>1. o \in T!Write(r)
    BY <1>4, <1>8, RequestIs DEF T!Outcomes
  <2>2. CASE o \in T!Same(Fail)
    BY <1>1, <1>8, <2>2
  <2>3. CASE T!IsFile(r.inum) /\ o.reply = T!Done
             /\ o.tree = [tree EXCEPT ![r.inum] = T!File([tree[r.inum].blocks EXCEPT ![r.block] = r.data])]
    <3>1. r.inum \in Inum /\ tree[r.inum].blocks \in [Block -> Data \cup {None}] /\ r.data \in Data
      BY <1>8, <2>3, TreeRead, RequestIs
    <3>2. T!File([tree[r.inum].blocks EXCEPT ![r.block] = r.data]) \in [type : {"file"}, blocks : [Block -> Data \cup {None}]]
      BY <3>1 DEF T!File
    <3>3. QED
      BY <1>8, <2>3, <3>1, <3>2 DEF Trees, Fits
  <2>4. QED
    BY <2>1, <2>2, <2>3 DEF T!Write
<1>9. ASSUME ~Long(r), r.op = "creat" PROVE o.tree \in Trees /\ Fits(r, o.reply)
  <2>1. o \in T!Creat(r)
    BY <1>4, <1>9, RequestIs DEF T!Outcomes
  <2>2. \/ o \in T!Same(Fail) \/ o \in T!Same(T!Done)
        \/ /\ T!IsDir(r.inum) /\ o.reply = T!Done
           /\ \E i \in T!Unused :
                o.tree = [tree EXCEPT
                     ![r.inum] = T!Directory(tree[r.inum].entries \cup {[name |-> r.name, inum |-> i]}),
                     ![i] = IF r.type = "dir" THEN T!NewDirectory(i, r.inum) ELSE T!NewFile]
    <3>1. CASE ~T!IsDir(r.inum)
      BY <2>1, <3>1, Zenon DEF T!Creat, T!Called
    <3>2. CASE T!IsDir(r.inum) /\ T!Called(r.inum, r.name) # {}
      BY <2>1, <3>2, Zenon DEF T!Creat
    <3>3. CASE T!IsDir(r.inum) /\ T!Called(r.inum, r.name) = {}
      <4>1. o \in T!Same(Fail) \/ o \in {[reply |-> T!Done,
                   tree |-> [tree EXCEPT
                     ![r.inum] = T!Directory(tree[r.inum].entries \cup {[name |-> r.name, inum |-> i]}),
                     ![i] = IF r.type = "dir" THEN T!NewDirectory(i, r.inum) ELSE T!NewFile]]
                  : i \in T!Unused}
        BY <2>1, <3>3, Zenon DEF T!Creat
      <4>2. ASSUME o \notin T!Same(Fail)
            PROVE  \E i \in T!Unused : o = [reply |-> T!Done,
                     tree |-> [tree EXCEPT
                       ![r.inum] = T!Directory(tree[r.inum].entries \cup {[name |-> r.name, inum |-> i]}),
                       ![i] = IF r.type = "dir" THEN T!NewDirectory(i, r.inum) ELSE T!NewFile]]
        BY <4>1, <4>2
      <4>3. CASE o \notin T!Same(Fail)
        <5>1. PICK i \in T!Unused : o = [reply |-> T!Done,
                 tree |-> [tree EXCEPT
                   ![r.inum] = T!Directory(tree[r.inum].entries \cup {[name |-> r.name, inum |-> i]}),
                   ![i] = IF r.type = "dir" THEN T!NewDirectory(i, r.inum) ELSE T!NewFile]]
          BY <4>2, <4>3, Zenon
        <5>2. PICK t : t = [tree EXCEPT
                   ![r.inum] = T!Directory(tree[r.inum].entries \cup {[name |-> r.name, inum |-> i]}),
                   ![i] = IF r.type = "dir" THEN T!NewDirectory(i, r.inum) ELSE T!NewFile]
          OBVIOUS
        <5>3. o = [reply |-> T!Done, tree |-> t]
          BY <5>1, <5>2, Zenon
        <5>4. o.reply = T!Done /\ o.tree = t
          BY <5>3
        <5>5. QED
          BY <3>3, <5>2, <5>4, Zenon
      <4>4. QED
        BY <4>3
    <3>4. QED
      BY <3>1, <3>2, <3>3
  <2>3. CASE o \in T!Same(Fail)
    BY <1>1, <1>9, <2>3
  <2>4. CASE o \in T!Same(T!Done)
    BY <1>9, <2>4 DEF T!Same, Fits
  <2>5. ASSUME T!IsDir(r.inum), o.reply = T!Done, NEW i \in T!Unused,
               o.tree = [tree EXCEPT
                     ![r.inum] = T!Directory(tree[r.inum].entries \cup {[name |-> r.name, inum |-> i]}),
                     ![i] = IF r.type = "dir" THEN T!NewDirectory(i, r.inum) ELSE T!NewFile]
        PROVE  o.tree \in Trees /\ Fits(r, o.reply)
    <3>1. r.inum \in Inum /\ tree[r.inum].entries \in SUBSET Entry /\ i \in Inum
      BY <2>5, TreeRead DEF T!Unused
    <3>2. T!Directory(tree[r.inum].entries \cup {[name |-> r.name, inum |-> i]}) \in [type : {"dir"}, entries : SUBSET Entry]
      BY <1>9, <3>1, RequestIs DEF T!Directory, Entry
    <3>3. T!NewDirectory(i, r.inum) \in [type : {"dir"}, entries : SUBSET Entry]
      BY <3>1 DEF T!NewDirectory, T!Directory, Entry
    <3>4. T!NewFile \in [type : {"file"}, blocks : [Block -> Data \cup {None}]]
      BY DEF T!NewFile, T!File
    <3>5. PICK d, n : /\ d \in [type : {"dir"}, entries : SUBSET Entry]
                      /\ n \in [type : {"dir"}, entries : SUBSET Entry] \cup [type : {"file"}, blocks : [Block -> Data \cup {None}]]
                      /\ o.tree = [tree EXCEPT ![r.inum] = d, ![i] = n]
      BY <2>5, <3>2, <3>3, <3>4
    <3>6. o.tree \in Trees
      BY <3>1, <3>5 DEF Trees
    <3>7. QED
      BY <1>9, <2>5, <3>6 DEF Fits
  <2>6. QED
    BY <2>2, <2>3, <2>4, <2>5
<1>10. ASSUME ~Long(r), r.op = "unlink" PROVE o.tree \in Trees /\ Fits(r, o.reply)
  <2>1. o \in T!Unlink(r)
    BY <1>4, <1>10, RequestIs DEF T!Outcomes
  <2>2. \/ o \in T!Same(Fail) \/ o \in T!Same(T!Done)
        \/ /\ o.reply = T!Done
           /\ \E e \in T!Called(r.inum, r.name) :
                o.tree = [tree EXCEPT ![r.inum] = T!Directory(tree[r.inum].entries \ {e}), ![e.inum] = None]
    <3>1. CASE T!Called(r.inum, r.name) = {}
      BY <2>1, <3>1, Zenon DEF T!Unlink
    <3>2. CASE T!Called(r.inum, r.name) # {}
      <4>1. PICK e \in T!Called(r.inum, r.name) :
              o \in T!Same(Fail) \/
              o \in {[reply |-> T!Done,
                     tree |-> [tree EXCEPT ![r.inum] = T!Directory(tree[r.inum].entries \ {e}), ![e.inum] = None]]}
        BY <2>1, <3>2 DEF T!Unlink
      <4>2. PICK t : t = [tree EXCEPT ![r.inum] = T!Directory(tree[r.inum].entries \ {e}), ![e.inum] = None]
        OBVIOUS
      <4>3. o \in T!Same(Fail) \/ o \in {[reply |-> T!Done, tree |-> t]}
        BY <4>1, <4>2, Zenon
      <4>4. o \in T!Same(Fail) \/ (o.reply = T!Done /\ o.tree = t)
        BY <4>3
      <4>5. QED
        BY <4>2, <4>4, Zenon
    <3>3. QED
      BY <3>1, <3>2
  <2>3. CASE o \in T!Same(Fail)
    BY <1>1, <1>10, <2>3
  <2>4. CASE o \in T!Same(T!Done)
    BY <1>10, <2>4 DEF T!Same, Fits
  <2>5. ASSUME o.reply = T!Done, NEW e \in T!Called(r.inum, r.name),
               o.tree = [tree EXCEPT ![r.inum] = T!Directory(tree[r.inum].entries \ {e}), ![e.inum] = None]
        PROVE  o.tree \in Trees /\ Fits(r, o.reply)
    <3>1. T!IsDir(r.inum)
      BY <2>5 DEF T!Called
    <3>2. r.inum \in Inum /\ tree[r.inum].entries \in SUBSET Entry
      BY <3>1, TreeRead
    <3>3. PICK d \in [type : {"dir"}, entries : SUBSET Entry] : d = T!Directory(tree[r.inum].entries \ {e})
      BY <3>2 DEF T!Directory
    <3>4. o.tree \in Trees
      BY <2>5, <3>2, <3>3 DEF Trees
    <3>5. QED
      BY <1>10, <2>5, <3>4 DEF Fits
  <2>6. QED
    BY <2>2, <2>3, <2>4, <2>5
<1>11. QED
  BY <1>2, <1>3, <1>5, <1>6, <1>7, <1>8, <1>9, <1>10, RequestIs

-----------------------------------------------------------------------------
(* The datagrams.  A reply carries an answer that fits the call, and the   *)
(* data of a block with it.                                                *)
Reply(c, r, a, b) ==
    [client |-> c, func |-> r.op, status |-> Status(r, a),
     stat |-> IF r.op = "stat" /\ a # Fail THEN a ELSE None,
     dir  |-> r.op = "read" /\ a = [data |-> "dir"],
     data |-> IF r.op = "read" THEN b ELSE None]

Good(r, a, b) ==
    /\ Fits(r, a) /\ b \in Data \cup {Junk}
    /\ r.op = "read" /\ a # Fail /\ a.data # "dir" => b = a.data

Form(m) ==
    \/ m = Request(m.client, call[m.client])
    \/ \E a, b : Good(call[m.client], a, b) /\ m = Reply(m.client, call[m.client], a, b)

AnswersOK ==
    /\ tree \in Trees
    /\ server.rw_buf \in Data \cup {Junk}
    /\ server.pc = "reply" => Good(server.request, server.res, server.rw_buf)
    /\ \A m \in net : Form(m)

LEMMA Forms ==
    \A c, r, a, b : /\ IsRequest(Request(c, r)) /\ "status" \notin DOMAIN Request(c, r)
                    /\ ~IsRequest(Reply(c, r, a, b)) /\ "status" \in DOMAIN Reply(c, r, a, b)
                    /\ Request(c, r).client = c /\ Reply(c, r, a, b).client = c
BY DEF IsRequest, Request, Reply

LEMMA FitsFound ==
    ASSUME NEW r \in Requests, NEW a, Fits(r, a)
    PROVE  a # None /\ a # Lost /\ (a # Fail => a \in Found)
<1>1. a = Fail \/ a \in Found
  BY DEF Fits, Found
<1>2. QED
  BY <1>1, AnswersAssumption, LostAssumption

LEMMA ReplyMeans ==
    ASSUME NEW r \in Requests, NEW c, NEW a, NEW b, Good(r, a, b)
    PROVE  Meaning(Reply(c, r, a, b)) = a
<1> DEFINE m == Reply(c, r, a, b)
<1>1. m.func = r.op /\ m.status = Status(r, a) /\ m.stat = (IF r.op = "stat" /\ a # Fail THEN a ELSE None)
      /\ m.dir = (r.op = "read" /\ a = [data |-> "dir"]) /\ m.data = (IF r.op = "read" THEN b ELSE None)
  BY DEF Reply
<1> HIDE DEF m
<1>2. CASE a = Fail
  <2>1. m.status = -1
    BY <1>1, <1>2 DEF Status
  <2>2. QED
    BY <1>2, <2>1 DEF m, Meaning
<1>3. CASE a # Fail /\ r.op = "lookup"
  <2>1. a \in [inum : Inum] /\ m.status = a.inum
    BY <1>1, <1>3 DEF Status, Good, Fits
  <2>2. m.status >= 0 /\ ~(m.status < 0) /\ a = [inum |-> a.inum]
    <3>1. a.inum \in Nat /\ a = [inum |-> a.inum]
      BY <2>1, AnswersAssumption
    <3>2. PICK i \in Nat : i = a.inum
      BY <3>1
    <3>3. QED
      BY <2>1, <3>1, <3>2
  <2>3. Meaning(m) = [inum |-> m.status]
    BY <1>1, <1>3, <2>2 DEF Meaning
  <2>4. QED
    BY <2>1, <2>2, <2>3 DEF m
<1>4. ASSUME a # Fail, r.op # "lookup" PROVE m.status = 0 /\ ~(m.status < 0) /\ m.status >= 0
  BY <1>1, <1>4 DEF Status
<1>5. CASE a # Fail /\ r.op = "stat"
  BY <1>1, <1>4, <1>5 DEF m, Meaning
<1>6. CASE a # Fail /\ r.op = "read"
  <2>1. Meaning(m) = [data |-> IF m.dir THEN "dir" ELSE m.data]
    BY <1>1, <1>4, <1>6 DEF Meaning
  <2>2. a \in [data : Data \cup {"dir"}] /\ (a.data # "dir" => b = a.data)
    BY <1>6 DEF Good, Fits
  <2>3. a = [data |-> a.data]
    BY <2>2
  <2>4. CASE a.data = "dir"
    BY <1>1, <1>6, <2>1, <2>3, <2>4 DEF m
  <2>5. CASE a.data # "dir"
    <3>1. a # [data |-> "dir"]
      BY <2>5
    <3>2. ~m.dir
      BY <1>1, <3>1, Zenon
    <3>3. m.data = a.data
      BY <1>1, <1>6, <2>2, <2>5
    <3>4. QED
      BY <2>1, <2>3, <3>2, <3>3 DEF m
  <2>6. QED
    BY <2>4, <2>5
<1>7. CASE a # Fail /\ r.op \notin {"lookup", "stat", "read"}
  <2>1. a = T!Done
    BY <1>7 DEF Good, Fits
  <2>2. Meaning(m) = T!Done
    BY <1>1, <1>4, <1>7 DEF Meaning
  <2>3. QED
    BY <2>1, <2>2 DEF m
<1>8. QED
  BY <1>2, <1>3, <1>5, <1>6, <1>7

(* What the library makes of it is one of the results it promises.         *)
LEMMA ReplyReturns ==
    ASSUME NEW r \in Requests, NEW c, NEW a, NEW b, Good(r, a, b),
           NEW s \in Statuses(r.op, Reply(c, r, a, b).status)
    PROVE  [status |-> s, out |-> Out(r.op, Reply(c, r, a, b))] \in Remote!Results(r, a)
<1> DEFINE m == Reply(c, r, a, b)
           v == [status |-> s, out |-> Out(r.op, m)]
<1>1. m.func = r.op /\ m.status = Status(r, a) /\ m.stat = (IF r.op = "stat" /\ a # Fail THEN a ELSE None)
      /\ m.data = (IF r.op = "read" THEN b ELSE None)
  BY DEF Reply
<1>2. s \in Statuses(r.op, m.status)
  OBVIOUS
<1>0. \A statuses, outs : s \in statuses /\ Out(r.op, m) \in outs => v \in Remote!Result(statuses, outs)
  BY DEF Remote!Result
<1> HIDE DEF m, v
<1>3. r.op \in {"shutdown", "lookup", "unlink", "stat", "read", "write", "creat"}
  BY RequestIs
<1>4. CASE r.op = "read"
  <2>1. Out(r.op, m) = b /\ b \in Data \cup {Junk}
    BY <1>1, <1>4 DEF Out, Good
  <2>2. CASE a = Fail
    <3>1. m.status = -1
      BY <1>1, <2>2 DEF Status
    <3>2. s \in {0, -1}
      BY <1>2, <1>4, <3>1 DEF Statuses, TwoCharacters
    <3>3. s \in Remote!Failures(r.op)
      BY <1>4, <3>2 DEF Remote!Failures, Remote!Negative
    <3>4. v \in Remote!Result(Remote!Failures(r.op), Remote!AnyBlock)
      BY <1>0, <2>1, <3>3 DEF Remote!AnyBlock
    <3>5. QED
      BY <1>4, <2>2, <3>4 DEF Remote!Results, v, m
  <2>3. CASE a # Fail
    <3>1. m.status = 0
      BY <1>1, <1>4, <2>3 DEF Status
    <3>2. s \in {0, 1}
      BY <1>2, <1>4, <3>1 DEF Statuses, TwoCharacters
    <3>3. s \in 0 .. 1 /\ Out(r.op, m) \in IF a.data = "dir" THEN Remote!AnyBlock ELSE {a.data}
      BY <1>4, <2>1, <2>3, <3>2 DEF Good, Remote!AnyBlock
    <3>4. v \in Remote!Result(0 .. 1, IF a.data = "dir" THEN Remote!AnyBlock ELSE {a.data})
      BY <1>0, <3>3
    <3>5. QED
      BY <1>4, <2>3, <3>4 DEF Remote!Results, v, m
  <2>4. QED
    BY <2>2, <2>3
<1>5. CASE r.op # "read" /\ a = Fail
  <2>1. m.status = -1 /\ r.op # "shutdown"
    BY <1>1, <1>5, AnswersAssumption DEF Status, Good, Fits, Found
  <2>2. s \in Remote!Failures(r.op) /\ Out(r.op, m) \in {None}
    BY <1>2, <1>3, <1>5, <2>1 DEF Statuses, FirstCharacter, Out, Remote!Failures, Remote!Negative
  <2>3. v \in Remote!Result(Remote!Failures(r.op), {None})
    BY <1>0, <2>2
  <2>4. QED
    BY <1>5, <2>3 DEF Remote!Results, v, m
<1>6. CASE r.op = "lookup" /\ a # Fail
  <2>1. m.status = a.inum
    BY <1>1, <1>6 DEF Status
  <2>2. s \in {a.inum} /\ Out(r.op, m) \in {None}
    BY <1>2, <1>6, <2>1 DEF Statuses, Out
  <2>3. v \in Remote!Result({a.inum}, {None})
    BY <1>0, <2>2
  <2>4. QED
    BY <1>6, <2>3 DEF Remote!Results, v, m
<1>7. CASE r.op = "stat" /\ a # Fail
  <2>1. m.status = 0 /\ m.stat = a
    BY <1>1, <1>7 DEF Status
  <2>2. s \in {0} /\ Out(r.op, m) \in {a}
    BY <1>2, <1>7, <2>1 DEF Statuses, FirstCharacter, Out
  <2>3. v \in Remote!Result({0}, {a})
    BY <1>0, <2>2
  <2>4. QED
    BY <1>7, <2>3 DEF Remote!Results, v, m
<1>8. CASE r.op \notin {"lookup", "stat", "read"} /\ a # Fail
  <2>1. m.status = 0
    BY <1>1, <1>8 DEF Status
  <2>2. s \in {0} /\ Out(r.op, m) \in {None}
    BY <1>2, <1>3, <1>8, <2>1 DEF Statuses, FirstCharacter, Out
  <2>3. v \in Remote!Result({0}, {None})
    BY <1>0, <2>2
  <2>4. QED
    BY <1>8, <2>3 DEF Remote!Results, v, m
<1>9. QED
  BY <1>4, <1>5, <1>6, <1>7, <1>8

LEMMA AnswersStep ==
    ASSUME IInv, AnswersOK, [Next]_vars
    PROVE  AnswersOK'
<1>0. call \in [Client -> Requests \cup {None}]
  BY DEF IInv, CallOK
<1>1. ASSUME NEW m \in net, call'[m.client] = call[m.client] PROVE Form(m)'
  BY <1>1 DEF AnswersOK, Form
<1>2. ASSUME NEW c \in Client, NEW r \in Requests, Send(c, r) PROVE AnswersOK'
  <2>1. UNCHANGED <<tree, server>> /\ net' = net \cup {Request(c, r)} /\ call' = [call EXCEPT ![c] = r] /\ call[c] = None
    BY <1>2 DEF Send
  <2>2. \A m \in net : m.client \in Client /\ m.client # c
    BY <2>1 DEF IInv, NetOK
  <2>3. \A m \in net : call'[m.client] = call[m.client]
    BY <1>0, <2>1, <2>2
  <2>4. Form(Request(c, r))'
    BY <1>0, <2>1, Forms DEF Form
  <2>5. QED
    BY <1>1, <2>1, <2>3, <2>4 DEF AnswersOK
<1>3. ASSUME NEW c \in Client, Receive(c) PROVE AnswersOK'
  <2>1. UNCHANGED <<tree, server>> /\ call' = [call EXCEPT ![c] = None]
    BY <1>3 DEF Receive
  <2>2. PICK m \in net : m.client = c /\ net' = net \ {m}
    BY <1>3 DEF Receive, Replies
  <2>3. \A n \in net' : n \in net /\ call'[n.client] = call[n.client]
    BY <1>0, <2>1, <2>2, Taken DEF IInv, NetOK
  <2>4. QED
    BY <1>1, <2>1, <2>3 DEF AnswersOK
<1>4. ASSUME NEW c \in Client, Serve(c) PROVE AnswersOK'
  <2>0. PICK m \in net : m.client = c /\ IsRequest(m) /\ \E o \in Outcomes(m.request) :
          /\ tree' = o.tree /\ net' = net \ {m}
          /\ server' = [server EXCEPT !.pc = "reply", !.addr = c, !.request = m.request, !.res = o.reply,
                                      !.rw_buf = Buffer(m.request, o.reply)]
    BY <1>4 DEF Serve, IsRequest
  <2>1. PICK o \in Outcomes(m.request) :
          /\ m.client = c /\ IsRequest(m) /\ tree' = o.tree /\ net' = net \ {m}
          /\ server' = [server EXCEPT !.pc = "reply", !.addr = c, !.request = m.request, !.res = o.reply,
                                      !.rw_buf = Buffer(m.request, o.reply)]
    BY <2>0
  <2>2. UNCHANGED call
    BY <1>4 DEF Serve
  <2>3. m.request \in Requests
    BY <1>0, <2>1 DEF IInv, NetOK, Matches
  <2>4. o.tree \in Trees /\ Fits(m.request, o.reply)
    BY <2>3, OutcomeFits DEF AnswersOK
  <2>5. /\ server'.pc = "reply" /\ server'.request = m.request /\ server'.res = o.reply
        /\ server'.rw_buf = Buffer(m.request, o.reply)
    BY <2>1 DEF IInv, ServerOK
  <2>6. Good(m.request, o.reply, Buffer(m.request, o.reply))
    <3>1. CASE m.request.op = "read" /\ o.reply # Fail
      <4>1. o.reply \in [data : Data \cup {"dir"}]
        BY <2>4, <3>1 DEF Fits
      <4>2. Buffer(m.request, o.reply) = IF o.reply.data = "dir" THEN server.rw_buf ELSE o.reply.data
        BY <3>1 DEF Buffer
      <4>3. QED
        BY <2>4, <4>1, <4>2 DEF Good, AnswersOK
    <3>2. CASE m.request.op # "read" \/ o.reply = Fail
      <4>1. Buffer(m.request, o.reply) \in Data \cup {Junk}
        BY <2>3, <3>2, RequestIs DEF Buffer, AnswersOK
      <4>2. QED
        BY <2>4, <3>2, <4>1 DEF Good
    <3>3. QED
      BY <3>1, <3>2
  <2>7. \A n \in net' : n \in net /\ call'[n.client] = call[n.client]
    BY <2>1, <2>2
  <2>8. QED
    BY <1>1, <2>1, <2>4, <2>5, <2>6, <2>7 DEF AnswersOK, Good
<1>5. CASE SendResp
  <2>1. /\ UNCHANGED <<tree, call>> /\ net' = net \cup {Response} /\ server.pc = "reply"
        /\ server'.pc # "reply" /\ server'.rw_buf \in {Junk, server.rw_buf}
    BY <1>5 DEF SendResp, Respond, Down, Started
  <2>2. server.request = call[server.addr]
    BY <2>1 DEF IInv, ServerOK, Serves
  <2>3. Response = Reply(server.addr, server.request, server.res, server.rw_buf)
    BY DEF Response, Reply
  <2>4. PICK m : m = Response
    OBVIOUS
  <2>5. net' = net \cup {m}
    BY <2>1, <2>4
  <2>6. Form(m)
    BY <2>1, <2>2, <2>3, <2>4, Forms DEF Form, AnswersOK
  <2>7. Form(m)'
    BY <2>1, <2>6 DEF Form
  <2>8. QED
    BY <1>1, <2>1, <2>5, <2>7 DEF AnswersOK
<1>6. CASE Lose
  BY <1>1, <1>6 DEF Lose, AnswersOK
<1>7. CASE Kill \/ Restart
  BY <1>1, <1>7 DEF Kill, Restart, Down, Started, AnswersOK
<1>8. CASE UNCHANGED vars
  BY <1>1, <1>8 DEF vars, AnswersOK
<1>9. QED
  BY <1>2, <1>3, <1>4, <1>5, <1>6, <1>7, <1>8 DEF Next

LEMMA AnswersCorrect == Spec => []AnswersOK
<1>1. Init => AnswersOK
  <2> SUFFICES ASSUME Init PROVE AnswersOK
    OBVIOUS
  <2>1. T!NewDirectory(0, 0) \in [type : {"dir"}, entries : SUBSET Entry]
    BY AnswersAssumption DEF T!NewDirectory, T!Directory, Entry
  <2>2. tree = [i \in Inum |-> IF i = 0 THEN T!NewDirectory(0, 0) ELSE None]
    BY DEF Init, T!Init
  <2>3. tree \in Trees
    BY <2>1, <2>2 DEF Trees
  <2>4. QED
    BY <2>3 DEF Init, AnswersOK, Started
<1>2. QED
  BY Inductive, AnswersStep, <1>1, PTL DEF Spec

-----------------------------------------------------------------------------
(* What the abstract tree has answered.                                    *)
AnsweredOK ==
    \A c \in Client :
        /\ Serves(c) => Answered[c] = server.res
        /\ \A a, b : Good(call[c], a, b) /\ Reply(c, call[c], a, b) \in net => Answered[c] = a
        /\ Request(c, call[c]) \in net => Answered[c] = None
        /\ ~Waits(c) => Answered[c] = None
        /\ Stranded(c) => Answered[c] = Lost

LEMMA AnsweredIs == IInv /\ AnswersOK => AnsweredOK
<1> SUFFICES ASSUME IInv, AnswersOK, NEW c \in Client
             PROVE  /\ Serves(c) => Answered[c] = server.res
                    /\ \A a, b : Good(call[c], a, b) /\ Reply(c, call[c], a, b) \in net => Answered[c] = a
                    /\ Request(c, call[c]) \in net => Answered[c] = None
                    /\ ~Waits(c) => Answered[c] = None
                    /\ Stranded(c) => Answered[c] = Lost
  BY DEF AnsweredOK
<1> DEFINE m == CHOOSE n \in Replies(c) : TRUE
<1>1. Answered[c] = CASE Serves(c) -> server.res
                      [] Replies(c) # {} -> Meaning(m)
                      [] Stranded(c) -> Lost
                      [] OTHER -> None
  BY DEF Answered
<1>2. Serves(c) => Waits(c) /\ Datagrams(c) = {}
  BY DEF IInv, ServerOK, NetOK, Waits, Datagrams
<1>3. Replies(c) \subseteq Datagrams(c)
  BY DEF Replies, Datagrams
<1>4. Datagrams(c) # {} => Waits(c)
  BY DEF IInv, NetOK, Waits, Datagrams
<1>5. \A n \in Datagrams(c) : Datagrams(c) = {n}
  BY DEF IInv, NetOK, Datagrams
<1>6. Serves(c) => Answered[c] = server.res
  BY <1>1, <1>2, <1>3 DEF Stranded
<1>7. ASSUME NEW a, NEW b, Good(call[c], a, b), Reply(c, call[c], a, b) \in net PROVE Answered[c] = a
  <2>1. PICK n \in net : n = Reply(c, call[c], a, b)
    BY <1>7
  <2>2. n.client = c /\ "status" \in DOMAIN n
    BY <2>1, Forms
  <2>3. Replies(c) = {n} /\ Datagrams(c) # {}
    BY <1>3, <1>5, <2>2 DEF Replies, Datagrams
  <2>4. m = n
    BY <2>3
  <2>5. ~Serves(c) /\ ~Stranded(c) /\ call[c] \in Requests
    BY <1>2, <1>4, <2>3 DEF Stranded, Waits, IInv, CallOK
  <2>6. Answered[c] = Meaning(n)
    BY <1>1, <2>3, <2>4, <2>5
  <2>7. Meaning(n) = a
    BY <1>7, <2>1, <2>5, ReplyMeans
  <2>8. QED
    BY <2>6, <2>7
<1>8. ASSUME Request(c, call[c]) \in net PROVE Answered[c] = None
  <2>1. PICK n \in net : n = Request(c, call[c])
    BY <1>8
  <2>2. n.client = c /\ "status" \notin DOMAIN n
    BY <2>1, Forms
  <2>3. n \in Datagrams(c) /\ n \notin Replies(c)
    BY <2>2 DEF Datagrams, Replies
  <2>4. Datagrams(c) # {} /\ Replies(c) = {}
    BY <1>3, <1>5, <2>3
  <2>5. QED
    BY <1>1, <1>2, <2>4 DEF Stranded
<1>9. ~Waits(c) => Answered[c] = None
  BY <1>1, <1>2, <1>3, <1>4 DEF Stranded
<1>10. Stranded(c) => Answered[c] = Lost
  BY <1>1, <1>3 DEF Stranded
<1>11. QED
  BY <1>6, <1>7, <1>8, <1>9, <1>10

LEMMA AnsweredIsNext == IInv' /\ AnswersOK' => AnsweredOK'
BY AnsweredIs, PTL

(* Nothing happens to a call whose datagrams and whose service stay as     *)
(* they are.                                                               *)
LEMMA SameAnswer ==
    ASSUME IInv, AnswersOK, AnsweredOK, AnsweredOK', NEW c \in Client,
           call'[c] = call[c], Serves(c)' <=> Serves(c), Serves(c) => server'.res = server.res,
           \A m : m.client = c => (m \in net' <=> m \in net)
    PROVE  Answered'[c] = Answered[c]
<1>1. CASE Serves(c)
  BY <1>1 DEF AnsweredOK
<1>2. CASE ~Waits(c)
  BY <1>2 DEF AnsweredOK, Waits
<1>3. CASE Stranded(c)
  <2>1. Stranded(c)'
    BY <1>3 DEF Stranded, Waits, Datagrams
  <2>2. QED
    BY <1>3, <2>1 DEF AnsweredOK
<1>4. CASE \E m \in net : m.client = c
  <2>1. PICK m \in net : m.client = c /\ Form(m)
    BY <1>4 DEF AnswersOK
  <2>2. m \in net'
    BY <2>1
  <2>3. CASE m = Request(c, call[c])
    BY <2>1, <2>2, <2>3 DEF AnsweredOK
  <2>4. ASSUME NEW a, NEW b, Good(call[c], a, b), m = Reply(c, call[c], a, b) PROVE Answered'[c] = Answered[c]
    BY <2>1, <2>2, <2>4 DEF AnsweredOK
  <2>5. QED
    BY <2>1, <2>3, <2>4 DEF Form
<1>5. QED
  BY <1>1, <1>2, <1>3, <1>4 DEF Stranded, Datagrams

LEMMA AnswersAre ==
    /\ Answered = [c \in Client |-> Answered[c]] /\ Answered' = [c \in Client |-> Answered'[c]]
BY DEF Answered

-----------------------------------------------------------------------------
(* Each step is one of the tree that is elsewhere, or none that it knows   *)
(* of.                                                                     *)
LEMMA SameOutcomes == \A r : Remote!Outcomes(r) = Outcomes(r)
<1>1. Remote!T!Done = T!Done
  BY DEF Remote!T!Done, T!Done
<1>2. Remote!Shutdown = Shutdown /\ \A r : Remote!Long(r) = Long(r)
  BY DEF Remote!Long, Long, Remote!Shutdown, Shutdown
<1>3. \A r : Remote!T!Outcomes(r) = T!Outcomes(r)
  BY DEF Remote!T!Outcomes, Remote!T!Lookup, Remote!T!Stat, Remote!T!Read, Remote!T!Write, Remote!T!Creat,
         Remote!T!Unlink, Remote!T!Same, Remote!T!IsDir, Remote!T!IsFile, Remote!T!Called, Remote!T!Done,
         Remote!T!Written, Remote!T!File, Remote!T!Directory, Remote!T!NewFile, Remote!T!NewDirectory,
         Remote!T!Unused,
         T!Outcomes, T!Lookup, T!Stat, T!Read, T!Write, T!Creat, T!Unlink, T!Same, T!IsDir, T!IsFile,
         T!Called, T!Done, T!Written, T!File, T!Directory, T!NewFile, T!NewDirectory, T!Unused
<1>4. \A a : Remote!T!Same(a) = T!Same(a)
  BY DEF Remote!T!Same, T!Same
<1>5. QED
  BY <1>1, <1>2, <1>3, <1>4 DEF Remote!Outcomes, Outcomes

LEMMA RemoteInit == Init => Remote!Init
<1>1. Init => Answered = [c \in Client |-> None]
  BY DEF Init, Started, Answered, Serves, Replies, Stranded, Waits
<1>2. Init => Remote!T!Init
  BY DEF Init, T!Init, T!NewDirectory, T!Directory, Remote!T!Init, Remote!T!NewDirectory, Remote!T!Directory
<1>3. QED
  BY <1>1, <1>2 DEF Init, Remote!Init

(* A step that leaves all calls but one as they are.                       *)
LEMMA OneAnswer ==
    ASSUME NEW c \in Client, NEW a, Answered'[c] = a,
           \A d \in Client : d # c => Answered'[d] = Answered[d]
    PROVE  Answered' = [Answered EXCEPT ![c] = a]
BY AnswersAre

LEMMA RemoteSend ==
    ASSUME IInv, AnswersOK, AnsweredOK, AnsweredOK', NEW c \in Client, NEW r \in Requests, Send(c, r)
    PROVE  Remote!Begin(c, r)
<1>1. UNCHANGED <<tree, server>> /\ net' = net \cup {Request(c, r)} /\ call[c] = None
      /\ call' = [call EXCEPT ![c] = r] /\ result' = [result EXCEPT ![c] = None]
  BY DEF Send
<1>2. PICK m : m = Request(c, r) /\ m.client = c
  BY Forms
<1>3. call'[c] = r /\ \A d \in Client : d # c => call'[d] = call[d]
  BY <1>1 DEF IInv, CallOK
<1>4. Answered[c] = None
  BY <1>1 DEF AnsweredOK, Waits
<1>5. Request(c, call'[c]) \in net'
  BY <1>1, <1>3
<1>6. Answered'[c] = None
  <2>1. (Request(c, call[c]) \in net)'
    BY <1>5
  <2>2. QED
    BY <2>1 DEF AnsweredOK
<1>7. ASSUME NEW d \in Client, d # c PROVE Answered'[d] = Answered[d]
  <2>1. call'[d] = call[d] /\ (Serves(d)' <=> Serves(d)) /\ server'.res = server.res
    BY <1>1, <1>3, <1>7 DEF Serves
  <2>2. \A n : n.client = d => (n \in net' <=> n \in net)
    BY <1>1, <1>2, <1>7
  <2>3. QED
    BY <2>1, <2>2, SameAnswer
<1>8. Answered' = Answered
  BY <1>4, <1>6, <1>7, AnswersAre
<1>9. QED
  BY <1>1, <1>8 DEF Remote!Begin

LEMMA RemoteReceive ==
    ASSUME IInv, AnswersOK, AnsweredOK, AnsweredOK', NEW c \in Client, Receive(c)
    PROVE  Remote!Return(c)
<1>1. UNCHANGED <<tree, server>> /\ call[c] # None /\ call' = [call EXCEPT ![c] = None]
  BY DEF Receive
<1>2. PICK m \in Replies(c) : \E s \in Statuses(call[c].op, m.status) :
         /\ result' = [result EXCEPT ![c] = [status |-> s, out |-> Out(call[c].op, m)]]
         /\ net' = net \ {m}
  BY DEF Receive
<1>3. PICK s \in Statuses(call[c].op, m.status) :
         /\ result' = [result EXCEPT ![c] = [status |-> s, out |-> Out(call[c].op, m)]]
         /\ net' = net \ {m}
  BY <1>2
<1>4. m \in net /\ m.client = c /\ "status" \in DOMAIN m
  BY DEF Replies
<1>5. PICK a, b : Good(call[c], a, b) /\ m = Reply(c, call[c], a, b)
  BY <1>4, Forms DEF AnswersOK, Form
<1>6. Answered[c] = a
  BY <1>4, <1>5 DEF AnsweredOK
<1>7. call[c] \in Requests
  BY <1>1 DEF IInv, CallOK
<1>8. a # None /\ a # Lost
  BY <1>5, <1>7, FitsFound DEF Good
<1>9. [status |-> s, out |-> Out(call[c].op, m)] \in Remote!Results(call[c], a)
  BY <1>5, <1>7, ReplyReturns
<1>10. call'[c] = None /\ \A d \in Client : d # c => call'[d] = call[d]
  BY <1>1 DEF IInv, CallOK
<1>11. Answered'[c] = None
  BY <1>10 DEF AnsweredOK, Waits
<1>12. ASSUME NEW d \in Client, d # c PROVE Answered'[d] = Answered[d]
  <2>1. call'[d] = call[d] /\ (Serves(d)' <=> Serves(d)) /\ server'.res = server.res
    BY <1>1, <1>10, <1>12 DEF Serves
  <2>2. \A n : n.client = d => (n \in net' <=> n \in net)
    BY <1>3, <1>4, <1>12
  <2>3. QED
    BY <2>1, <2>2, SameAnswer
<1>13. Answered' = [Answered EXCEPT ![c] = None]
  BY <1>11, <1>12, OneAnswer
<1>14. QED
  BY <1>1, <1>3, <1>6, <1>8, <1>9, <1>13 DEF Remote!Return

LEMMA RemoteServe ==
    ASSUME IInv, AnswersOK, AnsweredOK, AnsweredOK', NEW c \in Client, Serve(c)
    PROVE  Remote!TakeEffect(c)
<1>0. PICK m \in net : m.client = c /\ IsRequest(m) /\ \E o \in Outcomes(m.request) :
         /\ tree' = o.tree /\ net' = net \ {m}
         /\ server' = [server EXCEPT !.pc = "reply", !.addr = c, !.request = m.request, !.res = o.reply,
                                     !.rw_buf = Buffer(m.request, o.reply)]
  BY DEF Serve, IsRequest
<1>1. PICK o \in Outcomes(m.request) :
         /\ tree' = o.tree /\ net' = net \ {m}
         /\ server' = [server EXCEPT !.pc = "reply", !.addr = c, !.request = m.request, !.res = o.reply,
                                     !.rw_buf = Buffer(m.request, o.reply)]
  BY <1>0
<1>2. server'.pc = "reply" /\ server'.addr = c /\ server'.res = o.reply
  BY <1>1 DEF IInv, ServerOK
<1>3. server.pc = "loop" /\ UNCHANGED <<call, result>>
  BY DEF Serve
<1>4. m.request = call[c] /\ call[c] # None
  BY <1>0 DEF IInv, NetOK, Matches
<1>5. m = Request(c, call[c])
  BY <1>0, Forms DEF AnswersOK, Form
<1>6. Answered[c] = None
  BY <1>5 DEF AnsweredOK
<1>7. Answered'[c] = o.reply
  BY <1>2 DEF AnsweredOK, Serves
<1>8. ASSUME NEW d \in Client, d # c PROVE Answered'[d] = Answered[d]
  <2>1. call'[d] = call[d] /\ (Serves(d)' <=> Serves(d)) /\ ~Serves(d)
    BY <1>2, <1>3, <1>8 DEF Serves
  <2>2. \A n : n.client = d => (n \in net' <=> n \in net)
    BY <1>0, <1>1, <1>8
  <2>3. QED
    BY <2>1, <2>2, SameAnswer
<1>9. Answered' = [Answered EXCEPT ![c] = o.reply]
  BY <1>7, <1>8, OneAnswer
<1>10. o \in Remote!Outcomes(call[c])
  BY <1>4, SameOutcomes
<1>11. QED
  BY <1>1, <1>3, <1>4, <1>6, <1>9, <1>10 DEF Remote!TakeEffect

LEMMA RemoteResponds ==
    ASSUME IInv, AnswersOK, AnsweredOK, AnsweredOK', SendResp
    PROVE  UNCHANGED Remote!vars
<1>1. /\ UNCHANGED <<tree, call, result>> /\ net' = net \cup {Response} /\ server.pc = "reply"
      /\ server'.pc # "reply"
  BY DEF SendResp, Respond, Down, Started
<1>2. PICK c \in Client : c = server.addr
  BY <1>1 DEF IInv, ServerOK
<1>3. server.request = call[c] /\ Serves(c)
  BY <1>1, <1>2 DEF IInv, ServerOK, Serves
<1>4. Good(call[c], server.res, server.rw_buf)
  BY <1>1, <1>3 DEF AnswersOK
<1>5. PICK m : m = Response /\ m = Reply(c, call[c], server.res, server.rw_buf)
  BY <1>2, <1>3 DEF Response, Reply
<1>6. m.client = c
  BY <1>5, Forms
<1>7. ~Serves(c)' /\ \A d \in Client : d # c => ~Serves(d)
  BY <1>1, <1>2 DEF Serves
<1>8. Answered[c] = server.res
  BY <1>3 DEF AnsweredOK
<1>9. PICK a, b : a = server.res /\ b = server.rw_buf
  OBVIOUS
<1>10. Answered'[c] = a
  <2>1. Good(call[c], a, b)' /\ (Reply(c, call[c], a, b) \in net)'
    <3>1. Good(call[c], a, b) /\ m = Reply(c, call[c], a, b)
      BY <1>4, <1>5, <1>9
    <3>2. Reply(c, call[c], a, b)' = Reply(c, call[c], a, b) /\ (Good(call[c], a, b)' <=> Good(call[c], a, b))
      BY <1>1
    <3>3. m \in net'
      BY <1>1, <1>5
    <3>4. QED
      BY <3>1, <3>2, <3>3
  <2>2. QED
    BY <2>1 DEF AnsweredOK
<1>11. ASSUME NEW d \in Client, d # c PROVE Answered'[d] = Answered[d]
  <2>1. call'[d] = call[d] /\ (Serves(d)' <=> Serves(d)) /\ ~Serves(d)
    BY <1>1, <1>7, <1>11 DEF Serves
  <2>2. \A n : n.client = d => (n \in net' <=> n \in net)
    BY <1>1, <1>5, <1>6, <1>11
  <2>3. QED
    BY <2>1, <2>2, SameAnswer
<1>12. Answered' = Answered
  BY <1>8, <1>9, <1>10, <1>11, AnswersAre
<1>13. QED
  BY <1>1, <1>12 DEF Remote!vars

LEMMA RemoteLose ==
    ASSUME IInv, AnswersOK, AnsweredOK, AnsweredOK', Lose
    PROVE  \E c \in Client : Remote!Lose(c)
<1>1. UNCHANGED <<tree, server, call, result>>
  BY DEF Lose
<1>2. PICK m \in net : net' = net \ {m}
  BY DEF Lose
<1>3. PICK c \in Client : c = m.client
  BY DEF IInv, NetOK
<1>4. call[c] # None /\ ~Serves(c)
  BY <1>3 DEF IInv, NetOK
<1>5. \A n \in net' : n.client # c
  BY <1>2, <1>3 DEF IInv, NetOK
<1>6. Stranded(c)'
  BY <1>1, <1>4, <1>5 DEF Stranded, Waits, Datagrams, Serves
<1>7. Answered'[c] = Lost
  BY <1>6 DEF AnsweredOK
<1>8. ASSUME NEW d \in Client, d # c PROVE Answered'[d] = Answered[d]
  <2>1. call'[d] = call[d] /\ (Serves(d)' <=> Serves(d)) /\ server'.res = server.res
    BY <1>1 DEF Serves
  <2>2. \A n : n.client = d => (n \in net' <=> n \in net)
    BY <1>2, <1>3, <1>8
  <2>3. QED
    BY <2>1, <2>2, SameAnswer
<1>9. Answered' = [Answered EXCEPT ![c] = Lost]
  BY <1>7, <1>8, OneAnswer
<1>10. QED
  BY <1>1, <1>4, <1>9 DEF Remote!Lose

LEMMA RemoteKill ==
    ASSUME IInv, AnswersOK, AnsweredOK, AnsweredOK', Kill \/ Restart
    PROVE  UNCHANGED Remote!vars \/ \E c \in Client : Remote!Lose(c)
<1>1. UNCHANGED <<tree, net, call, result>> /\ server'.pc # "reply"
  BY DEF Kill, Restart, Down, Started
<1>2. ASSUME NEW d \in Client, ~Serves(d) PROVE Answered'[d] = Answered[d]
  <2>1. call'[d] = call[d] /\ (Serves(d)' <=> Serves(d))
    BY <1>1, <1>2 DEF Serves
  <2>2. \A n : n.client = d => (n \in net' <=> n \in net)
    BY <1>1
  <2>3. QED
    BY <1>2, <2>1, <2>2, SameAnswer
<1>3. CASE server.pc = "reply"
  <2>1. PICK c \in Client : c = server.addr
    BY <1>3 DEF IInv, ServerOK
  <2>2. Serves(c) /\ \A d \in Client : d # c => ~Serves(d)
    BY <1>3, <2>1 DEF Serves
  <2>3. call[c] # None /\ \A m \in net : m.client # c
    BY <2>2 DEF IInv, ServerOK, NetOK
  <2>4. Stranded(c)'
    BY <1>1, <2>3 DEF Stranded, Waits, Datagrams, Serves
  <2>5. Answered'[c] = Lost
    BY <2>4 DEF AnsweredOK
  <2>6. Answered' = [Answered EXCEPT ![c] = Lost]
    BY <1>2, <2>2, <2>5, OneAnswer
  <2>7. QED
    BY <1>1, <2>3, <2>6 DEF Remote!Lose
<1>4. CASE server.pc # "reply"
  <2>1. Answered' = Answered
    BY <1>2, <1>4, AnswersAre DEF Serves
  <2>2. QED
    BY <1>1, <2>1 DEF Remote!vars
<1>5. QED
  BY <1>3, <1>4

LEMMA RemoteStep ==
    IInv /\ AnswersOK /\ AnsweredOK /\ AnsweredOK' /\ [Next]_vars => [Remote!Next]_Remote!vars
<1> SUFFICES ASSUME IInv, AnswersOK, AnsweredOK, AnsweredOK', [Next]_vars
             PROVE  Remote!Next \/ UNCHANGED Remote!vars
  OBVIOUS
<1>1. CASE UNCHANGED vars
  <2>1. Answered' = Answered
    BY <1>1 DEF vars, Answered, Serves, Replies, Stranded, Waits, Datagrams, Meaning
  <2>2. QED
    BY <1>1, <2>1 DEF vars, Remote!vars
<1>2. ASSUME NEW c \in Client, (\E r \in Requests : Send(c, r)) \/ Receive(c) \/ Serve(c) PROVE Remote!Next
  BY <1>2, RemoteSend, RemoteReceive, RemoteServe DEF Remote!Next
<1>3. CASE Lose
  BY <1>3, RemoteLose DEF Remote!Next
<1>4. CASE Kill \/ Restart
  BY <1>4, RemoteKill DEF Remote!Next
<1>5. QED
  BY <1>1, <1>2, <1>3, <1>4, RemoteResponds DEF Next

(* Clients, network and server together are a tree that is elsewhere: a    *)
(* call takes effect once at most, before it returns, and one that has     *)
(* succeeded returns what the tree has answered to it and to no other,     *)
(* whatever is lost and whenever the server is killed.                     *)
THEOREM RemoteRefined == Spec => ImplementsRemoteTree
<1>1. IInv /\ AnswersOK => AnsweredOK
  BY AnsweredIs
<1>2. QED
  BY <1>1, Inductive, AnswersCorrect, RemoteInit, RemoteStep, PTL DEF Spec, ImplementsRemoteTree, Remote!Spec
=============================================================================
