------------------------------- MODULE MfsNet -------------------------------
(***************************************************************************)
(* The clients and the server of MFS with the datagrams between them: the  *)
(* library mfs.c, the loop of server.c and its parser.c over udp.c.  What  *)
(* the routines of the server do to the tree is that of MfsTree, which     *)
(* MfsDisk implements.                                                     *)
(*                                                                         *)
(* The network may lose datagrams and take its time; it neither repeats nor*)
(* alters them.  The server may be killed and started again.               *)
(***************************************************************************)
EXTENDS Integers, FiniteSets

CONSTANTS
    Client, Inum, Block, Name, Dot, DotDot, Data, DirCapacity,
    TooLong,    \* a name that the parser finds too long
    Requests,   \* what the clients may call for
    Junk,       \* what is in memory where nothing has been written
    Fail, None

VARIABLES
    tree,       \* what is on the disk
    net,        \* the datagrams on their way
    server,     \* where the server is, whom it serves, its rw_buf
    call,       \* the call each client waits for in recvfrom
    result      \* what its last call returned

vars == <<tree, net, server, call, result>>

T == INSTANCE MfsTree WITH call <- None, reply <- None

Long(r) == "name" \in DOMAIN r /\ r.name = TooLong

Shutdown == [op |-> "shutdown"]

(* What there is to call for, and what the server may answer.              *)
Callable ==
         {Shutdown}
    \cup [op : {"lookup", "unlink"}, inum : Int, name : Name \cup {Dot, DotDot, TooLong}]
    \cup [op : {"stat"}, inum : Int]
    \cup [op : {"read"}, inum : Int, block : Int]
    \cup [op : {"write"}, inum : Int, block : Int, data : Data]
    \cup [op : {"creat"}, inum : Int, name : Name \cup {Dot, DotDot, TooLong}, type : {"dir", "file"}]

Found == {T!Done} \cup [inum : Inum] \cup [type : {"dir", "file"}, size : Nat] \cup [data : Data \cup {"dir"}]

ASSUME RequestsAssumption == Requests \subseteq Callable /\ None \notin Requests \cup Client

ASSUME AnswersAssumption ==
    /\ Inum \subseteq Nat /\ 0 \in Inum /\ IsFiniteSet(Block)
    /\ Fail # None /\ None \notin Data
    /\ Fail \notin Found /\ None \notin Found

(* rw_buf is a local of the loop: it keeps what the last request left in   *)
(* it, and is not initialized when the server starts.                      *)
Started == [pc |-> "loop", addr |-> None, request |-> None, res |-> None, rw_buf |-> Junk]
Down    == [Started EXCEPT !.pc = "down"]

Init ==
    /\ T!Init
    /\ net = {} /\ server = Started
    /\ call = [c \in Client |-> None] /\ result = [c \in Client |-> None]

-----------------------------------------------------------------------------
(* The library: a request is sent, and the reply waited for without end.   *)

Request(c, r) == [client |-> c, request |-> r]

Send(c, r) ==
    /\ call[c] = None
    /\ call' = [call EXCEPT ![c] = r] /\ result' = [result EXCEPT ![c] = None]
    /\ net' = net \cup {Request(c, r)}
    /\ UNCHANGED <<tree, server>>

\* The status is printed as a number, 0 or -1, and read again as the first
\* character of the number minus '0'.
FirstCharacter(status) == IF status < 0 THEN 45 - 48 ELSE status

\* MFS_Read converts the first character and one that it has not written: if
\* this is a digit (1 stands for all), it counts.
TwoCharacters(status) == IF status < 0 THEN {0, -1} ELSE {status, 10 * status + 1}

Statuses(op, status) ==
    CASE op \in {"lookup", "write"}         -> {status}
      [] op \in {"stat", "creat", "unlink"} -> {FirstCharacter(status)}
      [] op = "read"                        -> TwoCharacters(status)
      [] op = "shutdown"                    -> {0}

\* What the caller of MFS_Stat and MFS_Read finds where the result goes; a
\* failed MFS_Stat leaves something there that is not modelled.
Out(op, m) ==
    CASE op = "read"                     -> m.data
      [] op = "stat" /\ m.status = 0     -> m.stat
      [] op # "read" /\ (op = "stat" => m.status # 0) -> None

\* Mutant: a timeout, after which the reply is still to come.
TimeOut(c) ==
    /\ call[c] # None
    /\ result' = [result EXCEPT ![c] = [status |-> -1, out |-> None]]
    /\ call' = [call EXCEPT ![c] = None]
    /\ UNCHANGED <<tree, net, server>>

Replies(c) == {m \in net : m.client = c /\ "status" \in DOMAIN m}

\* Only a printf tells of a reply to another function.
Receive(c) ==
    /\ call[c] # None
    /\ \E m \in Replies(c) : \E s \in Statuses(call[c].op, m.status) :
         /\ result' = [result EXCEPT ![c] = [status |-> s, out |-> Out(call[c].op, m)]]
         /\ net' = net \ {m}
    /\ call' = [call EXCEPT ![c] = None]
    /\ UNCHANGED <<tree, server>>

-----------------------------------------------------------------------------
(* The loop of the server.                                                 *)

Outcomes(r) ==
    CASE Long(r)      -> T!Same(Fail)
      [] r = Shutdown -> T!Same(T!Done)
      [] OTHER        -> T!Outcomes(r)

\* Mutant: S_Read of a file leaves rw_buf as it is, as that of a directory.
NotCopied(r, res) == IF r.op = "write" THEN r.data ELSE server.rw_buf

\* Write_parse copies the data of the request, S_Read the block of a file.
Buffer(r, res) ==
    CASE r.op = "write" -> r.data
      [] r.op = "read" /\ res # Fail -> IF res.data = "dir" THEN server.rw_buf ELSE res.data
      [] r.op # "write" /\ (r.op = "read" => res = Fail) -> server.rw_buf

\* UDP_Read, the parser, and the routine for the request.
Serve(c) ==
    /\ server.pc = "loop"
    /\ \E m \in {n \in net : n.client = c /\ "request" \in DOMAIN n} :
       \E o \in Outcomes(m.request) :
         /\ tree' = o.tree
         /\ server' = [server EXCEPT !.pc = "reply", !.addr = c, !.request = m.request, !.res = o.reply,
                                     !.rw_buf = Buffer(m.request, o.reply)]
         /\ net' = net \ {m}
    /\ UNCHANGED <<call, result>>

\* The reply says which function it is of, the status, what stat has found
\* and what is in rw_buf when a block is read.
Status(r, res) ==
    CASE res = Fail -> -1
      [] r.op = "lookup" /\ res # Fail -> res.inum
      [] r.op # "lookup" /\ res # Fail -> 0

Response ==
    LET r == server.request IN
    [client |-> server.addr, func |-> r.op, status |-> Status(r, server.res),
     stat |-> IF r.op = "stat" /\ server.res # Fail THEN server.res ELSE None,
     dir  |-> r.op = "read" /\ server.res = [data |-> "dir"],
     data |-> IF r.op = "read" THEN server.rw_buf ELSE None]

RespondIfDone == net' = IF server.res = Fail THEN net ELSE net \cup {Response}
Respond       == net' = net \cup {Response}

\* The server goes on with the next request; or it has been shut down.
SendResp ==
    /\ server.pc = "reply"
    /\ Respond
    /\ server' = IF server.request = Shutdown
                 THEN Down
                 ELSE [Started EXCEPT !.rw_buf = server.rw_buf]
    /\ UNCHANGED <<tree, call, result>>

-----------------------------------------------------------------------------
(* The world.                                                              *)

Lose ==
    /\ \E m \in net : net' = net \ {m}
    /\ UNCHANGED <<tree, server, call, result>>

Kill ==
    /\ server.pc # "down" /\ server' = Down
    /\ UNCHANGED <<tree, net, call, result>>

Restart ==
    /\ server.pc = "down" /\ server' = Started
    /\ UNCHANGED <<tree, net, call, result>>

Next ==
    \/ \E c \in Client : (\E r \in Requests : Send(c, r)) \/ Receive(c) \/ Serve(c)
    \/ SendResp
    \/ Lose \/ Kill \/ Restart

Spec == Init /\ [][Next]_vars

(* The server takes the datagrams from its socket in their order, so that  *)
(* each is served in the end; and a client that waits gets what comes.     *)
Fairness ==
    /\ WF_vars(SendResp)
    /\ \A c \in Client : SF_vars(Serve(c)) /\ WF_vars(Receive(c))

FairSpec == Spec /\ Fairness
=============================================================================
