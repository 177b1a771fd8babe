----------------------------- MODULE RemoteTree -----------------------------
(***************************************************************************)
(* What the MFS library promises to the programs that call it: a tree that *)
(* is elsewhere.  A call takes effect once, between its begin and its      *)
(* return, or it never returns and takes effect at most once; and a call   *)
(* that has succeeded returns what the tree answered to it.  Of a call that*)
(* has failed the library promises little (Results).                       *)
(***************************************************************************)
EXTENDS Integers

CONSTANTS
    Client, Inum, Block, Name, Dot, DotDot, Data, DirCapacity,
    TooLong,    \* a name that is refused
    Requests,
    Junk,       \* what is in memory where nothing has been written
    Fail, None,
    Lost        \* the answer of a call that never returns

VARIABLES
    tree,
    call,       \* the call each client has begun
    answer,     \* what the tree has answered to it
    result      \* what the client's last call returned

vars == <<tree, call, answer, result>>

T == INSTANCE MfsTree WITH call <- None, reply <- None

Long(r) == "name" \in DOMAIN r /\ r.name = TooLong

Shutdown == [op |-> "shutdown"]

\* What becomes of the tree, and its answer.
Outcomes(r) ==
    CASE Long(r)      -> T!Same(Fail)
      [] r = Shutdown -> T!Same(T!Done)
      [] OTHER        -> T!Outcomes(r)

Result(statuses, outs) == [status : statuses, out : outs]

(* The status of a call that has failed.  The tests demand -1: of creat    *)
(* (dirs.py:66, :182, complex.py:322), unlink (dirs.py:160), lookup        *)
(* (dirs.py:111), write (dirs.py:87, write.py:142) and read (write.py:149).*)
(* The library keeps that for two functions only, promises a negative      *)
(* number for three, and for MFS_Read not even that: its caller cannot tell*)
(* a failure from a success, with anybody's block in the buffer.           *)
Negative == -9 .. -1
Failures(op) ==
    CASE op \in {"lookup", "write"}         -> {-1}
      [] op \in {"stat", "creat", "unlink"} -> Negative
      [] op = "read"                        -> {0} \cup Negative

AnyBlock == Data \cup {Junk}

(* What a call may return.  The buffer holds anybody's block, too, after   *)
(* the read of a directory.                                                *)
Results(r, a) ==
    CASE a = Fail -> Result(Failures(r.op), IF r.op = "read" THEN AnyBlock ELSE {None})
      [] r.op = "read" /\ a # Fail -> Result(0 .. 1, IF a.data = "dir" THEN AnyBlock ELSE {a.data})
      [] r.op = "lookup" /\ a # Fail -> Result({a.inum}, {None})
      [] r.op = "stat" /\ a # Fail   -> Result({0}, {a})
      [] r.op \notin {"lookup", "stat", "read"} /\ a # Fail -> Result({0}, {None})

Init ==
    /\ T!Init
    /\ call = [c \in Client |-> None] /\ answer = [c \in Client |-> None]
    /\ result = [c \in Client |-> None]

Begin(c, r) ==
    /\ call[c] = None
    /\ call' = [call EXCEPT ![c] = r] /\ result' = [result EXCEPT ![c] = None]
    /\ UNCHANGED <<tree, answer>>

TakeEffect(c) ==
    /\ call[c] # None /\ answer[c] = None
    /\ \E o \in Outcomes(call[c]) : tree' = o.tree /\ answer' = [answer EXCEPT ![c] = o.reply]
    /\ UNCHANGED <<call, result>>

Return(c) ==
    /\ answer[c] \notin {None, Lost}
    /\ \E v \in Results(call[c], answer[c]) : result' = [result EXCEPT ![c] = v]
    /\ call' = [call EXCEPT ![c] = None] /\ answer' = [answer EXCEPT ![c] = None]
    /\ UNCHANGED tree

\* The request, the answer, or the server in between, is lost.
Lose(c) ==
    /\ call[c] # None
    /\ answer' = [answer EXCEPT ![c] = Lost]
    /\ UNCHANGED <<tree, call, result>>

Next == \E c \in Client : (\E r \in Requests : Begin(c, r)) \/ TakeEffect(c) \/ Return(c) \/ Lose(c)

Spec == Init /\ [][Next]_vars
=============================================================================
