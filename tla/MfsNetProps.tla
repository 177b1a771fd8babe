---------------------------- MODULE MfsNetProps ----------------------------
(***************************************************************************)
(* What the clients of MFS may rely on.                                    *)
(***************************************************************************)
EXTENDS MfsNet

CONSTANT Lost   \* the answer of a call that will not return

ASSUME LostAssumption == Lost \notin Found \cup {Fail, None}

Serves(c)    == server.pc = "reply" /\ server.addr = c
Datagrams(c) == {m \in net : m.client = c}

(* There is one request or one reply for a call, or the server is at it,   *)
(* and nothing for a client that waits for nothing.  Requests and replies  *)
(* have no numbers (mfs.c:83, :98), and it is this alone that keeps a late *)
(* reply from being taken for that of another call.                        *)
OneDatagramPerCall ==
    \A c \in Client :
        /\ Cardinality(Datagrams(c)) <= IF call[c] = None \/ Serves(c) THEN 0 ELSE 1
        /\ \A m \in Datagrams(c) : IF "request" \in DOMAIN m THEN m.request = call[c] ELSE m.func = call[c].op
        /\ Serves(c) => server.request = call[c]

Waits(c)    == call[c] # None
Stranded(c) == Waits(c) /\ Datagrams(c) = {} /\ ~Serves(c)

(* Each call returns, whatever it asks for, unless a datagram of its own or*)
(* the server is lost: what others lose does not hold it up, nor does a    *)
(* request that fails.                                                     *)
OnlyLossStrands ==
    /\ [][\A c \in Client : Stranded(c)' => Stranded(c) \/ Lose \/ Kill]_vars
    /\ <>[](server.pc # "down") => \A c \in Client : Waits(c) ~> (~Waits(c) \/ Stranded(c))

\* What a reply says of the tree.
Meaning(m) ==
    CASE m.status < 0 -> Fail
      [] m.status >= 0 /\ m.func = "lookup" -> [inum |-> m.status]
      [] m.status >= 0 /\ m.func = "stat"   -> m.stat
      [] m.status >= 0 /\ m.func = "read"   -> [data |-> IF m.dir THEN "dir" ELSE m.data]
      [] m.status >= 0 /\ m.func \notin {"lookup", "stat", "read"} -> T!Done

Answered ==
    [c \in Client |->
        CASE Serves(c)       -> server.res
          [] Replies(c) # {} -> Meaning(CHOOSE m \in Replies(c) : TRUE)
          [] Stranded(c)     -> Lost
          [] OTHER           -> None]

Remote == INSTANCE RemoteTree WITH answer <- Answered

(* Clients, network and server together are a tree that is elsewhere: no   *)
(* call takes effect twice, or after it has returned, and what a successful*)
(* one returns is what the tree has answered to it and to no other,        *)
(* whatever is lost and whenever the server is killed.  This promises less *)
(* than the tests of p5 demand.  A creat or unlink that fails returns some *)
(* negative number, which is -3, where they demand -1 (dirs.py:66, :160); a*)
(* read that fails may return 0, where write.py:149 demands -1, and puts   *)
(* into the buffer what another client has read or written (server.c:102), *)
(* as a successful read of a directory does; and all of it stands on       *)
(* MfsTree, which the server implements for names that the checkpoint      *)
(* region does not spell.                                                  *)
ImplementsRemoteTree == Remote!Spec
=============================================================================
