--------------------------- MODULE WebServerProps ---------------------------
(***************************************************************************)
(* What the web server of WebServer promises.                              *)
(***************************************************************************)
EXTENDS WebServer

Busy == {w \in Worker : pc[w] \in {"handle", "spin", "cgi", "close"}}

Awake == {w \in Worker : pc[w] \in {"lock", "locked"}}

(* The mutex m is held by whoever is inside its critical section, and by   *)
(* nobody else (server.c: every Pthread_mutex_lock has its unlock or wait).*)
MutexHeld ==
    /\ m = Main <=> mainPc \in {"locked", "parse"}
    /\ \A w \in Worker : m = w <=> pc[w] = "locked"

(* A thread's local variable holds a connection from the moment the thread *)
(* gets hold of one until it hands it over or closes it.                   *)
LocalsSet ==
    /\ mainFd = None <=> mainPc = "accept"
    /\ \A w \in Worker : fd[w] = None <=> w \notin Busy

(* The master never writes beyond the arrays it allocated, even when it is *)
(* woken without a signal or another wakeup comes first (server.c:302).    *)
CapacityRespected == Len(connfd) <= BufferSize

(* No signal on full is lost: while a worker sleeps in cond_wait, there is *)
(* an awake worker, on its way to look at tail, for each queued request.   *)
(* One signal per request is enough because each moves one sleeper.        *)
NoLostSignalFull == Waiting # {} => Len(connfd) <= Cardinality(Awake)

(* No signal on empty is lost: the master sleeps only while the buffer is  *)
(* full, so a worker's do_get always wakes it.                             *)
NoLostSignalEmpty == mainPc = "waitEmpty" => BufferFull

(* There is a child for each worker blocked in Wait(NULL), although any of *)
(* them may reap the CGI process another one forked: wait never fails with *)
(* ECHILD, which would end the server, and no zombie is left behind.       *)
EveryWaitHasAChild ==
    Cardinality({w \in Worker : pc[w] = "cgi"}) = running + zombies

-----------------------------------------------------------------------------
(* The requests that wait for a worker, oldest first, when the policy is   *)
(* FIFO: those in the buffer, the one the master holds, the kernel's.      *)
Holding == IF mainFd = None THEN <<>> ELSE <<mainFd>>

Service == INSTANCE RequestQueue WITH
    Request <- Conn,
    Servers <- Cardinality(Worker),
    Window  <- IF SchedAlg = "FIFO" THEN 1 ELSE BufferSize,
    queue   <- connfd \o Holding \o backlog,
    serving <- {fd[w] : w \in Busy}

(* The server implements the request queue: it loses, invents and repeats  *)
(* no request, and under FIFO takes them in the order in which they arrived*)
(* whatever the interleaving of master, workers and wakeups.               *)
ImplementsRequestQueue == Service!Spec

AllSpin == \A w \in Worker : pc[w] = "spin"

(* Every client that connects is answered and closed, or has itself hung   *)
(* up before its request was complete, under FIFO (SFNF and SFF can starve *)
(* a request), while the server is up and has a worker left that does not  *)
(* spin in requestReadhdrs (request.c:48) for a client that hung up there: *)
(* nothing else that a client does stops the service of the others for     *)
(* good.  This assumes that no client is silent for ever in the middle of a*)
(* request (ClientsComplete): the worker that reads its headers, or the    *)
(* master with the mutex in parseFile, would wait for it for ever.         *)
EveryClientAnswered ==
    \A c \in Conn :
        client[c] # "absent" ~> client[c] \in {"absent", "cut"} \/ AllSpin \/ ~up
=============================================================================
