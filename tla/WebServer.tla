------------------------------ MODULE WebServer ------------------------------
(***************************************************************************)
(* The multithreaded web server of p4/linux/v2 (server.c, request.c): one  *)
(* master thread accepts connections and puts them into a bounded buffer,  *)
(* a fixed pool of worker threads takes them out, in the order of a        *)
(* scheduling policy, and answers them.  Master and workers share connfd[],*)
(* req[] and tail under the mutex m and the condition variables empty and  *)
(* full.  The clients are the environment.                                 *)
(*                                                                         *)
(* A connection stands for its file descriptor: a member of Conn may       *)
(* connect again once it has been closed.                                  *)
(* connfd[0..tail-1] is the sequence connfd, so tail is Len(connfd); the   *)
(* array req[] is longer lived, it is indexed 1..BufferSize and keeps what *)
(* was last written to a slot.                                             *)
(***************************************************************************)
EXTENDS Naturals, FiniteSets, SequencesExt

CONSTANTS
    Worker,       \* the worker threads
    Conn,         \* connections, told apart by their descriptors
    BufferSize,   \* buffer_size, the third command line argument
    SchedAlg,     \* sched_alg: "FIFO", "SFNF" or "SFF"
    Size,         \* the sizes of the files there are
    NoFile,       \* the size of a file that does not exist
    NotGet,       \* instead of a size: a request whose method is not GET
    Asked,        \* what clients ask for, of these
    Main,         \* the master thread
    None,         \* no thread, connection or request, a slot never written
    MaxSpurious   \* bound: spurious wakeups of the condition variables

ASSUME ServerAssumption ==
    /\ IsFiniteSet(Worker) /\ Worker # {}
    /\ IsFiniteSet(Conn)
    /\ BufferSize \in Nat \ {0}
    /\ SchedAlg \in {"FIFO", "SFNF", "SFF"}
    /\ Size \subseteq Nat /\ Size # {}
    /\ Asked \subseteq Size \cup {NoFile, NotGet}
    /\ NoFile \notin Size /\ NotGet \notin Size /\ NoFile # NotGet
    /\ Main \notin Worker
    /\ None \notin Worker \cup Conn \cup Size \cup {Main, NoFile, NotGet}
    /\ MaxSpurious \in Nat

VARIABLES
    client,     \* what each client has done so far
    size,       \* the size of the file each client asks for
    backlog,    \* connections the kernel has queued on listenfd
    m,          \* the thread that holds the mutex m
    connfd,     \* connfd[0 .. tail-1]
    req,        \* req[i].filesize of each slot of the buffer
    mainPc,     \* where the master thread is
    mainFd,     \* its local variable dummy
    pc,         \* where each worker thread is
    fd,         \* each worker's local variable filedesc
    running,    \* the CGI processes that run
    zombies,    \* those that have exited and nobody has waited for
    spurious,   \* spurious wakeups so far
    up          \* the server process is running

clients == <<client, size>>
buffer  == <<connfd, req>>
main    == <<mainPc, mainFd>>
workers == <<pc, fd>>
children == <<running, zombies>>
vars    == <<clients, backlog, m, buffer, main, workers, children, spurious, up>>

(* A client is connected, has sent the request line, has sent the headers  *)
(* and the empty line after them as well; it hung up before the request was*)
(* complete ("cut"), or after it ("gone").                                 *)
ClientState == {"absent", "connected", "line", "sent", "cut", "gone"}
MainPc      == {"accept", "lock", "locked", "waitEmpty", "parse"}
WorkerPc    == {"lock", "locked", "waitFull", "handle", "spin", "cgi", "close"}

(* The variables hold values of their types. *)
TypeOK ==
    /\ client \in [Conn -> ClientState]
    /\ size \in [Conn -> Size \cup {NoFile, NotGet, None}]
    /\ backlog \in Seq(Conn)
    /\ m \in Worker \cup {Main, None}
    /\ connfd \in Seq(Conn)
    /\ req \in [1 .. BufferSize -> Size \cup {None}]
    /\ mainPc \in MainPc
    /\ mainFd \in Conn \cup {None}
    /\ pc \in [Worker -> WorkerPc]
    /\ fd \in [Worker -> Conn \cup {None}]
    /\ running \in Nat /\ zombies \in Nat
    /\ spurious \in 0 .. MaxSpurious
    /\ up \in BOOLEAN

Init ==
    /\ client = [c \in Conn |-> "absent"]
    /\ size = [c \in Conn |-> None]
    /\ backlog = <<>>
    /\ m = None
    /\ connfd = <<>>
    /\ req = [i \in 1 .. BufferSize |-> None]
    /\ mainPc = "accept"
    /\ mainFd = None
    /\ pc = [w \in Worker |-> "lock"]
    /\ fd = [w \in Worker |-> None]
    /\ running = 0 /\ zombies = 0
    /\ spurious = 0
    /\ up = TRUE

-----------------------------------------------------------------------------
(* The clients.  A client connects, sends the first line of its request,   *)
(* for a file of some size, then the headers with the empty line that ends *)
(* them, and may hang up at any time before it is answered.                *)

ClientConnect(c) ==
    /\ client[c] = "absent"
    /\ client' = [client EXCEPT ![c] = "connected"]
    /\ backlog' = Append(backlog, c)
    /\ UNCHANGED <<size, m, buffer, main, workers, children, spurious, up>>

ClientAsk(c) ==
    /\ client[c] = "connected"
    /\ client' = [client EXCEPT ![c] = "line"]
    /\ \E s \in Asked : size' = [size EXCEPT ![c] = s]
    /\ UNCHANGED <<backlog, m, buffer, main, workers, children, spurious, up>>

ClientSend(c) ==
    /\ client[c] = "line"
    /\ client' = [client EXCEPT ![c] = "sent"]
    /\ UNCHANGED <<size, backlog, m, buffer, main, workers, children, spurious, up>>

ClientHangUp(c) ==
    /\ client[c] \in {"connected", "line", "sent"}
    /\ client' = [client EXCEPT ![c] = IF client[c] = "sent" THEN "gone" ELSE "cut"]
    /\ UNCHANGED <<size, backlog, m, buffer, main, workers, children, spurious, up>>

-----------------------------------------------------------------------------
(* The mutex and the condition variables. *)

Lock(t) == m = None /\ m' = t

Unlock(t) == m = t /\ m' = None

Waiting == {w \in Worker : pc[w] = "waitFull"}

\* Mutants: a forgotten signal on empty; a signal on full only when a request
\* comes into an empty buffer.
NoSignal == mainPc' = mainPc
SignalFirst ==
    \/ (Waiting = {} \/ connfd # <<>>) /\ pc' = pc
    \/ connfd = <<>> /\ \E w \in Waiting : pc' = [pc EXCEPT ![w] = "lock"]

(* pthread_cond_signal(&empty): the master thread, the only one that waits *)
(* on empty, wakes and has to take the mutex again.                        *)
SignalEmpty == mainPc' = IF mainPc = "waitEmpty" THEN "lock" ELSE mainPc

(* pthread_cond_signal(&full): one of the waiting workers, if there is any,*)
(* wakes and has to take the mutex again.                                  *)
SignalFull ==
    \/ Waiting = {} /\ pc' = pc
    \/ \E w \in Waiting : pc' = [pc EXCEPT ![w] = "lock"]

-----------------------------------------------------------------------------
(* The master thread: main(). *)

Accept ==
    /\ mainPc = "accept" /\ backlog # <<>>
    /\ mainFd' = Head(backlog)
    /\ backlog' = Tail(backlog)
    /\ mainPc' = "lock"
    /\ UNCHANGED <<clients, m, buffer, workers, children, spurious, up>>

MainLock ==
    /\ mainPc = "lock" /\ Lock(Main)
    /\ mainPc' = "locked"
    /\ UNCHANGED <<clients, backlog, buffer, mainFd, workers, children, spurious, up>>

\* Mutant: an off-by-one in the test for room.
BufferOverfull == Len(connfd) > BufferSize

(* while(tail >= buffer_size): the buffer has no room. *)
BufferFull == Len(connfd) >= BufferSize

MainWait ==
    /\ mainPc = "locked" /\ BufferFull
    /\ mainPc' = "waitEmpty" /\ Unlock(Main)
    /\ UNCHANGED <<clients, backlog, buffer, mainFd, workers, children, spurious, up>>

MainRoom ==
    /\ mainPc = "locked" /\ ~BufferFull
    /\ mainPc' = "parse"
    /\ UNCHANGED <<clients, backlog, m, buffer, mainFd, workers, children, spurious, up>>

(* The file size parseFile leaves in req[tail]: what stat says of the file *)
(* the request names.  When the file does not exist, or the client hung up *)
(* (perhaps before it sent anything), stat fails or asks for any file, and *)
(* filesize is what lay in uninitialised memory: it can be any size.       *)
ParsedSize(c) ==
    IF client[c] \in {"line", "sent"} /\ size[c] \in Size THEN {size[c]} ELSE Size

(* parseFile blocks in recv(MSG_PEEK), with m held, until the client has   *)
(* sent its request line or hung up; then the connection is put at the     *)
(* tail.                                                                   *)
MainPut ==
    /\ mainPc = "parse" /\ client[mainFd] # "connected"
    /\ \E s \in ParsedSize(mainFd) : req' = [req EXCEPT ![Len(connfd) + 1] = s]
    /\ connfd' = Append(connfd, mainFd)
    /\ SignalFull
    /\ Unlock(Main)
    /\ mainPc' = "accept" /\ mainFd' = None
    /\ UNCHANGED <<clients, backlog, fd, children, spurious, up>>

MainSpurious ==
    /\ mainPc = "waitEmpty" /\ spurious < MaxSpurious
    /\ mainPc' = "lock" /\ spurious' = spurious + 1
    /\ UNCHANGED <<clients, backlog, m, buffer, mainFd, workers, children, up>>

-----------------------------------------------------------------------------
(* The worker threads: worker_routine() and requestHandle(). *)

WorkerLock(w) ==
    /\ pc[w] = "lock" /\ Lock(w)
    /\ pc' = [pc EXCEPT ![w] = "locked"]
    /\ UNCHANGED <<clients, backlog, buffer, main, fd, children, spurious, up>>

(* while(tail == 0) *)
BufferEmpty == connfd = <<>>

WorkerWait(w) ==
    /\ pc[w] = "locked" /\ BufferEmpty
    /\ pc' = [pc EXCEPT ![w] = "waitFull"] /\ Unlock(w)
    /\ UNCHANGED <<clients, backlog, buffer, main, fd, children, spurious, up>>

\* Mutant: the newest request is served first.
SelectNewest == {Len(connfd)}

(* The index do_get selects.  SFF keeps the last of the smallest sizes.    *)
(* SFNF compares the lengths of filenames that lie in a buffer parseFile   *)
(* has already freed: what it reads, and so the index, is arbitrary.       *)
Selected ==
    LET slots == 1 .. Len(connfd)
    IN  CASE SchedAlg = "FIFO" -> {1}
          [] SchedAlg = "SFNF" -> slots
          [] SchedAlg = "SFF"  ->
               {i \in slots : \A j \in slots :
                    req[i] < req[j] \/ (req[i] = req[j] /\ j <= i)}

\* Mutant: do_get forgets to shift connfd[] and to decrement tail.
GetWithoutShift(w) ==
    /\ pc[w] = "locked" /\ ~BufferEmpty
    /\ \E i \in Selected : fd' = [fd EXCEPT ![w] = connfd[i]]
    /\ SignalEmpty
    /\ pc' = [pc EXCEPT ![w] = "handle"] /\ Unlock(w)
    /\ UNCHANGED <<clients, backlog, buffer, mainFd, children, spurious, up>>

(* do_get shifts connfd[] over the slot it took, and leaves req[] alone.   *)
WorkerGet(w) ==
    /\ pc[w] = "locked" /\ ~BufferEmpty
    /\ \E i \in Selected :
         /\ fd' = [fd EXCEPT ![w] = connfd[i]]
         /\ connfd' = RemoveAt(connfd, i)
    /\ SignalEmpty
    /\ pc' = [pc EXCEPT ![w] = "handle"] /\ Unlock(w)
    /\ UNCHANGED <<clients, backlog, req, mainFd, children, spurious, up>>

WorkerSpurious(w) ==
    /\ pc[w] = "waitFull" /\ spurious < MaxSpurious
    /\ pc' = [pc EXCEPT ![w] = "lock"] /\ spurious' = spurious + 1
    /\ UNCHANGED <<clients, backlog, m, buffer, main, fd, children, up>>

(* SFNF calls strlen on file names that are NULL when the client sent none,*)
(* and that lie in freed memory: it can end the process.                   *)
GetCrash(w) ==
    /\ pc[w] = "locked" /\ ~BufferEmpty /\ SchedAlg = "SFNF"
    /\ up' = FALSE
    /\ UNCHANGED <<clients, backlog, m, buffer, main, workers, children, spurious>>

(* requestReadhdrs reads lines until an empty one.  At the end of the input*)
(* Rio_readlineb returns 0 and leaves the line before in buf, so the worker*)
(* compares that line again, for ever.                                     *)
Spin(w) ==
    /\ pc[w] = "handle" /\ client[fd[w]] = "cut" /\ size[fd[w]] # NotGet
    /\ pc' = [pc EXCEPT ![w] = "spin"]
    /\ UNCHANGED <<clients, backlog, m, buffer, main, fd, children, spurious, up>>

(* The input of a worker lets requestHandle go on: the headers have come,  *)
(* or the method is not GET and they are not read.  Of a request cut short *)
(* the buffers on the stack, never initialised, may say that it ended.     *)
RequestRead(w) == client[fd[w]] # "line" \/ size[fd[w]] = NotGet

(* requestHandle answers a static request, or an erroneous one, itself.    *)
ServeStatic(w) ==
    /\ pc[w] = "handle" /\ RequestRead(w)
    /\ pc' = [pc EXCEPT ![w] = "close"]
    /\ UNCHANGED <<clients, backlog, m, buffer, main, fd, children, spurious, up>>

(* For a dynamic request it forks a CGI process and waits.  What a client  *)
(* that sent nothing asks for is read from an uninitialised buffer.        *)
ServeDynamic(w) ==
    /\ pc[w] = "handle" /\ RequestRead(w)
    /\ size[fd[w]] \in Size \cup {None}
    /\ pc' = [pc EXCEPT ![w] = "cgi"]
    /\ running' = running + 1
    /\ UNCHANGED <<clients, backlog, m, buffer, main, fd, zombies, spurious, up>>

ChildExit ==
    /\ running > 0
    /\ running' = running - 1 /\ zombies' = zombies + 1
    /\ UNCHANGED <<clients, backlog, m, buffer, main, workers, spurious, up>>

\* Mutant: the worker does not wait for the CGI process.
ReapNobody(w) ==
    /\ pc[w] = "cgi"
    /\ pc' = [pc EXCEPT ![w] = "close"]
    /\ UNCHANGED <<clients, backlog, m, buffer, main, fd, children, spurious, up>>

(* Wait(NULL) returns when any child of the server process has exited, the *)
(* CGI process of another worker's request included.                       *)
Reap(w) ==
    /\ pc[w] = "cgi"
    /\ zombies > 0 /\ zombies' = zombies - 1
    /\ pc' = [pc EXCEPT ![w] = "close"]
    /\ UNCHANGED <<clients, backlog, m, buffer, main, fd, running, spurious, up>>

(* A read from or a write to a client that has hung up fails, or the file  *)
(* cannot be opened or mapped, like an empty one (Mmap of 0 bytes, which   *)
(* stands for these here): the wrapper ends the whole process.             *)
Die(w) ==
    /\ pc[w] = "handle" /\ RequestRead(w)
    /\ client[fd[w]] \in {"cut", "gone"} \/ size[fd[w]] = 0
    /\ up' = FALSE
    /\ UNCHANGED <<clients, backlog, m, buffer, main, workers, children, spurious>>

WorkerClose(w) ==
    /\ pc[w] = "close"
    /\ client' = [client EXCEPT ![fd[w]] = "absent"]
    /\ size' = [size EXCEPT ![fd[w]] = None]
    /\ fd' = [fd EXCEPT ![w] = None]
    /\ pc' = [pc EXCEPT ![w] = "lock"]
    /\ UNCHANGED <<backlog, m, buffer, main, children, spurious, up>>

-----------------------------------------------------------------------------
Client(c)  == ClientConnect(c) \/ ClientAsk(c) \/ ClientSend(c) \/ ClientHangUp(c)
MainStep   == Accept \/ MainLock \/ MainWait \/ MainRoom \/ MainPut \/ MainSpurious
WorkerStep(w) ==
    \/ WorkerLock(w) \/ WorkerWait(w) \/ WorkerGet(w) \/ WorkerSpurious(w)
    \/ GetCrash(w) \/ Spin(w) \/ ServeStatic(w) \/ ServeDynamic(w) \/ Reap(w) \/ Die(w)
    \/ WorkerClose(w)

Next ==
    /\ up
    /\ \/ \E c \in Conn : Client(c)
       \/ ChildExit
       \/ MainStep
       \/ \E w \in Worker : WorkerStep(w)

Spec == Init /\ [][Next]_vars

(* The kernel runs every thread that can run, and a thread blocked in      *)
(* wait() is woken at every child's exit and one day finds a zombie.  A    *)
(* thread that spins runs as well, and gets nowhere.  A CGI program ends.  *)
Fairness ==
    /\ WF_vars(up /\ (Accept \/ MainLock \/ MainWait \/ MainRoom \/ MainPut))
    /\ WF_vars(up /\ ChildExit)
    /\ \A w \in Worker :
         /\ WF_vars(up /\ (WorkerLock(w) \/ WorkerWait(w) \/ WorkerGet(w)))
         /\ WF_vars(up /\ (Spin(w) \/ ServeStatic(w) \/ ServeDynamic(w) \/ WorkerClose(w)))
         /\ SF_vars(up /\ Reap(w))

(* What the server's threads cannot bring about: no client stays silent in *)
(* the middle of its request for ever, it completes it or hangs up.        *)
ClientsComplete ==
    \A c \in Conn : WF_vars(up /\ (ClientAsk(c) \/ ClientSend(c) \/ ClientHangUp(c)))

FairSpec == Spec /\ Fairness /\ ClientsComplete
=============================================================================
