# A verification project for cs537_projects

The repository holds five course projects in operating systems: command line
tools and a sort (p1), a shell and a scheduler (p2), a memory allocator and
changes to xv6's address spaces (p3), a multithreaded web server and kernel
threads for xv6 (p4), and a distributed file server (p5).  Each project has
several generations of the same program; this project follows the last one of
each (`p4/linux/v2`, `p4/xv6`, `p5/v6`, `p3/linux/v5`, `p2/xv6`), and names
lines of that one.  The same xv6 kernel, its user programs and their tests recur,
almost unchanged, below p1, p2 and p3, and most of the other directories are
earlier generations of the programs named here; a module is mapped to one copy
only.  The share of the repository's lines that the map names is therefore small,
and stays small: of some 86,000 lines about a tenth is the last generation of a
program that keeps state between its steps.

## 1. Inventory

### The multithreaded web server (`p4/linux/v2`: server.c, request.c, cs537.c)

*State*: `connfd[]`, `req[]`, `tail`, the mutex `m`, the condition variables
`empty` and `full`, one local connection per thread; the sockets and the CGI
child processes belong to the operating system.
*Operations*: `main` accepts a connection, waits for room, reads the name of the
file with the mutex held (`parseFile`), puts the connection at the tail and
signals; `worker_routine` waits for a request, takes one by policy (`do_get`:
FIFO, SFNF, SFF), signals, and answers outside the mutex (`requestHandle`).
*Interaction*: threads through the buffer and the mutex, the server and its
clients through sockets, worker threads and CGI programs through fork and wait.
*Hard*: lost and stolen wakeups, spurious wakeups, who waits for whom; any
worker's `wait` reaps any worker's child; a failed write ends the process; the
buffer of sizes is not kept in step with the buffer of connections.
*Correct when*: nothing is written outside the buffer; every accepted connection
is answered once, in the order of the policy, and its descriptor is closed once;
no thread sleeps when it has work.

### The xv6 process table with threads (`p4/xv6/kernel`: proc.c, and what of exec.c, trap.c, sysproc.c, vm.c and kalloc.c acts on it)

*State*: `ptable.proc[NPROC]` (state, pid, parent, page directory, kernel stack,
channel, killed, size), `nextpid`, the page list `kmem.freelist`, the pages
mapped in each page directory, `ticks`.
*Operations*: `fork`, `clone`, `exit`, `wait`, `join`, `exec`, `kill`, `sbrk`,
`sleep`, the timer interrupt, `yield`, `scheduler`, `sleep`/`wakeup`.
*Interaction*: processes on several processors share the table under
`ptable.lock`, the page list under `kmem.lock`, `ticks` under `tickslock`;
`sleep` hands over from the caller's lock to `ptable.lock`.
*Hard*: what happens between the release of `ptable.lock` in `allocproc` and the
assignment of RUNNABLE; the window between a test and a sleep; exit racing with
the exit of parents and children; threads that share an address space with
processes that fork, grow, exec or exit; memory that runs out half way.
*Correct when*: no wakeup is lost, nobody is orphaned, every page has one owner
and is freed once, a killed process exits.

### The MFS file server and its client library (`p5/v6`: server.c, helper.c, parser.c, mfs.c, udp.c)

*State*: the image file: a checkpoint region (end of log, addresses of inode map
pieces), inode map pieces, inodes, data and directory blocks, all appended to a
log except the checkpoint region; the server keeps nothing in memory between
requests but the locals of its loop, which hold what the last request left in
them.  The client keeps a socket and the server's address.
*Operations*: lookup, stat, read, write, creat, unlink, shutdown, each a UDP
request and reply.
*Hard*: a crash between two of the writes of one operation; requests and replies
that are lost or late (no identifiers, no timeouts, no retries); a reply made of
what another request left in a buffer; several inode map pieces rewritten by one
operation; reuse of inode numbers.
*Correct when*: after a crash the image is the state before or after the
operation; the tree has no dangling entries; what was written is read; a call
takes effect at most once, before it returns, and returns its own result.

### The xv6 buffer cache and disk driver (`p4/xv6/kernel`: bio.c, ide.c)

*State*: the LRU list of buffers with B_BUSY, B_VALID and B_DIRTY; the queue
`idequeue`, whose first request is the drive's.
*Operations*: bget, bread, bwrite, brelse; iderw, idestart, ideintr.
*Hard*: a buffer changes its sector while processes sleep for it; an interrupt
that comes while the next request is queued; readers that hold a block while they
read another.
*Correct when*: one buffer per sector, one user at a time, each waiter is woken,
what a write returned from is on the disk.

### The xv6 pipes and open files (`p4/xv6/kernel`: pipe.c, file.c, sysfile.c)

*State*: `ftable` with its counts, the descriptors of each process; in the page
of a pipe a ring of PIPESIZE bytes, `nread` and `nwrite`, which only grow, and the
flags of its two ends.
*Operations*: pipe, dup, close, read, write, and what fork and exit do to files.
*Hard*: both ends closed at once; counts that are raised after the descriptor is
visible and dropped before it is gone; calls that fail half way; sleeping
readers, writers and closers that wake each other; counters that wrap around.
*Correct when*: a count is the number of references; an end is closed once, with
its last file, and never under a user; bytes come out in order, once; nobody
sleeps when somebody has woken it.

### The xv6 inodes and directories (`p4/xv6/kernel`: fs.c, sysfile.c)

*State*: `icache` with counts, I_BUSY and I_VALID; the inodes on the disk with
their links; the entries of directories; `cwd` and the open files.
*Operations*: iget, ilock, iunlock, iput, namex; open, create, mkdir, mknod, link,
unlink, chdir, close.
*Hard*: iput reads `nlink` of an inode whose lock it does not have, and frees it;
ialloc gives the number out before iput has cleared the cache; two inodes locked
at once; references and locks given back on each error path by hand.
*Correct when*: counts are the references; no inode is freed that a directory
names or that somebody has, and each without links that nobody has is freed; cache and
disk agree; no panic and no deadlock.

### The other parts

| part | state and operations | what makes it correct |
|---|---|---|
| xv6 spinlocks (`p4/xv6/kernel/spinlock.c`) | `locked`, the holder, `ncli`/`intena` per processor; acquire, release, pushcli, popcli | mutual exclusion; interrupts are on again exactly when the last lock is released; no processor spins for a lock it holds |
| xv6 address spaces (`vm.c`, p3/xv6) | page tables; copyuvm, allocuvm, null-pointer page | a process reaches its own pages only |
| user threads and locks (`p4/xv6/user/lib.c`) | thread_create, thread_join, a lock around `xchg` | mutual exclusion, stack freed once |
| lottery scheduler (`p2/xv6/kernel/proc.c`) | tickets per process, a draw per round | each draw falls on a RUNNABLE process in proportion to its tickets |
| memory allocator (`p3/linux/v5`) | a free list and an allocated list in one mapped region; Mem_Init, Mem_Alloc (best, worst and first fit), Mem_Free with coalescing | blocks do not overlap, sizes add up, neighbours coalesce |
| shell (`p2/linux/submit/mysh.c`) | command parsing, redirection, background jobs | children are waited for once |
| fast sort, generate, dump (`p1/linux`), getsyscallinfo (`p1/xv6`) | files of records; a counter per system call | sorted output; a counter |
| boot, console, interrupt controllers, timers, uart, multiprocessor tables | device registers | device dependent |
| tests and scripts (`1a` .. `5a`) | none | read for what they expect of the programs |

## 2. Plan

In order of importance.  The hazards in `PROJECT.json` say at which line each
of these is needed.

1. *Done.* `WebServer`, which implements the abstract `RequestQueue`; proofs of
   types, mutual exclusion, capacity, signals and children, and of the
   refinement.
2. *Done.* `Proc`, the process table with threads; proofs of types, of the
   family tree, of the wakeups of wait and join, of the slots under construction
   and of the pages.
3. *Done.* `MfsDisk`, the image of the file server, with a crash between any two
   of its writes, which implements the abstract tree `MfsTree`; proofs of its
   invariants and of the refinement.
4. *Done.* `BlockIO`, the buffer cache and the disk driver of xv6, which
   implements the abstract `SectorStore`; proofs of its invariants and of the
   refinement.
5. *Done.* `MfsNet`, the client library and the loop of the server over
   `MfsTree`, which implements `RemoteTree`; proofs that a call has one datagram, and
   of the refinement.
6. *Done.* `FileTable`, and `Pipe`, which implements `ByteStream`; proofs of the
   invariants of both and of the refinement.
7. *Done.* `Inode`, the inode cache over the locks that `BlockIO` shows to be
   exclusive; proofs of its invariants, with the names, links and locks.
8. *Left.* `Spinlock` with interrupts; `Allocator`, the free list of p3 with its
   policies and coalescing, against a set of disjoint intervals; `Lottery`; the
   user thread library.

How the modules fit together: `MfsNet` is the composition of clients, network and
server with the tree of `MfsTree`, which `MfsDisk` implements on the image, so a
client of the library sees `RemoteTree` whatever datagram is lost and wherever
the server is killed.  `Inode` takes from `BlockIO` that a sector has one user
at a time, `Pipe` takes from `FileTable` that each of its ends is closed once,
and both take from `Proc` that a slot whose fork is not finished runs nothing.

## 3. The modules and the code

A component has a module with its state and actions (`WebServer`, `Proc`,
`MfsDisk`, `MfsNet`, `BlockIO`, `FileTable`, `Pipe`, `Inode`), one with its
properties (`...Props`), one for model checking (`MC...`), and, where something is
proved of it, one with proofs (`...Proofs`), that of its refinement last.
Operators with a comment that
begins `Mutant` stand beside the definition they change; no specification uses
them.  They are bugs the code could have had, and each property is known to
notice one of them.

### WebServer, RequestQueue

| state or action | code |
|---|---|
| `m`, `connfd` (its length is `tail`), `req` | the globals of server.c |
| `mainPc`, `mainFd` | where `main` is, and its local connection |
| `pc`, `fd` | where each `worker_routine` is, and its `filedesc` |
| `backlog`, `client`, `size` | the kernel's accept queue, how far each client has got with its request, the file it asks for |
| `running`, `zombies` | how many CGI processes run, and how many have exited without being waited for |
| `ClientConnect`, `ClientAsk`, `ClientSend`, `ClientHangUp` | a client connects, sends its request line, then the headers with the empty line, and may hang up before either |
| `Accept`, `MainLock`, `MainWait`, `MainRoom`, `MainPut` | the loop of `main`, cut at each point where another thread may come in; `MainPut` is `parseFile`, the store at `tail`, the signal and the unlock |
| `WorkerLock`, `WorkerWait`, `WorkerGet` | the critical section of a worker, with `do_get` |
| `ServeStatic`, `ServeDynamic`, `Reap`, `Spin`, `Die`, `WorkerClose` | `requestHandle` and `Close`: an answer by the thread itself, or by a CGI child it waits for; the endless loop of `requestReadhdrs`; a failed read or write, or a file that cannot be opened or mapped |
| `GetCrash` | `do_get` with SFNF, on a name that is not there |
| `MainSpurious`, `WorkerSpurious` | a return of `pthread_cond_wait` without a signal |

A connection stands for its descriptor, which can come back from `accept` as soon
as the server has closed it: a member of `Conn` connects again.  With SFNF, `do_get`
reads file names out of a buffer that has been freed: the model lets it choose
any request.  The size of a file that does not exist is likewise any size.
`do_get` shifts `connfd[]` and not `req[]` (server.c:192), so with SFF and SFNF it
compares the sizes of requests that have been served; the model does the same.

Known behaviour that the model has and that no property complains of.
`requestReadhdrs` (request.c:47-50) compares lines with the empty one until they
are equal, and `Rio_readlineb` leaves the line before in `buf` at the end of the
input (cs537.c:403-405): a client that sends its request line and hangs up leaves a
worker spinning for ever (`Spin`), and once all of them spin nobody is
answered.  A client that sends its request line and falls silent blocks its worker
for as long as it likes; one that sends nothing blocks the master in `parseFile`,
with the mutex held, and with it everybody.  A request for an empty file ends the
server (`Mmap` of no bytes, request.c:132), without an answer to it or to any other.
With SFNF a client that sends no name can end it too (`strlen` of NULL,
server.c:162).  `EveryClientAnswered` states all of this as its exceptions, or
as the assumption `ClientsComplete`.

### Proc

One action is one stretch of code under `ptable.lock`, or one stretch without it
that another processor can come between; the table below gives the actions that
cut a system call into parts.  `pc` is where in the kernel a process is.

| action | code |
|---|---|
| `Schedule`, `Yield`, `Fault`, `Tick` | `scheduler`, the timer interrupt, a trap from user space |
| `ForkStart`, `CloneStart`, `BadCloneStart` | `allocproc` up to the release of `ptable.lock` |
| `NoStack` | `allocproc` whose `kalloc` fails |
| `ForkSize`, `Fork`, `ForkFail`, `ForkLeak`, `ForkPanic`; `Clone`, `BadClone` | the rest of `fork`, which reads its caller's size twice, and of `clone`, without the lock |
| `Exit`, `InitExit` | `exit` |
| `WaitStart`, `WaitReap`, `WaitFail`, `WaitSleep`; `Join...` | one turn of the loop of `wait` and of `join`: find a ZOMBIE, give up, or sleep |
| `GrowMap`, `GrowToNothing`, `GrowPanic`, `GrowPublish` | `growproc`: the page table, then the sizes |
| `SleepStart`, `SleepSpin`, `SleepTest`, `SleepNow` | `sys_sleep`: before and while it spins for `tickslock`, its test of `killed`, and `sleep` |
| `Exec`, `ExecLeak`, `Kill` | `exec`, `kill` |

`Fork` and `Clone` are one step although the code sets the fields of `np` one
after another without the lock: the slot is an EMBRYO with no parent, which no
other processor acts on but `kill`, and `kill` touches a field fork does not.  A
child of a process becomes RUNNABLE last.  `exec` allocates its whole new
address space as one page directory, and user pages cost nothing: pages of the
model are those of kernel stacks and page directories.

Known behaviour that the model has and that no property complains of: when
`setupkvm` has a page directory and `kalloc` has no page for one of its tables, it
returns 0 and gives back neither (vm.c:146), so a `fork` or `exec` that runs out of
memory there loses pages for good (`ForkLeak`, `ExecLeak`; `lost` holds them).
`OnlySetupkvmLeaks` says that this is the only leak.  (`copyuvm` would lose a page too
if `mappages` failed, vm.c:318, but user pages lie in the first 4 MB, whose table
`setupkvm` has made already for the I/O space, so `mappages` needs no page there.)
`join` gives back no kernel stack (proc.c:581), so the property is checked for programs
without threads; `kill(0)` finds the first UNUSED slot and marks it killed, so the next
process in that slot is born killed; `killed` is not cleared by `allocproc`;
`growproc` tells the caller's children, and not its siblings or parent, of a new
size, so that threads of one address space may disagree and panic in `allocuvm`
or `copyuvm`, and it tells forked children too, whose address space is another
(proc.c:128); `clone` with a bad stack leaves an EMBRYO, for which `join` sleeps
for ever (proc.c:500).

### MfsDisk, MfsTree

| state or action | code |
|---|---|
| `disk`, `cr` | the image: the log by address, and the checkpoint region |
| `call`, `reply` | the request being served, the reply not yet sent |
| `todo`, `newcr` | the writes the routine has still to make |
| `Serve(r)` | `UDP_Read`, the parser, and the routine `S_Lookup` ... `S_Unlink` of helper.c up to its first write |
| `LogWrite`, `CRWrite`, `Reply` | one write to the log, the write of the checkpoint region with its fsync, `UDP_Write` |
| `Crash` | the process is killed and started again on the image |

The server reads the image again for each request, so a crash leaves nothing but
`disk` and `cr`.  An address counts blocks and a size counts blocks.  A write
that was started is done: the model kills the process, not the machine.

`MfsTree` is what a client may rely on: a call takes effect at once or, when the
server is killed, perhaps not; a reply tells what the tree says.  The mapping
(`Tree` in `MfsDiskProps`) reads the tree off the image from the checkpoint
region, so the step at which the abstract tree changes is `CRWrite`.

Known behaviour, and what it costs.  `S_Lookup`, and the same call at the start of
`S_Unlink`, read also those blocks of a directory that are not there, at the address
0 (helper.c:264-283).  There is the checkpoint region: `log_end` and the
first pieces of `imap_p[]` are taken for the name of an entry, `imap_p[14]` for its
inode number, and so on (`LookedAt`, `Matches`).  A client that gives a name which
those bytes spell finds it: on a new image, after one file has been created and
removed, `log_end` is 0x3644, the name D6, and MFS_Lookup(0, "D6") returns 0.
MFS_Unlink(0, "D6") does worse.  Its own search passes over blocks that are not
there and ends without a match, with the first entry of the last block in hand, and
removes the inode of that entry (helper.c:883-915, :1018); in the example this is ".",
hence the root.  The new block goes to `dp[14]`, behind the inode (`Misled`).  So
neither `DirectoriesMakeATree` nor `ImplementsTree` is true of the code for all
names.  The constant `CRBlock` is what a checkpoint region looks like to these loops,
and the run and the theorems are for names that it does not spell
(`NoNameSpelled`); with a `CRBlock` that spells one, TLC violates both.  The code does
not see to this assumption, and `MfsNet`, which stands on `MfsTree`, inherits it.

### BlockIO, SectorStore

| state or action | code |
|---|---|
| `buf`, `lru`, `idequeue` | `bcache.buf` with its flags, the list, the queue of ide.c |
| `drive`, `disk` | the command the drive has, and what is on it |
| `pc`, `want`, `holds`, `asleep` | where each process is, the sector it asked for, the buffers it has, the buffer it sleeps on |
| `Bread`, `BgetHit`, `BgetSleep`, `BgetFresh`, `BgetPanic` | the call, and the four ways out of one pass of `bget` |
| `BreadValid`, `BreadMiss`, `Bwrite` | the rest of `bread`; `bwrite`; both with the entry of `iderw`, up to its sleep |
| `IderwDone`, `IderwSleep` | the loop of `iderw`, after a wakeup |
| `Brelse`, `Kick` | `brelse`; the wakeup that `kill` gives to any sleeper |
| `DriveWorks`, `Ideintr` | the drive carries out its command; the interrupt |
| `Reboot` | the machine stops at any time, and starts with an empty cache |

`MayRead` is how fs.c nests its reads: `bmap` and `itrunc` hold an indirect block
while `balloc` and `bfree` read others, and no other code holds two.  `iderw` is
entered with a transfer to do, so it goes to sleep at once; `idelock` keeps the
interrupt out until then.  In `SectorStore` a sector has one user, who is shown
what it holds; a write that was reported as done is on the disk.

### MfsNet, RemoteTree

| state or action | code |
|---|---|
| `tree` | the image, as `MfsTree` sees it |
| `net` | datagrams: requests in the socket of the server, replies in those of the clients |
| `server` | where the loop of server.c is, the address and the request it has, the outcome, `rw_buf` |
| `call`, `result` | the call a client waits for in `recvfrom`; what its last one returned |
| `Send`, `Receive` | `send_msg` and `recv_msg` of mfs.c, with what the library makes of the status |
| `Serve` | `recvfrom`, the parser and the routine of helper.c |
| `SendResp` | the reply; after a shutdown the end |
| `Lose`, `Kill`, `Restart` | the network loses a datagram; the server is killed, and started again |

The status is printed by the server and read back by the client in three ways
(`%d`, one character, two characters), and the model says what each makes of 0
and of -1: a failed creat, unlink or stat returns '-' - '0' = -3, and MFS_Read of
something that cannot be read returns 0 or -1, and with it the block that the
last read or write of *any* client has left in `rw_buf` (server.c:154;
helper.c:404-490 sends the reply of a directory in the same way).  The tests of p5
demand -1 of a creat, an unlink and a read that fail (`dirs.py`:66, :160, :182,
`complex.py`:322, `write.py`:149), so the code does not pass them, and `RemoteTree`
does not state what they state: it says what a caller can rely on nevertheless.  A call that succeeds
returns what the tree has answered to it, the block of a file included; a lookup or
write that fails returns -1; a stat, creat or unlink that fails some negative
number; of a read that fails nothing is promised, neither that its status tells nor
that the buffer holds no block of another client (`Results`).  That the library
would pass the tests is therefore *not* among the things shown here.  And
`RemoteTree` stands on `MfsTree`, which the server implements where
`NoNameSpelled` holds.  The library has no timeouts, so a
lost datagram leaves its client in `recvfrom` for ever (mfs.c:22-37), though a
test of p5 drops datagrams on purpose (`complex.py`:253, DropTest).  `OnlyLossStrands`
says that nothing else does.

### FileTable

| state or action | code |
|---|---|
| `file`, `pipe`, `ofile` | `ftable.file`, the pages of pipes, the descriptors of each process |
| `SysPipe`, `SecondFile`, `Kalloc`, `FdAlloc` | sys_pipe with pipealloc: two files, a page, two descriptors, each of which may fail; `Undo` closes what there is |
| `SysDup`, `DupCount` | fdalloc, and then filedup |
| `Fork`, `ForkFile`, `ForkDone` | the loop of fork over the descriptors, then RUNNABLE |
| `SysClose`, `Exit`, `ExitFile`, `ExitDone` | close; the loop of exit |
| `FileClose`, `PipeClose`, `Kfree` | fileclose under `ftable.lock`, pipeclose under the lock of the pipe, kfree after it |
| `SysIo`, `IoDone` | a process is in piperead or pipewrite |

### Pipe, ByteStream

| state or action | code |
|---|---|
| `pipe` | the page: flags, counters modulo `UINT`, the ring, with `Junk` where nothing was written |
| `lock` | who takes the lock of the pipe along into sleep() |
| `ends` | which ends each process has |
| `SysPipe`, `Fork`, `SysClose`, `Exit`, `ExitFile`, `ExitDone` | where ends come from and go |
| `SysRead`, `PipeRead`, `SysWrite`, `PipeWrite` | one turn of piperead and pipewrite, from the lock to the unlock or to a sleep |
| `Sleep` | sleep() has `ptable.lock` and drops the lock of the pipe |
| `PipeClose`, `Kfree` | pipeclose; the page is free |
| `Kill` | `killed` is set under `ptable.lock` alone, and a sleeper made to run |

Known behaviour that no property complains of: a kill that comes after
the test of `killed` (pipe.c:83, :106) and before the sleep is not noticed until
the sleeper is woken for another reason; a killed writer returns without the
wakeup of line 92, which `BytesWakeReaders` excepts.

### Inode

| state or action | code |
|---|---|
| `dinode` | the inodes on the disk, with the entries of directories |
| `icache` | `ref`, I_BUSY with its owner, I_VALID, the copies of `type` and `nlink` |
| `cwd`, `file` | the directory, and one open file, of each process |
| `todo` | the routines a call has still to run before its next part |
| `ILock`, `IUnlock`, `IPut`, `ITrunc`, `IPutDone` | the routines of fs.c; the last user of a removed inode locks it, frees it on the disk, and clears it |
| `NameX`, `Element`, `NameIParent` | namex, one element at a time |
| `SysOpen`, `SysCreate`, `SysLink`, `SysUnlink`, `SysChdir`, ... | the calls, with `Open`, `Create`, `Existing`, `IGet`, `Created`, `Link`, `DirLink`, `BadLink`, `Unlink`, `UnlinkInode`, `Unlinked`, `Chdir`, `UseFile`, `Close` for their parts between locks |

Known behaviour outside the instance: with ".." in the paths TLC reaches
the panic of ilock ("no type"): a process whose directory has been removed looks
up "..", whose entry is the number of a parent that has been removed and freed
since (fs.c:592).

Known behaviour inside the instance, of which no property complains: a
process may go on in a directory that another has removed, and what it makes there
is never freed.  A file keeps its inode, with a link, when the directory goes:
itrunc frees the blocks of the directory and does not look at its entries
(fs.c:350).  mkdir there raises the directory's own `nlink` from 0 to 1 (sysfile.c:243), so
that iput does not free it either.  `RemovedIsFreed` says only that an inode
which has neither links nor users is free, and `LinksAreCounted` only that there
are links enough: links too many, as these, would be a leak and no property of this
project forbids it.

`Created` has the dirlookup that dirlink begins with (`Unnamed`): where it finds the
name, create panics ("create dots", "create: dirlink") and the action is not
enabled; `NoPanic` says that this does not happen.

## 4. What is checked

| run | instance | shows |
|---|---|---|
| `web_threads` | 2 workers, 3 connections, 2 slots, any choice (SFNF), files that are empty, missing, or asked for by another method, 1 spurious wakeup | capacity, no lost signal, a child for each `wait`, implements `RequestQueue` |
| `web_fifo` | 1 worker, 3 connections, 2 slots, FIFO, fairness | first come, first served; while the server is up and a worker does not spin, every client that completes its request is answered |
| `proc_thread` | 4 slots, 2 processors, 9 pages, 5 pids; programs join their threads | no page used after it is freed, slots under construction |
| `proc_any` | 3 slots, 2 processors, 5 pages; all calls but sleep, in any order, kill of 0 to 3 | parents alive, no lost wakeup, while memory and slots run out |
| `proc_live` | 3 slots, 2 processors, fork, exit, wait, exec, kill, sleep, fairness | a killed process exits; init reaps orphans; only `setupkvm` leaks pages |
| `proc_double_free` | clone, exit without join | *violated*: a page directory is freed twice |
| `mfs_crash` | 4 inodes in 2 pieces, 2 blocks a file, 2 entries a block, 3 names (none of which the checkpoint region spells), 20 addresses, 1 crash | reachable blocks are of the right kind and below `log_end`, one owner, a tree, implements `MfsTree` |
| `mfs_net` | 2 clients, 2 inodes, one or two calls of each function, a lossy network, any number of kills, fairness | one datagram a call, only a loss strands a client, implements `RemoteTree`, which asks less than the tests do |
| `block_io` | 2 processes, 2 buffers, 3 sectors, one of them an indirect block, 2 contents, reboots, fairness | one buffer a sector, one user a buffer, no lost wakeup, no deadlock, transfers end, implements `SectorStore` |
| `file_table` | 3 processes, 3 files, 2 pages, 2 descriptors | counts are references, ends match files, nothing is used after its close |
| `pipe` | 3 processes, a ring of 2 bytes, counters modulo 4, writes of 3 bytes | nothing is used after its close, no lost wakeup, bytes wake readers, implements `ByteStream` |
| `inode` | 2 processes, 3 inodes, relative and absolute paths of one and two names | counts are references, links are counted, the removed is freed, cache is disk, no panic, no circular wait |

Bounds, and why they are enough.  `MaxSpurious`, `MaxPid`, `MaxSz`, `MaxLog` and
`MaxCrashes` end otherwise infinite runs.  Three connections on two slots with
one held by the master make the buffer overflow if anything does; two workers are
the least that can take each other's signal or child.  In `Proc`, three slots
hold a parent, a child and a grandchild or a sibling; four hold init, a process
and two of its threads; in `proc_thread` there are more pids than slots, so a
slot is used twice.  Five pages are one too few for three processes, so every allocation
fails somewhere.  In `MfsDisk`, two pieces of the inode map, two blocks of two
entries and four inodes make directories and map fill up, let one operation
rewrite one piece twice or two pieces, and leave room for one number and one
entry to be used again; the 17 addresses the new image leaves hold three
creations, or four to five smaller changes, and the crash may cut any of them.
Names are symmetric: the server compares them with each other only, and no
property names one.  The workers and the connections of `web_threads` are
symmetric as well.

In `BlockIO` three sectors on two buffers force every buffer to be recycled, also
while a process sleeps for it; two processes with one nested read are the least
that could deadlock.  In `MfsNet` two clients are the least that can get each
other's data or reply; the requests include those that fail in the parser, on the
tree, and reads of a file, a directory and nothing.  In `FileTable` three files
are one too few for two pipes, two pages and two descriptors one too few for a
third, so each step of pipealloc and sys_pipe fails somewhere; three processes
can have one end each, one of them while it forks or exits.  In `Pipe` a write is
longer than the ring, so it sleeps half way; the counters wrap around at twice
the ring, as soon as they may (`PipeAssumption`); three processes are a writer, a
reader and one more of either, or one that closes or kills.  In `Inode` two
processes and two levels of directories are the least that lock a directory and
an entry in both orders; a path of two names leads into a directory that the
other process removes.

CHECK_DEADLOCK is off where the system may stop: the web server when all clients
have been served at the bound or the process has died; the kernel when it has
panicked; the file server when `MaxLog` is reached; the clients of a server that
is lost; processes that have all exited, or sleep in a pipe whose other end they
have themselves.  The block layer can always reboot, so `SomebodyMoves` says
instead that its callers do not all sleep.  `inode` is checked for deadlock.

Fairness.  `WebServer`: each thread that can run runs one day (weak fairness);
`wait` is woken by every child's exit, but another worker can take the child, so
`Reap` has strong fairness; a CGI program ends; a worker that spins runs as well, and gets nowhere.  Nothing
makes a client connect.  That a client which is connected sends the whole of its
request or hangs up is no fairness of the code but an assumption about the clients
(`ClientsComplete`, kept apart from `Fairness`): the server has no timeouts, and
`parseFile` reads with the mutex held.
`Proc`: the scheduler goes round the table, so whoever is RUNNABLE again and
again runs; a stretch between two points of the kernel is shorter than a tick, so
it is not interrupted for ever; the clock ticks; init, whose program is a loop
of wait, calls it again.  User programs owe nothing.  `BlockIO`: the drive and its
interrupt come to an end, a process awake in the kernel goes on; a process that
waits for a buffer may wait for ever while others take it first, so nothing is
claimed of `bget`.  `MfsNet`: the server takes requests out of its socket in
their order, so whoever is in it again and again is served (strong fairness, per
client), sends the reply it has, and a client that waits gets the reply that
comes; nothing obliges anybody to start a server that was killed, and
`OnlyLossStrands` promises answers only if one runs in the end.  `MfsDisk`,
`FileTable`, `Pipe` and `Inode` have no liveness.

## 5. What is proved

All of it for every value of the constants that the named assumptions allow
(`ServerAssumption`, `ProcAssumption`, `PipeAssumption`, `RequestsAssumption`,
`BlockAssumption`, `CommandAssumption`, `InodeAssumption`, `FileTableAssumption`,
`DiskAssumption`, `NoneAssumption`, `NodeAssumption`, `AnswersAssumption`,
`LostAssumption`), and, for `MfsDiskProofs`, where `NoNameSpelled` holds.  The named assumptions say that sizes are numbers, and which of them are not 0;
that tables and sets of processes, inodes and names are finite where something is
counted; that requests are those that
the functions of mfs.h can make; and that `None`, `Fail` and `Lost` are none of the
values they stand beside.

`WebServerProofs`:

* `ControlCorrect`: types, that `m` is held exactly by whoever is in a critical
  section, and that a thread has a connection when it needs one.  The three are
  inductive together (`ControlInv`).
* `CapacityCorrect`, `EmptySignalsCorrect`, `FullSignalsCorrect`: nothing is
  stored beyond the buffer; no signal is lost.  `BufferInv` adds to `ControlInv`
  that the master, once it has seen room, keeps it until it puts (`RoomKept`):
  capacity is not inductive without it.  For `full`, each action changes the
  number of queued requests and of awake workers by at most one, and `SignalFull`
  moves a sleeper whenever a request comes; the proof counts with the cardinality
  theorems.
* `QueueRefined`: `Spec => ImplementsRequestQueue`.  `QueueInv` says where each
  connection is: in the backlog, with the master, in the buffer, with one worker,
  or nowhere.  The proof follows a request through the queue that the mapping
  makes of the backlog, the master's connection and `connfd[]`.
* `ChildrenCorrect`: `EveryWaitHasAChild`, from `QueueInv`: there are as many CGI
  children as workers that wait, whoever collects whose.

`ProcProofs`:

* `TypeCorrect`: types, with three facts they need: who runs or has exited has a
  page directory and a stack (`HasPages`), who is in fork or clone has an EMBRYO
  that is nobody else's (`CreatorHasSlot`), only the living are in the kernel
  (`OnlyAliveInKernel`).
* `ParentsCorrect`, `WakeupsCorrect`: the parent of whoever lives or has exited
  is alive, and no parent sleeps over a child it could collect.  `FamilyInv`
  adds that init lives, that a parent link leads to a slot whose owner is alive,
  and that who sleeps in wait or join sleeps on its own slot, which is what
  `exit` wakes.  The lemmas `FamilyStep` and following reduce most actions to
  what they may do to the family: nobody dies, nobody becomes a ZOMBIE.  `Exit`
  is the hard case.
* `SlotsCorrect`: `SlotsUnderConstruction`, unless a program gives clone a bad
  stack (proc.c:500 forgets the slot).  `NpOK` adds the converse of
  `CreatorHasSlot`: each EMBRYO is the `np` of somebody in fork or clone.
* `PagesCorrect`: `OnlySetupkvmLeaks` and `NoUseAfterFree` while no program makes threads
  (`NoThreads`), whatever else programs do, kill and sbrk included.  `PagesOwn`:
  what a process has is not free, and a stack is nobody else's page; `NoSharing`,
  without which the reaping of one process would free the directory of
  another; `Accounted`: each page has an owner, is free or is lost.
* `ThreadPagesCorrect`: `NoUseAfterFree`, and `FreedOnce` with it, for programs
  that join their threads before they exit or exec, and neither kill nor change
  their size (`JoinsThreads`).  Each hypothesis is needed.  `proc_double_free`
  shows what happens without the joins; a process that is killed exits
  with threads it has not joined; and sbrk can unmap the code, at which trap
  kills the process.  wait frees the directory of any ZOMBIE whose
  directory is not the caller's own, so the proof is that nobody else has
  that directory (`ZombieAlone`): of those that share one, all but one are
  threads of another that shares it (`OneRoot`), and pids grow from parent to
  child (`Born`), so the oldest of those that would still share it is a thread whose
  parent is older, alive and shares it too.  `Calm` says that nobody is killed:
  the code of whoever may run is mapped.

`BlockIOProofs`:

* `TypeCorrect`, `CacheCorrect`, `OneUserCorrect`, `WakeupsCorrect`.  The
  inductive invariant `IInv` ties four things together: B_BUSY to the one process
  that has the buffer (`HoldsOK`); a buffer without valid and clean data to the
  process that is reading or writing it (`FlagsOK`), so that whoever is in the
  queue sleeps or is about to look (`QueueOK`, `SleepOK`); the command of the
  drive to the buffer at the head of the queue (`DriveOK`); and what is valid in
  the cache to the disk (`CacheOK`).  No property is inductive alone: the
  exclusive use of a sector rests on the coherence of the list, the coherence of
  the data on the exclusive use.  These proofs do not need `MayRead`, whoever
  holds what while it reads.
* `ProgressCorrect`: `SomebodyMoves`, which does need it.  Who sleeps in bget waits
  for the holder of a buffer of the sector it wants.  If that one sleeps in bget
  too, it holds a block while it wants another, so the block is an indirect one
  and the sector it wants is not; the holder of that one, again, is either not in
  bget, or would hold an indirect block there.  `WaitOK` is what a process that
  waits in bget has in hand; the rest follows from `IInv`.
* `StoreRefined`: `Spec => ImplementsSectorStore`.  A hit is `TakeAndShow`, a new
  buffer `Take`, bwrite `BeginWrite`, the drive `Write`, the interrupt `Show`,
  brelse `Give`, a reboot `Stop`; the other steps change nothing that the store
  shows (`SameView`).

`PipeProofs`:

* `TypeCorrect`, `CloseCorrect`, `WakeupsCorrect`.  The counters are modulo
  `UINT`, and the proof rests on what their difference is (`Counters`, `Moves`):
  at most PIPESIZE, so that full and empty can be told from it.  `Control` says
  who has which end and that a process in a call has the end that it uses;
  `SleepOK` adds who keeps the lock on its way to sleep to the claim about those
  that are asleep.  `NoLostWakeup` is about the other end: who sleeps to write sleeps
  over a full pipe with a reader to wait for, who sleeps to read has a writer to
  wait for; that bytes leave no reader asleep is `BytesWakeReaders`.
* `WakeReaders`: `BytesWakeReaders`.  Only pipewrite ends that a pipe is empty; it
  either wakes the readers or gives up, and with a reader asleep the read end is
  open, so it gives up only because it has been killed, with the pipe full.
* `StreamRefined`: `Spec => ImplementsByteStream`.  The bytes of the stream are the
  ring from `nread` on (`Ring`).  Positions less than PIPESIZE apart have slots
  of their own even where the counters go around, because UINT is a multiple of
  PIPESIZE (`SlotsDiffer`); so a read takes the first bytes of the stream
  (`RingRead`), and a write appends to them (`RingWrite`).  `RequestsOK`, a second
  invariant, says that who reads has nothing to write and who writes asks for
  nothing; with it, closing an end finds no request left at it.

`FileTableProofs`:

* `TypeCorrect`, `RefsCorrect`, `EndsCorrect`, `CloseCorrect`.  The count of a file
  is a sum over all processes, so the proof splits it into what one process has
  (`Refs`) and what the others have (`Others`, `CountSplit`); each action of a
  process is balanced (`Balanced`): it changes the count by what it changes its
  own references by.  A count of 1 then says that nobody else has the file,
  which is what `fileclose` concludes from it.  `IInv` adds what a call has in hand at
  each point (`CallOK`); that a child has no descriptor yet which `fork` has still
  to give it (`ForkOK`); that a file which pipealloc has made, and which has no
  pipe, is nobody else's (`FilesOK`); that an end has one file or one closer, not
  both and not two (`EndsOK`); and that who reads or writes has a descriptor of
  that end (`IoOK`).  `EndsMatchFiles` is not inductive without `EndsOK`: with two
  files of one end, the close of the first would leave the second without it.

`MfsDiskProofs`:

* `ReachableCorrect`, `OwnersCorrect`, `TreeCorrect`, each under `NoNameSpelled`
  (section 3), with which a search finds what the directory names and nothing else
  (`Unspelled`).  They speak of an *image*, a
  log with a checkpoint region, whichever it is: `ImageOK` says that pointers
  lead below `log_end` to blocks of their kind, that a size is the number of
  blocks, and that no two inodes share anything; `TreeOK` that the entries make a
  tree, with a depth for each inode as the witness that none is below itself
  (`Ranked`).  The server appends its blocks one after another and may be killed
  between any two, so of the state in between `IInv` says two things.  The image
  on the disk is good, whatever lies beyond `log_end`.  And if the blocks still to
  be written were there (`Overlaid`), the image seen from the new checkpoint region
  would be good too, and its tree would be the old one with the request done
  (`Pending`).  An append moves a block from `todo` to the disk and changes
  neither image; the write of the checkpoint region makes the second image the
  first; a crash forgets the second.  So the work is in the routines: a write, a
  creat and an unlink put one or two inodes and one or two pieces of the map
  (`OnePut`, `TwoPut`; the two cases of helper.c where an inode and its parent are
  in one piece of the map or in two), and `WriteMade`, `CreateMade`, `RemoveMade` say
  what image that makes.
* `TreeRefined`: `NoNameSpelled => (Spec => ImplementsTree)`.  A request begins with `Serve`, which also
  answers it when nothing is written: the lemmas `Answer...` say that such a
  reply is one the tree may give.  `CRWrite` is the step that changes the tree, as
  a whole and in the way that `Pending` has promised (`PromiseIsOutcome`), and
  answers; `LogWrite` changes nothing (`ServiceViews`); a crash is the tree's own.

`MfsNetProofs`:

* `DatagramsCorrect`: `OneDatagramPerCall`.  The invariant speaks of single
  datagrams (`NetOK`): each has a client that waits and is not being served, no
  two have the same; and the server serves a client that waits (`ServerOK`).
* `RemoteRefined`: `Spec => ImplementsRemoteTree`.  The mapping reads the answer of
  the abstract tree out of the server or of the reply on its way.  `AnswersOK`, a
  second invariant, says what such an answer can be: it fits the request
  (`Fits`, `OutcomeFits`), and the reply of a block carries the block even though it is
  sent from `rw_buf`, which all requests share (`Good`).  Then nothing is lost in
  the reply (`ReplyMeans`), and what the library makes of it, with its three ways
  of reading a status, is a result that `RemoteTree` promises (`ReplyReturns`).
  `Send` is `Begin`, `Serve` is `TakeEffect`, `Receive` is `Return`; a lost datagram and
  a server killed at work are `Lose`; the reply, a restart and the death of an idle
  server are nothing that a client sees.

`InodeProofs`:

* `RefsCorrect`: `RefsAreHolders`, for any paths.  The references of all are counted process by process
  (`AllSplit`), so a step of one process is right when the count of each inode
  changes by what that process has more or less of it (`Moved`, `MovesCount`).
  What a process has is its directory, its file, the two inodes of its call and
  what the routines of its list will still give back (`Has`, `Times`); a list is
  counted part by part (`TimesConcat`).  `Runs` says which inodes a call has at each
  point (`CallIs`): without it a step that overwrites `ip` or `dp` could lose a
  reference.  `CallFile` adds that a call that opens a file has none to begin with,
  which is the check for a free descriptor at the start of `SysOpen` and
  `SysCreate`.  The panics are not needed for it, nor who has which lock.
* `LocksCorrect`: no process unlocks an inode that it has not locked, locks or
  unlocks one that nobody refers to, or frees one that is locked, which are the
  panics of `ilock`, `iunlock` and `iput` that are about the cache (three of the parts
  of `NoPanic`, gathered in `LocksHeld`).  The invariant (`LInv`) says that the
  routines a process has still to run take what it has locked to what the next
  part of its call needs (`Path`: one inode at a time, but for unlink and create,
  which have locked the directory and wait for an inode in it), and that on the
  way everything locked is referenced by the one who has locked it, or will be
  given back by a later routine.  Each step of a call is shown to leave such a
  list (`Plans`), and each routine to go one step along it.  That `iput` frees only
  what is not locked needs both invariants: the count is 1, it is that of the
  process itself, and one that has locked the inode has it a second time
  (`HeadTwice`, `LastAlone`).

* `LinksCorrect`, `RemovedCorrect`, `CacheCorrect`, `NoPanicCorrect` and
  `NoCircularWaitCorrect`: the other invariants of the run.  They follow from one
  inductive invariant (`DInv`), whose parts need each other:
  * Each link of an inode is claimed once (`Claims`): by an entry of a directory, by
    a subdirectory, by the root for itself, or by a call that has still to lower
    the link or to make the name for it (`Pledged`: sys_link between its two
    halves, sys_unlink between the entry and the inode).  There are never more
    claims than links (`LinksOK`).
  * Who has a reference to an inode has one in use (`UsedOK`), unless the inode is
    being made (`Fresh`, between ialloc and the end of create) or freed (`Frees`,
    within iput); such an inode has no link, hence no claim, and nobody else has
    to do with it (`FreshOK`, `FreesOK`), except that `ialloc` may give out the number
    that iput has freed on the disk and not yet cleared in memory.
  * What is cached of an inode is what is on the disk but for that one (`CacheOK`);
    what is in use without a link has a user, who will free it or, by a mkdir in a
    removed directory, give it a link again (`RemovedOK`).
  * A call knows that its directory is one, that the name it is about to write is
    free, or still leads to the inode it has (`CallOK`); it has them locked, and a
    step writes only what is locked by the process, what it frees, and what is
    free (`Disk`), so the others keep what they know (`OthersOK`).
  * The directories have ranks that grow from each to those in it (`Ranked`).  A
    process that waits while it holds a lock holds a directory and waits for an
    inode in it; if that is held by another such process, it is a directory, and
    deeper (`WaitsDeeper`), so there is no circle.

  The types (`TypesCorrect`) come last: that no count of links is negative follows
  from the claims.  The steps that write nothing are done at once (`Looks`,
  `LooksOK`, `CallsLook`); each of the others has a lemma (`ILockOK`, ..., `LinkOK`,
  `UnlinkInodeOK`, `CreateOK`, `IGetOK`, `CreatedOK`).  These six theorems assume `NoParents`: no path
  goes through "..".  That is not a convenience: with such paths the panic of
  `ilock` is reached (section 3, `Inode`), since a removed directory keeps the number
  of its parent without a link to it.  The run's paths satisfy it.  The sets of inodes
  and names are finite, as on any disk, because what leads to an inode is
  counted.

Only model-checked: liveness and fairness (out of the prover's reach), and with
them `OnlyLossStrands`.

## 6. What is not modelled

* Web server: the contents of requests and answers, and errors of accept.
* Process table: `ptable.lock` itself, `tickslock` but for `sys_sleep`,
  processors as such (a number of RUNNING processes instead), user memory but
  for which pages are mapped below `sz`; `sbrk` by one page or by everything;
  `sleep` and `wakeup` on other channels.  Of files and inodes `fork`, `clone` and `exit`
  only appear in `FileTable` (the loops of filedup and fileclose in fork and exit);
  the one of clone (proc.c:491), the `idup` of the current directory in fork and clone
  (proc.c:167, :494) and its `iput` in exit (proc.c:195) are nowhere: in `Inode` the
  processes and their directories are there from the start.
* File server: power failures (one fsync follows all writes of an operation, so
  blocks may be lost although the checkpoint region is not), writes that fail,
  which the server only reports by perror (helper.c:842), the making of the image
  (killed between the checkpoint region and the root, the server finds no root),
  unlink of `.`, which frees the directory and leaves its entry in the parent
  (helper.c:960), and of `..`, empty names, negative inode numbers and blocks;
  the size of a file with a hole, which S_Write counts from the blocks it has
  (helper.c:365) and a test from the last one (`write.py`:219).
* Client library: names and numbers that overflow their fields in a datagram,
  number fields that the parser does not terminate; a network that repeats
  datagrams, and errors of sendto and recvfrom; a reply of another function than
  the call's is only reported by the library, and `OneDatagramPerCall` shows that
  none comes.
* Block layer: errors of the drive (a failed read leaves old data in a buffer
  and marks it B_VALID), spurious interrupts, the second disk; what a file
  system makes of the sectors.
* Pipes and files: devices, the offsets of files, a bad address of a user's
  buffer; inodes in `FileTable`.
* Inodes: blocks and the contents of files, the bitmap, devices and mknod, exec, a
  full disk and a full cache (`iget: no inodes`), a machine that stops between
  two writes (this xv6 has no log).
* Spinlocks, address spaces, the system call dispatch, boot, console and devices;
  user threads (thread_join frees the address that thread_create has aligned,
  lib.c:29), the lottery scheduler (the draw is over the tickets of all slots,
  the walk over the RUNNABLE ones, proc.c:301 of p2), the memory allocator and
  the shell are left to the plan.  The tools of p1, user programs, tests and
  scripts are input and output.
