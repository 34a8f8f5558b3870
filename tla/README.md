# A TLA+ verification project for CMU Mach 2.5

This directory holds specifications of parts of the CMU Mach 2.5 release
(`src/`), the configurations that model-check them with TLC, and proofs that
TLAPS checks. Definitions are translated from the C source; `PROJECT.json`
gives, for each of them, the file and lines it stands for.

## 1. The system and its parts

The release is a whole operating system: kernel, servers, libraries and user
programs. Much of the kernel (`vm`, `kern`, `bsd`, `netinet`, `vfs`, `nfs` ...)
is only there as compressed `.Z` files and gives nothing to model from. What is
there as text and has state that several parties share:

| part | module | what makes it hard |
|---|---|---|
| C Threads mutexes and conditions (`mach/lib/threads/cprocs.c`, `sync.c`, `vax/lock.s`), MTHREAD and COROUTINE builds | `CondVar`, `CProcs`, `Coroutine` | stores without a lock, spin-then-block, wakeup messages, a ready queue by hand |
| C Threads life cycle (`cthreads.c`) | `CThreads` | records reused while others hold pointers; signals after the unlock |
| C Threads locks and `fork()` (`fork.c`, `mig_support.c`, `stack.c`, `malloc.c`) | `ForkLocks` | nesting order, kernel calls that come back into the library, a child without the lock holders |
| C Threads allocator (`malloc.c`) | `Malloc` | wrap-around, sizes at a boundary, pool bookkeeping |
| network shared memory server (`mach/etc/netmemoryserver`) | `NetMemory` | several kernels, crossing messages, dead and slow kernels |
| Sun RPC over UDP (`usr/misc/nfs/lib/librpc`) | `RpcUdp` | lost, repeated and late datagrams, a restart, a reply cache |
| NFS lock client (`kernel/krpc`, `clnt_kudp.c`, `pmap_kgetport.c`) | `LockClient` | timeouts against late answers, signals, a shared timer, a restart of the lock manager |
| IMP interface (`kernel/netimp`) | `Imp` | counts and timers against answers, resets and dead hosts |
| inode pager (`kernel/builtin/inode_pager.c`) | `DefaultPager`, `InodePager` | allocation that fails half-way; termination against remapping |
| device pager (`kernel/builtin/device_pager.c`) | `DevicePager` | descriptors visible before they are filled, reused memory, a lock left held |
| nanny (`usr/cs/etc/nanny`) | `Nanny` | deaths, requests and a changing configuration in any order |
| routing, exception server, remote file system, environment manager, service server, sup | none yet | section 8 |
| everything else | none | sequential tools: compilers, shells, the debugger, formatting, byte relays |

`PROJECT.json` lists all of these under `components`, with a reason for each
that is not modelled, and under `hazards` the places where the code can go
wrong in a way a test would hardly meet.

How the parts of the C Threads library meet:

```
            CondVar   (what mutexes and conditions promise)
           /       \
      CProcs     Coroutine          two builds that implement it
           \       /
           CThreads                 uses mutexes and conditions as CondVar promises
              |
          ForkLocks                 the locks under all of them, and fork()
              |
           Malloc                   the allocator; its locks are in ForkLocks
```

The servers and kernel components do not share state with each other; each
module composes its component with the parties it talks to (kernels, network,
clients, hardware), which are marked external in `PROJECT.json` when their code
is not among the sources.

## 2. The C Threads modules

### CondVar: the contract

`holder`, `waiters[c]` and `released`. `Wait` releases the mutex and joins the
queue in one step, `Signal` releases the oldest waiter, `Broadcast` all of
them, and `Return` needs the mutex. It stands for no code; it is what
`cthreads.h` leads a client to expect.

### CProcs: the MTHREAD build

A cproc is a Mach thread. The variables are those of the code: `mutex` is
`m->lock`, `lock` and `queue` are those of the condition, `state` is
`p->state`, `wait_port` counts the messages on `p->wait_port` (backlog 1),
`old_state` and `i` are locals, and `batch` holds the cprocs that a signal or
broadcast has dequeued and has still to continue. `pc` says where a cproc is.

| actions | code |
|---|---|
| `mutex_lock`, `mutex_unlock` | `sync.c`, `vax/lock.s` |
| `condition_wait`, `Enqueue`, `ReleaseMutex`, `Poll`, `RecheckLock`, `Recheck`, `Block`, `Receive`, `Reacquire` | `condition_wait`, one step per access to a word another cproc may touch |
| `condition_signal`, `condition_broadcast` | the macros of `cthreads.h`, which test the queue without the lock |
| `cond_signal`, `cond_broadcast` | the locked sections of these functions |
| `ReadOldState`, `SetRunning`, `Send` | `cproc_continue`, without the lock |

The step granularity is the point of the module. `cproc_continue` runs after
`c->lock` has been released, so its read of `p->state`, its store and its
message interleave with the waiter's re-check, store of `CPROC_BLOCKED` and
receive. The other locked sections touch only data that the lock protects and
are one step each. Failed attempts on a lock change nothing and are no steps.

### Coroutine: the COROUTINE build

All cprocs share one Unix process. The cproc at the head of `ready` runs until
it yields, waits, creates a cproc or makes a polling call (`ipc.c`, `unix.c`),
so a step is everything up to the next switch. `aborted` records that
`condition_wait` found nobody to switch to ("All C threads are blocked").

### CThreads: threads and their records

The global variables of `cthreads.c`, the records (`record`) with their flags,
result and waiters, and per cproc its `incarnation` and the record `t` of its
current call. A section of `cthread_lock` or `t->lock` is one step; waiting
joins the queue in the same step, as `CondVar` promises; whatever follows an
unlock is a step of its own: `SignalNeeded`, `SignalDone`, `FreeAfterUnlock`,
`FinishFree`, `Unassoc`. Client code forks, joins or detaches each thread once,
changes the limit, returns, and calls `fork()`. After `fork` the behaviour goes
on in the child, with the forking cproc only, and with the lists, counts and
conditions that `cthread_fork_child` and `cproc_fork_child` leave.

### ForkLocks: lock nesting and fork()

Of every function the model keeps what it locks, unlocks and calls. A cproc has
a sequence `todo` of such steps; a call is replaced by the body of the
function, and a function with branches has several bodies. Every kernel call
begins with `mig_get_reply_port`, which may itself lock and make a kernel call.
`fork` copies the owners of all locks into a child in which only the forking
cproc goes on, to do `cthread_fork_child`.

### Malloc: the allocator

Byte addresses, free lists of powers of two, a list of pools carved from their
high end, and a kernel that can run out of memory. Unsigned arithmetic is done
modulo `2^Width`, with `Width - 3` free lists as the code has 29 for 32 bits.
`BucketOf` is the loop of `malloc`; `more_memory` returns where the memory came
from and what it leaves of the pools; `realloc` includes the free of the old
block, also when `malloc` failed.

## 3. The servers and kernel components

### NetMemory: network shared memory

One object thread hands out the pages of a memory object to the kernels of
several hosts. `obj` is its `object_t` with the `min_pages` (the users of a page,
its `use`, the head and tail of its sleeping requests) and the requests; `inq` is
its port; `net[q]` holds the messages for the kernel behind control port `q`.
`ObjectThread` takes one message and runs the whole handler:
`memory_object_init`, `Add_reading_kernel`, `Add_writing_kernel`,
`Subtract_kernel` or `Kernel_close`, with everything they call down to
`satisfy_request`. `PeriodicRoutine` is the timeout. The kernels fault, write,
page out and answer lock requests. When a host crashes, `handle_port_death` posts
a message with the slot under which its port was registered, though another
kernel may have that slot by then. Where the code uses a variable it has
not set, or stores outside `min_pages`, `obj.wild` is set and the thread stops:
nothing is claimed after that, and the run `netmemory_closed` shows how it comes
about.

### RpcUdp: calls that are sent again

A client's call is three actions (`clntudp_call` sends; `SelectTimesOut` sends
again or gives up; `Receive` compares the transaction number). The server
receives, dispatches and replies in three steps; `cache_get` and `cache_set`
move buffers between the transport and the fifo of replies as in `svc_udp.c`.
Datagrams are a set from which any may be delivered, again or never; the server
may restart with an empty cache.

### LockClient: locks over RPC

A process in the kernel runs from one sleep to the next, so an action does that.
`proc` has the position of a process in `klm_lockctl`, `talk_to_lockmgr` and
`clntkudp_callit`; `timers` counts the entries `untimeout(wakeup, &lm_sa)` may
remove; the lock manager has a queue, a holder and waiters, and can restart on
another port. On the loopback interface a request in the manager's queue *is* the
client's output buffer, which a second transmission or a destroyed handle
changes under it.

### Imp: messages in flight

The table of hosts is a chain of mbufs with places (`HOSTHASH`), counts, timers
and holding queues. `impoutput`, the seven messages of `impinput`, the clock and
`impdown` are one action each, as `splimp` makes them. The IMP answers in any
order or not at all. Mbufs can run out: `impnoops` then queues fewer NOOPs than
it should, and `impoutput` and the host-dead message go without an entry in the table
(`NeedsMbuf`).

### DefaultPager, InodePager: the inode pager

`DefaultPager` is the storage of temporary objects: the bitmap of the paging
file, one- and two-level page maps, and the LRU list of inodes used without a
paging file. A message is one step; `Answers` is what a page-in may be answered
with, a disk error included. `InodePager` is the life of the memory
object of a mapped file between client threads, the kernel's `vm_object`s and the
pager thread; a step goes from one blocking point to the next, so
`memory_object_terminate` is three and `inode_pager_setup` up to four. Its callers are
in the part of the kernel that is not there as text; in one setting
(`Unlocked`) they do not hold the inode lock.

### DevicePager

`device_pager_create` puts a descriptor in the list and records its arguments in
a second step, or fails and keeps the zone element (`CreateFails`); `memory_object_init` fills the pages one by one;
`memory_object_terminate` searches by the request port, and returns with
`device_pager_lock` held when it finds nothing. Zone elements keep the values of
their last use.

### Nanny: the daemon that keeps servers running

`servers` is the list `SrvHead` and `process` the children. `pc` is the place in
the loop of `mothernanny`: a message (`NamedRequest`, `SendData`, `Done`,
`Suicide`, `Reconfigure` or none), the dependencies (`ck_depend`), the
configuration (`Check_cnfg`, with the comparison of old and new lists), the
deaths (`CheckDeaths`) and the starts (`LifeChecks`, which frees invalid servers
and runs `RunServer` for dead ones). Children exit, fail to start (exit 2) or die
of a signal between any two of these; datagrams are lost; the configuration file
and the attributes of the host change. `kill(-1, ...)`, which `stop_srv` does
after a fork that failed, reaches all children (`Receivers`).

## 4. The runs

Components that share nothing are checked by one run: an MC module has a
variable that says which of them a behaviour is about, and an instance of each.
Fairness is then the premise of a property (`FairX == Fairness => X`); the run
`lock_backoff`, of one component, has it in its specification (`FairLockSpec`). There are
four runs that pass:

| run (MC module) | components and instances |
|---|---|
| library (`MCLibrary`) | `CThreads`: 3 cprocs, 4 records, 3 forks, 1 `fork()`, limits 0 and 2; `ForkLocks`: 3 cprocs, 2 free lists; `Malloc`: 8-bit sizes in 104 bytes, and all 6-bit sizes |
| user (`MCUser`) | `CProcs`: 3 cprocs, 2 conditions; `Coroutine`: 4 cprocs, 2 conditions; `CThreads`: 3 cprocs, 2 forks, 1 `fork()`, no limit; `ForkLocks`: 2 cprocs, 2 free lists; `RpcUdp`: 2 clients in five settings |
| servers (`MCServers`) | `DefaultPager`: 2 objects of 1 and 3 pages, a paging file of 3 pages, one- and two-level maps; `InodePager`: 2 clients of 1 file in five settings; `DevicePager`: 2 clients, 3 mappings of 2 pages, 2 zone elements; `Nanny`: 2 servers in three settings |
| net (`MCNet`) | `NetMemory`: 3 kernels of one page size, 1 page, in four settings (steady, paging out, a crash with a late opener, a crash with timeouts); `LockClient`: 2 processes in nine settings; `Imp`: 2 hosts in six |

and what they check:

| run | property | says, and under which restriction |
|---|---|---|
| library | `NoUseAfterFree`, `JoinGetsItsThread` | a record is freed once and nobody uses a free one as a thread; a join gets its own thread's result; in the child of a `fork()` too, unless it frees a record twice (finding 2) |
| library | `NoCircularWait` | no set of cprocs waits for each other's locks |
| library | `ChildOwnsCoveredLocks` | the locks that `fork()` takes, and `malloc_lock` and `initial_stack_lock` which are only taken inside those, are not held in the child by a thread that is gone. Not `reply_port_lock` and the records' locks: finding 2 |
| library | `MemoryIsPartitioned`, `BlockFits` | every byte is in one block or pool; a block is the smallest that fits, and exactly 0 and the sizes that are too large are refused |
| user | `MutexExclusion`, `WakeupMessageExpected` | one holder; no wakeup message is left for a later wait |
| user | `ImplementsCondVar`, `CoroutineImplementsCondVar` | both builds keep the promise of `CondVar` (safety: finding 1 is not against it) |
| user | `FairSignallerReturns` | signals and broadcasts return |
| user | `SignalledReturns` | a signalled coroutine returns, if clients yield and do not for ever yield with the mutex held |
| user | `FairQueuedThreadStarts`, `FairProcessExits` | a forked thread starts, when there is no limit on cprocs; the process exits when its threads end, the child of a `fork()` too unless it freed a record twice |
| user | `FairCallsReturn` | calls of the library return, in the parent |
| user | `AnswerIsForThisCall`, `CacheTellsTheTruth` | a call that succeeds returns its own results and was executed; the reply cache is consistent |
| user | `FairCallReturns` | a call returns once datagrams that are not for it stop coming; each of them starts its wait anew |
| servers | `PagesAreOwned` | a page of the paging file has one owner, and none is lost |
| servers | `PageInIsLastPageOut` | a page-in is answered with the last page-out or an error, and is unavailable only for lack of room; up to the first `data_initialize`, and not after a page-out of the object failed |
| servers | `ObjectIsKept`, `NothingIsLost` | nobody is left with an object that is gone, and nothing queued is lost with its port; only if the callers of `inode_pager_setup` hold the inode lock |
| servers | `PagerValueIsSetUp` | an inode names only an object that is set up, its own, and not being destroyed; whether or not callers hold the inode lock |
| servers | `PageStructuresAreSafe`, `PageIsOfTheDevice` | page structures are freed once and never used after; a page of a mapping is a page of its device |
| servers | `FairFaultsAreServed`, `FairDescriptorIsReclaimed` | faults on files and devices are served; descriptors of mappings that are gone leave the list |
| servers | `EveryProcessIsKnown` | a child that was not sent SIGKILL is the process of a server in the list |
| servers | `FairServerRestarts`, `FairSuicideEnds` | a DEAD server starts again unless it is killed, disabled or removed; the nanny dies when asked, if no DONE datagram is lost |
| net | `OneWriter`, `WriterIsFresh`, `StaleReaderIsDoomed` | one writer, with the last version; a stale reader is being flushed. The last two not for kernels that paged out |
| net | `AllWritersGone` | no writers are left when a request is satisfied: for kernels of one page size on one page. Two sizes are finding 3 |
| net | `FairFaultIsServed` | a fault is served unless the host goes down, or the server has met the request of a closed kernel, which is finding 6 |
| net | `ResultIsTrue` | what `klm_lockctl` returns is true of the lock: 0 and EINTR always, EACCES and the 0 of an unlock unless an earlier call returned ENOLCK and left its request behind, ENOLCK itself never (section 6) |
| net | `FairCommandEnds` | a command ends unless another process has the lock, or the process backs off and has lost its timer, which is finding 8 |
| net | `CountIsExact` | the RFNM count is the number of messages in flight, until an error, a reset or the clock clears it |
| net | `HeldInOrder` | no message overtakes a held one, while the output queue drops none and no count is cleared |
| net | `FairHeldMessageLeaves` | a held message is sent, freed, or lost with its mbuf; the last is finding 7 |

The other eight runs, of one property each, contradict a comment of the code and are
the findings of section 5: `cprocs_lost`, `fork_child`, `netmemory_sizes`,
`rpc_cache`, `nanny_dropped`, `netmemory_closed`, `imp_resources`, `lock_backoff`.

**Bounds.** A lost wakeup or a double link needs a waiter, a signaller and a
third party that waits or signals again; a broadcast of one cproc then has two
in hand. Two conditions let a cproc wait for one of them and be signalled late
for the other. One round of polling (`condition_yield_limit` 1) has all exits
of the loop. Three forks let a record be freed, reused and looked at late, and
three cprocs let main, a joiner and another thread run at the same time, or one
hold a lock, one wait for it and one fork. In `Malloc` the pages and pools are
shrunk with the width, so that the memory holds blocks smaller than, as large as,
and larger than a page, and a request larger than a pool; one instance has every
size. The settings of the server and kernel components (`Budgets`, `Settings`)
bound the number of calls, faults, losses, duplicates, crashes, restarts and
edits, each in a combination in which the interesting case happens: a write that
crosses a page-out, a reply that arrives after the next call was made, a
restart between a request and its retransmission, a host that takes the place of
a dead one, a file that is mapped again while its terminate message is on the
way, a descriptor whose zone element was used before, a server that is removed
and comes back. `RESTARTMAX` is one tick: too early and late enough.
New thread records and process ids are taken in order, as interchangeable names.
A run of several components chooses one of them at first; each liveness property
is about the behaviours of its own component. Liveness has the form `[]<>P`, "it is
again and again not waiting": as the thing waited for ends each wait, this says that
no wait lasts for ever, and TLC needs far less memory for it than for `~>`, which only
`BackoffEnds` has.

**Deadlock** is checked in `library`, `servers` and `net`; in these runs the parties
that may really stop (client programs, kernels and processes that use a service, a
dead nanny) have an explicit idle step, and the allocator, the IMP interface and the
default pager have none. It is not checked in `user`: a program in which all threads
wait for conditions, or whose calls have returned, has really stopped.
Waiting that the code itself could cause is the subject of `NoCircularWait` and
the liveness properties.

**Fairness.** *CProcs*: every cproc is a kernel thread and is scheduled (weak
fairness of its steps); a signaller that spins for `c->lock` gets it when the lock is
free again and again (strong fairness of `cond_signal` or `cond_broadcast`), because the critical sections are a few
instructions long. No fairness is given to client calls or to `mutex_lock`.
*Coroutine*: there is no preemption; `SignalledReturns` assumes that client code
goes on, yields, and from some time on does not yield with the mutex held
(`PoliteClients`). *CThreads*: library steps are weakly fair; `ProcessExits`
assumes in addition that thread functions return and main calls exit. *ForkLocks*:
locks are taken under strong fairness. *NetMemory*: the object thread and each
kernel read their messages. *RpcUdp*: only that `select` returns, with a
datagram or after its time; neither the network nor the server need do anything for a
call to return. *LockClient*:
processes run, timers go off and the lock manager works. *Imp*: the clock ticks.
*InodePager*, *DevicePager*: threads in the kernel and the pager thread run,
and an awakened thread retries. *Nanny*: the loop goes round (its `select` has a
timeout of a quarter of an hour at most), time passes, a process that was sent
SIGKILL dies, and a DONE datagram that arrives is read some time (strong
fairness, because each round reads a message if there is one).

**Mutants.** Each property of a passing run has a variant of one mapped
definition, kept beside it as "Variant", under which TLC finds the property
violated: a dropped guard, a missing store, a wrong order.

## 5. What the runs found

1. *Lost wakeup* (`cprocs_lost`, `cprocs.c:537`). `cproc_continue` decides from a
   `p->state` that it reads after `c->lock` was released. If the waiter passes its
   re-check, the signaller reads SPINNING, and the waiter then blocks, no message
   is sent and the waiter sleeps for ever. The comment above the function says
   it is called "with the condition variable locked".
2. *The child of fork()* (`fork_child`, `cprocs.c:792`). The comment at `cthreads.c:364`
   says that all critical section locks are acquired before a `fork()`, so that no
   data structure is inconsistent in the child. Between freeing its record and
   forgetting it, a thread has a stale `incarnation` and no lock; the child of a
   `fork()` made there frees the record again. With `Parts = {"forklocks"}` in
   `MCForkChild.cfg` the run shows a second reason: `reply_port_lock`
   (`mig_support.c:88`) is not among the locks taken for `fork()`, and if another thread
   held it, the child hangs in its first kernel call. The same is true of the lock of
   the forking thread's record (`cthreads.c:194`), when another thread was joining it.
3. *Two page sizes* (`netmemory_sizes`, `scheduler.c:843`). The search for an earlier
   request looks only at pages in `USE_WRITE`, so with kernels of two page sizes a
   request is satisfied while one of its small pages has a writer, against the comment
   of `satisfy_request`. With one page size, on one page, the run `net` finds no
   violation.
4. *Reply cache* (`rpc_cache`, `svc_udp.c:434`). `cache_get` compares an entry with the
   call saved at the last miss, not with the call it was given, so a retransmission is
   dispatched again as soon as another call came in between.
5. *Dropped servers* (`nanny_dropped`, `snd_comm.c:175`). `LifeChecks` wants to kill a
   running server that is no longer in the configuration, and `com_kill_srv` refuses
   because the server is invalid. It runs on; if it comes back into the configuration,
   it runs twice.
6. *Closed kernels* (`netmemory_closed`, `scheduler.c:510`). `Kernel_close` leaves the
   requests of the kernel in the queue with kernel -1, because "Satisfy_request knows
   how to deal with -1 kernels". It does not: for such a request it skips the only
   assignments of the variables it goes on to use.
7. *Messages lost with an mbuf* (`imp_resources`, `if_imphost.c:94`). A host that was
   released and is found again by its address is put in use without being counted in
   `hm_count`. When the other host of the mbuf is released the count is zero, and the mbuf
   goes with the messages still held for the first, though `hostrelease` is to "release
   any resources it's accumulated".
8. *A sleeper without a timer* (`lock_backoff`, `klm_lockmgr.c:383`). Processes that back
   off share the channel `&lm_sa`, and `untimeout` at the end of a wait removes any timer
   for it, that of another process too, which then does not "wait a bit and try
   again".

Each has a run whose counterexample shows the sequence of steps.

## 6. Hazards without a property

Met while modelling, and not the subject of a run:

- `sync.c:78`: `mutex_lock` of a coroutine yields in a loop; a client that blocks with the
  mutex held makes it spin. `SignalledReturns` assumes that clients do not.
- `scheduler.c:279`: an exclusive or where a mask is meant, for readers with larger
  pages; only with two page sizes, where finding 3 comes first.
- `netmemory.c:92`: when the first entry of the registry of ports dies, `unregistry` is
  assigned where `registry` is meant, and the freed entry stays first in its list; the
  model has the registry of one port per kernel. `netmemory.c:274`: `netmemory_destroy` frees what others still use; there is no
  handshake to check.
- `clnt_udp.c:239`: while datagrams for other calls keep coming, `clntudp_call` waits on.
- `klm_lockmgr.c:157`: ENOLCK is returned when "no way the request could have gotten out".
  An earlier try of the same call may have timed out with its request on the way, before
  the manager was found unregistered; and the manager may have had no resources for the
  CANCEL. The process may then get a lock it was told it could not get. `ResultIsTrue`
  says nothing of such a result, nor of a later EACCES or unlock before the request is
  granted or cancelled.
- `inode_pager.c:1208`, `:1219`: early returns of `inode_pager_setup` without
  `unix_release`, for no inode and for a paging file. They are not modelled.
- `inode_pager_setup` without the inode lock: two callers may create an object each, and one
  returns the other's object without a reference. No caller is there as text;
  `ObjectIsKept` and `NothingIsLost` are about callers that hold the lock.
- `inode_pager.c:1731`: `memory_object_data_initialize` writes a page only if there
  is one already, and its comment says the opposite; `PageInIsLastPageOut` holds
  up to the first such message.
- `device_pager.c:213`: a failing `port_allocate` returns before the descriptor is put in
  the list, and the element is lost to the zone. The descriptor of a mapping whose
  `vm_map` fails stays in the list, as no terminate message will come for it. Either way
  the zone can fill up; `FairDescriptorIsReclaimed` is about mappings that were made.
- `if_imphost.c`: `hostreset` for a network releases places that nobody uses, which takes too
  much off `hm_count` as in finding 7. Once the output queue has dropped a message,
  or a count was cleared, messages overtake held ones.
- `if_imp.c:284`: the timeout of `impdown` is never cancelled; `if_imp.c:163` returns
  without `splx`.
- `nanny/main.c:259`: a failing fork leaves a server RUNNING with pid -1: it is not
  tried again until someone asks for a restart. `ServerRestarts` is about servers that
  are DEAD. Of those who send signals only `com_kill_srv` tests for the pid.
- `nanny/main.c:193`: a lost DONE datagram keeps a dying nanny alive;
  `SuicideEnds` exempts it.
- `cthreads.c:118`: `malloc` is taken to succeed, as in the code.
- `mig_support.c:84` (DEBUG) and `stack.c:251`: globals read and written without a lock.

## 7. Proofs

The theorems hold for every value of the constants that meets the assumption of
the module:

- *CProcs* (`CProcsAssumption`): any sets of cprocs and conditions; the polling limit
  is a natural number and the two null values are not members of the sets.
- *Coroutine*: any sets of cprocs and conditions; the theorems need no assumption.
- *RpcUdp* (`RpcAssumption`): any clients, any size of the cache, any timeouts, any number
  of copies, losses and restarts. A client makes fewer calls than there are transaction
  numbers, so that a number is not used again while an answer to its first use may
  be on the way. The code counts modulo 2^16 and has no other protection: with
  more calls `AnswerIsForThisCall` is not true of it. `CacheTellsTheTruth` does not
  depend on this.
- *DefaultPager* (`DefaultPagerAssumption`): any sets of objects and contents, any size
  of the paging file, of the objects and of the map tables.
- *DevicePager* (`DevicePagerAssumption`): any tasks, any number of mappings, of
  elements of the zone and of pages in a mapping, at least one.
- *ForkLocks* (`ForkLocksAssumption`): any set of cprocs and any number of free lists,
  at least one.
- *Imp* (`ImpAssumption`): any set of hosts, any hash of their addresses, any number of
  messages, errors, resets and ticks; the limits and the size of an mbuf are natural
  numbers, and those that the code uses as a first value of a timer or a count are
  not zero.

| theorem | module | states |
|---|---|---|
| `TypeCorrect` | `CProcsProofs` | `TypeOK` |
| `MutexCorrect` | `CProcsProofs` | `MutexExclusion` |
| `OneLinkCorrect` | `CProcsProofs` | `OneLink` |
| `WakeupMessageCorrect` | `CProcsProofs` | `WakeupMessageExpected` |
| `RunningWhenDoneCorrect` | `CProcsProofs` | `RunningWhenDone` |
| `NoSpuriousReturnCorrect` | `CProcsProofs` | `NoSpuriousReturn` |
| `Refinement` | `CProcsProofs` | `ImplementsCondVar` |
| `MutexHeldCorrect` | `CoroutineProofs` | `MutexHeld` |
| `OneLinkCorrect` | `CoroutineProofs` | `OneLink` |
| `AllBlockedCorrect` | `CoroutineProofs` | `AllBlocked` |
| `BlockedCountedCorrect` | `CoroutineProofs` | `BlockedCounted` |
| `CoroutineRefinement` | `CoroutineProofs` | `CoroutineImplementsCondVar` |
| `CacheCorrect` | `RpcUdpProofs` | `CacheTellsTheTruth` |
| `AnswerCorrect` | `RpcUdpProofs` | `AnswerIsForThisCall` |
| `PagesAreOwnedAlways` | `DefaultPagerProofs` | `PagesAreOwned` |
| `PageInCorrect` | `DefaultPagerProofs` | `PageInIsLastPageOut` |
| `PageStructuresCorrect` | `DevicePagerProofs` | `PageStructuresAreSafe` |
| `PageCorrect` | `DevicePagerProofs` | `PageIsOfTheDevice` |
| `LockCorrect` | `DevicePagerProofs` | `device_pager_lock` is free between steps |
| `NoDeadlockOnLocks` | `ForkLocksProofs` | `NoCircularWait` |
| `CoveredLocksCorrect` | `ForkLocksProofs` | `ChildOwnsCoveredLocks` |
| `RfnmCountIsExact` | `ImpProofs` | `CountIsExact` |
| `HeldMessagesKeepOrder` | `ImpProofs` | `HeldInOrder` |

The lists in these components are sequences without repetition; a few lemmas at the top
of a module say what an append, taking the head and a concatenation do to their members.
`ImpTableProofs` has the lemmas about the table of hosts on which `ImpProofs` rests. They
are modules of their own, and cite no more of the library than they need, because the
time the prover takes for a step grows with the number of theorems in its context.

### C Threads

*Types.* A signaller takes the head of its batch, so `TypeOK` is strengthened
to `TInv` with `BatchInHand` (a batch in use is not empty) and `CondInHand` (a
call knows its condition).

*Mutex.* `MutexExclusion` needs `MutexPlaces`: inside `condition_wait` the mutex
is held up to the `mutex_unlock` and not after it. Otherwise the unlock there
could clear the word of another holder.

*Lists and wakeups.* The other four properties follow from one inductive
invariant, `LInv`, because each rests on the others. A cproc is enqueued once
only because a cproc outside its wait is on no list (`ListedWaits`). It leaves
its wait only when it is RUNNING, and a listed cproc is not RUNNING
(`ListedNotRunning`), so it is off every list by then. The exception is the
cproc whose message is being sent: it is RUNNING and still in the signaller's
hands, but it cannot leave, because it sits in `msg_receive` with no message
(`BlockedReceives`). A message is there only for a cproc that has been
continued (`MessageAwaited`), so `msg_receive` ends no wait too early.
The lost wakeup of section 5 does not break `LInv`: it strands a cproc, and
lets none go too early.

*Refinement.* The abstract holder is the cproc that has set `held`, unless it
has already enqueued itself; the released threads are those in their wait and
on no queue. `Enqueue` is the abstract wait, the locked sections of
`cond_signal` and `cond_broadcast` are the signal and broadcast (or nothing,
when the queue emptied after the macro's test), `Reacquire` is the return, and
every other step is invisible.

*The COROUTINE build.* `CInv` says where the cprocs are: a ready one is RUNNING, a
BLOCKED one is on the queue of one condition and in its `condition_wait`, each is
on one list once, and `aborted` is set exactly when the ready queue is empty. From
it follow the four invariants and the refinement. `BlockedCounted` is an
induction of its own, over the cardinality of the set of blocked cprocs:
`cond_broadcast` takes as many off the count as its queue is long. With it and
`AllBlocked`, the library gives up exactly when all its cprocs wait for each other.

### Locks and fork()

The library has no table that says in which order locks are taken; the order is in
the bodies of its functions. `Rank` writes it down: `cthread_lock`,
`cthread_free_lock`, the free lists of `malloc` from the first to the last,
`malloc_lock`, `cproc_lock`, `initial_stack_lock`, the records, `reply_port_lock`.
`Bound` gives for each function a rank below which it takes no lock.

The state has no stack of held locks, only the owner of each and the code that a cproc
has still to execute. `HeldAt(s, i, l)` reads from that code which locks are held:
those it releases before it takes them. `LockInv` says that this agrees with `owner` for
every cproc (`Accounted`) and that what is left to do is `Sound`: each lock is of a
higher rank than all that are held, and each call of a function with a higher bound.
The proof has two parts. *Bodies:* each function is `Good` by itself (`BodyGood`;
`Under` and concatenation keep it, and `fork`, which takes the locks of the free lists in
a loop, is looked at step by step). *Steps:* replacing a call by a good body keeps the rest sound
(`ExpandSound`); taking or releasing a lock moves one position on. One call is out of order:
the kernel call inside `mig_get_reply_port` is made with `reply_port_lock` held, and
would take it again, but by then the thread's own reply port is in place and the
body is empty (`Inner`).

*No circular wait.* In a set of cprocs that all wait for members of the set, the one
whose awaited lock has the largest rank waits for an owner that waits for a lock of
a still larger one.

*The child.* `fork()` does not take `malloc_lock` and `initial_stack_lock`.
`Guard` and `CallGuard` say that they are taken only inside locks which it does take, so
nobody else holds them when the child is made.

### RpcUdp

*Reply cache.* `CacheTellsTheTruth` needs `SavedIsCurrent`: `cache_set` labels
its entry with the address and procedure saved at the last miss, which are those
of the request being answered. It holds because one request is worked on at a
time. The same saved values are what finding 4 of section 5 is about, in
`cache_get`, where they are too old. The step that matters is `cache_set`, where the
oldest node changes its chain, its buffer and its label together and the transport
goes on with the node's old buffer. Types come first (`TInv`), because nodes and
buffers point at each other.

*Answers.* `NumInv` ties every datagram on the way and the request in hand to the call
it was made for: the i-th number after the first one belongs to the i-th call, or to
the next one once the client has gone on with full credentials (`Numbered`,
`Extra`, `Made`). So a reply with the number that is awaited is a reply to the call that
waits, and a reply of success exists only for calls that were executed
(`SuccessIsExecuted`), also after a restart of the server.

### Pagers

*Paging file.* `PagesAreOwned` alone is not inductive: a terminated object must
leave nothing behind for the next object that gets its name, and a store must not
fall outside the maps. `PageInv` adds that the variables it speaks about are well
typed (`MapsOK`) and that only live objects have pages in their maps. The
interesting steps are the store of a new page, where an allocation may fail after
a block for map entries was taken, and `pf_dealloc`, which walks one or two levels.

*Page-ins.* On `PageInv` rests `DataInv`: a page that was paged out, in an object
without write errors, was refused for lack of room or is where a page-in looks for
it (`Kept`). That a write of one page does not harm another (`OthersKept`) is
where the ownership of the pages is used. A page in a two-level map also has its
second-level table, or the page-in would not find it.

*Device pager.* `DevInv` describes the descriptors, the objects and the messages
together. A descriptor is in the list before its arguments are recorded, and then
still names the request port of its last use; that use is over, so no message will
name the port again (`Spent`), and the search of the list finds the right
descriptor (`FirstOfOne`, `InitFinds`, `TerminateFinds`). An `init` message is the first
of its queue and a `terminate` message the last (`QueueOK`). The pager fills in
an object while it holds a reference to it (`RefsOK`), so that the object is not terminated under
it. There is one lemma per action for what it keeps, and a few for what the actions
have in common (`DescKept`, `QueueKept`, `PagesKept`).

### Imp

`ImpInv` has four parts: types, the table, the counts and the order.

*The table* (`Table`, `Counted`). An address has one place, at the index that its hash
gives, in one mbuf of the chain; a place that is not in use, or whose host is dead,
counts no message; and between two routines no mbuf of the chain has a count of zero.
`hostlookup`, `hostenter`, `hostrelease`, `hostreset` and `hostslowtimo` are described by one
lemma each of `ImpTableProofs` for what they do to the chain (`LookupIs` to `TimeoutIs`): they search a list
of mbufs, the first with a free place at the index, and unlink those whose count has
become zero.

*Counts.* `CountIsExact` is inductive with the table: `impsnd` counts exactly the message
that it puts into the output queue (`Sends`), and the IMP answers messages that were sent.
The number of messages to a host in the queue is a cardinality, and `SentShifted`,
`SentNoops`, `SentTail` and `SentAppend` say what the operations on the queue do to it.

*Order.* While no count was cleared and the output queue dropped nothing, packets are
held only for hosts at their limit (`Waits`). An RFNM breaks this for a moment, between
counting down and sending the first held packet (`Behind`), and `impsnd` restores it.

The places of a list that meet a condition are needed in their order (`NthOf`). Facts
about all of them are proved without induction over an operator: a smallest number at
which the fact fails exists, because the natural numbers are well founded, and is
refuted (`SmallestIs`).

### What is only model-checked

- All liveness properties: fairness and ENABLED are out of the proof system's reach.
- `NetMemory`: its searches and chains of requests are recursive operators, which the
  proof system cannot reason about.
- `Malloc`: its arithmetic is with powers of two of a variable exponent, wrapped around,
  which the SMT backend knows nothing about.
- `CThreads`, `LockClient`, `Nanny`, `InodePager`: their safety properties are within reach, and
  are not proved.

## 8. What is not modelled

*Size.* The text of the release has some 205,000 lines, most of them sequential
user programs, tables and machine code. The modules map a small share of it: the
parts above. The rest is listed under `components` with its reason; in short:

- *No text:* most of the kernel (`vm`, `kern`, `ipc`, `bsd`, `netinet`, `nfs`) is compressed.
- *Sequential tools and libraries:* compilers, shells, the debugger, `sdm`, the C and
  CMU libraries, the disassembler, boot blocks. Nothing in them interleaves or fails
  half-way in a way a model checker would add to a test.
- *Candidates:* routing tables and control blocks (`kernel/net`), the exception
  server, the remote file system, the environment manager and service server, the
  upgrade protocol of `sup`, the locked stdio of `mach/parallel`, and the MTASK build of
  C Threads.

Within the modelled parts: thread names and data, the DEBUG code, the SCHED_HINT
loop, the MTASK build, stack addresses and freeing of mutexes and conditions by
clients (C Threads); `netmemory_destroy`, the registry and the statistics
(NetMemory); record marking over TCP, authentication, the port mapper and the mount
list (RPC); F_GETLK and the encoding of arguments (LockClient); reassembly of
leaders and raw sockets (Imp); name and hash tables of ports and the file I/O (inode
pager); the parser, the packing of messages and the client side (nanny). Weakly
ordered memory is not modelled: the code is for the VAX, whose interlocked
instructions and byte stores the steps of CProcs stand for.
