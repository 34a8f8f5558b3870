----------------------------- MODULE ForkLocks ------------------------------
(***************************************************************************)
(* The locks of the C Threads library, the order in which its functions    *)
(* nest them, and what fork() of a multi-threaded program leaves of them   *)
(* in the child: fork.c, cthreads.c, cprocs.c, stack.c, malloc.c and       *)
(* mig_support.c of src/mach/lib/threads, MTHREAD build.                   *)
(*                                                                         *)
(* Of each function the model keeps the locks it takes and releases, the   *)
(* functions it calls in between, and what it does to the reply port.  A   *)
(* cproc has a sequence of such steps still to do; a call is replaced by   *)
(* the body of the function, and a function with branches has several      *)
(* bodies.  Every Mach kernel call is made through an interface routine    *)
(* that begins with mig_get_reply_port.                                    *)
(***************************************************************************)
EXTENDS Naturals, Sequences

CONSTANTS Cproc,     \* the cprocs; each runs a thread with its own record
          NLISTS,    \* NBUCKETS of malloc.c: the number of its free lists
          Free       \* "nobody": the owner of a free lock

ForkLocksAssumption == NLISTS \in Nat \ {0} /\ Free \notin Cproc

VARIABLES
  owner,          \* who holds each lock, or Free
  todo,           \* the steps each cproc still has to do in the library
  reply_port,     \* p->reply_port: null, the thread's own one, or its own
  multithreaded,  \* set by mig_init
  child           \* Free in the original process, the forking cproc in the child

vars == <<owner, todo, reply_port, multithreaded, child>>

cthread_lock == <<"cthread_lock", 0>>
cthread_free_lock == <<"cthread_free_lock", 0>>
malloc_lock == <<"malloc_lock", 0>>
cproc_lock == <<"cproc_lock", 0>>
initial_stack_lock == <<"initial_stack_lock", 0>>
reply_port_lock == <<"reply_port_lock", 0>>
bucket_lock(b) == <<"bucket_lock", b>>
record_lock(p) == <<"record_lock", p>>   \* t->lock of the thread on cproc p

Buckets == 1 .. NLISTS

(* The locks that fork() takes, and those that are only taken by a thread  *)
(* that holds one of them.                                                 *)
CoveredLocks == {cthread_lock, cthread_free_lock, malloc_lock, cproc_lock,
                 initial_stack_lock} \cup {bucket_lock(b) : b \in Buckets}
Locks == CoveredLocks \cup {reply_port_lock} \cup {record_lock(p) : p \in Cproc}

(* The steps.                                                              *)
Acquire(l) == <<"acquire", l>>
Release(l) == <<"release", l>>
Call(f) == <<"call", f>>
SetPort(x) == <<"set_port", x>>
Under(l, body) == <<Acquire(l)>> \o body \o <<Release(l)>>
Rpc == Call("mig_get_reply_port")

Init ==
  /\ owner = [l \in Locks |-> Free]
  /\ todo = [p \in Cproc |-> <<>>]
  /\ reply_port = [p \in Cproc |-> "null"]
  /\ multithreaded = TRUE
  /\ child = Free
-----------------------------------------------------------------------------
(* The bodies of the functions.                                            *)

(* port_allocate is a kernel call itself and comes back here, so the       *)
(* thread's own reply port is put in place for it.                         *)
mig_get_reply_port(p) ==
  {IF multithreaded /\ reply_port[p] = "null"
   THEN Under(reply_port_lock, <<SetPort("thread_reply"), Rpc, SetPort("own")>>)
   ELSE <<>>}

mig_dealloc_reply_port(p) ==
  {IF multithreaded /\ reply_port[p] = "own"
   THEN Under(reply_port_lock, <<SetPort("thread_reply"), Rpc, SetPort("null")>>)
   ELSE <<>>}

(* vm_allocate is only needed when the pool does not suffice.              *)
more_memory == {Under(malloc_lock, <<>>), Under(malloc_lock, <<Rpc>>)}

(* malloc takes the lock of its free list, and keeps it in more_memory.    *)
malloc ==
  {Under(bucket_lock(b), s) : b \in Buckets, s \in {<<>>, <<Call("more_memory")>>}}

free == {Under(bucket_lock(b), <<>>) : b \in Buckets}

cthread_free == {Under(cthread_free_lock, <<>>)}

(* A record from the free list, or from malloc when it looks or is empty.  *)
cthread_alloc == {Under(cthread_free_lock, <<>>), <<Call("malloc")>>,
                  Append(Under(cthread_free_lock, <<>>), Call("malloc"))}

cproc_alloc == {<<Call("malloc"), Rpc>> \o Under(cproc_lock, <<>>)}

(* The initial stack again, after a fork() got rid of the main thread, or  *)
(* a new segment.                                                          *)
alloc_stack == {<<Rpc>>, Append(Under(initial_stack_lock, <<>>), Rpc)}

cproc_create == {<<Call("cproc_alloc"), Call("alloc_stack"), Rpc>>}

cthread_fork ==
  {Under(cthread_lock, <<Call("cthread_alloc")>>),
   Under(cthread_lock, <<Call("cthread_alloc"), Call("cproc_create")>>)}

(* cthread_join and cthread_detach of another thread, and the end of one's *)
(* own thread in cthread_body.                                             *)
cthread_join ==
  {Append(Under(record_lock(q), <<>>), Call("cthread_free")) : q \in Cproc}

(* The way of cthread_body to the queue of threads; cthread_exit.          *)
cthread_body == {Under(cthread_lock, <<>>)}

BucketLocks == [b \in Buckets |-> Acquire(bucket_lock(b))]

(* Variants: malloc_lock is taken before the locks of the free lists, or   *)
(* the free lists are not locked.                                          *)
malloc_fork_prepare_lockFirst == <<Acquire(malloc_lock)>> \o BucketLocks \o <<Release(malloc_lock)>>
malloc_fork_prepare_none == <<>>

malloc_fork_prepare == BucketLocks

(* Variant: one of the locks is forgotten.                                 *)
malloc_fork_parent_short ==
  [b \in 1 .. NLISTS - 1 |-> Release(bucket_lock(NLISTS + 1 - b))]

malloc_fork_parent == [b \in Buckets |-> Release(bucket_lock(NLISTS + 1 - b))]

cthread_fork_prepare ==
  <<Acquire(cthread_lock), Acquire(cthread_free_lock)>> \o malloc_fork_prepare

cthread_fork_parent ==
  malloc_fork_parent \o <<Release(cthread_free_lock), Release(cthread_lock)>>

(* In the child: mach_init has made the interfaces single-threaded; the    *)
(* locks are released, what belonged to the others is freed, and mig_init  *)
(* makes the interfaces multi-threaded again.                              *)
cthread_fork_child ==
  cthread_fork_parent \o <<Rpc, Call("free"), Call("mig_init")>>

fork == {cthread_fork_prepare \o <<Call("unix_fork")>>}

Body(f, p) ==
  CASE f = "mig_get_reply_port" -> mig_get_reply_port(p)
    [] f = "mig_dealloc_reply_port" -> mig_dealloc_reply_port(p)
    [] f = "more_memory" -> more_memory
    [] f = "malloc" -> malloc
    [] f = "free" -> free
    [] f = "cthread_free" -> cthread_free
    [] f = "cthread_alloc" -> cthread_alloc
    [] f = "cproc_alloc" -> cproc_alloc
    [] f = "alloc_stack" -> alloc_stack
    [] f = "cproc_create" -> cproc_create
    [] f = "cthread_fork" -> cthread_fork
    [] f = "cthread_join" -> cthread_join
    [] f = "cthread_body" -> cthread_body
    [] f = "fork" -> fork

(* What client code and the library's own threads call.                    *)
Entry == {"mig_get_reply_port", "mig_dealloc_reply_port", "malloc", "free",
          "cthread_fork", "cthread_join", "cthread_body", "fork"}
-----------------------------------------------------------------------------
Alive(p) == child \in {Free, p}
Rest(p) == Tail(todo[p])
At(p, kind) == Alive(p) /\ todo[p] # <<>> /\ Head(todo[p])[1] = kind

(* A thread calls the library.                                             *)
Enter(p) ==
  /\ Alive(p) /\ todo[p] = <<>>
  /\ \E f \in Entry : todo' = [todo EXCEPT ![p] = <<Call(f)>>]
  /\ UNCHANGED <<owner, reply_port, multithreaded, child>>

(* A call is replaced by one of the bodies of the function.                *)
Expand(p) ==
  /\ At(p, "call")
  /\ Head(todo[p])[2] \notin {"unix_fork", "mig_init"}
  /\ \E body \in Body(Head(todo[p])[2], p) :
       todo' = [todo EXCEPT ![p] = body \o Rest(p)]
  /\ UNCHANGED <<owner, reply_port, multithreaded, child>>

(* spin_lock or mutex_lock, once the lock is free.                         *)
Lock(p) ==
  /\ At(p, "acquire")
  /\ owner[Head(todo[p])[2]] = Free
  /\ owner' = [owner EXCEPT ![Head(todo[p])[2]] = p]
  /\ todo' = [todo EXCEPT ![p] = Rest(p)]
  /\ UNCHANGED <<reply_port, multithreaded, child>>

Unlock(p) ==
  /\ At(p, "release")
  /\ owner' = [owner EXCEPT ![Head(todo[p])[2]] = Free]
  /\ todo' = [todo EXCEPT ![p] = Rest(p)]
  /\ UNCHANGED <<reply_port, multithreaded, child>>

SetReplyPort(p) ==
  /\ At(p, "set_port")
  /\ reply_port' = [reply_port EXCEPT ![p] = Head(todo[p])[2]]
  /\ todo' = [todo EXCEPT ![p] = Rest(p)]
  /\ UNCHANGED <<owner, multithreaded, child>>

(* The parent's return from the system call, and the way into the child,   *)
(* where the other cprocs are gone, mach_init has called mig_init(0),      *)
(* cproc_fork_child clears cproc_lock and the reply port of p, and every   *)
(* other lock is as it was.                                                *)
unix_fork(p) ==
  /\ At(p, "call") /\ Head(todo[p])[2] = "unix_fork"
  /\ \/ /\ todo' = [todo EXCEPT ![p] = cthread_fork_parent]
        /\ UNCHANGED <<owner, reply_port, multithreaded, child>>
     \/ /\ child = Free
        /\ child' = p
        /\ multithreaded' = FALSE
        /\ owner' = [owner EXCEPT ![cproc_lock] = Free]
        /\ reply_port' = [reply_port EXCEPT ![p] = "null"]
        /\ todo' = [q \in Cproc |-> IF q = p THEN cthread_fork_child ELSE <<>>]

mig_init(p) ==
  /\ At(p, "call") /\ Head(todo[p])[2] = "mig_init"
  /\ multithreaded' = TRUE
  /\ todo' = [todo EXCEPT ![p] = Rest(p)]
  /\ UNCHANGED <<owner, reply_port, child>>

Step(p) ==
  \/ Expand(p) \/ Lock(p) \/ Unlock(p) \/ SetReplyPort(p)
  \/ unix_fork(p) \/ mig_init(p)

Next == \E p \in Cproc : Enter(p) \/ Step(p)

Spec == Init /\ [][Next]_vars

(* A cproc in the library is scheduled, and gets a lock that is free again *)
(* and again.                                                              *)
Fairness == \A p \in Cproc : SF_vars(Step(p))
-----------------------------------------------------------------------------
(* The lock that p waits for is held by q.                                 *)
WaitsFor(p, q) == At(p, "acquire") /\ owner[Head(todo[p])[2]] = q

(* No set of cprocs waits for each other, or a cproc for itself: the       *)
(* functions nest the locks in one order, fork() takes them in that order, *)
(* and the kernel call inside mig_get_reply_port does not come back to     *)
(* reply_port_lock.                                                        *)
NoCircularWait ==
  \A S \in (SUBSET Cproc) \ {{}} : \E p \in S : \A q \in S : ~WaitsFor(p, q)

(* The locks that fork() takes cover those taken inside them: in the child *)
(* malloc_lock and initial_stack_lock are not held by a thread that is     *)
(* gone though fork() does not take them, nor are the locks it took.  This *)
(* leaves out reply_port_lock and the locks of the records, which any      *)
(* thread may hold at the moment of unix_fork (LocksFreedInChild).         *)
ChildOwnsCoveredLocks ==
  child # Free => \A l \in CoveredLocks : owner[l] \in {Free, child}

(* Every call of the library returns, whatever the other cprocs do.        *)
CallsReturn ==
  \A p \in Cproc : []<>(todo[p] = <<>> \/ child # Free)

(* "All cthread library critical section locks are acquired before a       *)
(* fork() and released afterwards to insure no cthread data structure is   *)
(* left in an inconsistent state in the child" (cthread_fork_prepare): no  *)
(* lock that the child can still use, that of the reply ports and that of  *)
(* its own record included, is held by a thread that is gone.              *)
LocksFreedInChild ==
  child # Free =>
    \A l \in CoveredLocks \cup {reply_port_lock, record_lock(child)} :
      owner[l] \in {Free, child}
=============================================================================
