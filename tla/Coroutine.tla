----------------------------- MODULE Coroutine ------------------------------
(***************************************************************************)
(* The COROUTINE build of the C Threads synchronisation layer (cprocs.c,   *)
(* sync.c, ipc.c and unix.c of src/mach/lib/threads): the cprocs share one *)
(* Unix process, the one at the head of the ready queue runs, and it gives *)
(* the processor up only in cthread_yield, in condition_wait, when it      *)
(* creates a cproc and in the polling versions of blocking calls.          *)
(*                                                                         *)
(* A step is what the running cproc does up to its next switch or return   *)
(* to client code: nothing can come in between.  The c->lock sections are  *)
(* therefore never contended and leave no trace in the model.              *)
(***************************************************************************)
EXTENDS Naturals, FiniteSets, Sequences, Functions

CONSTANTS Cproc,      \* the cprocs that can be created
          Condition,  \* the condition variables of the mutex
          NO_CPROC    \* the null cproc pointer

CoroutineAssumption == NO_CPROC \notin Cproc

VARIABLES
  ready,      \* queue of runnable cprocs, the running one at the head
  n_blocked,  \* number of blocked cprocs
  queue,      \* c->queue, head first
  state,      \* p->state
  mutex,      \* m->lock, 0 or 1
  held,       \* does the client code of the cproc hold the mutex?
  pc,         \* where each cproc is: in client code ("run"), in mutex_lock ("lock"),
              \* in condition_wait, switched out or locking again ("wait"), or in a
              \* polling msg_send, msg_receive or select ("call")
  aborted     \* has "All C threads are blocked" been printed?

vars == <<ready, n_blocked, queue, state, mutex, held, pc, aborted>>

(* After cproc_init.                                                       *)
Init ==
  \E p \in Cproc :
    /\ ready = <<p>> /\ n_blocked = 0
    /\ queue = [c \in Condition |-> <<>>]
    /\ state = [q \in Cproc |-> "RUNNING"]
    /\ mutex = 0 /\ held = [q \in Cproc |-> FALSE]
    /\ pc = [q \in Cproc |-> IF q = p THEN "run" ELSE "none"]
    /\ aborted = FALSE

Goto(p, l) == pc' = [pc EXCEPT ![p] = l]

(* p is the running cproc and is at l.                                     *)
Running(p, l) == ~aborted /\ ready # <<>> /\ p = Head(ready) /\ pc[p] = l

Cprocs == {p \in Cproc : pc[p] # "none"}
-----------------------------------------------------------------------------
(* Variant: a cproc that yields stays at the head of the ready queue.      *)
Rotated_stays(q) == q

(* What cthread_yield leaves: the running cproc at the end of the queue.   *)
Rotated(q) == Append(Tail(q), Head(q))

cthread_yield(p) ==
  /\ Running(p, "run")
  /\ ready' = Rotated(ready)
  /\ UNCHANGED <<n_blocked, queue, state, mutex, held, pc, aborted>>

(* mutex_try_lock, or a yield and the same again: the loop of              *)
(* mutex_wait_lock for a cproc at l.                                       *)
TryLock(p, l) ==
  IF mutex = 0
  THEN /\ mutex' = 1
       /\ held' = [held EXCEPT ![p] = TRUE]
       /\ Goto(p, "run")
       /\ UNCHANGED ready
  ELSE /\ Goto(p, l)
       /\ ready' = Rotated(ready)
       /\ UNCHANGED <<mutex, held>>

mutex_lock(p) ==
  /\ Running(p, "run") /\ ~held[p]
  /\ TryLock(p, "lock")
  /\ UNCHANGED <<n_blocked, queue, state, aborted>>

(* A cproc that yielded in mutex_wait_lock is switched to again.           *)
RetryLock(p) ==
  /\ Running(p, "lock")
  /\ TryLock(p, "lock")
  /\ UNCHANGED <<n_blocked, queue, state, aborted>>

mutex_unlock(p) ==
  /\ Running(p, "run") /\ held[p]
  /\ mutex' = 0
  /\ held' = [held EXCEPT ![p] = FALSE]
  /\ UNCHANGED <<ready, n_blocked, queue, state, pc, aborted>>
-----------------------------------------------------------------------------
(* condition_wait up to cproc_switch: from the ready queue to the queue of *)
(* c, and the mutex is released.  With nobody left to run it gives up.     *)
condition_wait(p, c) ==
  /\ Running(p, "run") /\ held[p]
  /\ ready' = Tail(ready)
  /\ queue' = [queue EXCEPT ![c] = Append(@, p)]
  /\ state' = [state EXCEPT ![p] = "BLOCKED"]
  /\ n_blocked' = n_blocked + 1
  /\ mutex' = 0
  /\ held' = [held EXCEPT ![p] = FALSE]
  /\ Goto(p, "wait")
  /\ aborted' = (Tail(ready) = <<>>)

(* The rest of condition_wait once it is switched to: ASSERT, mutex_lock.  *)
Resume(p) ==
  /\ Running(p, "wait")
  /\ TryLock(p, "wait")
  /\ UNCHANGED <<n_blocked, queue, state, aborted>>

(* cproc_continue for every cproc of the list ps.                          *)
cproc_continue(ps) ==
  /\ ready' = ready \o ps
  /\ n_blocked' = n_blocked - Len(ps)
  /\ state' = [q \in Cproc |-> IF q \in Range(ps) THEN "RUNNING" ELSE state[q]]

(* Variant: the youngest waiter is signalled.                              *)
cond_signal_lifo(p, c) ==
  /\ Running(p, "run") /\ queue[c] # <<>>
  /\ queue' = [queue EXCEPT ![c] = SubSeq(@, 1, Len(@) - 1)]
  /\ cproc_continue(<<queue[c][Len(queue[c])]>>)
  /\ UNCHANGED <<mutex, held, pc, aborted>>

cond_signal(p, c) ==
  /\ Running(p, "run") /\ queue[c] # <<>>
  /\ queue' = [queue EXCEPT ![c] = Tail(@)]
  /\ cproc_continue(<<Head(queue[c])>>)
  /\ UNCHANGED <<mutex, held, pc, aborted>>

cond_broadcast(p, c) ==
  /\ Running(p, "run") /\ queue[c] # <<>>
  /\ queue' = [queue EXCEPT ![c] = <<>>]
  /\ cproc_continue(queue[c])
  /\ UNCHANGED <<mutex, held, pc, aborted>>
-----------------------------------------------------------------------------
(* cproc_create: the child runs first, its creator is next.                *)
cproc_create(p) ==
  /\ Running(p, "run")
  /\ \E child \in Cproc \ Cprocs :
       /\ ready' = <<child>> \o ready
       /\ Goto(child, "run")
  /\ UNCHANGED <<n_blocked, queue, state, mutex, held, aborted>>

(* One round of msg_send, msg_receive or select: the system call is made   *)
(* with a short timeout, and when that passes before the caller's deadline *)
(* the cproc yields and tries again.  A single thread makes the blocking   *)
(* call, which returns.                                                    *)
PollingCall(p) ==
  /\ Running(p, "run") \/ Running(p, "call")
  /\ \/ Goto(p, "run") /\ UNCHANGED ready
     \/ /\ Cardinality(Cprocs) > 1
        /\ Goto(p, "call")
        /\ ready' = Rotated(ready)
  /\ UNCHANGED <<n_blocked, queue, state, mutex, held, aborted>>

Library(p) == RetryLock(p) \/ Resume(p)

Client(p) ==
  \/ mutex_lock(p) \/ mutex_unlock(p) \/ cthread_yield(p)
  \/ cproc_create(p) \/ PollingCall(p)
  \/ \E c \in Condition :
       condition_wait(p, c) \/ cond_signal(p, c) \/ cond_broadcast(p, c)

Next == \E p \in Cproc : Library(p) \/ Client(p)

Spec == Init /\ [][Next]_vars

(* Client code that plays by the rules of coroutines, from some time on:   *)
(* it goes on, yields now and then, and does not give up the processor     *)
(* while it holds the mutex.                                               *)
Polite(p) ==
  \/ Library(p) \/ mutex_lock(p) \/ mutex_unlock(p) \/ cproc_create(p)
  \/ (cthread_yield(p) \/ PollingCall(p)) /\ (held[p] => UNCHANGED ready)
  \/ \E c \in Condition :
       condition_wait(p, c) \/ cond_signal(p, c) \/ cond_broadcast(p, c)

PoliteClients ==
  /\ <>[][\E p \in Cproc : Polite(p)]_vars
  /\ WF_vars(\E p \in Cproc : Polite(p))
  /\ \A p \in Cproc : SF_vars(~held[p] /\ cthread_yield(p))
-----------------------------------------------------------------------------
(* The abstract state: who holds the mutex, and who was taken off a queue  *)
(* and has not returned from condition_wait yet.                           *)
Holders == {p \in Cproc : held[p]}

HolderAmong(H) == IF H = {} THEN NO_CPROC ELSE CHOOSE p \in H : TRUE

Released == {p \in Cproc : pc[p] = "wait" /\ p \in Range(ready)}

CV == INSTANCE CondVar WITH
        Thread <- Cproc,
        NoThread <- NO_CPROC,
        holder <- HolderAmong(Holders),
        waiters <- queue,
        released <- Released

(* The COROUTINE build keeps the same promise as the MTHREAD build.        *)
CoroutineImplementsCondVar == CV!CVSpec

(* A signalled cproc returns from its wait, unless the process gives up,   *)
(* if client code yields and does not yield holding the mutex.             *)
SignalledReturns ==
  PoliteClients => \A p \in Cproc :
    []<>(pc[p] = "wait" /\ p \in Range(ready) => aborted)
=============================================================================
