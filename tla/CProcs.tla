------------------------------- MODULE CProcs -------------------------------
(***************************************************************************)
(* The MTHREAD build of the C Threads synchronisation layer:               *)
(* src/mach/lib/threads/cprocs.c and sync.c, with the macros of            *)
(* src/mach/mach_include/cthreads.h.  A cproc is a Mach thread; any number *)
(* of them run at the same time on shared memory.                          *)
(*                                                                         *)
(* One mutex and the conditions used with it are modelled, which is how    *)
(* cthreads.c uses them (cthread_lock with cthread_needed and cthread_idle,*)
(* t->lock with t->done).  Between calls of the library a cproc is "idle"  *)
(* and may call any operation its client code may legally call.            *)
(*                                                                         *)
(* Grain of atomicity: one step per access to a word that another cproc    *)
(* may touch at that moment.  A critical section of c->lock whose data are *)
(* only ever touched under that lock is one step, taken when the lock is   *)
(* free; the section of condition_wait that reads and then writes p->state *)
(* is split, because cproc_continue touches p->state without the lock.     *)
(***************************************************************************)
EXTENDS Naturals, Sequences, Functions

CONSTANTS Cproc,                 \* the cprocs
          Condition,             \* the condition variables of the mutex
          NO_CPROC,              \* the null cproc pointer
          NoCondition,           \* a cproc outside any condition operation
          condition_yield_limit  \* polls of p->state before blocking

ASSUME CProcsAssumption ==
  /\ condition_yield_limit \in Nat
  /\ NO_CPROC \notin Cproc
  /\ NoCondition \notin Condition

VARIABLES
  pc,         \* where each cproc is in the library
  cond,       \* the condition each cproc's current call is about
  held,       \* does the client code of the cproc hold the mutex?
  i,          \* loop counter of condition_wait
  state,      \* p->state
  old_state,  \* local of cproc_continue
  batch,      \* cprocs dequeued by a signal or broadcast, still to be continued
  mutex,      \* m->lock, 0 or 1
  lock,       \* c->lock, 0 or 1
  queue,      \* c->queue, head first
  wait_port   \* messages queued on p->wait_port

vars == <<pc, cond, held, i, state, old_state, batch,
          mutex, lock, queue, wait_port>>

CprocState == {"RUNNING", "SPINNING", "BLOCKED"}

Label == {"idle",
          "enter", "release", "poll", "recheck_lock", "recheck", "block",
          "receive", "done",
          "signal", "broadcast", "continue", "set_running", "send"}

(* The backlog given to every wait_port by cproc_alloc.                    *)
backlog == 1

Goto(p, l) == pc' = [pc EXCEPT ![p] = l]

Init ==
  /\ pc = [p \in Cproc |-> "idle"]
  /\ cond = [p \in Cproc |-> NoCondition]
  /\ held = [p \in Cproc |-> FALSE]
  /\ i = [p \in Cproc |-> 0]
  /\ state = [p \in Cproc |-> "RUNNING"]
  /\ old_state = [p \in Cproc |-> "RUNNING"]
  /\ batch = [p \in Cproc |-> <<>>]
  /\ mutex = 0
  /\ lock = [c \in Condition |-> 0]
  /\ queue = [c \in Condition |-> <<>>]
  /\ wait_port = [p \in Cproc |-> 0]
-----------------------------------------------------------------------------

(* Mutexes.  mutex_try_lock is an atomic test-and-set; the failed tests of *)
(* mutex_wait_lock and spin_lock change nothing and are not steps.         *)
mutex_lock(p) ==
  /\ pc[p] = "idle"
  /\ ~held[p]
  /\ mutex = 0
  /\ mutex' = 1
  /\ held' = [held EXCEPT ![p] = TRUE]
  /\ UNCHANGED <<pc, cond, i, state, old_state, batch, lock, queue, wait_port>>

mutex_unlock(p) ==
  /\ pc[p] = "idle"
  /\ held[p]
  /\ mutex' = 0
  /\ held' = [held EXCEPT ![p] = FALSE]
  /\ UNCHANGED <<pc, cond, i, state, old_state, batch, lock, queue, wait_port>>
-----------------------------------------------------------------------------
(* condition_wait(c, m), called with m held.                               *)
condition_wait(p, c) ==
  /\ pc[p] = "idle"
  /\ held[p]
  /\ cond' = [cond EXCEPT ![p] = c]
  /\ Goto(p, "enter")
  /\ UNCHANGED <<held, i, state, old_state, batch, mutex, lock, queue, wait_port>>

(* spin_lock; p->state = CPROC_SPINNING; cthread_queue_enq; spin_unlock.   *)
Enqueue(p) ==
  /\ pc[p] = "enter"
  /\ lock[cond[p]] = 0
  /\ state' = [state EXCEPT ![p] = "SPINNING"]
  /\ queue' = [queue EXCEPT ![cond[p]] = Append(@, p)]
  /\ Goto(p, "release")
  /\ UNCHANGED <<cond, held, i, old_state, batch, mutex, lock, wait_port>>

(* mutex_unlock(m), then the start of the polling loop.                    *)
ReleaseMutex(p) ==
  /\ pc[p] = "release"
  /\ mutex' = 0
  /\ held' = [held EXCEPT ![p] = FALSE]
  /\ i' = [i EXCEPT ![p] = 0]
  /\ Goto(p, "poll")
  /\ UNCHANGED <<cond, state, old_state, batch, lock, queue, wait_port>>

(* One round of the polling loop, or its exit when the limit is reached.   *)
(* condition_spin_limit is 0, so the loop before it makes no round.        *)
Poll(p) ==
  /\ pc[p] = "poll"
  /\ \/ /\ i[p] < condition_yield_limit
        /\ state[p] = "RUNNING"
        /\ Goto(p, "done")
        /\ UNCHANGED i
     \/ /\ i[p] < condition_yield_limit
        /\ state[p] # "RUNNING"
        /\ i' = [i EXCEPT ![p] = @ + 1]
        /\ UNCHANGED pc
     \/ /\ i[p] >= condition_yield_limit
        /\ Goto(p, "recheck_lock")
        /\ UNCHANGED i
  /\ UNCHANGED <<cond, held, state, old_state, batch, mutex, lock, queue, wait_port>>

RecheckLock(p) ==
  /\ pc[p] = "recheck_lock"
  /\ lock[cond[p]] = 0
  /\ lock' = [lock EXCEPT ![cond[p]] = 1]
  /\ Goto(p, "recheck")
  /\ UNCHANGED <<cond, held, i, state, old_state, batch, mutex, queue, wait_port>>

(* Variant: the early exit of the second check forgets spin_unlock.        *)
Recheck_keepsLock(p) ==
  /\ pc[p] = "recheck"
  /\ Goto(p, IF state[p] = "RUNNING" THEN "done" ELSE "block")
  /\ UNCHANGED <<cond, held, i, state, old_state, batch, mutex, lock, queue, wait_port>>

(* "Check again to avoid race": the read of p->state under c->lock.        *)
Recheck(p) ==
  /\ pc[p] = "recheck"
  /\ \/ /\ state[p] = "RUNNING"
        /\ lock' = [lock EXCEPT ![cond[p]] = 0]
        /\ Goto(p, "done")
     \/ /\ state[p] # "RUNNING"
        /\ Goto(p, "block")
        /\ UNCHANGED lock
  /\ UNCHANGED <<cond, held, i, state, old_state, batch, mutex, queue, wait_port>>

(* p->state = CPROC_BLOCKED; spin_unlock.                                  *)
Block(p) ==
  /\ pc[p] = "block"
  /\ state' = [state EXCEPT ![p] = "BLOCKED"]
  /\ lock' = [lock EXCEPT ![cond[p]] = 0]
  /\ Goto(p, "receive")
  /\ UNCHANGED <<cond, held, i, old_state, batch, mutex, queue, wait_port>>

(* msg_receive on the wait_port, without a timeout.                        *)
Receive(p) ==
  /\ pc[p] = "receive"
  /\ wait_port[p] > 0
  /\ wait_port' = [wait_port EXCEPT ![p] = @ - 1]
  /\ Goto(p, "done")
  /\ UNCHANGED <<cond, held, i, state, old_state, batch, mutex, lock, queue>>

(* Variant: condition_wait returns without taking the mutex back.          *)
Reacquire_noTest(p) ==
  /\ pc[p] = "done"
  /\ mutex' = 1
  /\ held' = [held EXCEPT ![p] = TRUE]
  /\ i' = [i EXCEPT ![p] = 0]
  /\ cond' = [cond EXCEPT ![p] = NoCondition]
  /\ Goto(p, "idle")
  /\ UNCHANGED <<state, old_state, batch, lock, queue, wait_port>>

(* ASSERT(p->state == CPROC_RUNNING); mutex_lock(m); return.               *)
Reacquire(p) ==
  /\ pc[p] = "done"
  /\ mutex = 0
  /\ mutex' = 1
  /\ held' = [held EXCEPT ![p] = TRUE]
  /\ i' = [i EXCEPT ![p] = 0]
  /\ cond' = [cond EXCEPT ![p] = NoCondition]
  /\ Goto(p, "idle")
  /\ UNCHANGED <<state, old_state, batch, lock, queue, wait_port>>
-----------------------------------------------------------------------------
(* condition_signal and condition_broadcast test the queue without the     *)
(* lock and do nothing when they see it empty.                             *)
condition_signal(p, c) ==
  /\ pc[p] = "idle"
  /\ queue[c] # <<>>
  /\ cond' = [cond EXCEPT ![p] = c]
  /\ Goto(p, "signal")
  /\ UNCHANGED <<held, i, state, old_state, batch, mutex, lock, queue, wait_port>>

condition_broadcast(p, c) ==
  /\ pc[p] = "idle"
  /\ queue[c] # <<>>
  /\ cond' = [cond EXCEPT ![p] = c]
  /\ Goto(p, "broadcast")
  /\ UNCHANGED <<held, i, state, old_state, batch, mutex, lock, queue, wait_port>>

(* Where a signal or broadcast goes once rest are still to be continued.   *)
ContinueOrReturn(p, rest) ==
  /\ batch' = [batch EXCEPT ![p] = rest]
  /\ IF rest = <<>>
     THEN Goto(p, "idle") /\ cond' = [cond EXCEPT ![p] = NoCondition]
     ELSE Goto(p, "continue") /\ UNCHANGED cond

(* Variant: the youngest waiter is signalled.                              *)
cond_signal_lifo(p) ==
  /\ pc[p] = "signal"
  /\ lock[cond[p]] = 0
  /\ queue[cond[p]] # <<>>
  /\ ContinueOrReturn(p, <<queue[cond[p]][Len(queue[cond[p]])]>>)
  /\ queue' = [queue EXCEPT ![cond[p]] = SubSeq(@, 1, Len(@) - 1)]
  /\ UNCHANGED <<held, i, state, old_state, mutex, lock, wait_port>>

(* The locked section of cond_signal: dequeue the head, if any.            *)
cond_signal(p) ==
  /\ pc[p] = "signal"
  /\ lock[cond[p]] = 0
  /\ \/ /\ queue[cond[p]] = <<>>
        /\ ContinueOrReturn(p, <<>>)
        /\ UNCHANGED queue
     \/ /\ queue[cond[p]] # <<>>
        /\ ContinueOrReturn(p, <<Head(queue[cond[p]])>>)
        /\ queue' = [queue EXCEPT ![cond[p]] = Tail(@)]
  /\ UNCHANGED <<held, i, state, old_state, mutex, lock, wait_port>>

(* The locked section of cond_broadcast: take over the whole queue.        *)
cond_broadcast(p) ==
  /\ pc[p] = "broadcast"
  /\ lock[cond[p]] = 0
  /\ ContinueOrReturn(p, queue[cond[p]])
  /\ queue' = [queue EXCEPT ![cond[p]] = <<>>]
  /\ UNCHANGED <<held, i, state, old_state, mutex, lock, wait_port>>

(* cproc_continue of the first cproc of the batch, without c->lock:        *)
(* old_state = p->state, then p->state = CPROC_RUNNING, then the message.  *)
ReadOldState(p) ==
  /\ pc[p] = "continue"
  /\ old_state' = [old_state EXCEPT ![p] = state[Head(batch[p])]]
  /\ Goto(p, "set_running")
  /\ UNCHANGED <<cond, held, i, state, batch, mutex, lock, queue, wait_port>>

(* Variant: the message is sent to a spinning cproc too.                   *)
SetRunning_alwaysSends(p) ==
  /\ pc[p] = "set_running"
  /\ state' = [state EXCEPT ![Head(batch[p])] = "RUNNING"]
  /\ Goto(p, "send")
  /\ UNCHANGED <<cond, held, i, old_state, batch, mutex, lock, queue, wait_port>>

SetRunning(p) ==
  /\ pc[p] = "set_running"
  /\ state' = [state EXCEPT ![Head(batch[p])] = "RUNNING"]
  /\ old_state' = [old_state EXCEPT ![p] = "RUNNING"]
  /\ IF old_state[p] # "BLOCKED"
     THEN ContinueOrReturn(p, Tail(batch[p]))
     ELSE Goto(p, "send") /\ UNCHANGED <<cond, batch>>
  /\ UNCHANGED <<held, i, mutex, lock, queue, wait_port>>

(* msg_send with SEND_TIMEOUT 0: a full port loses the message.            *)
Send(p) ==
  /\ pc[p] = "send"
  /\ LET q == Head(batch[p]) IN
     wait_port' = [wait_port EXCEPT ![q] = IF @ < backlog THEN @ + 1 ELSE @]
  /\ ContinueOrReturn(p, Tail(batch[p]))
  /\ UNCHANGED <<held, i, state, old_state, mutex, lock, queue>>
-----------------------------------------------------------------------------
(* The steps of a call in progress; Call is what client code may start.    *)
Step(p) ==
  \/ Enqueue(p) \/ ReleaseMutex(p) \/ Poll(p) \/ RecheckLock(p) \/ Recheck(p)
  \/ Block(p) \/ Receive(p) \/ Reacquire(p)
  \/ cond_signal(p) \/ cond_broadcast(p)
  \/ ReadOldState(p) \/ SetRunning(p) \/ Send(p)

Call(p) ==
  \/ mutex_lock(p) \/ mutex_unlock(p)
  \/ \E c \in Condition :
       condition_wait(p, c) \/ condition_signal(p, c) \/ condition_broadcast(p, c)

Next == \E p \in Cproc : Step(p) \/ Call(p)

Spec == Init /\ [][Next]_vars

(* The scheduler runs every cproc, and a spinning cproc gets the lock in   *)
(* the end if the lock is free again and again.                            *)
Fairness ==
  \A p \in Cproc :
    /\ WF_vars(Recheck(p)) /\ WF_vars(Block(p))
    /\ WF_vars(ReadOldState(p)) /\ WF_vars(SetRunning(p)) /\ WF_vars(Send(p))
    /\ SF_vars(cond_signal(p) \/ cond_broadcast(p))

FairSpec == Spec /\ Fairness
-----------------------------------------------------------------------------
(* Every variable has its type.                                            *)
TypeOK ==
  /\ pc \in [Cproc -> Label]
  /\ cond \in [Cproc -> Condition \cup {NoCondition}]
  /\ held \in [Cproc -> BOOLEAN]
  /\ i \in [Cproc -> 0 .. condition_yield_limit]
  /\ state \in [Cproc -> CprocState]
  /\ old_state \in [Cproc -> CprocState]
  /\ batch \in [Cproc -> Seq(Cproc)]
  /\ mutex \in {0, 1}
  /\ lock \in [Condition -> {0, 1}]
  /\ queue \in [Condition -> Seq(Cproc)]
  /\ wait_port \in [Cproc -> 0 .. backlog]

(* A cproc between its enqueueing and its return from condition_wait.      *)
InWait(p) == pc[p] \in {"release", "poll", "recheck_lock", "recheck", "block",
                        "receive", "done"}

Enqueued(p) == \E c \in Condition : p \in Range(queue[c])
Dequeued(p) == \E q \in Cproc : p \in Range(batch[q])

(* The mutex word is 1 exactly while one client holds the mutex, and no    *)
(* two hold it: in particular a cproc that comes back from condition_wait  *)
(* really has the mutex, whatever the other cprocs did in the meantime.    *)
MutexExclusion ==
  /\ \A p, q \in Cproc : held[p] /\ held[q] => p = q
  /\ mutex = 1 <=> \E p \in Cproc : held[p]

(* A cproc has one "next" field, so it may be on one list only: the queue  *)
(* of one condition or the private list of one signaller, once.            *)
OneLink ==
  /\ \A c \in Condition : IsInjective(queue[c])
  /\ \A q \in Cproc : IsInjective(batch[q])
  /\ \A c, d \in Condition : c # d => Range(queue[c]) \cap Range(queue[d]) = {}
  /\ \A q, r \in Cproc : q # r => Range(batch[q]) \cap Range(batch[r]) = {}
  /\ \A p \in Cproc : ~(Enqueued(p) /\ Dequeued(p))

(* A wakeup message is never left over for a later wait: one is queued or  *)
(* about to be sent only to a cproc that is in msg_receive for it, so the  *)
(* SEND_TIMED_OUT that cproc_continue tolerates does not happen.           *)
WakeupMessageExpected ==
  \A p \in Cproc :
    /\ wait_port[p] > 0 => pc[p] = "receive" /\ ~Enqueued(p) /\ ~Dequeued(p)
    /\ pc[p] = "send" => pc[Head(batch[p])] = "receive"

(* The ASSERT at the end of condition_wait: a cproc that stops waiting     *)
(* finds itself RUNNING, though its own store of BLOCKED and the           *)
(* signaller's store of RUNNING are not ordered by a lock.                 *)
RunningWhenDone == \A p \in Cproc : pc[p] = "done" => state[p] = "RUNNING"

(* condition_wait ends only because a signal or broadcast took this cproc  *)
(* off the queue and cproc_continue finished with it: nobody keeps a       *)
(* pointer to a cproc that is about to return and to be enqueued again.    *)
NoSpuriousReturn ==
  \A p \in Cproc : pc[p] \in {"done", "idle"} => ~Enqueued(p) /\ ~Dequeued(p)

(* The layer implements an atomic release-and-wait with first-come         *)
(* first-served signals.  The abstract wait is the enqueueing: from there  *)
(* on the mutex counts as released, though its word is cleared later.      *)
Holders == {p \in Cproc : held[p] /\ pc[p] # "release"}

HolderAmong(H) == IF H = {} THEN NO_CPROC ELSE CHOOSE p \in H : TRUE

Released == {p \in Cproc : InWait(p) /\ ~Enqueued(p)}

CV == INSTANCE CondVar WITH
        Thread <- Cproc,
        NoThread <- NO_CPROC,
        holder <- HolderAmong(Holders),
        waiters <- queue,
        released <- Released

(* Refinement of CondVar: waiting is atomic, wakeups are not spurious, the *)
(* oldest waiter is signalled first, and a waiter returns with the mutex.  *)
ImplementsCondVar == CV!CVSpec

(* Every signal and broadcast that started comes to its end: no step of a  *)
(* waiter leaves c->lock held.                                             *)
SignallerReturns ==
  \A p \in Cproc :
    []<>(pc[p] \notin {"signal", "broadcast", "continue", "set_running", "send"})

(* "If thread is just spinning, setting its state to CPROC_RUNNING will    *)
(* suffice to wake it up" (cproc_continue): a cproc that sleeps in         *)
(* msg_receive is still on the queue, has its wakeup message, or is in the *)
(* hands of a signaller.  Otherwise nobody can ever wake it.               *)
SleeperCanBeWoken ==
  \A p \in Cproc :
    pc[p] = "receive" => Enqueued(p) \/ Dequeued(p) \/ wait_port[p] > 0
=============================================================================
