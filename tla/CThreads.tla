------------------------------ MODULE CThreads ------------------------------
(***************************************************************************)
(* The life of a C thread: src/mach/lib/threads/cthreads.c.  cthread_fork  *)
(* queues a thread record, a pool of cprocs takes records off the queue and*)
(* runs them, cthread_join and cthread_detach dispose of the records, and  *)
(* the main thread's cthread_exit waits for all the others.                *)
(*                                                                         *)
(* Mutexes and conditions are used as CondVar promises them: a section of  *)
(* cthread_lock or t->lock is one step, waiting joins the queue of a       *)
(* condition in that same step, and a signal releases the oldest waiter.   *)
(* Whatever the code does after an unlock is a step of its own, and so is  *)
(* every condition_signal made without the lock.                           *)
(*                                                                         *)
(* Client code: a thread may fork, join or detach each thread it forked at *)
(* most once, change the limit, and return.  A thread's function returns   *)
(* the number of its invocation, so that results can be told apart.        *)
(***************************************************************************)
EXTENDS Naturals, FiniteSets, Sequences, SequencesExt

CONSTANTS Cproc,      \* the cprocs that thread_create can provide
          Record,     \* the cthread records that malloc can provide, a set of numbers
          NO_CTHREAD, \* the null record
          MaxForks,   \* bound: calls of cthread_fork
          MaxUnixForks, \* bound: calls of fork()
          Limits      \* the arguments client code gives to cthread_set_limit

CThreadsAssumption ==
  /\ MaxForks \in Nat /\ MaxUnixForks \in Nat
  /\ Limits \subseteq Nat
  /\ Record \subseteq Nat /\ NO_CTHREAD \notin Record

VARIABLES
  cthreads,       \* queue of records waiting for a cproc
  free_cthreads,  \* free list of records, head first
  n_cprocs, n_cthreads, max_cprocs,
  cthread_needed, \* cprocs waiting for a thread to run
  cthread_idle,   \* the main thread waiting for the others to end
  record,         \* the cthread records; use is "none" until malloc provides one,
                  \* arg the invocation it stands for, done the waiters of t->done
  pc,             \* where each cproc is
  incarnation,    \* p->incarnation
  t,              \* the record a cproc's current call is about
  want,           \* the invocation that a join in progress is meant for
  handles,        \* threads that were forked and neither joined nor detached
  forks,          \* calls of cthread_fork so far
  unix_forks,     \* calls of fork() on the way to this process
  status          \* of the process: running, exited, or undone by a double free

vars == <<cthreads, free_cthreads, n_cprocs, n_cthreads, max_cprocs,
          cthread_needed, cthread_idle, record, pc, incarnation, t, want,
          handles, forks, unix_forks, status>>

counters == <<n_cprocs, n_cthreads, max_cprocs>>
client == <<want, handles, forks, unix_forks, status>>

Flag == {"T_MAIN", "T_RETURNED", "T_DETACHED"}

initial_cthread(u, n) ==
  [use |-> u, state |-> {}, arg |-> n, result |-> 0, done |-> <<>>]

Goto(p, l) == pc' = [pc EXCEPT ![p] = l]

(* After cthread_init: the main thread runs on the first cproc.            *)
Init ==
  \E p \in Cproc, r \in {Min(Record)} :
    /\ cthreads = <<>> /\ free_cthreads = <<>>
    /\ n_cprocs = 1 /\ n_cthreads = 1 /\ max_cprocs = 0
    /\ cthread_needed = <<>> /\ cthread_idle = <<>>
    /\ record = [x \in Record |->
                   IF x = r THEN [initial_cthread("used", 0) EXCEPT !.state = {"T_MAIN"}]
                   ELSE initial_cthread("none", 0)]
    /\ pc = [q \in Cproc |-> IF q = p THEN "run" ELSE "none"]
    /\ incarnation = [q \in Cproc |-> IF q = p THEN r ELSE NO_CTHREAD]
    /\ t = [q \in Cproc |-> NO_CTHREAD] /\ want = [q \in Cproc |-> 0]
    /\ handles = {} /\ forks = 0 /\ unix_forks = 0 /\ status = "running"
-----------------------------------------------------------------------------
(* condition_signal: release the oldest waiter of q, if there is one, into *)
(* the state where it takes the mutex again.  from is the caller's own     *)
(* move, so that both are one update of pc.                                *)
condition_signal(q, from, l) ==
  pc' = IF q = <<>> THEN from ELSE [from EXCEPT ![Head(q)] = l]

Rest(q) == IF q = <<>> THEN q ELSE Tail(q)

(* cthread_free: push the record on the free list.                         *)
cthread_free(r) ==
  /\ free_cthreads' = <<r>> \o free_cthreads
  /\ record' = [record EXCEPT ![r].use = "free"]

(* cthread_alloc: the head of the free list, or a new record from malloc   *)
(* (the first one: records are alike until they are used).                 *)
cthread_alloc(r) ==
  IF free_cthreads # <<>>
  THEN r = Head(free_cthreads) /\ free_cthreads' = Tail(free_cthreads)
  ELSE r = Min({x \in Record : record[x].use = "none"}) /\ UNCHANGED free_cthreads

(* The invocation that runs on cproc p, and whether it is the main thread. *)
Self(p) == record[incarnation[p]].arg
IsMain(p) == "T_MAIN" \in record[incarnation[p]].state
-----------------------------------------------------------------------------
(* With n threads, does cthread_fork create another cproc?                 *)
NeedsCproc(n) == n > n_cprocs /\ (max_cprocs = 0 \/ n_cprocs < max_cprocs)

(* cthread_fork, under cthread_lock: allocate and queue the record, and    *)
(* create a cproc when there are more threads than cprocs and the limit    *)
(* allows it.                                                              *)
cthread_fork(p) ==
  /\ pc[p] = "run" /\ status = "running"
  /\ forks < MaxForks
  /\ \E r \in Record :
       /\ cthread_alloc(r)
       /\ record' = [record EXCEPT ![r] = initial_cthread("used", forks + 1)]
       /\ cthreads' = Append(cthreads, r)
       /\ handles' = handles \cup {[record |-> r, arg |-> forks + 1, by |-> Self(p)]}
  /\ forks' = forks + 1
  /\ n_cthreads' = n_cthreads + 1
  /\ IF NeedsCproc(n_cthreads')
     THEN /\ n_cprocs' = n_cprocs + 1
          /\ \E child \in Cproc :
               /\ pc[child] = "none"
               /\ pc' = [pc EXCEPT ![p] = "signal_needed", ![child] = "top"]
     ELSE /\ Goto(p, "signal_needed")
          /\ UNCHANGED n_cprocs
  /\ UNCHANGED <<max_cprocs, cthread_needed, cthread_idle, incarnation, t, want, unix_forks, status>>

(* Variant: the signal of cthread_fork is left out.                        *)
SignalNeeded_none(p) ==
  /\ pc[p] = "signal_needed" /\ status = "running"
  /\ Goto(p, "run")
  /\ UNCHANGED <<cthreads, free_cthreads, counters, cthread_needed, cthread_idle,
                 record, incarnation, t, client>>

(* The condition_signal(&cthread_needed) of cthread_fork, after the unlock.*)
SignalNeeded(p) ==
  /\ pc[p] = "signal_needed" /\ status = "running"
  /\ condition_signal(cthread_needed, [pc EXCEPT ![p] = "run"], "top")
  /\ cthread_needed' = Rest(cthread_needed)
  /\ UNCHANGED <<cthreads, free_cthreads, counters, cthread_idle, record,
                 incarnation, t, client>>

(* Variant: detaching frees the record though the thread still runs.       *)
cthread_detach_frees(p) ==
  /\ pc[p] = "run" /\ status = "running"
  /\ \E h \in handles :
       /\ h.by = Self(p)
       /\ handles' = handles \ {h}
       /\ t' = [t EXCEPT ![p] = h.record]
  /\ Goto(p, "detach_free")
  /\ UNCHANGED <<cthreads, free_cthreads, counters, cthread_needed, cthread_idle,
                 record, incarnation, want, forks, unix_forks, status>>

(* cthread_detach, under t->lock.                                          *)
cthread_detach(p) ==
  /\ pc[p] = "run" /\ status = "running"
  /\ \E h \in handles :
       /\ h.by = Self(p)
       /\ handles' = handles \ {h}
       /\ IF "T_RETURNED" \in record[h.record].state
          THEN /\ t' = [t EXCEPT ![p] = h.record]
               /\ Goto(p, "detach_free")
               /\ UNCHANGED record
          ELSE /\ record' = [record EXCEPT ![h.record].state = @ \cup {"T_DETACHED"}]
               /\ UNCHANGED <<t, pc>>
  /\ UNCHANGED <<cthreads, free_cthreads, counters, cthread_needed, cthread_idle,
                 incarnation, want, forks, unix_forks, status>>

(* The call of cthread_join.                                               *)
cthread_join(p) ==
  /\ pc[p] = "run" /\ status = "running"
  /\ \E h \in handles :
       /\ h.by = Self(p)
       /\ handles' = handles \ {h}
       /\ t' = [t EXCEPT ![p] = h.record]
       /\ want' = [want EXCEPT ![p] = h.arg]
  /\ Goto(p, "join")
  /\ UNCHANGED <<cthreads, free_cthreads, counters, cthread_needed, cthread_idle,
                 record, incarnation, forks, unix_forks, status>>

(* The loop of cthread_join, under t->lock: wait while not T_RETURNED.     *)
JoinTest(p) ==
  /\ pc[p] = "join" /\ status = "running"
  /\ IF "T_RETURNED" \in record[t[p]].state
     THEN Goto(p, "join_free") /\ UNCHANGED record
     ELSE /\ record' = [record EXCEPT ![t[p]].done = Append(@, p)]
          /\ Goto(p, "join_wait")
  /\ UNCHANGED <<cthreads, free_cthreads, counters, cthread_needed, cthread_idle,
                 incarnation, t, client>>

(* cthread_free after the unlock, in cthread_join and cthread_detach.      *)
FreeAfterUnlock(p) ==
  /\ pc[p] \in {"join_free", "detach_free"} /\ status = "running"
  /\ cthread_free(t[p])
  /\ t' = [t EXCEPT ![p] = NO_CTHREAD]
  /\ want' = [want EXCEPT ![p] = 0]
  /\ Goto(p, "run")
  /\ UNCHANGED <<cthreads, counters, cthread_needed, cthread_idle, incarnation,
                 handles, forks, unix_forks, status>>

cthread_set_limit(p) ==
  /\ pc[p] = "run" /\ status = "running"
  /\ max_cprocs' \in Limits
  /\ UNCHANGED <<cthreads, free_cthreads, n_cprocs, n_cthreads, cthread_needed,
                 cthread_idle, record, pc, incarnation, t, client>>
-----------------------------------------------------------------------------

(* n_cthreads once a cproc is back in the loop of cthread_body.            *)
ThreadsLeft(p) == IF pc[p] = "relock" THEN n_cthreads - 1 ELSE n_cthreads

(* A cproc in cthread_body takes cthread_lock, counts the thread it just   *)
(* ran as ended, and takes the next record off the queue.                  *)
Dispatch(p) ==
  /\ pc[p] \in {"top", "relock"} /\ status = "running"
  /\ n_cthreads' = ThreadsLeft(p)
  /\ cthreads # <<>>
  /\ cthreads' = Tail(cthreads)
  /\ t' = [t EXCEPT ![p] = Head(cthreads)]
  /\ Goto(p, "assoc")
  /\ UNCHANGED <<free_cthreads, n_cprocs, max_cprocs, cthread_needed,
                 cthread_idle, record, incarnation, client>>

(* cthread_assoc(self, t), after the unlock: the cproc assumes the thread's*)
(* identity and calls its function.                                        *)
Assoc(p) ==
  /\ pc[p] = "assoc" /\ status = "running"
  /\ incarnation' = [incarnation EXCEPT ![p] = t[p]]
  /\ t' = [t EXCEPT ![p] = NO_CTHREAD]
  /\ Goto(p, "run")
  /\ UNCHANGED <<cthreads, free_cthreads, counters, cthread_needed, cthread_idle,
                 record, client>>

(* Variant: an idle cproc does not signal cthread_idle.                    *)
GoIdle_silent(p) ==
  /\ pc[p] \in {"top", "relock"} /\ status = "running"
  /\ n_cthreads' = ThreadsLeft(p)
  /\ cthreads = <<>>
  /\ Goto(p, "idle_wait")
  /\ cthread_needed' = Append(cthread_needed, p)
  /\ UNCHANGED <<cthreads, free_cthreads, n_cprocs, max_cprocs, cthread_idle,
                 record, incarnation, t, client>>

(* The same with the queue empty: signal that this cproc is idle, in case  *)
(* the main thread waits to exit, and wait for the next thread.            *)
GoIdle(p) ==
  /\ pc[p] \in {"top", "relock"} /\ status = "running"
  /\ n_cthreads' = ThreadsLeft(p)
  /\ cthreads = <<>>
  /\ condition_signal(cthread_idle, [pc EXCEPT ![p] = "idle_wait"], "exit")
  /\ cthread_idle' = Rest(cthread_idle)
  /\ cthread_needed' = Append(cthread_needed, p)
  /\ UNCHANGED <<cthreads, free_cthreads, n_cprocs, max_cprocs, record,
                 incarnation, t, client>>

(* The thread's function returns, or calls cthread_exit: either way the    *)
(* result is stored and cthread_body goes on after its _setjmp.            *)
ThreadReturns(p) ==
  /\ pc[p] = "run" /\ status = "running"
  /\ Self(p) # 0
  /\ record' = [record EXCEPT ![incarnation[p]].result = Self(p)]
  /\ Goto(p, "finish")
  /\ UNCHANGED <<cthreads, free_cthreads, counters, cthread_needed, cthread_idle,
                 incarnation, t, client>>

(* cthread_body, under t->lock: leave the record to its joiner, or keep it *)
(* to free it when the thread was detached.  A thread that became the main *)
(* thread of a fork() child exits instead.                                 *)
Finish(p) ==
  /\ pc[p] = "finish" /\ status = "running"
  /\ \/ /\ IsMain(p)
        /\ Goto(p, "exit")
        /\ UNCHANGED <<record, t>>
     \/ /\ ~IsMain(p) /\ "T_DETACHED" \in record[incarnation[p]].state
        /\ t' = [t EXCEPT ![p] = incarnation[p]]
        /\ Goto(p, "finish_free")
        /\ UNCHANGED record
     \/ /\ ~IsMain(p) /\ "T_DETACHED" \notin record[incarnation[p]].state
        /\ t' = [t EXCEPT ![p] = incarnation[p]]
        /\ record' = [record EXCEPT ![incarnation[p]].state = @ \cup {"T_RETURNED"}]
        /\ Goto(p, "signal_done")
  /\ UNCHANGED <<cthreads, free_cthreads, counters, cthread_needed, cthread_idle,
                 incarnation, client>>

FinishFree(p) ==
  /\ pc[p] = "finish_free" /\ status = "running"
  /\ cthread_free(t[p])
  /\ t' = [t EXCEPT ![p] = NO_CTHREAD]
  /\ Goto(p, "unassoc")
  /\ UNCHANGED <<cthreads, counters, cthread_needed, cthread_idle, incarnation, client>>

(* Variant: a joiner does not test T_RETURNED again when it is woken.      *)
SignalDone_noRetest(p) ==
  /\ pc[p] = "signal_done" /\ status = "running"
  /\ condition_signal(record[t[p]].done, [pc EXCEPT ![p] = "unassoc"], "join_free")
  /\ record' = [record EXCEPT ![t[p]].done = Rest(@)]
  /\ t' = [t EXCEPT ![p] = NO_CTHREAD]
  /\ UNCHANGED <<cthreads, free_cthreads, counters, cthread_needed, cthread_idle,
                 incarnation, client>>

(* condition_signal(&t->done) after the unlock of t->lock: by now a joiner *)
(* may have freed the record, and cthread_fork may have given it away.     *)
SignalDone(p) ==
  /\ pc[p] = "signal_done" /\ status = "running"
  /\ condition_signal(record[t[p]].done, [pc EXCEPT ![p] = "unassoc"], "join")
  /\ record' = [record EXCEPT ![t[p]].done = Rest(@)]
  /\ t' = [t EXCEPT ![p] = NO_CTHREAD]
  /\ UNCHANGED <<cthreads, free_cthreads, counters, cthread_needed, cthread_idle,
                 incarnation, client>>

(* cthread_assoc(self, NO_CTHREAD), before cthread_lock is taken again.    *)
Unassoc(p) ==
  /\ pc[p] = "unassoc" /\ status = "running"
  /\ incarnation' = [incarnation EXCEPT ![p] = NO_CTHREAD]
  /\ Goto(p, "relock")
  /\ UNCHANGED <<cthreads, free_cthreads, counters, cthread_needed, cthread_idle,
                 record, t, client>>
-----------------------------------------------------------------------------
(* cthread_exit of the main thread: wait until it is the only one.         *)
cthread_exit(p) ==
  /\ pc[p] = "run" /\ status = "running"
  /\ IsMain(p)
  /\ Goto(p, "exit")
  /\ UNCHANGED <<cthreads, free_cthreads, counters, cthread_needed, cthread_idle,
                 record, incarnation, t, client>>

OthersLeft == n_cthreads > 1

ExitTest(p) ==
  /\ pc[p] = "exit" /\ status = "running"
  /\ IF OthersLeft
     THEN /\ cthread_idle' = Append(cthread_idle, p)
          /\ Goto(p, "exit_wait")
          /\ UNCHANGED status
     ELSE /\ status' = "exited"
          /\ UNCHANGED <<cthread_idle, pc>>
  /\ UNCHANGED <<cthreads, free_cthreads, counters, cthread_needed, record,
                 incarnation, t, want, handles, forks, unix_forks>>
-----------------------------------------------------------------------------
(* How often the child of a fork() by p calls free() on record r: once for *)
(* each other cproc that bears its name, and once if it is on the queue or *)
(* on the free list.                                                       *)
ChildFrees(p, r) ==
  Cardinality({q \in Cproc \ {p} : incarnation[q] = r})
  + (IF r \in ToSet(cthreads) THEN 1 ELSE 0)
  + (IF r \in ToSet(free_cthreads) THEN 1 ELSE 0)

(* The conditions and the two lists of the child start empty, and it counts*)
(* one cproc and one thread, without a limit.                              *)
ChildConditions == cthread_needed' = <<>> /\ cthread_idle' = <<>>

ChildLists == cthreads' = <<>> /\ free_cthreads' = <<>>

ChildCounts == n_cprocs' = 1 /\ n_cthreads' = 1 /\ max_cprocs' = 0

(* fork(), followed into the child.  cthread_fork_prepare takes the locks, *)
(* so the fork happens between two sections; cthread_fork_child frees what *)
(* belongs to the other threads and makes p the main thread.  When a record*)
(* is freed twice, or the record of p itself is freed, the heap is broken  *)
(* and the model stops there.                                              *)
fork(p) ==
  /\ pc[p] = "run" /\ status = "running"
  /\ unix_forks < MaxUnixForks
  /\ unix_forks' = unix_forks + 1
  /\ status' = IF ChildFrees(p, incarnation[p]) = 0 /\ \A r \in Record : ChildFrees(p, r) <= 1
               THEN "running" ELSE "corrupt"
  /\ ChildConditions /\ ChildLists /\ ChildCounts
  /\ record' = [r \in Record |->
                  IF r = incarnation[p] THEN [record[r] EXCEPT !.state = {"T_MAIN"}]
                  ELSE IF ChildFrees(p, r) > 0 THEN initial_cthread("none", 0)
                  ELSE record[r]]
  /\ pc' = [q \in Cproc |-> IF q = p THEN "run" ELSE "none"]
  /\ incarnation' = [q \in Cproc |-> IF q = p THEN incarnation[p] ELSE NO_CTHREAD]
  /\ t' = [q \in Cproc |-> NO_CTHREAD] /\ want' = [q \in Cproc |-> 0]
  /\ handles' = {}
  /\ UNCHANGED forks
-----------------------------------------------------------------------------
(* What client code may do in its thread, and what the library does.       *)
Client(p) ==
  \/ cthread_fork(p) \/ cthread_detach(p) \/ cthread_join(p)
  \/ cthread_set_limit(p) \/ ThreadReturns(p) \/ cthread_exit(p)
  \/ fork(p)

Library(p) ==
  \/ SignalNeeded(p) \/ JoinTest(p) \/ FreeAfterUnlock(p)
  \/ Dispatch(p) \/ Assoc(p) \/ GoIdle(p) \/ Finish(p) \/ FinishFree(p) \/ SignalDone(p)
  \/ Unassoc(p) \/ ExitTest(p)

Next == \E p \in Cproc : Client(p) \/ Library(p)

Spec == Init /\ [][Next]_vars

(* Every cproc inside the library is scheduled until it waits or returns.  *)
LibraryFairness == \A p \in Cproc : WF_vars(Library(p))

(* The client's functions end: a thread returns, main exits.               *)
ClientFairness ==
  \A p \in Cproc : WF_vars(ThreadReturns(p)) /\ WF_vars(cthread_exit(p))
-----------------------------------------------------------------------------

(* A record is freed once, and nobody is left who will use a free record   *)
(* as a thread: it is not queued, not run, not joined, not handed out.     *)
(* Only the late signal of cthread_body may still name it.                 *)
NoUseAfterFree ==
  /\ IsInjective(free_cthreads) /\ IsInjective(cthreads)
  /\ ToSet(free_cthreads) = {r \in Record : record[r].use = "free"}
  /\ \A r \in ToSet(free_cthreads) :
       /\ r \notin ToSet(cthreads)
       /\ \A h \in handles : h.record # r
       /\ \A p \in Cproc :
            /\ incarnation[p] = r => pc[p] \in {"signal_done", "unassoc"}
            /\ t[p] = r => pc[p] = "signal_done"

(* A join is answered by the thread it was called for: the record is not   *)
(* recycled under the joiner, though the wakeup it gets may come from the  *)
(* late signal of a thread that used the record before.                    *)
JoinGetsItsThread ==
  \A p \in Cproc : pc[p] \in {"join", "join_wait", "join_free"} =>
    LET r == record[t[p]] IN
    /\ r.use = "used" /\ r.arg = want[p] /\ "T_DETACHED" \notin r.state
    /\ pc[p] = "join_free" => r.result = want[p]

(* A forked thread starts, whatever the others do, when there is no limit. *)
QueuedThreadStarts ==
  \A r \in Record : []<>(r \notin ToSet(cthreads))

(* When the client's threads end, the process does: no join and no waiting *)
(* main thread misses its wakeup.  The child of a fork() exits too, unless *)
(* it was undone by a double free.                                         *)
ProcessExits == ClientFairness => <>(status # "running")

(* "All cthread library critical section locks are acquired before a       *)
(* fork() and released afterwards to insure no cthread data structure is   *)
(* left in an inconsistent state in the child" (cthread_fork_prepare): the *)
(* child frees each record of the other threads once, and not its own.     *)
ForkChildFreesOnce == status # "corrupt"
=============================================================================
