------------------------------ MODULE CondVar ------------------------------
(***************************************************************************)
(* What the synchronisation layer of the C Threads library promises to its *)
(* clients: one mutex and the condition variables used with it.  Waiting   *)
(* releases the mutex and joins the queue of the condition in one step, a  *)
(* signal releases the longest waiting thread, a broadcast releases all of *)
(* them, and a thread returns from its wait only after it was released,    *)
(* holding the mutex again.  The MTHREAD build (CProcs) and the COROUTINE  *)
(* build (Coroutine) of the library are both shown to implement it.        *)
(***************************************************************************)
EXTENDS Sequences, Functions

CONSTANTS Thread,      \* the threads that use the mutex
          Condition,   \* the condition variables used with it
          NoThread     \* "the mutex is free"; not a member of Thread

VARIABLES holder,   \* the thread that holds the mutex, or NoThread
          waiters,  \* waiters[c]: threads waiting for condition c, oldest first
          released  \* threads signalled and not yet back from their wait

cvVars == <<holder, waiters, released>>

(* One mutex, the queues of its conditions, and who has been released.     *)
CVTypeOK ==
  /\ holder \in Thread \cup {NoThread}
  /\ waiters \in [Condition -> Seq(Thread)]
  /\ released \subseteq Thread

(* Threads inside a wait: they hold nothing until they return.             *)
Waiting(t) == t \in released \/ \E c \in Condition : t \in Range(waiters[c])

CVInit ==
  /\ holder = NoThread
  /\ waiters = [c \in Condition |-> <<>>]
  /\ released = {}

Lock(t) ==
  /\ holder = NoThread
  /\ ~Waiting(t)
  /\ holder' = t
  /\ UNCHANGED <<waiters, released>>

Unlock(t) ==
  /\ holder = t
  /\ holder' = NoThread
  /\ UNCHANGED <<waiters, released>>

Wait(t, c) ==
  /\ holder = t
  /\ holder' = NoThread
  /\ waiters' = [waiters EXCEPT ![c] = Append(@, t)]
  /\ UNCHANGED released

Signal(c) ==
  /\ waiters[c] # <<>>
  /\ released' = released \cup {Head(waiters[c])}
  /\ waiters' = [waiters EXCEPT ![c] = Tail(@)]
  /\ UNCHANGED holder

Broadcast(c) ==
  /\ waiters[c] # <<>>
  /\ released' = released \cup Range(waiters[c])
  /\ waiters' = [waiters EXCEPT ![c] = <<>>]
  /\ UNCHANGED holder

Return(t) ==
  /\ t \in released
  /\ holder = NoThread
  /\ holder' = t
  /\ released' = released \ {t}
  /\ UNCHANGED waiters

CVNext ==
  \/ \E t \in Thread : Lock(t) \/ Unlock(t) \/ Return(t)
  \/ \E t \in Thread, c \in Condition : Wait(t, c)
  \/ \E c \in Condition : Signal(c) \/ Broadcast(c)

CVSpec == CVInit /\ [][CVNext]_cvVars
=============================================================================
