---------------------------- MODULE CProcsProofs ----------------------------
(* The types and the safety invariants of CProcs, and that it implements   *)
(* CondVar, for any sets of cprocs and conditions.                         *)
EXTENDS CProcs, TLAPS

(* What the operations of cthread_queue do to the members of a list: the   *)
(* lists of cprocs are sequences without repetition.                       *)

(* The members of a list that is empty or has one member.                  *)
LEMMA ShortList ==
  ASSUME NEW e
  PROVE  /\ Range(<<>>) = {} /\ IsInjective(<<>>)
         /\ Range(<<e>>) = {e} /\ IsInjective(<<e>>)
  BY DEF Range, IsInjective

(* The queue after QUEUE_INIT has no member.                               *)
LEMMA EmptyList ==
  ASSUME NEW S
  PROVE  <<>> \in Seq(S) /\ Range(<<>>) = {} /\ IsInjective(<<>>)
<1>1. <<>> \in Seq(S)
  OBVIOUS
<1>2. Range(<<>>) = {} /\ IsInjective(<<>>)
  BY DEF Range, IsInjective
<1> QED BY <1>1, <1>2

(* cthread_queue_enq adds one member.                                      *)
LEMMA AppendList ==
  ASSUME NEW S, NEW s \in Seq(S), NEW e \in S
  PROVE  /\ Range(Append(s, e)) = Range(s) \cup {e}
         /\ IsInjective(s) /\ e \notin Range(s) => IsInjective(Append(s, e))
<1>1. /\ DOMAIN Append(s, e) = 1 .. Len(s) + 1 /\ DOMAIN s = 1 .. Len(s) /\ Len(s) \in Nat
      /\ \A k \in 1 .. Len(s) : Append(s, e)[k] = s[k]
      /\ Append(s, e)[Len(s) + 1] = e
  OBVIOUS
<1>2. \A k \in 1 .. Len(s) + 1 : k \in 1 .. Len(s) \/ k = Len(s) + 1
  BY <1>1
<1>3. Range(Append(s, e)) = Range(s) \cup {e}
  <2>1. ASSUME NEW x \in Range(Append(s, e)) PROVE x \in Range(s) \cup {e}
    BY <1>1, <1>2, <2>1 DEF Range
  <2>2. ASSUME NEW x \in Range(s) \cup {e} PROVE x \in Range(Append(s, e))
    BY <1>1, <2>2 DEF Range
  <2> QED BY <2>1, <2>2
<1>4. ASSUME IsInjective(s), e \notin Range(s) PROVE IsInjective(Append(s, e))
  BY <1>1, <1>2, <1>4 DEF Range, IsInjective
<1> QED BY <1>3, <1>4

(* cthread_queue_deq removes the head, which occurs only once.             *)
LEMMA HeadTailList ==
  ASSUME NEW S, NEW s \in Seq(S), s # <<>>
  PROVE  /\ Range(s) = {Head(s)} \cup Range(Tail(s))
         /\ IsInjective(s) => IsInjective(Tail(s)) /\ Head(s) \notin Range(Tail(s))
<1>1. /\ DOMAIN s = 1 .. Len(s) /\ Len(s) \in Nat /\ Len(s) >= 1
      /\ DOMAIN Tail(s) = 1 .. Len(s) - 1
      /\ \A k \in 1 .. Len(s) - 1 : Tail(s)[k] = s[k + 1]
      /\ Head(s) = s[1]
  OBVIOUS
<1>2. \A k \in 1 .. Len(s) : k = 1 \/ (k - 1 \in 1 .. Len(s) - 1 /\ s[k] = Tail(s)[k - 1])
  BY <1>1
<1>3. Range(s) = {Head(s)} \cup Range(Tail(s))
  <2>1. ASSUME NEW x \in Range(s) PROVE x \in {Head(s)} \cup Range(Tail(s))
    <3>1. PICK k \in 1 .. Len(s) : x = s[k]
      BY <1>1, <2>1 DEF Range
    <3>2. CASE k = 1
      BY <1>1, <3>1, <3>2
    <3>3. CASE k # 1
      <4>1. k - 1 \in DOMAIN Tail(s) /\ x = Tail(s)[k - 1]
        BY <1>1, <1>2, <3>1, <3>3
      <4> QED BY Zenon, <4>1 DEF Range
    <3> QED BY <3>2, <3>3
  <2>2. ASSUME NEW x \in {Head(s)} \cup Range(Tail(s)) PROVE x \in Range(s)
    BY <1>1, <2>2 DEF Range
  <2> QED BY <2>1, <2>2
<1>4. ASSUME IsInjective(s) PROVE IsInjective(Tail(s)) /\ Head(s) \notin Range(Tail(s))
  BY <1>1, <1>4 DEF Range, IsInjective
<1> QED BY <1>3, <1>4
-----------------------------------------------------------------------------

(* A signaller is continuing cprocs exactly while its batch has some.      *)
BatchInHand ==
  \A p \in Cproc : pc[p] \in {"continue", "set_running", "send"} => batch[p] # <<>>

(* A cproc inside a condition operation knows which condition it is about. *)
CondInHand == \A p \in Cproc : pc[p] # "idle" => cond[p] \in Condition

TInv == TypeOK /\ BatchInHand /\ CondInHand

(* Taking the head off a batch that is not empty leaves a batch.           *)
LEMMA HeadTailOfBatch ==
  ASSUME NEW S, NEW s \in Seq(S), s # <<>>
  PROVE  Head(s) \in S /\ Tail(s) \in Seq(S)
  OBVIOUS

(* What the return path of cproc_continue does to the caller's own state.  *)
LEMMA ContinueOrReturnTyped ==
  ASSUME TInv, NEW p \in Cproc, pc[p] # "idle",
         NEW rest \in Seq(Cproc), ContinueOrReturn(p, rest)
  PROVE  /\ batch' \in [Cproc -> Seq(Cproc)]
         /\ pc' \in [Cproc -> Label]
         /\ cond' \in [Cproc -> Condition \cup {NoCondition}]
         /\ BatchInHand'
         /\ CondInHand'
<1> USE DEF TInv, TypeOK, ContinueOrReturn, Goto, Label
<1>1. batch' = [batch EXCEPT ![p] = rest]
  OBVIOUS
<1>2. CASE rest = <<>>
  <2>1. pc' = [pc EXCEPT ![p] = "idle"] /\ cond' = [cond EXCEPT ![p] = NoCondition]
    BY <1>2
  <2> QED BY <1>1, <1>2, <2>1 DEF BatchInHand, CondInHand
<1>3. CASE rest # <<>>
  <2>1. pc' = [pc EXCEPT ![p] = "continue"] /\ cond' = cond
    BY <1>3
  <2> QED BY SMTT(40), <1>1, <1>3, <2>1 DEF BatchInHand, CondInHand
<1> QED BY <1>2, <1>3

(* Every step of the library keeps the types of its variables.             *)
LEMMA TInvCorrect == Spec => []TInv
<1> USE DEF Label, CprocState, backlog, Goto, BatchInHand, CondInHand
<1>1. Init => TInv
  BY CProcsAssumption DEF Init, TInv, TypeOK
<1>2. TInv /\ [Next]_vars => TInv'
  <2> SUFFICES ASSUME TInv, [Next]_vars PROVE TInv'
    OBVIOUS
  <2> USE CProcsAssumption DEF TInv, TypeOK
  <2>1. CASE UNCHANGED vars
    BY <2>1 DEF vars
  <2>2. ASSUME NEW p \in Cproc, mutex_lock(p) \/ mutex_unlock(p) PROVE TInv'
    BY ZenonT(40), <2>2 DEF mutex_lock, mutex_unlock
  <2>3. ASSUME NEW p \in Cproc, NEW c \in Condition, condition_wait(p, c) PROVE TInv'
    BY <2>3 DEF condition_wait
  <2>4. ASSUME NEW p \in Cproc, NEW c \in Condition, condition_signal(p, c) PROVE TInv'
    BY <2>4 DEF condition_signal
  <2>16. ASSUME NEW p \in Cproc, NEW c \in Condition, condition_broadcast(p, c) PROVE TInv'
    BY <2>16 DEF condition_broadcast
  <2>5. ASSUME NEW p \in Cproc, Enqueue(p) PROVE TInv'
    BY <2>5 DEF Enqueue
  <2>6. ASSUME NEW p \in Cproc, ReleaseMutex(p) PROVE TInv'
    BY <2>6 DEF ReleaseMutex
  <2>7. ASSUME NEW p \in Cproc, Poll(p) PROVE TInv'
    <3>1. i[p] \in 0 .. condition_yield_limit /\ condition_yield_limit \in Nat
      OBVIOUS
    <3>2. \/ i' = i
          \/ i[p] < condition_yield_limit /\ i' = [i EXCEPT ![p] = i[p] + 1]
      BY <2>7 DEF Poll
    <3>3. i' \in [Cproc -> 0 .. condition_yield_limit]
      <4>1. ASSUME i[p] < condition_yield_limit PROVE i[p] + 1 \in 0 .. condition_yield_limit
        BY <3>1, <4>1
      <4> QED BY Zenon, <3>2, <4>1
    <3>4. pc[p] # "idle" /\ pc' \in {pc, [pc EXCEPT ![p] = "done"], [pc EXCEPT ![p] = "recheck_lock"]}
      BY <2>7 DEF Poll
    <3>5. UNCHANGED <<cond, held, state, old_state, batch, mutex, lock, queue, wait_port>>
      BY <2>7 DEF Poll
    <3> QED BY Zenon, <3>3, <3>4, <3>5
  <2>8. ASSUME NEW p \in Cproc, RecheckLock(p) \/ Recheck(p) \/ Block(p) PROVE TInv'
    BY ZenonT(40), <2>8 DEF RecheckLock, Recheck, Block
  <2>9. ASSUME NEW p \in Cproc, Receive(p) PROVE TInv'
    BY <2>9 DEF Receive
  <2>10. ASSUME NEW p \in Cproc, Reacquire(p) PROVE TInv'
    BY <2>10 DEF Reacquire
  <2>11. ASSUME NEW p \in Cproc, cond_signal(p) PROVE TInv'
    <3>1. queue[cond[p]] \in Seq(Cproc) /\ pc[p] # "idle"
      BY <2>11 DEF cond_signal
    <3>2. PICK rest \in Seq(Cproc) : ContinueOrReturn(p, rest)
      <4>1. CASE queue[cond[p]] = <<>>
        BY <2>11, <4>1 DEF cond_signal
      <4>2. CASE queue[cond[p]] # <<>>
        <5>1. Head(queue[cond[p]]) \in Cproc
          BY <3>1, <4>2, HeadTailOfBatch
        <5>2. <<Head(queue[cond[p]])>> \in Seq(Cproc)
          BY <5>1
        <5>3. ContinueOrReturn(p, <<Head(queue[cond[p]])>>)
          BY <2>11, <4>2 DEF cond_signal
        <5> QED BY Zenon, <5>2, <5>3
      <4> QED BY <4>1, <4>2
    <3>3. queue' \in [Condition -> Seq(Cproc)]
      <4>1. queue[cond[p]] # <<>> => Tail(queue[cond[p]]) \in Seq(Cproc)
        BY <3>1, HeadTailOfBatch
      <4>2. \/ queue' = queue
            \/ queue[cond[p]] # <<>> /\ queue' = [queue EXCEPT ![cond[p]] = Tail(queue[cond[p]])]
        BY <2>11 DEF cond_signal
      <4> QED BY Zenon, <4>1, <4>2
    <3> QED BY Zenon, <2>11, <3>1, <3>2, <3>3, ContinueOrReturnTyped DEF cond_signal
  <2>12. ASSUME NEW p \in Cproc, cond_broadcast(p) PROVE TInv'
    <3>1. queue[cond[p]] \in Seq(Cproc) /\ pc[p] # "idle"
      BY <2>12 DEF cond_broadcast
    <3>2. queue' \in [Condition -> Seq(Cproc)]
      BY <2>12 DEF cond_broadcast
    <3> QED BY Zenon, <2>12, <3>1, <3>2, ContinueOrReturnTyped DEF cond_broadcast
  <2>13. ASSUME NEW p \in Cproc, ReadOldState(p) PROVE TInv'
    BY SMTT(40), <2>13, HeadTailOfBatch DEF ReadOldState
  <2>14. ASSUME NEW p \in Cproc, SetRunning(p) PROVE TInv'
    <3>1. Head(batch[p]) \in Cproc /\ Tail(batch[p]) \in Seq(Cproc) /\ pc[p] # "idle"
      BY <2>14, HeadTailOfBatch DEF SetRunning
    <3>2. CASE old_state[p] # "BLOCKED"
      BY Zenon, <2>14, <3>1, <3>2, ContinueOrReturnTyped DEF SetRunning
    <3>3. CASE old_state[p] = "BLOCKED"
      BY Zenon, <2>14, <3>1, <3>3 DEF SetRunning
    <3> QED BY <3>2, <3>3
  <2>15. ASSUME NEW p \in Cproc, Send(p) PROVE TInv'
    <3>1. Head(batch[p]) \in Cproc /\ Tail(batch[p]) \in Seq(Cproc) /\ pc[p] # "idle"
      BY <2>15, HeadTailOfBatch DEF Send
    <3>2. wait_port' \in [Cproc -> 0 .. backlog]
      BY <2>15, <3>1 DEF Send
    <3> QED BY Zenon, <2>15, <3>1, <3>2, ContinueOrReturnTyped DEF Send
  <2> QED
    BY Zenon, <2>1, <2>2, <2>3, <2>4, <2>5, <2>6, <2>7, <2>8, <2>9, <2>10, <2>11,
       <2>12, <2>13, <2>14, <2>15, <2>16 DEF Next, Step, Call
<1> QED BY <1>1, <1>2, PTL DEF Spec

(* In every reachable state each variable of the synchronisation layer has *)
(* its type: no signal or broadcast takes the head of an empty list, and   *)
(* no wait port has more messages than cproc_alloc allows.                 *)
THEOREM TypeCorrect == Spec => []TypeOK
<1>1. TInv => TypeOK
  BY DEF TInv
<1> QED BY <1>1, TInvCorrect, PTL
-----------------------------------------------------------------------------
(* The labels of a cproc that waits to be continued.                       *)
Waiting == {"release", "poll", "recheck_lock", "recheck", "block", "receive"}

(* The code inside condition_wait that runs with and without the mutex.    *)
MutexPlaces ==
  \A p \in Cproc :
    /\ pc[p] \in {"enter", "release"} => held[p]
    /\ pc[p] \in (Waiting \ {"release"}) \cup {"done"} => ~held[p]

(* Only a cproc that waits is on a list; on a queue, it is that of its own *)
(* condition.                                                              *)
ListedWaits ==
  \A p \in Cproc :
    /\ \A c \in Condition : p \in Range(queue[c]) => pc[p] \in Waiting /\ cond[p] = c
    /\ \A q \in Cproc : p \in Range(batch[q]) => pc[p] \in Waiting

(* A listed cproc is not RUNNING until cproc_continue marks it, after which*)
(* it is only in the hands of the sender of its message.                   *)
ListedNotRunning ==
  \A p \in Cproc :
    /\ \A c \in Condition : p \in Range(queue[c]) => state[p] # "RUNNING"
    /\ \A q \in Cproc :
         p \in Range(batch[q]) /\ ~(pc[q] = "send" /\ p = Head(batch[q]))
           => state[p] # "RUNNING"

(* A BLOCKED cproc is in msg_receive, and stays there for the signaller    *)
(* that saw it BLOCKED, until the message is sent.                         *)
BlockedReceives ==
  \A p \in Cproc :
    /\ state[p] = "BLOCKED" => pc[p] = "receive"
    /\ pc[p] = "set_running" /\ old_state[p] = "BLOCKED" => state[Head(batch[p])] = "BLOCKED"
    /\ pc[p] = "send" =>
         /\ pc[Head(batch[p])] = "receive"
         /\ state[Head(batch[p])] = "RUNNING"
         /\ wait_port[Head(batch[p])] = 0

(* A message is there for a cproc that has been continued and receives it. *)
MessageAwaited ==
  \A p \in Cproc : wait_port[p] > 0 =>
    /\ pc[p] = "receive" /\ state[p] = "RUNNING"
    /\ ~Enqueued(p) /\ ~Dequeued(p)

LInv ==
  /\ OneLink /\ ListedWaits /\ ListedNotRunning
  /\ BlockedReceives /\ MessageAwaited /\ RunningWhenDone
-----------------------------------------------------------------------------
(* The mutex is taken and released only where its holder is.               *)
LEMMA MutexStep ==
  ASSUME TInv, MutexExclusion, MutexPlaces, [Next]_vars
  PROVE  MutexExclusion' /\ MutexPlaces'
<1> USE DEF MutexExclusion, MutexPlaces, Waiting, Goto
<1>0. pc \in [Cproc -> Label] /\ held \in [Cproc -> BOOLEAN] /\ mutex \in {0, 1}
  BY DEF TInv, TypeOK
<1>1. CASE UNCHANGED vars
  BY <1>0, <1>1 DEF vars
<1>2. ASSUME NEW p \in Cproc, mutex' = 1, mutex = 0,
             held' = [held EXCEPT ![p] = TRUE],
             pc' = [pc EXCEPT ![p] = "idle"]
      PROVE  MutexExclusion' /\ MutexPlaces'
  <2>1. \A q \in Cproc : ~held[q]
    BY <1>0, <1>2
  <2>2. held'[p] /\ \A q \in Cproc : q # p => ~held'[q]
    BY <1>0, <1>2, <2>1
  <2>3. \A q \in Cproc : pc'[q] = pc[q] \/ (q = p /\ pc'[q] = "idle")
    BY <1>0, <1>2
  <2>4. \A q \in Cproc : q # p => pc[q] \notin {"enter", "release"}
    BY <1>0, <2>1
  <2> QED BY <1>0, <1>2, <2>2, <2>3, <2>4
<1>3. ASSUME NEW p \in Cproc, mutex' = 0, held[p], held' = [held EXCEPT ![p] = FALSE],
             NEW l \in {"idle", "poll"}, pc' = [pc EXCEPT ![p] = l]
      PROVE  MutexExclusion' /\ MutexPlaces'
  <2>1. \A q \in Cproc : q # p => ~held[q]
    BY <1>0, <1>3
  <2>2. \A q \in Cproc : ~held'[q]
    BY <1>0, <1>3, <2>1
  <2>3. \A q \in Cproc : q # p => pc'[q] = pc[q]
    BY <1>0, <1>3
  <2>4. \A q \in Cproc : pc'[q] \notin {"enter", "release"}
    BY <1>0, <1>3, <2>1, <2>3
  <2> QED BY <1>0, <1>3, <2>2, <2>4
<1>4. ASSUME NEW p \in Cproc, mutex_lock(p) \/ Reacquire(p)
       PROVE  MutexExclusion' /\ MutexPlaces'
  <2>1. pc' = [pc EXCEPT ![p] = "idle"] /\ mutex = 0 /\ mutex' = 1
        /\ held' = [held EXCEPT ![p] = TRUE]
    BY <1>0, <1>4 DEF mutex_lock, Reacquire
  <2> QED BY <1>0, <1>2, <2>1
<1>5. ASSUME NEW p \in Cproc, mutex_unlock(p) \/ ReleaseMutex(p)
       PROVE  MutexExclusion' /\ MutexPlaces'
  <2>1. /\ pc' = [pc EXCEPT ![p] = "idle"] \/ pc' = [pc EXCEPT ![p] = "poll"]
        /\ held[p] /\ mutex' = 0 /\ held' = [held EXCEPT ![p] = FALSE]
    BY <1>0, <1>5 DEF mutex_unlock, ReleaseMutex
  <2> QED BY <1>0, <1>3, <2>1
<1>6. ASSUME NEW p \in Cproc, UNCHANGED <<mutex, held>>, NEW l \in Label,
             pc' = [pc EXCEPT ![p] = l],
             l \in {"enter", "release"} => held[p],
             l \in (Waiting \ {"release"}) \cup {"done"} => ~held[p]
      PROVE  MutexExclusion' /\ MutexPlaces'
  BY <1>0, <1>6
<1>7. ASSUME NEW p \in Cproc, NEW c \in Condition,
             condition_wait(p, c) \/ condition_signal(p, c) \/ condition_broadcast(p, c)
      PROVE  MutexExclusion' /\ MutexPlaces'
  BY <1>0, <1>6, <1>7 DEF condition_wait, condition_signal, condition_broadcast
<1>8. ASSUME NEW p \in Cproc, Enqueue(p) \/ RecheckLock(p) \/ Block(p) \/ Receive(p)
      PROVE  MutexExclusion' /\ MutexPlaces'
  BY <1>0, <1>6, <1>8 DEF Enqueue, RecheckLock, Block, Receive
<1>9. ASSUME NEW p \in Cproc, Poll(p) \/ Recheck(p)
      PROVE  MutexExclusion' /\ MutexPlaces'
  BY <1>0, <1>9 DEF Poll, Recheck
<1>10. ASSUME NEW p \in Cproc, NEW rest, ContinueOrReturn(p, rest), UNCHANGED <<mutex, held>>
      PROVE  MutexExclusion' /\ MutexPlaces'
  BY SMTT(40), <1>0, <1>6, <1>10 DEF ContinueOrReturn
<1>11. ASSUME NEW p \in Cproc, cond_signal(p) \/ cond_broadcast(p) \/ Send(p)
      PROVE  MutexExclusion' /\ MutexPlaces'
  BY <1>0, <1>10, <1>11 DEF cond_signal, cond_broadcast, Send
<1>12. ASSUME NEW p \in Cproc, ReadOldState(p) \/ SetRunning(p)
       PROVE  MutexExclusion' /\ MutexPlaces'
  BY <1>0, <1>6, <1>10, <1>12 DEF ReadOldState, SetRunning
<1> QED BY <1>1, <1>4, <1>5, <1>7, <1>8, <1>9, <1>11, <1>12 DEF Next, Step, Call

(* The mutex word agrees with its holder, and condition_wait has the mutex *)
(* up to its mutex_unlock and not after it, in every reachable state.      *)
LEMMA MutexInvCorrect == Spec => [](MutexExclusion /\ MutexPlaces)
<1>1. Init => MutexExclusion /\ MutexPlaces
  BY DEF Init, MutexExclusion, MutexPlaces, Waiting
<1>2. TInv /\ (MutexExclusion /\ MutexPlaces) /\ [Next]_vars => (MutexExclusion /\ MutexPlaces)'
  BY MutexStep
<1> QED BY <1>1, <1>2, TInvCorrect, PTL DEF Spec

(* At most one client holds the mutex, and a cproc that comes back from    *)
(* condition_wait holds it, for any number of cprocs and conditions.       *)
THEOREM MutexCorrect == Spec => []MutexExclusion
  BY MutexInvCorrect, PTL
-----------------------------------------------------------------------------
(* A step of p that touches no list, state or message keeps LInv, if p     *)
(* goes where it may be.                                                   *)
LEMMA MoveStep ==
  ASSUME TInv, LInv, NEW p \in Cproc, NEW l \in Label,
         pc' = [pc EXCEPT ![p] = l],
         UNCHANGED <<state, old_state, batch, queue, wait_port>>,
         cond' = cond \/ (pc[p] \notin Waiting /\ \A q \in Cproc : q # p => cond'[q] = cond[q]),
         pc[p] \notin {"receive", "send"}, l \notin {"set_running", "send"},
         pc[p] \in Waiting => l \in Waiting \cup {"done"},
         l = "done" => state[p] = "RUNNING"
  PROVE  LInv'
<1>0. pc \in [Cproc -> Label] /\ batch \in [Cproc -> Seq(Cproc)] /\ BatchInHand
  BY DEF TInv, TypeOK
<1>1. \A q \in Cproc : q # p => pc'[q] = pc[q]
  BY <1>0
<1>2. pc'[p] = l
  BY <1>0
<1>3. OneLink'
  BY DEF LInv, OneLink, Enqueued, Dequeued
<1>4. /\ \A c \in Condition : p \in Range(queue[c]) => state[p] # "RUNNING" /\ pc[p] \in Waiting /\ cond[p] = c
      /\ \A q \in Cproc : p \in Range(batch[q]) => pc[p] \in Waiting
      /\ \A q \in Cproc : p \in Range(batch[q]) => state[p] # "RUNNING"
  <2>1. \A c \in Condition : p \in Range(queue[c]) => state[p] # "RUNNING"
    BY DEF LInv, ListedNotRunning
  <2>2. \A q \in Cproc : pc[q] = "send" => p # Head(batch[q])
    BY DEF LInv, BlockedReceives
  <2>3. \A q \in Cproc : p \in Range(batch[q]) => state[p] # "RUNNING"
    BY <2>2 DEF LInv, ListedNotRunning
  <2> QED BY <2>1, <2>3 DEF LInv, ListedWaits
<1>5. ListedWaits'
  BY <1>1, <1>2, <1>4 DEF LInv, ListedWaits
<1>6. ListedNotRunning'
  BY <1>1, <1>2 DEF LInv, ListedNotRunning
<1>7. BlockedReceives'
  <2> SUFFICES ASSUME NEW q \in Cproc
      PROVE /\ state[q] = "BLOCKED" => pc'[q] = "receive"
            /\ pc'[q] = "set_running" /\ old_state[q] = "BLOCKED" => state[Head(batch[q])] = "BLOCKED"
            /\ pc'[q] = "send" => /\ pc'[Head(batch[q])] = "receive"
                                  /\ state[Head(batch[q])] = "RUNNING"
                                  /\ wait_port[Head(batch[q])] = 0
    BY DEF BlockedReceives
  <2>1. q # p /\ pc[q] = "send" => Head(batch[q]) \in Cproc /\ Head(batch[q]) # p
    <3>1. pc[q] = "send" => pc[Head(batch[q])] = "receive" /\ batch[q] # <<>>
      BY <1>0 DEF LInv, BlockedReceives, BatchInHand
    <3>2. batch[q] # <<>> => Head(batch[q]) \in Cproc
      BY <1>0, HeadTailOfBatch
    <3> QED BY <3>1, <3>2
  <2> QED BY <1>1, <1>2, <2>1 DEF LInv, BlockedReceives
<1>8. MessageAwaited'
  <2>1. \A q \in Cproc : wait_port[q] > 0 => q # p
    BY DEF LInv, MessageAwaited
  <2> QED BY <1>1, <2>1 DEF LInv, MessageAwaited, Enqueued, Dequeued
<1>9. RunningWhenDone'
  BY <1>1, <1>2 DEF LInv, RunningWhenDone
<1> QED BY <1>3, <1>5, <1>6, <1>7, <1>8, <1>9 DEF LInv

(* cthread_queue_enq of p on the queue of its condition.                   *)
LEMMA EnqueueStep ==
  ASSUME TInv, LInv, NEW p \in Cproc, Enqueue(p)
  PROVE  LInv'
<1>0. /\ pc \in [Cproc -> Label] /\ state \in [Cproc -> CprocState]
      /\ queue \in [Condition -> Seq(Cproc)] /\ batch \in [Cproc -> Seq(Cproc)]
      /\ BatchInHand /\ cond[p] \in Condition /\ pc[p] = "enter"
  BY SMTT(40) DEF TInv, TypeOK, Enqueue, CondInHand
<1>1. /\ \A q \in Cproc : q # p => pc'[q] = pc[q] /\ state'[q] = state[q]
      /\ pc'[p] = "release" /\ state'[p] = "SPINNING"
      /\ UNCHANGED <<cond, batch, old_state, wait_port>>
      /\ queue' = [queue EXCEPT ![cond[p]] = Append(queue[cond[p]], p)]
  BY <1>0 DEF Enqueue, Goto
<1>2. ~Enqueued(p) /\ ~Dequeued(p)
  BY Zenon, <1>0 DEF LInv, ListedWaits, Enqueued, Dequeued, Waiting
<1>3. /\ \A c \in Condition : c # cond[p] => queue'[c] = queue[c]
      /\ Range(queue'[cond[p]]) = Range(queue[cond[p]]) \cup {p}
      /\ IsInjective(queue[cond[p]]) => IsInjective(queue'[cond[p]])
  BY <1>0, <1>1, <1>2, AppendList DEF Enqueued
<1>4. /\ \A c \in Condition, q \in Cproc : q # p => (q \in Range(queue'[c]) <=> q \in Range(queue[c]))
      /\ \A c \in Condition : p \in Range(queue'[c]) => c = cond[p]
      /\ \A q \in Cproc : p \notin Range(batch[q])
  BY Zenon, <1>0, <1>2, <1>3 DEF Enqueued, Dequeued
<1>5. \A q \in Cproc : pc[q] \in {"set_running", "send"} => Head(batch[q]) \in Cproc \ {p}
  <2> SUFFICES ASSUME NEW q \in Cproc, pc[q] \in {"set_running", "send"}
               PROVE  Head(batch[q]) \in Cproc \ {p}
    OBVIOUS
  <2>1. batch[q] # <<>> /\ batch[q] \in Seq(Cproc)
    BY <1>0 DEF BatchInHand
  <2>2. Head(batch[q]) \in Range(batch[q]) /\ Head(batch[q]) \in Cproc
    BY <2>1, HeadTailList, HeadTailOfBatch
  <2> QED BY <1>4, <2>2
<1>6. OneLink'
  <2>1. \A c \in Condition : IsInjective(queue'[c])
    BY ZenonT(40), <1>0, <1>3 DEF LInv, OneLink
  <2>2. ASSUME NEW c \in Condition, NEW d \in Condition, c # d,
               NEW x \in Range(queue'[c]), x \in Range(queue'[d])
        PROVE  FALSE
    <3>1. Range(queue[c]) \cap Range(queue[d]) = {} /\ p \notin Range(queue[c]) /\ p \notin Range(queue[d])
      BY <1>2, <2>2 DEF LInv, OneLink, Enqueued
    <3> QED BY <1>3, <2>2, <3>1
  <2>3. \A q \in Cproc : ~(Enqueued(q)' /\ Dequeued(q)')
    BY SMTT(40), <1>1, <1>2, <1>4 DEF LInv, OneLink, Enqueued, Dequeued
  <2> QED BY Zenon, <1>1, <2>1, <2>2, <2>3 DEF LInv, OneLink
<1>7. ListedWaits'
  BY SMTT(40), <1>1, <1>4 DEF LInv, ListedWaits, Waiting
<1>8. ListedNotRunning'
  <2>1. \A q \in Cproc : pc'[q] = "send" => pc[q] = "send"
    BY <1>1
  <2>2. \A q \in Cproc : pc[q] = "send" => pc'[q] = "send"
    BY SMTT(40), <1>0, <1>1
  <2> QED BY <1>1, <1>4, <2>1, <2>2 DEF LInv, ListedNotRunning
<1>9. BlockedReceives'
  BY <1>1, <1>5 DEF LInv, BlockedReceives
<1>10. MessageAwaited'
  <2>1. \A q \in Cproc : wait_port[q] > 0 => q # p
    BY <1>0 DEF LInv, MessageAwaited
  <2> QED BY <1>1, <1>4, <2>1 DEF LInv, MessageAwaited, Enqueued, Dequeued
<1>11. RunningWhenDone'
  BY <1>1 DEF LInv, RunningWhenDone
<1> QED BY <1>6, <1>7, <1>8, <1>9, <1>10, <1>11 DEF LInv

(* The store of CPROC_BLOCKED, on the way to msg_receive.                  *)
LEMMA BlockStep ==
  ASSUME TInv, LInv, NEW p \in Cproc, Block(p)
  PROVE  LInv'
<1>0. /\ pc \in [Cproc -> Label] /\ state \in [Cproc -> CprocState]
      /\ batch \in [Cproc -> Seq(Cproc)] /\ BatchInHand /\ pc[p] = "block"
  BY DEF TInv, TypeOK, Block
<1>1. /\ \A q \in Cproc : q # p => pc'[q] = pc[q] /\ state'[q] = state[q]
      /\ pc'[p] = "receive" /\ state'[p] = "BLOCKED"
      /\ UNCHANGED <<cond, batch, queue, old_state, wait_port>>
  BY <1>0 DEF Block, Goto
<1>2. \A q \in Cproc :
        pc[q] \in {"send"} \/ (pc[q] = "set_running" /\ old_state[q] = "BLOCKED")
          => Head(batch[q]) \in Cproc \ {p}
  <2>1. \A q \in Cproc : pc[q] \in {"set_running", "send"} => Head(batch[q]) \in Cproc
    BY <1>0, HeadTailOfBatch DEF BatchInHand
  <2> QED BY <1>0, <2>1 DEF LInv, BlockedReceives
<1>3. OneLink'
  BY SMTT(40), <1>1 DEF LInv, OneLink, Enqueued, Dequeued
<1>4. ListedWaits'
  BY <1>1 DEF LInv, ListedWaits, Waiting
<1>5. ListedNotRunning'
  BY <1>0, <1>1 DEF LInv, ListedNotRunning
<1>6. BlockedReceives'
  BY SMTT(40), <1>0, <1>1, <1>2 DEF LInv, BlockedReceives
<1>7. MessageAwaited'
  <2>1. \A q \in Cproc : wait_port[q] > 0 => q # p
    BY SMTT(40), <1>0 DEF LInv, MessageAwaited
  <2> QED BY <1>1, <2>1 DEF LInv, MessageAwaited, Enqueued, Dequeued
<1>8. RunningWhenDone'
  BY <1>1 DEF LInv, RunningWhenDone
<1> QED BY <1>3, <1>4, <1>5, <1>6, <1>7, <1>8 DEF LInv

(* The wakeup message is received.                                         *)
LEMMA ReceiveStep ==
  ASSUME TInv, LInv, NEW p \in Cproc, Receive(p)
  PROVE  LInv'
<1>0. /\ pc \in [Cproc -> Label] /\ wait_port \in [Cproc -> 0 .. 1]
      /\ batch \in [Cproc -> Seq(Cproc)] /\ BatchInHand
      /\ pc[p] = "receive" /\ wait_port[p] > 0
  BY DEF TInv, TypeOK, Receive, backlog
<1>1. /\ \A q \in Cproc : q # p => pc'[q] = pc[q] /\ wait_port'[q] = wait_port[q]
      /\ pc'[p] = "done" /\ wait_port'[p] = 0
      /\ UNCHANGED <<cond, state, batch, queue, old_state>>
  BY <1>0 DEF Receive, Goto
<1>2. state[p] = "RUNNING" /\ ~Enqueued(p) /\ ~Dequeued(p)
  BY <1>0 DEF LInv, MessageAwaited
<1>3. \A q \in Cproc : pc[q] = "send" => Head(batch[q]) \in Cproc \ {p}
  <2>1. \A q \in Cproc : pc[q] = "send" => Head(batch[q]) \in Cproc
    BY <1>0, HeadTailOfBatch DEF BatchInHand
  <2>2. \A q \in Cproc : pc[q] = "send" => wait_port[Head(batch[q])] = 0
    BY SMTT(40) DEF LInv, BlockedReceives
  <2> QED BY <1>0, <2>1, <2>2
<1>4. OneLink'
  BY SMTT(40), <1>1 DEF LInv, OneLink, Enqueued, Dequeued
<1>5. ListedWaits'
  BY <1>1, <1>2 DEF LInv, ListedWaits, Enqueued, Dequeued
<1>6. ListedNotRunning'
  BY SMTT(40), <1>0, <1>1 DEF LInv, ListedNotRunning
<1>7. BlockedReceives'
  BY Zenon, <1>0, <1>1, <1>2, <1>3 DEF LInv, BlockedReceives
<1>8. MessageAwaited'
  BY <1>1 DEF LInv, MessageAwaited, Enqueued, Dequeued
<1>9. RunningWhenDone'
  BY <1>1, <1>2 DEF LInv, RunningWhenDone
<1> QED BY <1>4, <1>5, <1>6, <1>7, <1>8, <1>9 DEF LInv

(* The cproc that a signaller is continuing waits, is not the signaller,   *)
(* and is in the hands of nobody else.                                     *)
LEMMA HeadInHand ==
  ASSUME TInv, LInv, NEW p \in Cproc, pc[p] \in {"continue", "set_running", "send"}
  PROVE  /\ batch[p] \in Seq(Cproc) /\ batch[p] # <<>>
         /\ Head(batch[p]) \in Cproc \ {p} /\ Head(batch[p]) \in Range(batch[p])
         /\ pc[Head(batch[p])] \in Waiting
         /\ \A q \in Cproc : q # p => Head(batch[p]) \notin Range(batch[q])
         /\ \A q \in Cproc : q # p /\ pc[q] \in {"continue", "set_running", "send"}
                               => Head(batch[q]) # Head(batch[p])
         /\ ~Enqueued(Head(batch[p]))
<1>1. \A q \in Cproc : pc[q] \in {"continue", "set_running", "send"} =>
        batch[q] \in Seq(Cproc) /\ batch[q] # <<>> /\ Head(batch[q]) \in Range(batch[q])
  <2> TAKE q \in Cproc
  <2> HAVE pc[q] \in {"continue", "set_running", "send"}
  <2>1. batch[q] \in Seq(Cproc) /\ batch[q] # <<>>
    BY DEF TInv, TypeOK, BatchInHand
  <2>2. Head(batch[q]) \in Range(batch[q])
    BY <2>1, HeadTailList
  <2> QED BY <2>1, <2>2
<1>2. Head(batch[p]) \in Cproc
  BY <1>1, HeadTailOfBatch
<1>3. pc[Head(batch[p])] \in Waiting
  BY <1>1, <1>2 DEF LInv, ListedWaits
<1>4. Head(batch[p]) # p
  BY <1>3 DEF Waiting
<1>5. \A q \in Cproc : q # p => Head(batch[p]) \notin Range(batch[q])
  BY ZenonT(40), <1>1, <1>2 DEF LInv, OneLink
<1>6. ~Enqueued(Head(batch[p]))
  BY <1>1, <1>2 DEF LInv, OneLink, Dequeued
<1> QED BY <1>1, <1>2, <1>3, <1>4, <1>5, <1>6

(* Once continued, a cproc is on no list.                                  *)
LEMMA DropHead ==
  ASSUME TInv, OneLink, NEW p \in Cproc, batch[p] # <<>>, NEW h \in Cproc, h = Head(batch[p]),
         batch' = [batch EXCEPT ![p] = Tail(batch[p])], queue' = queue
  PROVE  /\ OneLink' /\ ~Enqueued(h)' /\ ~Dequeued(h)'
         /\ \A q \in Cproc : Range(batch'[q]) \subseteq Range(batch[q])
<1>1. batch \in [Cproc -> Seq(Cproc)]
  BY DEF TInv, TypeOK
<1>2. /\ Range(batch[p]) = {h} \cup Range(Tail(batch[p])) /\ h \notin Range(Tail(batch[p]))
      /\ IsInjective(Tail(batch[p]))
  BY <1>1, HeadTailList DEF OneLink
<1>3. batch'[p] = Tail(batch[p]) /\ \A q \in Cproc : q # p => batch'[q] = batch[q]
  BY SMTT(40), <1>1
<1>4. \A q \in Cproc : Range(batch'[q]) \subseteq Range(batch[q]) /\ IsInjective(batch'[q])
  BY <1>2, <1>3 DEF OneLink
<1>5. ~Enqueued(h)'
  BY <1>2 DEF OneLink, Enqueued, Dequeued
<1>6. ~Dequeued(h)'
  <2>1. \A q \in Cproc : q # p => h \notin Range(batch[q])
    BY <1>2 DEF OneLink
  <2> QED BY <1>2, <1>3, <2>1 DEF Dequeued
<1>7. \A q, r \in Cproc : q # r => Range(batch'[q]) \cap Range(batch'[r]) = {}
  BY Zenon, <1>4 DEF OneLink
<1>8. \A q \in Cproc : ~(Enqueued(q)' /\ Dequeued(q)')
  BY ZenonT(40), <1>4 DEF OneLink, Enqueued, Dequeued
<1>9. OneLink'
  BY ZenonT(40), <1>4, <1>7, <1>8 DEF OneLink
<1> QED BY <1>4, <1>5, <1>6, <1>9

(* A signal or broadcast takes cprocs over from the queue of its condition.*)
LEMMA TakeStep ==
  ASSUME TInv, LInv, NEW p \in Cproc, pc[p] \in {"signal", "broadcast"},
         NEW c \in Condition, NEW rest \in Seq(Cproc), NEW left \in Seq(Cproc),
         ContinueOrReturn(p, rest), queue' = [queue EXCEPT ![c] = left],
         IsInjective(rest), IsInjective(left),
         Range(rest) \cup Range(left) \subseteq Range(queue[c]),
         Range(rest) \cap Range(left) = {},
         UNCHANGED <<state, old_state, wait_port>>
  PROVE  LInv'
<1>0. /\ pc \in [Cproc -> Label] /\ batch \in [Cproc -> Seq(Cproc)]
      /\ queue \in [Condition -> Seq(Cproc)] /\ cond \in [Cproc -> Condition \cup {NoCondition}]
  BY DEF TInv, TypeOK
<1>1. /\ pc'[p] \in {"idle", "continue"}
      /\ \A q \in Cproc : q # p => pc'[q] = pc[q] /\ cond'[q] = cond[q] /\ batch'[q] = batch[q]
      /\ batch'[p] = rest
      /\ queue'[c] = left /\ \A d \in Condition : d # c => queue'[d] = queue[d]
  BY <1>0 DEF ContinueOrReturn, Goto
<1>2. \A d \in Condition : Range(queue'[d]) \subseteq Range(queue[d]) /\ IsInjective(queue'[d])
  BY <1>1 DEF LInv, OneLink
<1>3. ~Enqueued(p) /\ ~Dequeued(p)
  BY DEF LInv, ListedWaits, Enqueued, Dequeued, Waiting
<1>4. \A x \in Range(rest) : x \in Range(queue[c]) /\ x # p
  BY SMTT(40), <1>3 DEF Enqueued
<1>5. OneLink'
  <2>1. \A q \in Cproc : IsInjective(batch'[q])
    BY <1>1 DEF LInv, OneLink
  <2>2. \A d, e \in Condition : d # e => Range(queue'[d]) \cap Range(queue'[e]) = {}
    BY <1>2 DEF LInv, OneLink
  <2>3. Range(rest) \subseteq Cproc
    BY SMTT(40) DEF Range
  <2>4. \A q \in Cproc : Range(rest) \cap Range(batch[q]) = {}
    BY SMTT(40), <1>4, <2>3 DEF LInv, OneLink, Enqueued, Dequeued
  <2>5. \A q, r \in Cproc : q # r => Range(batch'[q]) \cap Range(batch'[r]) = {}
    BY SMTT(40), <1>1, <2>4 DEF LInv, OneLink
  <2>6. \A d \in Condition : Range(rest) \cap Range(queue'[d]) = {}
    BY SMTT(40), <1>1, <1>4 DEF LInv, OneLink
  <2>7. \A q \in Cproc : ~(Enqueued(q)' /\ Dequeued(q)')
    BY SMTT(40), <1>1, <1>2, <2>6 DEF LInv, OneLink, Enqueued, Dequeued
  <2> QED BY Zenon, <1>2, <2>1, <2>2, <2>5, <2>7 DEF OneLink
<1>6. ListedWaits'
  <2>1. \A x \in Cproc, d \in Condition : x \in Range(queue'[d]) => pc'[x] \in Waiting /\ cond'[x] = d
    BY SMTT(40), <1>1, <1>2, <1>3 DEF LInv, ListedWaits, Enqueued
  <2>2. \A x \in Cproc, q \in Cproc : x \in Range(batch'[q]) => pc'[x] \in Waiting
    BY SMTT(40), <1>1, <1>3, <1>4 DEF LInv, ListedWaits, Dequeued
  <2> QED BY SMTT(40), <2>1, <2>2 DEF ListedWaits
<1>7. ListedNotRunning'
  <2>1. \A x \in Cproc, d \in Condition : x \in Range(queue'[d]) => state[x] # "RUNNING"
    BY SMTT(40), <1>2 DEF LInv, ListedNotRunning
  <2>2. \A x \in Range(rest) \cap Cproc : state[x] # "RUNNING"
    BY SMTT(40), <1>4 DEF LInv, ListedNotRunning
  <2> QED BY SMTT(40), <1>1, <2>1, <2>2 DEF LInv, ListedNotRunning
<1>8. BlockedReceives'
  <2>1. \A q \in Cproc : pc[q] = "send" => Head(batch[q]) # p
    BY SMTT(40), HeadInHand DEF Waiting
  <2>2. \A q \in Cproc : pc[q] = "send" => Head(batch[q]) \in Cproc
    BY SMTT(40), HeadInHand
  <2> QED BY SMTT(40), <1>1, <2>1, <2>2 DEF LInv, BlockedReceives
<1>9. MessageAwaited'
  <2> SUFFICES ASSUME NEW x \in Cproc, wait_port[x] > 0
               PROVE  pc'[x] = "receive" /\ state[x] = "RUNNING" /\ ~Enqueued(x)' /\ ~Dequeued(x)'
    BY ZenonT(40) DEF MessageAwaited
  <2>1. pc[x] = "receive" /\ state[x] = "RUNNING" /\ ~Enqueued(x) /\ ~Dequeued(x)
    BY SMTT(40) DEF LInv, MessageAwaited
  <2>2. x \notin Range(rest)
    BY SMTT(40), <1>4, <2>1 DEF Enqueued
  <2> QED BY SMTT(40), <1>1, <1>2, <2>1, <2>2 DEF Enqueued, Dequeued
<1>10. RunningWhenDone'
  BY ZenonT(40), <1>1 DEF LInv, RunningWhenDone
<1> QED BY <1>5, <1>6, <1>7, <1>8, <1>9, <1>10 DEF LInv

(* cproc_continue reads the state of the cproc it continues.               *)
LEMMA ReadOldStateStep ==
  ASSUME TInv, LInv, NEW p \in Cproc, ReadOldState(p)
  PROVE  LInv'
<1>0. /\ pc \in [Cproc -> Label] /\ old_state \in [Cproc -> CprocState] /\ pc[p] = "continue"
  BY DEF TInv, TypeOK, ReadOldState
<1>1. /\ \A q \in Cproc : q # p => pc'[q] = pc[q] /\ old_state'[q] = old_state[q]
      /\ pc'[p] = "set_running" /\ old_state'[p] = state[Head(batch[p])]
      /\ UNCHANGED <<cond, state, batch, queue, wait_port>>
  BY <1>0 DEF ReadOldState, Goto
<1>2. ~Enqueued(p) /\ ~Dequeued(p)
  BY SMTT(40), <1>0 DEF LInv, ListedWaits, Enqueued, Dequeued, Waiting
<1>3. OneLink'
  BY SMTT(40), <1>1 DEF LInv, OneLink, Enqueued, Dequeued
<1>4. ListedWaits'
  BY SMTT(40), <1>1, <1>2 DEF LInv, ListedWaits, Enqueued, Dequeued
<1>5. ListedNotRunning'
  BY SMTT(40), <1>0, <1>1 DEF LInv, ListedNotRunning
<1>6. BlockedReceives'
  <2>1. \A q \in Cproc : pc[q] = "send" => Head(batch[q]) \in Cproc \ {p}
    BY SMTT(40), <1>0, HeadInHand DEF Waiting
  <2> QED BY SMTT(40), <1>0, <1>1, <2>1 DEF LInv, BlockedReceives
<1>7. MessageAwaited'
  BY <1>0, <1>1 DEF LInv, MessageAwaited, Enqueued, Dequeued
<1>8. RunningWhenDone'
  BY <1>1 DEF LInv, RunningWhenDone
<1> QED BY <1>3, <1>4, <1>5, <1>6, <1>7, <1>8 DEF LInv

(* cproc_continue has seen the cproc BLOCKED and marks it RUNNING.         *)
LEMMA MarkStep ==
  ASSUME TInv, LInv, NEW p \in Cproc, SetRunning(p), old_state[p] = "BLOCKED"
  PROVE  LInv'
<1>0. /\ pc \in [Cproc -> Label] /\ state \in [Cproc -> CprocState]
      /\ old_state \in [Cproc -> CprocState] /\ wait_port \in [Cproc -> 0 .. 1]
      /\ pc[p] = "set_running"
  BY SMTT(40) DEF TInv, TypeOK, SetRunning, backlog
<1> DEFINE h == Head(batch[p])
<1>1. /\ h \in Cproc \ {p} /\ h \in Range(batch[p]) /\ pc[h] \in Waiting
      /\ \A q \in Cproc : q # p => h \notin Range(batch[q])
      /\ \A q \in Cproc : q # p /\ pc[q] \in {"set_running", "send"} => Head(batch[q]) # h
      /\ ~Enqueued(h)
  BY SMTT(40), <1>0, HeadInHand
<1>2. /\ \A q \in Cproc : q # p => pc'[q] = pc[q] /\ old_state'[q] = old_state[q]
      /\ \A q \in Cproc : q # h => state'[q] = state[q]
      /\ pc'[p] = "send" /\ state'[h] = "RUNNING"
      /\ UNCHANGED <<cond, batch, queue, wait_port>>
  BY SMTT(40), <1>0, <1>1 DEF SetRunning, Goto
<1>3. state[h] = "BLOCKED" /\ pc[h] = "receive" /\ wait_port[h] = 0
  <2>1. state[h] = "BLOCKED"
    BY <1>0 DEF LInv, BlockedReceives
  <2>2. ~(wait_port[h] > 0)
    BY <1>1, <2>1 DEF LInv, MessageAwaited
  <2>3. wait_port[h] \in 0 .. 1
    BY <1>0, <1>1
  <2>4. wait_port[h] = 0
    BY <2>2, <2>3
  <2> QED BY <1>1, <2>1, <2>4 DEF LInv, BlockedReceives
<1>4. ~Enqueued(p) /\ ~Dequeued(p)
  BY ZenonT(40), <1>0 DEF LInv, ListedWaits, Enqueued, Dequeued, Waiting
<1>5. OneLink'
  BY ZenonT(40), <1>2 DEF LInv, OneLink, Enqueued, Dequeued
<1>6. ListedWaits'
  BY SMTT(40), <1>2, <1>4 DEF LInv, ListedWaits, Enqueued, Dequeued
<1>7. ListedNotRunning'
  <2>1. \A x \in Cproc, c \in Condition : x \in Range(queue[c]) => x # h /\ state[x] # "RUNNING"
    BY <1>1 DEF LInv, ListedNotRunning, Enqueued
  <2>2. \A x \in Cproc : x \in Range(batch[p]) /\ x # h => state[x] # "RUNNING"
    BY SMTT(40), <1>0 DEF LInv, ListedNotRunning
  <2>3. \A x \in Cproc, q \in Cproc :
          q # p /\ x \in Range(batch[q]) /\ ~(pc[q] = "send" /\ x = Head(batch[q]))
            => x # h /\ state[x] # "RUNNING"
    BY SMTT(40), <1>1 DEF LInv, ListedNotRunning
  <2> QED BY SMTT(40), <1>2, <2>1, <2>2, <2>3 DEF ListedNotRunning
<1>8. BlockedReceives'
  <2>1. \A q \in Cproc : pc[q] \in {"set_running", "send"} => Head(batch[q]) \in Cproc \ {p}
    <3> TAKE q \in Cproc
    <3> HAVE pc[q] \in {"set_running", "send"}
    <3>1. pc[Head(batch[q])] \in Waiting /\ Head(batch[q]) \in Cproc
      BY SMTT(40), HeadInHand
    <3> QED BY <1>0, <3>1 DEF Waiting
  <2>2. \A q \in Cproc : state'[q] = "BLOCKED" => pc'[q] = "receive"
    BY SMTT(40), <1>0, <1>2 DEF LInv, BlockedReceives
  <2>3. \A q \in Cproc \ {p} :
          /\ pc[q] = "set_running" /\ old_state[q] = "BLOCKED" => state'[Head(batch[q])] = "BLOCKED"
          /\ pc[q] = "send" =>
               /\ pc'[Head(batch[q])] = "receive"
               /\ state'[Head(batch[q])] = "RUNNING"
               /\ wait_port[Head(batch[q])] = 0
    BY SMTT(40), <1>1, <1>2, <2>1 DEF LInv, BlockedReceives
  <2>4. pc'[h] = "receive"
    BY SMTT(40), <1>1, <1>2, <1>3
  <2> QED BY <1>2, <1>3, <2>2, <2>3, <2>4 DEF BlockedReceives
<1>9. MessageAwaited'
  <2>1. \A x \in Cproc : wait_port[x] > 0 => pc[x] = "receive" /\ x # p /\ x # h
    BY <1>0, <1>3 DEF LInv, MessageAwaited
  <2> QED BY <1>2, <2>1 DEF LInv, MessageAwaited, Enqueued, Dequeued
<1>10. RunningWhenDone'
  BY <1>2 DEF LInv, RunningWhenDone
<1> QED BY SMTT(40), <1>5, <1>6, <1>7, <1>8, <1>9, <1>10 DEF LInv

(* The end of cproc_continue: its cproc is RUNNING, has its message if one *)
(* was due, and is on no list.                                             *)
LEMMA FinishStep ==
  ASSUME TInv, LInv, NEW p \in Cproc, pc[p] \in {"set_running", "send"},
         NEW h \in Cproc, h = Head(batch[p]),
         ContinueOrReturn(p, Tail(batch[p])), queue' = queue,
         state' = [state EXCEPT ![h] = "RUNNING"],
         \A q \in Cproc : q # p => old_state'[q] = old_state[q],
         \A q \in Cproc : q # h => wait_port'[q] = wait_port[q],
         wait_port' = wait_port \/ pc[h] = "receive"
  PROVE  LInv'
<1>0. /\ pc \in [Cproc -> Label] /\ state \in [Cproc -> CprocState]
      /\ batch \in [Cproc -> Seq(Cproc)] /\ cond \in [Cproc -> Condition \cup {NoCondition}]
  BY DEF TInv, TypeOK
<1>1. /\ h # p /\ h \in Range(batch[p]) /\ pc[h] \in Waiting /\ batch[p] # <<>>
      /\ \A q \in Cproc : q # p /\ pc[q] \in {"set_running", "send"} => Head(batch[q]) # h
  BY HeadInHand
<1>2. /\ pc'[p] \in {"idle", "continue"}
      /\ \A q \in Cproc : q # p => pc'[q] = pc[q] /\ cond'[q] = cond[q] /\ batch'[q] = batch[q]
      /\ \A q \in Cproc : q # h => state'[q] = state[q]
      /\ state'[h] = "RUNNING" /\ batch' = [batch EXCEPT ![p] = Tail(batch[p])]
  BY SMTT(40), <1>0 DEF ContinueOrReturn, Goto
<1>3. /\ OneLink' /\ ~Enqueued(h)' /\ ~Dequeued(h)'
      /\ \A q \in Cproc : Range(batch'[q]) \subseteq Range(batch[q])
  BY ZenonT(40), <1>1, <1>2, DropHead DEF LInv
<1>4. ~Enqueued(p) /\ ~Dequeued(p)
  BY DEF LInv, ListedWaits, Enqueued, Dequeued, Waiting
<1>5. ListedWaits'
  <2>1. \A x \in Cproc, c \in Condition : x \in Range(queue[c]) => pc'[x] \in Waiting /\ cond'[x] = c
    BY <1>2, <1>4 DEF LInv, ListedWaits, Enqueued
  <2>2. \A x \in Cproc, q \in Cproc : x \in Range(batch'[q]) => pc'[x] \in Waiting
    <3> TAKE x \in Cproc, q \in Cproc
    <3> HAVE x \in Range(batch'[q])
    <3>1. x \in Range(batch[q])
      BY SMTT(40), <1>3
    <3>2. pc[x] \in Waiting
      BY SMTT(40), <3>1 DEF LInv, ListedWaits
    <3> QED BY <1>2, <3>2 DEF Waiting
  <2> QED BY <2>1, <2>2 DEF ListedWaits
<1>6. ListedNotRunning'
  <2>1. \A x \in Cproc, c \in Condition : x \in Range(queue[c]) => x # h /\ state[x] # "RUNNING"
    BY SMTT(40), <1>3 DEF LInv, ListedNotRunning, Enqueued
  <2>2. \A x \in Cproc : x \in Range(batch'[p]) => x # h /\ state[x] # "RUNNING"
    BY SMTT(40), <1>3 DEF LInv, ListedNotRunning, Dequeued
  <2>3. \A x \in Cproc, q \in Cproc :
          q # p /\ x \in Range(batch'[q]) /\ ~(pc[q] = "send" /\ x = Head(batch[q]))
            => x # h /\ state[x] # "RUNNING"
    BY SMTT(40), <1>3 DEF LInv, ListedNotRunning, Dequeued
  <2> QED BY SMTT(40), <1>2, <2>1, <2>2, <2>3 DEF ListedNotRunning
<1>7. BlockedReceives'
  <2>1. \A q \in Cproc : pc[q] \in {"set_running", "send"} => Head(batch[q]) \in Cproc \ {p}
    <3> TAKE q \in Cproc
    <3> HAVE pc[q] \in {"set_running", "send"}
    <3>1. pc[Head(batch[q])] \in Waiting /\ Head(batch[q]) \in Cproc
      BY SMTT(40), HeadInHand
    <3> QED BY <3>1 DEF Waiting
  <2>2. \A q \in Cproc : state'[q] = "BLOCKED" => pc'[q] = "receive"
    BY SMTT(40), <1>2 DEF LInv, BlockedReceives
  <2>3. \A q \in Cproc \ {p} :
          /\ pc[q] = "set_running" /\ old_state[q] = "BLOCKED" => state'[Head(batch[q])] = "BLOCKED"
          /\ pc[q] = "send" =>
               /\ pc'[Head(batch[q])] = "receive"
               /\ state'[Head(batch[q])] = "RUNNING"
               /\ wait_port'[Head(batch[q])] = 0
    BY SMTT(40), <1>1, <1>2, <2>1 DEF LInv, BlockedReceives
  <2> QED BY SMTT(40), <1>2, <2>2, <2>3 DEF BlockedReceives
<1>8. MessageAwaited'
  <2>1. ASSUME NEW x \in Cproc, x # h, wait_port'[x] > 0
        PROVE  pc'[x] = "receive" /\ state'[x] = "RUNNING" /\ ~Enqueued(x)' /\ ~Dequeued(x)'
    <3>1. pc[x] = "receive" /\ state[x] = "RUNNING" /\ ~Enqueued(x) /\ ~Dequeued(x)
      BY SMTT(40), <2>1 DEF LInv, MessageAwaited
    <3> QED BY SMTT(40), <1>2, <1>3, <2>1, <3>1 DEF Enqueued, Dequeued
  <2>2. wait_port'[h] > 0 => pc[h] = "receive"
    BY SMTT(40) DEF LInv, MessageAwaited
  <2> QED BY SMTT(40), <1>1, <1>2, <1>3, <2>1, <2>2 DEF MessageAwaited
<1>9. RunningWhenDone'
  BY SMTT(40), <1>2 DEF LInv, RunningWhenDone
<1> QED BY <1>3, <1>5, <1>6, <1>7, <1>8, <1>9 DEF LInv

(* Every step keeps the list invariant.                                    *)
LEMMA LInvStep ==
  ASSUME TInv, LInv, [Next]_vars
  PROVE  LInv'
<1>0. /\ pc \in [Cproc -> Label] /\ cond \in [Cproc -> Condition \cup {NoCondition}]
      /\ queue \in [Condition -> Seq(Cproc)] /\ batch \in [Cproc -> Seq(Cproc)]
      /\ state \in [Cproc -> CprocState] /\ old_state \in [Cproc -> CprocState]
      /\ wait_port \in [Cproc -> 0 .. backlog]
  BY SMTT(40) DEF TInv, TypeOK
<1>1. CASE UNCHANGED vars
  BY ZenonT(40), <1>1 DEF vars, LInv, OneLink, ListedWaits, ListedNotRunning, BlockedReceives,
              MessageAwaited, RunningWhenDone, Enqueued, Dequeued
<1>2. ASSUME NEW p \in Cproc, mutex_lock(p) \/ mutex_unlock(p) PROVE LInv'
  <2>1. pc[p] = "idle" /\ pc' = [pc EXCEPT ![p] = "idle"]
        /\ UNCHANGED <<cond, state, old_state, batch, queue, wait_port>>
    BY SMTT(40), <1>0, <1>2 DEF mutex_lock, mutex_unlock
  <2> QED BY ZenonT(40), <2>1, MoveStep DEF Label, Waiting
<1>3. ASSUME NEW p \in Cproc, NEW c \in Condition,
             condition_wait(p, c) \/ condition_signal(p, c) \/ condition_broadcast(p, c)
      PROVE  LInv'
  <2>1. PICK l \in {"enter", "signal", "broadcast"} :
          pc[p] = "idle" /\ pc' = [pc EXCEPT ![p] = l] /\ cond' = [cond EXCEPT ![p] = c]
          /\ UNCHANGED <<state, old_state, batch, queue, wait_port>>
    BY <1>3 DEF condition_wait, condition_signal, condition_broadcast, Goto
  <2>2. \A q \in Cproc : q # p => cond'[q] = cond[q]
    BY SMTT(40), <1>0, <2>1
  <2> QED BY ZenonT(40), <2>1, <2>2, MoveStep DEF Label, Waiting
<1>4. ASSUME NEW p \in Cproc, ReleaseMutex(p) \/ RecheckLock(p) PROVE LInv'
  <2>1. PICK l \in {"poll", "recheck"} :
          pc[p] \in {"release", "recheck_lock"} /\ pc' = [pc EXCEPT ![p] = l]
          /\ UNCHANGED <<cond, state, old_state, batch, queue, wait_port>>
    BY SMTT(40), <1>4 DEF ReleaseMutex, RecheckLock, Goto
  <2> QED BY ZenonT(40), <2>1, MoveStep DEF Label, Waiting
<1>5. ASSUME NEW p \in Cproc, Poll(p) \/ Recheck(p) PROVE LInv'
  <2>1. PICK l \in {"poll", "recheck_lock", "block", "done"} :
          pc[p] \in {"poll", "recheck"} /\ pc' = [pc EXCEPT ![p] = l]
          /\ (l = "done" => state[p] = "RUNNING")
          /\ UNCHANGED <<cond, state, old_state, batch, queue, wait_port>>
    BY SMTT(40), <1>0, <1>5 DEF Poll, Recheck, Goto
  <2> QED BY ZenonT(40), <2>1, MoveStep DEF Label, Waiting
<1>6. ASSUME NEW p \in Cproc, Reacquire(p) PROVE LInv'
  <2>1. pc[p] = "done" /\ pc' = [pc EXCEPT ![p] = "idle"] /\ cond' = [cond EXCEPT ![p] = NoCondition]
        /\ UNCHANGED <<state, old_state, batch, queue, wait_port>>
    BY <1>6 DEF Reacquire, Goto
  <2>2. \A q \in Cproc : q # p => cond'[q] = cond[q]
    BY <1>0, <2>1
  <2> QED BY Zenon, <2>1, <2>2, MoveStep DEF Label, Waiting
<1>7. ASSUME NEW p \in Cproc, cond_signal(p) PROVE LInv'
  <2>1. cond[p] \in Condition /\ pc[p] = "signal" /\ queue[cond[p]] \in Seq(Cproc)
        /\ UNCHANGED <<state, old_state, wait_port>>
    BY SMTT(40), <1>0, <1>7 DEF TInv, CondInHand, cond_signal
  <2> DEFINE s == queue[cond[p]]
  <2>2. CASE s = <<>>
    <3>1. ContinueOrReturn(p, <<>>) /\ queue' = [queue EXCEPT ![cond[p]] = <<>>]
      BY <1>0, <1>7, <2>1, <2>2 DEF cond_signal
    <3>2. <<>> \in Seq(Cproc) /\ Range(<<>>) = {} /\ IsInjective(<<>>)
      BY EmptyList
    <3> QED BY Zenon, <2>1, <3>1, <3>2, TakeStep
  <2>3. CASE s # <<>>
    <3>1. ContinueOrReturn(p, <<Head(s)>>) /\ queue' = [queue EXCEPT ![cond[p]] = Tail(s)]
      BY ZenonT(40), <1>7, <2>3 DEF cond_signal
    <3>2. Head(s) \in Cproc /\ Tail(s) \in Seq(Cproc)
      BY <2>1, <2>3, HeadTailOfBatch
    <3>3. <<Head(s)>> \in Seq(Cproc) /\ Range(<<Head(s)>>) = {Head(s)} /\ IsInjective(<<Head(s)>>)
      BY <3>2, ShortList
    <3>4. IsInjective(s)
      BY Zenon, <2>1 DEF LInv, OneLink
    <3>5. /\ Range(s) = {Head(s)} \cup Range(Tail(s)) /\ Head(s) \notin Range(Tail(s))
          /\ IsInjective(Tail(s))
      BY <2>1, <2>3, <3>4, HeadTailList
    <3> HIDE DEF s
    <3>6. Range(<<Head(s)>>) \cup Range(Tail(s)) \subseteq Range(s)
          /\ Range(<<Head(s)>>) \cap Range(Tail(s)) = {}
      BY SMTT(40), <3>3, <3>5
    <3> USE DEF s
    <3> QED BY ZenonT(40), <2>1, <3>1, <3>2, <3>3, <3>5, <3>6, TakeStep
  <2> QED BY SMTT(40), <2>2, <2>3
<1>8. ASSUME NEW p \in Cproc, cond_broadcast(p) PROVE LInv'
  <2>1. /\ cond[p] \in Condition /\ pc[p] = "broadcast" /\ queue[cond[p]] \in Seq(Cproc)
        /\ UNCHANGED <<state, old_state, wait_port>>
        /\ ContinueOrReturn(p, queue[cond[p]]) /\ queue' = [queue EXCEPT ![cond[p]] = <<>>]
    BY ZenonT(40), <1>0, <1>8 DEF TInv, CondInHand, cond_broadcast
  <2>2. <<>> \in Seq(Cproc) /\ Range(<<>>) = {} /\ IsInjective(<<>>)
    BY EmptyList
  <2>3. IsInjective(queue[cond[p]])
    BY <2>1 DEF LInv, OneLink
  <2>4. Range(queue[cond[p]]) \cup Range(<<>>) \subseteq Range(queue[cond[p]])
        /\ Range(queue[cond[p]]) \cap Range(<<>>) = {}
    BY SMTT(40), <2>2
  <2> QED BY Zenon, <2>1, <2>2, <2>3, <2>4, TakeStep
<1>9. ASSUME NEW p \in Cproc, SetRunning(p), old_state[p] # "BLOCKED" PROVE LInv'
  <2>1. pc[p] = "set_running" /\ ContinueOrReturn(p, Tail(batch[p])) /\ UNCHANGED <<queue, wait_port>>
        /\ state' = [state EXCEPT ![Head(batch[p])] = "RUNNING"]
        /\ old_state' = [old_state EXCEPT ![p] = "RUNNING"]
    BY <1>9 DEF SetRunning
  <2>2. Head(batch[p]) \in Cproc
    BY <2>1, HeadInHand
  <2>3. \A q \in Cproc : q # p => old_state'[q] = old_state[q]
    BY <1>0, <2>1
  <2> QED BY Zenon, <2>1, <2>2, <2>3, FinishStep
<1>10. ASSUME NEW p \in Cproc, Send(p) PROVE LInv'
  <2> DEFINE h == Head(batch[p])
  <2>1. /\ pc[p] = "send" /\ ContinueOrReturn(p, Tail(batch[p]))
        /\ UNCHANGED <<queue, state, old_state>>
        /\ wait_port' = [wait_port EXCEPT ![h] = IF @ < backlog THEN @ + 1 ELSE @]
    BY <1>10 DEF Send
  <2>2. h \in Cproc
    BY <2>1, HeadInHand
  <2>3. pc[h] = "receive" /\ state[h] = "RUNNING"
    BY <2>1 DEF LInv, BlockedReceives
  <2>4. state' = [state EXCEPT ![h] = "RUNNING"]
    BY <1>0, <2>1, <2>2, <2>3
  <2>5. \A q \in Cproc : q # h => wait_port'[q] = wait_port[q]
    BY <1>0, <2>1
  <2> QED BY Zenon, <2>1, <2>2, <2>3, <2>4, <2>5, FinishStep
<1> QED
  BY SMTT(40), <1>1, <1>2, <1>3, <1>4, <1>5, <1>6, <1>7, <1>8, <1>9, <1>10,
     EnqueueStep, BlockStep, ReceiveStep, ReadOldStateStep, MarkStep DEF Next, Step, Call

(* The list invariant holds in every reachable state.                      *)
LEMMA LInvCorrect == Spec => []LInv
<1>1. Init => LInv
  <2>1. Range(<<>>) = {} /\ IsInjective(<<>>)
    BY Zenon, ShortList
  <2> SUFFICES ASSUME Init PROVE LInv
    OBVIOUS
  <2>2. /\ \A p \in Cproc : /\ pc[p] = "idle" /\ batch[p] = <<>> /\ state[p] = "RUNNING"
                            /\ wait_port[p] = 0
        /\ \A c \in Condition : queue[c] = <<>>
    BY DEF Init
  <2> QED BY <2>1, <2>2 DEF LInv, OneLink, ListedWaits, ListedNotRunning, BlockedReceives,
                            MessageAwaited, RunningWhenDone, Enqueued, Dequeued
<1>2. TInv /\ LInv /\ [Next]_vars => LInv'
  BY LInvStep
<1> QED BY <1>1, <1>2, TInvCorrect, PTL DEF Spec

(* A cproc is never on two lists, nor twice on one: the single "next" field*)
(* that cthread_queue_enq and the list of cond_broadcast share is enough.  *)
THEOREM OneLinkCorrect == Spec => []OneLink
<1>1. LInv => OneLink
  BY DEF LInv
<1> QED BY <1>1, LInvCorrect, PTL

(* No wakeup message of cproc_continue is ever left over for a later wait, *)
(* and none is sent to a cproc that is not in msg_receive.                 *)
THEOREM WakeupMessageCorrect == Spec => []WakeupMessageExpected
<1>1. LInv => WakeupMessageExpected
  BY DEF LInv, MessageAwaited, BlockedReceives, WakeupMessageExpected
<1> QED BY <1>1, LInvCorrect, PTL

(* The ASSERT at the end of condition_wait never fails.                    *)
THEOREM RunningWhenDoneCorrect == Spec => []RunningWhenDone
<1>1. LInv => RunningWhenDone
  BY DEF LInv
<1> QED BY <1>1, LInvCorrect, PTL

(* A cproc that returns from condition_wait is on no list any more.        *)
THEOREM NoSpuriousReturnCorrect == Spec => []NoSpuriousReturn
<1>1. LInv => NoSpuriousReturn
  BY DEF LInv, ListedWaits, Waiting, Enqueued, Dequeued, NoSpuriousReturn
<1> QED BY <1>1, LInvCorrect, PTL
-----------------------------------------------------------------------------
(* The MTHREAD build implements CondVar: every step of the layer is an     *)
(* operation of the abstract mutex and condition variables, or invisible   *)
(* to the clients.                                                         *)

(* The abstract holder, when nobody and when one cproc holds the mutex.    *)
LEMMA HolderIs ==
  HolderAmong({}) = NO_CPROC /\ \A p : HolderAmong({p}) = p
<1>1. HolderAmong({}) = NO_CPROC
  BY DEF HolderAmong
<1>2. ASSUME NEW p PROVE HolderAmong({p}) = p
  BY DEF HolderAmong
<1> QED BY Zenon, <1>1, <1>2

(* With the mutex word clear, no cproc counts as its holder; the one that  *)
(* has set held is the only one.                                           *)
LEMMA HoldersOf ==
  ASSUME MutexExclusion
  PROVE  /\ mutex = 0 => Holders = {}
         /\ \A p \in Cproc : held[p] /\ pc[p] # "release" => Holders = {p}
         /\ \A p \in Cproc : held[p] /\ pc[p] = "release" => Holders = {}
  BY DEF MutexExclusion, Holders

(* What a step leaves of the abstract state.                               *)
LEMMA HoldersSame ==
  ASSUME held' = held, \A q \in Cproc : pc[q] = "release" <=> pc'[q] = "release"
  PROVE  Holders' = Holders
  BY DEF Holders

(* Who is released depends on the queues and on who is in condition_wait.  *)
LEMMA ReleasedSame ==
  ASSUME queue' = queue, \A q \in Cproc : InWait(q) <=> InWait(q)'
  PROVE  Released' = Released
<1>1. \A q \in Cproc : Enqueued(q) <=> Enqueued(q)'
  BY DEF Enqueued
<1> QED BY <1>1 DEF Released

(* A step of p inside or outside its wait that no client can see.          *)
LEMMA InvisibleStep ==
  ASSUME TInv, NEW p \in Cproc, NEW l \in Label, pc' = [pc EXCEPT ![p] = l],
         UNCHANGED <<held, queue>>,
         pc[p] = "release" <=> l = "release",
         pc[p] \in Waiting \cup {"done"} <=> l \in Waiting \cup {"done"}
  PROVE  UNCHANGED CV!cvVars
<1>1. pc'[p] = l /\ \A q \in Cproc : q # p => pc'[q] = pc[q]
  BY DEF TInv, TypeOK
<1>2. Holders' = Holders
  BY <1>1, HoldersSame
<1>3. Released' = Released
  BY <1>1, ReleasedSame DEF InWait, Waiting
<1> QED BY <1>2, <1>3 DEF CV!cvVars

(* The end of a call of cproc_continue moves only its caller, outside any  *)
(* wait.                                                                   *)
LEMMA InvisibleContinue ==
  ASSUME TInv, NEW p \in Cproc, pc[p] \notin Waiting \cup {"done"}, NEW rest,
         ContinueOrReturn(p, rest)
  PROVE  /\ \A q \in Cproc : InWait(q) <=> InWait(q)'
         /\ \A q \in Cproc : pc[q] = "release" <=> pc'[q] = "release"
<1>1. pc'[p] \in {"idle", "continue"} /\ \A q \in Cproc : q # p => pc'[q] = pc[q]
  BY DEF TInv, TypeOK, ContinueOrReturn, Goto
<1> QED BY <1>1 DEF InWait, Waiting
-----------------------------------------------------------------------------
(* mutex_lock is the abstract Lock, mutex_unlock the abstract Unlock.      *)
LEMMA LockStep ==
  ASSUME TInv, LInv, MutexExclusion, NEW p \in Cproc, mutex_lock(p)
  PROVE  CV!Lock(p)
<1>1. /\ pc[p] = "idle" /\ pc' = pc /\ mutex = 0 /\ held' = [held EXCEPT ![p] = TRUE]
      /\ queue' = queue
  BY DEF mutex_lock
<1>2. Holders = {} /\ \A q \in Cproc : ~held[q]
  BY <1>1, HoldersOf DEF MutexExclusion
<1>3. ~CV!Waiting(p)
  BY <1>1 DEF CV!Waiting, CV!Range, Range, Released, InWait, LInv, ListedWaits, Waiting
<1>4. held'[p] /\ \A q \in Cproc : q # p => ~held'[q]
  BY <1>1, <1>2 DEF TInv, TypeOK
<1>5. Holders' = {p}
  BY <1>1, <1>4 DEF Holders
<1>6. Released' = Released
  BY <1>1, ReleasedSame DEF InWait
<1> QED BY ZenonT(40), <1>1, <1>2, <1>3, <1>5, <1>6, HolderIs DEF CV!Lock

(* mutex_unlock is the abstract Unlock: its caller is the only holder.     *)
LEMMA UnlockStep ==
  ASSUME TInv, MutexExclusion, NEW p \in Cproc, mutex_unlock(p)
  PROVE  CV!Unlock(p)
<1>1. /\ pc[p] = "idle" /\ pc' = pc /\ held[p] /\ held' = [held EXCEPT ![p] = FALSE]
      /\ queue' = queue
  BY DEF mutex_unlock
<1>2. Holders = {p} /\ \A q \in Cproc : q # p => ~held[q]
  BY <1>1, HoldersOf DEF MutexExclusion
<1>3. \A q \in Cproc : ~held'[q]
  BY <1>1, <1>2 DEF TInv, TypeOK
<1>4. Holders' = {}
  BY <1>3 DEF Holders
<1>5. Released' = Released
  BY <1>1, ReleasedSame DEF InWait
<1> QED BY ZenonT(40), <1>1, <1>2, <1>4, <1>5, HolderIs DEF CV!Unlock

(* The enqueueing in condition_wait is the abstract Wait: the mutex counts *)
(* as free from there on.                                                  *)
LEMMA WaitStep ==
  ASSUME TInv, LInv, MutexExclusion, MutexPlaces, NEW p \in Cproc, Enqueue(p)
  PROVE  cond[p] \in Condition /\ CV!Wait(p, cond[p])
<1>1. /\ pc[p] = "enter" /\ pc' = [pc EXCEPT ![p] = "release"] /\ held' = held
      /\ queue' = [queue EXCEPT ![cond[p]] = Append(@, p)]
      /\ cond[p] \in Condition /\ queue \in [Condition -> Seq(Cproc)] /\ pc \in [Cproc -> Label]
  BY DEF Enqueue, Goto, TInv, TypeOK, CondInHand
<1>2. held[p] /\ \A q \in Cproc : q # p => ~held[q]
  BY <1>1 DEF MutexPlaces, MutexExclusion
<1>3. Holders = {p}
  BY <1>1, <1>2, HoldersOf
<1>4. pc'[p] = "release" /\ \A q \in Cproc : q # p => pc'[q] = pc[q]
  BY SMTT(40), <1>1
<1>5. Holders' = {}
  BY <1>1, <1>2, <1>4 DEF Holders
<1>6. Released' = Released
  <2>1. /\ Range(queue'[cond[p]]) = Range(queue[cond[p]]) \cup {p}
        /\ \A c \in Condition : c # cond[p] => queue'[c] = queue[c]
    BY SMTT(40), <1>1, AppendList
  <2>2. Enqueued(p)' /\ \A q \in Cproc : q # p => (Enqueued(q) <=> Enqueued(q)')
    BY Zenon, <1>1, <2>1 DEF Enqueued
  <2>3. \A q \in Cproc : InWait(q) /\ ~Enqueued(q) <=> InWait(q)' /\ ~Enqueued(q)'
    BY <1>1, <1>4, <2>2 DEF InWait
  <2> QED BY SMTT(40), <2>3 DEF Released
<1> QED BY Zenon, <1>1, <1>3, <1>5, <1>6, HolderIs DEF CV!Wait

(* The mutex_lock at the end of condition_wait is the abstract Return.     *)
LEMMA ReturnStep ==
  ASSUME TInv, LInv, MutexExclusion, NEW p \in Cproc, Reacquire(p)
  PROVE  CV!Return(p)
<1>1. /\ pc[p] = "done" /\ pc' = [pc EXCEPT ![p] = "idle"] /\ mutex = 0
      /\ held' = [held EXCEPT ![p] = TRUE] /\ queue' = queue /\ pc \in [Cproc -> Label]
  BY DEF Reacquire, Goto, TInv, TypeOK
<1>2. Holders = {} /\ \A q \in Cproc : ~held[q]
  BY <1>1, HoldersOf DEF MutexExclusion
<1>3. pc'[p] = "idle" /\ \A q \in Cproc : q # p => pc'[q] = pc[q]
  BY SMTT(40), <1>1
<1>4. held'[p] /\ \A q \in Cproc : q # p => ~held'[q]
  BY <1>1, <1>2 DEF TInv, TypeOK
<1>5. Holders' = {p}
  BY SMTT(40), <1>3, <1>4 DEF Holders
<1>6. p \in Released
  BY <1>1 DEF LInv, ListedWaits, Waiting, Enqueued, InWait, Released
<1>7. Released' = Released \ {p}
  <2>1. \A q \in Cproc : Enqueued(q) <=> Enqueued(q)'
    BY <1>1 DEF Enqueued
  <2>2. \A q \in Cproc : InWait(q)' <=> InWait(q) /\ q # p
    BY <1>3 DEF InWait
  <2> QED BY <2>1, <2>2 DEF Released
<1> QED BY ZenonT(40), <1>1, <1>2, <1>5, <1>6, <1>7, HolderIs DEF CV!Return

(* The cprocs that a signal or broadcast takes over are the ones released. *)
LEMMA TakenReleased ==
  ASSUME TInv, LInv, NEW p \in Cproc, pc[p] \in {"signal", "broadcast"},
         NEW c \in Condition, NEW rest \in Seq(Cproc), NEW left \in Seq(Cproc),
         ContinueOrReturn(p, rest), queue' = [queue EXCEPT ![c] = left], held' = held,
         Range(queue[c]) = Range(rest) \cup Range(left), Range(rest) \cap Range(left) = {}
  PROVE  Holders' = Holders /\ Released' = Released \cup Range(rest)
<1>1. /\ \A q \in Cproc : InWait(q) <=> InWait(q)'
      /\ \A q \in Cproc : pc[q] = "release" <=> pc'[q] = "release"
  BY SMTT(40), InvisibleContinue DEF Waiting
<1>2. Holders' = Holders
  BY SMTT(40), <1>1, HoldersSame
<1>3. queue'[c] = left /\ \A d \in Condition : d # c => queue'[d] = queue[d]
  BY SMTT(40) DEF TInv, TypeOK
<1>4. Range(rest) \subseteq Cproc
  BY SMTT(40) DEF Range
<1>5. \A q \in Range(rest) : InWait(q) /\ Enqueued(q)
  BY SMTT(40), <1>4 DEF LInv, ListedWaits, Waiting, InWait, Enqueued
<1>6. \A q \in Range(rest) : ~Enqueued(q)'
  BY ZenonT(40), <1>3, <1>4 DEF LInv, OneLink, Enqueued
<1>7. \A q \in Cproc \ Range(rest) : Enqueued(q) <=> Enqueued(q)'
  BY ZenonT(40), <1>3 DEF Enqueued
<1>8. \A q \in Cproc : q \in Released' <=> q \in Released \cup Range(rest)
  BY <1>1, <1>4, <1>5, <1>6, <1>7 DEF Released
<1>9. Released' \subseteq Cproc /\ Released \subseteq Cproc
  BY SMTT(40) DEF Released
<1> QED BY SMTT(40), <1>2, <1>4, <1>8, <1>9

(* The locked section of cond_signal is the abstract Signal, unless the    *)
(* queue has become empty since condition_signal looked at it.             *)
LEMMA SignalStep ==
  ASSUME TInv, LInv, NEW p \in Cproc, cond_signal(p)
  PROVE  (\E c \in Condition : CV!Signal(c)) \/ UNCHANGED CV!cvVars
<1>1. /\ cond[p] \in Condition /\ pc[p] = "signal" /\ queue \in [Condition -> Seq(Cproc)]
      /\ held' = held
  BY DEF TInv, TypeOK, CondInHand, cond_signal
<1>2. CASE queue[cond[p]] = <<>>
  <2>1. ContinueOrReturn(p, <<>>) /\ queue' = queue
    BY ZenonT(40), <1>2 DEF cond_signal
  <2>2. /\ \A q \in Cproc : InWait(q) <=> InWait(q)'
        /\ \A q \in Cproc : pc[q] = "release" <=> pc'[q] = "release"
    BY SMTT(40), <1>1, <2>1, InvisibleContinue DEF Waiting
  <2>3. Holders' = Holders /\ Released' = Released
    BY SMTT(40), <1>1, <2>1, <2>2, HoldersSame, ReleasedSame
  <2> QED BY SMTT(40), <2>1, <2>3 DEF CV!cvVars
<1>3. CASE queue[cond[p]] # <<>>
  <2> DEFINE s == queue[cond[p]]
  <2>1. ContinueOrReturn(p, <<Head(s)>>) /\ queue' = [queue EXCEPT ![cond[p]] = Tail(s)]
    BY SMTT(40), <1>3 DEF cond_signal
  <2>2. s \in Seq(Cproc) /\ Head(s) \in Cproc /\ Tail(s) \in Seq(Cproc)
    BY SMTT(40), <1>1, <1>3, HeadTailOfBatch
  <2>3. <<Head(s)>> \in Seq(Cproc) /\ Range(<<Head(s)>>) = {Head(s)}
    BY SMTT(40), <2>2, ShortList
  <2>4. Range(s) = {Head(s)} \cup Range(Tail(s)) /\ Head(s) \notin Range(Tail(s))
    BY <1>1, <1>3, <2>2, HeadTailList DEF LInv, OneLink
  <2> HIDE DEF s
  <2>5. Range(s) = Range(<<Head(s)>>) \cup Range(Tail(s))
        /\ Range(<<Head(s)>>) \cap Range(Tail(s)) = {}
    BY SMTT(40), <2>3, <2>4
  <2> USE DEF s
  <2>6. Holders' = Holders /\ Released' = Released \cup Range(<<Head(s)>>)
    BY ZenonT(40), <1>1, <2>1, <2>2, <2>3, <2>5, TakenReleased
  <2>7. Released' = Released \cup {Head(s)}
    BY <2>3, <2>6
  <2>8. CV!Signal(cond[p])
    BY ZenonT(40), <1>3, <2>1, <2>6, <2>7 DEF CV!Signal
  <2> QED BY SMTT(40), <1>1, <2>8
<1> QED BY SMTT(40), <1>2, <1>3

(* The locked section of cond_broadcast is the abstract Broadcast.         *)
LEMMA BroadcastStep ==
  ASSUME TInv, LInv, NEW p \in Cproc, cond_broadcast(p)
  PROVE  (\E c \in Condition : CV!Broadcast(c)) \/ UNCHANGED CV!cvVars
<1> DEFINE s == queue[cond[p]]
<1>1. /\ cond[p] \in Condition /\ pc[p] = "broadcast" /\ queue \in [Condition -> Seq(Cproc)]
      /\ s \in Seq(Cproc) /\ held' = held
      /\ ContinueOrReturn(p, s) /\ queue' = [queue EXCEPT ![cond[p]] = <<>>]
  BY DEF TInv, TypeOK, CondInHand, cond_broadcast
<1>2. <<>> \in Seq(Cproc) /\ Range(<<>>) = {}
  BY ZenonT(40), EmptyList
<1>3. Range(s) = Range(s) \cup Range(<<>>) /\ Range(s) \cap Range(<<>>) = {}
  BY SMTT(40), <1>2
<1>4. Holders' = Holders /\ Released' = Released \cup Range(s)
  BY Zenon, <1>1, <1>2, <1>3, TakenReleased
<1>5. CASE s = <<>>
  <2>1. queue' = queue
    BY <1>1, <1>5
  <2>2. Released' = Released
    BY <1>2, <1>4, <1>5
  <2> QED BY <1>4, <2>1, <2>2 DEF CV!cvVars
<1>6. CASE s # <<>>
  <2>1. CV!Range(s) = Range(s)
    BY SMTT(40) DEF CV!Range, Range
  <2>2. CV!Broadcast(cond[p])
    BY ZenonT(40), <1>1, <1>4, <1>6, <2>1 DEF CV!Broadcast
  <2> QED BY <1>1, <2>2
<1> QED BY SMTT(40), <1>5, <1>6
-----------------------------------------------------------------------------
(* Every step of the layer is a step of CondVar or invisible in it.        *)
LEMMA RefinedStep ==
  ASSUME TInv, LInv, MutexExclusion, MutexPlaces, [Next]_vars
  PROVE  [CV!CVNext]_CV!cvVars
<1>0. pc \in [Cproc -> Label]
  BY DEF TInv, TypeOK
<1>1. CASE UNCHANGED vars
  <2>1. Holders' = Holders /\ Released' = Released /\ queue' = queue
    BY <1>1, HoldersSame, ReleasedSame DEF vars, InWait
  <2> QED BY <2>1 DEF CV!cvVars
<1>2. ASSUME NEW p \in Cproc, mutex_lock(p) \/ mutex_unlock(p) \/ Reacquire(p)
      PROVE  CV!CVNext
  BY <1>2, LockStep, UnlockStep, ReturnStep DEF CV!CVNext
<1>3. ASSUME NEW p \in Cproc, Enqueue(p) PROVE CV!CVNext
  BY <1>3, WaitStep DEF CV!CVNext
<1>4. ASSUME NEW p \in Cproc, cond_signal(p) \/ cond_broadcast(p)
      PROVE  CV!CVNext \/ UNCHANGED CV!cvVars
  BY SMTT(40), <1>4, SignalStep, BroadcastStep DEF CV!CVNext
<1>5. ASSUME NEW p \in Cproc, NEW c \in Condition,
             condition_wait(p, c) \/ condition_signal(p, c) \/ condition_broadcast(p, c)
      PROVE  UNCHANGED CV!cvVars
  <2>1. PICK l \in {"enter", "signal", "broadcast"} :
          pc[p] = "idle" /\ pc' = [pc EXCEPT ![p] = l] /\ UNCHANGED <<held, queue>>
    BY <1>5 DEF condition_wait, condition_signal, condition_broadcast, Goto
  <2> QED BY ZenonT(40), <2>1, InvisibleStep DEF Label, Waiting
<1>6. ASSUME NEW p \in Cproc, ReleaseMutex(p) PROVE UNCHANGED CV!cvVars
  <2>1. /\ pc[p] = "release" /\ pc' = [pc EXCEPT ![p] = "poll"] /\ queue' = queue
        /\ held' = [held EXCEPT ![p] = FALSE]
    BY <1>6 DEF ReleaseMutex, Goto
  <2>2. held[p] /\ \A q \in Cproc : q # p => ~held[q]
    BY SMTT(40), <2>1 DEF MutexPlaces, MutexExclusion
  <2>3. \A q \in Cproc : ~held'[q]
    BY <2>1, <2>2 DEF TInv, TypeOK
  <2>4. Holders = {} /\ Holders' = {}
    BY <2>1, <2>2, <2>3 DEF Holders
  <2>5. pc'[p] = "poll" /\ \A q \in Cproc : q # p => pc'[q] = pc[q]
    BY <1>0, <2>1
  <2>6. Released' = Released
    BY SMTT(40), <2>1, <2>5, ReleasedSame DEF InWait
  <2> QED BY <2>1, <2>4, <2>6 DEF CV!cvVars
<1>7. ASSUME NEW p \in Cproc,
             Poll(p) \/ RecheckLock(p) \/ Recheck(p) \/ Block(p) \/ Receive(p)
      PROVE  UNCHANGED CV!cvVars
  <2>1. PICK l \in (Waiting \ {"release"}) \cup {"done"} :
          /\ pc[p] \in Waiting \ {"release"} /\ pc' = [pc EXCEPT ![p] = l]
          /\ UNCHANGED <<held, queue>>
    BY <1>0, <1>7 DEF Poll, RecheckLock, Recheck, Block, Receive, Goto, Waiting
  <2> QED BY ZenonT(40), <2>1, InvisibleStep DEF Label, Waiting
<1>8. ASSUME NEW p \in Cproc, NEW rest, ContinueOrReturn(p, rest),
             pc[p] \in {"set_running", "send"}, UNCHANGED <<held, queue>>
      PROVE  UNCHANGED CV!cvVars
  <2>1. /\ \A q \in Cproc : InWait(q) <=> InWait(q)'
        /\ \A q \in Cproc : pc[q] = "release" <=> pc'[q] = "release"
    BY SMTT(40), <1>8, InvisibleContinue DEF Waiting
  <2>2. Holders' = Holders /\ Released' = Released
    BY SMTT(40), <1>8, <2>1, HoldersSame, ReleasedSame
  <2> QED BY SMTT(40), <1>8, <2>2 DEF CV!cvVars
<1>9. ASSUME NEW p \in Cproc, ReadOldState(p) \/ (SetRunning(p) /\ old_state[p] = "BLOCKED")
      PROVE  UNCHANGED CV!cvVars
  <2>1. PICK l \in {"set_running", "send"} :
          /\ pc[p] \in {"continue", "set_running"} /\ pc' = [pc EXCEPT ![p] = l]
          /\ UNCHANGED <<held, queue>>
    BY <1>9 DEF ReadOldState, SetRunning, Goto
  <2> QED BY ZenonT(40), <2>1, InvisibleStep DEF Label, Waiting
<1>10. ASSUME NEW p \in Cproc, Send(p) \/ (SetRunning(p) /\ old_state[p] # "BLOCKED")
       PROVE  UNCHANGED CV!cvVars
  <2>1. ContinueOrReturn(p, Tail(batch[p])) /\ pc[p] \in {"set_running", "send"}
        /\ UNCHANGED <<held, queue>>
    BY <1>10 DEF Send, SetRunning
  <2> QED BY SMTT(40), <1>8, <2>1
<1> QED
  BY SMTT(40), <1>1, <1>2, <1>3, <1>4, <1>5, <1>6, <1>7, <1>9, <1>10 DEF Next, Step, Call

(* The MTHREAD layer implements the condition variables of CondVar: a wait *)
(* releases the mutex and joins the queue in one step, a signal releases   *)
(* the oldest waiter, wakeups are not spurious, and a waiter returns only  *)
(* with the mutex.                                                         *)
THEOREM Refinement == Spec => ImplementsCondVar
<1>1. Init => CV!CVInit
  <2> SUFFICES ASSUME Init PROVE CV!CVInit
    OBVIOUS
  <2>1. Holders = {} /\ Released = {} /\ queue = [c \in Condition |-> <<>>]
    BY DEF Init, Holders, Released, InWait
  <2> QED BY SMTT(40), <2>1, HolderIs DEF CV!CVInit
<1>2. TInv /\ LInv /\ (MutexExclusion /\ MutexPlaces) /\ [Next]_vars => [CV!CVNext]_CV!cvVars
  BY RefinedStep
<1> QED
  BY <1>1, <1>2, TInvCorrect, LInvCorrect, MutexInvCorrect, PTL DEF Spec, ImplementsCondVar, CV!CVSpec
=============================================================================
