-------------------------- MODULE CoroutineProofs ---------------------------
(***************************************************************************)
(* The COROUTINE build of the C Threads synchronisation layer, for any     *)
(* sets of cprocs and conditions: its lists and its mutex are consistent,  *)
(* it gives up only when every cproc is blocked, and it implements         *)
(* CondVar.                                                                *)
(***************************************************************************)
EXTENDS Coroutine, FiniteSetTheorems, FunctionTheorems, TLAPS

(* What the operations of cthread_queue do to the members of a list: the   *)
(* lists of cprocs are sequences without repetition.                       *)

(* The members of a list that is empty or has one member.                  *)
LEMMA ShortList ==
  ASSUME NEW e
  PROVE  /\ Range(<<>>) = {} /\ IsInjective(<<>>)
         /\ Range(<<e>>) = {e} /\ IsInjective(<<e>>)
  BY DEF Range, IsInjective

(* The queue after QUEUE_INIT has no member.                               *)
LEMMA EmptyList ==
  ASSUME NEW S
  PROVE  <<>> \in Seq(S) /\ Range(<<>>) = {} /\ IsInjective(<<>>)
<1>1. <<>> \in Seq(S)
  OBVIOUS
<1>2. Range(<<>>) = {} /\ IsInjective(<<>>)
  BY DEF Range, IsInjective
<1> QED BY <1>1, <1>2

(* cthread_queue_enq adds one member.                                      *)
LEMMA AppendList ==
  ASSUME NEW S, NEW s \in Seq(S), NEW e \in S
  PROVE  /\ Range(Append(s, e)) = Range(s) \cup {e}
         /\ IsInjective(s) /\ e \notin Range(s) => IsInjective(Append(s, e))
<1>1. /\ DOMAIN Append(s, e) = 1 .. Len(s) + 1 /\ DOMAIN s = 1 .. Len(s) /\ Len(s) \in Nat
      /\ \A k \in 1 .. Len(s) : Append(s, e)[k] = s[k]
      /\ Append(s, e)[Len(s) + 1] = e
  OBVIOUS
<1>2. \A k \in 1 .. Len(s) + 1 : k \in 1 .. Len(s) \/ k = Len(s) + 1
  BY <1>1
<1>3. Range(Append(s, e)) = Range(s) \cup {e}
  <2>1. ASSUME NEW x \in Range(Append(s, e)) PROVE x \in Range(s) \cup {e}
    BY <1>1, <1>2, <2>1 DEF Range
  <2>2. ASSUME NEW x \in Range(s) \cup {e} PROVE x \in Range(Append(s, e))
    BY <1>1, <2>2 DEF Range
  <2> QED BY <2>1, <2>2
<1>4. ASSUME IsInjective(s), e \notin Range(s) PROVE IsInjective(Append(s, e))
  BY <1>1, <1>2, <1>4 DEF Range, IsInjective
<1> QED BY <1>3, <1>4

(* cthread_queue_deq removes the head, which occurs only once.             *)
LEMMA HeadTailList ==
  ASSUME NEW S, NEW s \in Seq(S), s # <<>>
  PROVE  /\ Range(s) = {Head(s)} \cup Range(Tail(s))
         /\ IsInjective(s) => IsInjective(Tail(s)) /\ Head(s) \notin Range(Tail(s))
<1>1. /\ DOMAIN s = 1 .. Len(s) /\ Len(s) \in Nat /\ Len(s) >= 1
      /\ DOMAIN Tail(s) = 1 .. Len(s) - 1
      /\ \A k \in 1 .. Len(s) - 1 : Tail(s)[k] = s[k + 1]
      /\ Head(s) = s[1]
  OBVIOUS
<1>2. \A k \in 1 .. Len(s) : k = 1 \/ (k - 1 \in 1 .. Len(s) - 1 /\ s[k] = Tail(s)[k - 1])
  BY <1>1
<1>3. Range(s) = {Head(s)} \cup Range(Tail(s))
  <2>1. ASSUME NEW x \in Range(s) PROVE x \in {Head(s)} \cup Range(Tail(s))
    <3>1. PICK k \in 1 .. Len(s) : x = s[k]
      BY <1>1, <2>1 DEF Range
    <3>2. CASE k = 1
      BY <1>1, <3>1, <3>2
    <3>3. CASE k # 1
      <4>1. k - 1 \in DOMAIN Tail(s) /\ x = Tail(s)[k - 1]
        BY <1>1, <1>2, <3>1, <3>3
      <4> QED BY Zenon, <4>1 DEF Range
    <3> QED BY <3>2, <3>3
  <2>2. ASSUME NEW x \in {Head(s)} \cup Range(Tail(s)) PROVE x \in Range(s)
    BY <1>1, <2>2 DEF Range
  <2> QED BY <2>1, <2>2
<1>4. ASSUME IsInjective(s) PROVE IsInjective(Tail(s)) /\ Head(s) \notin Range(Tail(s))
  BY <1>1, <1>4 DEF Range, IsInjective
<1> QED BY <1>3, <1>4

(* Two lists, one after the other.                                         *)
LEMMA ConcatList ==
  ASSUME NEW S, NEW s \in Seq(S), NEW t \in Seq(S)
  PROVE  /\ s \o t \in Seq(S)
         /\ Range(s \o t) = Range(s) \cup Range(t)
         /\ IsInjective(s) /\ IsInjective(t) /\ Range(s) \cap Range(t) = {} => IsInjective(s \o t)
<1>1. /\ DOMAIN (s \o t) = 1 .. Len(s) + Len(t) /\ DOMAIN s = 1 .. Len(s) /\ DOMAIN t = 1 .. Len(t)
      /\ Len(s) \in Nat /\ Len(t) \in Nat /\ s \o t \in Seq(S)
      /\ \A k \in 1 .. Len(s) : (s \o t)[k] = s[k]
      /\ \A k \in 1 .. Len(t) : (s \o t)[Len(s) + k] = t[k]
  OBVIOUS
<1>2. ASSUME NEW k \in 1 .. Len(s) + Len(t)
      PROVE  \/ k \in 1 .. Len(s) /\ (s \o t)[k] = s[k]
             \/ k - Len(s) \in 1 .. Len(t) /\ (s \o t)[k] = t[k - Len(s)]
  BY <1>1
<1>3. Range(s \o t) = Range(s) \cup Range(t)
  <2>1. ASSUME NEW x \in Range(s \o t) PROVE x \in Range(s) \cup Range(t)
    <3>1. PICK k \in 1 .. Len(s) + Len(t) : x = (s \o t)[k]
      BY <1>1, <2>1 DEF Range
    <3> QED BY <1>1, <1>2, <3>1 DEF Range
  <2>2. ASSUME NEW x \in Range(s) PROVE x \in Range(s \o t)
    BY <1>1, <2>2 DEF Range
  <2>3. ASSUME NEW x \in Range(t) PROVE x \in Range(s \o t)
    <3>1. PICK k \in 1 .. Len(t) : x = t[k]
      BY <1>1, <2>3 DEF Range
    <3>2. Len(s) + k \in DOMAIN (s \o t) /\ (s \o t)[Len(s) + k] = x
      BY <1>1, <3>1
    <3> QED BY <3>2 DEF Range
  <2> QED BY <2>1, <2>2, <2>3
<1>4. ASSUME IsInjective(s), IsInjective(t), Range(s) \cap Range(t) = {} PROVE IsInjective(s \o t)
  <2> SUFFICES ASSUME NEW j \in 1 .. Len(s) + Len(t), NEW k \in 1 .. Len(s) + Len(t),
                      (s \o t)[j] = (s \o t)[k]
               PROVE  j = k
    BY <1>1 DEF IsInjective
  <2>1. CASE j \in 1 .. Len(s) /\ k \in 1 .. Len(s)
    BY <1>1, <1>4, <2>1 DEF IsInjective
  <2>2. CASE j - Len(s) \in 1 .. Len(t) /\ k - Len(s) \in 1 .. Len(t)
    <3>1. t[j - Len(s)] = t[k - Len(s)]
      BY <1>1, <1>2, <2>2
    <3> QED BY SMTT(40), <1>1, <1>4, <2>2, <3>1 DEF IsInjective
  <2>3. CASE j \in 1 .. Len(s) /\ k - Len(s) \in 1 .. Len(t)
    <3>1. s[j] = t[k - Len(s)]
      BY <1>1, <1>2, <2>3
    <3>2. s[j] \in Range(s) /\ t[k - Len(s)] \in Range(t)
      BY Zenon, <1>1, <2>3 DEF Range
    <3> QED BY <1>4, <3>1, <3>2
  <2>4. CASE k \in 1 .. Len(s) /\ j - Len(s) \in 1 .. Len(t)
    <3>1. s[k] = t[j - Len(s)]
      BY <1>1, <1>2, <2>4
    <3>2. s[k] \in Range(s) /\ t[j - Len(s)] \in Range(t)
      BY Zenon, <1>1, <2>4 DEF Range
    <3> QED BY <1>4, <3>1, <3>2
  <2> QED BY <1>1, <1>2, <2>1, <2>2, <2>3, <2>4
<1> QED BY <1>1, <1>3, <1>4
-----------------------------------------------------------------------------

Place == {"none", "run", "lock", "wait", "call"}

CRTypeOK ==
  /\ ready \in Seq(Cproc) /\ queue \in [Condition -> Seq(Cproc)]
  /\ state \in [Cproc -> {"RUNNING", "BLOCKED"}]
  /\ mutex \in {0, 1} /\ held \in [Cproc -> BOOLEAN]
  /\ pc \in [Cproc -> Place] /\ aborted \in BOOLEAN

(* The mutex word is set exactly while one cproc holds the mutex, and that *)
(* cproc is not inside mutex_lock or condition_wait.                       *)
MutexHeld ==
  /\ mutex = 0 => Holders = {}
  /\ mutex = 1 => \E p \in Cproc : Holders = {p}
  /\ \A p \in Cproc : held[p] => pc[p] \in {"run", "call"}

(* A cproc has one link, `next': it is on at most one list, once.          *)
OneLink ==
  /\ IsInjective(ready)
  /\ \A c \in Condition : IsInjective(queue[c]) /\ Range(queue[c]) \cap Range(ready) = {}
  /\ \A c, d \in Condition : c # d => Range(queue[c]) \cap Range(queue[d]) = {}

(* The cprocs that exist are those on the lists: the ready ones RUNNING,   *)
(* those of a condition BLOCKED in condition_wait.                         *)
Listed ==
  \A p \in Cproc :
    /\ p \in Range(ready) => state[p] = "RUNNING" /\ pc[p] # "none"
    /\ \A c \in Condition : p \in Range(queue[c]) => state[p] = "BLOCKED" /\ pc[p] = "wait"
    /\ pc[p] # "none" => p \in Range(ready) \/ \E c \in Condition : p \in Range(queue[c])
    /\ state[p] = "BLOCKED" => \E c \in Condition : p \in Range(queue[c])

(* "All C threads are blocked" is printed exactly when nobody is ready.    *)
GivenUp == aborted <=> ready = <<>>

CInv == CRTypeOK /\ MutexHeld /\ OneLink /\ Listed /\ GivenUp
-----------------------------------------------------------------------------
(* The running cproc is ready, is RUNNING, and occurs once.                *)
LEMMA RunningIs ==
  ASSUME CInv, NEW p \in Cproc, NEW l, Running(p, l)
  PROVE  /\ ready # <<>> /\ p = Head(ready) /\ pc[p] = l /\ ~aborted
         /\ Tail(ready) \in Seq(Cproc) /\ IsInjective(Tail(ready))
         /\ Range(ready) = {p} \cup Range(Tail(ready)) /\ p \notin Range(Tail(ready))
         /\ state[p] = "RUNNING" /\ pc[p] # "none"
         /\ \A c \in Condition : p \notin Range(queue[c])
<1>1. ready \in Seq(Cproc) /\ ready # <<>> /\ p = Head(ready) /\ pc[p] = l /\ ~aborted
  BY DEF Running, CInv, CRTypeOK
<1>2. Tail(ready) \in Seq(Cproc)
  BY <1>1
<1>3. /\ IsInjective(Tail(ready)) /\ Range(ready) = {p} \cup Range(Tail(ready))
      /\ p \notin Range(Tail(ready))
  BY <1>1, HeadTailList DEF CInv, OneLink
<1> QED BY <1>1, <1>2, <1>3 DEF CInv, Listed, OneLink

(* cthread_yield keeps the members of the ready queue.                     *)
LEMMA RotatedList ==
  ASSUME NEW s \in Seq(Cproc), s # <<>>
  PROVE  /\ Rotated(s) \in Seq(Cproc) /\ Rotated(s) # <<>>
         /\ Range(Rotated(s)) = Range(s)
         /\ IsInjective(s) => IsInjective(Rotated(s))
<1>1. Head(s) \in Cproc /\ Tail(s) \in Seq(Cproc)
  OBVIOUS
<1>2. \A t \in Seq(Cproc), e \in Cproc :
        /\ Append(t, e) \in Seq(Cproc) /\ Append(t, e) # <<>>
        /\ Range(Append(t, e)) = Range(t) \cup {e}
        /\ IsInjective(t) /\ e \notin Range(t) => IsInjective(Append(t, e))
  BY AppendList
<1>3. /\ Rotated(s) \in Seq(Cproc) /\ Rotated(s) # <<>>
      /\ Range(Rotated(s)) = Range(Tail(s)) \cup {Head(s)}
      /\ IsInjective(Tail(s)) /\ Head(s) \notin Range(Tail(s)) => IsInjective(Rotated(s))
  BY <1>1, <1>2, Zenon DEF Rotated
<1>4. /\ Range(s) = {Head(s)} \cup Range(Tail(s))
      /\ IsInjective(s) => IsInjective(Tail(s)) /\ Head(s) \notin Range(Tail(s))
  BY HeadTailList
<1> QED BY <1>3, <1>4

(* A step of the running cproc that at most yields and goes elsewhere in   *)
(* its code.                                                               *)
LEMMA MoveInv ==
  ASSUME CInv, NEW p \in Cproc, p \in Range(ready), NEW l \in Place \ {"none"},
         ready' \in {ready, Rotated(ready)}, pc' = [pc EXCEPT ![p] = l],
         held[p] => l \in {"run", "call"},
         UNCHANGED <<queue, state, mutex, held, aborted>>
  PROVE  CInv'
<1>1. ready \in Seq(Cproc) /\ ready # <<>> /\ IsInjective(ready)
  BY EmptyList DEF CInv, CRTypeOK, OneLink
<1>2. ready' \in Seq(Cproc) /\ ready' # <<>> /\ Range(ready') = Range(ready) /\ IsInjective(ready')
  BY <1>1, RotatedList
<1>3. pc'[p] = l /\ pc' \in [Cproc -> Place] /\ \A q \in Cproc : q # p => pc'[q] = pc[q]
  BY DEF CInv, CRTypeOK
<1>4. CRTypeOK'
  BY <1>2, <1>3 DEF CInv, CRTypeOK
<1>5. MutexHeld'
  BY <1>3 DEF CInv, MutexHeld, Holders
<1>6. OneLink'
  BY Zenon, <1>2 DEF CInv, OneLink
<1>7. Listed'
  BY <1>2, <1>3 DEF CInv, Listed, OneLink
<1>8. GivenUp'
  BY <1>1, <1>2 DEF CInv, GivenUp
<1> QED BY SMTT(40), <1>4, <1>5, <1>6, <1>7, <1>8 DEF CInv

(* The mutex is taken by a running cproc, or it yields.                    *)
LEMMA TryLockInv ==
  ASSUME CInv, NEW p \in Cproc, NEW l \in {"lock", "wait"}, p \in Range(ready), ~held[p],
         TryLock(p, l), UNCHANGED <<queue, state, aborted>>
  PROVE  CInv'
<1>1. CASE mutex # 0
  BY <1>1, MoveInv DEF TryLock, Goto, Place
<1>2. CASE mutex = 0
  <2>1. /\ mutex' = 1 /\ held' = [held EXCEPT ![p] = TRUE] /\ pc' = [pc EXCEPT ![p] = "run"]
        /\ ready' = ready
    BY <1>2 DEF TryLock, Goto
  <2>2. /\ pc'[p] = "run" /\ pc' \in [Cproc -> Place] /\ \A q \in Cproc : q # p => pc'[q] = pc[q]
        /\ held'[p] /\ held' \in [Cproc -> BOOLEAN] /\ \A q \in Cproc : q # p => ~held'[q]
    BY <1>2, <2>1 DEF CInv, CRTypeOK, Place, MutexHeld, Holders
  <2>3. CRTypeOK'
    BY <2>1, <2>2 DEF CInv, CRTypeOK
  <2>4. Holders' = {p}
    BY <2>2 DEF Holders
  <2>5. MutexHeld'
    BY <2>1, <2>2, <2>4 DEF MutexHeld
  <2>6. OneLink' /\ GivenUp'
    BY ZenonT(40), <2>1 DEF CInv, OneLink, GivenUp
  <2>7. Listed'
    BY <2>1, <2>2 DEF CInv, Listed, OneLink
  <2> QED BY <2>3, <2>5, <2>6, <2>7 DEF CInv
<1> QED BY <1>1, <1>2

(* mutex_unlock by the one that holds the mutex.                           *)
LEMMA UnlockInv ==
  ASSUME CInv, NEW p \in Cproc, mutex_unlock(p)
  PROVE  CInv'
<1>1. /\ held[p] /\ mutex' = 0 /\ held' = [held EXCEPT ![p] = FALSE]
      /\ UNCHANGED <<ready, n_blocked, queue, state, pc, aborted>>
  BY DEF mutex_unlock
<1>2. held' \in [Cproc -> BOOLEAN] /\ \A q \in Cproc : ~held'[q]
  BY <1>1 DEF CInv, CRTypeOK, MutexHeld, Holders
<1>3. CRTypeOK' /\ MutexHeld'
  BY <1>1, <1>2 DEF CInv, CRTypeOK, MutexHeld, Holders
<1>4. OneLink' /\ Listed' /\ GivenUp'
  BY Zenon, <1>1 DEF CInv, OneLink, Listed, GivenUp
<1> QED BY <1>3, <1>4 DEF CInv

(* condition_wait moves its caller from the ready queue to one queue.      *)
LEMMA WaitInv ==
  ASSUME CInv, NEW p \in Cproc, NEW c \in Condition, condition_wait(p, c)
  PROVE  CInv'
<1>1. /\ Running(p, "run") /\ held[p] /\ ready' = Tail(ready)
      /\ queue' = [queue EXCEPT ![c] = Append(@, p)]
      /\ state' = [state EXCEPT ![p] = "BLOCKED"] /\ pc' = [pc EXCEPT ![p] = "wait"]
      /\ mutex' = 0 /\ held' = [held EXCEPT ![p] = FALSE] /\ aborted' = (Tail(ready) = <<>>)
  BY DEF condition_wait, Goto
<1>2. /\ Tail(ready) \in Seq(Cproc) /\ IsInjective(Tail(ready))
      /\ Range(ready) = {p} \cup Range(Tail(ready)) /\ p \notin Range(Tail(ready))
      /\ \A d \in Condition : p \notin Range(queue[d])
  BY <1>1, RunningIs
<1>3. /\ queue[c] \in Seq(Cproc) /\ queue'[c] = Append(queue[c], p)
      /\ queue' \in [Condition -> Seq(Cproc)]
      /\ \A d \in Condition : d # c => queue'[d] = queue[d]
  BY <1>1 DEF CInv, CRTypeOK
<1>4. Range(queue'[c]) = Range(queue[c]) \cup {p} /\ IsInjective(queue'[c])
  BY <1>2, <1>3, AppendList DEF CInv, OneLink
<1>5. /\ held' \in [Cproc -> BOOLEAN] /\ \A q \in Cproc : ~held'[q]
      /\ pc' \in [Cproc -> Place] /\ pc'[p] = "wait" /\ \A q \in Cproc : q # p => pc'[q] = pc[q]
      /\ state' \in [Cproc -> {"RUNNING", "BLOCKED"}] /\ state'[p] = "BLOCKED"
      /\ \A q \in Cproc : q # p => state'[q] = state[q]
  BY <1>1 DEF CInv, CRTypeOK, Place, MutexHeld, Holders
<1>6. CRTypeOK' /\ MutexHeld'
  BY SMTT(40), <1>1, <1>2, <1>3, <1>5 DEF CRTypeOK, MutexHeld, Holders
<1>7. OneLink'
  BY <1>1, <1>2, <1>3, <1>4 DEF CInv, OneLink
<1>8. Listed'
  <2>1. ready' = Tail(ready) /\ Range(ready) = {p} \cup Range(ready') /\ p \notin Range(ready')
    BY <1>1, <1>2
  <2>2. ASSUME NEW q \in Cproc, q # p
        PROVE  /\ q \in Range(ready') <=> q \in Range(ready)
               /\ \A d \in Condition : q \in Range(queue'[d]) <=> q \in Range(queue[d])
               /\ state'[q] = state[q] /\ pc'[q] = pc[q]
    <3>1. q \in Range(ready') <=> q \in Range(ready)
      BY <2>1, <2>2
    <3>2. ASSUME NEW d \in Condition PROVE q \in Range(queue'[d]) <=> q \in Range(queue[d])
      <4>1. CASE d = c
        BY <4>1, <2>2, <1>4
      <4>2. CASE d # c
        BY <4>2, <1>3
      <4> QED BY <4>1, <4>2
    <3>3. state'[q] = state[q] /\ pc'[q] = pc[q]
      BY <2>2, <1>5
    <3> QED BY <3>1, <3>2, <3>3
  <2>3. /\ p \in Range(queue'[c]) /\ state'[p] = "BLOCKED" /\ pc'[p] = "wait"
    BY <1>4, <1>5
  <2>4. Listed
    BY DEF CInv
  <2> QED BY <2>1, <2>2, <2>3, <2>4 DEF Listed
<1>9. GivenUp'
  BY Zenon, <1>1 DEF GivenUp
<1> QED BY <1>6, <1>7, <1>8, <1>9 DEF CInv

(* The cprocs ps leave the queue of c, which keeps the list rest, for the  *)
(* ready queue.                                                            *)
LEMMA ContinueInv ==
  ASSUME CInv, NEW c \in Condition, ready # <<>>, NEW ps \in Seq(Cproc), NEW rest \in Seq(Cproc),
         IsInjective(ps), IsInjective(rest), Range(ps) \cap Range(rest) = {},
         Range(queue[c]) = Range(ps) \cup Range(rest),
         queue' = [queue EXCEPT ![c] = rest], cproc_continue(ps),
         UNCHANGED <<mutex, held, pc, aborted>>
  PROVE  CInv'
<1>1. ready' = ready \o ps /\ state' = [q \in Cproc |-> IF q \in Range(ps) THEN "RUNNING" ELSE state[q]]
  BY DEF cproc_continue
<1>2. Range(ps) \subseteq Cproc /\ Range(ready) \cap Range(ps) = {} /\ ready \in Seq(Cproc) /\ IsInjective(ready)
  <2>1. Range(ps) \subseteq Cproc
    BY DEF Range
  <2> QED BY <2>1 DEF CInv, OneLink, CRTypeOK
<1>3. /\ ready' \in Seq(Cproc) /\ Range(ready') = Range(ready) \cup Range(ps) /\ IsInjective(ready')
  BY <1>1, <1>2, ConcatList
<1>4. ready' # <<>>
  <2>1. Head(ready) \in Range(ready)
    BY <1>2, HeadTailList
  <2> QED BY <1>3, <2>1, EmptyList
<1>5. /\ queue'[c] = rest /\ queue' \in [Condition -> Seq(Cproc)]
      /\ \A d \in Condition : d # c => queue'[d] = queue[d]
  BY DEF CInv, CRTypeOK
<1>6. CRTypeOK'
  BY SMTT(40), <1>1, <1>3, <1>5 DEF CInv, CRTypeOK
<1>7. MutexHeld' /\ GivenUp'
  BY <1>4 DEF CInv, MutexHeld, Holders, GivenUp
<1>8. OneLink'
  BY SMTT(40), <1>2, <1>3, <1>5 DEF CInv, OneLink
<1>9. Listed'
  BY Zenon, <1>1, <1>2, <1>3, <1>5 DEF CInv, Listed, OneLink
<1> QED BY <1>6, <1>7, <1>8, <1>9 DEF CInv

(* A signal takes the head of the queue, which is its longest waiter.      *)
LEMMA SignalTakes ==
  ASSUME CInv, NEW c \in Condition, queue[c] # <<>>
  PROVE  /\ Head(queue[c]) \in Cproc /\ <<Head(queue[c])>> \in Seq(Cproc)
         /\ Range(<<Head(queue[c])>>) = {Head(queue[c])} /\ IsInjective(<<Head(queue[c])>>)
         /\ Tail(queue[c]) \in Seq(Cproc) /\ IsInjective(Tail(queue[c]))
         /\ Range(queue[c]) = {Head(queue[c])} \cup Range(Tail(queue[c]))
         /\ Head(queue[c]) \notin Range(Tail(queue[c]))
<1>1. queue[c] \in Seq(Cproc) /\ IsInjective(queue[c])
  BY DEF CInv, CRTypeOK, OneLink
<1>2. Head(queue[c]) \in Cproc /\ Tail(queue[c]) \in Seq(Cproc)
  BY <1>1
<1>3. <<Head(queue[c])>> \in Seq(Cproc)
  BY <1>2
<1> QED BY <1>1, <1>2, <1>3, HeadTailList, ShortList

(* cond_signal and cond_broadcast move waiters to the ready queue.         *)
LEMMA SignalInv ==
  ASSUME CInv, NEW p \in Cproc, NEW c \in Condition, cond_signal(p, c)
  PROVE  CInv'
<1>1. /\ ready # <<>> /\ queue[c] # <<>> /\ queue' = [queue EXCEPT ![c] = Tail(queue[c])]
      /\ cproc_continue(<<Head(queue[c])>>) /\ UNCHANGED <<mutex, held, pc, aborted>>
  BY DEF cond_signal, Running
<1>2. {Head(queue[c])} \cap Range(Tail(queue[c])) = {}
  BY <1>1, SignalTakes
<1> QED BY Zenon, <1>1, <1>2, SignalTakes, ContinueInv

LEMMA BroadcastInv ==
  ASSUME CInv, NEW p \in Cproc, NEW c \in Condition, cond_broadcast(p, c)
  PROVE  CInv'
<1>1. /\ ready # <<>> /\ queue' = [queue EXCEPT ![c] = <<>>]
      /\ cproc_continue(queue[c]) /\ UNCHANGED <<mutex, held, pc, aborted>>
  BY DEF cond_broadcast, Running
<1>2. queue[c] \in Seq(Cproc) /\ IsInjective(queue[c])
  BY DEF CInv, CRTypeOK, OneLink
<1>3. <<>> \in Seq(Cproc) /\ Range(<<>>) = {} /\ IsInjective(<<>>)
  BY EmptyList
<1> QED BY Zenon, <1>1, <1>2, <1>3, ContinueInv

(* cproc_create puts a new cproc before its creator.                       *)
LEMMA CreateInv ==
  ASSUME CInv, NEW p \in Cproc, cproc_create(p)
  PROVE  CInv'
<1>1. PICK child \in Cproc \ Cprocs :
        ready' = <<child>> \o ready /\ pc' = [pc EXCEPT ![child] = "run"]
  BY Zenon DEF cproc_create, Goto
<1>2. UNCHANGED <<queue, state, mutex, held, aborted>> /\ ready # <<>> /\ ready \in Seq(Cproc)
  BY DEF cproc_create, Running, CInv, CRTypeOK
<1>3. pc[child] = "none" /\ child \in Cproc
  BY <1>1 DEF Cprocs
<1>4. /\ child \notin Range(ready) /\ \A c \in Condition : child \notin Range(queue[c])
      /\ state[child] = "RUNNING" /\ ~held[child]
  BY <1>3 DEF CInv, Listed, MutexHeld, CRTypeOK
<1>5. <<child>> \in Seq(Cproc) /\ Range(<<child>>) = {child} /\ IsInjective(<<child>>)
  BY <1>3, ShortList
<1>6. ready' \in Seq(Cproc) /\ Range(ready') = {child} \cup Range(ready) /\ IsInjective(ready')
  <2>1. PICK new \in Seq(Cproc) : new = <<child>>
    BY Zenon, <1>5
  <2>2. ready' = new \o ready /\ Range(new) = {child} /\ IsInjective(new) /\ IsInjective(ready)
    BY <1>1, <1>5, <2>1 DEF CInv, OneLink
  <2>3. Range(new) \cap Range(ready) = {}
    BY <1>4, <2>2
  <2> QED BY <1>2, <2>2, <2>3, ConcatList
<1>7. ready' # <<>>
  BY SMTT(40), <1>6, EmptyList
<1>8. pc' \in [Cproc -> Place] /\ pc'[child] = "run" /\ \A q \in Cproc : q # child => pc'[q] = pc[q]
  BY <1>1 DEF CInv, CRTypeOK, Place
<1>9. CRTypeOK' /\ MutexHeld' /\ GivenUp'
  BY SMTT(40), <1>2, <1>6, <1>7, <1>8 DEF CInv, CRTypeOK, MutexHeld, Holders, GivenUp
<1>10. OneLink'
  <2>1. \A c \in Condition : queue'[c] = queue[c] /\ Range(queue[c]) \cap Range(ready') = {}
    BY <1>2, <1>4, <1>6 DEF CInv, OneLink
  <2> QED BY Zenon, <1>2, <1>6, <2>1 DEF CInv, OneLink
<1>11. Listed'
  BY <1>2, <1>4, <1>6, <1>8 DEF CInv, Listed
<1> QED BY <1>9, <1>10, <1>11 DEF CInv

(* Every step keeps the lists, the mutex and the flag consistent.          *)
LEMMA CInvCorrect == Spec => []CInv
<1>1. Init => CInv
  <2> SUFFICES ASSUME Init PROVE CInv
    OBVIOUS
  <2>1. PICK p \in Cproc :
          /\ ready = <<p>> /\ queue = [c \in Condition |-> <<>>]
          /\ state = [q \in Cproc |-> "RUNNING"] /\ mutex = 0 /\ held = [q \in Cproc |-> FALSE]
          /\ pc = [q \in Cproc |-> IF q = p THEN "run" ELSE "none"] /\ aborted = FALSE
    BY DEF Init
  <2>2. /\ ready \in Seq(Cproc) /\ ready # <<>> /\ Range(ready) = {p} /\ IsInjective(ready)
        /\ <<>> \in Seq(Cproc) /\ \A c \in Condition : Range(queue[c]) = {} /\ IsInjective(queue[c])
    BY <2>1, ShortList
  <2>3. CRTypeOK
    BY ZenonT(40), <2>1, <2>2 DEF CRTypeOK, Place
  <2>5. MutexHeld /\ GivenUp
    BY <2>1, <2>2 DEF MutexHeld, Holders, GivenUp
  <2>4. OneLink /\ Listed
    BY <2>1, <2>2 DEF OneLink, Listed
  <2> QED BY <2>3, <2>4, <2>5 DEF CInv
<1>2. CInv /\ [Next]_vars => CInv'
  <2> SUFFICES ASSUME CInv, [Next]_vars PROVE CInv'
    OBVIOUS
  <2>1. CASE UNCHANGED vars
    BY <2>1 DEF vars, CInv, CRTypeOK, MutexHeld, Holders, OneLink, Listed, GivenUp
  <2>2. ASSUME NEW p \in Cproc, mutex_lock(p) PROVE CInv'
    <3>1. p \in Range(ready)
      BY <2>2, RunningIs DEF mutex_lock
    <3> QED BY SMTT(40), <2>2, <3>1, TryLockInv DEF mutex_lock
  <2>3. ASSUME NEW p \in Cproc, RetryLock(p) PROVE CInv'
    <3>1. p \in Range(ready) /\ pc[p] = "lock"
      BY <2>3, RunningIs DEF RetryLock
    <3>2. ~held[p]
      BY <3>1 DEF CInv, MutexHeld
    <3> QED BY SMTT(40), <2>3, <3>1, <3>2, TryLockInv DEF RetryLock
  <2>4. ASSUME NEW p \in Cproc, Resume(p) PROVE CInv'
    <3>1. p \in Range(ready) /\ pc[p] = "wait"
      BY <2>4, RunningIs DEF Resume
    <3>2. ~held[p]
      BY <3>1 DEF CInv, MutexHeld
    <3> QED BY SMTT(40), <2>4, <3>1, <3>2, TryLockInv DEF Resume
  <2>5. ASSUME NEW p \in Cproc, mutex_unlock(p) PROVE CInv'
    BY <2>5, UnlockInv
  <2>6. ASSUME NEW p \in Cproc, cthread_yield(p) PROVE CInv'
    <3>1. p \in Range(ready) /\ pc[p] = "run" /\ pc' = [pc EXCEPT ![p] = "run"]
      BY <2>6, RunningIs DEF cthread_yield, CInv, CRTypeOK
    <3> QED BY Zenon, <2>6, <3>1, MoveInv DEF cthread_yield, Place
  <2>7. ASSUME NEW p \in Cproc, cproc_create(p) PROVE CInv'
    BY <2>7, CreateInv
  <2>8. ASSUME NEW p \in Cproc, PollingCall(p) PROVE CInv'
    <3>1. p \in Range(ready)
      BY <2>8, RunningIs DEF PollingCall
    <3> QED BY <2>8, <3>1, MoveInv DEF PollingCall, Goto, Place
  <2>9. ASSUME NEW p \in Cproc, NEW c \in Condition,
               condition_wait(p, c) \/ cond_signal(p, c) \/ cond_broadcast(p, c)
        PROVE  CInv'
    BY SMTT(40), <2>9, WaitInv, SignalInv, BroadcastInv
  <2> QED
    BY <2>1, <2>2, <2>3, <2>4, <2>5, <2>6, <2>7, <2>8, <2>9 DEF Next, Library, Client
<1> QED BY <1>1, <1>2, PTL DEF Spec

(* The mutex word is set exactly while one cproc holds the mutex, through  *)
(* mutex_wait_lock, mutex_unlock and condition_wait.                       *)
THEOREM MutexHeldCorrect == Spec => []MutexHeld
<1>1. CInv => MutexHeld
  BY DEF CInv
<1> QED BY <1>1, CInvCorrect, PTL

(* No cproc is on two lists or twice on one: `next' is never overwritten   *)
(* while it links something.                                               *)
THEOREM OneLinkCorrect == Spec => []OneLink
<1>1. CInv => OneLink
  BY DEF CInv
<1> QED BY <1>1, CInvCorrect, PTL

(* cproc_block gives up ("All C threads are blocked") exactly when every   *)
(* cproc is BLOCKED, so a process with a cproc that could run never exits. *)
AllBlocked == aborted <=> \A p \in Cprocs : state[p] = "BLOCKED"

(* The library exits on a deadlock of the cprocs, and on nothing else.     *)
THEOREM AllBlockedCorrect == Spec => []AllBlocked
<1>1. CInv => AllBlocked
  <2> SUFFICES ASSUME CInv PROVE AllBlocked
    OBVIOUS
  <2>1. ASSUME ready = <<>>, NEW p \in Cprocs PROVE state[p] = "BLOCKED"
    <3>1. p \in Cproc /\ pc[p] # "none" /\ p \notin Range(ready)
      BY <2>1, EmptyList DEF Cprocs
    <3> QED BY <3>1 DEF CInv, Listed
  <2>2. ASSUME ready # <<>> PROVE \E p \in Cprocs : state[p] # "BLOCKED"
    <3>1. Head(ready) \in Cproc /\ Head(ready) \in Range(ready)
      BY <2>2, HeadTailList DEF CInv, CRTypeOK
    <3> QED BY <3>1 DEF CInv, Listed, Cprocs
  <2> QED BY <2>1, <2>2 DEF CInv, GivenUp, AllBlocked
<1> QED BY <1>1, CInvCorrect, PTL
-----------------------------------------------------------------------------
(* A list without repetition has as many members as it is long.            *)
LEMMA ListCardinality ==
  ASSUME NEW S, NEW s \in Seq(S), IsInjective(s)
  PROVE  IsFiniteSet(Range(s)) /\ Cardinality(Range(s)) = Len(s)
<1>1. Len(s) \in Nat /\ s \in [1 .. Len(s) -> S] /\ DOMAIN s = 1 .. Len(s)
  OBVIOUS
<1>2. IsFiniteSet(1 .. Len(s)) /\ Cardinality(1 .. Len(s)) = Len(s)
  BY SMTT(40), <1>1, FS_Interval
<1>3. s \in [1 .. Len(s) -> Range(s)]
  BY <1>1 DEF Range
<1>4. s \in Surjection(1 .. Len(s), Range(s)) /\ s \in Injection(1 .. Len(s), Range(s))
  BY <1>1, <1>3 DEF Range, Surjection, Injection, IsInjective
<1> QED BY SMTT(40), <1>2, <1>4, FS_Surjection

Blocked == {p \in Cproc : state[p] = "BLOCKED"}

(* n_blocked is the number of BLOCKED cprocs.                              *)
BlockedCounted == IsFiniteSet(Blocked) /\ n_blocked = Cardinality(Blocked)

(* The counter of cproc_block and cproc_continue stays exact, also when a  *)
(* broadcast continues a whole queue.                                      *)
THEOREM BlockedCountedCorrect == Spec => []BlockedCounted
<1>1. Init => BlockedCounted
  <2> SUFFICES ASSUME Init PROVE BlockedCounted
    OBVIOUS
  <2>1. Blocked = {} /\ n_blocked = 0
    BY DEF Init, Blocked
  <2> QED BY <2>1, FS_EmptySet DEF BlockedCounted
<1>2. CInv /\ BlockedCounted /\ [Next]_vars => BlockedCounted'
  <2> SUFFICES ASSUME CInv, BlockedCounted, [Next]_vars PROVE BlockedCounted'
    OBVIOUS
  <2>1. ASSUME UNCHANGED <<n_blocked, state>> PROVE BlockedCounted'
    BY <2>1 DEF BlockedCounted, Blocked
  <2>2. ASSUME NEW p \in Cproc, NEW c \in Condition, condition_wait(p, c) PROVE BlockedCounted'
    <3>1. p \notin Blocked
      BY <2>2, RunningIs DEF condition_wait, Blocked
    <3>2. Blocked' = Blocked \cup {p} /\ n_blocked' = n_blocked + 1
      BY <2>2 DEF condition_wait, Blocked, CInv, CRTypeOK
    <3> QED BY SMTT(40), <3>1, <3>2, FS_AddElement DEF BlockedCounted
  <2>3. ASSUME NEW c \in Condition, NEW ps \in Seq(Cproc), IsInjective(ps),
               Range(ps) \subseteq Range(queue[c]), cproc_continue(ps)
        PROVE  BlockedCounted'
    <3>1. Range(ps) \subseteq Blocked
      <4>1. Range(ps) \subseteq Cproc
        BY DEF Range
      <4> QED BY <2>3, <4>1 DEF CInv, Listed, Blocked
    <3>2. IsFiniteSet(Range(ps)) /\ Cardinality(Range(ps)) = Len(ps)
      BY <2>3, ListCardinality
    <3>3. Blocked' = Blocked \ Range(ps) /\ n_blocked' = n_blocked - Len(ps)
      BY <2>3 DEF cproc_continue, Blocked
    <3>4. Blocked \cap Range(ps) = Range(ps)
      BY <3>1
    <3>5. /\ IsFiniteSet(Blocked \ Range(ps))
          /\ Cardinality(Blocked \ Range(ps)) = Cardinality(Blocked) - Cardinality(Blocked \cap Range(ps))
      BY Zenon, FS_Difference DEF BlockedCounted
    <3> QED BY Zenon, <3>2, <3>3, <3>4, <3>5 DEF BlockedCounted
  <2>4. ASSUME NEW p \in Cproc, NEW c \in Condition, cond_signal(p, c) PROVE BlockedCounted'
    <3>1. queue[c] # <<>> /\ cproc_continue(<<Head(queue[c])>>)
      BY <2>4 DEF cond_signal
    <3>2. PICK ps \in Seq(Cproc) : ps = <<Head(queue[c])>>
      BY Zenon, <3>1, SignalTakes
    <3>3. IsInjective(ps) /\ Range(ps) \subseteq Range(queue[c])
      BY ZenonT(40), <3>1, <3>2, SignalTakes
    <3> QED BY Zenon, <2>3, <3>1, <3>2, <3>3
  <2>5. ASSUME NEW p \in Cproc, NEW c \in Condition, cond_broadcast(p, c) PROVE BlockedCounted'
    <3>1. queue[c] \in Seq(Cproc) /\ IsInjective(queue[c]) /\ cproc_continue(queue[c])
      BY SMTT(40), <2>5 DEF cond_broadcast, CInv, CRTypeOK, OneLink
    <3> QED BY SMTT(40), <2>3, <3>1
  <2>6. ASSUME NEW p \in Cproc,
               \/ mutex_lock(p) \/ RetryLock(p) \/ Resume(p) \/ mutex_unlock(p) \/ cthread_yield(p)
               \/ cproc_create(p) \/ PollingCall(p)
        PROVE  UNCHANGED <<n_blocked, state>>
    BY <2>6 DEF mutex_lock, RetryLock, Resume, mutex_unlock, cthread_yield, cproc_create, PollingCall
  <2>7. CASE UNCHANGED vars
    BY <2>1, <2>7 DEF vars
  <2> QED BY <2>1, <2>2, <2>4, <2>5, <2>6, <2>7 DEF Next, Library, Client
<1> QED BY <1>1, <1>2, CInvCorrect, PTL DEF Spec
-----------------------------------------------------------------------------
(* The abstract holder, when nobody and when one cproc holds the mutex.    *)
LEMMA HolderIs ==
  HolderAmong({}) = NO_CPROC /\ \A p : HolderAmong({p}) = p
<1>1. HolderAmong({}) = NO_CPROC
  BY DEF HolderAmong
<1>2. ASSUME NEW p PROVE HolderAmong({p}) = p
  BY DEF HolderAmong
<1> QED BY Zenon, <1>1, <1>2

(* A cproc that gets the mutex in mutex_lock was in no wait, one that gets *)
(* it at the end of condition_wait returns; one that yields does nothing   *)
(* its clients can see.                                                    *)
LEMMA TryLockRefines ==
  ASSUME CInv, NEW p \in Cproc, NEW l \in {"lock", "wait"}, NEW from, Running(p, from), ~held[p],
         from = "wait" <=> l = "wait",
         TryLock(p, l), UNCHANGED queue
  PROVE  CV!Lock(p) \/ CV!Return(p) \/ UNCHANGED CV!cvVars
<1>1. /\ ready # <<>> /\ pc[p] = from /\ p \in Range(ready) /\ ready \in Seq(Cproc)
      /\ \A c \in Condition : p \notin Range(queue[c])
  BY RunningIs DEF CInv, CRTypeOK
<1>2. CASE mutex # 0
  <2>1. pc' = [pc EXCEPT ![p] = l] /\ Range(ready') = Range(ready) /\ held' = held
    BY SMTT(40), <1>1, <1>2, RotatedList DEF TryLock, Goto
  <2>2. \A q \in Cproc : pc'[q] = "wait" <=> pc[q] = "wait"
    BY SMTT(40), <1>1, <2>1 DEF CInv, CRTypeOK
  <2>3. Released' = Released /\ Holders' = Holders
    BY SMTT(40), <2>1, <2>2 DEF Released, Holders
  <2> QED BY <2>3 DEF CV!cvVars
<1>3. CASE mutex = 0
  <2>1. held' = [held EXCEPT ![p] = TRUE] /\ pc' = [pc EXCEPT ![p] = "run"] /\ ready' = ready
    BY <1>3 DEF TryLock, Goto
  <2>2. Holders = {} /\ Holders' = {p}
    BY SMTT(40), <1>3, <2>1 DEF CInv, MutexHeld, CRTypeOK, Holders
  <2>3. pc'[p] = "run" /\ \A q \in Cproc : q # p => pc'[q] = pc[q]
    BY <2>1 DEF CInv, CRTypeOK
  <2>4. Released' = Released \ {p}
    BY SMTT(40), <2>1, <2>3 DEF Released
  <2>5. CASE from = "wait"
    <3>1. p \in Released
      BY <1>1, <2>5 DEF Released
    <3> QED BY Zenon, <2>2, <2>4, <3>1, HolderIs DEF CV!Return
  <2>6. CASE from # "wait"
    <3>1. p \notin Released /\ Released' = Released
      BY <1>1, <2>4, <2>6 DEF Released
    <3>2. ~CV!Waiting(p)
      BY <1>1, <3>1 DEF CV!Waiting, CV!Range, Range
    <3> QED BY Zenon, <2>2, <3>1, <3>2, HolderIs DEF CV!Lock
  <2> QED BY <2>5, <2>6
<1> QED BY <1>2, <1>3

(* mutex_unlock is the abstract Unlock.                                    *)
LEMMA UnlockRefines ==
  ASSUME CInv, NEW p \in Cproc, mutex_unlock(p)
  PROVE  CV!Unlock(p)
<1>1. held[p] /\ held' = [held EXCEPT ![p] = FALSE] /\ UNCHANGED <<ready, queue, pc>>
  BY DEF mutex_unlock
<1>2. Holders = {p} /\ Holders' = {}
  BY <1>1 DEF CInv, MutexHeld, CRTypeOK, Holders
<1>3. Released' = Released
  BY <1>1 DEF Released
<1> QED BY Zenon, <1>1, <1>2, <1>3, HolderIs DEF CV!Unlock

(* condition_wait up to its switch is the abstract Wait.                   *)
LEMMA WaitRefines ==
  ASSUME CInv, NEW p \in Cproc, NEW c \in Condition, condition_wait(p, c)
  PROVE  CV!Wait(p, c)
<1>1. /\ Running(p, "run") /\ held[p] /\ ready' = Tail(ready)
      /\ queue' = [queue EXCEPT ![c] = Append(@, p)] /\ pc' = [pc EXCEPT ![p] = "wait"]
      /\ held' = [held EXCEPT ![p] = FALSE]
  BY DEF condition_wait, Goto
<1>2. Holders = {p} /\ Holders' = {}
  BY <1>1 DEF CInv, MutexHeld, CRTypeOK, Holders
<1>3. pc[p] = "run" /\ Range(ready) = {p} \cup Range(ready') /\ p \notin Range(ready')
  BY <1>1, RunningIs
<1>4. pc'[p] = "wait" /\ \A q \in Cproc : q # p => pc'[q] = pc[q]
  BY <1>1 DEF CInv, CRTypeOK
<1>5. Released' = Released
  BY SMTT(40), <1>3, <1>4 DEF Released
<1> QED BY Zenon, <1>1, <1>2, <1>5, HolderIs DEF CV!Wait

(* A cproc that is continued is released.                                  *)
LEMMA ContinueReleases ==
  ASSUME CInv, NEW c \in Condition, NEW ps \in Seq(Cproc), Range(ps) \subseteq Range(queue[c]),
         cproc_continue(ps), UNCHANGED <<held, pc>>
  PROVE  Released' = Released \cup Range(ps) /\ Holders' = Holders
<1>1. Range(ready') = Range(ready) \cup Range(ps)
  BY SMTT(40), ConcatList DEF cproc_continue, CInv, CRTypeOK
<1>2. \A q \in Range(ps) : q \in Cproc /\ pc[q] = "wait"
  BY SMTT(40) DEF CInv, Listed, Range
<1> QED BY SMTT(40), <1>1, <1>2 DEF Released, Holders

(* cond_signal is the abstract Signal, cond_broadcast the Broadcast.       *)
LEMMA SignalRefines ==
  ASSUME CInv, NEW p \in Cproc, NEW c \in Condition, cond_signal(p, c)
  PROVE  CV!Signal(c)
<1>1. /\ queue[c] # <<>> /\ queue' = [queue EXCEPT ![c] = Tail(@)]
      /\ cproc_continue(<<Head(queue[c])>>) /\ UNCHANGED <<held, pc>>
  BY DEF cond_signal
<1>2. PICK ps \in Seq(Cproc) : ps = <<Head(queue[c])>>
  BY Zenon, <1>1, SignalTakes
<1>3. Range(ps) = {Head(queue[c])} /\ Range(ps) \subseteq Range(queue[c]) /\ cproc_continue(ps)
  BY ZenonT(40), <1>1, <1>2, SignalTakes
<1>4. Released' = Released \cup {Head(queue[c])} /\ Holders' = Holders
  BY <1>1, <1>3, ContinueReleases
<1> QED BY <1>1, <1>4 DEF CV!Signal

LEMMA BroadcastRefines ==
  ASSUME CInv, NEW p \in Cproc, NEW c \in Condition, cond_broadcast(p, c)
  PROVE  CV!Broadcast(c)
<1>1. /\ queue[c] # <<>> /\ queue' = [queue EXCEPT ![c] = <<>>]
      /\ cproc_continue(queue[c]) /\ UNCHANGED <<held, pc>> /\ queue[c] \in Seq(Cproc)
  BY DEF cond_broadcast, CInv, CRTypeOK
<1>2. Released' = Released \cup Range(queue[c]) /\ Holders' = Holders
  BY <1>1, ContinueReleases
<1> QED BY SMTT(40), <1>1, <1>2 DEF CV!Broadcast, CV!Range, Range

(* cthread_yield, cproc_create and the polling calls show nothing.         *)
LEMMA InvisibleStep ==
  ASSUME CInv, NEW p \in Cproc, cthread_yield(p) \/ cproc_create(p) \/ PollingCall(p)
  PROVE  UNCHANGED CV!cvVars
<1>1. UNCHANGED <<held, queue>>
  BY DEF cthread_yield, cproc_create, PollingCall
<1>2. \A q \in Cproc : (pc'[q] = "wait" /\ q \in Range(ready')) <=> (pc[q] = "wait" /\ q \in Range(ready))
  <2>1. CASE cthread_yield(p)
    BY SMTT(40), <2>1, RotatedList DEF cthread_yield, Running, CInv, CRTypeOK
  <2>2. CASE PollingCall(p)
    <3>1. /\ Range(ready') = Range(ready) /\ pc[p] # "wait"
          /\ pc' \in {[pc EXCEPT ![p] = "run"], [pc EXCEPT ![p] = "call"]}
      BY SMTT(40), <2>2, RotatedList DEF PollingCall, Running, Goto, CInv, CRTypeOK
    <3> QED BY SMTT(40), <3>1 DEF CInv, CRTypeOK
  <2>3. CASE cproc_create(p)
    <3>1. PICK child \in Cproc :
            pc[child] = "none" /\ ready' = <<child>> \o ready /\ pc' = [pc EXCEPT ![child] = "run"]
      BY Zenon, <2>3 DEF cproc_create, Goto, Cprocs
    <3>2. <<child>> \in Seq(Cproc) /\ Range(<<child>>) = {child}
      BY ShortList
    <3>3. PICK new \in Seq(Cproc) : new = <<child>> /\ Range(new) = {child}
      BY Zenon, <3>2
    <3>4. Range(ready') = {child} \cup Range(ready)
      <4>1. ready' = new \o ready /\ ready \in Seq(Cproc)
        BY SMTT(40), <3>1, <3>3 DEF CInv, CRTypeOK
      <4>2. Range(new \o ready) = Range(new) \cup Range(ready)
        BY SMTT(40), <4>1, ConcatList
      <4> QED BY <3>3, <4>1, <4>2
    <3> QED BY SMTT(40), <3>1, <3>4 DEF CInv, CRTypeOK
  <2> QED BY SMTT(40), <2>1, <2>2, <2>3
<1>3. Released' = Released /\ Holders' = Holders
  BY SMTT(40), <1>1, <1>2 DEF Released, Holders
<1> QED BY SMTT(40), <1>1, <1>3 DEF CV!cvVars

(* Every step of the library is a step of CondVar or invisible.            *)
LEMMA RefinedStep ==
  ASSUME CInv, [Next]_vars
  PROVE  [CV!CVNext]_(CV!cvVars)
<1>1. CASE UNCHANGED vars
  BY <1>1 DEF vars, CV!cvVars, Holders, Released
<1>2. ASSUME NEW p \in Cproc, mutex_lock(p) \/ RetryLock(p) \/ Resume(p)
      PROVE  [CV!CVNext]_(CV!cvVars)
  <2>1. \A q \in Cproc : pc[q] \in {"lock", "wait"} => ~held[q]
    BY DEF CInv, MutexHeld
  <2>2. CV!Lock(p) \/ CV!Return(p) \/ UNCHANGED CV!cvVars
    <3>1. CASE mutex_lock(p)
      <4>1. Running(p, "run") /\ ~held[p] /\ TryLock(p, "lock") /\ UNCHANGED queue
        BY <3>1 DEF mutex_lock
      <4> QED BY SMTT(40), <4>1, TryLockRefines
    <3>2. CASE RetryLock(p)
      <4>1. ~held[p]
        BY SMTT(40), <2>1, <3>2 DEF RetryLock, Running
      <4>2. Running(p, "lock") /\ TryLock(p, "lock") /\ UNCHANGED queue
        BY <3>2 DEF RetryLock
      <4> QED BY SMTT(40), <4>1, <4>2, TryLockRefines
    <3>3. CASE Resume(p)
      <4>1. ~held[p]
        BY SMTT(40), <2>1, <3>3 DEF Resume, Running
      <4> QED BY SMTT(40), <3>3, <4>1, TryLockRefines DEF Resume
    <3> QED BY SMTT(40), <1>2, <3>1, <3>2, <3>3
  <2> QED BY <2>2 DEF CV!CVNext
<1>3. ASSUME NEW p \in Cproc, mutex_unlock(p) PROVE [CV!CVNext]_(CV!cvVars)
  BY <1>3, UnlockRefines DEF CV!CVNext
<1>4. ASSUME NEW p \in Cproc, cthread_yield(p) \/ cproc_create(p) \/ PollingCall(p)
      PROVE  [CV!CVNext]_(CV!cvVars)
  BY SMTT(40), <1>4, InvisibleStep
<1>5. ASSUME NEW p \in Cproc, NEW c \in Condition,
             condition_wait(p, c) \/ cond_signal(p, c) \/ cond_broadcast(p, c)
      PROVE  [CV!CVNext]_(CV!cvVars)
  BY SMTT(40), <1>5, WaitRefines, SignalRefines, BroadcastRefines DEF CV!CVNext
<1> QED BY SMTT(40), <1>1, <1>2, <1>3, <1>4, <1>5 DEF Next, Library, Client

(* The coroutine build implements the abstract mutex and conditions, for   *)
(* any sets of cprocs and conditions: waiting releases the mutex and joins *)
(* the queue at once, signals are first come first served, and a wait ends *)
(* only after a signal and with the mutex.                                 *)
THEOREM CoroutineRefinement == Spec => CoroutineImplementsCondVar
<1>1. Init => CV!CVInit
  <2> SUFFICES ASSUME Init PROVE CV!CVInit
    OBVIOUS
  <2>1. Holders = {} /\ Released = {} /\ queue = [c \in Condition |-> <<>>]
    BY DEF Init, Holders, Released
  <2> QED BY <2>1, HolderIs DEF CV!CVInit
<1>2. CInv /\ [Next]_vars => [CV!CVNext]_(CV!cvVars)
  BY RefinedStep
<1> QED BY <1>1, <1>2, CInvCorrect, PTL DEF Spec, CoroutineImplementsCondVar, CV!CVSpec
=============================================================================
