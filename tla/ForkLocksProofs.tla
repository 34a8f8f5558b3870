--------------------------- MODULE ForkLocksProofs --------------------------
(***************************************************************************)
(* The locks of the C Threads library are taken in one order, for any      *)
(* number of cprocs and of free lists, so no set of cprocs waits for each  *)
(* other; and fork() takes the locks in which the others are nested, so    *)
(* the child finds them free or its own.                                   *)
(*                                                                         *)
(* The argument is about the code that a cproc has still to execute: which *)
(* locks it holds at each place of it, and that the bodies of all          *)
(* functions nest their locks in the order of Rank.                        *)
(***************************************************************************)
EXTENDS ForkLocks, TLAPS

Functions ==
  {"mig_get_reply_port", "mig_dealloc_reply_port", "more_memory", "malloc", "free",
   "cthread_free", "cthread_alloc", "cproc_alloc", "alloc_stack", "cproc_create",
   "cthread_fork", "cthread_join", "cthread_body", "fork", "unix_fork", "mig_init"}

Steps ==
  {Acquire(l) : l \in Locks} \cup {Release(l) : l \in Locks}
  \cup {Call(f) : f \in Functions} \cup {SetPort(x) : x \in {"null", "thread_reply", "own"}}

(* The locks that fork() takes itself.                                     *)
ForkedLocks == {cthread_lock, cthread_free_lock} \cup {bucket_lock(b) : b \in Buckets}

(* The order of the locks: a lock is taken inside those of a lower rank.   *)
Rank(l) ==
  CASE l[1] = "cthread_lock" -> 1
    [] l[1] = "cthread_free_lock" -> 2
    [] l[1] = "bucket_lock" -> 2 + l[2]
    [] l[1] = "malloc_lock" -> NLISTS + 3
    [] l[1] = "cproc_lock" -> NLISTS + 4
    [] l[1] = "initial_stack_lock" -> NLISTS + 5
    [] l[1] = "record_lock" -> NLISTS + 6
    [] l[1] = "reply_port_lock" -> NLISTS + 7

(* A function takes no lock of a lower rank.                               *)
Bound(f) ==
  CASE f \in {"fork", "unix_fork"} -> 0
    [] f \in {"cthread_fork", "cthread_body"} -> 1
    [] f \in {"cthread_join", "cthread_alloc", "cthread_free"} -> 2
    [] f \in {"malloc", "free", "cproc_alloc", "cproc_create"} -> 3
    [] f = "more_memory" -> NLISTS + 3
    [] f = "alloc_stack" -> NLISTS + 5
    [] f \in {"mig_get_reply_port", "mig_dealloc_reply_port", "mig_init"} -> NLISTS + 7

(* Two locks that fork() leaves out are only taken inside others, one of   *)
(* which is then held; so are the functions that take them only called.    *)
Guard(l) ==
  IF l = malloc_lock THEN {bucket_lock(b) : b \in Buckets}
  ELSE IF l = initial_stack_lock THEN {cthread_lock} ELSE {}

CallGuard(f) ==
  IF f = "more_memory" THEN {bucket_lock(b) : b \in Buckets}
  ELSE IF f \in {"alloc_stack", "cproc_create"} THEN {cthread_lock} ELSE {}
-----------------------------------------------------------------------------
(* A step gives up a lock; the child and the parent of a fork() both go on *)
(* with the code that releases the locks of fork().                        *)
Closes(x, l) == x = Release(l) \/ (x = Call("unix_fork") /\ l \in ForkedLocks)

(* Whoever executes s holds lock l before the i-th step: it is given up    *)
(* later and not taken before that.                                        *)
HeldAt(s, i, l) ==
  \E j \in i .. Len(s) : Closes(s[j], l) /\ \A k \in i .. j - 1 : s[k] # Acquire(l)

NotTaken(s, i, l) == \A k \in i .. Len(s) : s[k] # Acquire(l)

(* The kernel call inside mig_get_reply_port, which finds a reply port.    *)
Inner(s, i, ok) == s[i] = Rpc /\ (IF i = 1 THEN ok ELSE s[i - 1] = SetPort("thread_reply"))

(* One of the locks X is held, or they are the locks G around s.           *)
Guarded(X, s, i, G) == X = {} \/ X = G \/ \E g \in X : HeldAt(s, i, g)

(* At the i-th step of s locks are taken in order, above m, and released   *)
(* once, the guards are held, and functions are called in order.           *)
Nested(s, i, m, G, ok) ==
  /\ \A l \in Locks : s[i] = Acquire(l) =>
       /\ m <= Rank(l) /\ HeldAt(s, i + 1, l)
       /\ \A h \in Locks : HeldAt(s, i, h) => Rank(h) < Rank(l)
  /\ \A l \in Locks : Closes(s[i], l) => ~HeldAt(s, i + 1, l)
  /\ \A l \in Locks : HeldAt(s, i, l) => Guarded(Guard(l), s, i, G)
  /\ \A f \in Functions : s[i] = Call(f) =>
       /\ Guarded(CallGuard(f), s, i, G)
       /\ \/ Inner(s, i, ok)
          \/ /\ m <= Bound(f)
             /\ f # "unix_fork" => \A h \in Locks : HeldAt(s, i, h) => Rank(h) < Bound(f)

Ordered(s, m, G, ok) == s \in Seq(Steps) /\ \A i \in 1 .. Len(s) : Nested(s, i, m, G, ok)

(* All that is held before s is of a rank below m, and a lock of G is held *)
(* if one has to be.                                                       *)
Below(s, m) == \A h \in Locks : HeldAt(s, 1, h) => Rank(h) < m
Around(s, G, K) == G = K \/ G = {} \/ (G \subseteq Locks /\ \E g \in G : HeldAt(s, 1, g))

(* Lock l may be taken where one of G is held, and one of K is held inside *)
(* it.                                                                     *)
Inside(l, G, K) == Guard(l) \in {{}, G} /\ (K = G \/ K = {} \/ (K \subseteq Locks /\ l \in K))

(* A body that takes locks above m, with one of G held around it, and      *)
(* releases exactly what it takes.                                         *)
Good(b, m, G) ==
  /\ b \in Seq(Steps)
  /\ \A l \in Locks : ~HeldAt(b, 1, l)
  /\ \A i \in 1 .. Len(b) : Nested(b, i, m, G, FALSE)

(* What a cproc has still to do: nested as it should be, with fork() and   *)
(* the system call in it only at the end.                                  *)
Sound(s, ok) ==
  /\ s \in Seq(Steps)
  /\ \A i \in 1 .. Len(s) : Nested(s, i, 0, {}, ok)
  /\ \A i \in 1 .. Len(s) - 1 : s[i] \notin {Call("fork"), Call("unix_fork")}
-----------------------------------------------------------------------------
(* A lock that is released is not held any more.                           *)
LEMMA ReleasedOnce ==
  ASSUME NEW s, NEW i, NEW m, NEW G, NEW ok, Nested(s, i, m, G, ok)
  PROVE  \A l \in Locks : Closes(s[i], l) => ~HeldAt(s, i + 1, l)
  BY DEF Nested

(* Ranks and bounds are numbers, and guards are locks.                     *)
LEMMA RankType ==
  ASSUME ForkLocksAssumption
  PROVE  /\ \A l \in Locks : Rank(l) \in 0 .. NLISTS + 7 /\ Guard(l) \subseteq Locks
         /\ \A f \in Functions : Bound(f) \in 0 .. NLISTS + 7 /\ CallGuard(f) \subseteq Locks
<1>1. ASSUME NEW l \in Locks PROVE Rank(l) \in 0 .. NLISTS + 7
  BY <1>1 DEF ForkLocksAssumption, Locks, CoveredLocks, Rank, Buckets, cthread_lock, cthread_free_lock,
       malloc_lock, cproc_lock, initial_stack_lock, reply_port_lock, bucket_lock, record_lock
<1>2. ASSUME NEW f \in Functions PROVE Bound(f) \in 0 .. NLISTS + 7
  BY <1>2 DEF ForkLocksAssumption, Functions, Bound
<1>3. ASSUME NEW l \in Locks PROVE Guard(l) \subseteq Locks
  BY DEF Guard, Locks, CoveredLocks
<1>4. ASSUME NEW f \in Functions PROVE CallGuard(f) \subseteq Locks
  BY DEF CallGuard, Locks, CoveredLocks
<1> QED BY <1>1, <1>2, <1>3, <1>4

(* The places of a sequence of steps that goes on with another one.        *)
LEMMA ConcatPlaces ==
  ASSUME NEW b \in Seq(Steps), NEW r \in Seq(Steps)
  PROVE  /\ b \o r \in Seq(Steps) /\ Len(b \o r) = Len(b) + Len(r)
         /\ Len(b) \in Nat /\ Len(r) \in Nat
         /\ \A j \in 1 .. Len(b) : (b \o r)[j] = b[j]
         /\ \A j \in 1 .. Len(r) : (b \o r)[Len(b) + j] = r[j]
OBVIOUS

(* What is held in a sequence of steps that goes on with another one.      *)
LEMMA HeldConcat ==
  ASSUME NEW b \in Seq(Steps), NEW r \in Seq(Steps), NEW l
  PROVE  /\ \A i \in 1 .. Len(b) :
              HeldAt(b \o r, i, l) <=> HeldAt(b, i, l) \/ (NotTaken(b, i, l) /\ HeldAt(r, 1, l))
         /\ \A i \in Nat \ {0} : HeldAt(b \o r, Len(b) + i, l) <=> HeldAt(r, i, l)
<1> DEFINE s == b \o r
<1>1. /\ s \in Seq(Steps) /\ Len(s) = Len(b) + Len(r)
      /\ Len(b) \in Nat /\ Len(r) \in Nat
      /\ \A j \in 1 .. Len(b) : s[j] = b[j]
      /\ \A j \in 1 .. Len(r) : s[Len(b) + j] = r[j]
  OBVIOUS
<1> HIDE DEF s
<1>2. ASSUME NEW i \in Nat \ {0} PROVE HeldAt(s, Len(b) + i, l) <=> HeldAt(r, i, l)
  <2>1. ASSUME HeldAt(s, Len(b) + i, l) PROVE HeldAt(r, i, l)
    <3>1. PICK j \in Len(b) + i .. Len(s) : Closes(s[j], l) /\ \A k \in Len(b) + i .. j - 1 : s[k] # Acquire(l)
      BY <2>1 DEF HeldAt
    <3>4. j - Len(b) \in i .. Len(r) /\ j - Len(b) \in 1 .. Len(r) /\ j = Len(b) + (j - Len(b))
      BY <1>1, <3>1
    <3>2. j - Len(b) \in i .. Len(r) /\ Closes(r[j - Len(b)], l)
      BY Zenon, <1>1, <3>1, <3>4
    <3>3. ASSUME NEW k \in i .. j - Len(b) - 1 PROVE r[k] # Acquire(l)
      <4>1. Len(b) + k \in Len(b) + i .. j - 1 /\ k \in 1 .. Len(r)
        BY <1>1, <3>1, <3>2
      <4> QED BY <4>1, <1>1, <3>1
    <3> QED BY <3>2, <3>3 DEF HeldAt
  <2>2. ASSUME HeldAt(r, i, l) PROVE HeldAt(s, Len(b) + i, l)
    <3>1. PICK j \in i .. Len(r) : Closes(r[j], l) /\ \A k \in i .. j - 1 : r[k] # Acquire(l)
      BY <2>2 DEF HeldAt
    <3>2. Len(b) + j \in Len(b) + i .. Len(s) /\ Closes(s[Len(b) + j], l)
      BY <1>1, <3>1
    <3>3. ASSUME NEW k \in Len(b) + i .. Len(b) + j - 1 PROVE s[k] # Acquire(l)
      <4>1. k - Len(b) \in i .. j - 1 /\ k - Len(b) \in 1 .. Len(r) /\ k = Len(b) + (k - Len(b))
        BY SMTT(40), <1>1, <3>1
      <4> QED BY Zenon, <4>1, <1>1, <3>1
    <3> QED BY <3>2, <3>3 DEF HeldAt
  <2> QED BY <2>1, <2>2
<1>3. ASSUME NEW i \in 1 .. Len(b)
      PROVE  HeldAt(s, i, l) <=> HeldAt(b, i, l) \/ (NotTaken(b, i, l) /\ HeldAt(r, 1, l))
  <2>1. ASSUME HeldAt(b, i, l) PROVE HeldAt(s, i, l)
    <3>1. PICK j \in i .. Len(b) : Closes(b[j], l) /\ \A k \in i .. j - 1 : b[k] # Acquire(l)
      BY <2>1 DEF HeldAt
    <3>2. j \in i .. Len(s) /\ s[j] = b[j]
      BY <1>1, <3>1
    <3>3. ASSUME NEW k \in i .. j - 1 PROVE s[k] = b[k]
      <4>1. k \in 1 .. Len(b)
        BY <1>1, <3>1
      <4> QED BY <4>1, <1>1
    <3> QED BY <3>1, <3>2, <3>3 DEF HeldAt
  <2>2. ASSUME NotTaken(b, i, l), HeldAt(r, 1, l) PROVE HeldAt(s, i, l)
    <3>1. PICK j \in 1 .. Len(r) : Closes(r[j], l) /\ \A k \in 1 .. j - 1 : r[k] # Acquire(l)
      BY <2>2 DEF HeldAt
    <3>2. Len(b) + j \in i .. Len(s) /\ Closes(s[Len(b) + j], l)
      BY <1>1, <3>1
    <3>3. ASSUME NEW k \in i .. Len(b) + j - 1 PROVE s[k] # Acquire(l)
      <4>1. CASE k <= Len(b)
        BY <4>1, <1>1, <2>2 DEF NotTaken
      <4>2. CASE k > Len(b)
        <5>1. k - Len(b) \in 1 .. j - 1 /\ k - Len(b) \in 1 .. Len(r) /\ k = Len(b) + (k - Len(b))
          BY <4>2, <1>1, <3>1
        <5> QED BY ZenonT(40), <5>1, <1>1, <3>1
      <4> QED BY <4>1, <4>2, <1>1
    <3> QED BY <3>2, <3>3 DEF HeldAt
  <2>3. ASSUME HeldAt(s, i, l), ~HeldAt(b, i, l) PROVE NotTaken(b, i, l) /\ HeldAt(r, 1, l)
    <3>1. PICK j \in i .. Len(s) : Closes(s[j], l) /\ \A k \in i .. j - 1 : s[k] # Acquire(l)
      BY <2>3 DEF HeldAt
    <3>2. j > Len(b)
      <4> SUFFICES ASSUME j <= Len(b) PROVE FALSE
        BY <1>1, <3>1
      <4> QED BY SMTT(40), <1>1, <3>1, <2>3 DEF HeldAt
    <3>3. NotTaken(b, i, l)
      BY <1>1, <3>1, <3>2 DEF NotTaken
    <3>6. j - Len(b) \in 1 .. Len(r) /\ j = Len(b) + (j - Len(b))
      BY <1>1, <3>1, <3>2
    <3>4. j - Len(b) \in 1 .. Len(r) /\ Closes(r[j - Len(b)], l)
      BY ZenonT(40), <1>1, <3>1, <3>6
    <3>5. ASSUME NEW k \in 1 .. j - Len(b) - 1 PROVE r[k] # Acquire(l)
      <4>1. Len(b) + k \in i .. j - 1 /\ k \in 1 .. Len(r)
        BY <1>1, <3>1, <3>4
      <4> QED BY <4>1, <1>1, <3>1
    <3> QED BY <3>3, <3>4, <3>5 DEF HeldAt
  <2> QED BY <2>1, <2>2, <2>3
<1> QED BY <1>2, <1>3 DEF s

(* A good body before steps that hold only locks of a lower rank.          *)
LEMMA ConcatNested ==
  ASSUME ForkLocksAssumption,
         NEW m \in Nat, NEW n \in Nat, n <= m, NEW G, NEW K, NEW ok \in BOOLEAN,
         NEW b, Good(b, m, G),
         NEW r, Ordered(r, n, K, FALSE), Below(r, m), Around(r, G, K)
  PROVE  /\ Ordered(b \o r, n, K, ok)
         /\ \A l \in Locks : HeldAt(b \o r, 1, l) <=> HeldAt(r, 1, l)
<1> DEFINE s == b \o r
<1>a. /\ r \in Seq(Steps) /\ \A i \in 1 .. Len(r) : Nested(r, i, n, K, FALSE)
      /\ \A h \in Locks : HeldAt(r, 1, h) => Rank(h) < m
      /\ G = K \/ G = {} \/ (G \subseteq Locks /\ \E g \in G : HeldAt(r, 1, g))
  BY Zenon DEF Ordered, Below, Around
<1>b. /\ b \in Seq(Steps)
      /\ \A l \in Locks : ~HeldAt(b, 1, l)
      /\ \A i \in 1 .. Len(b) : Nested(b, i, m, G, FALSE)
  BY Zenon DEF Good
<1>s. /\ s \in Seq(Steps) /\ Len(s) = Len(b) + Len(r)
      /\ Len(b) \in Nat /\ Len(r) \in Nat
      /\ \A j \in 1 .. Len(b) : s[j] = b[j]
      /\ \A j \in 1 .. Len(r) : s[Len(b) + j] = r[j]
  BY <1>a, <1>b
<1>h. /\ \A l \in Locks : \A i \in 1 .. Len(b) :
           HeldAt(s, i, l) <=> HeldAt(b, i, l) \/ (NotTaken(b, i, l) /\ HeldAt(r, 1, l))
      /\ \A l \in Locks : \A i \in Nat \ {0} : HeldAt(s, Len(b) + i, l) <=> HeldAt(r, i, l)
  BY Zenon, <1>a, <1>b, HeldConcat
<1>r. /\ \A l \in Locks : Rank(l) \in Nat /\ Guard(l) \subseteq Locks
      /\ \A f \in Functions : Bound(f) \in Nat /\ CallGuard(f) \subseteq Locks
  BY RankType DEF ForkLocksAssumption
<1> HIDE DEF s
(* b takes no lock that is held around it. *)
<1>1. ASSUME NEW h \in Locks, HeldAt(r, 1, h) PROVE \A i \in 1 .. Len(b) : b[i] # Acquire(h)
  <2> SUFFICES ASSUME NEW i \in 1 .. Len(b), b[i] = Acquire(h) PROVE FALSE
    OBVIOUS
  <2>1. m <= Rank(h)
    BY Zenon, <1>b DEF Nested
  <2> QED BY <2>1, <1>1, <1>a, <1>r
<1>2. ASSUME NEW h \in Locks, HeldAt(r, 1, h), NEW i \in 1 .. Len(b) PROVE HeldAt(s, i, h)
  BY <1>1, <1>2, <1>h, <1>s DEF NotTaken
(* b releases no lock that is held around it. *)
<1>3. ASSUME NEW h \in Locks, HeldAt(r, 1, h) PROVE \A i \in 1 .. Len(b) : ~Closes(b[i], h)
  <2> SUFFICES ASSUME NEW i \in 1 .. Len(b), Closes(b[i], h) PROVE FALSE
    OBVIOUS
  <2>1. i \in 1 .. Len(b) /\ \A k \in 1 .. i - 1 : b[k] # Acquire(h)
    BY <1>1, <1>3, <1>s
  <2> QED BY <2>1, <1>b DEF HeldAt
(* Guards that are held in b, in r or around b are held in s. *)
<1>4. ASSUME NEW X \in SUBSET Locks, NEW i \in 1 .. Len(b), Guarded(X, b, i, G)
      PROVE  Guarded(X, s, i, K)
  <2>1. CASE X = {} \/ (X = G /\ G \in {K, {}})
    BY <2>1 DEF Guarded
  <2>2. CASE X = G /\ \E g \in G : HeldAt(r, 1, g)
    BY <2>2, <1>2 DEF Guarded
  <2>3. CASE \E g \in X : HeldAt(b, i, g)
    BY <2>3, <1>h DEF Guarded
  <2> QED BY <1>4, <1>a, <2>1, <2>2, <2>3 DEF Guarded
<1>5. ASSUME NEW i \in 1 .. Len(b) PROVE Nested(s, i, n, K, ok)
  <2>0. s[i] = b[i] /\ Nested(b, i, m, G, FALSE)
    BY Zenon, <1>s, <1>b
  <2>1. ASSUME NEW l \in Locks PROVE HeldAt(s, i + 1, l) <=> HeldAt(b, i + 1, l) \/ (NotTaken(b, i + 1, l) /\ HeldAt(r, 1, l))
    <3>1. CASE i < Len(b)
      <4>1. i + 1 \in 1 .. Len(b)
        BY <3>1, <1>s
      <4> QED BY <4>1, <1>h
    <3>2. CASE i = Len(b)
      <4>1. ~HeldAt(b, i + 1, l) /\ NotTaken(b, i + 1, l)
        BY <3>2, <1>s DEF HeldAt, NotTaken
      <4> QED BY <4>1, <1>h, <3>2
    <3> QED BY <3>1, <3>2, <1>s
  <2>2. ASSUME NEW l \in Locks, s[i] = Acquire(l)
        PROVE  /\ n <= Rank(l) /\ HeldAt(s, i + 1, l)
               /\ \A h \in Locks : HeldAt(s, i, h) => Rank(h) < Rank(l)
    <3>1. /\ m <= Rank(l) /\ HeldAt(b, i + 1, l)
          /\ \A h \in Locks : HeldAt(b, i, h) => Rank(h) < Rank(l)
      BY <2>0, <2>2 DEF Nested
    <3>2. HeldAt(s, i + 1, l)
      BY <3>1, <2>1
    <3>3. ASSUME NEW h \in Locks, HeldAt(s, i, h) PROVE Rank(h) < Rank(l)
      BY <3>3, <3>1, <1>a, <1>h, <1>r
    <3> QED BY <3>1, <3>2, <3>3, <1>r
  <2>3. ASSUME NEW l \in Locks, Closes(s[i], l) PROVE ~HeldAt(s, i + 1, l)
    <3>1. ~HeldAt(b, i + 1, l)
      BY <2>0, <2>3 DEF Nested
    <3> QED BY <3>1, <2>0, <2>1, <2>3, <1>3
  <2>4. ASSUME NEW l \in Locks, HeldAt(s, i, l) PROVE Guarded(Guard(l), s, i, K)
    <3>1. CASE HeldAt(b, i, l)
      <4>1. Guarded(Guard(l), b, i, G)
        BY <3>1, <2>0 DEF Nested
      <4> QED BY <4>1, <1>4, <1>r
    <3>2. CASE HeldAt(r, 1, l)
      <4>1. 1 \in 1 .. Len(r)
        BY <3>2, <1>s DEF HeldAt
      <4>2. Guarded(Guard(l), r, 1, K)
        BY Zenon, <4>1, <3>2, <1>a DEF Nested
      <4> QED BY <4>2, <1>2, <1>r DEF Guarded
    <3> QED BY <3>1, <3>2, <2>4, <1>h
  <2>5. ASSUME NEW f \in Functions, s[i] = Call(f)
        PROVE  /\ Guarded(CallGuard(f), s, i, K)
               /\ \/ Inner(s, i, ok)
                  \/ /\ n <= Bound(f)
                     /\ f # "unix_fork" => \A h \in Locks : HeldAt(s, i, h) => Rank(h) < Bound(f)
    <3>1. /\ Guarded(CallGuard(f), b, i, G)
          /\ \/ Inner(b, i, FALSE)
             \/ /\ m <= Bound(f)
                /\ f # "unix_fork" => \A h \in Locks : HeldAt(b, i, h) => Rank(h) < Bound(f)
      BY Zenon, <2>0, <2>5 DEF Nested
    <3>2. Guarded(CallGuard(f), s, i, K)
      BY <3>1, <1>4, <1>r
    <3>3. CASE Inner(b, i, FALSE)
      <4>1. i # 1 /\ i - 1 \in 1 .. Len(b)
        BY <3>3, <1>s DEF Inner
      <4>2. Inner(s, i, ok)
        BY Zenon, <4>1, <3>3, <1>s DEF Inner
      <4> QED BY <3>2, <4>2
    <3>4. CASE /\ m <= Bound(f)
               /\ f # "unix_fork" => \A h \in Locks : HeldAt(b, i, h) => Rank(h) < Bound(f)
      <4>1. ASSUME NEW h \in Locks, HeldAt(s, i, h), f # "unix_fork" PROVE Rank(h) < Bound(f)
        BY <4>1, <3>4, <1>a, <1>h, <1>r
      <4> QED BY <4>1, <3>2, <3>4, <1>r
    <3> QED BY Zenon, <3>1, <3>3, <3>4
  <2> QED BY <2>2, <2>3, <2>4, <2>5 DEF Nested
<1>6. ASSUME NEW i \in 1 .. Len(r) PROVE Nested(s, Len(b) + i, n, K, ok)
  <2>1. s[Len(b) + i] = r[i] /\ Nested(r, i, n, K, FALSE)
    BY Zenon, <1>a, <1>s
  <2>2. \A l \in Locks : /\ HeldAt(s, Len(b) + i, l) <=> HeldAt(r, i, l)
                         /\ HeldAt(s, Len(b) + i + 1, l) <=> HeldAt(r, i + 1, l)
    <3>1. i \in Nat \ {0} /\ i + 1 \in Nat \ {0} /\ Len(b) + i + 1 = Len(b) + (i + 1)
      BY <1>s
    <3> QED BY <3>1, <1>h
  <2>3. ASSUME NEW X \in SUBSET Locks, Guarded(X, r, i, K) PROVE Guarded(X, s, Len(b) + i, K)
    BY <2>2, <2>3 DEF Guarded
  <2>4. Inner(r, i, FALSE) => Inner(s, Len(b) + i, ok)
    <3> SUFFICES ASSUME Inner(r, i, FALSE) PROVE Inner(s, Len(b) + i, ok)
      OBVIOUS
    <3>1. i # 1 /\ i - 1 \in 1 .. Len(r) /\ Len(b) + i # 1 /\ Len(b) + i - 1 = Len(b) + (i - 1)
      BY <1>s DEF Inner
    <3>2. r[i] = Rpc /\ r[i - 1] = SetPort("thread_reply")
      BY <3>1 DEF Inner
    <3>3. s[Len(b) + i - 1] = r[i - 1]
      BY ZenonT(40), <3>1, <1>s
    <3> QED BY <3>1, <3>2, <3>3, <2>1 DEF Inner
  <2> QED BY Zenon, <2>1, <2>2, <2>3, <2>4, <1>r DEF Nested
<1>7. \A i \in 1 .. Len(s) : Nested(s, i, n, K, ok)
  <2> TAKE i \in 1 .. Len(s)
  <2>1. CASE i <= Len(b)
    BY <2>1, <1>5, <1>s
  <2>2. CASE i > Len(b)
    <3>1. i - Len(b) \in 1 .. Len(r) /\ i = Len(b) + (i - Len(b))
      BY <2>2, <1>s
    <3>2. PICK k \in 1 .. Len(r) : i = Len(b) + k
      BY SMTT(40), <3>1
    <3> QED BY <3>2, <1>6
  <2> QED BY <2>1, <2>2, <1>s
<1>8. ASSUME NEW l \in Locks PROVE HeldAt(s, 1, l) <=> HeldAt(r, 1, l)
  <2>1. CASE Len(b) = 0
    BY <2>1, <1>h
  <2>2. CASE Len(b) # 0
    <3>1. 1 \in 1 .. Len(b)
      BY <2>2, <1>s
    <3>2. HeldAt(s, 1, l) => HeldAt(r, 1, l)
      BY <3>1, <1>h, <1>b
    <3>3. HeldAt(r, 1, l) => HeldAt(s, 1, l)
      BY <3>1, <1>2
    <3> QED BY <3>2, <3>3
  <2> QED BY <2>1, <2>2
<1> QED BY <1>s, <1>7, <1>8 DEF s, Ordered
-----------------------------------------------------------------------------
(* A step is what its first component says.                                *)
LEMMA StepForms ==
  ASSUME NEW x \in Steps
  PROVE  /\ x[1] = "acquire" => x[2] \in Locks /\ x = Acquire(x[2])
         /\ x[1] = "release" => x[2] \in Locks /\ x = Release(x[2])
         /\ x[1] = "call" => x[2] \in Functions /\ x = Call(x[2])
         /\ x[1] = "set_port" => x[2] \in {"null", "thread_reply", "own"} /\ x = SetPort(x[2])
BY DEF Steps, Acquire, Release, Call, SetPort

(* Which step releases which lock.                                         *)
LEMMA ClosesForms ==
  /\ \A l, h : Closes(Release(l), h) <=> l = h
  /\ \A l, h : ~Closes(Acquire(l), h)
  /\ \A x, h : ~Closes(SetPort(x), h)
  /\ \A f, h : Closes(Call(f), h) <=> f = "unix_fork" /\ h \in ForkedLocks
  /\ \A l, h : Acquire(l) = Acquire(h) <=> l = h
  /\ \A l, h : Release(l) # Acquire(h)
  /\ \A f, h : Call(f) # Acquire(h)
  /\ \A x, h : SetPort(x) # Acquire(h)
  /\ \A f, g : Call(f) = Call(g) <=> f = g
  /\ \A l, g : Acquire(l) # Call(g)
  /\ \A l, g : Release(l) # Call(g)
  /\ \A x, g : SetPort(x) # Call(g)
BY DEF Closes, Acquire, Release, Call, SetPort

(* What is held before a step and after it.                                *)
LEMMA HeldCons ==
  ASSUME NEW x \in Steps, NEW t \in Seq(Steps), NEW l
  PROVE  /\ <<x>> \o t \in Seq(Steps) /\ Len(<<x>> \o t) = Len(t) + 1
         /\ (<<x>> \o t)[1] = x
         /\ \A i \in 1 .. Len(t) : (<<x>> \o t)[i + 1] = t[i]
         /\ \A i \in Nat \ {0} : HeldAt(<<x>> \o t, i + 1, l) <=> HeldAt(t, i, l)
         /\ HeldAt(<<x>> \o t, 1, l) <=> Closes(x, l) \/ (x # Acquire(l) /\ HeldAt(t, 1, l))
<1> DEFINE b == <<x>>
<1>1. b \in Seq(Steps) /\ Len(b) = 1 /\ b[1] = x
  OBVIOUS
<1>2. /\ b \o t \in Seq(Steps) /\ Len(b \o t) = Len(t) + 1
      /\ (b \o t)[1] = x
      /\ \A i \in 1 .. Len(t) : (b \o t)[i + 1] = t[i]
  OBVIOUS
<1>3. HeldAt(b, 1, l) <=> Closes(x, l)
  BY <1>1 DEF HeldAt
<1>4. NotTaken(b, 1, l) <=> x # Acquire(l)
  BY <1>1 DEF NotTaken
<1> HIDE DEF b
<1>7. /\ \A i \in 1 .. Len(b) :
           HeldAt(b \o t, i, l) <=> HeldAt(b, i, l) \/ (NotTaken(b, i, l) /\ HeldAt(t, 1, l))
      /\ \A i \in Nat \ {0} : HeldAt(b \o t, Len(b) + i, l) <=> HeldAt(t, i, l)
  BY Zenon, HeldConcat, <1>1
<1>5. /\ HeldAt(b \o t, 1, l) <=> HeldAt(b, 1, l) \/ (NotTaken(b, 1, l) /\ HeldAt(t, 1, l))
      /\ \A i \in Nat \ {0} : HeldAt(b \o t, Len(b) + i, l) <=> HeldAt(t, i, l)
  BY <1>1, <1>7
<1>6. \A i \in Nat \ {0} : HeldAt(b \o t, i + 1, l) <=> HeldAt(t, i, l)
  BY <1>1, <1>5
<1> QED BY Zenon, <1>2, <1>3, <1>4, <1>5, <1>6 DEF b

(* A step before others.                                                   *)
LEMMA ConsNested ==
  ASSUME NEW x \in Steps, NEW t \in Seq(Steps), NEW n, NEW G, NEW ok \in BOOLEAN,
         \A l \in Locks : Guard(l) \subseteq Locks,
         \A f \in Functions : CallGuard(f) \subseteq Locks,
         \A i \in 1 .. Len(t) : Nested(t, i, n, G, FALSE),
         Nested(<<x>> \o t, 1, n, G, ok)
  PROVE  \A i \in 1 .. Len(<<x>> \o t) : Nested(<<x>> \o t, i, n, G, ok)
<1> DEFINE s == <<x>> \o t
<1>1. /\ Len(s) = Len(t) + 1 /\ Len(t) \in Nat /\ s[1] = x
      /\ \A i \in 1 .. Len(t) : s[i + 1] = t[i]
      /\ \A l : \A i \in Nat \ {0} : HeldAt(s, i + 1, l) <=> HeldAt(t, i, l)
  <2>1. /\ Len(s) = Len(t) + 1 /\ Len(t) \in Nat /\ s[1] = x
        /\ \A i \in 1 .. Len(t) : s[i + 1] = t[i]
    OBVIOUS
  <2>2. ASSUME NEW l PROVE \A i \in Nat \ {0} : HeldAt(s, i + 1, l) <=> HeldAt(t, i, l)
    BY Zenon, HeldCons
  <2> QED BY <2>1, <2>2
<1>0. Nested(s, 1, n, G, ok)
  OBVIOUS
<1> HIDE DEF s
<1>2. ASSUME NEW i \in 1 .. Len(t) PROVE Nested(s, i + 1, n, G, ok)
  <2>1. s[i + 1] = t[i] /\ Nested(t, i, n, G, FALSE)
    BY Zenon, <1>1
  <2>2. \A l : /\ HeldAt(s, i + 1, l) <=> HeldAt(t, i, l)
               /\ HeldAt(s, i + 1 + 1, l) <=> HeldAt(t, i + 1, l)
    <3>1. i \in Nat \ {0} /\ i + 1 \in Nat \ {0}
      BY <1>1
    <3> QED BY <3>1, <1>1
  <2>3. ASSUME NEW X \in SUBSET Locks, Guarded(X, t, i, G) PROVE Guarded(X, s, i + 1, G)
    BY <2>2, <2>3 DEF Guarded
  <2>4. Inner(t, i, FALSE) => Inner(s, i + 1, ok)
    <3> SUFFICES ASSUME Inner(t, i, FALSE) PROVE Inner(s, i + 1, ok)
      OBVIOUS
    <3>1. i # 1 /\ i - 1 \in 1 .. Len(t) /\ i + 1 # 1 /\ i + 1 - 1 = i - 1 + 1
      BY <1>1 DEF Inner
    <3> QED BY <3>1, <2>1, <1>1 DEF Inner
  <2> QED BY Zenon, <2>1, <2>2, <2>3, <2>4 DEF Nested
<1>3. \A i \in 1 .. Len(s) : Nested(s, i, n, G, ok)
  <2> TAKE i \in 1 .. Len(s)
  <2>1. CASE i = 1
    BY <2>1, <1>0
  <2>2. CASE i # 1
    <3>1. i - 1 \in 1 .. Len(t) /\ i = i - 1 + 1
      BY <2>2, <1>1
    <3> QED BY Zenon, <3>1, <1>2
  <2> QED BY <2>1, <2>2
<1> QED BY <1>3 DEF s
-----------------------------------------------------------------------------
(* The body of a function that takes no lock is good.                      *)
LEMMA NothingGood ==
  ASSUME NEW m, NEW G PROVE Good(<<>>, m, G)
BY DEF Good, HeldAt

(* So is one call of a function that takes locks above m, if the lock that *)
(* the function expects to be held is held around it.                      *)
LEMMA CallGood ==
  ASSUME ForkLocksAssumption, NEW f \in Functions, f # "unix_fork", NEW m \in Nat, m <= Bound(f),
         NEW G, CallGuard(f) \in {{}, G}
  PROVE  Good(<<Call(f)>>, m, G)
<1> DEFINE b == <<Call(f)>>
<1>1. b \in Seq(Steps) /\ Len(b) = 1 /\ b[1] = Call(f)
  BY DEF Steps
<1>2. \A i \in {1, 2} : \A l : ~HeldAt(b, i, l)
  BY <1>1, ClosesForms DEF HeldAt
<1> HIDE DEF b
<1>3. Nested(b, 1, m, G, FALSE)
  <2>1. (\A l : b[1] # Acquire(l)) /\ \A g : b[1] = Call(g) => g = f
    BY <1>1, ClosesForms
  <2>2. \A l : ~HeldAt(b, 1, l) /\ ~HeldAt(b, 1 + 1, l)
    BY <1>2
  <2>3. Guarded(CallGuard(f), b, 1, G)
    BY DEF Guarded
  <2> QED BY Zenon, <2>1, <2>2, <2>3 DEF Nested
<1>4. Good(b, m, G)
  <2>1. \A i \in 1 .. Len(b) : i = 1
    BY <1>1
  <2> QED BY Zenon, <2>1, <1>1, <1>2, <1>3 DEF Good
<1> QED BY <1>4 DEF b

(* Two good pieces of code, one after the other, are good.                 *)
LEMMA ConcatGood ==
  ASSUME ForkLocksAssumption, NEW m \in Nat, NEW G, NEW b, NEW c, Good(b, m, G), Good(c, m, G)
  PROVE  Good(b \o c, m, G)
<1>1. /\ c \in Seq(Steps) /\ \A l \in Locks : ~HeldAt(c, 1, l)
      /\ \A i \in 1 .. Len(c) : Nested(c, i, m, G, FALSE)
  BY Zenon DEF Good
<1>2. m <= m /\ FALSE \in BOOLEAN
  OBVIOUS
<1>3. Ordered(c, m, G, FALSE) /\ Below(c, m) /\ Around(c, G, G)
  BY Zenon, <1>1 DEF Ordered, Below, Around
<1>4. /\ Ordered(b \o c, m, G, FALSE)
      /\ \A l \in Locks : HeldAt(b \o c, 1, l) <=> HeldAt(c, 1, l)
  BY Zenon, <1>2, <1>3, ConcatNested
<1> QED BY Zenon, <1>1, <1>4 DEF Good, Ordered

(* A good piece of code between the spin_lock and the spin_unlock of a     *)
(* lock below all that it takes is good.                                   *)
LEMMA UnderGood ==
  ASSUME ForkLocksAssumption, NEW l \in Locks, NEW n \in Nat, n <= Rank(l),
         NEW G, NEW K, Inside(l, G, K), NEW b, Good(b, Rank(l) + 1, K)
  PROVE  Good(Under(l, b), n, G)
<1> DEFINE r == <<Release(l)>>
           t == b \o r
           s == <<Acquire(l)>> \o t
<1>0. /\ Rank(l) \in Nat
      /\ \A h \in Locks : Guard(h) \subseteq Locks
      /\ \A f \in Functions : CallGuard(f) \subseteq Locks
  BY RankType DEF ForkLocksAssumption
<1>1. r \in Seq(Steps) /\ Len(r) = 1 /\ r[1] = Release(l) /\ b \in Seq(Steps)
  BY DEF Steps, Good
<1>2. \A h : (HeldAt(r, 1, h) <=> h = l) /\ ~HeldAt(r, 2, h)
  BY <1>1, ClosesForms DEF HeldAt
<1>3. Under(l, b) = s
  BY <1>1 DEF Under, Steps
<1> HIDE DEF r
<1>4. Nested(r, 1, n, G, FALSE)
  <2>1. (\A h : r[1] # Acquire(h)) /\ (\A f : r[1] # Call(f)) /\ \A h : ~HeldAt(r, 1 + 1, h)
    BY <1>1, <1>2, ClosesForms
  <2>2. \A h \in Locks : HeldAt(r, 1, h) => Guarded(Guard(h), r, 1, G)
    BY <1>2 DEF Guarded, Inside
  <2> QED BY Zenon, <2>1, <2>2 DEF Nested
<1>5. /\ t \in Seq(Steps)
      /\ \A i \in 1 .. Len(t) : Nested(t, i, n, G, FALSE)
      /\ \A h \in Locks : HeldAt(t, 1, h) <=> h = l
  <2>1. \A i \in 1 .. Len(r) : Nested(r, i, n, G, FALSE)
    <3>1. \A i \in 1 .. Len(r) : i = 1
      BY <1>1
    <3> QED BY Zenon, <3>1, <1>4
  <2>2. Below(r, Rank(l) + 1)
    BY <1>2, <1>0 DEF Below
  <2>3. Rank(l) + 1 \in Nat /\ n <= Rank(l) + 1 /\ FALSE \in BOOLEAN
    BY <1>0
  <2>4. /\ t \in Seq(Steps)
        /\ \A i \in 1 .. Len(t) : Nested(t, i, n, G, FALSE)
        /\ \A h \in Locks : HeldAt(t, 1, h) <=> HeldAt(r, 1, h)
    <3>1. Around(r, K, G)
      BY <1>2 DEF Around, Inside
    <3>2. Ordered(r, n, G, FALSE)
      BY Zenon, <2>1, <1>1 DEF Ordered
    <3>3. Ordered(t, n, G, FALSE) /\ \A h \in Locks : HeldAt(t, 1, h) <=> HeldAt(r, 1, h)
      BY ZenonT(40), <2>2, <2>3, <3>1, <3>2, ConcatNested
    <3> QED BY Zenon, <3>3 DEF Ordered
  <2> QED BY Zenon, <2>4, <1>2
<1>6. Acquire(l) \in Steps
  BY DEF Steps
<1> HIDE DEF t
<1>7. /\ s \in Seq(Steps) /\ s[1] = Acquire(l)
      /\ \A h \in Locks : HeldAt(s, 2, h) <=> HeldAt(t, 1, h)
      /\ \A h \in Locks : HeldAt(s, 1, h) <=> (Acquire(l) # Acquire(h) /\ HeldAt(t, 1, h))
  <2>1. \A h \in Locks : HeldAt(s, 1 + 1, h) <=> HeldAt(t, 1, h)
    BY <1>5, <1>6, HeldCons
  <2>2. 1 + 1 = 2
    BY SMTT(40)
  <2>3. \A h \in Locks : HeldAt(s, 1, h) <=> Closes(Acquire(l), h) \/ (Acquire(l) # Acquire(h) /\ HeldAt(t, 1, h))
    BY SMTT(40), <1>5, <1>6, HeldCons
  <2>4. s \in Seq(Steps) /\ s[1] = Acquire(l)
    BY <1>5, <1>6, HeldCons
  <2> QED BY <2>1, <2>2, <2>3, <2>4, ClosesForms
<1>8. \A h \in Locks : ~HeldAt(s, 1, h)
  BY <1>5, <1>7
<1> HIDE DEF s
<1>9. Nested(s, 1, n, G, FALSE)
  <2>1. HeldAt(s, 1 + 1, l)
    BY <1>5, <1>7
  <2>2. /\ \A h : s[1] = Acquire(h) => h = l
        /\ \A h : ~Closes(s[1], h)
        /\ \A f : s[1] # Call(f)
    BY <1>7, ClosesForms
  <2> QED BY Zenon, <2>1, <2>2, <1>8 DEF Nested
<1>10. \A i \in 1 .. Len(s) : Nested(s, i, n, G, FALSE)
  BY Zenon, <1>0, <1>5, <1>6, <1>9, ConsNested DEF s
<1> QED BY Zenon, <1>3, <1>7, <1>8, <1>10 DEF Good

(* A lock is taken and released.                                           *)
LEMMA NothingUnder ==
  ASSUME ForkLocksAssumption, NEW l \in Locks, NEW n \in Nat, n <= Rank(l),
         NEW G, Inside(l, G, {})
  PROVE  Good(Under(l, <<>>), n, G)
<1>1. Good(<<>>, Rank(l) + 1, {})
  BY NothingGood
<1> QED BY <1>1, UnderGood
-----------------------------------------------------------------------------
(* The bounds and guards of the locks and functions that a body names.     *)
LEMMA Values ==
  ASSUME ForkLocksAssumption
  PROVE  /\ cthread_lock \in Locks /\ Rank(cthread_lock) = 1 /\ Guard(cthread_lock) = {}
         /\ cthread_free_lock \in Locks /\ Rank(cthread_free_lock) = 2 /\ Guard(cthread_free_lock) = {}
         /\ \A b \in Buckets : /\ bucket_lock(b) \in Locks /\ Rank(bucket_lock(b)) = 2 + b
                               /\ Guard(bucket_lock(b)) = {}
         /\ malloc_lock \in Locks /\ Rank(malloc_lock) = NLISTS + 3
         /\ cproc_lock \in Locks /\ Rank(cproc_lock) = NLISTS + 4 /\ Guard(cproc_lock) = {}
         /\ initial_stack_lock \in Locks /\ Rank(initial_stack_lock) = NLISTS + 5
         /\ \A p \in Cproc : /\ record_lock(p) \in Locks /\ Rank(record_lock(p)) = NLISTS + 6
                             /\ Guard(record_lock(p)) = {}
         /\ reply_port_lock \in Locks /\ Rank(reply_port_lock) = NLISTS + 7 /\ Guard(reply_port_lock) = {}
         /\ Guard(malloc_lock) = {bucket_lock(b) : b \in Buckets}
         /\ Guard(initial_stack_lock) = {cthread_lock}
BY DEF ForkLocksAssumption, Locks, CoveredLocks, Rank, Guard, Buckets, cthread_lock, cthread_free_lock,
     malloc_lock, cproc_lock, initial_stack_lock, reply_port_lock, bucket_lock, record_lock

(* The reply port is replaced around a kernel call that does not come      *)
(* back to its lock.                                                       *)
LEMMA PortGood ==
  ASSUME ForkLocksAssumption, NEW x \in {"null", "own"}
  PROVE  Good(Under(reply_port_lock, <<SetPort("thread_reply"), Rpc, SetPort(x)>>), NLISTS + 7, {})
<1> DEFINE b == <<SetPort("thread_reply"), Rpc, SetPort(x)>>
<1>1. /\ b \in Seq(Steps) /\ Len(b) = 3
      /\ b[1] = SetPort("thread_reply") /\ b[2] = Rpc /\ b[3] = SetPort(x)
  BY DEF Steps, Rpc, Functions
<1> HIDE DEF b
<1>2. \A i \in 1 .. 3 : \A l : ~Closes(b[i], l) /\ b[i] # Acquire(l)
  BY <1>1, ClosesForms DEF Rpc
<1>3. \A i \in 1 .. 4 : \A l : ~HeldAt(b, i, l)
  BY <1>1, <1>2 DEF HeldAt
<1>4. Inner(b, 2, FALSE) /\ CallGuard("mig_get_reply_port") = {}
  BY <1>1 DEF Inner, CallGuard
<1>5. \A i \in 1 .. 3 : \A f : b[i] = Call(f) => i = 2 /\ f = "mig_get_reply_port"
  BY <1>1, ClosesForms DEF Rpc
<1>6. ASSUME NEW i \in 1 .. 3 PROVE Nested(b, i, NLISTS + 8, {}, FALSE)
  <2>1. i \in 1 .. 4 /\ i + 1 \in 1 .. 4
    OBVIOUS
  <2>2. \A l : ~HeldAt(b, i, l) /\ ~HeldAt(b, i + 1, l) /\ ~Closes(b[i], l) /\ b[i] # Acquire(l)
    BY <2>1, <1>2, <1>3
  <2>3. \A f : b[i] = Call(f) => Inner(b, i, FALSE) /\ Guarded(CallGuard(f), b, i, {})
    BY Zenon, <1>4, <1>5 DEF Guarded
  <2> QED BY Zenon, <2>2, <2>3 DEF Nested
<1>7. Good(b, NLISTS + 8, {})
  <2>1. 1 \in 1 .. 4
    OBVIOUS
  <2> QED BY Zenon, <2>1, <1>1, <1>3, <1>6 DEF Good
<1>8. NLISTS + 7 \in Nat /\ NLISTS + 8 = NLISTS + 7 + 1 /\ NLISTS + 7 <= NLISTS + 7
  BY DEF ForkLocksAssumption
<1>9. /\ reply_port_lock \in Locks /\ Rank(reply_port_lock) = NLISTS + 7
      /\ Inside(reply_port_lock, {}, {})
  BY Values DEF Inside
<1>10. Good(b, Rank(reply_port_lock) + 1, {}) /\ NLISTS + 7 <= Rank(reply_port_lock)
  BY <1>7, <1>8, <1>9
<1>11. Good(Under(reply_port_lock, b), NLISTS + 7, {})
  BY <1>8, <1>9, <1>10, UnderGood
<1> QED BY <1>11 DEF b

(* Every function but fork() takes its locks in order, releases them, and  *)
(* calls others in order.                                                  *)
LEMMA BodyGood ==
  ASSUME ForkLocksAssumption, NEW p \in Cproc,
         NEW f \in Functions, f \notin {"fork", "unix_fork", "mig_init"}, NEW b \in Body(f, p)
  PROVE  Good(b, Bound(f), CallGuard(f))
<1> USE DEF ForkLocksAssumption
<1> DEFINE B == {bucket_lock(i) : i \in Buckets}
<1>0. NLISTS \in Nat \ {0}
  OBVIOUS
<1>r. Rpc = Call("mig_get_reply_port") /\ "mig_get_reply_port" \in Functions
      /\ Bound("mig_get_reply_port") = NLISTS + 7 /\ CallGuard("mig_get_reply_port") = {}
  BY DEF Rpc, Functions, Bound, CallGuard
<1>p. ASSUME NEW m \in Nat, m <= NLISTS + 7, NEW G PROVE Good(<<Rpc>>, m, G)
  BY <1>p, <1>r, CallGood
<1>l. Good(Under(cthread_free_lock, <<>>), 2, {})
  <2>1. 2 \in Nat /\ 2 <= 2
    OBVIOUS
  <2>2. cthread_free_lock \in Locks /\ Rank(cthread_free_lock) = 2 /\ Inside(cthread_free_lock, {}, {})
    BY Values DEF Inside
  <2> QED BY <2>1, <2>2, NothingUnder
<1>1. CASE f \in {"mig_get_reply_port", "mig_dealloc_reply_port"}
  <2>1. Bound(f) = NLISTS + 7 /\ CallGuard(f) = {}
    BY <1>1 DEF Bound, CallGuard
  <2>2. \/ b = <<>>
        \/ \E x \in {"null", "own"} :
             b = Under(reply_port_lock, <<SetPort("thread_reply"), Rpc, SetPort(x)>>)
    BY <1>1 DEF Body, mig_get_reply_port, mig_dealloc_reply_port
  <2> QED BY <2>1, <2>2, NothingGood, PortGood
<1>2. CASE f = "more_memory"
  <2>1. Bound(f) = NLISTS + 3 /\ CallGuard(f) = B
    BY <1>2 DEF Bound, CallGuard
  <2>2. b = Under(malloc_lock, <<>>) \/ b = Under(malloc_lock, <<Rpc>>)
    BY <1>2 DEF Body, more_memory
  <2>3. Good(<<Rpc>>, NLISTS + 3 + 1, {})
    BY <1>p
  <2>4. NLISTS + 3 \in Nat /\ NLISTS + 3 <= NLISTS + 3
    OBVIOUS
  <2>5. malloc_lock \in Locks /\ Rank(malloc_lock) = NLISTS + 3 /\ Inside(malloc_lock, B, {})
    BY Values DEF Inside
  <2> HIDE DEF B
  <2>8. NLISTS + 3 <= Rank(malloc_lock) /\ Good(<<Rpc>>, Rank(malloc_lock) + 1, {})
    BY <2>3, <2>4, <2>5
  <2>6. Good(Under(malloc_lock, <<>>), NLISTS + 3, B)
    BY <2>4, <2>5, <2>8, NothingUnder
  <2>7. Good(Under(malloc_lock, <<Rpc>>), NLISTS + 3, B)
    BY <2>4, <2>5, <2>8, UnderGood
  <2> QED BY <2>1, <2>2, <2>6, <2>7
<1>3. CASE f \in {"malloc", "free"}
  <2>1. Bound(f) = 3 /\ CallGuard(f) = {}
    BY <1>3 DEF Bound, CallGuard
  <2>2. \E i \in Buckets : b = Under(bucket_lock(i), <<>>) \/ b = Under(bucket_lock(i), <<Call("more_memory")>>)
    BY <1>3 DEF Body, malloc, free
  <2>3. PICK i \in Buckets : b = Under(bucket_lock(i), <<>>) \/ b = Under(bucket_lock(i), <<Call("more_memory")>>)
    BY <2>2
  <2>4. i \in 1 .. NLISTS /\ 3 <= 2 + i /\ 2 + i + 1 <= NLISTS + 3 /\ 2 + i + 1 \in Nat
    BY DEF Buckets
  <2>5. Good(<<>>, 2 + i + 1, B)
    BY NothingGood
  <2>6. Good(<<Call("more_memory")>>, 2 + i + 1, B)
    <3>1. "more_memory" \in Functions /\ Bound("more_memory") = NLISTS + 3 /\ CallGuard("more_memory") = B
      BY DEF Functions, Bound, CallGuard
    <3> QED BY <3>1, <2>4, CallGood
  <2>7. B \subseteq Locks /\ bucket_lock(i) \in B
    BY DEF Locks, CoveredLocks
  <2>8. bucket_lock(i) \in Locks /\ Rank(bucket_lock(i)) = 2 + i /\ Inside(bucket_lock(i), {}, B)
    BY <2>7, Values DEF Inside
  <2> HIDE DEF B
  <2>9. ASSUME NEW c, Good(c, 2 + i + 1, B) PROVE Good(Under(bucket_lock(i), c), 3, {})
    <3>1. Good(c, Rank(bucket_lock(i)) + 1, B) /\ 3 <= Rank(bucket_lock(i)) /\ 3 \in Nat
      BY <2>4, <2>8, <2>9
    <3> QED BY <3>1, <2>8, UnderGood
  <2> QED BY <2>1, <2>3, <2>5, <2>6, <2>9
<1>4. CASE f = "cthread_free"
  <2>1. Bound(f) = 2 /\ CallGuard(f) = {}
    BY <1>4 DEF Bound, CallGuard
  <2>2. b = Under(cthread_free_lock, <<>>)
    BY <1>4 DEF Body, cthread_free
  <2> QED BY <2>1, <2>2, <1>l
<1>m. ASSUME NEW m \in Nat, m <= 3, NEW G PROVE Good(<<Call("malloc")>>, m, G)
  <2>1. "malloc" \in Functions /\ Bound("malloc") = 3 /\ CallGuard("malloc") = {}
    BY DEF Functions, Bound, CallGuard
  <2> QED BY <1>m, <2>1, CallGood
<1>5. CASE f = "cthread_alloc"
  <2>1. Bound(f) = 2 /\ CallGuard(f) = {}
    BY <1>5 DEF Bound, CallGuard
  <2>2. Good(Under(cthread_free_lock, <<>>), 2, {})
    BY <1>l
  <2>3. Good(<<Call("malloc")>>, 2, {})
    BY <1>m
  <2>4. \/ b = Under(cthread_free_lock, <<>>) \/ b = <<Call("malloc")>>
        \/ b = Append(Under(cthread_free_lock, <<>>), Call("malloc"))
    BY <1>5 DEF Body, cthread_alloc
  <2>5. Append(Under(cthread_free_lock, <<>>), Call("malloc")) = Under(cthread_free_lock, <<>>) \o <<Call("malloc")>>
    <3>1. Under(cthread_free_lock, <<>>) \in Seq(Steps) /\ <<Call("malloc")>> \in Seq(Steps)
      BY <2>2, <2>3 DEF Good
    <3> HIDE DEF Under
    <3> QED BY <3>1
  <2>6. Good(Under(cthread_free_lock, <<>>) \o <<Call("malloc")>>, 2, {})
    BY <2>2, <2>3, ConcatGood
  <2> QED BY Zenon, <2>1, <2>2, <2>3, <2>4, <2>5, <2>6
<1>6. CASE f = "cproc_alloc"
  <2>1. Bound(f) = 3 /\ CallGuard(f) = {}
    BY <1>6 DEF Bound, CallGuard
  <2>2. b = <<Call("malloc"), Rpc>> \o Under(cproc_lock, <<>>)
    BY <1>6 DEF Body, cproc_alloc
  <2>3. Good(<<Call("malloc")>>, 3, {}) /\ Good(<<Rpc>>, 3, {})
    BY <1>m, <1>p
  <2>4. <<Call("malloc"), Rpc>> = <<Call("malloc")>> \o <<Rpc>>
    OBVIOUS
  <2>5. Good(<<Call("malloc"), Rpc>>, 3, {})
    BY ZenonT(40), <2>3, <2>4, ConcatGood
  <2>6. Good(Under(cproc_lock, <<>>), 3, {})
    <3>1. 3 \in Nat /\ 3 <= NLISTS + 4
      OBVIOUS
    <3>2. cproc_lock \in Locks /\ Rank(cproc_lock) = NLISTS + 4 /\ Inside(cproc_lock, {}, {})
      BY Values DEF Inside
    <3> QED BY <3>1, <3>2, NothingUnder
  <2> QED BY <2>1, <2>2, <2>5, <2>6, ConcatGood
<1>7. CASE f = "alloc_stack"
  <2>1. Bound(f) = NLISTS + 5 /\ CallGuard(f) = {cthread_lock}
    BY <1>7 DEF Bound, CallGuard
  <2>2. b = <<Rpc>> \/ b = Append(Under(initial_stack_lock, <<>>), Rpc)
    BY <1>7 DEF Body, alloc_stack
  <2>3. Good(<<Rpc>>, NLISTS + 5, {cthread_lock})
    BY <1>p
  <2>4. Good(Under(initial_stack_lock, <<>>), NLISTS + 5, {cthread_lock})
    <3>1. NLISTS + 5 \in Nat /\ NLISTS + 5 <= NLISTS + 5
      OBVIOUS
    <3>2. /\ initial_stack_lock \in Locks /\ Rank(initial_stack_lock) = NLISTS + 5
          /\ Inside(initial_stack_lock, {cthread_lock}, {})
      BY Values DEF Inside
    <3> QED BY <3>1, <3>2, NothingUnder
  <2>5. Append(Under(initial_stack_lock, <<>>), Rpc) = Under(initial_stack_lock, <<>>) \o <<Rpc>>
    <3>1. Under(initial_stack_lock, <<>>) \in Seq(Steps) /\ <<Rpc>> \in Seq(Steps)
      BY <2>3, <2>4 DEF Good
    <3> QED BY <3>1
  <2>6. Good(Under(initial_stack_lock, <<>>) \o <<Rpc>>, NLISTS + 5, {cthread_lock})
    BY <2>3, <2>4, ConcatGood
  <2> QED BY Zenon, <2>1, <2>2, <2>3, <2>5, <2>6
<1>8. CASE f = "cproc_create"
  <2>1. Bound(f) = 3 /\ CallGuard(f) = {cthread_lock}
    BY <1>8 DEF Bound, CallGuard
  <2>2. b = <<Call("cproc_alloc"), Call("alloc_stack"), Rpc>>
    BY <1>8 DEF Body, cproc_create
  <2>3. Good(<<Call("cproc_alloc")>>, 3, {cthread_lock})
    <3>1. "cproc_alloc" \in Functions /\ Bound("cproc_alloc") = 3 /\ CallGuard("cproc_alloc") = {}
      BY DEF Functions, Bound, CallGuard
    <3> QED BY <3>1, CallGood
  <2>4. Good(<<Call("alloc_stack")>>, 3, {cthread_lock})
    <3>1. /\ "alloc_stack" \in Functions /\ Bound("alloc_stack") = NLISTS + 5
          /\ CallGuard("alloc_stack") = {cthread_lock}
      BY DEF Functions, Bound, CallGuard
    <3> QED BY <3>1, CallGood
  <2>5. Good(<<Rpc>>, 3, {cthread_lock})
    BY <1>p
  <2>6. Good(<<Call("cproc_alloc")>> \o <<Call("alloc_stack")>>, 3, {cthread_lock})
    BY <2>3, <2>4, ConcatGood
  <2>7. Good((<<Call("cproc_alloc")>> \o <<Call("alloc_stack")>>) \o <<Rpc>>, 3, {cthread_lock})
    BY <2>5, <2>6, ConcatGood
  <2>8. <<Call("cproc_alloc"), Call("alloc_stack"), Rpc>> = (<<Call("cproc_alloc")>> \o <<Call("alloc_stack")>>) \o <<Rpc>>
    OBVIOUS
  <2> QED BY Zenon, <2>1, <2>2, <2>7, <2>8
<1>9. CASE f = "cthread_fork"
  <2>1. Bound(f) = 1 /\ CallGuard(f) = {}
    BY <1>9 DEF Bound, CallGuard
  <2>2. \/ b = Under(cthread_lock, <<Call("cthread_alloc")>>)
        \/ b = Under(cthread_lock, <<Call("cthread_alloc"), Call("cproc_create")>>)
    BY <1>9 DEF Body, cthread_fork
  <2>3. Good(<<Call("cthread_alloc")>>, 2, {cthread_lock})
    <3>1. "cthread_alloc" \in Functions /\ Bound("cthread_alloc") = 2 /\ CallGuard("cthread_alloc") = {}
      BY DEF Functions, Bound, CallGuard
    <3> QED BY <3>1, CallGood
  <2>4. Good(<<Call("cproc_create")>>, 2, {cthread_lock})
    <3>1. /\ "cproc_create" \in Functions /\ Bound("cproc_create") = 3
          /\ CallGuard("cproc_create") = {cthread_lock}
      BY DEF Functions, Bound, CallGuard
    <3> QED BY <3>1, CallGood
  <2>5. <<Call("cthread_alloc"), Call("cproc_create")>> = <<Call("cthread_alloc")>> \o <<Call("cproc_create")>>
    OBVIOUS
  <2>6. Good(<<Call("cthread_alloc"), Call("cproc_create")>>, 2, {cthread_lock})
    <3>1. Good(<<Call("cthread_alloc")>> \o <<Call("cproc_create")>>, 2, {cthread_lock})
      BY <2>3, <2>4, ConcatGood
    <3> QED BY Zenon, <3>1, <2>5
  <2>7. ASSUME NEW c, Good(c, 2, {cthread_lock}) PROVE Good(Under(cthread_lock, c), 1, {})
    <3>1. cthread_lock \in Locks /\ Rank(cthread_lock) = 1 /\ Inside(cthread_lock, {}, {cthread_lock})
      BY Values DEF Inside
    <3>2. Good(c, Rank(cthread_lock) + 1, {cthread_lock}) /\ 1 \in Nat /\ 1 <= Rank(cthread_lock)
      BY <2>7, <3>1
    <3> QED BY <3>1, <3>2, UnderGood
  <2> QED BY <2>1, <2>2, <2>3, <2>6, <2>7
<1>10. CASE f = "cthread_join"
  <2>1. Bound(f) = 2 /\ CallGuard(f) = {}
    BY <1>10 DEF Bound, CallGuard
  <2>2. PICK q \in Cproc : b = Append(Under(record_lock(q), <<>>), Call("cthread_free"))
    BY <1>10 DEF Body, cthread_join
  <2>3. Good(Under(record_lock(q), <<>>), 2, {})
    <3>1. 2 \in Nat /\ 2 <= NLISTS + 6
      OBVIOUS
    <3>2. record_lock(q) \in Locks /\ Rank(record_lock(q)) = NLISTS + 6 /\ Inside(record_lock(q), {}, {})
      BY Values DEF Inside
    <3> QED BY <3>1, <3>2, NothingUnder
  <2>4. Good(<<Call("cthread_free")>>, 2, {})
    <3>1. "cthread_free" \in Functions /\ Bound("cthread_free") = 2 /\ CallGuard("cthread_free") = {}
      BY DEF Functions, Bound, CallGuard
    <3> QED BY <3>1, CallGood
  <2>5. Append(Under(record_lock(q), <<>>), Call("cthread_free")) = Under(record_lock(q), <<>>) \o <<Call("cthread_free")>>
    <3>1. Under(record_lock(q), <<>>) \in Seq(Steps) /\ <<Call("cthread_free")>> \in Seq(Steps)
      BY <2>3, <2>4 DEF Good
    <3> QED BY <3>1
  <2>6. Good(Under(record_lock(q), <<>>) \o <<Call("cthread_free")>>, 2, {})
    BY <2>3, <2>4, ConcatGood
  <2> QED BY Zenon, <2>1, <2>2, <2>5, <2>6
<1>11. CASE f = "cthread_body"
  <2>1. Bound(f) = 1 /\ CallGuard(f) = {}
    BY <1>11 DEF Bound, CallGuard
  <2>2. b = Under(cthread_lock, <<>>)
    BY <1>11 DEF Body, cthread_body
  <2>3. 1 \in Nat /\ 1 <= 1
    OBVIOUS
  <2>4. cthread_lock \in Locks /\ Rank(cthread_lock) = 1 /\ Inside(cthread_lock, {}, {})
    BY Values DEF Inside
  <2>5. Good(Under(cthread_lock, <<>>), 1, {})
    BY <2>3, <2>4, NothingUnder
  <2> QED BY <2>1, <2>2, <2>5
<1> QED BY <1>1, <1>2, <1>3, <1>4, <1>5, <1>6, <1>7, <1>8, <1>9, <1>10, <1>11 DEF Functions
-----------------------------------------------------------------------------
(* The locks that fork() takes, by rank.                                   *)
LEMMA ForkedRanks ==
  ASSUME ForkLocksAssumption
  PROVE  /\ ForkedLocks \subseteq Locks
         /\ \A l \in ForkedLocks : Rank(l) \in 1 .. NLISTS + 2 /\ Guard(l) = {}
         /\ \A l \in ForkedLocks : \/ l = cthread_lock /\ Rank(l) = 1
                                   \/ l = cthread_free_lock /\ Rank(l) = 2
                                   \/ Rank(l) - 2 \in Buckets /\ l = bucket_lock(Rank(l) - 2)
         /\ \A i \in 1 .. NLISTS + 2 : \E l \in ForkedLocks : Rank(l) = i
<1>1. ASSUME NEW l \in ForkedLocks
      PROVE  /\ l \in Locks /\ Rank(l) \in 1 .. NLISTS + 2 /\ Guard(l) = {}
             /\ \/ l = cthread_lock /\ Rank(l) = 1
                \/ l = cthread_free_lock /\ Rank(l) = 2
                \/ Rank(l) - 2 \in Buckets /\ l = bucket_lock(Rank(l) - 2)
  <2>1. CASE l = cthread_lock
    BY <2>1, Values DEF ForkLocksAssumption
  <2>2. CASE l = cthread_free_lock
    BY <2>2, Values DEF ForkLocksAssumption
  <2>3. ASSUME NEW b \in Buckets, l = bucket_lock(b)
        PROVE  /\ l \in Locks /\ Rank(l) \in 1 .. NLISTS + 2 /\ Guard(l) = {}
               /\ Rank(l) - 2 \in Buckets /\ l = bucket_lock(Rank(l) - 2)
    <3>1. l \in Locks /\ Rank(l) = 2 + b /\ Guard(l) = {} /\ b \in 1 .. NLISTS
      BY <2>3, Values DEF Buckets
    <3>2. Rank(l) - 2 = b /\ Rank(l) \in 1 .. NLISTS + 2
      BY <3>1 DEF ForkLocksAssumption
    <3> QED BY <3>1, <3>2, <2>3
  <2> QED BY <2>1, <2>2, <2>3 DEF ForkedLocks
<1>2. ASSUME NEW i \in 1 .. NLISTS + 2 PROVE \E l \in ForkedLocks : Rank(l) = i
  <2>1. CASE i = 1
    BY <2>1, Values DEF ForkedLocks
  <2>2. CASE i = 2
    BY <2>2, Values DEF ForkedLocks
  <2>3. CASE i > 2
    <3>1. i - 2 \in Buckets /\ 2 + (i - 2) = i
      BY <2>3 DEF Buckets, ForkLocksAssumption
    <3>2. bucket_lock(i - 2) \in ForkedLocks /\ Rank(bucket_lock(i - 2)) = 2 + (i - 2)
      BY <3>1, Values DEF ForkedLocks
    <3> QED BY <3>1, <3>2
  <2> QED BY <2>1, <2>2, <2>3 DEF ForkLocksAssumption
<1> QED BY <1>1, <1>2

(* fork() takes its locks in order before the system call.                 *)
LEMMA ForkSound ==
  ASSUME ForkLocksAssumption, NEW s \in fork, NEW ok \in BOOLEAN
  PROVE  Sound(s, ok) /\ \A l \in Locks : ~HeldAt(s, 1, l)
<1> DEFINE N == NLISTS
<1>n. N \in Nat \ {0}
  BY DEF ForkLocksAssumption
<1>1. /\ s \in Seq(Steps) /\ Len(s) = N + 3
      /\ s[1] = Acquire(cthread_lock) /\ s[2] = Acquire(cthread_free_lock)
      /\ \A b \in Buckets : s[2 + b] = Acquire(bucket_lock(b))
      /\ s[N + 3] = Call("unix_fork")
  <2> DEFINE c == <<Acquire(cthread_lock), Acquire(cthread_free_lock)>>
             u == <<Call("unix_fork")>>
  <2>1. s = (c \o BucketLocks) \o u
    BY DEF fork, cthread_fork_prepare, malloc_fork_prepare
  <2>2. /\ Acquire(cthread_lock) \in Steps /\ Acquire(cthread_free_lock) \in Steps
        /\ Call("unix_fork") \in Steps /\ \A b \in Buckets : Acquire(bucket_lock(b)) \in Steps
    BY Values DEF Steps, Functions
  <2>3. BucketLocks \in Seq(Steps) /\ Len(BucketLocks) = N
        /\ \A b \in Buckets : BucketLocks[b] = Acquire(bucket_lock(b))
    BY <2>2, <1>n DEF BucketLocks, Buckets
  <2>4. /\ c \in Seq(Steps) /\ Len(c) = 2 /\ c[1] = Acquire(cthread_lock) /\ c[2] = Acquire(cthread_free_lock)
        /\ u \in Seq(Steps) /\ Len(u) = 1 /\ u[1] = Call("unix_fork")
    BY <2>2
  <2> HIDE DEF c, u
  <2>5. /\ c \o BucketLocks \in Seq(Steps) /\ Len(c \o BucketLocks) = N + 2
        /\ (c \o BucketLocks)[1] = c[1] /\ (c \o BucketLocks)[2] = c[2]
        /\ \A b \in Buckets : (c \o BucketLocks)[2 + b] = BucketLocks[b]
    <3>1. /\ c \o BucketLocks \in Seq(Steps) /\ Len(c \o BucketLocks) = Len(c) + Len(BucketLocks)
          /\ \A j \in 1 .. Len(c) : (c \o BucketLocks)[j] = c[j]
          /\ \A j \in 1 .. Len(BucketLocks) : (c \o BucketLocks)[Len(c) + j] = BucketLocks[j]
      BY Zenon, <2>3, <2>4, ConcatPlaces
    <3>2. 1 \in 1 .. Len(c) /\ 2 \in 1 .. Len(c) /\ Len(c) + Len(BucketLocks) = N + 2
      BY <2>3, <2>4, <1>n
    <3>3. \A b \in Buckets : b \in 1 .. Len(BucketLocks)
      BY <2>3 DEF Buckets
    <3> QED BY <3>1, <3>2, <3>3, <2>4
  <2> DEFINE d == c \o BucketLocks
  <2> HIDE DEF d
  <2>6. /\ d \in Seq(Steps) /\ Len(d) = N + 2 /\ d[1] = c[1] /\ d[2] = c[2]
        /\ \A b \in Buckets : d[2 + b] = BucketLocks[b]
    BY Zenon, <2>5 DEF d
  <2>7. /\ d \o u \in Seq(Steps) /\ Len(d \o u) = Len(d) + Len(u)
        /\ \A j \in 1 .. Len(d) : (d \o u)[j] = d[j]
        /\ \A j \in 1 .. Len(u) : (d \o u)[Len(d) + j] = u[j]
    BY ZenonT(40), <2>4, <2>6, ConcatPlaces
  <2>8. /\ 1 \in 1 .. Len(d) /\ 2 \in 1 .. Len(d) /\ 1 \in 1 .. Len(u) /\ Len(d) + 1 = N + 3
        /\ \A b \in Buckets : 2 + b \in 1 .. Len(d)
    BY <2>4, <2>6, <1>n DEF Buckets
  <2>9. s = d \o u
    BY <2>1 DEF d
  <2>10. s[1] = c[1] /\ s[2] = c[2]
    BY <2>6, <2>7, <2>8, <2>9
  <2>12. s[N + 3] = u[1] /\ Len(s) = N + 3 /\ s \in Seq(Steps)
    BY <2>4, <2>7, <2>8, <2>9
  <2>11. ASSUME NEW b \in Buckets PROVE s[2 + b] = Acquire(bucket_lock(b))
    <3>1. s[2 + b] = d[2 + b]
      BY <2>7, <2>8, <2>9
    <3> QED BY <3>1, <2>3, <2>6
  <2> QED BY <2>4, <2>10, <2>11, <2>12
<1>2. \A l \in ForkedLocks : s[Rank(l)] = Acquire(l)
  <2> TAKE l \in ForkedLocks
  <2>1. CASE Rank(l) - 2 \in Buckets /\ l = bucket_lock(Rank(l) - 2)
    <3>1. 2 + (Rank(l) - 2) = Rank(l)
      BY ForkedRanks
    <3> QED BY <2>1, <3>1, <1>1
  <2> QED BY <2>1, <1>1, ForkedRanks
<1>3. \A i \in 1 .. N + 2 : \E l \in ForkedLocks : Rank(l) = i /\ s[i] = Acquire(l)
  BY <1>2, ForkedRanks
<1>4. \A j \in 1 .. N + 3 : \A l : Closes(s[j], l) <=> j = N + 3 /\ l \in ForkedLocks
  <2> TAKE j \in 1 .. N + 3
  <2>1. CASE j = N + 3
    BY <2>1, <1>1, ClosesForms
  <2>2. CASE j # N + 3
    <3>1. j \in 1 .. N + 2
      BY <2>2, <1>n
    <3> QED BY <3>1, <2>2, <1>3, ClosesForms
  <2> QED BY <2>1, <2>2
<1>5. \A i \in 1 .. N + 4 : \A l : HeldAt(s, i, l) <=> i <= N + 3 /\ l \in ForkedLocks /\ Rank(l) < i
  <2> TAKE i \in 1 .. N + 4
  <2> TAKE l
  <2>1. ASSUME HeldAt(s, i, l) PROVE i <= N + 3 /\ l \in ForkedLocks /\ Rank(l) < i
    <3>1. PICK j \in i .. Len(s) : Closes(s[j], l) /\ \A k \in i .. j - 1 : s[k] # Acquire(l)
      BY <2>1 DEF HeldAt
    <3>2. j = N + 3 /\ l \in ForkedLocks /\ i <= N + 3
      BY <3>1, <1>1, <1>4, <1>n
    <3>3. Rank(l) \in 1 .. N + 2 /\ s[Rank(l)] = Acquire(l)
      BY <3>2, <1>2, ForkedRanks
    <3> QED BY <3>1, <3>2, <3>3, <1>n
  <2>2. ASSUME i <= N + 3, l \in ForkedLocks, Rank(l) < i PROVE HeldAt(s, i, l)
    <3> DEFINE j == N + 3
    <3>1. j \in i .. Len(s) /\ Closes(s[j], l)
      BY <2>2, <1>1, <1>4, <1>n
    <3>2. ASSUME NEW k \in i .. j - 1 PROVE s[k] # Acquire(l)
      <4>1. k \in 1 .. N + 2 /\ Rank(l) \in Nat /\ k # Rank(l)
        BY <2>2, <1>n, ForkedRanks
      <4> QED BY <4>1, <1>3, ClosesForms
    <3> HIDE DEF j
    <3> QED BY <3>1, <3>2 DEF HeldAt
  <2> QED BY <2>1, <2>2
<1>6. ASSUME NEW i \in 1 .. N + 3 PROVE Nested(s, i, 0, {}, ok)
  <2>0. i \in 1 .. N + 4 /\ i + 1 \in 1 .. N + 4
    BY <1>n
  <2>g. \A l \in Locks : HeldAt(s, i, l) => Guarded(Guard(l), s, i, {})
    BY <2>0, <1>5, ForkedRanks DEF Guarded
  <2>1. CASE i = N + 3
    <3>1. \A l : s[i] # Acquire(l)
      BY <2>1, <1>1, ClosesForms
    <3>2. \A f \in Functions : s[i] = Call(f) => f = "unix_fork"
      BY <2>1, <1>1, ClosesForms
    <3>3. \A l : ~HeldAt(s, i + 1, l)
      BY <2>0, <2>1, <1>5, <1>n
    <3>4. CallGuard("unix_fork") = {} /\ 0 <= Bound("unix_fork")
      BY DEF CallGuard, Bound
    <3> QED BY SMTT(40), <2>g, <3>1, <3>2, <3>3, <3>4 DEF Nested, Guarded
  <2>2. CASE i # N + 3
    <3>0. i \in 1 .. N + 2
      BY <2>2, <1>n
    <3>1. PICK l \in ForkedLocks : Rank(l) = i /\ s[i] = Acquire(l)
      BY <3>0, <1>3
    <3>2. \A f : s[i] # Call(f)
      BY <3>1, ClosesForms
    <3>3. \A h : ~Closes(s[i], h)
      BY <3>1, ClosesForms
    <3>4. HeldAt(s, i + 1, l) /\ 0 <= Rank(l) /\ \A h : HeldAt(s, i, h) => Rank(h) < Rank(l)
      BY SMTT(40), <2>0, <3>0, <3>1, <1>5, <1>n
    <3>5. \A h : s[i] = Acquire(h) => h = l
      BY Zenon, <3>1, ClosesForms
    <3> QED BY SMTT(40), <2>g, <3>2, <3>3, <3>4, <3>5 DEF Nested
  <2> QED BY <2>1, <2>2
<1>7. \A i \in 1 .. Len(s) - 1 : s[i] \notin {Call("fork"), Call("unix_fork")}
  <2> TAKE i \in 1 .. Len(s) - 1
  <2>1. i \in 1 .. N + 2
    BY <1>1, <1>n
  <2> QED BY <2>1, <1>3, ClosesForms
<1>8. \A l : ~HeldAt(s, 1, l)
  BY <1>5, <1>n, ForkedRanks
<1> QED BY <1>1, <1>6, <1>7, <1>8 DEF Sound

(* After it the parent releases them in the opposite order.                *)
LEMMA ParentSound ==
  ASSUME ForkLocksAssumption, NEW ok \in BOOLEAN
  PROVE  /\ Sound(cthread_fork_parent, ok)
         /\ \A l : HeldAt(cthread_fork_parent, 1, l) <=> l \in ForkedLocks
         /\ \A i \in 1 .. Len(cthread_fork_parent) : \A f : cthread_fork_parent[i] # Call(f)
<1> DEFINE N == NLISTS
           s == cthread_fork_parent
<1>n. N \in Nat \ {0}
  BY DEF ForkLocksAssumption
<1>1. /\ s \in Seq(Steps) /\ Len(s) = N + 2
      /\ s[N + 2] = Release(cthread_lock) /\ s[N + 1] = Release(cthread_free_lock)
      /\ \A b \in Buckets : s[N + 1 - b] = Release(bucket_lock(b))
  <2> DEFINE c == <<Release(cthread_free_lock), Release(cthread_lock)>>
             d == malloc_fork_parent
  <2>1. s = d \o c
    BY DEF cthread_fork_parent
  <2>2. /\ Release(cthread_lock) \in Steps /\ Release(cthread_free_lock) \in Steps
        /\ \A b \in Buckets : Release(bucket_lock(b)) \in Steps
    BY Values DEF Steps
  <2>3. \A b \in Buckets : N + 1 - b \in Buckets /\ N + 1 - (N + 1 - b) = b
    BY <1>n DEF Buckets
  <2>4. d \in Seq(Steps) /\ Len(d) = N /\ \A b \in Buckets : d[b] = Release(bucket_lock(N + 1 - b))
    BY <2>2, <2>3, <1>n DEF malloc_fork_parent, Buckets
  <2>5. /\ c \in Seq(Steps) /\ Len(c) = 2 /\ c[2] = Release(cthread_lock) /\ c[1] = Release(cthread_free_lock)
    BY <2>2
  <2> HIDE DEF c, d, s
  <2>6. /\ s \in Seq(Steps) /\ Len(s) = N + 2 /\ s[N + 2] = c[2] /\ s[N + 1] = c[1]
        /\ \A b \in Buckets : s[b] = d[b]
    <3>1. /\ s \in Seq(Steps) /\ Len(s) = Len(d) + Len(c)
          /\ \A j \in 1 .. Len(d) : s[j] = d[j]
          /\ \A j \in 1 .. Len(c) : s[Len(d) + j] = c[j]
      BY ZenonT(40), <2>1, <2>4, <2>5, ConcatPlaces
    <3>2. 1 \in 1 .. Len(c) /\ 2 \in 1 .. Len(c) /\ \A b \in Buckets : b \in 1 .. Len(d)
      BY <2>4, <2>5 DEF Buckets
    <3>3. Len(d) + 1 = N + 1 /\ Len(d) + 2 = N + 2 /\ Len(d) + Len(c) = N + 2
      BY <2>4, <2>5, <1>n
    <3> QED BY <3>1, <3>2, <3>3
  <2>7. \A b \in Buckets : s[N + 1 - b] = Release(bucket_lock(b))
    BY <2>3, <2>4, <2>6
  <2> QED BY <2>5, <2>6, <2>7
<1> HIDE DEF s
<1>2. \A l \in ForkedLocks : s[N + 3 - Rank(l)] = Release(l) /\ N + 3 - Rank(l) \in 1 .. N + 2
  <2> TAKE l \in ForkedLocks
  <2>1. CASE Rank(l) - 2 \in Buckets /\ l = bucket_lock(Rank(l) - 2)
    <3>1. N + 1 - (Rank(l) - 2) = N + 3 - Rank(l) /\ N + 3 - Rank(l) \in 1 .. N + 2
      BY ForkedRanks, <1>n
    <3> QED BY <2>1, <3>1, <1>1
  <2>2. N + 3 - 1 = N + 2 /\ N + 3 - 2 = N + 1
    BY <1>n
  <2> QED BY SMTT(40), <2>1, <2>2, <1>1, <1>n, ForkedRanks
<1>3. \A i \in 1 .. N + 2 : \E l \in ForkedLocks : Rank(l) = N + 3 - i /\ s[i] = Release(l)
  <2> TAKE i \in 1 .. N + 2
  <2>1. N + 3 - i \in 1 .. N + 2 /\ N + 3 - (N + 3 - i) = i
    BY <1>n
  <2> QED BY <2>1, <1>2, ForkedRanks
<1>4. \A i \in 1 .. N + 3 : \A l : HeldAt(s, i, l) <=> l \in ForkedLocks /\ i <= N + 3 - Rank(l)
  <2> TAKE i \in 1 .. N + 3
  <2> TAKE l
  <2>1. ASSUME HeldAt(s, i, l) PROVE l \in ForkedLocks /\ i <= N + 3 - Rank(l)
    <3>1. PICK j \in i .. Len(s) : Closes(s[j], l)
      BY <2>1 DEF HeldAt
    <3>2. j \in 1 .. N + 2
      BY <3>1, <1>1, <1>n
    <3>3. l \in ForkedLocks /\ Rank(l) = N + 3 - j
      BY <3>1, <3>2, <1>3, ClosesForms
    <3> QED BY <3>1, <3>3, <1>1, <1>n
  <2>2. ASSUME l \in ForkedLocks, i <= N + 3 - Rank(l) PROVE HeldAt(s, i, l)
    <3> DEFINE j == N + 3 - Rank(l)
    <3>1. j \in i .. Len(s) /\ j \in 1 .. N + 2 /\ Closes(s[j], l)
      BY <2>2, <1>1, <1>2, ClosesForms
    <3> HIDE DEF j
    <3>2. \A k \in i .. j - 1 : k \in 1 .. N + 2
      BY <3>1, <1>n
    <3>3. \A k \in 1 .. N + 2 : s[k] # Acquire(l)
      BY <1>3, ClosesForms
    <3> QED BY <3>1, <3>2, <3>3 DEF HeldAt
  <2> QED BY <2>1, <2>2
<1>5. ASSUME NEW i \in 1 .. N + 2 PROVE Nested(s, i, 0, {}, ok)
  <2>0. i \in 1 .. N + 3 /\ i + 1 \in 1 .. N + 3
    BY <1>n
  <2>1. \A l \in Locks : HeldAt(s, i, l) => Guarded(Guard(l), s, i, {})
    BY <2>0, <1>4, ForkedRanks DEF Guarded
  <2>2. PICK l \in ForkedLocks : Rank(l) = N + 3 - i /\ s[i] = Release(l)
    BY <1>3
  <2>3. (\A f : s[i] # Call(f)) /\ (\A h : s[i] # Acquire(h)) /\ (\A h : Closes(s[i], h) => h = l)
    BY <2>2, ClosesForms
  <2>4. ~HeldAt(s, i + 1, l)
    BY SMTT(40), <2>0, <2>2, <1>4, <1>n
  <2> QED BY <2>1, <2>3, <2>4 DEF Nested
<1>6. \A i \in 1 .. Len(s) : \A f : s[i] # Call(f)
  BY <1>1, <1>3, ClosesForms
<1>7. \A i \in 1 .. Len(s) - 1 : s[i] \notin {Call("fork"), Call("unix_fork")}
  BY <1>1, <1>6, <1>n
<1>8. \A l : HeldAt(s, 1, l) <=> l \in ForkedLocks
  <2>1. \A l \in ForkedLocks : 1 <= N + 3 - Rank(l)
    BY <1>2
  <2>2. 1 \in 1 .. N + 3
    BY <1>n
  <2> QED BY <2>1, <2>2, <1>4
<1> QED BY <1>1, <1>5, <1>6, <1>7, <1>8 DEF Sound, s

(* The child releases them too, and then frees what was the others'.       *)
LEMMA ChildSound ==
  ASSUME ForkLocksAssumption, NEW ok \in BOOLEAN
  PROVE  /\ Sound(cthread_fork_child, ok)
         /\ \A l \in Locks : HeldAt(cthread_fork_child, 1, l) <=> l \in ForkedLocks
<1> DEFINE b == cthread_fork_parent
           r == <<Rpc, Call("free"), Call("mig_init")>>
           s == b \o r
<1>0. cthread_fork_child = s
  BY DEF cthread_fork_child
<1>1. Good(r, 0, {})
  <2>1. \A f \in {"mig_get_reply_port", "free", "mig_init"} :
          f \in Functions /\ 0 <= Bound(f) /\ CallGuard(f) = {}
    BY DEF Functions, Bound, CallGuard, ForkLocksAssumption
  <2>2. \A f \in {"mig_get_reply_port", "free", "mig_init"} : Good(<<Call(f)>>, 0, {})
    BY <2>1, CallGood
  <2>3. Good(<<Rpc>> \o <<Call("free")>>, 0, {})
    BY <2>2, ConcatGood DEF Rpc
  <2>4. Good((<<Rpc>> \o <<Call("free")>>) \o <<Call("mig_init")>>, 0, {})
    BY <2>2, <2>3, ConcatGood
  <2>5. r = (<<Rpc>> \o <<Call("free")>>) \o <<Call("mig_init")>>
    OBVIOUS
  <2> QED BY Zenon, <2>4, <2>5
<1>2. \A i \in 1 .. 3 : r[i] \notin {Call("fork"), Call("unix_fork")}
  BY ClosesForms DEF Rpc
<1>3. Len(r) = 3 /\ r \in Seq(Steps) /\ \A l \in Locks : ~HeldAt(r, 1, l)
  BY <1>1 DEF Good
<1>4. /\ b \in Seq(Steps) /\ \A i \in 1 .. Len(b) : Nested(b, i, 0, {}, ok)
      /\ \A l : HeldAt(b, 1, l) <=> l \in ForkedLocks
      /\ \A i \in 1 .. Len(b) : \A f : b[i] # Call(f)
  BY ParentSound DEF Sound
<1>5. Len(b) \in Nat \ {0}
  <2>1. HeldAt(b, 1, cthread_lock)
    BY <1>4 DEF ForkedLocks
  <2> QED BY <2>1, <1>4 DEF HeldAt
<1>6. \A i \in 1 .. Len(r) : Nested(r, i, 0, {}, FALSE)
  BY Zenon, <1>1 DEF Good
<1>7. /\ \A l \in Locks : \A i \in 1 .. Len(b) : HeldAt(s, i, l) <=> HeldAt(b, i, l)
      /\ \A l \in Locks : \A i \in Nat \ {0} : HeldAt(s, Len(b) + i, l) <=> HeldAt(r, i, l)
  BY ZenonT(40), <1>3, <1>4, HeldConcat
<1>8. /\ s \in Seq(Steps) /\ Len(s) = Len(b) + 3
      /\ \A j \in 1 .. Len(b) : s[j] = b[j]
      /\ \A j \in 1 .. 3 : s[Len(b) + j] = r[j]
  <2> HIDE DEF b, r
  <2>1. /\ b \o r \in Seq(Steps) /\ Len(b \o r) = Len(b) + Len(r)
        /\ \A j \in 1 .. Len(b) : (b \o r)[j] = b[j]
        /\ \A j \in 1 .. Len(r) : (b \o r)[Len(b) + j] = r[j]
    BY ZenonT(40), <1>3, <1>4, ConcatPlaces
  <2> QED BY <2>1, <1>3
<1>r. /\ \A l \in Locks : Guard(l) \subseteq Locks
      /\ \A f \in Functions : CallGuard(f) \subseteq Locks
  BY RankType
<1> HIDE DEF b, r, s
<1>9. ASSUME NEW i \in 1 .. Len(b) PROVE Nested(s, i, 0, {}, ok)
  <2>1. s[i] = b[i] /\ Nested(b, i, 0, {}, ok) /\ \A f : s[i] # Call(f)
    BY <1>4, <1>8
  <2>2. ASSUME NEW l \in Locks PROVE HeldAt(s, i + 1, l) <=> HeldAt(b, i + 1, l)
    <3>1. CASE i < Len(b)
      BY <3>1, <1>5, <1>7
    <3>2. CASE i = Len(b)
      <4>1. ~HeldAt(b, i + 1, l)
        BY <3>2, <1>5 DEF HeldAt
      <4>2. ~HeldAt(s, i + 1, l)
        BY <3>2, <1>3, <1>7
      <4> QED BY <4>1, <4>2
    <3> QED BY <3>1, <3>2, <1>5
  <2>3. ASSUME NEW X \in SUBSET Locks, Guarded(X, b, i, {}) PROVE Guarded(X, s, i, {})
    BY SMTT(40), <2>3, <1>7 DEF Guarded
  <2> QED BY SMTT(40), <2>1, <2>2, <2>3, <1>7, <1>r DEF Nested
<1>10. ASSUME NEW i \in 1 .. 3 PROVE Nested(s, Len(b) + i, 0, {}, ok)
  <2>1. s[Len(b) + i] = r[i] /\ Nested(r, i, 0, {}, FALSE)
    BY Zenon, <1>3, <1>6, <1>8
  <2>2. \A l \in Locks : /\ HeldAt(s, Len(b) + i, l) <=> HeldAt(r, i, l)
                         /\ HeldAt(s, Len(b) + i + 1, l) <=> HeldAt(r, i + 1, l)
    <3>1. i \in Nat \ {0} /\ i + 1 \in Nat \ {0} /\ Len(b) + i + 1 = Len(b) + (i + 1)
      BY <1>5
    <3> QED BY Zenon, <3>1, <1>7
  <2>3. ASSUME NEW X \in SUBSET Locks, Guarded(X, r, i, {}) PROVE Guarded(X, s, Len(b) + i, {})
    BY <2>2, <2>3 DEF Guarded
  <2>4. Inner(r, i, FALSE) => Inner(s, Len(b) + i, ok)
    <3> SUFFICES ASSUME Inner(r, i, FALSE) PROVE Inner(s, Len(b) + i, ok)
      OBVIOUS
    <3>1. i # 1 /\ i - 1 \in 1 .. 3 /\ Len(b) + i # 1 /\ Len(b) + i - 1 = Len(b) + (i - 1)
      BY <1>5 DEF Inner
    <3> QED BY <3>1, <2>1, <1>8 DEF Inner
  <2> QED BY Zenon, <2>1, <2>2, <2>3, <2>4, <1>r DEF Nested
<1>11. \A i \in 1 .. Len(s) : Nested(s, i, 0, {}, ok) /\ s[i] \notin {Call("fork"), Call("unix_fork")}
  <2> TAKE i \in 1 .. Len(s)
  <2>1. CASE i <= Len(b)
    BY SMTT(40), <2>1, <1>4, <1>5, <1>8, <1>9
  <2>2. CASE i > Len(b)
    <3>1. i - Len(b) \in 1 .. 3 /\ i = Len(b) + (i - Len(b))
      BY <2>2, <1>5, <1>8
    <3>2. PICK k \in 1 .. 3 : i = Len(b) + k
      BY <3>1
    <3> QED BY SMTT(40), <3>2, <1>2, <1>8, <1>10
  <2> QED BY <2>1, <2>2, <1>5, <1>8
<1>12. Sound(s, ok)
  <2>1. \A i \in 1 .. Len(s) - 1 : i \in 1 .. Len(s)
    BY <1>8, <1>5
  <2> QED BY <2>1, <1>8, <1>11 DEF Sound
<1>13. \A l \in Locks : HeldAt(s, 1, l) <=> l \in ForkedLocks
  BY SMTT(40), <1>4, <1>5, <1>7
<1> QED BY <1>0, <1>12, <1>13
-----------------------------------------------------------------------------
(* What is left after a step is sound, and holds what was held but for     *)
(* the lock that the step takes or releases.                               *)
LEMMA SoundTail ==
  ASSUME ForkLocksAssumption, NEW s, s # <<>>, NEW ok \in BOOLEAN, NEW ok2 \in BOOLEAN, Sound(s, ok),
         s[1] = SetPort("thread_reply") => ok2
  PROVE  /\ s[1] \in Steps /\ Head(s) = s[1] /\ Sound(Tail(s), ok2)
         /\ \A i \in 1 .. Len(Tail(s)) : Tail(s)[i] = s[i + 1]
         /\ \A l : HeldAt(s, 1, l) <=> Closes(s[1], l) \/ (s[1] # Acquire(l) /\ HeldAt(Tail(s), 1, l))
         /\ \A l : HeldAt(s, 2, l) <=> HeldAt(Tail(s), 1, l)
<1> DEFINE x == s[1]
           t == Tail(s)
<1>1. s \in Seq(Steps) /\ x \in Steps /\ t \in Seq(Steps) /\ s = <<x>> \o t /\ Head(s) = x
  <2>1. s \in Seq(Steps)
    BY SMTT(40) DEF Sound
  <2> QED BY <2>1
<1> HIDE DEF x, t
<1>2. /\ Len(s) = Len(t) + 1 /\ Len(t) \in Nat /\ s[1] = x
      /\ \A i \in 1 .. Len(t) : s[i + 1] = t[i]
      /\ \A l : \A i \in Nat \ {0} : HeldAt(s, i + 1, l) <=> HeldAt(t, i, l)
      /\ \A l : HeldAt(s, 1, l) <=> Closes(x, l) \/ (x # Acquire(l) /\ HeldAt(t, 1, l))
  <2>1. /\ Len(<<x>> \o t) = Len(t) + 1 /\ Len(t) \in Nat /\ (<<x>> \o t)[1] = x
        /\ \A i \in 1 .. Len(t) : (<<x>> \o t)[i + 1] = t[i]
    BY <1>1, HeldCons
  <2>2. ASSUME NEW l
        PROVE  /\ \A i \in Nat \ {0} : HeldAt(<<x>> \o t, i + 1, l) <=> HeldAt(t, i, l)
               /\ HeldAt(<<x>> \o t, 1, l) <=> Closes(x, l) \/ (x # Acquire(l) /\ HeldAt(t, 1, l))
    BY <1>1, HeldCons
  <2> QED BY ZenonT(40), <2>1, <2>2, <1>1
<1>r. /\ \A l \in Locks : Guard(l) \subseteq Locks
      /\ \A f \in Functions : CallGuard(f) \subseteq Locks
  BY RankType
<1>3. ASSUME NEW i \in 1 .. Len(t) PROVE Nested(t, i, 0, {}, ok2)
  <2>0. i \in Nat \ {0} /\ i + 1 \in Nat \ {0} /\ i + 1 \in 1 .. Len(s)
    BY <1>2
  <2>1. s[i + 1] = t[i] /\ Nested(s, i + 1, 0, {}, ok)
    BY <1>2, <2>0 DEF Sound
  <2>2. \A l : /\ HeldAt(s, i + 1, l) <=> HeldAt(t, i, l)
               /\ HeldAt(s, i + 1 + 1, l) <=> HeldAt(t, i + 1, l)
    BY <2>0, <1>2
  <2>3. ASSUME NEW X \in SUBSET Locks, Guarded(X, s, i + 1, {}) PROVE Guarded(X, t, i, {})
    BY <2>2, <2>3 DEF Guarded
  <2>4. Inner(s, i + 1, ok) => Inner(t, i, ok2)
    <3> SUFFICES ASSUME Inner(s, i + 1, ok) PROVE Inner(t, i, ok2)
      OBVIOUS
    <3>1. t[i] = Rpc /\ s[i] = SetPort("thread_reply")
      BY <2>0, <2>1 DEF Inner
    <3>2. CASE i = 1
      BY <3>1, <3>2, <1>2 DEF Inner
    <3>3. CASE i # 1
      <4>1. i - 1 \in 1 .. Len(t) /\ i - 1 + 1 = i
        BY <3>3, <1>2
      <4> QED BY <4>1, <3>1, <3>3, <1>2 DEF Inner
    <3> QED BY <3>2, <3>3
  <2> QED BY <2>1, <2>2, <2>3, <2>4, <1>r DEF Nested
<1>4. \A i \in 1 .. Len(t) - 1 : t[i] \notin {Call("fork"), Call("unix_fork")}
  <2> TAKE i \in 1 .. Len(t) - 1
  <2>1. i + 1 \in 1 .. Len(s) - 1 /\ i \in 1 .. Len(t)
    BY <1>2
  <2> QED BY <2>1, <1>2 DEF Sound
<1>5. \A l : HeldAt(s, 2, l) <=> HeldAt(t, 1, l)
  <2>1. \A l : HeldAt(s, 1 + 1, l) <=> HeldAt(t, 1, l)
    BY <1>2
  <2>2. 1 + 1 = 2
    OBVIOUS
  <2> QED BY <2>1, <2>2
<1> QED BY <1>1, <1>2, <1>3, <1>4, <1>5 DEF Sound, x, t

(* A call is replaced by a body of the function, which holds nothing yet.  *)
LEMMA ExpandSound ==
  ASSUME ForkLocksAssumption, NEW p \in Cproc, NEW f \in Functions, f \notin {"unix_fork", "mig_init"},
         NEW s, s # <<>>, s[1] = Call(f), Sound(s, reply_port[p] # "null"), NEW b \in Body(f, p)
  PROVE  /\ Sound(b \o Tail(s), reply_port[p] # "null")
         /\ \A l \in Locks : HeldAt(b \o Tail(s), 1, l) <=> HeldAt(s, 1, l)
<1> DEFINE ok == reply_port[p] # "null"
           r == Tail(s)
<1>0. ok \in BOOLEAN /\ Sound(s, ok)
  BY SMTT(40)
<1> HIDE DEF ok
<1>c. s[1] # SetPort("thread_reply") /\ (\A l : s[1] # Acquire(l)) /\ (\A l : ~Closes(s[1], l))
  BY SMTT(40), ClosesForms DEF Call, SetPort
<1>1. /\ Sound(r, FALSE)
      /\ \A i \in 1 .. Len(r) : r[i] = s[i + 1]
      /\ \A l : HeldAt(s, 1, l) <=> HeldAt(r, 1, l)
  BY Zenon, <1>0, <1>c, SoundTail
<1>2. s \in Seq(Steps) /\ Len(s) \in Nat \ {0} /\ Len(r) = Len(s) - 1 /\ r \in Seq(Steps)
  BY <1>0 DEF Sound
<1>3. /\ Guarded(CallGuard(f), s, 1, {})
      /\ Inner(s, 1, ok) \/ \A h \in Locks : HeldAt(s, 1, h) => Rank(h) < Bound(f)
  <2>1. Nested(s, 1, 0, {}, ok)
    BY <1>0, <1>2 DEF Sound
  <2> QED BY <2>1 DEF Nested
<1> HIDE DEF r
<1>4. CASE f = "fork"
  <2>1. r = <<>>
    <3>1. Len(s) = 1
      BY <1>0, <1>2, <1>4 DEF Sound
    <3> QED BY <3>1, <1>2
  <2>2. b \in fork
    BY <1>4 DEF Body
  <2>3. Sound(b, ok) /\ \A l \in Locks : ~HeldAt(b, 1, l)
    BY <1>0, <2>2, ForkSound
  <2>4. b \o r = b
    BY <2>1, <2>3 DEF Sound
  <2>5. \A l : ~HeldAt(r, 1, l)
    BY SMTT(40), <2>1 DEF HeldAt
  <2> QED BY Zenon, <2>3, <2>4, <2>5, <1>1 DEF ok, r
<1>5. CASE f # "fork"
  <2>1. PICK m \in Nat : Good(b, m, CallGuard(f)) /\ m > 0 /\ \A h \in Locks : HeldAt(r, 1, h) => Rank(h) < m
    <3>1. Good(b, Bound(f), CallGuard(f))
      BY <1>5, BodyGood
    <3>2. Bound(f) \in Nat /\ Bound(f) > 0
      BY <1>5 DEF Bound, Functions, ForkLocksAssumption
    <3>3. CASE \A h \in Locks : HeldAt(s, 1, h) => Rank(h) < Bound(f)
      BY <3>1, <3>2, <3>3, <1>1
    <3>4. CASE Inner(s, 1, ok)
      <4>1. ok /\ f = "mig_get_reply_port"
        BY ZenonT(40), <3>4, ClosesForms DEF Inner, Rpc
      <4>2. b = <<>>
        BY <4>1 DEF Body, mig_get_reply_port, ok
      <4>3. NLISTS + 8 \in Nat /\ NLISTS + 8 > 0 /\ \A h \in Locks : Rank(h) < NLISTS + 8
        BY RankType DEF ForkLocksAssumption
      <4>4. Good(b, NLISTS + 8, CallGuard(f))
        BY <4>2, NothingGood
      <4> QED BY SMTT(40), <4>3, <4>4
    <3> QED BY <1>3, <3>3, <3>4
  <2>2. \A i \in 1 .. Len(r) : Nested(r, i, 0, {}, FALSE)
    BY Zenon, <1>1 DEF Sound
  <2>3. CallGuard(f) = {} \/ (CallGuard(f) \subseteq Locks /\ \E g \in CallGuard(f) : HeldAt(r, 1, g))
    BY <1>1, <1>3, RankType DEF Guarded
  <2>4. /\ b \o r \in Seq(Steps)
        /\ \A i \in 1 .. Len(b \o r) : Nested(b \o r, i, 0, {}, ok)
        /\ \A l \in Locks : HeldAt(b \o r, 1, l) <=> HeldAt(r, 1, l)
    <3>1. 0 \in Nat /\ 0 <= m
      OBVIOUS
    <3>2. Ordered(r, 0, {}, FALSE) /\ Below(r, m) /\ Around(r, CallGuard(f), {})
      BY Zenon, <2>1, <2>2, <2>3, <1>2 DEF Ordered, Below, Around
    <3>3. Ordered(b \o r, 0, {}, ok) /\ \A l \in Locks : HeldAt(b \o r, 1, l) <=> HeldAt(r, 1, l)
      BY Zenon, <3>1, <3>2, <2>1, <1>0, ConcatNested
    <3> QED BY <3>3 DEF Ordered
  <2>5. \A i \in 1 .. Len(b) : b[i] \notin {Call("fork"), Call("unix_fork")}
    <3> SUFFICES ASSUME NEW i \in 1 .. Len(b), NEW g \in {"fork", "unix_fork"}, b[i] = Call(g) PROVE FALSE
      OBVIOUS
    <3>1. Nested(b, i, m, CallGuard(f), FALSE) /\ g \in Functions /\ Bound(g) = 0
      BY Zenon, <2>1 DEF Good, Functions, Bound
    <3>2. ~Inner(b, i, FALSE)
      BY ClosesForms DEF Inner, Rpc
    <3>3. m <= Bound(g)
      BY Zenon, <3>1, <3>2 DEF Nested
    <3> QED BY <3>1, <3>3, <2>1
  <2>6. \A i \in 1 .. Len(b \o r) - 1 : (b \o r)[i] \notin {Call("fork"), Call("unix_fork")}
    <3> TAKE i \in 1 .. Len(b \o r) - 1
    <3>1. /\ Len(b \o r) = Len(b) + Len(r) /\ Len(b) \in Nat /\ Len(r) \in Nat
          /\ \A j \in 1 .. Len(b) : (b \o r)[j] = b[j]
          /\ \A j \in 1 .. Len(r) : (b \o r)[Len(b) + j] = r[j]
      <4>1. b \in Seq(Steps)
        BY <2>1 DEF Good
      <4> QED BY Zenon, <4>1, <1>2, ConcatPlaces
    <3>2. CASE i <= Len(b)
      BY <3>1, <3>2, <2>5
    <3>3. CASE i > Len(b)
      <4>1. i - Len(b) \in 1 .. Len(r) - 1 /\ i - Len(b) \in 1 .. Len(r) /\ i = Len(b) + (i - Len(b))
        BY <3>1, <3>3
      <4> QED BY <4>1, <3>1, <1>1 DEF Sound
    <3> QED BY <3>1, <3>2, <3>3
  <2> QED BY SMTT(40), <2>4, <2>6, <1>1 DEF Sound, ok, r
<1> QED BY <1>4, <1>5
-----------------------------------------------------------------------------
TypeOK ==
  /\ owner \in [Locks -> Cproc \cup {Free}]
  /\ todo \in [Cproc -> Seq(Steps)]
  /\ reply_port \in [Cproc -> {"null", "thread_reply", "own"}]
  /\ multithreaded \in BOOLEAN
  /\ child \in Cproc \cup {Free}

(* What p has still to do is sound, and tells which locks are its own.     *)
Accounted(p) ==
  /\ Sound(todo[p], reply_port[p] # "null")
  /\ \A l \in Locks : owner[l] = p <=> HeldAt(todo[p], 1, l)

(* The inductive invariant.                                                *)
LockInv ==
  /\ TypeOK
  /\ \A p \in Cproc : Alive(p) => Accounted(p)
  /\ ChildOwnsCoveredLocks

(* The invariant is about the places of a lock, of which none is taken at  *)
(* first.                                                                  *)
LEMMA LockInvInit == ForkLocksAssumption /\ Init => LockInv
<1> SUFFICES ASSUME ForkLocksAssumption, Init PROVE LockInv
  OBVIOUS
<1>1. TypeOK
  <2>1. <<>> \in Seq(Steps)
    OBVIOUS
  <2> QED BY <2>1 DEF Init, TypeOK
<1>2. ASSUME NEW p \in Cproc PROVE Accounted(p)
  <2>1. todo[p] = <<>>
    BY DEF Init
  <2>2. Sound(<<>>, reply_port[p] # "null")
    BY DEF Sound
  <2>3. \A l : ~HeldAt(<<>>, 1, l)
    BY DEF HeldAt
  <2>4. \A l \in Locks : owner[l] # p
    BY DEF Init, ForkLocksAssumption
  <2> QED BY <2>1, <2>2, <2>3, <2>4 DEF Accounted
<1>3. ChildOwnsCoveredLocks
  BY DEF Init, ChildOwnsCoveredLocks
<1> QED BY <1>1, <1>2, <1>3 DEF LockInv

(* The step of one cproc leaves the account of the others alone: it takes  *)
(* a free lock or releases one of its own.                                 *)
LEMMA OthersAccounted ==
  ASSUME ForkLocksAssumption, LockInv, NEW p \in Cproc, Alive(p), child' = child,
         NEW l \in Locks, NEW w \in {p, Free}, owner[l] \in {p, Free},
         owner' \in {owner, [owner EXCEPT ![l] = w]},
         NEW s, todo' = [todo EXCEPT ![p] = s],
         NEW x, reply_port' = [reply_port EXCEPT ![p] = x]
  PROVE  /\ \A q \in Cproc \ {p} : Alive(q)' => Accounted(q)'
         /\ ChildOwnsCoveredLocks'
         /\ owner' \in [Locks -> Cproc \cup {Free}]
<1>1. ASSUME NEW q \in Cproc \ {p}, Alive(q)' PROVE Accounted(q)'
  <2>1. Accounted(q) /\ todo'[q] = todo[q] /\ reply_port'[q] = reply_port[q]
    BY <1>1 DEF LockInv, TypeOK, Alive
  <2>2. \A h \in Locks : owner'[h] = q <=> owner[h] = q
    BY DEF LockInv, TypeOK, ForkLocksAssumption
  <2> QED BY SMTT(40), <2>1, <2>2 DEF Accounted
<1>2. ChildOwnsCoveredLocks'
  BY DEF LockInv, TypeOK, ChildOwnsCoveredLocks, Alive, Locks
<1>3. owner' \in [Locks -> Cproc \cup {Free}]
  BY DEF LockInv, TypeOK
<1> QED BY SMTT(40), <1>1, <1>2, <1>3

(* Every step keeps the invariant.                                         *)
LEMMA LockInvNext == ForkLocksAssumption /\ LockInv /\ [Next]_vars => LockInv'
<1> SUFFICES ASSUME ForkLocksAssumption, LockInv, [Next]_vars PROVE LockInv'
  OBVIOUS
<1>t. /\ owner \in [Locks -> Cproc \cup {Free}]
      /\ todo \in [Cproc -> Seq(Steps)]
      /\ reply_port \in [Cproc -> {"null", "thread_reply", "own"}]
      /\ multithreaded \in BOOLEAN
      /\ child \in Cproc \cup {Free}
  BY DEF LockInv, TypeOK
<1>f. \A p \in Cproc : p # Free
  BY DEF ForkLocksAssumption
<1>k. cthread_lock \in Locks
  BY Values
(* A step that changes no lock. *)
<1>a. ASSUME NEW p \in Cproc, Alive(p), child' = child, owner' = owner, multithreaded' \in BOOLEAN,
             NEW s, todo' = [todo EXCEPT ![p] = s],
             NEW x \in {"null", "thread_reply", "own"}, reply_port' = [reply_port EXCEPT ![p] = x],
             Sound(s, x # "null"), \A l \in Locks : HeldAt(s, 1, l) <=> HeldAt(todo[p], 1, l)
      PROVE  LockInv'
  <2>1. Accounted(p) /\ todo'[p] = s /\ reply_port'[p] = x
    BY SMTT(40), <1>a, <1>t DEF LockInv
  <2>2. Accounted(p)'
    BY SMTT(40), <2>1, <1>a DEF Accounted
  <2>3. ASSUME NEW q \in Cproc \ {p}, Alive(q)' PROVE Accounted(q)'
    <3>1. Accounted(q) /\ todo'[q] = todo[q] /\ reply_port'[q] = reply_port[q]
      BY SMTT(40), <2>3, <1>a, <1>t DEF LockInv, Alive
    <3> QED BY SMTT(40), <3>1, <1>a DEF Accounted
  <2>4. ChildOwnsCoveredLocks'
    BY <1>a DEF LockInv, ChildOwnsCoveredLocks
  <2>5. TypeOK'
    <3>1. s \in Seq(Steps)
      BY SMTT(40), <1>a DEF Sound
    <3> QED BY <3>1, <1>a, <1>t DEF TypeOK
  <2> QED BY <2>2, <2>3, <2>4, <2>5 DEF LockInv
<1>b. ASSUME NEW p \in Cproc, Alive(p), todo[p] # <<>>
      PROVE  /\ Accounted(p) /\ Sound(todo[p], reply_port[p] # "null")
             /\ Head(todo[p]) = todo[p][1] /\ todo[p][1] \in Steps
             /\ Len(todo[p]) \in Nat \ {0} /\ Nested(todo[p], 1, 0, {}, reply_port[p] # "null")
  <2>1. Accounted(p) /\ todo[p] \in Seq(Steps)
    BY SMTT(40), <1>b, <1>t DEF LockInv
  <2>2. Head(todo[p]) = todo[p][1] /\ todo[p][1] \in Steps /\ Len(todo[p]) \in Nat \ {0}
    BY SMTT(40), <1>b, <2>1
  <2> QED BY <2>1, <2>2 DEF Accounted, Sound
<1>1. ASSUME NEW p \in Cproc, Enter(p) PROVE LockInv'
  <2>1. PICK f \in Entry : todo' = [todo EXCEPT ![p] = <<Call(f)>>]
    BY Zenon, <1>1 DEF Enter
  <2>2. f \in Functions /\ f # "unix_fork" /\ 0 <= Bound(f) /\ CallGuard(f) = {}
    BY DEF Entry, Functions, Bound, CallGuard, ForkLocksAssumption
  <2>3. Good(<<Call(f)>>, 0, {})
    BY <2>2, CallGood
  <2>5. \A i \in 1 .. 1 : Nested(<<Call(f)>>, i, 0, {}, reply_port[p] # "null")
    <3>1. 1 \in 1 .. Len(<<Call(f)>>) /\ \A i \in 1 .. 1 : i = 1
      OBVIOUS
    <3>2. Nested(<<Call(f)>>, 1, 0, {}, FALSE)
      BY Zenon, <2>3, <3>1 DEF Good
    <3>3. Nested(<<Call(f)>>, 1, 0, {}, reply_port[p] # "null")
      BY <3>2 DEF Nested, Inner
    <3> QED BY <3>1, <3>3
  <2>6. Sound(<<Call(f)>>, reply_port[p] # "null")
    BY <2>3, <2>5 DEF Sound, Good
  <2>7. \A l \in Locks : ~HeldAt(<<Call(f)>>, 1, l)
    BY <2>3 DEF Good
  <2>8. \A l \in Locks : ~HeldAt(todo[p], 1, l)
    BY <1>1 DEF Enter, HeldAt
  <2>9. reply_port' = [reply_port EXCEPT ![p] = reply_port[p]] /\ reply_port[p] \in {"null", "thread_reply", "own"}
    BY <1>1, <1>t DEF Enter
  <2>10. Alive(p) /\ child' = child /\ owner' = owner /\ multithreaded' \in BOOLEAN
    BY SMTT(40), <1>1, <1>t DEF Enter
  <2> QED BY Zenon, <2>1, <2>6, <2>7, <2>8, <2>9, <2>10, <1>a
<1>2. ASSUME NEW p \in Cproc, Expand(p) PROVE LockInv'
  <2> DEFINE s == todo[p]
             f == s[1][2]
  <2>1. Alive(p) /\ s # <<>> /\ Head(s)[1] = "call"
    BY SMTT(40), <1>2 DEF Expand, At
  <2>2. /\ Sound(s, reply_port[p] # "null") /\ Head(s) = s[1] /\ s[1] \in Steps
    BY <2>1, <1>b
  <2>3. f \in Functions /\ s[1] = Call(f) /\ f \notin {"unix_fork", "mig_init"}
    BY SMTT(40), <2>1, <2>2, <1>2, StepForms DEF Expand
  <2>4. PICK b \in Body(f, p) : todo' = [todo EXCEPT ![p] = b \o Tail(s)]
    BY ZenonT(40), <1>2, <2>2 DEF Expand, Rest
  <2>5. /\ Sound(b \o Tail(s), reply_port[p] # "null")
        /\ \A l \in Locks : HeldAt(b \o Tail(s), 1, l) <=> HeldAt(s, 1, l)
    BY ZenonT(40), <2>1, <2>2, <2>3, ExpandSound
  <2>6. reply_port' = [reply_port EXCEPT ![p] = reply_port[p]] /\ reply_port[p] \in {"null", "thread_reply", "own"}
    BY SMTT(40), <1>2, <1>t DEF Expand
  <2>7. child' = child /\ owner' = owner /\ multithreaded' \in BOOLEAN
    BY <1>2, <1>t DEF Expand
  <2> HIDE DEF f
  <2> QED BY ZenonT(40), <2>1, <2>4, <2>5, <2>6, <2>7, <1>a
<1>3. ASSUME NEW p \in Cproc, Lock(p) PROVE LockInv'
  <2> DEFINE s == todo[p]
             l == s[1][2]
  <2>1. Alive(p) /\ s # <<>> /\ Head(s)[1] = "acquire"
    BY ZenonT(40), <1>3 DEF Lock, At
  <2>2. /\ Accounted(p) /\ Sound(s, reply_port[p] # "null") /\ Head(s) = s[1] /\ s[1] \in Steps
        /\ Nested(s, 1, 0, {}, reply_port[p] # "null")
    BY SMTT(40), <2>1, <1>b
  <2>3. l \in Locks /\ s[1] = Acquire(l)
    BY ZenonT(40), <2>1, <2>2, StepForms
  <2>4. /\ owner[l] = Free /\ owner' = [owner EXCEPT ![l] = p] /\ todo' = [todo EXCEPT ![p] = Tail(s)]
        /\ child' = child /\ multithreaded' = multithreaded
        /\ reply_port' = [reply_port EXCEPT ![p] = reply_port[p]] /\ reply_port' = reply_port
    BY SMTT(40), <1>3, <1>t, <2>2 DEF Lock, Rest
  <2> HIDE DEF l
  <2>5. /\ Sound(Tail(s), reply_port[p] # "null")
        /\ \A h : HeldAt(s, 1, h) <=> Closes(s[1], h) \/ (s[1] # Acquire(h) /\ HeldAt(Tail(s), 1, h))
        /\ \A h : HeldAt(s, 2, h) <=> HeldAt(Tail(s), 1, h)
    <3>1. s[1] # SetPort("thread_reply")
      BY <2>3 DEF Acquire, SetPort
    <3> QED BY ZenonT(40), <3>1, <2>1, <2>2, SoundTail
  <2>6. HeldAt(Tail(s), 1, l)
    <3>1. HeldAt(s, 1 + 1, l)
      BY ZenonT(40), <2>2, <2>3 DEF Nested
    <3> QED BY <3>1, <2>5
  <2>7. Accounted(p)'
    <3>1. todo'[p] = Tail(s) /\ reply_port'[p] = reply_port[p]
      BY <2>4, <1>t
    <3>2. \A h \in Locks : owner'[h] = p <=> HeldAt(Tail(s), 1, h)
      <4> TAKE h \in Locks
      <4>1. CASE h = l
        BY ZenonT(40), <4>1, <2>4, <2>6, <1>t
      <4>2. CASE h # l
        <5>1. owner'[h] = owner[h] /\ (owner[h] = p <=> HeldAt(s, 1, h))
          BY SMTT(40), <4>2, <2>2, <2>4, <1>t DEF Accounted
        <5> QED BY SMTT(40), <5>1, <4>2, <2>3, <2>5, ClosesForms
      <4> QED BY <4>1, <4>2
    <3> QED BY ZenonT(40), <3>1, <3>2, <2>5 DEF Accounted
  <2>8. /\ \A q \in Cproc \ {p} : Alive(q)' => Accounted(q)'
        /\ ChildOwnsCoveredLocks' /\ owner' \in [Locks -> Cproc \cup {Free}]
    BY ZenonT(40), <2>1, <2>3, <2>4, OthersAccounted
  <2>9. TypeOK'
    BY <2>4, <2>5, <2>8, <1>t DEF TypeOK, Sound
  <2> QED BY SMTT(40), <2>7, <2>8, <2>9 DEF LockInv
<1>4. ASSUME NEW p \in Cproc, Unlock(p) PROVE LockInv'
  <2> DEFINE s == todo[p]
             l == s[1][2]
  <2>1. Alive(p) /\ s # <<>> /\ Head(s)[1] = "release"
    BY SMTT(40), <1>4 DEF Unlock, At
  <2>2. /\ Accounted(p) /\ Sound(s, reply_port[p] # "null") /\ Head(s) = s[1] /\ s[1] \in Steps
        /\ Nested(s, 1, 0, {}, reply_port[p] # "null")
    BY SMTT(40), <2>1, <1>b
  <2>3. l \in Locks /\ s[1] = Release(l)
    BY ZenonT(40), <2>1, <2>2, StepForms
  <2>4. /\ owner' = [owner EXCEPT ![l] = Free] /\ todo' = [todo EXCEPT ![p] = Tail(s)]
        /\ child' = child /\ multithreaded' = multithreaded
        /\ reply_port' = [reply_port EXCEPT ![p] = reply_port[p]] /\ reply_port' = reply_port
    BY SMTT(40), <1>4, <1>t, <2>2 DEF Unlock, Rest
  <2> HIDE DEF l
  <2>5. /\ Sound(Tail(s), reply_port[p] # "null")
        /\ \A h : HeldAt(s, 1, h) <=> Closes(s[1], h) \/ (s[1] # Acquire(h) /\ HeldAt(Tail(s), 1, h))
        /\ \A h : HeldAt(s, 2, h) <=> HeldAt(Tail(s), 1, h)
    <3>1. s[1] # SetPort("thread_reply")
      BY SMTT(40), <2>3 DEF Release, SetPort
    <3> QED BY ZenonT(40), <3>1, <2>1, <2>2, SoundTail
  <2>6. ~HeldAt(Tail(s), 1, l) /\ owner[l] = p
    <3>1. ~HeldAt(s, 1 + 1, l)
      <4>1. Closes(s[1], l)
        BY <2>3, ClosesForms
      <4>2. \A h \in Locks : Closes(s[1], h) => ~HeldAt(s, 1 + 1, h)
        BY Zenon, <2>2, ReleasedOnce
      <4> QED BY <4>1, <4>2, <2>3
    <3>2. HeldAt(s, 1, l)
      BY SMTT(40), <2>3, <2>5, ClosesForms
    <3>3. 1 + 1 = 2
      OBVIOUS
    <3>4. ~HeldAt(s, 2, l)
      BY SMTT(40), <3>1, <3>3
    <3>5. ~HeldAt(Tail(s), 1, l)
      BY SMTT(40), <3>4, <2>5
    <3>6. owner[l] = p <=> HeldAt(s, 1, l)
      BY ZenonT(40), <2>2, <2>3 DEF Accounted
    <3> QED BY <3>2, <3>5, <3>6
  <2>7. Accounted(p)'
    <3>1. todo'[p] = Tail(s) /\ reply_port'[p] = reply_port[p]
      BY <2>4, <1>t
    <3>2. \A h \in Locks : owner'[h] = p <=> HeldAt(Tail(s), 1, h)
      <4> TAKE h \in Locks
      <4>1. CASE h = l
        BY ZenonT(40), <4>1, <2>4, <2>6, <1>t, <1>f
      <4>2. CASE h # l
        <5>1. owner'[h] = owner[h] /\ (owner[h] = p <=> HeldAt(s, 1, h))
          BY SMTT(40), <4>2, <2>2, <2>4, <1>t DEF Accounted
        <5> QED BY SMTT(40), <5>1, <4>2, <2>3, <2>5, ClosesForms
      <4> QED BY <4>1, <4>2
    <3> QED BY <3>1, <3>2, <2>5 DEF Accounted
  <2>8. /\ \A q \in Cproc \ {p} : Alive(q)' => Accounted(q)'
        /\ ChildOwnsCoveredLocks' /\ owner' \in [Locks -> Cproc \cup {Free}]
    BY ZenonT(40), <2>1, <2>3, <2>4, <2>6, OthersAccounted
  <2>9. TypeOK'
    BY <2>4, <2>5, <2>8, <1>t DEF TypeOK, Sound
  <2> QED BY <2>7, <2>8, <2>9 DEF LockInv
<1>5. ASSUME NEW p \in Cproc, SetReplyPort(p) PROVE LockInv'
  <2> DEFINE s == todo[p]
             x == s[1][2]
  <2>1. Alive(p) /\ s # <<>> /\ Head(s)[1] = "set_port"
    BY ZenonT(40), <1>5 DEF SetReplyPort, At
  <2>2. /\ Sound(s, reply_port[p] # "null") /\ Head(s) = s[1] /\ s[1] \in Steps
    BY <2>1, <1>b
  <2>3. x \in {"null", "thread_reply", "own"} /\ s[1] = SetPort(x)
    BY SMTT(40), <2>1, <2>2, StepForms
  <2>4. /\ owner' = owner /\ todo' = [todo EXCEPT ![p] = Tail(s)]
        /\ child' = child /\ multithreaded' \in BOOLEAN
        /\ reply_port' = [reply_port EXCEPT ![p] = x]
    BY SMTT(40), <1>5, <1>t, <2>2 DEF SetReplyPort, Rest
  <2> HIDE DEF x
  <2>5. /\ Sound(Tail(s), x # "null")
        /\ \A h : HeldAt(s, 1, h) <=> Closes(s[1], h) \/ (s[1] # Acquire(h) /\ HeldAt(Tail(s), 1, h))
    <3>1. s[1] = SetPort("thread_reply") => x # "null"
      BY <2>3 DEF SetPort
    <3> QED BY ZenonT(40), <3>1, <2>1, <2>2, SoundTail
  <2>6. \A h : HeldAt(s, 1, h) <=> HeldAt(Tail(s), 1, h)
    <3>1. \A h : ~Closes(s[1], h) /\ s[1] # Acquire(h)
      BY SMTT(40), <2>3, ClosesForms
    <3> QED BY SMTT(40), <3>1, <2>5
  <2> QED BY ZenonT(40), <2>1, <2>3, <2>4, <2>5, <2>6, <1>a
<1>6. ASSUME NEW p \in Cproc, mig_init(p) PROVE LockInv'
  <2> DEFINE s == todo[p]
  <2>1. Alive(p) /\ s # <<>> /\ Head(s)[1] = "call" /\ Head(s)[2] = "mig_init"
    BY <1>6 DEF mig_init, At
  <2>2. /\ Sound(s, reply_port[p] # "null") /\ Head(s) = s[1] /\ s[1] \in Steps
    BY <2>1, <1>b
  <2>3. s[1] = Call("mig_init")
    BY <2>1, <2>2, StepForms
  <2>4. /\ owner' = owner /\ todo' = [todo EXCEPT ![p] = Tail(s)]
        /\ child' = child /\ multithreaded' \in BOOLEAN
        /\ reply_port' = [reply_port EXCEPT ![p] = reply_port[p]]
        /\ reply_port[p] \in {"null", "thread_reply", "own"}
    BY SMTT(40), <1>6, <1>t DEF mig_init, Rest
  <2>5. /\ Sound(Tail(s), reply_port[p] # "null")
        /\ \A h : HeldAt(s, 1, h) <=> Closes(s[1], h) \/ (s[1] # Acquire(h) /\ HeldAt(Tail(s), 1, h))
    <3>1. s[1] # SetPort("thread_reply")
      BY <2>3 DEF SetPort, Call
    <3> QED BY ZenonT(40), <3>1, <2>1, <2>2, SoundTail
  <2>6. \A h : HeldAt(s, 1, h) <=> HeldAt(Tail(s), 1, h)
    <3>1. \A h : ~Closes(s[1], h) /\ s[1] # Acquire(h)
      BY SMTT(40), <2>3, ClosesForms
    <3> QED BY <3>1, <2>5
  <2> QED BY Zenon, <2>1, <2>4, <2>5, <2>6, <1>a
<1>7. ASSUME NEW p \in Cproc, unix_fork(p) PROVE LockInv'
  <2> DEFINE s == todo[p]
  <2>1. Alive(p) /\ s # <<>> /\ Head(s)[1] = "call" /\ Head(s)[2] = "unix_fork"
    BY <1>7 DEF unix_fork, At
  <2>2. /\ Accounted(p) /\ Sound(s, reply_port[p] # "null") /\ Head(s) = s[1] /\ s[1] \in Steps
        /\ Len(s) \in Nat \ {0}
    BY <2>1, <1>b
  <2>3. s[1] = Call("unix_fork")
    BY <2>1, <2>2, StepForms
  <2>4. Len(s) = 1
    <3>1. 1 \notin 1 .. Len(s) - 1
      BY <2>2, <2>3 DEF Sound
    <3>2. ASSUME NEW n \in Nat \ {0}, 1 \notin 1 .. n - 1 PROVE n = 1
      BY <3>2
    <3> HIDE DEF s
    <3> QED BY ZenonT(40), <3>1, <3>2, <2>2
  <2>5. \A l : HeldAt(s, 1, l) <=> l \in ForkedLocks
    BY <2>3, <2>4, ClosesForms DEF HeldAt
  <2>6. CASE todo' = [todo EXCEPT ![p] = cthread_fork_parent] /\ UNCHANGED <<owner, reply_port, multithreaded, child>>
    <3>1. /\ Sound(cthread_fork_parent, reply_port[p] # "null")
          /\ \A l \in Locks : HeldAt(cthread_fork_parent, 1, l) <=> HeldAt(s, 1, l)
      BY Zenon, <2>5, ParentSound
    <3>2. /\ reply_port' = [reply_port EXCEPT ![p] = reply_port[p]]
          /\ reply_port[p] \in {"null", "thread_reply", "own"}
          /\ child' = child /\ owner' = owner /\ multithreaded' \in BOOLEAN
      BY <2>6, <1>t
    <3> QED BY Zenon, <2>1, <2>6, <3>1, <3>2, <1>a
  <2>7. CASE /\ child = Free
             /\ child' = p
             /\ multithreaded' = FALSE
             /\ owner' = [owner EXCEPT ![cproc_lock] = Free]
             /\ reply_port' = [reply_port EXCEPT ![p] = "null"]
             /\ todo' = [q \in Cproc |-> IF q = p THEN cthread_fork_child ELSE <<>>]
    <3>1. /\ Sound(cthread_fork_child, reply_port'[p] # "null")
          /\ \A l \in Locks : HeldAt(cthread_fork_child, 1, l) <=> l \in ForkedLocks
      BY ZenonT(40), ChildSound
    <3>2. cproc_lock \in Locks /\ cproc_lock \notin ForkedLocks /\ ForkedLocks \subseteq Locks
      BY Values, ForkedRanks DEF ForkedLocks, cproc_lock, cthread_lock, cthread_free_lock, bucket_lock
    <3>3. \A l \in Locks : owner[l] = p <=> l \in ForkedLocks
      BY <2>2, <2>5 DEF Accounted
    <3>4. TypeOK'
      <4>1. cthread_fork_child \in Seq(Steps) /\ <<>> \in Seq(Steps)
        BY <3>1 DEF Sound
      <4> QED BY Zenon, <4>1, <2>7, <1>t DEF TypeOK
    <3>5. ASSUME NEW q \in Cproc, Alive(q)' PROVE Accounted(q)'
      <4>1. q = p
        BY <3>5, <2>7, <1>f DEF Alive
      <4>2. todo'[p] = cthread_fork_child
        BY <2>7
      <4>3. \A l \in Locks : owner'[l] = p <=> l \in ForkedLocks
        BY <3>2, <3>3, <2>7, <1>t, <1>f
      <4> QED BY <4>1, <4>2, <4>3, <3>1 DEF Accounted
    (* The locks that fork() does not take are held only inside those that it does. *)
    <3>6. ASSUME NEW l \in {malloc_lock, initial_stack_lock} PROVE owner[l] \in {Free, p}
      <4> SUFFICES ASSUME owner[l] # Free PROVE owner[l] = p
        OBVIOUS
      <4> DEFINE q == owner[l]
      <4>1. l \in Locks /\ q \in Cproc /\ Guard(l) \subseteq ForkedLocks /\ Guard(l) # {}
        <5>1. l \in Locks
          BY SMTT(40), Values
        <5>2. Guard(l) \subseteq ForkedLocks
          BY Values DEF ForkedLocks
        <5>3. 1 \in Buckets
          BY SMTT(40) DEF Buckets, ForkLocksAssumption
        <5>4. Guard(l) # {}
          BY <5>3, Values
        <5> QED BY SMTT(40), <5>1, <5>2, <5>4, <1>t
      <4>2. Accounted(q)
        BY SMTT(40), <4>1, <2>7 DEF LockInv, Alive
      <4>3. HeldAt(todo[q], 1, l) /\ todo[q] \in Seq(Steps)
        BY SMTT(40), <4>1, <4>2, <1>t DEF Accounted
      <4>4. 1 \in 1 .. Len(todo[q])
        BY SMTT(40), <4>3 DEF HeldAt
      <4>5. Guarded(Guard(l), todo[q], 1, {})
        BY ZenonT(40), <4>1, <4>2, <4>3, <4>4 DEF Accounted, Sound, Nested
      <4>6. PICK g \in Guard(l) : HeldAt(todo[q], 1, g)
        BY <4>1, <4>5 DEF Guarded
      <4>7. g \in ForkedLocks /\ g \in Locks
        BY SMTT(40), <4>1, <3>2
      <4>8. owner[g] = q /\ owner[g] = p
        BY <4>2, <4>6, <4>7, <3>3 DEF Accounted
      <4> QED BY <4>8
    <3>7. ChildOwnsCoveredLocks'
      <4> SUFFICES ASSUME NEW l \in CoveredLocks PROVE owner'[l] \in {Free, p}
        BY <2>7 DEF ChildOwnsCoveredLocks
      <4>1. l \in Locks
        BY DEF Locks
      <4>2. CASE l = cproc_lock
        BY SMTT(40), <4>1, <4>2, <2>7, <1>t
      <4>3. CASE l # cproc_lock
        <5>1. owner'[l] = owner[l]
          BY <4>1, <4>3, <2>7, <1>t
        <5>2. l \in ForkedLocks \/ l \in {malloc_lock, initial_stack_lock}
          BY SMTT(40), <4>3 DEF CoveredLocks, ForkedLocks
        <5> QED BY SMTT(40), <5>1, <5>2, <4>1, <3>3, <3>6
      <4> QED BY <4>2, <4>3
    <3> QED BY <3>4, <3>5, <3>7 DEF LockInv
  <2> QED BY Zenon, <1>7, <2>6, <2>7 DEF unix_fork
<1>8. CASE UNCHANGED vars
  BY SMTT(40), <1>8 DEF vars, LockInv, TypeOK, Alive, Accounted, ChildOwnsCoveredLocks
<1> QED BY SMTT(40), <1>1, <1>2, <1>3, <1>4, <1>5, <1>6, <1>7, <1>8 DEF Next, Step

(* Well-founded sets of numbers, for the smallest member of one (NoCycle).  *)
WF == INSTANCE WellFoundedInduction

(* A cproc that waits for a lock holds only locks of a lower rank; of the  *)
(* cprocs of a set, one waits for a lock of the highest rank, which none   *)
(* of them can hold and wait.                                              *)
LEMMA NoCycle == ForkLocksAssumption /\ LockInv => NoCircularWait
<1> SUFFICES ASSUME ForkLocksAssumption, LockInv, NEW S \in (SUBSET Cproc) \ {{}},
                    \A p \in S : \E q \in S : WaitsFor(p, q)
             PROVE  FALSE
  BY ZenonT(40) DEF NoCircularWait
<1> DEFINE L(p) == todo[p][1][2]
           M(p) == NLISTS + 7 - Rank(L(p))
           T == {M(p) : p \in S}
<1>1. ASSUME NEW p \in S
      PROVE  /\ L(p) \in Locks /\ todo[p][1] = Acquire(L(p)) /\ Accounted(p)
             /\ 1 \in 1 .. Len(todo[p]) /\ owner[L(p)] \in S
  <2>1. Alive(p) /\ todo[p] # <<>> /\ Head(todo[p])[1] = "acquire" /\ p \in Cproc
        /\ owner[Head(todo[p])[2]] \in S
    BY DEF WaitsFor, At
  <2>2. Accounted(p) /\ todo[p] \in Seq(Steps)
    BY SMTT(40), <2>1 DEF LockInv, TypeOK
  <2>3. Head(todo[p]) = todo[p][1] /\ todo[p][1] \in Steps /\ 1 \in 1 .. Len(todo[p])
    BY <2>1, <2>2
  <2> QED BY ZenonT(40), <2>1, <2>2, <2>3, StepForms
<1>2. ASSUME NEW p \in S PROVE \E q \in S : M(q) < M(p)
  <2> DEFINE q == owner[L(p)]
  <2>1. q \in S /\ L(p) \in Locks
    BY SMTT(40), <1>1
  <2>2. L(q) \in Locks /\ todo[q][1] = Acquire(L(q)) /\ Accounted(q) /\ 1 \in 1 .. Len(todo[q])
    BY ZenonT(40), <2>1, <1>1
  <2>3. HeldAt(todo[q], 1, L(p))
    BY ZenonT(40), <2>1, <2>2 DEF Accounted
  <2> HIDE DEF L, q
  <2>4. Rank(L(p)) < Rank(L(q))
    BY ZenonT(40), <2>1, <2>2, <2>3 DEF Accounted, Sound, Nested
  <2>5. M(q) < M(p)
    <3>1. Rank(L(p)) \in 0 .. NLISTS + 7 /\ Rank(L(q)) \in 0 .. NLISTS + 7
      BY SMTT(40), <2>1, <2>2, RankType
    <3> QED BY SMTT(40), <3>1, <2>4 DEF ForkLocksAssumption
  <2> QED BY SMTT(40), <2>1, <2>5
<1>3. T \subseteq Nat /\ T # {}
  <2>1. \A p \in S : M(p) \in Nat
    <3> TAKE p \in S
    <3>1. L(p) \in Locks
      BY SMTT(40), <1>1
    <3> HIDE DEF L
    <3>2. Rank(L(p)) \in 0 .. NLISTS + 7
      BY <3>1, RankType
    <3> QED BY <3>2 DEF ForkLocksAssumption
  <2> HIDE DEF M
  <2>2. S # {}
    OBVIOUS
  <2> QED BY <2>1, <2>2
<1> HIDE DEF T, M
<1>4. PICK x \in T : \A y \in T : ~(<<y, x>> \in WF!OpToRel(<, Nat))
  BY <1>3, WF!NatLessThanWellFounded, WF!WFMin
<1>5. \A y \in T : ~(y < x)
  BY Zenon, <1>3, <1>4 DEF WF!OpToRel
<1> QED BY <1>2, <1>5 DEF T

(* For any number of cprocs and free lists: no set of cprocs waits for     *)
(* each other for the locks of the library, in the parent and in the child *)
(* of a fork().                                                            *)
THEOREM NoDeadlockOnLocks == ASSUME ForkLocksAssumption PROVE Spec => []NoCircularWait
<1>1. Init => LockInv
  BY LockInvInit
<1>2. LockInv /\ [Next]_vars => LockInv'
  BY LockInvNext
<1>3. LockInv => NoCircularWait
  BY NoCycle
<1> QED BY <1>1, <1>2, <1>3, PTL DEF Spec

(* For any number of cprocs and free lists: in the child of a fork() none  *)
(* of the locks that fork() takes, and none of malloc_lock, cproc_lock and *)
(* initial_stack_lock, which it leaves to the locks around them, is held   *)
(* by a thread that is gone.  Nothing is said of reply_port_lock and of    *)
(* the locks of the records, which may be.                                 *)
THEOREM CoveredLocksCorrect == ASSUME ForkLocksAssumption PROVE Spec => []ChildOwnsCoveredLocks
<1>1. Init => LockInv
  BY LockInvInit
<1>2. LockInv /\ [Next]_vars => LockInv'
  BY LockInvNext
<1>3. LockInv => ChildOwnsCoveredLocks
  BY DEF LockInv
<1> QED BY <1>1, <1>2, <1>3, PTL DEF Spec
=============================================================================
