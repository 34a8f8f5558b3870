--------------------------- MODULE ImpTableProofs ---------------------------
(***************************************************************************)
(* What the routines of if_imphost.c, and impsnd of if_imp.c, do to the    *)
(* table of hosts: to the chain of mbufs, to the places in them, to the    *)
(* counts of RFNMs and to the holding queues.                              *)
(***************************************************************************)
EXTENDS Imp, FiniteSetTheorems, WellFoundedInduction, TLAPS
-----------------------------------------------------------------------------
(* Numbers and finite sets of them                                         *)

(* A message that is sent is one more to be answered; an answer leaves one *)
(* less (h_rfnm).                                                          *)
LEMMA OneMoved ==
  ASSUME NEW a \in Nat, NEW b \in Nat
  PROVE  a + (b + 1) = (a + b) + 1 /\ (a - 1) + b = (a + b) - 1
  OBVIOUS

(* hostlookup and hostenter take the first mbuf that fits.                 *)
LEMMA SmallestIs ==
  ASSUME NEW S \in SUBSET Nat, S # {}
  PROVE  Smallest(S) \in S /\ \A j \in S : Smallest(S) <= j
<1> DEFINE R == {p \in Nat \X Nat : p[1] < p[2]}
<1>1. IsWellFoundedOn(R, Nat)
  BY NatLessThanWellFounded DEF OpToRel
<1>2. \A m, n \in Nat : m < n => <<m, n>> \in R
  OBVIOUS
<1> HIDE DEF R
<1>3. PICK i \in S : \A j \in S : ~(<<j, i>> \in R)
  BY Zenon, <1>1, WFMin
<1>4. ASSUME NEW j \in S PROVE i <= j
  <2>1. i \in Nat /\ j \in Nat /\ <<j, i>> \notin R
    BY <1>3
  <2>2. ~(j < i)
    BY <1>2, <2>1
  <2> QED BY <2>1, <2>2
<1> QED BY Zenon, <1>4 DEF Smallest

(* A set of numbers up to N is finite, and so is any part of it.           *)
LEMMA BoundedIsFinite ==
  ASSUME NEW N \in Nat, NEW S \in SUBSET (1 .. N)
  PROVE  /\ IsFiniteSet(S) /\ Cardinality(S) \in Nat
         /\ \A R \in SUBSET S : /\ IsFiniteSet(R) /\ Cardinality(R) \in Nat
                                /\ Cardinality(R) <= Cardinality(S)
                                /\ R # S => Cardinality(R) < Cardinality(S)
<1>1. IsFiniteSet(1 .. N)
  BY FS_Interval
<1>2. IsFiniteSet(S) /\ Cardinality(S) \in Nat
  BY Zenon, <1>1, FS_Subset, FS_CardinalityType
<1>3. ASSUME NEW R \in SUBSET S
      PROVE  /\ IsFiniteSet(R) /\ Cardinality(R) \in Nat /\ Cardinality(R) <= Cardinality(S)
             /\ R # S => Cardinality(R) < Cardinality(S)
  <2>1. /\ IsFiniteSet(R) /\ Cardinality(R) <= Cardinality(S)
        /\ Cardinality(S) = Cardinality(R) => S = R
    BY Zenon, <1>2, FS_Subset
  <2>2. Cardinality(R) \in Nat
    BY <2>1, FS_CardinalityType
  <2> QED BY <1>2, <2>1, <2>2
<1> QED BY <1>2, <1>3

(* A non-empty set of numbers up to N has a largest.                       *)
LEMMA LargestOf ==
  ASSUME NEW N \in Nat, NEW S \in SUBSET (1 .. N), S # {}
  PROVE  \E i \in S : \A j \in S : j <= i
<1> DEFINE R == {k \in Nat : N - k \in S}
<1>1. PICK i \in S : TRUE
  BY Zenon
<1>2. N - i \in R
  BY <1>1
<1>3. Smallest(R) \in R /\ \A k \in R : Smallest(R) <= k
  BY Zenon, <1>2, SmallestIs
<1>4. \A j \in S : N - j \in R /\ j \in 1 .. N
  OBVIOUS
<1>5. \A k \in R : k \in Nat /\ N - k \in S
  OBVIOUS
<1> HIDE DEF R
<1>6. N - Smallest(R) \in S
  BY <1>3, <1>5
<1>7. ASSUME NEW j \in S PROVE j <= N - Smallest(R)
  BY <1>3, <1>4, <1>5
<1> QED BY Zenon, <1>6, <1>7

(* The numbers of S up to m are one more than those up to m - 1 if m is in *)
(* S, and the same otherwise.                                              *)
LEMMA UpTo ==
  ASSUME NEW N \in Nat, NEW S \in SUBSET (1 .. N), NEW m \in 1 .. N
  PROVE  /\ m \in S => Cardinality({n \in S : n <= m}) = Cardinality({n \in S : n <= m - 1}) + 1
         /\ m \notin S => Cardinality({n \in S : n <= m}) = Cardinality({n \in S : n <= m - 1})
<1> DEFINE A == {n \in S : n <= m - 1}
<1> DEFINE B == {n \in S : n <= m}
<1>1. A \in SUBSET S /\ m \notin A
  OBVIOUS
<1>2. IsFiniteSet(A)
  BY Zenon, <1>1, BoundedIsFinite
<1>3. \A n \in S : n <= m <=> (n <= m - 1 \/ n = m)
  OBVIOUS
<1>4. ASSUME m \in S PROVE B = A \cup {m}
  BY Zenon, <1>3, <1>4
<1>5. ASSUME m \notin S PROVE B = A
  BY Zenon, <1>3, <1>5
<1> HIDE DEF A, B
<1>6. m \in S => Cardinality(B) = Cardinality(A) + 1
  BY <1>1, <1>2, <1>4, FS_AddElement
<1>7. m \notin S => Cardinality(B) = Cardinality(A)
  BY <1>5
<1> QED BY <1>6, <1>7 DEF A, B

(* Every number from 1 to the size of S is the rank of one element of S.   *)
LEMMA NthIs ==
  ASSUME NEW N \in Nat, NEW S \in SUBSET (1 .. N), NEW k \in 1 .. Cardinality(S)
  PROVE  NthOf(S, k) \in S /\ Cardinality({n \in S : n <= NthOf(S, k)}) = k
<1> DEFINE C(m) == Cardinality({n \in S : n <= m})
           X == {m \in 1 .. N : C(m) >= k}
<1>1. {n \in S : n <= N} = S /\ {n \in S : n <= 0} = {}
  <2>1. \A n \in S : n <= N /\ ~(n <= 0)
    OBVIOUS
  <2> QED BY Zenon, <2>1
<1>2. S # {} /\ Cardinality(S) \in Nat /\ k \in Nat /\ k >= 1 /\ k <= Cardinality(S)
  <2>1. Cardinality(S) \in Nat
    BY Zenon, BoundedIsFinite
  <2>2. k \in Nat /\ k >= 1 /\ k <= Cardinality(S)
    BY <2>1
  <2> QED BY <2>1, <2>2, FS_EmptySet
<1>3. N \in X
  <2>1. PICK i \in S : i \in 1 .. N
    BY Zenon, <1>2
  <2>2. N \in 1 .. N
    BY <2>1
  <2> QED BY <1>1, <1>2, <2>2
<1>4. X \in SUBSET Nat /\ X # {}
  <2> HIDE DEF C
  <2> QED BY <1>3
<1>5. PICK m \in X : \A j \in X : m <= j
  BY Zenon, <1>4, SmallestIs
<1>6. m \in 1 .. N /\ C(m) >= k
  BY <1>5
<1>7. C(m) \in Nat /\ C(m - 1) \in Nat
  <2>1. {n \in S : n <= m} \in SUBSET S /\ {n \in S : n <= m - 1} \in SUBSET S
    OBVIOUS
  <2> QED BY Zenon, <2>1, BoundedIsFinite
<1>8. C(m - 1) < k
  <2>1. CASE m = 1
    BY <2>1, <1>1, <1>2, FS_EmptySet
  <2>2. CASE m # 1
    <3> HIDE DEF C
    <3>1. m - 1 \in 1 .. N /\ ~(m <= m - 1)
      BY <2>2, <1>6
    <3>2. m - 1 \notin X
      <4> HIDE DEF X
      <4> QED BY <1>5, <3>1
    <3> QED BY <3>1, <3>2, <1>2, <1>7
  <2> QED BY <2>1, <2>2
<1>9. m \in S /\ C(m) = C(m - 1) + 1
  <2>1. /\ m \in S => C(m) = C(m - 1) + 1
        /\ m \notin S => C(m) = C(m - 1)
    BY <1>6, UpTo
  <2> HIDE DEF C
  <2> QED BY <2>1, <1>2, <1>6, <1>7, <1>8
<1>10. C(m) = k
  <2> HIDE DEF C
  <2> QED BY <1>2, <1>6, <1>7, <1>8, <1>9
<1> QED BY Zenon, <1>9, <1>10 DEF NthOf

(* Elements of different ranks differ, and every element has a rank.       *)
LEMMA NthOnto ==
  ASSUME NEW N \in Nat, NEW S \in SUBSET (1 .. N)
  PROVE  /\ \A j, k \in 1 .. Cardinality(S) : NthOf(S, j) = NthOf(S, k) => j = k
         /\ \A m \in S : \E k \in 1 .. Cardinality(S) : NthOf(S, k) = m
<1>1. \A j, k \in 1 .. Cardinality(S) : NthOf(S, j) = NthOf(S, k) => j = k
  <2>1. \A k \in 1 .. Cardinality(S) : Cardinality({n \in S : n <= NthOf(S, k)}) = k
    BY NthIs
  <2> QED BY Zenon, <2>1
<1>2. ASSUME NEW m \in S PROVE \E k \in 1 .. Cardinality(S) : NthOf(S, k) = m
  <2> DEFINE C(i) == {n \in S : n <= i}
             k == Cardinality(C(m))
  <2>1. C(m) \in SUBSET S /\ m \in C(m)
    OBVIOUS
  <2>2. k \in Nat /\ k <= Cardinality(S) /\ Cardinality(S) \in Nat
    BY <2>1, BoundedIsFinite
  <2>3. k # 0
    <3>1. IsFiniteSet(C(m))
      BY Zenon, <2>1, BoundedIsFinite
    <3> QED BY <2>1, <3>1, FS_EmptySet
  <2>4. k \in 1 .. Cardinality(S)
    <3> HIDE DEF k
    <3> QED BY <2>2, <2>3
  <2>5. PICK i \in S : i = NthOf(S, k) /\ Cardinality(C(i)) = k
    BY Zenon, <2>4, NthIs
  <2>6. ASSUME NEW a \in S, NEW b \in S, a < b PROVE Cardinality(C(a)) < Cardinality(C(b))
    <3>0. b <= b /\ ~(b <= a)
      BY <2>6
    <3>1. b \in C(b) /\ b \notin C(a) /\ C(b) \in SUBSET (1 .. N)
      BY Zenon, <3>0
    <3>2. \A n \in S : n <= a => n <= b
      BY <2>6
    <3>3. C(a) \in SUBSET C(b)
      BY Zenon, <3>2
    <3> HIDE DEF C
    <3> QED BY Zenon, <3>1, <3>3, BoundedIsFinite
  <2>7. i = m
    <3>1. i \in Nat /\ m \in Nat /\ k \in Nat
      BY <2>2
    <3>2. ~(i < m) /\ ~(m < i)
      BY <2>2, <2>5, <2>6
    <3> QED BY <3>1, <3>2
  <2> QED BY Zenon, <2>4, <2>5, <2>7
<1> QED BY <1>1, <1>2
-----------------------------------------------------------------------------
(* The table of hosts                                                      *)

Place == [h_addr : Host \cup {None}, h_q : Seq(Host), h_qcnt : Int, h_timer : Nat,
          h_rfnm : Nat, inuse : BOOLEAN, dead : BOOLEAN]

Mbuf == [hm_count : Nat, hm_hosts : [Index -> Place]]

Places(T) == {T[m].hm_hosts[i] : m \in 1 .. Len(T), i \in Index}

(* A place that is not in use, or whose host is dead, counts no message.   *)
Sound(hp) == ~hp.inuse \/ hp.dead => hp.h_rfnm = 0

(* An address has at most one place, and that is at its index.             *)
Table(T) ==
  /\ budget.hash \in [Host -> Index]
  /\ T \in Seq(Mbuf)
  /\ \A p \in Places(T) : Sound(p)
  /\ \A m \in 1 .. Len(T), i \in Index :
       T[m].hm_hosts[i].h_addr # None => HOSTHASH(T[m].hm_hosts[i].h_addr) = i
  /\ \A m, n \in 1 .. Len(T), i \in Index :
       T[m].hm_hosts[i].h_addr = T[n].hm_hosts[i].h_addr /\ T[m].hm_hosts[i].h_addr # None => m = n

(* What the places of a table are.                                         *)
LEMMA TablePlaces ==
  ASSUME NEW T \in Seq(Mbuf), NEW m \in 1 .. Len(T), NEW i \in Index
  PROVE  /\ T[m] \in Mbuf /\ T[m].hm_count \in Nat /\ T[m].hm_hosts \in [Index -> Place]
         /\ T[m].hm_hosts[i] \in Place /\ T[m].hm_hosts[i] \in Places(T)
<1>1. T[m] \in Mbuf
  OBVIOUS
<1> QED BY <1>1 DEF Mbuf, Places

(* hostlookup finds the one place of an address that has one.              *)
LEMMA HostIs ==
  ASSUME NEW T, Table(T), NEW h \in Host, NEW m \in MbufsOf(T, h)
  PROVE  /\ HOSTHASH(h) \in Index /\ m \in 1 .. Len(T)
         /\ MbufsOf(T, h) = {m} /\ Smallest(MbufsOf(T, h)) = m /\ Known(T, h)
         /\ HostIn(T, h) = T[m].hm_hosts[HOSTHASH(h)]
         /\ HostIn(T, h) \in Place /\ HostIn(T, h) \in Places(T)
         /\ HostIn(T, h).h_addr = h /\ Sound(HostIn(T, h))
         /\ Rfnms(T, h) = T[m].hm_hosts[HOSTHASH(h)].h_rfnm
<1>1. HOSTHASH(h) \in Index
  BY DEF Table, HOSTHASH
<1>2. m \in 1 .. Len(T) /\ T[m].hm_hosts[HOSTHASH(h)].h_addr = h
  BY DEF MbufsOf
<1>3. h # None
  BY ImpAssumption
<1>4. ASSUME NEW n \in MbufsOf(T, h) PROVE n = m
  BY <1>1, <1>2, <1>3, <1>4 DEF MbufsOf, Table
<1>5. MbufsOf(T, h) = {m}
  BY <1>4
<1>6. Smallest({m}) = m
  <2>1. m \in Nat
    BY <1>2
  <2>2. {m} \in SUBSET Nat /\ {m} # {}
    BY <2>1
  <2> QED BY <2>2, SmallestIs
<1>7. HostIn(T, h) = T[m].hm_hosts[HOSTHASH(h)] /\ Known(T, h)
  BY <1>5, <1>6 DEF HostIn, Known
<1>8. HostIn(T, h) \in Place /\ HostIn(T, h) \in Places(T)
  <2>1. T \in Seq(Mbuf)
    BY DEF Table
  <2> QED BY <2>1, <1>1, <1>2, <1>7, TablePlaces
<1>9. Sound(HostIn(T, h))
  BY <1>8 DEF Table
<1> QED BY <1>1, <1>2, <1>5, <1>6, <1>7, <1>8, <1>9 DEF Rfnms

(* The count of a host is h_rfnm of its place.                             *)
LEMMA CountIs ==
  ASSUME NEW T, Table(T), NEW h \in Host, NEW m \in MbufsOf(T, h)
  PROVE  Rfnms(T, h) = T[m].hm_hosts[HOSTHASH(h)].h_rfnm
  BY HostIs

(* An address without a place has no count.                                *)
LEMMA HostIsNot ==
  ASSUME NEW T, NEW h, MbufsOf(T, h) = {}
  PROVE  ~Known(T, h) /\ Rfnms(T, h) = 0
  BY DEF Known, Rfnms

(* A place of T is changed to hp for the address h: either its own place,  *)
(* or one with no messages counted while h has none.  Nobody else's count  *)
(* is touched.                                                             *)
LEMMA PlaceChanged ==
  ASSUME NEW T, Table(T), NEW V \in Seq(Mbuf), Len(V) = Len(T), NEW h \in Host,
         NEW m \in 1 .. Len(T), MbufsOf(T, h) \subseteq {m},
         NEW hp \in Place, hp.h_addr = h, Sound(hp),
         \A n \in 1 .. Len(T), j \in Index :
           V[n].hm_hosts[j] = IF n = m /\ j = HOSTHASH(h) THEN hp ELSE T[n].hm_hosts[j],
         T[m].hm_hosts[HOSTHASH(h)].h_addr = h \/ T[m].hm_hosts[HOSTHASH(h)].h_rfnm = 0
  PROVE  /\ Table(V) /\ Known(V, h) /\ HostIn(V, h) = hp /\ Rfnms(V, h) = hp.h_rfnm
         /\ Places(V) \subseteq {p \in Places(T) : p.h_addr # h} \cup {hp}
         /\ \A g \in Host : g # h => Rfnms(V, g) = Rfnms(T, g)
<1>1. HOSTHASH(h) \in Index /\ h # None /\ budget.hash \in [Host -> Index] /\ T \in Seq(Mbuf)
  BY ImpAssumption DEF Table, HOSTHASH
<1>2. V[m].hm_hosts[HOSTHASH(h)] = hp
  BY <1>1
<1>3. Places(V) \subseteq Places(T) \cup {hp}
  <2>1. SUFFICES ASSUME NEW n \in 1 .. Len(V), NEW j \in Index
                 PROVE  V[n].hm_hosts[j] \in Places(T) \cup {hp}
    BY DEF Places
  <2>2. T[n].hm_hosts[j] \in Places(T)
    BY DEF Places
  <2> QED BY <2>2
<1>4. \A p \in Places(V) : Sound(p)
  BY <1>3 DEF Table
<1>5. ASSUME NEW n \in 1 .. Len(V), NEW j \in Index, V[n].hm_hosts[j].h_addr # None
      PROVE  HOSTHASH(V[n].hm_hosts[j].h_addr) = j
  <2>1. CASE n = m /\ j = HOSTHASH(h)
    BY <2>1, <1>2
  <2>2. CASE ~(n = m /\ j = HOSTHASH(h))
    <3>1. V[n].hm_hosts[j] = T[n].hm_hosts[j]
      BY <2>2
    <3> QED BY <3>1, <1>5 DEF Table
  <2> QED BY <2>1, <2>2
<1>6. ASSUME NEW n \in 1 .. Len(V), NEW k \in 1 .. Len(V), NEW j \in Index,
             V[n].hm_hosts[j].h_addr = V[k].hm_hosts[j].h_addr, V[n].hm_hosts[j].h_addr # None
      PROVE  n = k
  <2>1. CASE j # HOSTHASH(h)
    <3>1. V[n].hm_hosts[j] = T[n].hm_hosts[j] /\ V[k].hm_hosts[j] = T[k].hm_hosts[j]
      BY <2>1
    <3> QED BY <3>1, <1>6 DEF Table
  <2>2. CASE j = HOSTHASH(h) /\ n # m /\ k # m
    <3>1. V[n].hm_hosts[j] = T[n].hm_hosts[j] /\ V[k].hm_hosts[j] = T[k].hm_hosts[j]
      BY <2>2
    <3> QED BY <3>1, <1>6 DEF Table
  <2>3. ASSUME NEW a \in 1 .. Len(V), a # m, V[a].hm_hosts[HOSTHASH(h)].h_addr = h PROVE FALSE
    <3>1. T[a].hm_hosts[HOSTHASH(h)].h_addr = h
      BY <2>3, <1>1
    <3>2. a \in MbufsOf(T, h)
      BY <3>1 DEF MbufsOf
    <3> QED BY <3>2, <2>3
  <2>4. CASE j = HOSTHASH(h) /\ n = m /\ k # m
    BY <2>3, <2>4, <1>2, <1>6
  <2>5. CASE j = HOSTHASH(h) /\ n # m /\ k = m
    BY SMTT(40), <2>3, <2>5, <1>2, <1>6
  <2> QED BY <2>1, <2>2, <2>4, <2>5
<1>7. Table(V)
  BY <1>1, <1>4, <1>5, <1>6 DEF Table
<1>8. m \in MbufsOf(V, h)
  BY <1>2 DEF MbufsOf
<1>9. Known(V, h) /\ HostIn(V, h) = hp /\ Rfnms(V, h) = hp.h_rfnm
  BY <1>2, <1>7, <1>8, HostIs
<1>10. ASSUME NEW g \in Host, g # h PROVE Rfnms(V, g) = Rfnms(T, g)
  <2>0. HOSTHASH(g) \in Index
    BY <1>1 DEF HOSTHASH
  <2>1. ASSUME NEW n \in MbufsOf(V, g) PROVE n \in MbufsOf(T, g) /\ Rfnms(V, g) = Rfnms(T, g)
    <3>1. n \in 1 .. Len(T) /\ V[n].hm_hosts[HOSTHASH(g)].h_addr = g
      BY <2>1 DEF MbufsOf
    <3>2. V[n].hm_hosts[HOSTHASH(g)] = T[n].hm_hosts[HOSTHASH(g)]
      BY <3>1, <2>0, <1>10
    <3>3. n \in MbufsOf(T, g)
      BY <3>1, <3>2 DEF MbufsOf
    <3>4. Rfnms(V, g) = V[n].hm_hosts[HOSTHASH(g)].h_rfnm
      BY <2>1, <1>7, HostIs
    <3>5. Rfnms(T, g) = T[n].hm_hosts[HOSTHASH(g)].h_rfnm
      BY <3>3, HostIs
    <3> QED BY <3>2, <3>3, <3>4, <3>5
  <2>2. ASSUME MbufsOf(V, g) = {}, NEW n \in MbufsOf(T, g) PROVE Rfnms(T, g) = 0
    <3>1. n \in 1 .. Len(T) /\ T[n].hm_hosts[HOSTHASH(g)].h_addr = g
      BY <2>2 DEF MbufsOf
    <3>2. n = m /\ HOSTHASH(g) = HOSTHASH(h)
      <4>1. V[n].hm_hosts[HOSTHASH(g)].h_addr # g
        BY <2>2, <3>1 DEF MbufsOf
      <4> QED BY <4>1, <3>1, <2>0
    <3>3. T[m].hm_hosts[HOSTHASH(h)].h_rfnm = 0
      BY <3>1, <3>2, <1>10
    <3> QED BY <3>2, <3>3, <2>2, HostIs
  <2>3. CASE MbufsOf(V, g) # {}
    BY <2>1, <2>3
  <2>4. CASE MbufsOf(V, g) = {} /\ MbufsOf(T, g) # {}
    BY <2>2, <2>4, HostIsNot
  <2>5. CASE MbufsOf(V, g) = {} /\ MbufsOf(T, g) = {}
    BY <2>5, HostIsNot
  <2> QED BY SMTT(40), <2>3, <2>4, <2>5
<1>11. ASSUME NEW n \in 1 .. Len(V), NEW j \in Index, V[n].hm_hosts[j].h_addr = h
       PROVE  V[n].hm_hosts[j] = hp
  <2>1. j = HOSTHASH(h)
    BY <1>1, <1>5, <1>11
  <2>2. n = m
    BY <2>1, <1>1, <1>2, <1>6, <1>11
  <2> QED BY <2>1, <2>2, <1>2
<1>12. ASSUME NEW p \in Places(V) PROVE p = hp \/ (p \in Places(T) /\ p.h_addr # h)
  <2>1. PICK n \in 1 .. Len(V), j \in Index : p = V[n].hm_hosts[j]
    BY DEF Places
  <2> QED BY <2>1, <1>3, <1>11
<1> QED BY SMTT(40), <1>7, <1>9, <1>10, <1>12

(* No mbuf in the chain has a count of zero.                               *)
Counted(T) == \A m \in 1 .. Len(T) : T[m].hm_count # 0

(* A host that is in the table gets another value of its place.            *)
LEMMA WithIs ==
  ASSUME NEW T, Table(T), NEW h \in Host, Known(T, h),
         NEW hp \in Place, hp.h_addr = h, Sound(hp)
  PROVE  /\ Table(With(T, h, hp)) /\ (Counted(T) => Counted(With(T, h, hp)))
         /\ Known(With(T, h, hp), h) /\ HostIn(With(T, h, hp), h) = hp
         /\ Rfnms(With(T, h, hp), h) = hp.h_rfnm
         /\ Places(With(T, h, hp)) \subseteq {p \in Places(T) : p.h_addr # h} \cup {hp}
         /\ \A g \in Host : g # h => Rfnms(With(T, h, hp), g) = Rfnms(T, g)
<1> DEFINE V == With(T, h, hp)
<1>1. PICK m : m \in MbufsOf(T, h)
  BY DEF Known
<1>2. /\ HOSTHASH(h) \in Index /\ m \in 1 .. Len(T) /\ MbufsOf(T, h) = {m}
      /\ Smallest(MbufsOf(T, h)) = m /\ T[m].hm_hosts[HOSTHASH(h)].h_addr = h
  BY <1>1, HostIs
<1>3. T \in Seq(Mbuf) /\ Len(T) \in Nat
  BY DEF Table
<1>4. T[m] \in Mbuf /\ T[m].hm_count \in Nat /\ T[m].hm_hosts \in [Index -> Place]
  BY <1>2, <1>3, TablePlaces
<1>5. V = [T EXCEPT ![m] = [T[m] EXCEPT !.hm_hosts = [T[m].hm_hosts EXCEPT ![HOSTHASH(h)] = hp]]]
  BY Zenon, <1>2 DEF With
<1> DEFINE M == [T[m] EXCEPT !.hm_hosts = [T[m].hm_hosts EXCEPT ![HOSTHASH(h)] = hp]]
<1>6. M \in Mbuf /\ M.hm_count = T[m].hm_count
      /\ M.hm_hosts = [T[m].hm_hosts EXCEPT ![HOSTHASH(h)] = hp]
  BY <1>2, <1>4 DEF Mbuf
<1> HIDE DEF M
<1>7. V = [T EXCEPT ![m] = M]
  BY <1>5 DEF M
<1> HIDE DEF V
<1>8. /\ V \in Seq(Mbuf) /\ Len(V) = Len(T) /\ V[m] = M
      /\ \A n \in 1 .. Len(T) : n # m => V[n] = T[n]
  BY <1>2, <1>3, <1>6, <1>7
<1>9. ASSUME NEW n \in 1 .. Len(T), NEW j \in Index
      PROVE  V[n].hm_hosts[j] = IF n = m /\ j = HOSTHASH(h) THEN hp ELSE T[n].hm_hosts[j]
  BY <1>4, <1>6, <1>8
<1>10. Counted(T) => Counted(V)
  BY SMTT(40), <1>2, <1>6, <1>8 DEF Counted
<1>11. /\ Table(V) /\ Known(V, h) /\ HostIn(V, h) = hp /\ Rfnms(V, h) = hp.h_rfnm
       /\ Places(V) \subseteq {p \in Places(T) : p.h_addr # h} \cup {hp}
       /\ \A g \in Host : g # h => Rfnms(V, g) = Rfnms(T, g)
  BY <1>2, <1>8, <1>9, PlaceChanged
<1> QED BY <1>10, <1>11 DEF V

(* hostlookup puts the host in use again.                                  *)
LEMMA LookupIs ==
  ASSUME NEW T, Table(T), NEW h \in Host, Known(T, h)
  PROVE  /\ Table(hostlookup(T, h)) /\ (Counted(T) => Counted(hostlookup(T, h)))
         /\ Known(hostlookup(T, h), h)
         /\ HostIn(hostlookup(T, h), h) = [HostIn(T, h) EXCEPT !.inuse = TRUE]
         /\ HostIn(T, h) \in Place /\ HostIn(T, h) \in Places(T)
         /\ HostIn(T, h).h_addr = h /\ Sound(HostIn(T, h))
         /\ Places(hostlookup(T, h)) \subseteq {p \in Places(T) : p.h_addr # h}
                                                \cup {[HostIn(T, h) EXCEPT !.inuse = TRUE]}
         /\ \A g \in Host : Rfnms(hostlookup(T, h), g) = Rfnms(T, g)
<1> DEFINE hp == [HostIn(T, h) EXCEPT !.inuse = TRUE]
<1>1. PICK m : m \in MbufsOf(T, h)
  BY DEF Known
<1>2. /\ HostIn(T, h) \in Place /\ HostIn(T, h) \in Places(T) /\ HostIn(T, h).h_addr = h
      /\ Sound(HostIn(T, h)) /\ Rfnms(T, h) = HostIn(T, h).h_rfnm
  BY <1>1, HostIs
<1>3. hp \in Place /\ hp.h_addr = h /\ Sound(hp) /\ hp.h_rfnm = HostIn(T, h).h_rfnm
  BY Zenon, <1>2 DEF Place, Sound
<1>4. hostlookup(T, h) = With(T, h, hp)
  BY DEF hostlookup
<1> HIDE DEF hp
<1>5. /\ Table(With(T, h, hp)) /\ (Counted(T) => Counted(With(T, h, hp)))
      /\ Known(With(T, h, hp), h) /\ HostIn(With(T, h, hp), h) = hp
      /\ Rfnms(With(T, h, hp), h) = hp.h_rfnm
      /\ Places(With(T, h, hp)) \subseteq {p \in Places(T) : p.h_addr # h} \cup {hp}
      /\ \A g \in Host : g # h => Rfnms(With(T, h, hp), g) = Rfnms(T, g)
  BY <1>3, WithIs
<1>6. \A g \in Host : Rfnms(With(T, h, hp), g) = Rfnms(T, g)
  BY <1>2, <1>3, <1>5
<1> QED BY Zenon, <1>2, <1>4, <1>5, <1>6 DEF hp

(* An mbuf of zeroes at the end of the chain is nobody's.                  *)
LEMMA MbufAdded ==
  ASSUME NEW T, Table(T)
  PROVE  LET U == Append(T, NewMbuf)
         IN  /\ Table(U) /\ Len(U) = Len(T) + 1 /\ U[Len(U)] = NewMbuf
             /\ \A m \in 1 .. Len(T) : U[m] = T[m]
             /\ Places(U) \subseteq Places(T) \cup {NewHost}
             /\ \A g \in Host : MbufsOf(U, g) = MbufsOf(T, g) /\ Rfnms(U, g) = Rfnms(T, g)
<1> DEFINE U == Append(T, NewMbuf)
<1>1. T \in Seq(Mbuf) /\ Len(T) \in Nat /\ budget.hash \in [Host -> Index]
  BY DEF Table
<1>2. NewHost \in Place /\ Sound(NewHost) /\ NewHost.h_addr = None
  BY DEF NewHost, Place, Sound
<1>3. NewMbuf \in Mbuf /\ \A i \in Index : NewMbuf.hm_hosts[i] = NewHost
  BY <1>2 DEF NewMbuf, Mbuf
<1>4. /\ U \in Seq(Mbuf) /\ Len(U) = Len(T) + 1 /\ U[Len(T) + 1] = NewMbuf
      /\ \A m \in 1 .. Len(T) : U[m] = T[m]
  BY <1>1, <1>3
<1> HIDE DEF U
<1>5. \A m \in 1 .. Len(U) : m \in 1 .. Len(T) \/ m = Len(T) + 1
  BY <1>1, <1>4
<1>6. Places(U) \subseteq Places(T) \cup {NewHost}
  <2>1. SUFFICES ASSUME NEW m \in 1 .. Len(U), NEW j \in Index
                 PROVE  U[m].hm_hosts[j] \in Places(T) \cup {NewHost}
    BY DEF Places
  <2>2. CASE m \in 1 .. Len(T)
    BY <2>2, <1>4 DEF Places
  <2>3. CASE m = Len(T) + 1
    BY SMTT(40), <2>3, <1>3, <1>4
  <2> QED BY <2>2, <2>3, <1>5
<1>7. \A p \in Places(U) : Sound(p)
  BY <1>2, <1>6 DEF Table
<1>8. ASSUME NEW m \in 1 .. Len(U), NEW i \in Index, U[m].hm_hosts[i].h_addr # None
      PROVE  m \in 1 .. Len(T) /\ U[m] = T[m]
  BY SMTT(40), <1>2, <1>3, <1>4, <1>5, <1>8
<1>9. ASSUME NEW m \in 1 .. Len(U), NEW i \in Index, U[m].hm_hosts[i].h_addr # None
      PROVE  HOSTHASH(U[m].hm_hosts[i].h_addr) = i
  BY <1>8, <1>9 DEF Table
<1>10. ASSUME NEW m \in 1 .. Len(U), NEW n \in 1 .. Len(U), NEW i \in Index,
              U[m].hm_hosts[i].h_addr = U[n].hm_hosts[i].h_addr, U[m].hm_hosts[i].h_addr # None
       PROVE  m = n
  <2>1. m \in 1 .. Len(T) /\ U[m] = T[m]
    BY <1>8, <1>10
  <2>2. n \in 1 .. Len(T) /\ U[n] = T[n]
    BY SMTT(40), <1>8, <1>10
  <2> QED BY SMTT(40), <2>1, <2>2, <1>10 DEF Table
<1>11. Table(U)
  BY <1>1, <1>4, <1>7, <1>9, <1>10 DEF Table
<1>12. ASSUME NEW g \in Host PROVE MbufsOf(U, g) = MbufsOf(T, g)
  <2>1. g # None /\ HOSTHASH(g) \in Index
    BY <1>1, ImpAssumption DEF HOSTHASH
  <2>2. ASSUME NEW m \in MbufsOf(U, g) PROVE m \in MbufsOf(T, g)
    <3>1. m \in 1 .. Len(U) /\ U[m].hm_hosts[HOSTHASH(g)].h_addr = g
      BY <2>2 DEF MbufsOf
    <3>2. m \in 1 .. Len(T) /\ U[m] = T[m]
      BY <3>1, <2>1, <1>8
    <3> QED BY <3>1, <3>2 DEF MbufsOf
  <2>3. ASSUME NEW m \in MbufsOf(T, g) PROVE m \in MbufsOf(U, g)
    <3>1. m \in 1 .. Len(T) /\ T[m].hm_hosts[HOSTHASH(g)].h_addr = g
      BY <2>3 DEF MbufsOf
    <3>2. m \in 1 .. Len(U) /\ U[m] = T[m]
      BY <3>1, <1>1, <1>4
    <3> QED BY <3>1, <3>2 DEF MbufsOf
  <2> QED BY <2>2, <2>3
<1>13. ASSUME NEW g \in Host PROVE Rfnms(U, g) = Rfnms(T, g)
  <2>1. CASE MbufsOf(T, g) = {}
    BY <2>1, <1>12, HostIsNot
  <2>2. CASE MbufsOf(T, g) # {}
    <3>1. PICK m : m \in MbufsOf(T, g) /\ m \in MbufsOf(U, g)
      BY <2>2, <1>12
    <3>2. U[m] = T[m]
      BY <3>1, <1>4 DEF MbufsOf
    <3>3. Rfnms(T, g) = T[m].hm_hosts[HOSTHASH(g)].h_rfnm
      BY <3>1, HostIs
    <3>4. Rfnms(U, g) = U[m].hm_hosts[HOSTHASH(g)].h_rfnm
      BY SMTT(40), <3>1, <1>11, HostIs
    <3> QED BY <3>2, <3>3, <3>4
  <2> QED BY <2>1, <2>2
<1> QED BY SMTT(40), <1>4, <1>6, <1>11, <1>12, <1>13 DEF U

(* What hostenter makes of the place p that it takes for h.                *)
Entered(p, h) == [p EXCEPT !.h_addr = h, !.h_timer = 0, !.dead = FALSE, !.inuse = TRUE]

(* hostenter takes a place that counts no message, so that the new host    *)
(* starts at zero and no other host loses its count.                       *)
LEMMA EnterIs ==
  ASSUME NEW T, Table(T), NEW h \in Host, ~Known(T, h)
  PROVE  LET V == hostenter(T, h)
         IN  /\ Table(V) /\ (Counted(T) => Counted(V)) /\ Known(V, h)
             /\ \A g \in Host : Rfnms(V, g) = Rfnms(T, g)
             /\ \E p \in Places(T) \cup {NewHost} :
                  /\ p \in Place /\ ~p.inuse /\ p.h_rfnm = 0 /\ HostIn(V, h) = Entered(p, h)
                  /\ Places(V) \subseteq Places(T) \cup {NewHost, Entered(p, h)}
<1> DEFINE V    == hostenter(T, h)
           i    == HOSTHASH(h)
           free == {m \in 1 .. Len(T) : ~T[m].hm_hosts[i].inuse}
           U    == IF free = {} THEN Append(T, NewMbuf) ELSE T
           m    == IF free = {} THEN Len(U) ELSE Smallest(free)
           p    == U[m].hm_hosts[i]
<1>1. V = [U EXCEPT ![m].hm_count = @ + 1,
                    ![m].hm_hosts[i] = [@ EXCEPT !.h_addr = h, !.h_timer = 0,
                                                 !.dead = FALSE, !.inuse = TRUE]]
  BY DEF hostenter
<1>2. T \in Seq(Mbuf) /\ Len(T) \in Nat /\ i \in Index
  BY DEF Table, HOSTHASH
<1>3. MbufsOf(T, h) = {} /\ Rfnms(T, h) = 0
  BY HostIsNot DEF Known
<1>4. NewHost \in Place /\ Sound(NewHost) /\ ~NewHost.inuse
  BY SMTT(40) DEF NewHost, Place, Sound
<1>5. /\ Table(U) /\ m \in 1 .. Len(U) /\ ~p.inuse /\ MbufsOf(U, h) = {}
      /\ Places(U) \subseteq Places(T) \cup {NewHost}
      /\ \A g \in Host : Rfnms(U, g) = Rfnms(T, g)
      /\ \A n \in 1 .. Len(U) : n # m => n \in 1 .. Len(T) /\ U[n] = T[n]
  <2>1. CASE free = {}
    <3>1. U = Append(T, NewMbuf) /\ m = Len(U)
      BY <2>1
    <3>2. NewMbuf.hm_hosts[i] = NewHost
      BY SMTT(40), <1>2 DEF NewMbuf
    <3> HIDE DEF U, m, i
    <3>3. /\ Table(U) /\ Len(U) = Len(T) + 1 /\ U[Len(U)] = NewMbuf
          /\ \A k \in 1 .. Len(T) : U[k] = T[k]
          /\ Places(U) \subseteq Places(T) \cup {NewHost}
          /\ \A g \in Host : MbufsOf(U, g) = MbufsOf(T, g) /\ Rfnms(U, g) = Rfnms(T, g)
      BY <3>1, MbufAdded
    <3>4. m \in 1 .. Len(U) /\ \A n \in 1 .. Len(U) : n # m => n \in 1 .. Len(T)
      BY SMTT(40), <3>1, <3>3, <1>2
    <3>5. ~p.inuse
      BY SMTT(40), <3>1, <3>2, <3>3, <1>4
    <3> QED BY SMTT(40), <3>3, <3>4, <3>5, <1>3
  <2>2. CASE free # {}
    <3>1. U = T /\ m = Smallest(free)
      BY <2>2
    <3>2. free \in SUBSET Nat
      BY SMTT(40), <1>2
    <3>3. m \in free
      BY ZenonT(40), <2>2, <3>1, <3>2, SmallestIs
    <3>4. m \in 1 .. Len(T) /\ ~T[m].hm_hosts[i].inuse
      BY ZenonT(40), <3>3
    <3> QED BY ZenonT(40), <3>1, <3>4, <1>3
  <2> QED BY Zenon, <2>1, <2>2
<1> HIDE DEF U, m, i
<1>6. U \in Seq(Mbuf) /\ Len(U) \in Nat
  BY SMTT(40), <1>5 DEF Table
<1>7. /\ U[m] \in Mbuf /\ U[m].hm_count \in Nat /\ U[m].hm_hosts \in [Index -> Place]
      /\ p \in Place /\ p \in Places(U)
  BY SMTT(40), <1>2, <1>5, <1>6, TablePlaces
<1>8. p.h_rfnm = 0
  BY <1>5, <1>7 DEF Table, Sound
<1> DEFINE hp == Entered(p, h)
           M  == [hm_count |-> U[m].hm_count + 1, hm_hosts |-> [U[m].hm_hosts EXCEPT ![i] = hp]]
<1>9. hp \in Place /\ hp.h_addr = h /\ Sound(hp) /\ hp.h_rfnm = 0
  BY Zenon, <1>7, <1>8 DEF Entered, Place, Sound
<1>10. V = [U EXCEPT ![m] = M]
  BY ZenonT(40), <1>1, <1>2, <1>5, <1>6, <1>7 DEF Mbuf, Entered
<1> HIDE DEF hp
<1>11. M \in Mbuf /\ M.hm_count = U[m].hm_count + 1 /\ M.hm_hosts = [U[m].hm_hosts EXCEPT ![i] = hp]
  BY <1>2, <1>7, <1>9 DEF Mbuf
<1> HIDE DEF M, V, p
<1>12. /\ V \in Seq(Mbuf) /\ Len(V) = Len(U) /\ V[m] = M
       /\ \A n \in 1 .. Len(U) : n # m => V[n] = U[n]
  BY SMTT(40), <1>5, <1>6, <1>10, <1>11
<1>13. ASSUME NEW n \in 1 .. Len(U), NEW j \in Index
       PROVE  V[n].hm_hosts[j] = IF n = m /\ j = i THEN hp ELSE U[n].hm_hosts[j]
  BY SMTT(40), <1>7, <1>11, <1>12
<1>14. Counted(T) => Counted(V)
  <2>1. M.hm_count # 0
    BY SMTT(40), <1>7, <1>11
  <2> QED BY SMTT(40), <2>1, <1>5, <1>12 DEF Counted
<1>15. /\ Table(V) /\ Known(V, h) /\ HostIn(V, h) = hp /\ Rfnms(V, h) = hp.h_rfnm
       /\ Places(V) \subseteq {x \in Places(U) : x.h_addr # h} \cup {hp}
       /\ \A g \in Host : g # h => Rfnms(V, g) = Rfnms(U, g)
  <2>1. U[m].hm_hosts[HOSTHASH(h)].h_rfnm = 0
    BY SMTT(40), <1>8 DEF p, i
  <2>2. \A n \in 1 .. Len(U), j \in Index :
          V[n].hm_hosts[j] = IF n = m /\ j = HOSTHASH(h) THEN hp ELSE U[n].hm_hosts[j]
    BY <1>13 DEF i
  <2>3. MbufsOf(U, h) \subseteq {m}
    BY <1>5
  <2> QED BY SMTT(40), <2>1, <2>2, <2>3, <1>5, <1>9, <1>12, PlaceChanged
<1>16. \A g \in Host : Rfnms(V, g) = Rfnms(T, g)
  BY SMTT(40), <1>3, <1>5, <1>9, <1>15
<1>17. p \in Places(T) \cup {NewHost} /\ Places(V) \subseteq Places(T) \cup {NewHost, hp}
  BY SMTT(40), <1>5, <1>7, <1>15
<1> QED BY SMTT(40), <1>5, <1>7, <1>8, <1>14, <1>15, <1>16, <1>17 DEF hp, V
-----------------------------------------------------------------------------
(* Sending a message                                                       *)

(* Packets are only held for the host itself, while it is at its limit.    *)
Waits(p) ==
  p.h_q # <<>> => p.h_rfnm >= MaxRfnm /\ Messages(p.h_q) \subseteq {p.h_addr}

(* The place of h between the RFNM and the message that it allows.         *)
Behind(p, h) ==
  /\ p.h_addr = h /\ ~p.dead
  /\ p.h_rfnm + 1 >= MaxRfnm /\ Messages(p.h_q) \subseteq {h}

(* The first step of impsnd: hostlookup, and hostenter if it finds nothing. *)
Found(T, h) == IF Known(T, h) THEN hostlookup(T, h) ELSE hostenter(T, h)

(* The host of the message then has a place in use, with the count that it *)
(* had.                                                                    *)
LEMMA FoundIs ==
  ASSUME NEW T, Table(T), NEW h \in Host
  PROVE  LET V == Found(T, h)
         IN  /\ Table(V) /\ (Counted(T) => Counted(V)) /\ Known(V, h)
             /\ \A g \in Host : Rfnms(V, g) = Rfnms(T, g)
             /\ HostIn(V, h) \in Place /\ HostIn(V, h) \in Places(V) /\ HostIn(V, h).inuse
             /\ HostIn(V, h).h_addr = h /\ Sound(HostIn(V, h)) /\ Rfnms(V, h) = HostIn(V, h).h_rfnm
             /\ (\A p \in Places(T) : Waits(p) \/ Behind(p, h)) =>
                  \A p \in Places(V) : Waits(p) \/ Behind(p, h)
<1> DEFINE V == Found(T, h)
           hp == HostIn(V, h)
           Goal == /\ Table(V) /\ (Counted(T) => Counted(V)) /\ Known(V, h)
                   /\ \A g \in Host : Rfnms(V, g) = Rfnms(T, g)
                   /\ hp.inuse
                   /\ (\A p \in Places(T) : Waits(p) \/ Behind(p, h)) =>
                        \A p \in Places(V) : Waits(p) \/ Behind(p, h)
<1>1. ASSUME Known(T, h) PROVE Goal
  <2> DEFINE old == HostIn(T, h)
  <2>1. V = hostlookup(T, h)
    BY <1>1 DEF Found
  <2>2. /\ Table(V) /\ (Counted(T) => Counted(V)) /\ Known(V, h)
        /\ hp = [old EXCEPT !.inuse = TRUE]
        /\ old \in Place /\ old \in Places(T)
        /\ Places(V) \subseteq {p \in Places(T) : p.h_addr # h} \cup {[old EXCEPT !.inuse = TRUE]}
        /\ \A g \in Host : Rfnms(V, g) = Rfnms(T, g)
    BY <1>1, <2>1, LookupIs
  <2> HIDE DEF V, hp, old
  <2>3. /\ hp.inuse /\ hp.h_q = old.h_q /\ hp.h_addr = old.h_addr /\ hp.h_timer = old.h_timer
        /\ hp.dead = old.dead /\ hp.h_rfnm = old.h_rfnm
    BY <2>2 DEF Place
  <2>4. Places(V) \subseteq Places(T) \cup {hp}
    BY <2>2
  <2>5. (\A p \in Places(T) : Waits(p) \/ Behind(p, h)) =>
          \A p \in Places(V) : Waits(p) \/ Behind(p, h)
    BY ZenonT(40), <2>2, <2>3, <2>4 DEF Waits, Behind
  <2> QED BY <2>2, <2>3, <2>5
<1>2. ASSUME ~Known(T, h) PROVE Goal
  <2>1. V = hostenter(T, h)
    BY SMTT(40), <1>2 DEF Found
  <2>2. PICK old \in Places(T) \cup {NewHost} :
          /\ Table(V) /\ (Counted(T) => Counted(V)) /\ Known(V, h)
          /\ \A g \in Host : Rfnms(V, g) = Rfnms(T, g)
          /\ old \in Place /\ ~old.inuse /\ old.h_rfnm = 0 /\ hp = Entered(old, h)
          /\ Places(V) \subseteq Places(T) \cup {NewHost, Entered(old, h)}
    BY <1>2, <2>1, EnterIs
  <2> HIDE DEF V, hp
  <2>3. /\ hp.inuse /\ hp.h_q = old.h_q /\ hp.h_addr = h /\ ~hp.dead /\ hp.h_rfnm = 0
    BY <2>2 DEF Place, Entered
  <2>4. NewHost.h_q = <<>> /\ ~NewHost.dead
    BY SMTT(40) DEF NewHost
  <2>5. Places(V) \subseteq Places(T) \cup {NewHost, hp}
    BY <2>2
  <2>6. ASSUME NEW p \in Places(T) PROVE p.h_addr # h
    <3>1. PICK n \in 1 .. Len(T), j \in Index : p = T[n].hm_hosts[j]
      BY DEF Places
    <3>2. SUFFICES ASSUME p.h_addr = h PROVE n \in MbufsOf(T, h)
      BY SMTT(40), <1>2, HostIs DEF Known
    <3>3. j = HOSTHASH(h)
      BY SMTT(40), <3>1, <3>2, ImpAssumption DEF Table
    <3> QED BY SMTT(40), <3>1, <3>2, <3>3 DEF MbufsOf
  <2>7. ASSUME \A p \in Places(T) : Waits(p) \/ Behind(p, h) PROVE \A p \in Places(V) : Waits(p)
    <3>1. \A p \in Places(T) : Waits(p)
      BY <2>6, <2>7 DEF Behind
    <3>2. Waits(NewHost)
      BY <2>4 DEF Waits
    <3>3. old.h_q = <<>>
      BY SMTT(40), <3>1, <3>2, <2>2, ImpAssumption DEF Waits
    <3> QED BY ZenonT(40), <3>1, <3>2, <3>3, <2>3, <2>5 DEF Waits
  <2> QED BY <2>2, <2>3, <2>7
<1>3. Goal
  BY SMTT(40), <1>1, <1>2
<1> HIDE DEF V
<1>4. /\ hp \in Place /\ hp \in Places(V) /\ hp.h_addr = h /\ Sound(hp) /\ Rfnms(V, h) = hp.h_rfnm
  <2>1. PICK m : m \in MbufsOf(V, h)
    BY SMTT(40), <1>3 DEF Known
  <2> QED BY <2>1, <1>3, HostIs
<1> QED BY <1>3, <1>4 DEF V

(* The place of an address is the one that hostlookup finds.               *)
LEMMA OnePlace ==
  ASSUME NEW T, Table(T), NEW h \in Host, NEW p \in Places(T), p.h_addr = h
  PROVE  Known(T, h) /\ p = HostIn(T, h)
<1>1. PICK n \in 1 .. Len(T), j \in Index : p = T[n].hm_hosts[j]
  BY SMTT(40) DEF Places
<1>2. j = HOSTHASH(h)
  BY <1>1, ImpAssumption DEF Table
<1>3. n \in MbufsOf(T, h)
  BY <1>1, <1>2 DEF MbufsOf
<1> QED BY SMTT(40), <1>1, <1>2, <1>3, HostIs

(* What impsnd does to the place hp of the host, once it is found in V.    *)
SndResult(V, q, h, hp, r) ==
  \/ /\ hp.dead /\ r.hosts = With(V, h, [hp EXCEPT !.inuse = FALSE])
     /\ r.snd = q /\ r.drops = FALSE
  \/ /\ ~hp.dead /\ hp.h_rfnm < MaxRfnm
     /\ r.hosts = With(V, h, [hp EXCEPT !.h_timer = HOSTTIMER, !.h_rfnm = hp.h_rfnm + 1])
     /\ r.snd = Append(q, h) /\ r.drops = FALSE
  \/ /\ ~hp.dead
     /\ r.hosts = With(V, h, [hp EXCEPT !.h_timer = HOSTTIMER, !.h_rfnm = hp.h_rfnm])
     /\ r.snd = q /\ r.drops = TRUE
  \/ /\ ~hp.dead /\ ~(hp.h_rfnm < MaxRfnm)
     /\ r.hosts = With(V, h, [hp EXCEPT !.h_q = Append(hp.h_q, h), !.h_qcnt = hp.h_qcnt + 1])
     /\ r.snd = q /\ r.drops = FALSE
  \/ /\ ~hp.dead /\ ~(hp.h_rfnm < MaxRfnm)
     /\ r.hosts = V /\ r.snd = q /\ r.drops = FALSE

(* The ways through impsnd: the host is dead, the message is sent, dropped *)
(* by the full output queue, held back, or dropped by the full holding     *)
(* queue.                                                                  *)
LEMMA SndForms ==
  ASSUME NEW T, NEW q, NEW h
  PROVE  SndResult(Found(T, h), q, h, HostIn(Found(T, h), h), impsnd(T, q, h))
<1> DEFINE V  == Found(T, h)
           hp == HostIn(V, h)
           r  == impsnd(T, q, h)
<1>1. r = IF hp.dead
          THEN [hosts |-> With(V, h, [hp EXCEPT !.inuse = FALSE]), snd |-> q, drops |-> FALSE]
          ELSE IF hp.h_rfnm < MaxRfnm
          THEN Enque(V, q, h, hp)
          ELSE IF hp.h_qcnt < MaxHeld
          THEN [hosts |-> With(V, h, [hp EXCEPT !.h_q = Append(hp.h_q, h), !.h_qcnt = hp.h_qcnt + 1]),
                snd |-> q, drops |-> FALSE]
          ELSE [hosts |-> V, snd |-> q, drops |-> FALSE]
  BY DEF impsnd, Found
<1>2. /\ QFULL(q) => Enque(V, q, h, hp) =
           [hosts |-> With(V, h, [hp EXCEPT !.h_timer = HOSTTIMER, !.h_rfnm = hp.h_rfnm]),
            snd |-> q, drops |-> TRUE]
      /\ ~QFULL(q) => Enque(V, q, h, hp) =
           [hosts |-> With(V, h, [hp EXCEPT !.h_timer = HOSTTIMER, !.h_rfnm = hp.h_rfnm + 1]),
            snd |-> Append(q, h), drops |-> FALSE]
  <2> HIDE DEF V, hp, r
  <2>1. QFULL(q) \in BOOLEAN
    BY DEF QFULL
  <2>2. CASE QFULL(q) = TRUE
    BY <2>2 DEF Enque
  <2>3. CASE QFULL(q) = FALSE
    BY Zenon, <2>3 DEF Enque
  <2> QED BY Zenon, <2>1, <2>2, <2>3
<1> HIDE DEF V, hp, r
<1> SUFFICES SndResult(V, q, h, hp, r)
  BY DEF V, hp, r
<1>3. CASE hp.dead
  BY <1>1, <1>3 DEF SndResult
<1>4. CASE ~hp.dead /\ hp.h_rfnm < MaxRfnm
  <2>1. r = Enque(V, q, h, hp)
    BY <1>1, <1>4
  <2>2. CASE QFULL(q)
    BY <2>1, <2>2, <1>2, <1>4 DEF SndResult
  <2>3. CASE ~QFULL(q)
    BY <2>1, <2>3, <1>2, <1>4 DEF SndResult
  <2> QED BY <2>2, <2>3
<1>5. CASE ~hp.dead /\ ~(hp.h_rfnm < MaxRfnm) /\ hp.h_qcnt < MaxHeld
  BY <1>1, <1>5 DEF SndResult
<1>6. CASE ~hp.dead /\ ~(hp.h_rfnm < MaxRfnm) /\ ~(hp.h_qcnt < MaxHeld)
  BY SMTT(40), <1>1, <1>6 DEF SndResult
<1> QED BY <1>3, <1>4, <1>5, <1>6

(* impsnd counts the message it puts into the output queue, and only that; *)
(* if everybody's packets wait for good reason, they still do, unless it   *)
(* drops one.                                                              *)
Sends(T, q, h, r) ==
  /\ Table(r.hosts) /\ (Counted(T) => Counted(r.hosts)) /\ r.drops \in BOOLEAN
  /\ \A g \in Host : g # h => Rfnms(r.hosts, g) = Rfnms(T, g)
  /\ \/ r.snd = q /\ Rfnms(r.hosts, h) = Rfnms(T, h)
     \/ /\ r.snd = Append(q, h) /\ Rfnms(r.hosts, h) = Rfnms(T, h) + 1
        /\ Rfnms(T, h) < MaxRfnm
  /\ (\A p \in Places(T) : Waits(p) \/ Behind(p, h)) =>
       r.drops \/ \A p \in Places(r.hosts) : Waits(p)

(* That is what impsnd does, whichever way it takes.                       *)
LEMMA SndIs ==
  ASSUME NEW T, Table(T), NEW h \in Host, NEW q
  PROVE  Sends(T, q, h, impsnd(T, q, h))
<1> DEFINE V  == Found(T, h)
           hp == HostIn(V, h)
           r  == impsnd(T, q, h)
           Queued == \A p \in Places(T) : Waits(p) \/ Behind(p, h)
           Outcome(W, snd, drops) ==
             /\ Table(W) /\ (Counted(T) => Counted(W)) /\ drops \in BOOLEAN
             /\ \A g \in Host : g # h => Rfnms(W, g) = Rfnms(T, g)
             /\ \/ snd = q /\ Rfnms(W, h) = Rfnms(T, h)
                \/ /\ snd = Append(q, h) /\ Rfnms(W, h) = Rfnms(T, h) + 1
                   /\ Rfnms(T, h) < MaxRfnm
             /\ Queued => drops \/ \A p \in Places(W) : Waits(p)
<1>1. /\ Table(V) /\ (Counted(T) => Counted(V)) /\ Known(V, h)
      /\ \A g \in Host : Rfnms(V, g) = Rfnms(T, g)
      /\ hp \in Place /\ hp \in Places(V) /\ hp.inuse
      /\ hp.h_addr = h /\ Sound(hp) /\ Rfnms(V, h) = hp.h_rfnm
      /\ Queued => \A p \in Places(V) : Waits(p) \/ Behind(p, h)
  BY FoundIs
<1> HIDE DEF V, hp, r, Queued
<1>2. hp.h_rfnm \in Nat /\ hp.h_q \in Seq(Host) /\ hp.h_qcnt \in Int /\ MaxRfnm \in Nat
  BY <1>1, ImpAssumption DEF Place
<1>a. HOSTTIMER \in Nat /\ HOSTTIMER > 0
  BY ImpAssumption
<1>b. hp \in Place /\ hp.inuse /\ hp.h_addr = h
  BY <1>1
<1>c. Queued => Waits(hp) \/ Behind(hp, h)
  BY SMTT(40), <1>1
<1>3. ASSUME NEW new \in Place, new.h_addr = h, Sound(new)
      PROVE  LET W == With(V, h, new)
             IN  /\ Table(W) /\ (Counted(T) => Counted(W)) /\ Rfnms(W, h) = new.h_rfnm
                 /\ \A g \in Host : g # h => Rfnms(W, g) = Rfnms(T, g)
                 /\ Queued /\ Waits(new) => \A p \in Places(W) : Waits(p)
  <2> DEFINE W == With(V, h, new)
  <2>1. /\ Table(W) /\ (Counted(V) => Counted(W)) /\ Rfnms(W, h) = new.h_rfnm
        /\ Places(W) \subseteq {p \in Places(V) : p.h_addr # h} \cup {new}
        /\ \A g \in Host : g # h => Rfnms(W, g) = Rfnms(V, g)
    BY SMTT(40), <1>1, <1>3, WithIs
  <2> HIDE DEF W
  <2>2. Queued /\ Waits(new) => \A p \in Places(W) : Waits(p)
    BY <2>1, <1>1 DEF Behind
  <2> QED BY SMTT(40), <2>1, <2>2, <1>1 DEF W
<1>4. ASSUME hp.dead PROVE Outcome(With(V, h, [hp EXCEPT !.inuse = FALSE]), q, FALSE)
  <2> DEFINE new == [hp EXCEPT !.inuse = FALSE]
  <2>1. /\ new \in Place /\ new.h_addr = h /\ new.h_rfnm = hp.h_rfnm /\ new.h_q = hp.h_q
        /\ new.h_timer = hp.h_timer /\ new.dead
    BY Zenon, <1>1, <1>4 DEF Place
  <2>2. Sound(new)
    BY <2>1, <1>1, <1>4 DEF Sound
  <2>3. Queued => Waits(new)
    BY <2>1, <1>1, <1>4 DEF Waits, Behind
  <2> HIDE DEF new
  <2> QED BY Zenon, <2>1, <2>2, <2>3, <1>1, <1>3 DEF new
<1>5. ASSUME ~hp.dead, hp.h_rfnm < MaxRfnm
      PROVE  Outcome(With(V, h, [hp EXCEPT !.h_timer = HOSTTIMER, !.h_rfnm = hp.h_rfnm + 1]),
                  Append(q, h), FALSE)
  <2> DEFINE new == [hp EXCEPT !.h_timer = HOSTTIMER, !.h_rfnm = hp.h_rfnm + 1]
  <2>1. /\ new \in Place /\ new.h_addr = h /\ new.h_rfnm = hp.h_rfnm + 1 /\ new.h_q = hp.h_q
        /\ new.h_timer > 0 /\ ~new.dead /\ new.inuse
    <3>1. hp.h_rfnm + 1 \in Nat
      BY <1>2
    <3> QED BY Zenon, <3>1, <1>a, <1>b, <1>5 DEF Place
  <2>2. Sound(new)
    BY <2>1 DEF Sound
  <2>3. Queued => Waits(new)
    <3>1. SUFFICES ASSUME Queued, hp.h_q # <<>>
                   PROVE  hp.h_rfnm + 1 >= MaxRfnm /\ Messages(hp.h_q) \subseteq {h}
      BY <2>1 DEF Waits
    <3>2. ~Waits(hp)
      BY <3>1, <1>2, <1>5 DEF Waits
    <3> QED BY <3>1, <3>2, <1>c DEF Behind
  <2> HIDE DEF new
  <2> QED BY Zenon, <2>1, <2>2, <2>3, <1>1, <1>3, <1>5 DEF new
<1>6. ASSUME ~hp.dead
      PROVE  Outcome(With(V, h, [hp EXCEPT !.h_timer = HOSTTIMER, !.h_rfnm = hp.h_rfnm]), q, TRUE)
  <2> DEFINE new == [hp EXCEPT !.h_timer = HOSTTIMER, !.h_rfnm = hp.h_rfnm]
  <2>1. /\ new \in Place /\ new.h_addr = h /\ new.h_rfnm = hp.h_rfnm
        /\ new.h_timer > 0 /\ ~new.dead /\ new.inuse
    BY Zenon, <1>a, <1>b, <1>2, <1>6 DEF Place
  <2>2. Sound(new)
    BY <2>1 DEF Sound
  <2> HIDE DEF new
  <2> QED BY Zenon, <2>1, <2>2, <1>1, <1>3 DEF new
<1>7. ASSUME ~hp.dead, ~(hp.h_rfnm < MaxRfnm)
      PROVE  Outcome(With(V, h, [hp EXCEPT !.h_q = Append(hp.h_q, h), !.h_qcnt = hp.h_qcnt + 1]), q, FALSE)
  <2> DEFINE new == [hp EXCEPT !.h_q = Append(hp.h_q, h), !.h_qcnt = hp.h_qcnt + 1]
  <2>1. /\ new \in Place /\ new.h_addr = h /\ new.h_rfnm = hp.h_rfnm /\ new.h_q = Append(hp.h_q, h)
        /\ ~new.dead /\ new.inuse
    <3>1. Append(hp.h_q, h) \in Seq(Host) /\ hp.h_qcnt + 1 \in Int
      BY <1>2
    <3> QED BY Zenon, <3>1, <1>b, <1>7 DEF Place
  <2>2. Sound(new)
    BY <2>1 DEF Sound
  <2>3. Messages(new.h_q) \subseteq Messages(hp.h_q) \cup {h}
    BY SMTT(40), <2>1, <1>2 DEF Messages
  <2>4. Queued => Messages(hp.h_q) \subseteq {h}
    <3>1. Messages(<<>>) = {}
      BY DEF Messages
    <3> QED BY Zenon, <3>1, <1>1 DEF Waits, Behind
  <2>5. Queued => Waits(new)
    BY <2>1, <2>3, <2>4, <1>2, <1>7 DEF Waits
  <2> HIDE DEF new
  <2> QED BY ZenonT(40), <2>1, <2>2, <2>5, <1>1, <1>3 DEF new
<1>8. ASSUME ~hp.dead, ~(hp.h_rfnm < MaxRfnm) PROVE Outcome(V, q, FALSE)
  <2>1. ASSUME Queued, NEW p \in Places(V) PROVE Waits(p)
    <3>1. CASE p.h_addr = h
      <4>1. p = hp
        BY <3>1, <1>1, OnePlace DEF hp
      <4>2. CASE Waits(hp)
        BY SMTT(40), <4>1, <4>2
      <4>3. CASE Behind(hp, h)
        <5>1. hp.h_rfnm >= MaxRfnm
          BY SMTT(40), <1>2, <1>8
        <5> QED BY <4>1, <4>3, <5>1 DEF Waits, Behind
      <4> QED BY SMTT(40), <4>2, <4>3, <2>1, <1>c
    <3>2. CASE p.h_addr # h
      BY <3>2, <2>1, <1>1 DEF Behind
    <3> QED BY <3>1, <3>2
  <2> QED BY <2>1, <1>1
<1>9. Outcome(r.hosts, r.snd, r.drops)
  <2> HIDE DEF Outcome
  <2>1. SndResult(V, q, h, hp, r)
    BY SndForms DEF V, hp, r
  <2> QED BY ZenonT(40), <2>1, <1>4, <1>5, <1>6, <1>7, <1>8 DEF SndResult
<1> QED BY SMTT(40), <1>9 DEF r, Queued, Sends
-----------------------------------------------------------------------------
(* Releasing places and mbufs                                              *)

(* The chain without its mbufs of count zero: some hosts lose their place  *)
(* and with it their count.                                                *)
LEMMA LinkedIs ==
  ASSUME NEW T, Table(T)
  PROVE  /\ Table(Linked(T)) /\ Counted(Linked(T)) /\ Places(Linked(T)) \subseteq Places(T)
         /\ \A g \in Host : Rfnms(Linked(T), g) \in {Rfnms(T, g), 0}
         /\ Counted(T) => Linked(T) = T
<1> DEFINE S == {m \in 1 .. Len(T) : T[m].hm_count # 0}
           L == Linked(T)
           f == [k \in 1 .. Cardinality(S) |-> NthOf(S, k)]
<1>1. T \in Seq(Mbuf) /\ Len(T) \in Nat /\ S \in SUBSET (1 .. Len(T)) /\ budget.hash \in [Host -> Index]
  BY DEF Table
<1>2. L = [k \in 1 .. Cardinality(S) |-> T[NthOf(S, k)]]
  BY DEF Linked
<1>3. \A m \in S : m \in 1 .. Len(T) /\ T[m].hm_count # 0
  OBVIOUS
<1>4. Counted(T) => S = 1 .. Len(T)
  BY DEF Counted
<1> HIDE DEF S, L
<1>5. Cardinality(S) \in Nat
  BY Zenon, <1>1, BoundedIsFinite
<1>6. \A k \in 1 .. Cardinality(S) : NthOf(S, k) \in S
  BY Zenon, <1>1, NthIs
<1>7. \A j, k \in 1 .. Cardinality(S) : NthOf(S, j) = NthOf(S, k) => j = k
  BY Zenon, <1>1, NthOnto
<1>8. \A k \in 1 .. Cardinality(S) : f[k] \in 1 .. Len(T) /\ T[f[k]].hm_count # 0 /\ L[k] = T[f[k]]
  BY <1>2, <1>3, <1>6
<1>9. \A j, k \in 1 .. Cardinality(S) : f[j] = f[k] => j = k
  BY <1>7
<1>10. \A k \in 1 .. Cardinality(S) : T[f[k]] \in Mbuf
  BY <1>1, <1>8
<1>11. L \in [1 .. Cardinality(S) -> Mbuf]
  <2>1. \A m \in 1 .. Len(T) : T[m] \in Mbuf
    BY <1>1
  <2>2. \A k \in 1 .. Cardinality(S) : T[NthOf(S, k)] \in Mbuf
    BY <2>1, <1>3, <1>6
  <2> QED BY <2>2, <1>2
<1>12. L \in Seq(Mbuf) /\ Len(L) = Cardinality(S)
  BY <1>5, <1>11
<1> HIDE DEF f
<1>13. Counted(L)
  BY SMTT(40), <1>8, <1>12 DEF Counted
<1>14. Places(L) \subseteq Places(T)
  <2>1. SUFFICES ASSUME NEW k \in 1 .. Len(L), NEW i \in Index PROVE L[k].hm_hosts[i] \in Places(T)
    BY DEF Places
  <2>2. f[k] \in 1 .. Len(T) /\ L[k] = T[f[k]]
    BY SMTT(40), <1>8, <1>12
  <2> QED BY SMTT(40), <2>2 DEF Places
<1>15. \A p \in Places(L) : Sound(p)
  BY SMTT(40), <1>14 DEF Table
<1>16. ASSUME NEW k \in 1 .. Len(L), NEW i \in Index, L[k].hm_hosts[i].h_addr # None
       PROVE  HOSTHASH(L[k].hm_hosts[i].h_addr) = i
  <2>1. f[k] \in 1 .. Len(T) /\ L[k] = T[f[k]]
    BY <1>8, <1>12
  <2> QED BY SMTT(40), <2>1, <1>16 DEF Table
<1>17. ASSUME NEW j \in 1 .. Len(L), NEW k \in 1 .. Len(L), NEW i \in Index,
              L[j].hm_hosts[i].h_addr = L[k].hm_hosts[i].h_addr, L[j].hm_hosts[i].h_addr # None
       PROVE  j = k
  <2>1. f[j] \in 1 .. Len(T) /\ L[j] = T[f[j]] /\ f[k] \in 1 .. Len(T) /\ L[k] = T[f[k]]
    BY SMTT(40), <1>8, <1>12
  <2>2. f[j] = f[k]
    BY SMTT(40), <2>1, <1>17 DEF Table
  <2> QED BY SMTT(40), <2>2, <1>9, <1>12
<1>18. Table(L)
  BY SMTT(40), <1>1, <1>12, <1>15, <1>16, <1>17 DEF Table
<1>19. ASSUME NEW g \in Host PROVE Rfnms(L, g) \in {Rfnms(T, g), 0}
  <2>1. CASE MbufsOf(L, g) = {}
    BY SMTT(40), <2>1, HostIsNot
  <2>2. CASE MbufsOf(L, g) # {}
    <3>1. PICK k : k \in MbufsOf(L, g)
      BY <2>2
    <3>2. k \in 1 .. Len(L) /\ L[k].hm_hosts[HOSTHASH(g)].h_addr = g
      BY SMTT(40), <3>1 DEF MbufsOf
    <3>3. f[k] \in 1 .. Len(T) /\ L[k] = T[f[k]]
      BY SMTT(40), <3>2, <1>8, <1>12
    <3>4. f[k] \in MbufsOf(T, g)
      BY SMTT(40), <3>2, <3>3 DEF MbufsOf
    <3>5. Rfnms(T, g) = T[f[k]].hm_hosts[HOSTHASH(g)].h_rfnm
      BY SMTT(40), <3>4, HostIs
    <3>6. Rfnms(L, g) = L[k].hm_hosts[HOSTHASH(g)].h_rfnm
      BY <3>1, <1>18, HostIs
    <3> QED BY <3>3, <3>5, <3>6
  <2> QED BY <2>1, <2>2
<1>20. ASSUME Counted(T) PROVE L = T
  <2>0. Cardinality(1 .. Len(T)) = Len(T)
    <3>1. \A N \in Nat : Cardinality(1 .. N) = N
      BY FS_Interval
    <3> QED BY <3>1, <1>1
  <2>1. S = 1 .. Len(T) /\ Cardinality(S) = Len(T)
    BY <2>0, <1>4, <1>20
  <2>2. ASSUME NEW k \in 1 .. Len(T) PROVE NthOf(S, k) = k
    <3>1. NthOf(S, k) \in 1 .. Len(T) /\ Cardinality({n \in S : n <= NthOf(S, k)}) = k
      BY ZenonT(40), <2>1, <1>1, NthIs
    <3>2. {n \in S : n <= NthOf(S, k)} = 1 .. NthOf(S, k)
      BY <2>1, <3>1, <1>1
    <3>3. Cardinality(1 .. NthOf(S, k)) = NthOf(S, k)
      BY <3>1, <1>1, FS_Interval
    <3> QED BY Zenon, <3>1, <3>2, <3>3
  <2>3. L = [k \in 1 .. Len(T) |-> T[k]]
    BY SMTT(40), <2>1, <2>2, <1>2
  <2> QED BY <2>3, <1>1
<1> QED BY SMTT(40), <1>13, <1>14, <1>18, <1>19, <1>20 DEF L

(* The loops of hostreset and hostslowtimo release at most hm_count places *)
(* of an mbuf.                                                             *)
LEMMA FirstOfIs ==
  ASSUME ImpAssumption, NEW M \in Mbuf, NEW S \in SUBSET Index
  PROVE  /\ FirstOf(M, S) \in SUBSET S
         /\ Cardinality(FirstOf(M, S)) \in Nat /\ Cardinality(FirstOf(M, S)) <= M.hm_count
<1> DEFINE F == FirstOf(M, S)
           B(i) == {j \in S : j < i}
<1>1. M.hm_count \in Nat /\ HPMBUF \in Nat /\ S \in SUBSET (1 .. HPMBUF)
  BY ImpAssumption DEF Mbuf, Index
<1>2. F = {i \in S : Cardinality(B(i)) < M.hm_count}
  BY DEF FirstOf
<1> HIDE DEF F
<1>3. F \in SUBSET S
  BY <1>2
<1>4. Cardinality(F) \in Nat
  BY <1>1, <1>3, BoundedIsFinite
<1>5. ASSUME F = {} PROVE Cardinality(F) <= M.hm_count
  <2>1. Cardinality(F) = 0
    BY <1>5, FS_EmptySet
  <2> QED BY <2>1, <1>1
<1>6. ASSUME F # {} PROVE Cardinality(F) <= M.hm_count
  <2>1. F \in SUBSET (1 .. HPMBUF)
    BY <1>1, <1>3
  <2>2. PICK i \in F : \A j \in F : j <= i
    BY Zenon, <2>1, <1>1, <1>6, LargestOf
  <2>3. i \in S /\ i \in 1 .. HPMBUF /\ Cardinality(B(i)) < M.hm_count
    BY <2>1, <1>2
  <2>4. Cardinality({n \in S : n <= i}) = Cardinality({n \in S : n <= i - 1}) + 1
    BY <2>3, <1>1, UpTo
  <2>5. \A n \in S : n <= i - 1 <=> n < i
    BY <2>3, <1>1
  <2>6. {n \in S : n <= i - 1} = B(i)
    BY <2>5
  <2>7. F \in SUBSET {n \in S : n <= i} /\ {n \in S : n <= i} \in SUBSET (1 .. HPMBUF)
    BY Zenon, <2>2, <1>1, <1>3
  <2>8. Cardinality(F) <= Cardinality({n \in S : n <= i})
    BY <2>7, <1>1, BoundedIsFinite
  <2>9. B(i) \in SUBSET (1 .. HPMBUF)
    BY Zenon, <1>1
  <2>10. Cardinality(B(i)) \in Nat
    BY Zenon, <2>9, <1>1, BoundedIsFinite
  <2>11. Cardinality(F) <= Cardinality(B(i)) + 1 /\ Cardinality(B(i)) < M.hm_count
    BY ZenonT(40), <2>3, <2>4, <2>6, <2>8
  <2> HIDE DEF B
  <2> QED BY SMTT(40), <2>10, <2>11, <1>1, <1>4
<1> QED BY SMTT(40), <1>3, <1>4, <1>5, <1>6, <1>1 DEF F

(* Releasing places S of an mbuf leaves an mbuf.                           *)
LEMMA ReleaseIs ==
  ASSUME ImpAssumption, NEW M \in Mbuf, NEW S \in SUBSET Index
  PROVE  /\ ReleaseAll(M, S) \in Mbuf
         /\ \A i \in Index : \/ ReleaseAll(M, S).hm_hosts[i] = M.hm_hosts[i]
                             \/ ReleaseAll(M, S).hm_hosts[i] = Released(M.hm_hosts[i])
<1> DEFINE F == FirstOf(M, S)
           H == [i \in Index |-> IF i \in F THEN Released(M.hm_hosts[i]) ELSE M.hm_hosts[i]]
<1>1. ReleaseAll(M, S) = [hm_count |-> M.hm_count - Cardinality(F), hm_hosts |-> H]
  BY DEF ReleaseAll
<1>2. Cardinality(F) \in Nat /\ Cardinality(F) <= M.hm_count
  BY FirstOfIs
<1> HIDE DEF F
<1>3. M.hm_count - Cardinality(F) \in Nat
  BY <1>2 DEF Mbuf
<1>4. \A i \in Index : M.hm_hosts[i] \in Place
  BY DEF Mbuf
<1>5. ASSUME NEW p \in Place PROVE Released(p) \in Place
  <2>1. <<>> \in Seq(Host) /\ 0 \in Nat
    OBVIOUS
  <2> QED BY ZenonT(40), <2>1 DEF Place, Released
<1>6. H \in [Index -> Place]
  BY <1>4, <1>5
<1>7. \A i \in Index : H[i] = IF i \in F THEN Released(M.hm_hosts[i]) ELSE M.hm_hosts[i]
  OBVIOUS
<1> HIDE DEF H
<1>8. ReleaseAll(M, S) \in Mbuf /\ ReleaseAll(M, S).hm_hosts = H
  BY SMTT(40), <1>1, <1>3, <1>6 DEF Mbuf
<1> QED BY SMTT(40), <1>7, <1>8

(* Places that keep their address and keep or lose their count: the table  *)
(* stays sound, and each host keeps its count or has none.                 *)
LEMMA CountsCleared ==
  ASSUME NEW T, Table(T), NEW V \in Seq(Mbuf), Len(V) = Len(T),
         \A m \in 1 .. Len(T), i \in Index :
           /\ V[m].hm_hosts[i].h_addr = T[m].hm_hosts[i].h_addr
           /\ V[m].hm_hosts[i].h_rfnm \in {T[m].hm_hosts[i].h_rfnm, 0}
           /\ Sound(V[m].hm_hosts[i])
  PROVE  Table(V) /\ \A g \in Host : Rfnms(V, g) \in {Rfnms(T, g), 0}
<1>1. \A p \in Places(V) : Sound(p)
  BY SMTT(40) DEF Places
<1>2. ASSUME NEW m \in 1 .. Len(V), NEW i \in Index, V[m].hm_hosts[i].h_addr # None
      PROVE  HOSTHASH(V[m].hm_hosts[i].h_addr) = i
  BY ZenonT(40), <1>2 DEF Table
<1>3. ASSUME NEW m \in 1 .. Len(V), NEW n \in 1 .. Len(V), NEW i \in Index,
             V[m].hm_hosts[i].h_addr = V[n].hm_hosts[i].h_addr, V[m].hm_hosts[i].h_addr # None
      PROVE  m = n
  BY SMTT(40), <1>3 DEF Table
<1>4. Table(V)
  BY ZenonT(40), <1>1, <1>2, <1>3 DEF Table
<1>5. ASSUME NEW g \in Host PROVE Rfnms(V, g) \in {Rfnms(T, g), 0}
  <2>1. HOSTHASH(g) \in Index
    BY ZenonT(40) DEF Table, HOSTHASH
  <2>2. MbufsOf(V, g) = MbufsOf(T, g)
    BY ZenonT(40), <2>1 DEF MbufsOf
  <2>3. CASE MbufsOf(T, g) = {}
    BY SMTT(40), <2>2, <2>3, HostIsNot
  <2>4. CASE MbufsOf(T, g) # {}
    <3>1. PICK m : m \in MbufsOf(T, g)
      BY SMTT(40), <2>4
    <3>2. m \in 1 .. Len(T)
      BY ZenonT(40), <3>1 DEF MbufsOf
    <3>3. Rfnms(T, g) = T[m].hm_hosts[HOSTHASH(g)].h_rfnm
      BY Zenon, <3>1, CountIs
    <3>4. Rfnms(V, g) = V[m].hm_hosts[HOSTHASH(g)].h_rfnm
      BY Zenon, <3>1, <2>2, <1>4, CountIs
    <3> QED BY ZenonT(40), <3>2, <3>3, <3>4, <2>1
  <2> QED BY ZenonT(40), <2>3, <2>4
<1> QED BY SMTT(40), <1>4, <1>5

(* What releasing and the clock leave of a sound place.                    *)
LEMMA PlaceReleased ==
  ASSUME ImpAssumption, NEW p \in Place
  PROVE  /\ Released(p) \in Place /\ Ticked(p) \in Place
         /\ Released(p).h_addr = p.h_addr /\ Released(p).h_rfnm = 0
         /\ Ticked(p).h_addr = p.h_addr /\ Ticked(p).h_rfnm = p.h_rfnm
         /\ Sound(Released(p)) /\ Waits(Released(p))
         /\ (Sound(p) => Sound(Ticked(p))) /\ (Waits(p) => Waits(Ticked(p)))
<1>1. <<>> \in Seq(Host) /\ 0 \in Nat
  OBVIOUS
<1>2. /\ Released(p) \in Place /\ Released(p).h_addr = p.h_addr /\ Released(p).h_rfnm = 0
      /\ Released(p).h_q = <<>> /\ ~Released(p).inuse /\ ~Released(p).dead
  BY ZenonT(40), <1>1 DEF Place, Released
<1>3. p.h_timer \in Nat
  BY DEF Place
<1> DEFINE t == IF p.h_timer > 0 THEN p.h_timer - 1 ELSE 0
<1>4. t \in Nat
  BY <1>3
<1>5. Ticked(p) = [p EXCEPT !.h_timer = t]
  BY DEF Ticked
<1> HIDE DEF t
<1>6. /\ Ticked(p) \in Place /\ Ticked(p).h_addr = p.h_addr /\ Ticked(p).h_rfnm = p.h_rfnm
      /\ Ticked(p).h_q = p.h_q /\ Ticked(p).inuse = p.inuse /\ Ticked(p).dead = p.dead
      /\ Ticked(p).h_timer = t
  BY ZenonT(40), <1>4, <1>5 DEF Place
<1>7. Sound(Released(p)) /\ Waits(Released(p))
  BY <1>2 DEF Sound, Waits
<1>8. (Sound(p) => Sound(Ticked(p))) /\ (Waits(p) => Waits(Ticked(p)))
  BY SMTT(40), <1>6 DEF Sound, Waits
<1> QED BY SMTT(40), <1>2, <1>6, <1>7, <1>8

(* hostreset releases places and nothing else.                             *)
LEMMA ResetIs ==
  ASSUME ImpAssumption, NEW T, Table(T), NEW net
  PROVE  LET V == hostreset(T, net)
         IN  /\ Table(V) /\ \A g \in Host : Rfnms(V, g) \in {Rfnms(T, g), 0}
             /\ (\A p \in Places(T) : Waits(p)) => \A p \in Places(V) : Waits(p)
<1> DEFINE V    == hostreset(T, net)
           S(m) == {i \in Index : in_netof(T[m].hm_hosts[i].h_addr) = net}
<1>1. T \in Seq(Mbuf) /\ Len(T) \in Nat
  BY DEF Table
<1>2. V = [m \in 1 .. Len(T) |-> ReleaseAll(T[m], S(m))]
  BY DEF hostreset
<1>3. \A m \in 1 .. Len(T) : S(m) \in SUBSET Index /\ T[m] \in Mbuf
  BY SMTT(40), <1>1
<1> HIDE DEF S, V
<1>4. ASSUME NEW m \in 1 .. Len(T)
      PROVE  /\ V[m] \in Mbuf
             /\ \A i \in Index : V[m].hm_hosts[i] \in {T[m].hm_hosts[i], Released(T[m].hm_hosts[i])}
  <2>1. V[m] = ReleaseAll(T[m], S(m))
    BY <1>2
  <2> QED BY SMTT(40), <2>1, <1>3, ReleaseIs
<1>5. V \in Seq(Mbuf) /\ Len(V) = Len(T)
  <2>1. V \in [1 .. Len(T) -> Mbuf]
    BY SMTT(40), <1>2, <1>4
  <2> QED BY SMTT(40), <2>1, <1>1
<1>6. ASSUME NEW m \in 1 .. Len(T), NEW i \in Index
      PROVE  LET p == T[m].hm_hosts[i]
                 r == V[m].hm_hosts[i]
             IN  /\ p \in Places(T) /\ r.h_addr = p.h_addr /\ r.h_rfnm \in {p.h_rfnm, 0} /\ Sound(r)
                 /\ (Waits(p) => Waits(r))
  <2> DEFINE p == T[m].hm_hosts[i]
             r == V[m].hm_hosts[i]
  <2>1. p \in Place /\ p \in Places(T)
    BY SMTT(40), <1>1, TablePlaces
  <2>2. Sound(p)
    BY SMTT(40), <2>1 DEF Table
  <2>3. r = p \/ r = Released(p)
    BY SMTT(40), <1>4
  <2> HIDE DEF p, r
  <2>4. /\ r.h_addr = p.h_addr /\ r.h_rfnm \in {p.h_rfnm, 0} /\ Sound(r)
        /\ (Waits(p) => Waits(r))
    BY ZenonT(40), <2>1, <2>2, <2>3, PlaceReleased
  <2> QED BY ZenonT(40), <2>1, <2>4 DEF p, r
<1>7. Table(V) /\ \A g \in Host : Rfnms(V, g) \in {Rfnms(T, g), 0}
  BY Zenon, <1>5, <1>6, CountsCleared
<1>8. ASSUME NEW r \in Places(V)
      PROVE  \E p \in Places(T) : Waits(p) => Waits(r)
  <2>1. PICK m \in 1 .. Len(T), i \in Index : r = V[m].hm_hosts[i]
    BY <1>5 DEF Places
  <2> QED BY Zenon, <2>1, <1>6
<1> QED BY Zenon, <1>7, <1>8 DEF V

(* hostslowtimo ticks places, releases some of them, and nothing else.     *)
LEMMA TimeoutIs ==
  ASSUME ImpAssumption, NEW T, Table(T)
  PROVE  LET V == hostslowtimo(T)
         IN  /\ Table(V) /\ \A g \in Host : Rfnms(V, g) \in {Rfnms(T, g), 0}
             /\ (\A p \in Places(T) : Waits(p)) => \A p \in Places(V) : Waits(p)
<1> DEFINE V    == hostslowtimo(T)
           S(m) == {i \in Index : T[m].hm_hosts[i].h_timer = 1}
           H(m) == [i \in Index |-> Ticked(T[m].hm_hosts[i])]
           M(m) == [T[m] EXCEPT !.hm_hosts = H(m)]
<1>1. T \in Seq(Mbuf) /\ Len(T) \in Nat
  BY DEF Table
<1>2. V = [m \in 1 .. Len(T) |-> ReleaseAll(M(m), S(m))]
  BY DEF hostslowtimo, TickedAll
<1>3. \A m \in 1 .. Len(T) : S(m) \in SUBSET Index /\ T[m] \in Mbuf
  BY <1>1
<1>4. ASSUME NEW m \in 1 .. Len(T)
      PROVE  /\ M(m) \in Mbuf /\ M(m).hm_count = T[m].hm_count
             /\ \A i \in Index : M(m).hm_hosts[i] = Ticked(T[m].hm_hosts[i])
  <2>1. \A i \in Index : Ticked(T[m].hm_hosts[i]) \in Place
    BY ZenonT(40), <1>1, TablePlaces, PlaceReleased
  <2>2. H(m) \in [Index -> Place] /\ \A i \in Index : H(m)[i] = Ticked(T[m].hm_hosts[i])
    BY <2>1
  <2> HIDE DEF H
  <2> QED BY SMTT(40), <2>2, <1>3 DEF Mbuf
<1> HIDE DEF S, V, M
<1>5. ASSUME NEW m \in 1 .. Len(T)
      PROVE  /\ V[m] \in Mbuf
             /\ \A i \in Index : V[m].hm_hosts[i] \in {Ticked(T[m].hm_hosts[i]),
                                                       Released(Ticked(T[m].hm_hosts[i]))}
  <2>1. V[m] = ReleaseAll(M(m), S(m))
    BY SMTT(40), <1>2
  <2>2. /\ V[m] \in Mbuf
        /\ \A i \in Index : V[m].hm_hosts[i] = M(m).hm_hosts[i] \/ V[m].hm_hosts[i] = Released(M(m).hm_hosts[i])
    <3>1. M(m) \in Mbuf /\ S(m) \in SUBSET Index
      BY SMTT(40), <1>3, <1>4
    <3> QED BY SMTT(40), <2>1, <3>1, ReleaseIs
  <2> QED BY SMTT(40), <2>2, <1>3, <1>4
<1>6. V \in Seq(Mbuf) /\ Len(V) = Len(T)
  <2>1. V \in [1 .. Len(T) -> Mbuf]
    BY SMTT(40), <1>2, <1>5
  <2> QED BY <2>1, <1>1
<1>7. ASSUME NEW m \in 1 .. Len(T), NEW i \in Index
      PROVE  LET p == T[m].hm_hosts[i]
                 r == V[m].hm_hosts[i]
             IN  /\ p \in Places(T) /\ r.h_addr = p.h_addr /\ r.h_rfnm \in {p.h_rfnm, 0} /\ Sound(r)
                 /\ (Waits(p) => Waits(r))
  <2> DEFINE p == T[m].hm_hosts[i]
             r == V[m].hm_hosts[i]
  <2>1. p \in Place /\ p \in Places(T)
    BY <1>1, TablePlaces
  <2>2. Sound(p)
    BY <2>1 DEF Table
  <2>3. r = Ticked(p) \/ r = Released(Ticked(p))
    BY SMTT(40), <1>5
  <2> HIDE DEF p, r
  <2>4. /\ r.h_addr = p.h_addr /\ r.h_rfnm \in {p.h_rfnm, 0} /\ Sound(r)
        /\ (Waits(p) => Waits(r))
    BY ZenonT(40), <2>1, <2>2, <2>3, PlaceReleased
  <2> QED BY ZenonT(40), <2>1, <2>4 DEF p, r
<1>8. Table(V) /\ \A g \in Host : Rfnms(V, g) \in {Rfnms(T, g), 0}
  BY Zenon, <1>6, <1>7, CountsCleared
<1>9. ASSUME NEW r \in Places(V)
      PROVE  \E p \in Places(T) : Waits(p) => Waits(r)
  <2>1. PICK m \in 1 .. Len(T), i \in Index : r = V[m].hm_hosts[i]
    BY <1>6 DEF Places
  <2> QED BY Zenon, <2>1, <1>7
<1> QED BY Zenon, <1>8, <1>9 DEF V
=============================================================================
