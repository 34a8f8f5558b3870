----------------------------- MODULE ImpProofs ------------------------------
(***************************************************************************)
(* The table of hosts of an IMP, for any hosts, hash, limits and timers:   *)
(* the count of RFNMs is exact until it is cleared, messages to a host     *)
(* keep their order until a count is cleared or the output queue drops     *)
(* one.                                                                    *)
(*                                                                         *)
(* Both rest on what every place of the table satisfies: an address   *)
(* has one place, at its index, and a place that is not in use or is dead  *)
(* counts no message, so that whoever takes the place over starts at zero. *)
(***************************************************************************)
EXTENDS ImpTableProofs
-----------------------------------------------------------------------------
(* The messages to a host in the output queue                              *)

Sent(q, h) == Cardinality({i \in 1 .. Len(q) : q[i] = h})

Output == Seq(Host \cup {None})

Shifted(q, r, k) == Len(r) = Len(q) + k /\ \A i \in 1 .. Len(q) : r[i + k] = q[i]

(* Messages put before those of q move them and leave their number.        *)
LEMMA SentShifted ==
  ASSUME NEW q \in Output, NEW r \in Output, NEW k \in Nat, Shifted(q, r, k), NEW h
  PROVE  /\ Sent(q, h) = Cardinality({i \in k + 1 .. Len(r) : r[i] = h})
         /\ Sent(q, h) \in Nat /\ IsFiniteSet({i \in k + 1 .. Len(r) : r[i] = h})
<1> DEFINE A == {i \in 1 .. Len(q) : q[i] = h}
           B == {i \in k + 1 .. Len(r) : r[i] = h}
           f == [i \in A |-> i + k]
<1>1. /\ Len(q) \in Nat /\ Len(r) \in Nat
      /\ Len(r) = Len(q) + k /\ \A i \in 1 .. Len(q) : r[i + k] = q[i]
  BY DEF Output, Shifted
<1>2. A \in SUBSET (1 .. Len(q))
  OBVIOUS
<1>3. IsFiniteSet(A) /\ Cardinality(A) \in Nat
  <2> HIDE DEF A
  <2> QED BY Zenon, <1>1, <1>2, BoundedIsFinite
<1>4. \A i \in A : i + k \in B
  BY <1>1
<1>5. \A j \in B : j - k \in A /\ (j - k) + k = j
  <2> SUFFICES ASSUME NEW j \in B PROVE j - k \in A /\ (j - k) + k = j
    OBVIOUS
  <2>1. j - k \in 1 .. Len(q) /\ (j - k) + k = j
    BY <1>1
  <2>2. r[j] = h /\ r[(j - k) + k] = q[j - k]
    BY SMTT(40), <2>1, <1>1
  <2> QED BY <2>1, <2>2
<1>6. \A i, j \in A : i + k = j + k => i = j
  BY <1>1
<1> HIDE DEF A, B
<1>7. f \in Bijection(A, B)
  <2>1. f \in [A -> B] /\ \A i, j \in A : f[i] = f[j] => i = j
    BY SMTT(40), <1>4, <1>6
  <2>2. \A j \in B : \E i \in A : f[i] = j
    BY <1>5
  <2> HIDE DEF f
  <2> QED BY SMTT(40), <2>1, <2>2 DEF Bijection, Injection, IsInjective, Surjection
<1>8. IsFiniteSet(B) /\ Cardinality(B) = Cardinality(A)
  <2>1. ExistsBijection(A, B)
    BY SMTT(40), <1>7 DEF ExistsBijection
  <2> QED BY <2>1, <1>3, FS_Bijection
<1> QED BY SMTT(40), <1>3, <1>8 DEF A, B, Sent

(* impnoops puts some NOOPs before the messages of the queue.              *)
LEMMA NoopsBefore ==
  ASSUME NEW q, NEW r \in impnoops(q)
  PROVE  \E k \in Nat : r = [i \in 1 .. k |-> None] \o q
<1>1. PICK k \in 0 .. IMP_DROPCNT + 1 : r = WithNoops(q, k)
  BY Zenon DEF impnoops
<1>2. k \in Nat
  BY DEF IMP_DROPCNT
<1> QED BY Zenon, <1>1, <1>2 DEF WithNoops, NOOP

(* They are messages of the queue.                                         *)
LEMMA NoopsAreOutput ==
  ASSUME NEW q \in Output, NEW r \in impnoops(q)
  PROVE  r \in Output
<1>1. PICK k \in Nat : r = [i \in 1 .. k |-> None] \o q
  BY Zenon, NoopsBefore
<1>2. [i \in 1 .. k |-> None] \in Seq(Host \cup {None}) /\ q \in Seq(Host \cup {None})
  BY DEF Output
<1>3. [i \in 1 .. k |-> None] \o q \in Seq(Host \cup {None})
  BY <1>2
<1> QED BY <1>1, <1>3 DEF Output

(* impnoops adds no message to a host.                                     *)
LEMMA SentNoops ==
  ASSUME ImpAssumption, NEW q \in Output, NEW r \in impnoops(q), NEW h \in Host
  PROVE  r \in Output /\ Sent(r, h) = Sent(q, h)
<1>0. PICK k \in Nat : r = [i \in 1 .. k |-> None] \o q
  BY Zenon, NoopsBefore
<1> DEFINE p == [i \in 1 .. k |-> None]
<1>1. p \in Output /\ Len(p) = k /\ Len(q) \in Nat
  BY DEF Output
<1>2. r = p \o q
  BY <1>0
<1>3. \A i \in 1 .. k : p[i] = None
  OBVIOUS
<1> HIDE DEF p
<1>c. /\ r \in Output /\ Len(r) = Len(p) + Len(q)
      /\ \A i \in 1 .. Len(p) + Len(q) : r[i] = IF i <= Len(p) THEN p[i] ELSE q[i - Len(p)]
  <2>1. p \in Seq(Host \cup {None}) /\ q \in Seq(Host \cup {None})
    BY <1>1 DEF Output
  <2>2. p \o q \in Seq(Host \cup {None}) /\ Len(p \o q) = Len(p) + Len(q)
    BY <2>1
  <2>3. ASSUME NEW i \in 1 .. Len(p) + Len(q)
        PROVE  (p \o q)[i] = IF i <= Len(p) THEN p[i] ELSE q[i - Len(p)]
    BY <2>1
  <2> QED BY Zenon, <2>2, <2>3, <1>2 DEF Output
<1>4. r \in Output /\ Len(r) = Len(q) + k
  BY <1>1, <1>c
<1>5. \A i \in 1 .. Len(q) : r[i + k] = q[i]
  <2> TAKE i \in 1 .. Len(q)
  <2>1. i + k \in 1 .. Len(p) + Len(q) /\ ~(i + k <= Len(p)) /\ (i + k) - Len(p) = i
    BY <1>1
  <2> QED BY <2>1, <1>c
<1>6. \A i \in 1 .. k : r[i] # h
  <2>1. \A i \in 1 .. k : i \in 1 .. Len(p) + Len(q) /\ i <= Len(p)
    BY SMTT(40), <1>1
  <2>2. \A i \in 1 .. k : r[i] = p[i]
    BY SMTT(40), <2>1, <1>c
  <2> QED BY SMTT(40), <2>2, <1>3, ImpAssumption
<1>7. Sent(q, h) = Cardinality({i \in k + 1 .. Len(r) : r[i] = h})
  <2>1. Shifted(q, r, k)
    BY SMTT(40), <1>4, <1>5 DEF Shifted
  <2> QED BY SMTT(40), <2>1, <1>4, SentShifted
<1>8. \A i \in 1 .. Len(r) : r[i] = h => i \in k + 1 .. Len(r)
  BY SMTT(40), <1>4, <1>6, <1>1
<1>9. \A i \in k + 1 .. Len(r) : i \in 1 .. Len(r)
  BY SMTT(40), <1>4, <1>1
<1>10. {i \in k + 1 .. Len(r) : r[i] = h} = {i \in 1 .. Len(r) : r[i] = h}
  BY SMTT(40), <1>8, <1>9
<1> QED BY Zenon, <1>4, <1>7, <1>10 DEF Sent

(* The hardware takes one message from the queue.                          *)
LEMMA SentTail ==
  ASSUME NEW q \in Output, q # <<>>, NEW h
  PROVE  /\ Tail(q) \in Output /\ Head(q) \in Host \cup {None} /\ Sent(Tail(q), h) \in Nat
         /\ Sent(q, h) = IF Head(q) = h THEN Sent(Tail(q), h) + 1 ELSE Sent(Tail(q), h)
<1> DEFINE B == {i \in 1 + 1 .. Len(q) : q[i] = h}
           A == {i \in 1 .. Len(q) : q[i] = h}
<1>1. /\ Tail(q) \in Output /\ Head(q) = q[1] /\ Head(q) \in Host \cup {None}
      /\ Len(q) = Len(Tail(q)) + 1 /\ Len(q) \in Nat /\ Len(q) > 0
      /\ \A i \in 1 .. Len(Tail(q)) : q[i + 1] = Tail(q)[i]
  <2>1. /\ Head(q) \in Host \cup {None} /\ Tail(q) \in Output /\ Len(Tail(q)) = Len(q) - 1
        /\ \A i \in 1 .. Len(Tail(q)) : Tail(q)[i] = q[i + 1]
    BY DEF Output
  <2>2. Len(q) \in Nat /\ Len(q) > 0 /\ Head(q) = q[1]
    BY DEF Output
  <2> QED BY <2>1, <2>2
<1>2. Sent(Tail(q), h) = Cardinality(B) /\ Sent(Tail(q), h) \in Nat /\ IsFiniteSet(B)
  <2>1. PICK k \in Nat, t \in Output : k = 1 /\ t = Tail(q)
    BY Zenon, <1>1
  <2>2. Shifted(t, q, k)
    BY <2>1, <1>1 DEF Shifted
  <2>3. /\ Sent(t, h) = Cardinality({i \in k + 1 .. Len(q) : q[i] = h})
        /\ Sent(t, h) \in Nat /\ IsFiniteSet({i \in k + 1 .. Len(q) : q[i] = h})
    BY <2>2, SentShifted
  <2> QED BY <2>1, <2>3
<1>3. 1 \notin B /\ 1 \in 1 .. Len(q)
  BY <1>1
<1>4. \A i \in 1 .. Len(q) : i = 1 \/ i \in 1 + 1 .. Len(q)
  BY <1>1
<1>5. \A i \in 1 + 1 .. Len(q) : i \in 1 .. Len(q) /\ i # 1
  BY <1>1
<1>6. A = IF Head(q) = h THEN B \cup {1} ELSE B
  BY SMTT(40), <1>1, <1>3, <1>4, <1>5
<1> HIDE DEF A, B
<1>7. Cardinality(A) = IF Head(q) = h THEN Cardinality(B) + 1 ELSE Cardinality(B)
  BY Zenon, <1>2, <1>3, <1>6, FS_AddElement
<1> QED BY Zenon, <1>1, <1>2, <1>7 DEF A, Sent

(* impsnd puts one message at the end of the queue.                        *)
LEMMA SentAppend ==
  ASSUME NEW q \in Output, NEW g \in Host, NEW h
  PROVE  /\ Append(q, g) \in Output /\ Sent(q, h) \in Nat /\ Append(q, g) # q
         /\ Sent(Append(q, g), h) = IF g = h THEN Sent(q, h) + 1 ELSE Sent(q, h)
<1> DEFINE r == Append(q, g)
           A == {i \in 1 .. Len(q) : q[i] = h}
           B == {i \in 1 .. Len(r) : r[i] = h}
           n == Len(q) + 1
<1>1. /\ r \in Output /\ Len(r) = n /\ Len(q) \in Nat /\ r[n] = g
      /\ \A i \in 1 .. Len(q) : r[i] = q[i]
  BY DEF Output
<1>2. A \in SUBSET (1 .. Len(q))
  OBVIOUS
<1>3. IsFiniteSet(A) /\ Cardinality(A) \in Nat
  <2> HIDE DEF A
  <2> QED BY Zenon, <1>1, <1>2, BoundedIsFinite
<1>4. \A i \in 1 .. n : i \in 1 .. Len(q) \/ i = n
  BY <1>1
<1>5. \A i \in 1 .. Len(q) : i \in 1 .. n /\ i # n
  BY <1>1
<1>6. n \in 1 .. n /\ n \notin 1 .. Len(q)
  BY <1>1
<1>7. r # q
  BY <1>1
<1> HIDE DEF r, n
<1>8. B = IF g = h THEN A \cup {n} ELSE A
  BY SMTT(40), <1>1, <1>4, <1>5, <1>6
<1>9. n \notin A
  BY <1>6
<1> HIDE DEF A, B
<1>10. Cardinality(B) = IF g = h THEN Cardinality(A) + 1 ELSE Cardinality(A)
  BY ZenonT(40), <1>3, <1>8, <1>9, FS_AddElement
<1> QED BY Zenon, <1>1, <1>3, <1>7, <1>10 DEF A, B, Sent, r
-----------------------------------------------------------------------------
(* The inductive invariant                                                 *)

ImpTypes ==
  /\ budget \in [hash : [Host -> Index], inits : Nat, msgs : Nat, dead : Nat, bad : Nat,
                 resets : Nat, downs : Nat]
  /\ if_snd \in Seq(Host \cup {None})
  /\ flight \in [Host -> Nat]
  /\ forgotten \in SUBSET Host
  /\ ifq_drops \in BOOLEAN

(* Between two routines no mbuf of the chain has the count zero.           *)
TableInv == Table(hosts) /\ Counted(hosts)

(* While no count has been cleared and no message dropped, packets are     *)
(* held only for hosts at their limit, and impsnd lets nothing pass them.  *)
OrderInv ==
  ~ifq_drops /\ forgotten = {} => overtaken = {} /\ \A p \in Places(hosts) : Waits(p)

ImpInv == ImpTypes /\ TableInv /\ CountIsExact /\ OrderInv

(* HOSTHASH is the same function in every state: what is said of the table *)
(* after a step is said of it in the next state.                           *)
LEMMA NextTable ==
  ASSUME budget'.hash = budget.hash
  PROVE  /\ Table(hosts') => Table(hosts)'
         /\ Counted(hosts') => Counted(hosts)'
         /\ \A h : Rfnms(hosts, h)' = Rfnms(hosts', h)
         /\ (\A p \in Places(hosts') : Waits(p)) => (\A p \in Places(hosts) : Waits(p))'
<1>1. Table(hosts') => Table(hosts)'
  BY DEF Table, HOSTHASH, Places, Sound
<1>2. Counted(hosts') => Counted(hosts)'
  BY SMTT(40) DEF Counted
<1>3. \A h : Rfnms(hosts, h)' = Rfnms(hosts', h)
  BY DEF Rfnms, Known, HostIn, MbufsOf, HOSTHASH, Smallest
<1>4. (\A p \in Places(hosts') : Waits(p)) => (\A p \in Places(hosts) : Waits(p))'
  BY DEF Places
<1> QED BY SMTT(40), <1>1, <1>2, <1>3, <1>4

(* A state is good when its parts are.                                     *)
LEMMA Conclude ==
  ASSUME ImpTypes', budget'.hash = budget.hash, Table(hosts'), Counted(hosts'),
         \A h \in Host \ forgotten' : flight'[h] + Sent(if_snd', h) = Rfnms(hosts', h),
         ~ifq_drops' /\ forgotten' = {} => overtaken' = {} /\ \A p \in Places(hosts') : Waits(p)
  PROVE  ImpInv'
<1>1. TableInv'
  BY ZenonT(40), NextTable DEF TableInv
<1>2. CountIsExact'
  BY ZenonT(40), NextTable DEF CountIsExact, InFlight, Sent
<1>3. OrderInv'
  BY ZenonT(40), NextTable DEF OrderInv
<1> QED BY SMTT(40), <1>1, <1>2, <1>3 DEF ImpInv

(* What the invariant says of a state, with the messages of the queue.     *)
LEMMA Begin ==
  ASSUME ImpInv
  PROVE  /\ Table(hosts) /\ Counted(hosts)
         /\ budget.hash \in [Host -> Index] /\ if_snd \in Output /\ flight \in [Host -> Nat]
         /\ forgotten \in SUBSET Host /\ ifq_drops \in BOOLEAN
         /\ \A h \in Host \ forgotten : flight[h] + Sent(if_snd, h) = Rfnms(hosts, h)
         /\ ~ifq_drops /\ forgotten = {} => overtaken = {} /\ \A p \in Places(hosts) : Waits(p)
         /\ \A h \in Host : Rfnms(hosts, h) \in Nat /\ Sent(if_snd, h) \in Nat
<1>1. /\ Table(hosts) /\ Counted(hosts)
      /\ budget.hash \in [Host -> Index] /\ if_snd \in Output /\ flight \in [Host -> Nat]
      /\ forgotten \in SUBSET Host /\ ifq_drops \in BOOLEAN
  BY SMTT(40) DEF ImpInv, ImpTypes, TableInv, Output
<1>2. \A h \in Host \ forgotten : flight[h] + Sent(if_snd, h) = Rfnms(hosts, h)
  BY DEF ImpInv, CountIsExact, InFlight, Sent
<1>3. ~ifq_drops /\ forgotten = {} => overtaken = {} /\ \A p \in Places(hosts) : Waits(p)
  BY DEF ImpInv, OrderInv
<1>4. ASSUME NEW h \in Host PROVE Rfnms(hosts, h) \in Nat
  <2>1. CASE MbufsOf(hosts, h) = {}
    BY SMTT(40), <2>1, HostIsNot
  <2>2. CASE MbufsOf(hosts, h) # {}
    <3>1. PICK m : m \in MbufsOf(hosts, h)
      BY SMTT(40), <2>2
    <3>2. HostIn(hosts, h) \in Place /\ Rfnms(hosts, h) = HostIn(hosts, h).h_rfnm
      BY SMTT(40), <3>1, <1>1, HostIs
    <3> QED BY <3>2 DEF Place
  <2> QED BY SMTT(40), <2>1, <2>2
<1>5. ASSUME NEW h \in Host PROVE Sent(if_snd, h) \in Nat
  BY SMTT(40), <1>1, SentAppend
<1> QED BY ZenonT(40), <1>1, <1>2, <1>3, <1>4, <1>5

(* The table becomes what is linked of V.                                  *)
LEMMA BecomesIs ==
  ASSUME ImpInv, NEW V, Table(V), BecomesTable(V)
  PROVE  /\ Table(hosts') /\ Counted(hosts') /\ Places(hosts') \subseteq Places(V)
         /\ \A g \in Host : Rfnms(hosts', g) \in {Rfnms(V, g), 0}
         /\ Counted(V) => hosts' = V
         /\ forgotten' \in SUBSET Host
<1>1. /\ hosts' = Linked(V) /\ forgotten \in SUBSET Host
      /\ forgotten' = forgotten \cup {h \in Host : Rfnms(hosts', h) < Rfnms(hosts, h)}
  BY ZenonT(40), Begin DEF BecomesTable
<1>2. forgotten' \in SUBSET Host
  BY SMTT(40), <1>1
<1> QED BY SMTT(40), <1>1, <1>2, LinkedIs
-----------------------------------------------------------------------------
(* The actions                                                             *)

(* A step that leaves the table alone and loses or adds no message.        *)
LEMMA TableKept ==
  ASSUME ImpInv, ImpTypes', budget'.hash = budget.hash,
         UNCHANGED <<hosts, ifq_drops, forgotten, overtaken>>,
         \A h \in Host : flight'[h] + Sent(if_snd', h) = flight[h] + Sent(if_snd, h)
  PROVE  ImpInv'
<1>1. /\ Table(hosts') /\ Counted(hosts')
      /\ \A h \in Host \ forgotten' : flight'[h] + Sent(if_snd', h) = Rfnms(hosts', h)
      /\ ~ifq_drops' /\ forgotten' = {} => overtaken' = {} /\ \A p \in Places(hosts') : Waits(p)
  BY ZenonT(40), Begin
<1> QED BY ZenonT(40), <1>1, Conclude

(* hostreset and hostslowtimo: a host keeps its count or it is forgotten.  *)
LEMMA TableCleared ==
  ASSUME ImpAssumption, ImpInv, ImpTypes', budget'.hash = budget.hash, NEW V, Table(V),
         \A g \in Host : Rfnms(V, g) \in {Rfnms(hosts, g), 0},
         (\A p \in Places(hosts) : Waits(p)) => \A p \in Places(V) : Waits(p),
         BecomesTable(V), UNCHANGED <<ifq_drops, flight, overtaken>>,
         \A h \in Host : Sent(if_snd', h) = Sent(if_snd, h)
  PROVE  ImpInv'
<1>1. /\ Table(hosts') /\ Counted(hosts') /\ Places(hosts') \subseteq Places(V)
      /\ \A g \in Host : Rfnms(hosts', g) \in {Rfnms(V, g), 0}
  BY ZenonT(40), BecomesIs
<1>4. forgotten' = forgotten \cup {h \in Host : Rfnms(hosts', h) < Rfnms(hosts, h)}
  BY ZenonT(40) DEF BecomesTable
<1>5. ASSUME NEW h \in Host \ forgotten' PROVE flight'[h] + Sent(if_snd', h) = Rfnms(hosts', h)
  <2>1. h \notin forgotten /\ ~(Rfnms(hosts', h) < Rfnms(hosts, h))
    BY ZenonT(40), <1>4
  <2>2. Rfnms(hosts', h) \in {Rfnms(hosts, h), 0} /\ Rfnms(hosts, h) \in Nat
    BY ZenonT(40), <1>1, Begin
  <2>3. Rfnms(hosts', h) = Rfnms(hosts, h)
    BY SMTT(40), <2>1, <2>2
  <2>4. flight[h] + Sent(if_snd, h) = Rfnms(hosts, h)
    BY Zenon, <2>1, Begin
  <2> QED BY ZenonT(40), <2>3, <2>4
<1>6. ASSUME ~ifq_drops', forgotten' = {}
      PROVE  overtaken' = {} /\ \A p \in Places(hosts') : Waits(p)
  <2>1. ~ifq_drops /\ forgotten = {}
    BY ZenonT(40), <1>4, <1>6
  <2>2. overtaken = {} /\ \A p \in Places(hosts) : Waits(p)
    BY ZenonT(40), <2>1, Begin
  <2> QED BY ZenonT(40), <2>2, <1>1
<1> QED BY ZenonT(40), <1>1, <1>5, <1>6, Conclude

(* An answer that clears the count of its host.                            *)
LEMMA HostCleared ==
  ASSUME ImpAssumption, ImpInv, ImpTypes', budget'.hash = budget.hash, NEW h \in Host,
         Known(hosts, h), NEW hp \in Place, hp.h_addr = h, hp.h_rfnm = 0,
         flight[h] > 0, flight' = [flight EXCEPT ![h] = @ - 1],
         BecomesTable(With(hosts, h, hp)), UNCHANGED <<ifq_drops, overtaken>>,
         \A g \in Host : Sent(if_snd', g) = Sent(if_snd, g)
  PROVE  ImpInv'
<1> DEFINE V == With(hosts, h, hp)
<1>1. Table(hosts) /\ Counted(hosts) /\ flight \in [Host -> Nat]
  BY ZenonT(40), Begin
<1>2. Sound(hp)
  BY ZenonT(40) DEF Sound
<1>3. /\ Table(V) /\ Counted(V) /\ Rfnms(V, h) = 0
      /\ Places(V) \subseteq {p \in Places(hosts) : p.h_addr # h} \cup {hp}
      /\ \A g \in Host : g # h => Rfnms(V, g) = Rfnms(hosts, g)
  BY SMTT(40), <1>1, <1>2, WithIs
<1>5. BecomesTable(V)
  OBVIOUS
<1> HIDE DEF V
<1>7. hosts' = V
  BY ZenonT(40), <1>3, <1>5, BecomesIs
<1>8. forgotten' = forgotten \cup {g \in Host : Rfnms(hosts', g) < Rfnms(hosts, g)}
  BY ZenonT(40), <1>5 DEF BecomesTable
<1>9. h \in forgotten'
  <2>1. CASE h \in forgotten
    BY ZenonT(40), <2>1, <1>8
  <2>2. CASE h \notin forgotten
    <3>1. flight[h] + Sent(if_snd, h) = Rfnms(hosts, h) /\ Sent(if_snd, h) \in Nat
      BY ZenonT(40), <2>2, Begin
    <3>2. flight[h] \in Nat
      BY ZenonT(40), <1>1
    <3>3. Rfnms(hosts, h) > 0
      BY SMTT(40), <3>1, <3>2
    <3>4. Rfnms(hosts', h) < Rfnms(hosts, h)
      BY ZenonT(40), <3>3, <1>3, <1>7
    <3> QED BY SMTT(40), <3>4, <1>8
  <2> QED BY ZenonT(40), <2>1, <2>2
<1>10. ASSUME NEW g \in Host \ forgotten' PROVE flight'[g] + Sent(if_snd', g) = Rfnms(hosts', g)
  <2>1. g # h /\ g \notin forgotten
    BY ZenonT(40), <1>8, <1>9
  <2>2. flight'[g] = flight[g] /\ Rfnms(hosts', g) = Rfnms(hosts, g)
    BY ZenonT(40), <2>1, <1>1, <1>3, <1>7
  <2>3. flight[g] + Sent(if_snd, g) = Rfnms(hosts, g)
    BY ZenonT(40), <2>1, Begin
  <2> QED BY ZenonT(40), <2>2, <2>3
<1>11. Table(hosts') /\ Counted(hosts') /\ forgotten' # {}
  BY ZenonT(40), <1>3, <1>7, <1>9
<1> QED BY ZenonT(40), <1>7, <1>10, <1>11, Conclude

(* A host that is not forgotten and has a message at the IMP is known.     *)
LEMMA AnswerIsCounted ==
  ASSUME ImpInv, NEW h \in Host, flight[h] > 0, Rfnms(hosts, h) = 0
  PROVE  h \in forgotten
<1>1. /\ flight[h] \in Nat /\ Sent(if_snd, h) \in Nat
      /\ h \notin forgotten => flight[h] + Sent(if_snd, h) = Rfnms(hosts, h)
  BY ZenonT(40), Begin
<1> QED BY SMTT(40), <1>1

(* An answer to a message that nobody counts any more.                     *)
LEMMA AnswerIgnored ==
  ASSUME ImpInv, ImpTypes', budget'.hash = budget.hash, NEW h \in Host,
         Rfnms(hosts, h) = 0, flight[h] > 0, flight' = [flight EXCEPT ![h] = @ - 1],
         UNCHANGED <<ifq_drops, forgotten, overtaken>>,
         Table(hosts'), Counted(hosts'), \A g \in Host : Rfnms(hosts', g) = Rfnms(hosts, g),
         \A g \in Host : Sent(if_snd', g) = Sent(if_snd, g)
  PROVE  ImpInv'
<1>1. h \in forgotten
  BY ZenonT(40), AnswerIsCounted
<1>2. flight \in [Host -> Nat]
  BY ZenonT(40), Begin
<1>3. ASSUME NEW g \in Host \ forgotten' PROVE flight'[g] + Sent(if_snd', g) = Rfnms(hosts', g)
  <2>1. g # h /\ g \notin forgotten
    BY ZenonT(40), <1>1
  <2>2. flight'[g] = flight[g]
    BY SMTT(40), <2>1, <1>2
  <2>3. flight[g] + Sent(if_snd, g) = Rfnms(hosts, g)
    BY SMTT(40), <2>1, Begin
  <2> QED BY ZenonT(40), <2>2, <2>3
<1>4. forgotten' # {}
  BY ZenonT(40), <1>1
<1> QED BY ZenonT(40), <1>3, <1>4, Conclude

(* A bound that is used up; the hash stays.                                *)
LEMMA SpendIs ==
  ASSUME ImpInv, NEW f \in {"inits", "msgs", "dead", "bad", "resets", "downs"}, Spend(f)
  PROVE  /\ budget'.hash = budget.hash
         /\ budget' \in [hash : [Host -> Index], inits : Nat, msgs : Nat, dead : Nat, bad : Nat,
                         resets : Nat, downs : Nat]
<1>1. budget \in [hash : [Host -> Index], inits : Nat, msgs : Nat, dead : Nat, bad : Nat,
                  resets : Nat, downs : Nat]
  BY DEF ImpInv, ImpTypes
<1>2. budget[f] \in Nat /\ budget[f] > 0 /\ budget[f] - 1 \in Nat
  <2>1. budget[f] > 0
    BY DEF Spend
  <2>2. budget[f] \in Nat
    BY SMTT(40), <1>1
  <2> QED BY <2>1, <2>2
<1> DEFINE n == budget[f] - 1
<1>3. budget' = [budget EXCEPT ![f] = n] /\ n \in Nat
  BY SMTT(40), <1>2 DEF Spend
<1> HIDE DEF n
<1> QED BY SMTT(40), <1>1, <1>3

(* impoutput: a message that is sent is counted, and it is sent only if    *)
(* none to its host is held.                                               *)
LEMMA OutputInv ==
  ASSUME ImpAssumption, ImpInv, NEW h \in Host, flight' = flight, Spend("msgs"),
         LET r == impsnd(hosts, if_snd, h)
         IN  /\ BecomesTable(r.hosts) /\ if_snd' = r.snd /\ ifq_drops' = (ifq_drops \/ r.drops)
             /\ overtaken' = IF r.snd # if_snd /\ h \in HeldIn(hosts)
                             THEN overtaken \cup {h} ELSE overtaken
  PROVE  ImpInv'
<1> DEFINE r == impsnd(hosts, if_snd, h)
<1>1. /\ BecomesTable(r.hosts) /\ if_snd' = r.snd /\ ifq_drops' = (ifq_drops \/ r.drops)
      /\ overtaken' = IF r.snd # if_snd /\ h \in HeldIn(hosts) THEN overtaken \cup {h} ELSE overtaken
      /\ flight' = flight /\ Spend("msgs")
  OBVIOUS
<1>2. /\ Table(hosts) /\ Counted(hosts) /\ flight \in [Host -> Nat] /\ if_snd \in Output
      /\ ifq_drops \in BOOLEAN
  BY ZenonT(40), Begin
<1>r. Sends(hosts, if_snd, h, r)
  BY SMTT(40), <1>2, SndIs
<1> HIDE DEF r
<1>3. /\ Table(r.hosts) /\ Counted(r.hosts) /\ r.drops \in BOOLEAN
      /\ \A g \in Host : g # h => Rfnms(r.hosts, g) = Rfnms(hosts, g)
      /\ \/ r.snd = if_snd /\ Rfnms(r.hosts, h) = Rfnms(hosts, h)
         \/ /\ r.snd = Append(if_snd, h) /\ Rfnms(r.hosts, h) = Rfnms(hosts, h) + 1
            /\ Rfnms(hosts, h) < MaxRfnm
      /\ (\A p \in Places(hosts) : Waits(p) \/ Behind(p, h)) =>
           r.drops \/ \A p \in Places(r.hosts) : Waits(p)
  BY SMTT(40), <1>r, <1>2 DEF Sends
<1>5. hosts' = r.hosts /\ forgotten' \in SUBSET Host
  BY SMTT(40), <1>1, <1>3, BecomesIs
<1>6. budget'.hash = budget.hash /\ ImpTypes'
  <2>1. if_snd' \in Output
    BY ZenonT(40), <1>1, <1>2, <1>3, SentAppend
  <2>2. ifq_drops' \in BOOLEAN
    BY <1>1, <1>2, <1>3
  <2>3. /\ budget'.hash = budget.hash
        /\ budget' \in [hash : [Host -> Index], inits : Nat, msgs : Nat, dead : Nat, bad : Nat,
                        resets : Nat, downs : Nat]
    BY SMTT(40), <1>1, SpendIs
  <2> QED BY ZenonT(40), <2>1, <2>2, <2>3, <1>1, <1>2, <1>5 DEF ImpTypes, Output
<1>7. forgotten \subseteq forgotten'
  BY SMTT(40), <1>1 DEF BecomesTable
<1>8. ASSUME NEW g \in Host \ forgotten' PROVE flight'[g] + Sent(if_snd', g) = Rfnms(hosts', g)
  <2>1. flight[g] + Sent(if_snd, g) = Rfnms(hosts, g) /\ Sent(if_snd, g) \in Nat /\ flight[g] \in Nat
    BY ZenonT(40), <1>7, Begin
  <2>2. CASE r.snd = if_snd /\ Rfnms(r.hosts, h) = Rfnms(hosts, h)
    BY SMTT(40), <2>1, <2>2, <1>1, <1>3, <1>5
  <2>3. CASE r.snd = Append(if_snd, h) /\ Rfnms(r.hosts, h) = Rfnms(hosts, h) + 1
    <3>1. Sent(if_snd', g) = IF h = g THEN Sent(if_snd, g) + 1 ELSE Sent(if_snd, g)
      BY SMTT(40), <2>3, <1>1, <1>2, SentAppend
    <3>2. CASE g = h
      <4>1. flight[g] + (Sent(if_snd, g) + 1) = (flight[g] + Sent(if_snd, g)) + 1
        BY Zenon, <2>1, OneMoved
      <4>2. /\ flight'[g] = flight[g] /\ Sent(if_snd', g) = Sent(if_snd, g) + 1
            /\ Rfnms(hosts', g) = Rfnms(hosts, g) + 1
        BY Zenon, <3>1, <3>2, <2>3, <1>1, <1>5
      <4> QED BY Zenon, <4>1, <4>2, <2>1
    <3>3. CASE g # h
      BY SMTT(40), <3>1, <3>3, <2>1, <1>1, <1>3, <1>5
    <3> QED BY SMTT(40), <3>2, <3>3
  <2> QED BY SMTT(40), <2>2, <2>3, <1>3
<1>9. ASSUME ~ifq_drops', forgotten' = {}
      PROVE  overtaken' = {} /\ \A p \in Places(hosts') : Waits(p)
  <2>1. ~ifq_drops /\ ~r.drops /\ forgotten = {}
    BY ZenonT(40), <1>1, <1>7, <1>9
  <2>2. overtaken = {} /\ \A p \in Places(hosts) : Waits(p)
    BY Zenon, <2>1, Begin
  <2>3. \A p \in Places(hosts') : Waits(p)
    BY SMTT(40), <2>1, <2>2, <1>3, <1>5
  <2>4. ASSUME r.snd # if_snd, h \in HeldIn(hosts) PROVE FALSE
    <3>1. Rfnms(hosts, h) < MaxRfnm
      BY SMTT(40), <2>4, <1>3
    <3>2. PICK p \in Places(hosts) : h \in Messages(p.h_q)
      BY SMTT(40), <2>4 DEF HeldIn, HeldBy, Places
    <3>3. Waits(p) /\ p.h_q # <<>>
      BY SMTT(40), <2>2, <3>2 DEF Messages
    <3>4. p.h_rfnm >= MaxRfnm /\ p.h_addr = h
      BY SMTT(40), <3>2, <3>3 DEF Waits
    <3>5. Known(hosts, h) /\ p = HostIn(hosts, h)
      BY SMTT(40), <3>4, <1>2, OnePlace
    <3>6. Rfnms(hosts, h) = p.h_rfnm /\ p.h_rfnm \in Nat
      <4>1. p \in Place
        BY SMTT(40), <3>5, <1>2, LookupIs
      <4> QED BY SMTT(40), <4>1, <3>5 DEF Rfnms, Place
    <3> QED BY SMTT(40), <3>1, <3>4, <3>6, ImpAssumption
  <2> QED BY SMTT(40), <2>2, <2>3, <2>4, <1>1
<1> QED BY ZenonT(40), <1>3, <1>5, <1>6, <1>8, <1>9, Conclude

(* What hostdeque leaves of the place of a host that has a count.          *)
LEMMA DequeIs ==
  ASSUME ImpAssumption, NEW hp \in Place, hp.h_addr \in Host, Sound(hp), hp.inuse,
         hp.h_timer = HOSTTIMER, hp.h_rfnm # 0
  PROVE  LET d == hostdeque(hp)
         IN  /\ d \in Place /\ d.h_addr = hp.h_addr /\ d.h_rfnm = hp.h_rfnm - 1
             /\ Sound(d)
             /\ hp.h_q = <<>> => Waits(d)
             /\ Waits(hp) /\ hp.h_q # <<>> => Head(hp.h_q) = hp.h_addr /\ Behind(d, hp.h_addr)
             /\ hp.h_q # <<>> => Head(hp.h_q) \in Host
<1> DEFINE d == hostdeque(hp)
<1>1. /\ hp.h_rfnm \in Nat /\ hp.h_rfnm - 1 \in Nat /\ HOSTTIMER \in Nat /\ HOSTTIMER > 0
      /\ hp.h_q \in Seq(Host) /\ hp.h_qcnt - 1 \in Int /\ MaxRfnm \in Nat /\ MaxRfnm > 0
  BY SMTT(40), ImpAssumption DEF Place
<1>2. ~hp.dead
  BY SMTT(40) DEF Sound
<1>3. CASE hp.h_q # <<>>
  <2>1. Tail(hp.h_q) \in Seq(Host) /\ Head(hp.h_q) \in Host
    BY SMTT(40), <1>1, <1>3
  <2>2. d = [hp EXCEPT !.h_rfnm = hp.h_rfnm - 1, !.h_q = Tail(hp.h_q), !.h_qcnt = hp.h_qcnt - 1]
    BY <1>3 DEF hostdeque
  <2>3. /\ d \in Place /\ d.h_addr = hp.h_addr /\ d.h_rfnm = hp.h_rfnm - 1 /\ d.inuse /\ ~d.dead
        /\ d.h_timer = HOSTTIMER /\ d.h_q = Tail(hp.h_q)
    BY ZenonT(40), <2>1, <2>2, <1>1, <1>2 DEF Place
  <2>4. Sound(d)
    BY <2>3, <1>1 DEF Sound
  <2>5. ASSUME Waits(hp) PROVE Head(hp.h_q) = hp.h_addr /\ Behind(d, hp.h_addr)
    <3>1. hp.h_rfnm >= MaxRfnm /\ Messages(hp.h_q) \subseteq {hp.h_addr}
      BY SMTT(40), <2>5, <1>3 DEF Waits
    <3>2. \A i \in 1 .. Len(hp.h_q) : hp.h_q[i] = hp.h_addr
      BY Zenon, <3>1 DEF Messages
    <3>3. /\ Head(hp.h_q) = hp.h_q[1] /\ 1 \in 1 .. Len(hp.h_q)
          /\ \A i \in 1 .. Len(Tail(hp.h_q)) : /\ Tail(hp.h_q)[i] = hp.h_q[i + 1]
                                               /\ i + 1 \in 1 .. Len(hp.h_q)
      BY <1>1, <1>3
    <3>4. \A i \in 1 .. Len(Tail(hp.h_q)) : Tail(hp.h_q)[i] = hp.h_addr
      BY SMTT(40), <3>2, <3>3
    <3>5. Messages(d.h_q) \subseteq {hp.h_addr}
      BY SMTT(40), <3>4, <2>3 DEF Messages
    <3>6. d.h_rfnm + 1 >= MaxRfnm
      BY SMTT(40), <3>1, <2>3, <1>1
    <3> QED BY ZenonT(40), <3>2, <3>3, <3>5, <3>6, <2>3 DEF Behind
  <2> QED BY ZenonT(40), <1>3, <2>1, <2>3, <2>4, <2>5
<1>4. CASE hp.h_q = <<>>
  <2>1. \/ d = [hp EXCEPT !.inuse = FALSE, !.h_timer = HOSTTIMER, !.h_rfnm = 0] /\ hp.h_rfnm = 1
        \/ d = [hp EXCEPT !.h_rfnm = hp.h_rfnm - 1]
    BY <1>4 DEF hostdeque, hostfree
  <2>2. /\ d \in Place /\ d.h_addr = hp.h_addr /\ d.h_rfnm = hp.h_rfnm - 1 /\ ~d.dead
        /\ d.h_timer = HOSTTIMER /\ d.h_q = <<>> /\ (d.inuse \/ d.h_rfnm = 0)
    <3> HIDE DEF d
    <3>1. CASE d = [hp EXCEPT !.h_rfnm = hp.h_rfnm - 1]
      BY ZenonT(40), <3>1, <1>1, <1>2, <1>4 DEF Place
    <3>2. CASE d = [hp EXCEPT !.inuse = FALSE, !.h_timer = HOSTTIMER, !.h_rfnm = 0] /\ hp.h_rfnm = 1
      <4>1. /\ d \in Place /\ d.h_addr = hp.h_addr /\ d.h_rfnm = 0 /\ d.dead = hp.dead
            /\ d.h_timer = HOSTTIMER /\ d.h_q = hp.h_q
        BY ZenonT(40), <3>2, <1>1 DEF Place
      <4> QED BY <4>1, <3>2, <1>2, <1>4
    <3> QED BY SMTT(40), <3>1, <3>2, <2>1
  <2>3. Sound(d) /\ Waits(d)
    BY <2>2, <1>1 DEF Sound, Waits
  <2> QED BY ZenonT(40), <2>2, <2>3, <1>4
<1> QED BY ZenonT(40), <1>3, <1>4

(* impinput on a RFNM: the count goes down for the answer, and up again if *)
(* a message that was held is sent.                                        *)
LEMMA RfnmInv ==
  ASSUME ImpAssumption, ImpInv, NEW h \in Host, Rfnm(h)
  PROVE  ImpInv'
<1> DEFINE T  == hostlookup(hosts, h)
           hp == [HostIn(T, h) EXCEPT !.h_timer = HOSTTIMER]
           d  == hostdeque(hp)
           U  == With(T, h, d)
           g  == Head(hp.h_q)
           r  == impsnd(U, if_snd, g)
           e  == [hp EXCEPT !.inuse = FALSE]
<1>1. /\ flight[h] > 0 /\ flight' = [flight EXCEPT ![h] = @ - 1]
      /\ forgotten' = forgotten /\ overtaken' = overtaken /\ budget' = budget
  BY DEF Rfnm
<1>2. \/ ~Known(hosts, h) /\ UNCHANGED <<hosts, if_snd, ifq_drops>>
      \/ Known(hosts, h) /\ hp.h_rfnm = 0 /\ hosts' = With(T, h, e) /\ UNCHANGED <<if_snd, ifq_drops>>
      \/ /\ Known(hosts, h) /\ hp.h_rfnm # 0 /\ hp.h_q = <<>>
         /\ hosts' = U /\ UNCHANGED <<if_snd, ifq_drops>>
      \/ /\ Known(hosts, h) /\ hp.h_rfnm # 0 /\ hp.h_q # <<>>
         /\ hosts' = r.hosts /\ if_snd' = r.snd /\ ifq_drops' = (ifq_drops \/ r.drops)
      \/ /\ Known(hosts, h) /\ hp.h_rfnm # 0 /\ hp.h_q # <<>> /\ NeedsMbuf(U, g)
         /\ hosts' = U /\ UNCHANGED <<if_snd, ifq_drops>>
  BY SMTT(40) DEF Rfnm
<1>3. /\ Table(hosts) /\ Counted(hosts) /\ flight \in [Host -> Nat] /\ if_snd \in Output
      /\ ifq_drops \in BOOLEAN /\ forgotten \in SUBSET Host
  BY ZenonT(40), Begin
<1>4. flight' \in [Host -> Nat] /\ flight'[h] = flight[h] - 1 /\ \A x \in Host \ {h} : flight'[x] = flight[x]
  BY SMTT(40), <1>1, <1>3
<1>5. budget'.hash = budget.hash /\ (if_snd' \in Output /\ ifq_drops' \in BOOLEAN => ImpTypes')
  <2>1. budget \in [hash : [Host -> Index], inits : Nat, msgs : Nat, dead : Nat, bad : Nat,
                    resets : Nat, downs : Nat]
    BY SMTT(40) DEF ImpInv, ImpTypes
  <2> QED BY SMTT(40), <2>1, <1>1, <1>3, <1>4 DEF ImpTypes, Output
<1>7. ASSUME ~Known(hosts, h), UNCHANGED <<hosts, if_snd, ifq_drops>> PROVE ImpInv'
  <2>1. Rfnms(hosts, h) = 0
    BY <1>7 DEF Rfnms
  <2>2. ImpTypes'
    BY ZenonT(40), <1>3, <1>5, <1>7
  <2>3. Table(hosts') /\ Counted(hosts') /\ hosts' = hosts /\ if_snd' = if_snd
    BY SMTT(40), <1>3, <1>7
  <2> QED BY ZenonT(40), <2>1, <2>2, <2>3, <1>1, <1>5, <1>7, AnswerIgnored
<1>8. ASSUME Known(hosts, h)
      PROVE  /\ Table(T) /\ Counted(T) /\ Known(T, h)
             /\ Places(T) \subseteq {p \in Places(hosts) : p.h_addr # h} \cup {HostIn(T, h)}
             /\ \A x \in Host : Rfnms(T, x) = Rfnms(hosts, x)
             /\ hp \in Place /\ hp.h_addr = h /\ Sound(hp) /\ hp.inuse /\ hp.h_timer = HOSTTIMER
             /\ hp.h_rfnm = Rfnms(hosts, h) /\ hp.h_rfnm \in Nat
             /\ (\A p \in Places(hosts) : Waits(p)) => Waits(hp)
  <2>1. /\ Table(T) /\ Counted(T) /\ Known(T, h)
        /\ HostIn(T, h) = [HostIn(hosts, h) EXCEPT !.inuse = TRUE]
        /\ HostIn(hosts, h) \in Place /\ HostIn(hosts, h) \in Places(hosts)
        /\ HostIn(hosts, h).h_addr = h /\ Sound(HostIn(hosts, h))
        /\ Places(T) \subseteq {p \in Places(hosts) : p.h_addr # h}
                                \cup {[HostIn(hosts, h) EXCEPT !.inuse = TRUE]}
        /\ \A x \in Host : Rfnms(T, x) = Rfnms(hosts, x)
    BY SMTT(40), <1>3, <1>8, LookupIs
  <2> DEFINE o == HostIn(hosts, h)
  <2>2. Rfnms(hosts, h) = o.h_rfnm
    BY <1>8 DEF Rfnms
  <2>3. hp = [[o EXCEPT !.inuse = TRUE] EXCEPT !.h_timer = HOSTTIMER]
    BY SMTT(40), <2>1
  <2>4. HOSTTIMER \in Nat
    BY ImpAssumption
  <2> HIDE DEF o, hp
  <2>5. o \in Place /\ o.h_addr = h /\ Sound(o) /\ o \in Places(hosts)
    BY <2>1 DEF o
  <2>6. /\ hp \in Place /\ hp.h_addr = h /\ hp.inuse /\ hp.h_timer = HOSTTIMER
        /\ hp.h_rfnm = o.h_rfnm /\ hp.h_q = o.h_q /\ hp.dead = o.dead /\ hp.h_rfnm \in Nat
    BY ZenonT(40), <2>3, <2>4, <2>5 DEF Place
  <2>7. Sound(hp) /\ (Waits(o) => Waits(hp))
    BY <2>5, <2>6 DEF Sound, Waits
  <2> QED BY SMTT(40), <2>1, <2>2, <2>5, <2>6, <2>7
<1> HIDE DEF T, hp
<1>9. ASSUME Known(hosts, h), hp.h_rfnm = 0, hosts' = With(T, h, e), UNCHANGED <<if_snd, ifq_drops>>
      PROVE  ImpInv'
  <2>1. /\ e \in Place /\ e.h_addr = h /\ e.h_rfnm = 0 /\ e.h_timer = HOSTTIMER /\ e.dead = hp.dead
        /\ HOSTTIMER > 0
    <3>1. hp \in Place /\ hp.h_addr = h /\ hp.h_timer = HOSTTIMER
      BY SMTT(40), <1>8, <1>9
    <3>2. /\ e \in Place /\ e.h_addr = hp.h_addr /\ e.h_rfnm = hp.h_rfnm
          /\ e.h_timer = hp.h_timer /\ e.dead = hp.dead
      BY Zenon, <3>1 DEF Place
    <3> QED BY SMTT(40), <3>1, <3>2, <1>9, ImpAssumption
  <2>2. Sound(e)
    BY SMTT(40), <2>1 DEF Sound
  <2> HIDE DEF e
  <2>3. /\ Table(hosts') /\ Counted(hosts') /\ Rfnms(hosts', h) = 0
        /\ Places(hosts') \subseteq {p \in Places(T) : p.h_addr # h} \cup {e}
        /\ \A x \in Host : x # h => Rfnms(hosts', x) = Rfnms(T, x)
    BY SMTT(40), <2>1, <2>2, <1>8, <1>9, WithIs
  <2>4. Rfnms(hosts, h) = 0 /\ \A x \in Host : Rfnms(hosts', x) = Rfnms(hosts, x)
    BY <2>3, <1>8, <1>9
  <2>7. ImpTypes'
    BY ZenonT(40), <1>3, <1>5, <1>9
  <2> QED BY Zenon, <2>3, <2>4, <2>7, <1>1, <1>5, <1>9, AnswerIgnored
<1>10. ASSUME Known(hosts, h), hp.h_rfnm # 0
       PROVE  /\ Table(U) /\ Counted(U) /\ Rfnms(U, h) = Rfnms(hosts, h) - 1
              /\ \A x \in Host : x # h => Rfnms(U, x) = Rfnms(hosts, x)
              /\ Places(U) \subseteq Places(hosts) \cup {d}
              /\ hp.h_q = <<>> => Waits(d)
              /\ hp.h_q # <<>> => g \in Host
              /\ (hp.h_q # <<>> /\ \A p \in Places(hosts) : Waits(p)) => g = h /\ Behind(d, h)
              /\ Known(U, h)
  <2>1. /\ d \in Place /\ d.h_addr = h /\ d.h_rfnm = hp.h_rfnm - 1 /\ Sound(d)
        /\ hp.h_q = <<>> => Waits(d)
        /\ Waits(hp) /\ hp.h_q # <<>> => g = h /\ Behind(d, h)
        /\ hp.h_q # <<>> => g \in Host
    BY ZenonT(40), <1>8, <1>10, DequeIs
  <2> HIDE DEF d, g
  <2>2. /\ Table(U) /\ Counted(U) /\ Rfnms(U, h) = d.h_rfnm /\ Known(U, h)
        /\ Places(U) \subseteq {p \in Places(T) : p.h_addr # h} \cup {d}
        /\ \A x \in Host : x # h => Rfnms(U, x) = Rfnms(T, x)
    BY SMTT(40), <2>1, <1>8, <1>10, WithIs
  <2>3. HostIn(T, h).h_addr = h
    BY SMTT(40), <1>8, <1>10, LookupIs
  <2>4. Places(U) \subseteq Places(hosts) \cup {d}
    BY SMTT(40), <2>2, <2>3, <1>8, <1>10
  <2> QED BY ZenonT(40), <2>1, <2>2, <2>4, <1>8, <1>10
<1> HIDE DEF d, U, g
<1>11. ASSUME Known(hosts, h), hp.h_rfnm # 0, hp.h_q = <<>> \/ NeedsMbuf(U, g),
              hosts' = U, UNCHANGED <<if_snd, ifq_drops>>
       PROVE  ImpInv'
  <2>1. ImpTypes'
    BY ZenonT(40), <1>3, <1>5, <1>11
  <2>2. ASSUME NEW x \in Host \ forgotten' PROVE flight'[x] + Sent(if_snd', x) = Rfnms(hosts', x)
    <3>1. flight[x] + Sent(if_snd, x) = Rfnms(hosts, x) /\ Sent(if_snd, x) \in Nat /\ flight[x] \in Nat
      BY ZenonT(40), <1>1, Begin
    <3>2. CASE x = h
      BY SMTT(40), <3>1, <3>2, <1>4, <1>10, <1>11
    <3>3. CASE x # h
      BY Zenon, <3>1, <3>3, <1>4, <1>10, <1>11
    <3> QED BY <3>2, <3>3
  <2>3. ASSUME ~ifq_drops', forgotten' = {}
        PROVE  overtaken' = {} /\ \A p \in Places(hosts') : Waits(p)
    <3>1. overtaken = {} /\ \A p \in Places(hosts) : Waits(p)
      BY ZenonT(40), <2>3, <1>1, <1>11, Begin
    <3>2. hp.h_q = <<>>
      BY ZenonT(40), <3>1, <1>10, <1>11 DEF NeedsMbuf
    <3> QED BY ZenonT(40), <3>1, <3>2, <1>1, <1>10, <1>11
  <2>5. Table(hosts') /\ Counted(hosts')
    BY SMTT(40), <1>10, <1>11
  <2> QED BY ZenonT(40), <2>1, <2>2, <2>3, <2>5, <1>5, Conclude
<1>12. ASSUME Known(hosts, h), hp.h_rfnm # 0, hp.h_q # <<>>,
              hosts' = r.hosts, if_snd' = r.snd, ifq_drops' = (ifq_drops \/ r.drops)
       PROVE  ImpInv'
  <2>1. Sends(U, if_snd, g, r)
    BY ZenonT(40), <1>10, <1>12, SndIs
  <2> HIDE DEF r
  <2>2. /\ Table(r.hosts) /\ Counted(r.hosts) /\ r.drops \in BOOLEAN /\ g \in Host
        /\ \A x \in Host : x # g => Rfnms(r.hosts, x) = Rfnms(U, x)
        /\ \/ r.snd = if_snd /\ Rfnms(r.hosts, g) = Rfnms(U, g)
           \/ r.snd = Append(if_snd, g) /\ Rfnms(r.hosts, g) = Rfnms(U, g) + 1
    BY SMTT(40), <2>1, <1>10, <1>12 DEF Sends
  <2>3. (\A p \in Places(U) : Waits(p) \/ Behind(p, g)) =>
           r.drops \/ \A p \in Places(r.hosts) : Waits(p)
    BY <2>1 DEF Sends
  <2>4. ImpTypes'
    <3>1. if_snd' \in Output /\ ifq_drops' \in BOOLEAN
      BY ZenonT(40), <2>2, <1>3, <1>12, SentAppend
    <3> QED BY SMTT(40), <3>1, <1>5
  <2>5. ASSUME NEW x \in Host \ forgotten' PROVE flight'[x] + Sent(if_snd', x) = Rfnms(hosts', x)
    <3>1. flight[x] + Sent(if_snd, x) = Rfnms(hosts, x) /\ Sent(if_snd, x) \in Nat /\ flight[x] \in Nat
      BY <1>1, Begin
    <3>2. flight'[x] + Sent(if_snd, x) = Rfnms(U, x) /\ flight'[x] \in Nat
      <4>1. CASE x = h
        <5>1. (flight[x] - 1) + Sent(if_snd, x) = (flight[x] + Sent(if_snd, x)) - 1
          BY Zenon, <3>1, OneMoved
        <5>2. /\ flight'[x] = flight[x] - 1 /\ flight'[x] \in Nat
              /\ Rfnms(U, x) = Rfnms(hosts, x) - 1
          BY Zenon, <4>1, <1>4, <1>10, <1>12
        <5> QED BY Zenon, <5>1, <5>2, <3>1
      <4>2. CASE x # h
        BY ZenonT(40), <3>1, <4>2, <1>4, <1>10, <1>12
      <4> QED BY ZenonT(40), <4>1, <4>2
    <3>3. CASE r.snd = if_snd /\ Rfnms(r.hosts, g) = Rfnms(U, g)
      BY SMTT(40), <3>2, <3>3, <2>2, <1>12
    <3>4. CASE r.snd = Append(if_snd, g) /\ Rfnms(r.hosts, g) = Rfnms(U, g) + 1
      <4>1. Sent(if_snd', x) = IF g = x THEN Sent(if_snd, x) + 1 ELSE Sent(if_snd, x)
        BY SMTT(40), <3>4, <2>2, <1>3, <1>12, SentAppend
      <4>2. CASE x = g
        <5>1. flight'[x] + (Sent(if_snd, x) + 1) = (flight'[x] + Sent(if_snd, x)) + 1
          BY Zenon, <3>1, <3>2, OneMoved
        <5>2. Sent(if_snd', x) = Sent(if_snd, x) + 1 /\ Rfnms(hosts', x) = Rfnms(U, x) + 1
          BY Zenon, <4>1, <4>2, <3>4, <1>12
        <5> QED BY Zenon, <5>1, <5>2, <3>2
      <4>3. CASE x # g
        BY ZenonT(40), <4>1, <4>3, <3>2, <2>2, <1>12
      <4> QED BY ZenonT(40), <4>2, <4>3
    <3> QED BY ZenonT(40), <3>3, <3>4, <2>2
  <2>6. ASSUME ~ifq_drops', forgotten' = {}
        PROVE  overtaken' = {} /\ \A p \in Places(hosts') : Waits(p)
    <3>1. ~ifq_drops /\ ~r.drops /\ forgotten = {}
      BY ZenonT(40), <2>6, <1>1, <1>12
    <3>2. overtaken = {} /\ \A p \in Places(hosts) : Waits(p)
      BY ZenonT(40), <3>1, Begin
    <3>3. \A p \in Places(U) : Waits(p) \/ Behind(p, g)
      BY ZenonT(40), <3>2, <1>10, <1>12
    <3> QED BY ZenonT(40), <3>1, <3>2, <3>3, <2>3, <1>1, <1>12
  <2> QED BY ZenonT(40), <2>2, <2>4, <2>5, <2>6, <1>5, <1>12, Conclude
<1> QED BY SMTT(40), <1>2, <1>7, <1>9, <1>11, <1>12

(* The table is empty and nothing is in flight when the interface gets its *)
(* address.                                                                *)
LEMMA InvInit ==
  ASSUME ImpAssumption, Init
  PROVE  ImpInv
<1>1. <<>> \in Output /\ Len(<<>>) = 0 /\ \A h : Sent(<<>>, h) = 0
  BY FS_EmptySet DEF Output, Sent
<1>2. /\ if_snd \in Output /\ \A h \in Host : Sent(if_snd, h) = 0
      /\ hosts = <<>> /\ flight = [h \in Host |-> 0]
      /\ ifq_drops = FALSE /\ forgotten = {} /\ overtaken = {}
  <2>1. if_snd \in impnoops(<<>>)
    BY DEF Init
  <2>2. \A h \in Host : Sent(if_snd, h) = 0
    BY <2>1, <1>1, SentNoops
  <2>3. if_snd \in Output
    BY <2>1, <1>1, NoopsAreOutput
  <2> QED BY <2>2, <2>3 DEF Init
<1>3. /\ budget \in [hash : [Host -> Index], inits : Nat, msgs : Nat, dead : Nat, bad : Nat,
                     resets : Nat, downs : Nat]
      /\ budget.hash \in [Host -> Index]
  <2>1. budget \in Budgets
    BY DEF Init
  <2> QED BY <2>1, ImpAssumption
<1>4. ImpTypes
  BY Zenon, <1>2, <1>3 DEF ImpTypes, Output
<1>5. Places(hosts) = {} /\ Counted(hosts) /\ \A h : MbufsOf(hosts, h) = {}
  BY <1>1, <1>2 DEF Places, Counted, MbufsOf
<1>6. TableInv
  <2>1. hosts \in Seq(Mbuf) /\ 1 .. Len(hosts) = {}
    BY <1>2
  <2> QED BY <2>1, <1>3, <1>5 DEF TableInv, Table
<1>7. CountIsExact
  <2>1. \A h \in Host : Rfnms(hosts, h) = 0
    BY <1>5, HostIsNot
  <2> QED BY <2>1, <1>2 DEF CountIsExact, InFlight, Sent
<1>8. OrderInv
  BY SMTT(40), <1>2, <1>5 DEF OrderInv
<1> QED BY SMTT(40), <1>4, <1>6, <1>7, <1>8 DEF ImpInv

(* Every routine of the interface keeps the invariant.                     *)
LEMMA InvNext ==
  ASSUME ImpAssumption, ImpInv, [Next]_vars
  PROVE  ImpInv'
<1> DEFINE Bounds == [hash : [Host -> Index], inits : Nat, msgs : Nat, dead : Nat, bad : Nat,
                      resets : Nat, downs : Nat]
<1>0. /\ Table(hosts) /\ Counted(hosts) /\ if_snd \in Output /\ flight \in [Host -> Nat]
      /\ forgotten \in SUBSET Host /\ ifq_drops \in BOOLEAN
  BY Begin
<1>b. budget \in Bounds
  BY DEF ImpInv, ImpTypes
<1>s. ASSUME NEW f \in {"inits", "msgs", "dead", "bad", "resets", "downs"}, Spend(f)
      PROVE  budget'.hash = budget.hash /\ budget' \in Bounds
  BY <1>s, SpendIs
<1>t. ASSUME budget' \in Bounds, if_snd' \in Output, flight' \in [Host -> Nat],
             forgotten' \in SUBSET Host, ifq_drops' \in BOOLEAN
      PROVE  ImpTypes'
  BY <1>t DEF ImpTypes, Output
<1> HIDE DEF Bounds
<1>n. ASSUME NEW r \in impnoops(if_snd) PROVE r \in Output /\ \A h \in Host : Sent(r, h) = Sent(if_snd, h)
  BY <1>0, SentNoops, NoopsAreOutput
<1>1. ASSUME impinit PROVE ImpInv'
  <2>1. /\ Spend("inits") /\ (if_snd' = if_snd \/ if_snd' \in impnoops(if_snd)) /\ flight' = flight
        /\ UNCHANGED <<hosts, ifq_drops, forgotten, overtaken>>
    BY SMTT(40), <1>1 DEF impinit
  <2>2. budget'.hash = budget.hash /\ ImpTypes'
    BY SMTT(40), <2>1, <1>0, <1>n, <1>s, <1>t
  <2>3. \A h \in Host : flight'[h] + Sent(if_snd', h) = flight[h] + Sent(if_snd, h)
    BY ZenonT(40), <2>1, <1>n
  <2> QED BY SMTT(40), <2>1, <2>2, <2>3, TableKept
<1>2. ASSUME Reset PROVE ImpInv'
  <2>1. /\ Spend("resets") /\ BecomesTable(hostreset(hosts, IaNet)) /\ if_snd' \in impnoops(if_snd)
        /\ UNCHANGED <<ifq_drops, flight, overtaken>>
    BY <1>2 DEF Reset
  <2> DEFINE V == hostreset(hosts, IaNet)
  <2>2. /\ Table(V) /\ \A g \in Host : Rfnms(V, g) \in {Rfnms(hosts, g), 0}
        /\ (\A p \in Places(hosts) : Waits(p)) => \A p \in Places(V) : Waits(p)
    BY <1>0, ResetIs
  <2>3. BecomesTable(V)
    BY <2>1
  <2> HIDE DEF V
  <2>4. forgotten' \in SUBSET Host
    BY ZenonT(40), <2>2, <2>3, BecomesIs
  <2>5. budget'.hash = budget.hash /\ ImpTypes'
    BY SMTT(40), <2>1, <2>4, <1>0, <1>n, <1>s, <1>t
  <2>6. \A h \in Host : Sent(if_snd', h) = Sent(if_snd, h)
    BY SMTT(40), <2>1, <1>n
  <2> QED BY SMTT(40), <2>1, <2>2, <2>3, <2>5, <2>6, TableCleared
<1>3. ASSUME GoingDown PROVE ImpInv'
  <2>1. /\ Spend("downs") /\ if_snd' = if_snd /\ flight' = flight
        /\ UNCHANGED <<hosts, ifq_drops, forgotten, overtaken>>
    BY <1>3 DEF GoingDown
  <2>2. budget'.hash = budget.hash /\ ImpTypes'
    BY SMTT(40), <2>1, <1>0, <1>s, <1>t
  <2> QED BY SMTT(40), <2>1, <2>2, TableKept
<1>4. ASSUME Noop PROVE ImpInv'
  <2>1. /\ budget' = budget /\ if_snd' = if_snd /\ flight' = flight
        /\ UNCHANGED <<hosts, ifq_drops, forgotten, overtaken>>
    BY <1>4 DEF Noop
  <2>2. budget'.hash = budget.hash /\ ImpTypes'
    BY SMTT(40), <2>1, <1>0, <1>b, <1>t
  <2> QED BY SMTT(40), <2>1, <2>2, TableKept
<1>5. ASSUME impdown PROVE ImpInv'
  <2>1. /\ budget' = budget /\ BecomesTable(hostreset(hosts, IaNet)) /\ if_snd' = if_snd
        /\ UNCHANGED <<ifq_drops, flight, overtaken>>
    BY SMTT(40), <1>5 DEF impdown
  <2> DEFINE V == hostreset(hosts, IaNet)
  <2>2. /\ Table(V) /\ \A g \in Host : Rfnms(V, g) \in {Rfnms(hosts, g), 0}
        /\ (\A p \in Places(hosts) : Waits(p)) => \A p \in Places(V) : Waits(p)
    BY <1>0, ResetIs
  <2>3. BecomesTable(V)
    BY SMTT(40), <2>1
  <2> HIDE DEF V
  <2>4. forgotten' \in SUBSET Host
    BY <2>2, <2>3, BecomesIs
  <2>5. budget'.hash = budget.hash /\ ImpTypes'
    BY SMTT(40), <2>1, <2>4, <1>0, <1>b, <1>t
  <2>6. \A h \in Host : Sent(if_snd', h) = Sent(if_snd, h)
    BY SMTT(40), <2>1
  <2> QED BY SMTT(40), <2>1, <2>2, <2>3, <2>5, <2>6, TableCleared
<1>6. ASSUME SlowTimeout PROVE ImpInv'
  <2>1. /\ budget' = budget /\ BecomesTable(hostslowtimo(hosts)) /\ if_snd' = if_snd
        /\ UNCHANGED <<ifq_drops, flight, overtaken>>
    BY SMTT(40), <1>6 DEF SlowTimeout
  <2> DEFINE V == hostslowtimo(hosts)
  <2>2. /\ Table(V) /\ \A g \in Host : Rfnms(V, g) \in {Rfnms(hosts, g), 0}
        /\ (\A p \in Places(hosts) : Waits(p)) => \A p \in Places(V) : Waits(p)
    BY <1>0, TimeoutIs
  <2>3. BecomesTable(V)
    BY <2>1
  <2> HIDE DEF V
  <2>4. forgotten' \in SUBSET Host
    BY SMTT(40), <2>2, <2>3, BecomesIs
  <2>5. budget'.hash = budget.hash /\ ImpTypes'
    BY SMTT(40), <2>1, <2>4, <1>0, <1>b, <1>t
  <2>6. \A h \in Host : Sent(if_snd', h) = Sent(if_snd, h)
    BY <2>1
  <2> QED BY SMTT(40), <2>1, <2>2, <2>3, <2>5, <2>6, TableCleared
<1>7. ASSUME Transmit PROVE ImpInv'
  <2>1. /\ if_snd # <<>> /\ if_snd' = Tail(if_snd) /\ budget' = budget
        /\ flight' = IF Head(if_snd) = None THEN flight ELSE [flight EXCEPT ![Head(if_snd)] = @ + 1]
        /\ UNCHANGED <<hosts, ifq_drops, forgotten, overtaken>>
    BY <1>7 DEF Transmit, NOOP
  <2>2. /\ Tail(if_snd) \in Output /\ Head(if_snd) \in Host \cup {None}
        /\ \A h : /\ Sent(Tail(if_snd), h) \in Nat
                  /\ Sent(if_snd, h) = IF Head(if_snd) = h THEN Sent(Tail(if_snd), h) + 1
                                                           ELSE Sent(Tail(if_snd), h)
    BY SMTT(40), <2>1, <1>0, SentTail
  <2>3. flight' \in [Host -> Nat]
    BY SMTT(40), <2>1, <2>2, <1>0
  <2>4. budget'.hash = budget.hash /\ ImpTypes'
    BY SMTT(40), <2>1, <2>2, <2>3, <1>0, <1>b, <1>t
  <2>5. ASSUME NEW h \in Host PROVE flight'[h] + Sent(if_snd', h) = flight[h] + Sent(if_snd, h)
    <3>1. flight[h] \in Nat
      BY SMTT(40), <1>0
    <3>2. CASE Head(if_snd) = h
      <4>1. Head(if_snd) # None
        BY SMTT(40), <3>2, ImpAssumption
      <4>2. flight'[h] = flight[h] + 1
        BY SMTT(40), <4>1, <3>2, <2>1, <1>0
      <4> QED BY SMTT(40), <4>2, <3>1, <3>2, <2>1, <2>2
    <3>3. CASE Head(if_snd) # h
      <4>1. flight'[h] = flight[h]
        BY SMTT(40), <3>3, <2>1, <1>0
      <4> QED BY SMTT(40), <4>1, <3>3, <2>1, <2>2
    <3> QED BY SMTT(40), <3>2, <3>3
  <2> QED BY SMTT(40), <2>1, <2>4, <2>5, TableKept
<1>8. ASSUME NEW h \in Host, impoutput(h) PROVE ImpInv'
  <2>1. Spend("msgs") /\ flight' = flight
    BY SMTT(40), <1>8 DEF impoutput
  <2>2. ASSUME UNCHANGED <<hosts, forgotten, if_snd, ifq_drops, overtaken>> PROVE ImpInv'
    <3>1. budget'.hash = budget.hash /\ ImpTypes'
      BY SMTT(40), <2>1, <2>2, <1>0, <1>s, <1>t
    <3> QED BY SMTT(40), <2>1, <2>2, <3>1, TableKept
  <2> QED BY ZenonT(40), <2>1, <2>2, <1>8, OutputInv DEF impoutput
<1>9. ASSUME NEW h \in Host, Rfnm(h) PROVE ImpInv'
  BY <1>9, RfnmInv
<1>10. ASSUME NEW h \in Host, HostDead(h) PROVE ImpInv'
  <2>1. /\ Spend("dead") /\ flight[h] > 0 /\ flight' = [flight EXCEPT ![h] = @ - 1]
        /\ if_snd' = if_snd /\ UNCHANGED <<ifq_drops, overtaken>>
    BY <1>10 DEF HostDead
  <2>2. flight' \in [Host -> Nat]
    BY SMTT(40), <2>1, <1>0
  <2>3. CASE ~Known(hosts, h)
    <3>1. UNCHANGED <<hosts, forgotten>>
      BY <1>10, <2>3 DEF HostDead
    <3>2. Rfnms(hosts, h) = 0
      BY <2>3 DEF Rfnms
    <3>3. budget'.hash = budget.hash /\ ImpTypes'
      BY ZenonT(40), <2>1, <2>2, <3>1, <1>0, <1>s, <1>t
    <3> QED BY ZenonT(40), <2>1, <3>1, <3>2, <3>3, <1>0, AnswerIgnored
  <2>4. CASE Known(hosts, h)
    <3> DEFINE o == HostIn(hosts, h)
               hp == [hostfree(o) EXCEPT !.dead = TRUE, !.h_timer = HOSTDEADTIMER]
    <3>1. BecomesTable(With(hosts, h, hp))
      BY <1>10, <2>4 DEF HostDead
    <3>2. o \in Place /\ o.h_addr = h
      BY <2>4, <1>0, LookupIs
    <3>3. HOSTTIMER \in Nat /\ HOSTDEADTIMER \in Nat /\ HOSTDEADTIMER > 0
      BY ImpAssumption
    <3>4. /\ hp \in Place /\ hp.h_addr = h /\ hp.h_rfnm = 0 /\ hp.h_timer = HOSTDEADTIMER
      <4> HIDE DEF o
      <4>1. hostfree(o) \in Place /\ hostfree(o).h_addr = h /\ hostfree(o).h_rfnm = 0
        BY ZenonT(40), <3>2, <3>3 DEF hostfree, Place
      <4> HIDE DEF hostfree
      <4> QED BY Zenon, <4>1, <3>3 DEF Place
    <3> HIDE DEF hp
    <3>5. Sound(hp)
      BY ZenonT(40), <3>3, <3>4 DEF Sound
    <3>6. Table(With(hosts, h, hp))
      BY SMTT(40), <3>4, <3>5, <2>4, <1>0, WithIs
    <3>7. forgotten' \in SUBSET Host
      BY SMTT(40), <3>1, <3>6, BecomesIs
    <3>8. budget'.hash = budget.hash /\ ImpTypes'
      BY ZenonT(40), <2>1, <2>2, <3>7, <1>0, <1>s, <1>t
    <3> QED BY Zenon, <2>1, <2>4, <3>1, <3>4, <3>5, <3>8, HostCleared
  <2> QED BY <2>3, <2>4
<1>11. ASSUME NEW h \in Host, BadData(h) PROVE ImpInv'
  <2>1. /\ Spend("bad") /\ flight[h] > 0 /\ flight' = [flight EXCEPT ![h] = @ - 1]
        /\ if_snd' \in impnoops(if_snd) /\ UNCHANGED <<ifq_drops, overtaken>>
    BY SMTT(40), <1>11 DEF BadData
  <2>2. flight' \in [Host -> Nat] /\ \A x \in Host : Sent(if_snd', x) = Sent(if_snd, x)
    BY SMTT(40), <2>1, <1>0, <1>n
  <2>3. CASE ~Known(hosts, h)
    <3>1. UNCHANGED <<hosts, forgotten>>
      BY SMTT(40), <1>11, <2>3 DEF BadData
    <3>2. Rfnms(hosts, h) = 0
      BY <2>3 DEF Rfnms
    <3>3. budget'.hash = budget.hash /\ ImpTypes'
      BY ZenonT(40), <2>1, <2>2, <3>1, <1>0, <1>n, <1>s, <1>t
    <3> QED BY ZenonT(40), <2>1, <2>2, <3>1, <3>2, <3>3, <1>0, AnswerIgnored
  <2>4. CASE Known(hosts, h)
    <3> DEFINE o == HostIn(hosts, h)
               hp == [o EXCEPT !.inuse = TRUE, !.h_rfnm = 0]
    <3>1. BecomesTable(With(hosts, h, hp))
      BY SMTT(40), <1>11, <2>4 DEF BadData
    <3>2. o \in Place /\ o.h_addr = h
      BY <2>4, <1>0, LookupIs
    <3>3. /\ hp \in Place /\ hp.h_addr = h /\ hp.h_rfnm = 0 /\ hp.inuse
          /\ hp.h_timer = o.h_timer /\ hp.dead = o.dead
      <4> HIDE DEF o
      <4> QED BY ZenonT(40), <3>2 DEF Place
    <3> HIDE DEF hp
    <3>4. Sound(hp)
      BY <3>3 DEF Sound
    <3>5. Table(With(hosts, h, hp))
      BY Zenon, <3>3, <3>4, <2>4, <1>0, WithIs
    <3>6. forgotten' \in SUBSET Host
      BY <3>1, <3>5, BecomesIs
    <3>7. budget'.hash = budget.hash /\ ImpTypes'
      BY ZenonT(40), <2>1, <2>2, <3>6, <1>0, <1>n, <1>s, <1>t
    <3> QED BY ZenonT(40), <2>1, <2>2, <2>4, <3>1, <3>3, <3>4, <3>7, HostCleared
  <2> QED BY <2>3, <2>4
<1>12. ASSUME UNCHANGED vars PROVE ImpInv'
  <2>1. /\ budget' = budget /\ if_snd' = if_snd /\ flight' = flight
        /\ UNCHANGED <<hosts, ifq_drops, forgotten, overtaken>>
    BY SMTT(40), <1>12 DEF vars
  <2>2. budget'.hash = budget.hash /\ ImpTypes'
    BY <2>1, <1>0, <1>b, <1>t
  <2> QED BY <2>1, <2>2, TableKept
<1> QED BY ZenonT(40), <1>1, <1>2, <1>3, <1>4, <1>5, <1>6, <1>7, <1>8, <1>9, <1>10, <1>11, <1>12 DEF Next

(* The RFNM counting of impsnd and impinput is exact for any number of     *)
(* hosts and messages: h_rfnm is the number of messages to the host that   *)
(* the IMP has not answered, until an error or the clock clears it.        *)
THEOREM RfnmCountIsExact ==
  ASSUME ImpAssumption
  PROVE  Spec => []CountIsExact
<1>1. Init => ImpInv
  BY InvInit
<1>2. ImpInv /\ [Next]_vars => ImpInv'
  BY InvNext
<1>3. ImpInv => CountIsExact
  BY DEF ImpInv
<1> QED BY <1>1, <1>2, <1>3, PTL DEF Spec

(* impsnd lets no message pass one to the same host that it holds back,    *)
(* until a count is cleared or the output queue drops a message.           *)
THEOREM HeldMessagesKeepOrder ==
  ASSUME ImpAssumption
  PROVE  Spec => []HeldInOrder
<1>1. Init => ImpInv
  BY InvInit
<1>2. ImpInv /\ [Next]_vars => ImpInv'
  BY InvNext
<1>3. ImpInv => HeldInOrder
  BY DEF ImpInv, OrderInv, HeldInOrder
<1> QED BY <1>1, <1>2, <1>3, PTL DEF Spec
=============================================================================
