------------------------- MODULE DevicePagerProofs -------------------------
(***************************************************************************)
(* Proofs about the device pager.  The argument: a descriptor that is not  *)
(* in the list, or whose arguments are not recorded yet, still names the   *)
(* request port of its last use, but that use is over and no message will  *)
(* name the port again; so each search of the list finds the descriptor    *)
(* of its own object, and the object that the pager fills in is kept alive *)
(* by the reference of vm_object_lookup.                                   *)
(***************************************************************************)
EXTENDS DevicePager, Functions, TLAPS

(* Lists without repetition: the list of descriptors and the free elements. *)

(* The list of descriptors at first.                                       *)
LEMMA EmptyList ==
  ASSUME NEW S
  PROVE  <<>> \in Seq(S) /\ Range(<<>>) = {} /\ IsInjective(<<>>)
<1>1. <<>> \in Seq(S)
  OBVIOUS
<1>2. Range(<<>>) = {} /\ IsInjective(<<>>)
  BY DEF Range, IsInjective
<1> QED BY <1>1, <1>2

(* The members of a list of elements are elements.                         *)
LEMMA MembersOf ==
  ASSUME NEW S, NEW s \in Seq(S)
  PROVE  Range(s) \subseteq S
  BY DEF Range

(* Messages that are put into a queue and taken out of it.                 *)
LEMMA JoinedList ==
  ASSUME NEW S, NEW s \in Seq(S), NEW t \in Seq(S)
  PROVE  s \o t \in Seq(S)
  OBVIOUS

(* The queue after its first message was received.                         *)
LEMMA TailList ==
  ASSUME NEW S, NEW s \in Seq(S), s # << >>
  PROVE  /\ Tail(s) \in Seq(S) /\ Len(Tail(s)) = Len(s) - 1
         /\ \A i \in 1 .. Len(Tail(s)) : Tail(s)[i] = s[i + 1]
         /\ Len(s) = 1 => Tail(s) = << >>
  OBVIOUS

(* zalloc takes an element that is free only once.                         *)
LEMMA HeadTailList ==
  ASSUME NEW S, NEW s \in Seq(S), s # <<>>
  PROVE  /\ Range(s) = {Head(s)} \cup Range(Tail(s))
         /\ IsInjective(s) => IsInjective(Tail(s)) /\ Head(s) \notin Range(Tail(s))
<1>1. /\ DOMAIN s = 1 .. Len(s) /\ Len(s) \in Nat /\ Len(s) >= 1
      /\ DOMAIN Tail(s) = 1 .. Len(s) - 1
      /\ \A k \in 1 .. Len(s) - 1 : Tail(s)[k] = s[k + 1]
      /\ Head(s) = s[1]
  OBVIOUS
<1>2. \A k \in 1 .. Len(s) : k = 1 \/ (k - 1 \in 1 .. Len(s) - 1 /\ s[k] = Tail(s)[k - 1])
  BY <1>1
<1>3. Range(s) = {Head(s)} \cup Range(Tail(s))
  <2>1. ASSUME NEW x \in Range(s) PROVE x \in {Head(s)} \cup Range(Tail(s))
    <3>1. PICK k \in 1 .. Len(s) : x = s[k]
      BY <1>1, <2>1 DEF Range
    <3>2. CASE k = 1
      BY <1>1, <3>1, <3>2
    <3>3. CASE k # 1
      <4>1. k - 1 \in DOMAIN Tail(s) /\ x = Tail(s)[k - 1]
        BY <1>1, <1>2, <3>1, <3>3
      <4> QED BY Zenon, <4>1 DEF Range
    <3> QED BY <3>2, <3>3
  <2>2. ASSUME NEW x \in {Head(s)} \cup Range(Tail(s)) PROVE x \in Range(s)
    BY <1>1, <2>2 DEF Range
  <2> QED BY <2>1, <2>2
<1>4. ASSUME IsInjective(s) PROVE IsInjective(Tail(s)) /\ Head(s) \notin Range(Tail(s))
  BY <1>1, <1>4 DEF Range, IsInjective
<1> QED BY <1>3, <1>4
-----------------------------------------------------------------------------

Desc ==
  [pager : Obj \cup {0}, pager_request : Obj \cup {0}, dev : Obj \cup {0},
   pages : Obj \cup {0}, pages_size : {0, 1}]

Msg == {"init", "data_request", "data_write", "terminate"}

Using == {"mapped", "page", "ready", "retry"}

Content == Frame \cup {Absent, Busy}

VmObject(ob) ==
  /\ DOMAIN ob = {"state", "ref_count", "pager_ready", "page"}
  /\ ob.state \in {"none", "alive", "dying", "dead"}
  /\ ob.ref_count \in Int
  /\ ob.page \in [Page -> Content]

Thread ==
  [pc : {"idle", "record", "map"} \cup Using, d : Element \cup {0}, o : Obj \cup {0}, p : Nat]

Manager ==
  [pc : {"receive", "fill", "release", "attributes", "panic"},
   d : Element \cup {0}, o : Obj \cup {0}, p : Nat]

TypeInv ==
  /\ zone \in [Element -> Desc]
  /\ free_elements \in Seq(Element)
  /\ device_pager_list \in Seq(Element)
  /\ mgr \in Manager
  /\ queue \in [Obj -> Seq(Msg)]
  /\ object = [o \in Obj |-> object[o]] /\ \A o \in Obj : VmObject(object[o])
  /\ memory \in [Obj \cup {0} -> {"none", "held", "freed", "misfreed"}]
  /\ client \in [Client -> Thread]
  /\ maps \in 0 .. MaxMaps

Listed == Range(device_pager_list)

Free == Range(free_elements)

(* An element is in the list once or free once, and nobody left the lock.  *)
ListInv ==
  /\ IsInjective(device_pager_list) /\ IsInjective(free_elements)
  /\ Listed \cap Free = {}
  /\ ~device_pager_lock

(* No message will name the request port r again.                          *)
Spent(r) == r # 0 => object[r].state = "dead" /\ queue[r] = << >>

(* What a descriptor of the list records.                                  *)
DescOK(d) ==
  /\ zone[d].pager \in 1 .. maps
  /\ zone[d].pager_request = zone[d].pager \/ Spent(zone[d].pager_request)
  /\ zone[d].pager_request = zone[d].pager =>
       \/ zone[d].pages_size = 0
       \/ zone[d].pages = zone[d].pager /\ memory[zone[d].pager] = "held"

DescInv ==
  /\ \A d \in Free : Spent(zone[d].pager_request)
  /\ \A d \in Listed : DescOK(d)
  /\ \A d, e \in Listed : zone[d].pager = zone[e].pager => d = e

(* No vm_object was made for the call of mmap yet.                         *)
Fresh(o) == object[o].state = "none" /\ queue[o] = << >>

(* Where the thread of a client is, and what it has.                       *)
ClientOK(c) ==
  /\ client[c].pc # "idle" => client[c].o \in 1 .. maps
  /\ client[c].pc \in {"record", "map"} =>
       Fresh(client[c].o) /\ client[c].d \in Listed /\ zone[client[c].d].pager = client[c].o
  /\ client[c].pc = "map" =>
       zone[client[c].d].dev = client[c].o /\ zone[client[c].d].pager_request = 0
  /\ client[c].pc \in Using => object[client[c].o].state = "alive"

ClientInv ==
  /\ \A c \in Client : ClientOK(c)
  /\ \A b, c \in Client :
       client[b].pc # "idle" /\ client[c].pc # "idle" /\ client[b].o = client[c].o => b = c

Used(o) == \E c \in Client : client[c].pc \in Using /\ client[c].o = o

Filling(o) == mgr.pc \in {"fill", "release"} /\ mgr.o = o

(* The references of an object are those of its mapping and of the pager.  *)
RefsOK(o) ==
  object[o].state = "alive" =>
    object[o].ref_count = (IF Used(o) THEN 1 ELSE 0) + (IF Filling(o) THEN 1 ELSE 0)

PagesOK(o) ==
  \A p \in Page :
    object[o].page[p] \in Frame =>
      /\ object[o].state \in {"alive", "dying"}
      /\ memory[o] = "held"
      /\ object[o].page[p] = <<o, p>>

ObjectInv ==
  \A o \in Obj : (o > maps => Fresh(o)) /\ RefsOK(o) /\ PagesOK(o)

(* The descriptor of an object, before and after its init message.         *)
Serves(d, o) ==
  /\ zone[d].pager = o /\ zone[d].dev = o
  /\ zone[d].pager_request = IF queue[o] # << >> /\ queue[o][1] = "init" THEN 0 ELSE o

QueueOK(o) ==
  /\ object[o].state = "none" => queue[o] = << >>
  /\ object[o].state \in {"alive", "dying"} \/ queue[o] # << >> =>
       \E d \in Listed : Serves(d, o)
  /\ \A i \in 1 .. Len(queue[o]) :
       /\ queue[o][i] = "init" => i = 1
       /\ queue[o][i] = "terminate" => i = Len(queue[o]) /\ object[o].state = "dead"

QueueInv == \A o \in Obj : QueueOK(o)

MgrInv ==
  /\ mgr.pc # "panic"
  /\ mgr.pc \in {"fill", "release"} =>
       /\ mgr.o \in Obj /\ mgr.d \in Listed /\ mgr.p \in Page
       /\ object[mgr.o].state = "alive" /\ memory[mgr.o] = "held"
       /\ zone[mgr.d].pager = mgr.o /\ zone[mgr.d].dev = mgr.o
  /\ mgr.pc = "attributes" => mgr.o \in Obj

MemoryInv == \A o \in Obj \cup {0} : memory[o] # "misfreed"

DevInv ==
  /\ TypeInv /\ ListInv /\ DescInv /\ ClientInv /\ ObjectInv /\ QueueInv /\ MgrInv
  /\ MemoryInv
-----------------------------------------------------------------------------
(* The pager that receives fills no object, and memory_object_init makes   *)
(* it fill one or none.                                                    *)
LEMMA FillingStarts ==
  ASSUME NEW o, NEW d, mgr.pc = "receive"
  PROVE  /\ \A q \in Obj : ~Filling(q)
         /\ mgr' = [pc |-> "fill", d |-> d, o |-> o, p |-> 1] => \A q \in Obj : Filling(q)' <=> q = o
         /\ mgr' = mgr => \A q \in Obj : ~Filling(q)'
  BY DEF Filling

(* memory_object_terminate takes its descriptor, and no other, out of the  *)
(* list.                                                                   *)
LEMMA UnlinkedList ==
  ASSUME NEW S, NEW q \in Seq(S), IsInjective(q), NEW d \in Range(q)
  PROVE  /\ Unlinked(q, d) \in Seq(S) /\ IsInjective(Unlinked(q, d))
         /\ Range(Unlinked(q, d)) = Range(q) \ {d}
<1>1. DOMAIN q = 1 .. Len(q) /\ Len(q) \in Nat /\ \A j \in 1 .. Len(q) : q[j] \in S
  OBVIOUS
<1>2. PICK i \in 1 .. Len(q) : q[i] = d /\ i = CHOOSE j \in 1 .. Len(q) : q[j] = d
  BY <1>1 DEF Range
<1> DEFINE u == [j \in 1 .. Len(q) - 1 |-> IF j < i THEN q[j] ELSE q[j + 1]]
<1>3. Unlinked(q, d) = u
  BY <1>2 DEF Unlinked
<1>4. Len(q) - 1 \in Nat /\ DOMAIN u = 1 .. Len(q) - 1
  BY <1>1, <1>2
<1>0. ASSUME NEW j \in 1 .. Len(q) - 1
      PROVE  /\ j \in 1 .. Len(q) /\ j + 1 \in 1 .. Len(q)
             /\ j < i => j # i
             /\ ~(j < i) => j + 1 # i
  BY <1>1
<1>5. \A j \in 1 .. Len(q) - 1 : u[j] = IF j < i THEN q[j] ELSE q[j + 1]
  OBVIOUS
<1> HIDE DEF u
<1>6. u \in Seq(S)
  <2>1. \A j \in 1 .. Len(q) - 1 : u[j] \in S
    BY <1>1, <1>5
  <2>2. u = [j \in 1 .. Len(q) - 1 |-> u[j]]
    BY DEF u
  <2> QED BY <1>4, <2>1, <2>2
<1>7. \A j, k \in 1 .. Len(q) : q[j] = q[k] => j = k
  BY <1>1 DEF IsInjective
<1>8. IsInjective(u)
  <2> SUFFICES ASSUME NEW j \in 1 .. Len(q) - 1, NEW k \in 1 .. Len(q) - 1, u[j] = u[k]
               PROVE  j = k
    BY <1>4 DEF IsInjective
  <2>1. CASE j < i /\ k < i
    BY <1>1, <1>5, <1>7, <2>1
  <2>2. CASE j < i /\ ~(k < i)
    BY <1>1, <1>2, <1>5, <1>7, <2>2
  <2>3. CASE ~(j < i) /\ k < i
    BY <1>1, <1>2, <1>5, <1>7, <2>3
  <2>4. CASE ~(j < i) /\ ~(k < i)
    BY <1>1, <1>2, <1>5, <1>7, <2>4
  <2> QED BY <2>1, <2>2, <2>3, <2>4
<1>9. Range(u) = Range(q) \ {d}
  <2>1. ASSUME NEW x \in Range(u) PROVE x \in Range(q) \ {d}
    <3>1. PICK j \in 1 .. Len(q) - 1 : x = u[j]
      BY <1>4 DEF Range
    <3>2. PICK k \in 1 .. Len(q) : k # i /\ x = q[k]
      <4>1. CASE j < i
        <5>1. j \in 1 .. Len(q) /\ j # i
          BY <1>0, <4>1
        <5>2. x = q[j]
          BY <1>5, <3>1, <4>1
        <5> QED BY <5>1, <5>2
      <4>2. CASE ~(j < i)
        <5>1. j + 1 \in 1 .. Len(q) /\ j + 1 # i
          BY <1>0, <4>2
        <5>2. x = q[j + 1]
          BY <1>5, <3>1, <4>2
        <5> QED BY <5>1, <5>2
      <4> QED BY <4>1, <4>2
    <3> QED BY <1>1, <1>2, <1>7, <3>2 DEF Range
  <2>2. ASSUME NEW x \in Range(q) \ {d} PROVE x \in Range(u)
    <3>1. PICK k \in 1 .. Len(q) : k # i /\ x = q[k]
      BY <1>1, <1>2 DEF Range
    <3>2. CASE k < i
      <4>1. k \in 1 .. Len(q) - 1 /\ u[k] = x
        BY <1>1, <1>2, <1>5, <3>1, <3>2
      <4> QED BY <1>4, <4>1 DEF Range
    <3>3. CASE ~(k < i)
      <4>1. k - 1 \in 1 .. Len(q) - 1 /\ ~(k - 1 < i) /\ (k - 1) + 1 = k
        BY <1>1, <1>2, <3>1, <3>3
      <4>2. u[k - 1] = q[k]
        BY <1>5, <4>1
      <4> QED BY <1>4, <3>1, <4>1, <4>2 DEF Range
    <3> QED BY <3>2, <3>3
  <2> QED BY <2>1, <2>2
<1> QED BY <1>3, <1>6, <1>8, <1>9

(* An element that is put in front of a list it is not in.                 *)
LEMMA ConsList ==
  ASSUME NEW S, NEW s \in Seq(S), NEW d \in S, IsInjective(s), d \notin Range(s)
  PROVE  Range(<<d>> \o s) = Range(s) \cup {d} /\ IsInjective(<<d>> \o s)
<1> DEFINE u == <<d>> \o s
<1>1. /\ DOMAIN u = 1 .. Len(s) + 1 /\ DOMAIN s = 1 .. Len(s) /\ Len(s) \in Nat
      /\ u[1] = d /\ \A k \in 1 .. Len(s) : u[k + 1] = s[k]
  OBVIOUS
<1>2. \A k \in 1 .. Len(s) + 1 : k = 1 \/ (k - 1 \in 1 .. Len(s) /\ u[k] = s[k - 1])
  BY <1>1
<1> HIDE DEF u
<1>3. Range(u) = Range(s) \cup {d}
  <2>1. ASSUME NEW x \in Range(u) PROVE x \in Range(s) \cup {d}
    BY <1>1, <1>2, <2>1 DEF Range
  <2>2. ASSUME NEW x \in Range(s) \cup {d} PROVE x \in Range(u)
    <3>1. CASE x = d
      BY <1>1, <3>1 DEF Range
    <3>2. CASE x \in Range(s)
      <4>1. PICK k \in 1 .. Len(s) : x = s[k]
        BY <1>1, <3>2 DEF Range
      <4>2. k + 1 \in DOMAIN u /\ u[k + 1] = x
        BY <1>1, <4>1
      <4> QED BY <4>2 DEF Range
    <3> QED BY <2>2, <3>1, <3>2
  <2> QED BY <2>1, <2>2
<1>4. IsInjective(u)
  <2>1. \A k \in 1 .. Len(s) : s[k] # d
    BY <1>1 DEF Range
  <2>2. \A j, k \in 1 .. Len(s) : s[j] = s[k] => j = k
    BY <1>1 DEF IsInjective
  <2>3. ASSUME NEW j \in 1 .. Len(s) + 1, NEW k \in 1 .. Len(s) + 1, u[j] = u[k] PROVE j = k
    <3>1. CASE j = 1 /\ k = 1
      BY <3>1
    <3>2. CASE j # 1 /\ k # 1
      <4>1. j - 1 \in 1 .. Len(s) /\ k - 1 \in 1 .. Len(s) /\ u[j] = s[j - 1] /\ u[k] = s[k - 1]
        BY <3>2, <1>1, <1>2
      <4>2. j - 1 = k - 1
        BY Zenon, <4>1, <2>2, <2>3
      <4> QED BY <4>2
    <3>3. CASE j = 1 /\ k # 1
      BY <3>3, <1>1, <1>2, <2>1, <2>3
    <3>4. CASE j # 1 /\ k = 1
      BY <3>4, <1>1, <1>2, <2>1, <2>3
    <3> QED BY <3>1, <3>2, <3>3, <3>4
  <2> QED BY <1>1, <2>3 DEF IsInjective
<1> QED BY <1>3, <1>4 DEF u

(* When one descriptor of the list is in D, the search finds that one.     *)
LEMMA FirstOfOne ==
  ASSUME device_pager_list \in Seq(Element), IsInjective(device_pager_list),
         NEW D, NEW d \in Listed, d \in D, \A e \in Listed : e \in D => e = d
  PROVE  FirstOf(D) = {d}
<1>1. DOMAIN device_pager_list = 1 .. Len(device_pager_list)
  OBVIOUS
<1>2. PICK k \in 1 .. Len(device_pager_list) : device_pager_list[k] = d
  BY <1>1 DEF Listed, Range
<1>3. \A i \in 1 .. Len(device_pager_list) : device_pager_list[i] \in D => i = k
  BY <1>1, <1>2 DEF Listed, Range, IsInjective
<1> DEFINE found == {i \in 1 .. Len(device_pager_list) : device_pager_list[i] \in D}
<1>4. found = {k} /\ k \in Int
  BY <1>2, <1>3
<1>5. (CHOOSE i \in found : \A j \in found : i <= j) = k
  <2> HIDE DEF found
  <2> QED BY <1>4
<1>6. FirstOf(D) = IF found = {} THEN {} ELSE {device_pager_list[CHOOSE i \in found : \A j \in found : i <= j]}
  BY DEF FirstOf
<1> HIDE DEF found
<1> QED BY <1>2, <1>4, <1>5, <1>6

(* A page that is busy, or absent, is no page of a device.                 *)
LEMMA NoFrame == Absent \notin Frame /\ Busy \notin Frame /\ Absent # Busy
  BY DEF Absent, Busy, Frame

(* The record of an object that was never made.                            *)
LEMMA NoObjectType ==
  /\ VmObject(NoObject) /\ NoObject.state = "none"
  /\ \A p \in Page : NoObject.page[p] \notin Frame
  BY NoFrame DEF NoObject, VmObject, Content

(* The invariant holds at first.                                           *)
LEMMA DevInit == ASSUME DevicePagerAssumption, Init PROVE DevInv
<1> USE DEF Init, DevicePagerAssumption
<1>1. TypeInv
  <2>1. free_elements \in Seq(Element)
    BY DEF Element
  <2> QED BY <2>1, NoObjectType DEF TypeInv, Garbage, Desc, Receiving, Idle, Manager, Thread
<1>2. ListInv
  BY EmptyList DEF ListInv, Listed, Free, IsInjective
<1>3. Listed = {}
  BY EmptyList DEF Listed
<1>4. Free \subseteq Element
  BY <1>1, MembersOf DEF Free, TypeInv
<1>5. DescInv
  BY <1>3, <1>4 DEF DescInv, Garbage, Spent
<1>6. ClientInv
  BY DEF ClientInv, ClientOK, Idle, Using
<1>7. ObjectInv
  BY NoObjectType DEF ObjectInv, Fresh, RefsOK, PagesOK
<1>8. QueueInv
  BY NoObjectType DEF QueueInv, QueueOK
<1>9. MgrInv /\ MemoryInv
  BY DEF MgrInv, MemoryInv, Receiving
<1> QED BY Zenon, <1>1, <1>2, <1>5, <1>6, <1>7, <1>8, <1>9 DEF DevInv

(* The members of the lists are elements of the zone.                      *)
LEMMA Members == ASSUME TypeInv PROVE Listed \subseteq Element /\ Free \subseteq Element
  BY MembersOf DEF TypeInv, Listed, Free

(* The pieces of the state that the steps change keep their types.         *)
LEMMA ThreadType ==
  /\ Idle \in Thread /\ Idle.pc = "idle"
  /\ \A t \in Thread, pc \in {"idle", "record", "map"} \cup Using :
       /\ [t EXCEPT !.pc = pc] \in Thread
       /\ [t EXCEPT !.pc = pc, !.d = 0] \in Thread
       /\ \A p \in Nat : [t EXCEPT !.pc = pc, !.p = p] \in Thread
  BY Zenon DEF Thread, Idle

(* An object whose reference is dropped.                                   *)
LEMMA UnreferencedType ==
  ASSUME NEW ob, VmObject(ob)
  PROVE  /\ VmObject(Unreferenced(ob))
         /\ Unreferenced(ob).page = ob.page
         /\ Unreferenced(ob).ref_count = ob.ref_count - 1
         /\ Unreferenced(ob).state = IF ob.ref_count = 1 THEN "dying" ELSE ob.state
  BY DEF VmObject, Unreferenced

(* An object that vm_object_lookup finds, and one that is made ready.      *)
LEMMA LookedUpType ==
  ASSUME NEW ob, VmObject(ob)
  PROVE  /\ VmObject(LookedUp(ob))
         /\ LookedUp(ob).page = ob.page
         /\ LookedUp(ob).ref_count = ob.ref_count + 1
         /\ LookedUp(ob).state = ob.state
         /\ VmObject([ob EXCEPT !.pager_ready = TRUE])
         /\ [ob EXCEPT !.pager_ready = TRUE].page = ob.page
         /\ [ob EXCEPT !.pager_ready = TRUE].ref_count = ob.ref_count
         /\ [ob EXCEPT !.pager_ready = TRUE].state = ob.state
  BY DEF VmObject, LookedUp

(* An object with one more page.                                           *)
LEMMA PageType ==
  ASSUME NEW ob, VmObject(ob), NEW p \in Page, NEW f \in Content
  PROVE  /\ VmObject([ob EXCEPT !.page[p] = f])
         /\ [ob EXCEPT !.page[p] = f].page = [ob.page EXCEPT ![p] = f]
         /\ [ob EXCEPT !.page[p] = f].ref_count = ob.ref_count
         /\ [ob EXCEPT !.page[p] = f].state = ob.state
  BY DEF VmObject

(* The object that vm_object_enter makes.                                  *)
LEMMA NewObjectType ==
  ASSUME NEW b, NEW n, n = [NoObject EXCEPT !.state = "alive", !.ref_count = 1, !.pager_ready = b]
  PROVE  VmObject(n) /\ n.state = "alive" /\ n.ref_count = 1 /\ n.page = NoObject.page
  BY NoObjectType DEF VmObject

(* The object that vm_object_terminate leaves.                             *)
LEMMA DeadObjectType ==
  ASSUME NEW n, n = [NoObject EXCEPT !.state = "dead"]
  PROVE  VmObject(n) /\ n.state = "dead" /\ n.page = NoObject.page
  BY NoObjectType DEF VmObject

(* The descriptors of RecordArguments and of memory_object_init.           *)
LEMMA DescType ==
  ASSUME NEW e \in Desc, NEW o \in Obj
  PROVE  /\ [e EXCEPT !.pager = o] \in Desc
         /\ Recorded(e, o) \in Desc
         /\ Initialised(e, o) \in Desc
  BY Zenon DEF Desc, Recorded, Initialised, PORT_NULL

(* memory_object_init finds the descriptor that device_pager_create made   *)
(* for the object, with its arguments.                                     *)
LEMMA InitFinds ==
  ASSUME DevInv, NEW o \in Obj, Receive(o, "init")
  PROVE  \E d \in Listed :
           /\ DescriptorOf(o) = {d}
           /\ zone[d].pager = o /\ zone[d].dev = o /\ zone[d].pager_request = 0
<1>1. queue[o] # << >> /\ queue[o][1] = "init"
  BY DEF Receive, DevInv, TypeInv
<1>2. PICK d \in Listed : Serves(d, o)
  BY <1>1 DEF DevInv, QueueInv, QueueOK
<1>3. zone[d].pager = o /\ zone[d].dev = o /\ zone[d].pager_request = 0
  BY <1>1, <1>2 DEF Serves
<1>4. \A e \in Listed : zone[e].pager = o => e = d
  BY <1>3 DEF DevInv, DescInv
<1>5. DescriptorOf(o) = {d}
  <2> DEFINE D == {e \in Element : zone[e].pager = o}
  <2>1. d \in D /\ \A e \in Listed : e \in D => e = d
    BY <1>3, <1>4, Members DEF DevInv
  <2>2. device_pager_list \in Seq(Element) /\ IsInjective(device_pager_list)
    BY DEF DevInv, TypeInv, ListInv
  <2>3. DescriptorOf(o) = FirstOf(D)
    BY DEF DescriptorOf
  <2> HIDE DEF D
  <2> QED BY <2>1, <2>2, <2>3, FirstOfOne
<1> QED BY <1>3, <1>5

(* memory_object_terminate finds it, too, and its message is the last one  *)
(* of the object.                                                          *)
LEMMA TerminateFinds ==
  ASSUME DevInv, NEW o \in Obj, Receive(o, "terminate")
  PROVE  /\ object[o].state = "dead" /\ queue[o] # << >> /\ queue'[o] = << >>
         /\ \E d \in Listed :
              /\ FirstOf({e \in Element : zone[e].pager_request = o}) = {d}
              /\ zone[d].pager = o /\ zone[d].pager_request = o
<1>1. queue[o] # << >> /\ queue[o][1] = "terminate" /\ queue'[o] = Tail(queue[o])
      /\ queue[o] \in Seq(Msg) /\ Len(queue[o]) \in Nat /\ 1 \in 1 .. Len(queue[o])
  BY DEF Receive, DevInv, TypeInv
<1>2. 1 = Len(queue[o]) /\ object[o].state = "dead"
  BY Zenon, <1>1 DEF DevInv, QueueInv, QueueOK
<1>3. queue'[o] = << >>
  BY Zenon, <1>1, <1>2, TailList
<1>4. PICK d \in Listed : Serves(d, o)
  BY <1>1 DEF DevInv, QueueInv, QueueOK
<1>5. zone[d].pager = o /\ zone[d].pager_request = o
  BY <1>1, <1>4 DEF Serves
<1>6. ASSUME NEW e \in Listed, zone[e].pager_request = o PROVE e = d
  <2>1. ~Spent(o)
    BY <1>1 DEF Spent, Obj
  <2>2. zone[e].pager = o
    BY <1>6, <2>1 DEF DevInv, DescInv, DescOK
  <2> QED BY <1>5, <2>2 DEF DevInv, DescInv
<1> DEFINE D == {e \in Element : zone[e].pager_request = o}
<1>7. d \in D /\ \A e \in Listed : e \in D => e = d
  BY <1>5, <1>6, Members DEF DevInv
<1>8. device_pager_list \in Seq(Element) /\ IsInjective(device_pager_list)
  BY DEF DevInv, TypeInv, ListInv
<1>9. FirstOf(D) = {d}
  <2> HIDE DEF D
  <2> QED BY <1>7, <1>8, FirstOfOne
<1> QED BY Zenon, <1>1, <1>2, <1>3, <1>5, <1>9

(* The object of a thread that is mapping it or uses it.                   *)
LEMMA ClientObject ==
  ASSUME DevInv, DevicePagerAssumption, NEW c \in Client, client[c].pc # "idle"
  PROVE  client[c].o \in Obj /\ client[c] \in Thread /\ client[c].o <= maps
  BY DEF DevInv, ClientInv, ClientOK, TypeInv, Obj, DevicePagerAssumption

(* What vm_fault does, whichever page it finds.                            *)
LEMMA FaultEffect ==
  ASSUME NEW c \in Client, NEW p \in Page, Fault(c, p)
  PROVE  /\ client[c].pc \in Using
         /\ \E pc \in Using, n \in Nat :
              client' = [client EXCEPT ![c] = [@ EXCEPT !.pc = pc, !.p = n]]
         /\ \/ UNCHANGED <<object, queue>>
            \/ /\ object' = [object EXCEPT ![client[c].o] = [@ EXCEPT !.page[p] = Busy]]
               /\ queue' = [queue EXCEPT ![client[c].o] = Append(@, "data_request")]
         /\ UNCHANGED <<free_elements, zone, device_pager_list, device_pager_lock, mgr, memory,
                        maps>>
<1>1. p \in Nat
  BY DEF Page
<1>2. client[c].pc \in Using
  BY Zenon DEF Fault, Using
<1>3. \E pc \in Using, n \in Nat : client' = [client EXCEPT ![c] = [@ EXCEPT !.pc = pc, !.p = n]]
  <2>1. \/ client' = [client EXCEPT ![c] = [@ EXCEPT !.pc = "mapped", !.p = 0]]
        \/ client' = [client EXCEPT ![c] = [@ EXCEPT !.pc = "page", !.p = p]]
        \/ client' = [client EXCEPT ![c] = [@ EXCEPT !.pc = "ready", !.p = p]]
    BY DEF Fault
  <2>2. "mapped" \in Using /\ "page" \in Using /\ "ready" \in Using /\ 0 \in Nat
    BY Zenon DEF Using
  <2> QED BY Zenon, <1>1, <2>1, <2>2
<1>4. \/ UNCHANGED <<object, queue>>
      \/ /\ object' = [object EXCEPT ![client[c].o] = [@ EXCEPT !.page[p] = Busy]]
         /\ queue' = [queue EXCEPT ![client[c].o] = Append(@, "data_request")]
  BY Zenon DEF Fault, Send
<1> QED BY Zenon, <1>2, <1>3, <1>4 DEF Fault

(* Every step keeps the types.                                             *)
LEMMA DevType == ASSUME DevicePagerAssumption, DevInv, [Next]_vars PROVE TypeInv'
<1>0. TypeInv
  BY DEF DevInv
<1> USE DEF PORT_NULL
<1>1. ASSUME NEW c \in Client, device_pager_create(c) PROVE TypeInv'
  <2>1. /\ Head(free_elements) \in Element /\ Tail(free_elements) \in Seq(Element)
    BY <1>0, <1>1 DEF TypeInv, device_pager_create
  <2>2. PICK d \in Element : d = Head(free_elements)
    BY <2>1
  <2>3. <<d>> \o device_pager_list \in Seq(Element)
    BY <1>0 DEF TypeInv
  <2>4. PICK n \in Obj : n = maps + 1 /\ n \in 0 .. MaxMaps
    BY <1>0, <1>1 DEF TypeInv, device_pager_create, Obj, DevicePagerAssumption
  <2>5. zone' = [zone EXCEPT ![d] = [@ EXCEPT !.pager = n]]
    BY <1>1, <2>2, <2>4 DEF device_pager_create
  <2>6. zone' \in [Element -> Desc]
    BY <1>0, <2>5, DescType DEF TypeInv
  <2>7. [Idle EXCEPT !.pc = "record", !.d = d, !.o = n] \in Thread
    BY Zenon DEF Idle, Thread
  <2>8. client' \in [Client -> Thread]
    BY <1>0, <1>1, <2>2, <2>4, <2>7 DEF TypeInv, device_pager_create
  <2> QED BY <1>0, <1>1, <2>1, <2>2, <2>3, <2>4, <2>6, <2>8 DEF TypeInv, device_pager_create
<1>2. ASSUME NEW c \in Client, RecordArguments(c) PROVE TypeInv'
  <2>1. client[c].o \in Obj /\ client[c] \in Thread
    BY <1>2, ClientObject DEF RecordArguments
  <2>2. client' \in [Client -> Thread]
    BY Zenon, <1>0, <1>2, <2>1, ThreadType DEF TypeInv, RecordArguments
  <2>3. zone' \in [Element -> Desc]
    BY Zenon, <1>0, <1>2, <2>1, DescType DEF TypeInv, RecordArguments
  <2> QED BY <1>0, <1>2, <2>2, <2>3 DEF TypeInv, RecordArguments
<1>3. ASSUME NEW c \in Client, Map(c) PROVE TypeInv'
  <2>1. client[c].o \in Obj /\ client[c] \in Thread
    BY <1>3, ClientObject DEF Map
  <2>2. client' \in [Client -> Thread]
    BY Zenon, <1>0, <1>3, <2>1, ThreadType DEF TypeInv, Map, Using
  <2>3. object' = [o \in Obj |-> object'[o]] /\ \A o \in Obj : VmObject(object'[o])
    BY Zenon, <1>0, <1>3, <2>1, NewObjectType DEF TypeInv, Map
  <2>4. queue' \in [Obj -> Seq(Msg)]
    BY <1>0, <1>3, <2>1 DEF TypeInv, Map, Send, Msg
  <2> QED BY <1>0, <1>3, <2>2, <2>3, <2>4 DEF TypeInv, Map
<1>17. ASSUME NEW c \in Client, CreateFails(c) PROVE TypeInv'
  <2>1. free_elements' \in Seq(Element)
    BY <1>0, <1>17, TailList DEF TypeInv, CreateFails
  <2> QED BY <1>0, <1>17, <2>1 DEF TypeInv, CreateFails
<1>4. ASSUME NEW c \in Client, MapFails(c) PROVE TypeInv'
  BY Zenon, <1>0, <1>4, ThreadType DEF TypeInv, MapFails
<1>5. ASSUME NEW c \in Client, Abort(c) PROVE TypeInv'
  BY Zenon, <1>0, <1>5, ThreadType DEF TypeInv, Abort, Using
<1>6. ASSUME NEW c \in Client, Unmap(c) PROVE TypeInv'
  <2>1. client[c].o \in Obj /\ client[c] \in Thread
    BY <1>6, ClientObject DEF Unmap
  <2>2. object' = [o \in Obj |-> object'[o]] /\ \A o \in Obj : VmObject(object'[o])
    BY Zenon, <1>0, <1>6, <2>1, UnreferencedType DEF TypeInv, Unmap
  <2> QED BY Zenon, <1>0, <1>6, <2>2, ThreadType DEF TypeInv, Unmap
<1>7. ASSUME NEW c \in Client, NEW p \in Page, Fault(c, p) PROVE TypeInv'
  <2>1. client[c].o \in Obj /\ client[c] \in Thread /\ Busy \in Content
    BY Zenon, <1>7, ClientObject, FaultEffect DEF Using, Content
  <2>2. PICK pc \in Using, n \in Nat :
          client' = [client EXCEPT ![c] = [@ EXCEPT !.pc = pc, !.p = n]]
    BY Zenon, <1>7, FaultEffect
  <2>3. client' \in [Client -> Thread]
    BY Zenon, <1>0, <2>2, ThreadType DEF TypeInv
  <2>4. /\ \/ UNCHANGED <<object, queue>>
           \/ /\ object' = [object EXCEPT ![client[c].o] = [@ EXCEPT !.page[p] = Busy]]
              /\ queue' = [queue EXCEPT ![client[c].o] = Append(@, "data_request")]
        /\ UNCHANGED <<free_elements, zone, device_pager_list, device_pager_lock, mgr, memory,
                       maps>>
    BY Zenon, <1>7, FaultEffect
  <2>5. CASE UNCHANGED <<object, queue>>
    BY <1>0, <2>3, <2>4, <2>5 DEF TypeInv
  <2>6. CASE /\ object' = [object EXCEPT ![client[c].o] = [@ EXCEPT !.page[p] = Busy]]
             /\ queue' = [queue EXCEPT ![client[c].o] = Append(@, "data_request")]
    <3>1. object' = [o \in Obj |-> object'[o]] /\ \A o \in Obj : VmObject(object'[o])
      BY Zenon, <1>0, <2>1, <2>6, PageType DEF TypeInv
    <3>2. queue' \in [Obj -> Seq(Msg)]
      BY <1>0, <2>1, <2>6 DEF TypeInv, Msg
    <3> QED BY Zenon, <1>0, <2>3, <2>4, <3>1, <3>2 DEF TypeInv
  <2> QED BY <2>4, <2>5, <2>6
<1>8. ASSUME NEW o \in Obj, vm_object_terminate(o) PROVE TypeInv'
  <2>1. object' = [q \in Obj |-> object'[q]] /\ \A q \in Obj : VmObject(object'[q])
    BY Zenon, <1>0, <1>8, DeadObjectType DEF TypeInv, vm_object_terminate
  <2>2. PICK written \in {<< >>, <<"data_write">>} :
          queue' = [queue EXCEPT ![o] = @ \o written \o <<"terminate">>]
    BY Zenon, <1>8 DEF vm_object_terminate
  <2>3. /\ << >> \in Seq(Msg) /\ <<"data_write">> \in Seq(Msg)
        /\ <<"terminate">> \in Seq(Msg)
    BY DEF Msg
  <2>4. \A q \in Seq(Msg) : q \o written \o <<"terminate">> \in Seq(Msg)
    BY Zenon, <2>3, JoinedList
  <2>5. queue' \in [Obj -> Seq(Msg)]
    BY <1>0, <2>2, <2>4 DEF TypeInv
  <2> QED BY Zenon, <1>0, <1>8, <2>1, <2>5 DEF TypeInv, vm_object_terminate
<1>9. ASSUME NEW o \in Obj, NEW m, Receive(o, m) PROVE queue' \in [Obj -> Seq(Msg)]
  BY <1>0, <1>9 DEF TypeInv, Receive
<1>10. ASSUME NEW o \in Obj, memory_object_init(o) PROVE TypeInv'
  <2>1. queue' \in [Obj -> Seq(Msg)] /\ Receive(o, "init")
    BY <1>9, <1>10 DEF memory_object_init
  <2>2. PICK d \in Listed : DescriptorOf(o) = {d} /\ zone[d].pager_request = 0
    BY <2>1, InitFinds
  <2>3. d \in Element
    BY <1>0, Members
  <2>4. /\ zone' = [zone EXCEPT ![d] = Initialised(@, o)]
        /\ IF object[o].state = "alive"
           THEN /\ object' = [object EXCEPT ![o] = LookedUp(@)]
                /\ memory' = [memory EXCEPT ![o] = "held"]
                /\ mgr' = [pc |-> "fill", d |-> d, o |-> o, p |-> 1]
           ELSE UNCHANGED <<object, memory, mgr>>
    BY <1>10, <2>2 DEF memory_object_init
  <2>5. zone' \in [Element -> Desc]
    BY Zenon, <1>0, <2>3, <2>4, DescType DEF TypeInv
  <2>6. object' = [q \in Obj |-> object'[q]] /\ \A q \in Obj : VmObject(object'[q])
    <3>1. object = [q \in Obj |-> object[q]] /\ \A q \in Obj : VmObject(object[q])
      BY Zenon, <1>0 DEF TypeInv
    <3>2. CASE object[o].state # "alive"
      BY Zenon, <2>4, <3>1, <3>2
    <3>3. CASE object[o].state = "alive"
      <4>1. PICK n : n = LookedUp(object[o]) /\ VmObject(n)
        BY Zenon, <3>1, LookedUpType
      <4>2. object' = [object EXCEPT ![o] = n]
        BY Zenon, <2>4, <3>3, <4>1
      <4> QED BY <3>1, <4>1, <4>2
    <3> QED BY Zenon, <3>2, <3>3
  <2>7. mgr' \in Manager
    BY <1>0, <2>3, <2>4 DEF TypeInv, Manager
  <2> QED BY Zenon, <1>0, <1>10, <2>1, <2>4, <2>5, <2>6, <2>7 DEF TypeInv, memory_object_init
<1>12. ASSUME NEW o \in Obj, memory_object_terminate(o) PROVE TypeInv'
  <2>1. queue' \in [Obj -> Seq(Msg)] /\ Receive(o, "terminate")
    BY <1>9, <1>12 DEF memory_object_terminate
  <2>2. PICK d \in Listed : /\ FirstOf({e \in Element : zone[e].pager_request = o}) = {d}
                            /\ zone[d].pager = o
    BY <2>1, TerminateFinds
  <2>3. d \in Element
    BY <1>0, Members
  <2>4. /\ device_pager_list' = Unlinked(device_pager_list, d)
        /\ free_elements' = <<d>> \o free_elements
        /\ memory' = Freed(zone[d])
    BY Zenon, <1>12, <2>2 DEF memory_object_terminate
  <2>5. device_pager_list' \in Seq(Element)
    BY <1>0, <2>4, UnlinkedList DEF TypeInv, DevInv, ListInv, Listed
  <2>6. free_elements' \in Seq(Element)
    BY <1>0, <2>3, <2>4 DEF TypeInv
  <2>7. memory' \in [Obj \cup {0} -> {"none", "held", "freed", "misfreed"}]
    BY Zenon, <1>0, <2>4 DEF TypeInv, Freed
  <2> QED BY <1>0, <1>12, <2>1, <2>5, <2>6, <2>7 DEF TypeInv, memory_object_terminate
<1>11. ASSUME NEW o \in Obj, IgnoreData(o) PROVE TypeInv'
  <2>1. queue' \in [Obj -> Seq(Msg)]
    BY <1>9, <1>11 DEF IgnoreData
  <2> QED BY <1>0, <1>11, <2>1 DEF TypeInv, IgnoreData
<1>13. ASSUME FillPage PROVE TypeInv'
  <2>1. client' \in [Client -> Thread]
    BY Zenon, <1>0, <1>13, ThreadType DEF TypeInv, FillPage, Replaced, Awaken, Using
  <2>2. /\ mgr.o \in Obj /\ mgr.p \in Page /\ zone[mgr.d].dev = mgr.o /\ mgr.p + 1 \in Nat
    BY <1>13 DEF DevInv, MgrInv, FillPage, Page
  <2>3. <<mgr.o, mgr.p>> \in Content
    BY <2>2 DEF Content, Frame
  <2>4. object' = [o \in Obj |-> object'[o]] /\ \A o \in Obj : VmObject(object'[o])
    BY Zenon, <1>0, <1>13, <2>2, <2>3, PageType DEF TypeInv, FillPage
  <2>5. mgr' \in Manager
    BY Zenon, <1>0, <1>13, <2>2 DEF TypeInv, FillPage, Manager
  <2> QED BY Zenon, <1>0, <1>13, <2>1, <2>4, <2>5 DEF TypeInv, FillPage
<1>14. ASSUME ReleaseObject PROVE TypeInv'
  <2>1. object' = [o \in Obj |-> object'[o]] /\ \A o \in Obj : VmObject(object'[o])
    BY Zenon, <1>0, <1>14, UnreferencedType DEF TypeInv, ReleaseObject
  <2> QED BY Zenon, <1>0, <1>14, <2>1 DEF TypeInv, ReleaseObject, Manager
<1>15. ASSUME SetReady PROVE TypeInv'
  <2>1. client' \in [Client -> Thread]
    <3>1. CASE client' = Awaken(mgr.o, "ready", Page)
      BY Zenon, <1>0, <3>1, ThreadType DEF TypeInv, Awaken, Using
    <3>2. CASE UNCHANGED client
      BY <1>0, <3>2 DEF TypeInv
    <3> QED BY Zenon, <1>15, <3>1, <3>2 DEF SetReady
  <2>2. object' = [o \in Obj |-> object'[o]] /\ \A o \in Obj : VmObject(object'[o])
    <3>1. CASE object[mgr.o].state = "alive"
      <4>1. object' = [object EXCEPT ![mgr.o] = [@ EXCEPT !.pager_ready = TRUE]]
        BY <1>15, <3>1 DEF SetReady
      <4> QED BY Zenon, <1>0, <4>1, LookedUpType DEF TypeInv
    <3>2. CASE object[mgr.o].state # "alive"
      BY <1>0, <1>15, <3>2 DEF TypeInv, SetReady
    <3> QED BY <3>1, <3>2
  <2> QED BY <1>0, <1>15, <2>1, <2>2 DEF TypeInv, SetReady, Receiving, Manager
<1>16. CASE UNCHANGED vars
  BY <1>0, <1>16 DEF TypeInv, vars
<1> QED BY <1>1, <1>2, <1>3, <1>4, <1>5, <1>6, <1>7, <1>8, <1>10, <1>11, <1>12, <1>13, <1>14,
           <1>15, <1>16, <1>17 DEF Next, MgrStep

(* The invariant of the descriptors as long as only threads, objects and   *)
(* messages change, and no request port that was spent is named again.     *)
LEMMA DescKept ==
  ASSUME DescInv, UNCHANGED <<zone, free_elements, device_pager_list, maps, memory>>,
         TypeInv, \A r \in Obj : Spent(r) => Spent(r)'
  PROVE  DescInv' /\ Listed' = Listed /\ Free' = Free
<1>1. Listed' = Listed /\ Free' = Free
  BY DEF Listed, Free
<1>2. \A r \in Obj \cup {0} : Spent(r) => Spent(r)'
  BY DEF Spent
<1>3. \A d \in Element : zone[d].pager_request \in Obj \cup {0}
  BY DEF TypeInv, Desc
<1>4. \A d \in Free : Spent(zone[d].pager_request)'
  BY <1>1, <1>2, <1>3, Members DEF DescInv
<1>5. \A d \in Listed : DescOK(d)'
  BY <1>1, <1>2, <1>3, Members DEF DescInv, DescOK
<1> QED BY <1>1, <1>4, <1>5 DEF DescInv

(* Messages are not lost, and the object they are about does not go back.  *)
LEMMA QueueKept ==
  ASSUME NEW q \in Obj, QueueOK(q), queue'[q] = queue[q],
         \/ object'[q].state = object[q].state
         \/ object[q].state = "alive" /\ object'[q].state = "dying",
         \A e \in Listed : Serves(e, q) => e \in Listed' /\ Serves(e, q)'
  PROVE  QueueOK(q)'
<1>1. object'[q].state = "none" => object[q].state = "none"
  OBVIOUS
<1>2. object'[q].state \in {"alive", "dying"} => object[q].state \in {"alive", "dying"}
  OBVIOUS
<1>3. object[q].state = "dead" => object'[q].state = "dead"
  OBVIOUS
<1> QED BY Zenon, <1>1, <1>2, <1>3 DEF QueueOK

(* The pages that are left in an object are the ones it had.               *)
LEMMA PagesKept ==
  ASSUME NEW q \in Obj, PagesOK(q), memory[q] = "held" => memory'[q] = "held",
         \/ object'[q].state = object[q].state
         \/ object[q].state = "alive" /\ object'[q].state = "dying",
         \A r \in Page : object'[q].page[r] \in Frame => object'[q].page[r] = object[q].page[r]
  PROVE  PagesOK(q)'
<1>1. object[q].state \in {"alive", "dying"} => object'[q].state \in {"alive", "dying"}
  OBVIOUS
<1> QED BY Zenon, <1>1 DEF PagesOK

(* Threads that are awakened go on using their objects.                    *)
LEMMA AwakenEffect ==
  ASSUME TypeInv, NEW o, NEW pc \in {"page", "ready"}, NEW P,
         client' = Awaken(o, pc, P) \/ client' = client
  PROVE  \A b \in Client : /\ client'[b].o = client[b].o /\ client'[b].d = client[b].d
                           /\ \/ client'[b].pc = client[b].pc
                              \/ client'[b].pc \in Using /\ client[b].pc \in Using
<1>1. CASE client' = client
  BY <1>1
<1>2. CASE client' = Awaken(o, pc, P)
  <2> SUFFICES ASSUME NEW b \in Client
               PROVE  /\ client'[b].o = client[b].o /\ client'[b].d = client[b].d
                      /\ \/ client'[b].pc = client[b].pc
                         \/ client'[b].pc \in Using /\ client[b].pc \in Using
    OBVIOUS
  <2>1. client[b] \in Thread
    BY DEF TypeInv
  <2>2. CASE client[b].o = o /\ client[b].pc = pc /\ client[b].p \in P
    <3>1. client'[b] = [client[b] EXCEPT !.pc = "retry"]
      BY <1>2, <2>2 DEF Awaken
    <3> QED BY <2>1, <2>2, <3>1 DEF Thread, Using
  <2>3. CASE ~(client[b].o = o /\ client[b].pc = pc /\ client[b].p \in P)
    <3>1. client'[b] = client[b]
      BY <1>2, <2>3 DEF Awaken
    <3> QED BY <3>1
  <2> QED BY <2>2, <2>3
<1> QED BY <1>1, <1>2

(* A step that enters pages, marks the object or moves the pager on, but   *)
(* changes no reference, no message and no descriptor.                     *)
LEMMA PagerKeeps ==
  ASSUME DevicePagerAssumption, DevInv, TypeInv', MgrInv',
         \A b \in Client : /\ client'[b].o = client[b].o /\ client'[b].d = client[b].d
                           /\ \/ client'[b].pc = client[b].pc
                              \/ client'[b].pc \in Using /\ client[b].pc \in Using,
         \A q \in Obj : /\ object'[q].state = object[q].state
                        /\ object'[q].ref_count = object[q].ref_count
                        /\ PagesOK(q)' /\ (Filling(q)' <=> Filling(q)),
         UNCHANGED <<zone, free_elements, device_pager_list, device_pager_lock, queue, memory,
                     maps>>
  PROVE  DevInv'
<1>0. TypeInv /\ ListInv /\ DescInv /\ ClientInv /\ ObjectInv /\ QueueInv /\ MemoryInv
  BY DEF DevInv
<1>1. Listed' = Listed /\ Free' = Free
  BY DEF Listed, Free
<1>2. ListInv' /\ MemoryInv'
  BY <1>0, <1>1 DEF ListInv, MemoryInv
<1>3. DescInv'
  <2>1. \A r \in Obj : Spent(r) => Spent(r)'
    BY DEF Spent
  <2> QED BY Zenon, <1>0, <2>1, DescKept
<1>4. \A q \in Obj : Fresh(q) => Fresh(q)'
  BY DEF Fresh
<1>5. ClientInv'
  <2>1. ASSUME NEW b \in Client PROVE ClientOK(b)'
    <3>1. client[b].pc # "idle" => client[b].o \in Obj
      BY ClientObject
    <3> QED BY SMTT(40), <1>0, <1>1, <1>4, <3>1 DEF ClientInv, ClientOK, Using
  <2>2. \A b \in Client : client'[b].o = client[b].o
                          /\ (client'[b].pc = "idle" <=> client[b].pc = "idle")
    BY DEF Using
  <2> QED BY Zenon, <1>0, <2>1, <2>2 DEF ClientInv
<1>6. ObjectInv'
  <2>1. ASSUME NEW q \in Obj PROVE Used(q)' <=> Used(q)
    BY DEF Used
  <2>2. ASSUME NEW q \in Obj PROVE RefsOK(q)'
    BY SMTT(40), <1>0, <2>1 DEF ObjectInv, RefsOK
  <2> QED BY Zenon, <1>0, <1>4, <2>2 DEF ObjectInv
<1>7. QueueInv'
  BY <1>0, <1>1 DEF QueueInv, QueueOK, Serves
<1> QED BY Zenon, <1>2, <1>3, <1>5, <1>6, <1>7 DEF DevInv

(* device_pager_create takes an element of the zone whose last use is over *)
(* and puts it in the list for a call of mmap that has no object yet.      *)
LEMMA CreateKeeps ==
  ASSUME DevicePagerAssumption, DevInv, TypeInv', NEW c \in Client, device_pager_create(c)
  PROVE  DevInv'
<1>0. TypeInv /\ ListInv /\ DescInv /\ ClientInv /\ ObjectInv /\ QueueInv /\ MgrInv /\ MemoryInv
  BY DEF DevInv
<1>1. PICK d \in Element : /\ d = Head(free_elements) /\ d \in Free /\ d \notin Listed
                           /\ Listed' = Listed \cup {d} /\ Free' = Free \ {d}
                           /\ ListInv'
  <2>1. free_elements # << >> /\ free_elements \in Seq(Element)
        /\ device_pager_list \in Seq(Element)
    BY <1>0 DEF TypeInv, device_pager_create
  <2>2. PICK d \in Element : d = Head(free_elements)
    BY <2>1
  <2>3. /\ Free = {d} \cup Range(Tail(free_elements)) /\ IsInjective(Tail(free_elements))
        /\ d \notin Range(Tail(free_elements))
    BY <1>0, <2>1, <2>2, HeadTailList DEF ListInv, Free
  <2>4. d \notin Listed
    BY <1>0, <2>3 DEF ListInv
  <2>5. Range(<<d>> \o device_pager_list) = Listed \cup {d} /\ IsInjective(<<d>> \o device_pager_list)
    BY <1>0, <2>1, <2>4, ConsList DEF ListInv, Listed
  <2>6. device_pager_list' = <<d>> \o device_pager_list /\ free_elements' = Tail(free_elements)
        /\ UNCHANGED device_pager_lock
    BY <2>2 DEF device_pager_create
  <2>7. Listed' = Listed \cup {d} /\ Free' = Free \ {d}
    BY <2>3, <2>5, <2>6 DEF Listed, Free
  <2>8. ListInv'
    BY <1>0, <2>3, <2>5, <2>6, <2>7 DEF ListInv, Listed, Free
  <2> QED BY <2>2, <2>3, <2>4, <2>7, <2>8
<1>2. PICK n \in Obj : n = maps + 1 /\ maps' = n /\ maps \in Nat /\ Fresh(n)
  BY SMTT(40), <1>0 DEF TypeInv, device_pager_create, Obj, DevicePagerAssumption, ObjectInv
<1>3. /\ \A e \in Element : e # d => zone'[e] = zone[e]
      /\ zone'[d].pager = n /\ zone'[d].pager_request = zone[d].pager_request
  BY <1>0, <1>1, <1>2 DEF TypeInv, device_pager_create, Desc
<1>4. /\ \A b \in Client : b # c => client'[b] = client[b]
      /\ client'[c].pc = "record" /\ client'[c].d = d /\ client'[c].o = n
      /\ client[c].pc = "idle"
  BY <1>0, <1>1, <1>2 DEF TypeInv, device_pager_create, Idle
<1>5. UNCHANGED <<mgr, queue, object, memory>>
  BY DEF device_pager_create
<1>6. Listed \subseteq Element /\ Free \subseteq Element
  BY <1>0, Members
<1>7. DescInv'
  <2>1. ASSUME NEW e \in Free' PROVE Spent(zone[e].pager_request)'
    BY SMTT(40), <1>0, <1>1, <1>3, <1>5, <1>6 DEF DescInv, Spent
  <2>2. ASSUME NEW e \in Listed PROVE DescOK(e)'
    BY SMTT(40), <1>0, <1>1, <1>2, <1>3, <1>5, <1>6 DEF DescInv, DescOK, Spent
  <2>3. zone[d].pager_request # n
    BY SMTT(40), <1>0, <1>1, <1>2 DEF DescInv, Spent, Fresh, Obj
  <2>4. DescOK(d)'
    BY SMTT(40), <1>0, <1>1, <1>2, <1>3, <1>5, <2>3 DEF DescInv, DescOK, Spent
  <2>5. ASSUME NEW e \in Listed', NEW f \in Listed', zone'[e].pager = zone'[f].pager PROVE e = f
    BY <1>0, <1>1, <1>2, <1>3, <1>6, <2>5 DEF DescInv, DescOK
  <2> QED BY SMTT(40), <1>1, <2>1, <2>2, <2>4, <2>5 DEF DescInv
<1>8. ClientInv'
  <2>1. ASSUME NEW b \in Client, b # c PROVE ClientOK(b)'
    BY <1>0, <1>1, <1>2, <1>3, <1>4, <1>5, <1>6, <2>1 DEF ClientInv, ClientOK, Fresh
  <2>2. ClientOK(c)'
    BY SMTT(40), <1>1, <1>2, <1>3, <1>4, <1>5 DEF ClientOK, Fresh, Using
  <2>3. \A b \in Client : client[b].pc # "idle" => client[b].o # n
    BY SMTT(40), <1>0, <1>2 DEF ClientInv, ClientOK
  <2> QED BY ZenonT(30), <1>0, <1>4, <2>1, <2>2, <2>3 DEF ClientInv
<1>9. ObjectInv'
  <2>1. ASSUME NEW o \in Obj PROVE Used(o)' <=> Used(o)
    BY Zenon, <1>4 DEF Used, Using
  <2> QED BY <1>0, <1>2, <1>5, <2>1 DEF ObjectInv, RefsOK, PagesOK, Fresh, Filling, Obj
<1>10. QueueInv'
  <2>1. ASSUME NEW o \in Obj, NEW e \in Listed, Serves(e, o) PROVE e \in Listed' /\ Serves(e, o)'
    BY SMTT(40), <1>1, <1>3, <1>5, <1>6, <2>1 DEF Serves
  <2> QED BY <1>0, <1>5, <2>1 DEF QueueInv, QueueOK
<1>11. MgrInv' /\ MemoryInv'
  BY <1>0, <1>1, <1>3, <1>5, <1>6 DEF MgrInv, MemoryInv
<1> QED BY Zenon, <1>1, <1>7, <1>8, <1>9, <1>10, <1>11 DEF DevInv

(* The arguments are recorded in the descriptor of the thread's own call,  *)
(* for which there is no object yet.                                       *)
LEMMA RecordKeeps ==
  ASSUME DevicePagerAssumption, DevInv, TypeInv', NEW c \in Client, RecordArguments(c)
  PROVE  DevInv'
<1>0. TypeInv /\ ListInv /\ DescInv /\ ClientInv /\ ObjectInv /\ QueueInv /\ MgrInv /\ MemoryInv
  BY DEF DevInv
<1>1. PICK o \in Obj : o = client[c].o /\ client[c].pc = "record" /\ client[c] \in Thread
  BY SMTT(40), ClientObject DEF RecordArguments
<1>2. PICK d \in Listed : d = client[c].d /\ zone[d].pager = o /\ d \in Element
  BY SMTT(40), <1>0, <1>1, Members DEF ClientInv, ClientOK
<1>3. Fresh(o)
  BY <1>0, <1>1 DEF ClientInv, ClientOK
<1>4. /\ \A e \in Element : e # d => zone'[e] = zone[e]
      /\ zone'[d].pager = o /\ zone'[d].pager_request = 0 /\ zone'[d].dev = o
  BY <1>0, <1>1, <1>2 DEF TypeInv, RecordArguments, Recorded, Desc, PORT_NULL
<1>5. /\ \A b \in Client : b # c => client'[b] = client[b]
      /\ client'[c].pc = "map" /\ client'[c].d = d /\ client'[c].o = o
  BY <1>0, <1>1, <1>2 DEF TypeInv, RecordArguments, Thread
<1>6. /\ UNCHANGED <<mgr, queue, object, memory, maps, device_pager_lock>>
      /\ Listed' = Listed /\ Free' = Free
  BY DEF RecordArguments, Listed, Free
<1>7. Listed \subseteq Element /\ Free \subseteq Element /\ \A e \in Listed : zone[e].pager = o => e = d
  BY <1>0, <1>2, Members DEF DescInv
<1>8. ListInv'
  BY SMTT(40), <1>0, <1>6 DEF ListInv, RecordArguments
<1>9. DescInv'
  <2>1. d \notin Free
    BY SMTT(40), <1>0, <1>2 DEF ListInv
  <2>2. DescOK(d)'
    BY <1>0, <1>2, <1>4, <1>6 DEF DescOK, Spent, DescInv, Obj
  <2>3. ASSUME NEW e \in Listed, e # d PROVE DescOK(e)'
    <3>1. /\ DescOK(e) /\ zone'[e] = zone[e] /\ maps' = maps
          /\ queue' = queue /\ object' = object /\ memory' = memory
      BY ZenonT(30), <1>0, <1>4, <1>6, <1>7, <2>3 DEF DescInv
    <3> QED BY Zenon, <3>1 DEF DescOK, Spent
  <2>4. ASSUME NEW e \in Free PROVE Spent(zone[e].pager_request)'
    BY SMTT(40), <1>0, <1>4, <1>6, <1>7, <2>1 DEF DescInv, Spent
  <2>5. \A e \in Listed : zone'[e].pager = zone[e].pager
    BY <1>2, <1>4, <1>7
  <2> QED BY SMTT(40), <1>0, <1>6, <2>2, <2>3, <2>4, <2>5 DEF DescInv
<1>10. ClientInv'
  <2>1. ASSUME NEW b \in Client, b # c PROVE ClientOK(b)'
    <3>1. client[b].pc # "idle" => client[b].o # o
      BY Zenon, <1>0, <1>1, <2>1 DEF ClientInv
    <3> QED BY <1>0, <1>2, <1>4, <1>5, <1>6, <1>7, <2>1, <3>1 DEF ClientInv, ClientOK, Fresh
  <2>2. ClientOK(c)'
    BY <1>0, <1>1, <1>2, <1>3, <1>4, <1>5, <1>6 DEF ClientInv, ClientOK, Fresh, Using
  <2>3. \A b \in Client : client'[b].o = client[b].o /\ (client'[b].pc = "idle" <=> client[b].pc = "idle")
    BY Zenon, <1>1, <1>5
  <2> QED BY ZenonT(30), <1>0, <2>1, <2>2, <2>3 DEF ClientInv
<1>11. ObjectInv'
  <2>1. ASSUME NEW q \in Obj PROVE Used(q)' <=> Used(q)
    BY <1>1, <1>5 DEF Used, Using
  <2> QED BY SMTT(40), <1>0, <1>6, <2>1 DEF ObjectInv, RefsOK, PagesOK, Fresh, Filling, Obj
<1>12. QueueInv'
  <2>1. ASSUME NEW q \in Obj, q # o, NEW e \in Listed, Serves(e, q) PROVE Serves(e, q)'
    BY ZenonT(30), <1>2, <1>4, <1>6, <1>7, <2>1 DEF Serves
  <2>2. QueueOK(o)'
    BY <1>3, <1>6 DEF QueueOK, Fresh
  <2>3. ASSUME NEW q \in Obj, q # o PROVE QueueOK(q)'
    BY SMTT(40), <1>0, <1>6, <2>1, <2>3 DEF QueueInv, QueueOK
  <2> QED BY Zenon, <2>2, <2>3 DEF QueueInv
<1>13. MgrInv' /\ MemoryInv'
  BY SMTT(40), <1>0, <1>2, <1>3, <1>4, <1>6, <1>7 DEF MgrInv, MemoryInv, Fresh
<1> QED BY Zenon, <1>8, <1>9, <1>10, <1>11, <1>12, <1>13 DEF DevInv

(* vm_map makes the object of a call of mmap that had none; its descriptor *)
(* has the arguments.                                                      *)
LEMMA MapKeeps ==
  ASSUME DevicePagerAssumption, DevInv, TypeInv', NEW c \in Client, Map(c)
  PROVE  DevInv'
<1>0. TypeInv /\ ListInv /\ DescInv /\ ClientInv /\ ObjectInv /\ QueueInv /\ MgrInv /\ MemoryInv
  BY DEF DevInv
<1>1. PICK o \in Obj : /\ o = client[c].o /\ client[c].pc = "map" /\ client[c] \in Thread
                       /\ o <= maps
  BY SMTT(40), ClientObject DEF Map
<1>2. PICK d \in Listed : d = client[c].d /\ zone[d].pager = o /\ zone[d].dev = o
                           /\ zone[d].pager_request = 0
  BY SMTT(40), <1>0, <1>1 DEF ClientInv, ClientOK
<1>3. Fresh(o)
  BY <1>0, <1>1 DEF ClientInv, ClientOK
<1>4. /\ object'[o].state = "alive" /\ object'[o].ref_count = 1
      /\ \A p \in Page : object'[o].page[p] \notin Frame
      /\ \A q \in Obj : q # o => object'[q] = object[q]
  <2>1. PICK n : n = [NoObject EXCEPT !.state = "alive", !.ref_count = 1,
                                      !.pager_ready = budget.early]
    BY Zenon
  <2>2. n.state = "alive" /\ n.ref_count = 1 /\ n.page = NoObject.page
    BY Zenon, <2>1, NewObjectType
  <2>3. object' = [object EXCEPT ![o] = n]
    BY <1>1, <2>1 DEF Map
  <2> QED BY <1>0, <2>2, <2>3, NoObjectType DEF TypeInv
<1>5. /\ queue'[o] = <<"init">> /\ \A q \in Obj : q # o => queue'[q] = queue[q]
  BY <1>0, <1>1, <1>3 DEF TypeInv, Map, Send, Fresh
<1>6. /\ \A b \in Client : b # c => client'[b] = client[b]
      /\ client'[c].pc = "mapped" /\ client'[c].o = o
  BY <1>0, <1>1 DEF TypeInv, Map, Thread
<1>7. /\ UNCHANGED <<zone, mgr, memory, maps, device_pager_lock>>
      /\ Listed' = Listed /\ Free' = Free
  BY DEF Map, Listed, Free
<1>8. ListInv'
  BY <1>0, <1>7 DEF ListInv, Map
<1>9. DescInv'
  <2>1. \A r \in Obj : Spent(r) => Spent(r)'
    BY Zenon, <1>3, <1>4, <1>5 DEF Spent, Fresh, Obj
  <2> QED BY <1>0, <2>1, DescKept DEF Map
<1>10. ClientInv'
  <2>1. ASSUME NEW b \in Client, b # c PROVE ClientOK(b)'
    <3>1. client[b].pc # "idle" => client[b].o # o /\ client[b].o \in Obj
      BY ZenonT(30), <1>0, <1>1, <2>1, ClientObject DEF ClientInv
    <3> QED BY <1>0, <1>4, <1>5, <1>6, <1>7, <2>1, <3>1 DEF ClientInv, ClientOK, Fresh, Using
  <2>2. ClientOK(c)'
    BY <1>0, <1>1, <1>4, <1>6, <1>7 DEF ClientInv, ClientOK, Using
  <2>3. \A b \in Client : client'[b].o = client[b].o /\ (client'[b].pc = "idle" <=> client[b].pc = "idle")
    BY <1>1, <1>6
  <2> QED BY Zenon, <1>0, <2>1, <2>2, <2>3 DEF ClientInv
<1>11. ObjectInv'
  <2>1. ASSUME NEW q \in Obj, q # o PROVE Used(q)' <=> Used(q)
    BY SMTT(40), <1>1, <1>6, <2>1 DEF Used, Using
  <2>2. Used(o)'
    BY <1>6 DEF Used, Using
  <2>3. ~Filling(o)'
    BY SMTT(40), <1>0, <1>3, <1>7 DEF Filling, MgrInv, Fresh
  <2>4. RefsOK(o)' /\ PagesOK(o)' /\ ~(o > maps')
    BY SMTT(40), <1>0, <1>1, <1>4, <1>7, <2>2, <2>3 DEF RefsOK, PagesOK, TypeInv, Obj
  <2>5. ASSUME NEW q \in Obj, q # o PROVE RefsOK(q)' /\ PagesOK(q)' /\ (q > maps => Fresh(q))'
    BY SMTT(40), <1>0, <1>4, <1>5, <1>7, <2>1, <2>5 DEF ObjectInv, RefsOK, PagesOK, Filling, Fresh
  <2> QED BY Zenon, <2>4, <2>5 DEF ObjectInv
<1>12. QueueInv'
  <2>1. QueueOK(o)'
    <3>1. Serves(d, o)'
      BY SMTT(40), <1>2, <1>5, <1>7 DEF Serves
    <3> QED BY SMTT(40), <1>4, <1>5, <1>7, <3>1 DEF QueueOK
  <2>2. ASSUME NEW q \in Obj, q # o PROVE QueueOK(q)'
    BY SMTT(40), <1>0, <1>4, <1>5, <1>7, <2>2 DEF QueueInv, QueueOK, Serves
  <2> QED BY Zenon, <2>1, <2>2 DEF QueueInv
<1>13. MgrInv' /\ MemoryInv'
  BY <1>0, <1>3, <1>4, <1>7 DEF MgrInv, MemoryInv, Fresh
<1> QED BY Zenon, <1>8, <1>9, <1>10, <1>11, <1>12, <1>13 DEF DevInv

(* A thread whose call of vm_map fails has no object; the descriptor stays *)
(* in the list, for a port that no message names.                          *)
LEMMA MapFailsKeeps ==
  ASSUME DevicePagerAssumption, DevInv, TypeInv', NEW c \in Client, MapFails(c)
  PROVE  DevInv'
<1>0. TypeInv /\ ListInv /\ DescInv /\ ClientInv /\ ObjectInv /\ QueueInv /\ MgrInv /\ MemoryInv
  BY DEF DevInv
<1>1. /\ \A b \in Client : b # c => client'[b] = client[b]
      /\ client'[c].pc = "idle" /\ client[c].pc = "map"
  BY Zenon, <1>0, ThreadType DEF TypeInv, MapFails
<1>2. /\ UNCHANGED <<zone, mgr, queue, object, memory, maps, device_pager_lock>>
      /\ Listed' = Listed /\ Free' = Free
  BY DEF MapFails, Listed, Free
<1>3. ListInv' /\ QueueInv' /\ MgrInv' /\ MemoryInv'
  BY <1>0, <1>2 DEF MapFails, ListInv, QueueInv, QueueOK, Serves, MgrInv, MemoryInv
<1>4. DescInv'
  <2>1. \A r \in Obj : Spent(r) => Spent(r)'
    BY SMTT(40), <1>2 DEF Spent
  <2> QED BY <1>0, <2>1, DescKept DEF MapFails
<1>5. ClientInv'
  BY SMTT(40), <1>0, <1>1, <1>2 DEF ClientInv, ClientOK, Fresh, Using
<1>6. ObjectInv'
  <2>1. ASSUME NEW q \in Obj PROVE Used(q)' <=> Used(q)
    BY Zenon, <1>1 DEF Used, Using
  <2> QED BY <1>0, <1>2, <2>1 DEF ObjectInv, RefsOK, PagesOK, Filling, Fresh
<1> QED BY Zenon, <1>3, <1>4, <1>5, <1>6 DEF DevInv

(* A failing port_allocate only loses an element that was free.            *)
LEMMA CreateFailsKeeps ==
  ASSUME DevicePagerAssumption, DevInv, TypeInv', NEW c \in Client, CreateFails(c)
  PROVE  DevInv'
<1>0. TypeInv /\ ListInv /\ DescInv /\ ClientInv /\ ObjectInv /\ QueueInv /\ MgrInv /\ MemoryInv
  BY DEF DevInv
<1>1. /\ UNCHANGED <<zone, mgr, queue, object, memory, client, maps, device_pager_list, device_pager_lock>>
      /\ Listed' = Listed
  BY DEF CreateFails, Listed
<1>2. Free' \subseteq Free /\ IsInjective(free_elements')
  <2>1. free_elements \in Seq(Element) /\ free_elements # << >> /\ free_elements' = Tail(free_elements)
    BY <1>0 DEF TypeInv, CreateFails
  <2> QED BY <1>0, <2>1, HeadTailList DEF ListInv, Free
<1>3. ListInv' /\ QueueInv' /\ MgrInv' /\ MemoryInv'
  BY <1>0, <1>1, <1>2 DEF ListInv, QueueInv, QueueOK, Serves, MgrInv, MemoryInv
<1>4. DescInv'
  BY <1>0, <1>1, <1>2 DEF DescInv, DescOK, Spent
<1>5. ClientInv'
  BY <1>0, <1>1 DEF ClientInv, ClientOK, Fresh
<1>6. ObjectInv'
  BY <1>0, <1>1 DEF ObjectInv, RefsOK, PagesOK, Filling, Fresh, Used
<1> QED BY Zenon, <1>3, <1>4, <1>5, <1>6 DEF DevInv

(* Threads that use their objects go on waiting or stop waiting.           *)
LEMMA WaitKeeps ==
  ASSUME DevicePagerAssumption, DevInv, TypeInv',
         \A c \in Client : /\ client'[c].o = client[c].o /\ client'[c].d = client[c].d
                           /\ \/ client'[c].pc = client[c].pc
                              \/ client'[c].pc \in Using /\ client[c].pc \in Using,
         UNCHANGED <<zone, free_elements, device_pager_list, device_pager_lock, mgr, queue, object,
                     memory, maps>>
  PROVE  DevInv'
<1>1. MgrInv'
  BY DEF DevInv, MgrInv, Listed
<1>2. \A q \in Obj : PagesOK(q)' /\ (Filling(q)' <=> Filling(q))
  BY DEF DevInv, ObjectInv, PagesOK, Filling
<1> QED BY ZenonT(30), <1>1, <1>2, PagerKeeps

(* An interrupted wait leaves the mapping as it is.                        *)
LEMMA AbortKeeps ==
  ASSUME DevicePagerAssumption, DevInv, TypeInv', NEW c \in Client, Abort(c)
  PROVE  DevInv'
<1>0. TypeInv /\ ListInv /\ DescInv /\ ClientInv /\ ObjectInv /\ QueueInv /\ MgrInv /\ MemoryInv
  BY DEF DevInv
<1>1. /\ \A b \in Client : b # c => client'[b] = client[b]
      /\ client'[c].pc \in Using /\ client[c].pc \in Using /\ client'[c].o = client[c].o
      /\ client'[c].d = client[c].d
  BY <1>0 DEF TypeInv, Abort, Thread, Using
<1>2. UNCHANGED <<zone, free_elements, device_pager_list, device_pager_lock, mgr, queue, object,
                  memory, maps>>
  BY DEF Abort
<1> QED BY <1>0, <1>1, <1>2, WaitKeeps DEF Using

(* The last unmap of an object that the pager does not hold lets it die.   *)
LEMMA UnmapKeeps ==
  ASSUME DevicePagerAssumption, DevInv, TypeInv', NEW c \in Client, Unmap(c)
  PROVE  DevInv'
<1>0. TypeInv /\ ListInv /\ DescInv /\ ClientInv /\ ObjectInv /\ QueueInv /\ MgrInv /\ MemoryInv
  BY DEF DevInv
<1>1. PICK o \in Obj : /\ o = client[c].o /\ client[c].pc = "mapped" /\ o <= maps
                       /\ object[o].state = "alive"
  <2>1. client[c].pc = "mapped" /\ client[c].pc \in Using
    BY Zenon DEF Unmap, Using
  <2> QED BY <1>0, <2>1, ClientObject DEF ClientInv, ClientOK
<1>2. /\ \A b \in Client : b # c => client'[b] = client[b]
      /\ client'[c].pc = "idle"
  BY Zenon, <1>0, ThreadType DEF TypeInv, Unmap
<1>3. /\ UNCHANGED <<zone, mgr, queue, memory, maps, device_pager_lock>>
      /\ Listed' = Listed /\ Free' = Free
  BY Zenon DEF Unmap, Listed, Free
<1>4. /\ object'[o].page = object[o].page
      /\ object'[o].ref_count = object[o].ref_count - 1
      /\ object'[o].state = IF object[o].ref_count = 1 THEN "dying" ELSE "alive"
      /\ \A q \in Obj : q # o => object'[q] = object[q]
      /\ object[o].ref_count \in Int
  BY Zenon, <1>0, <1>1, UnreferencedType DEF TypeInv, Unmap, VmObject
<1>5. Used(o) /\ ~Used(o)' /\ \A q \in Obj : q # o => (Used(q)' <=> Used(q))
  <2>1. Used(o)
    BY <1>1 DEF Used, Using
  <2>2. ~Used(o)'
    BY <1>0, <1>1, <1>2 DEF Used, Using, ClientInv
  <2>3. \A q \in Obj : q # o => (Used(q)' <=> Used(q))
    BY <1>1, <1>2 DEF Used, Using
  <2> QED BY <2>1, <2>2, <2>3
<1>6. Filling(o)' <=> Filling(o)
  BY <1>3 DEF Filling
<1>7. object[o].ref_count = (IF Filling(o) THEN 2 ELSE 1)
  BY <1>0, <1>1, <1>5 DEF ObjectInv, RefsOK
<1>8. object'[o].state = (IF Filling(o) THEN "alive" ELSE "dying")
  BY <1>4, <1>7
<1>state. \A q \in Obj : \/ object'[q].state = object[q].state
                         \/ object[q].state = "alive" /\ object'[q].state = "dying"
  <2>1. object'[o].state = "alive" \/ object'[o].state = "dying"
    BY <1>8
  <2>2. \A q \in Obj : q # o => object'[q].state = object[q].state
    BY Zenon, <1>4
  <2>3. object[o].state = "alive"
    BY <1>1
  <2> QED BY <2>1, <2>2, <2>3
<1>9. ListInv' /\ MemoryInv'
  BY <1>0, <1>3 DEF Unmap, ListInv, MemoryInv
<1>10. DescInv'
  <2>1. \A r \in Obj : Spent(r) => Spent(r)'
    BY <1>1, <1>3, <1>4 DEF Spent
  <2> QED BY Zenon, <1>0, <2>1, DescKept DEF Unmap
<1>11. ClientInv'
  <2>1. ASSUME NEW b \in Client, b # c PROVE ClientOK(b)'
    <3>1. client[b].pc # "idle" => client[b].o # o /\ client[b].o \in Obj
      BY ZenonT(40), <1>0, <1>1, <2>1, ClientObject DEF ClientInv
    <3> QED BY SMTT(40), <1>0, <1>2, <1>3, <1>4, <2>1, <3>1 DEF ClientInv, ClientOK, Fresh, Using
  <2>2. ClientOK(c)'
    BY <1>2 DEF ClientOK, Using
  <2> QED BY ZenonT(30), <1>0, <1>2, <2>1, <2>2 DEF ClientInv
<1>12. ObjectInv'
  <2>1. RefsOK(o)'
    BY <1>4, <1>5, <1>6, <1>7, <1>8 DEF RefsOK
  <2>2. ~(o > maps')
    BY Zenon, <1>0, <1>1, <1>3 DEF ObjectInv, Fresh
  <2>3. ASSUME NEW q \in Obj, q # o PROVE RefsOK(q)' /\ (q > maps => Fresh(q))'
    <3>1. (Filling(q)' <=> Filling(q)) /\ (Used(q)' <=> Used(q)) /\ object'[q] = object[q]
      BY Zenon, <1>3, <1>4, <1>5, <2>3 DEF Filling
    <3> QED BY Zenon, <1>0, <1>3, <3>1 DEF ObjectInv, RefsOK, Fresh
  <2>4. ASSUME NEW q \in Obj PROVE PagesOK(q)'
    <3>1. PagesOK(q) /\ object'[q].page = object[q].page /\ memory' = memory
      BY Zenon, <1>0, <1>3, <1>4 DEF ObjectInv
    <3> QED BY Zenon, <1>state, <3>1, PagesKept
  <2> QED BY Zenon, <2>1, <2>2, <2>3, <2>4 DEF ObjectInv
<1>13. QueueInv'
  <2>1. ASSUME NEW q \in Obj PROVE QueueOK(q)'
    <3>1. QueueOK(q) /\ queue'[q] = queue[q]
      BY Zenon, <1>0, <1>3 DEF QueueInv
    <3>2. \A e \in Listed : Serves(e, q) => e \in Listed' /\ Serves(e, q)'
      BY Zenon, <1>3 DEF Serves
    <3> QED BY Zenon, <1>state, <3>1, <3>2, QueueKept
  <2> QED BY Zenon, <2>1 DEF QueueInv
<1>14. MgrInv'
  BY Zenon, <1>0, <1>3, <1>4, <1>8 DEF MgrInv, Filling
<1> QED BY Zenon, <1>9, <1>10, <1>11, <1>12, <1>13, <1>14 DEF DevInv

(* A message after the others, of an object that was made already.         *)
LEMMA QueueGrows ==
  ASSUME TypeInv, QueueInv, NEW o \in Obj, NEW m \in {"data_request", "data_write"},
         UNCHANGED zone, Listed' = Listed,
         object[o].state = "alive", object'[o].state = "alive",
         queue'[o] = Append(queue[o], m)
  PROVE  QueueOK(o)'
<1>1. /\ queue[o] \in Seq(Msg) /\ Len(queue[o]) \in Nat /\ queue'[o] # << >>
      /\ Len(queue'[o]) = Len(queue[o]) + 1
      /\ queue'[o][Len(queue[o]) + 1] = m
      /\ \A i \in 1 .. Len(queue[o]) : queue'[o][i] = queue[o][i]
  <2>1. queue[o] \in Seq(Msg) /\ m \in Msg
    BY Zenon DEF TypeInv, Msg
  <2> QED BY <2>1
<1>2. (queue[o] # << >> /\ queue[o][1] = "init") <=> (queue'[o] # << >> /\ queue'[o][1] = "init")
  <2>1. CASE queue[o] = << >>
    <3>1. Len(queue[o]) = 0
      BY <2>1
    <3> QED BY <1>1, <2>1, <3>1
  <2>2. CASE queue[o] # << >>
    <3>1. 1 \in 1 .. Len(queue[o])
      BY <1>1, <2>2
    <3> QED BY <1>1, <2>2, <3>1
  <2> QED BY Zenon, <2>1, <2>2
<1>3. \A d \in Listed : Serves(d, o) => Serves(d, o)'
  BY <1>2 DEF Serves
<1>4. \A i \in 1 .. Len(queue[o]) : (queue[o][i] = "init" => i = 1) /\ queue[o][i] # "terminate"
  BY DEF QueueInv, QueueOK
<1>5. \A i \in 1 .. Len(queue'[o]) : (queue'[o][i] = "init" => i = 1) /\ queue'[o][i] # "terminate"
  BY <1>1, <1>4
<1> QED BY Zenon, <1>3, <1>5 DEF QueueInv, QueueOK

(* A request for data that is sent for an object with a mapping.           *)
LEMMA FaultKeeps ==
  ASSUME DevicePagerAssumption, DevInv, TypeInv', NEW c \in Client, NEW p \in Page, Fault(c, p)
  PROVE  DevInv'
<1>0. TypeInv /\ ListInv /\ DescInv /\ ClientInv /\ ObjectInv /\ QueueInv /\ MgrInv /\ MemoryInv
  BY DEF DevInv
<1>1. PICK o \in Obj : o = client[c].o /\ o <= maps /\ object[o].state = "alive"
  <2>1. client[c].pc \in Using /\ client[c].pc # "idle"
    BY Zenon, FaultEffect DEF Using
  <2> QED BY Zenon, <1>0, <2>1, ClientObject DEF ClientInv, ClientOK
<1>2. \A b \in Client : /\ client'[b].o = client[b].o /\ client'[b].d = client[b].d
                        /\ \/ client'[b].pc = client[b].pc
                           \/ client'[b].pc \in Using /\ client[b].pc \in Using
  <2>1. PICK pc \in Using, n \in Nat :
          client' = [client EXCEPT ![c] = [@ EXCEPT !.pc = pc, !.p = n]]
    BY Zenon, FaultEffect
  <2>2. client[c].pc \in Using
    BY Zenon, FaultEffect
  <2> QED BY Zenon, <1>0, <2>1, <2>2 DEF TypeInv, Thread
<1>3. UNCHANGED <<zone, free_elements, device_pager_list, device_pager_lock, mgr, memory, maps>>
  BY Zenon, FaultEffect
<1>4. CASE UNCHANGED <<object, queue>>
  BY Zenon, <1>2, <1>3, <1>4, WaitKeeps
<1>5. CASE /\ object' = [object EXCEPT ![client[c].o] = [@ EXCEPT !.page[p] = Busy]]
           /\ queue' = [queue EXCEPT ![client[c].o] = Append(@, "data_request")]
  <2>1. /\ object'[o].state = "alive" /\ object'[o].ref_count = object[o].ref_count
        /\ \A r \in Page : object'[o].page[r] = IF r = p THEN Busy ELSE object[o].page[r]
        /\ \A q \in Obj : q # o => object'[q] = object[q]
    <3>1. VmObject(object[o]) /\ Busy \in Content
      BY <1>0 DEF TypeInv, Content
    <3>2. object' = [object EXCEPT ![o] = [@ EXCEPT !.page[p] = Busy]]
      BY Zenon, <1>1, <1>5
    <3>3. object = [q \in Obj |-> object[q]] /\ object[o].page \in [Page -> Content]
      BY Zenon, <1>0 DEF TypeInv, VmObject
    <3>4. /\ object'[o] = [object[o] EXCEPT !.page[p] = Busy]
          /\ \A q \in Obj : q # o => object'[q] = object[q]
      BY <3>2, <3>3
    <3>5. /\ [object[o] EXCEPT !.page[p] = Busy].page = [object[o].page EXCEPT ![p] = Busy]
          /\ [object[o] EXCEPT !.page[p] = Busy].ref_count = object[o].ref_count
          /\ [object[o] EXCEPT !.page[p] = Busy].state = object[o].state
      BY <3>1, PageType
    <3>6. /\ object'[o].page = [object[o].page EXCEPT ![p] = Busy]
          /\ object'[o].ref_count = object[o].ref_count /\ object'[o].state = object[o].state
      BY Zenon, <3>4, <3>5
    <3>7. \A r \in Page : object'[o].page[r] = IF r = p THEN Busy ELSE object[o].page[r]
      BY ZenonT(40), <3>3, <3>6
    <3> QED BY Zenon, <1>1, <3>4, <3>6, <3>7
  <2>2. /\ queue'[o] = Append(queue[o], "data_request")
        /\ \A q \in Obj : q # o => queue'[q] = queue[q]
    BY ZenonT(40), <1>0, <1>1, <1>5 DEF TypeInv
  <2>3. Listed' = Listed /\ Free' = Free
    BY SMTT(40), <1>3 DEF Listed, Free
  <2>4. ListInv' /\ MgrInv' /\ MemoryInv'
    BY <1>0, <1>1, <1>3, <2>1, <2>3 DEF ListInv, MgrInv, MemoryInv
  <2>5. DescInv'
    <3>1. \A r \in Obj : Spent(r) => Spent(r)'
      BY ZenonT(30), <1>1, <2>1, <2>2 DEF Spent
    <3> QED BY Zenon, <1>0, <1>3, <3>1, DescKept
  <2>6. \A q \in Obj : object'[q].state = object[q].state /\ (Fresh(q) => Fresh(q)')
    BY <1>1, <2>1, <2>2 DEF Fresh
  <2>7. ClientInv'
    <3>1. ASSUME NEW b \in Client PROVE ClientOK(b)'
      <4>1. client[b].pc # "idle" => client[b].o \in Obj
        BY Zenon, ClientObject
      <4>2. /\ ClientOK(b) /\ client'[b].o = client[b].o /\ client'[b].d = client[b].d
            /\ zone' = zone /\ maps' = maps /\ Listed' = Listed
        BY Zenon, <1>0, <1>2, <1>3, <2>3 DEF ClientInv
      <4>3. CASE client'[b].pc = client[b].pc
        BY Zenon, <2>6, <4>1, <4>2, <4>3 DEF ClientOK, Using
      <4>4. CASE client'[b].pc \in Using /\ client[b].pc \in Using
        <5>1. /\ client[b].pc # "idle" /\ client'[b].pc \notin {"record", "map"}
              /\ client'[b].pc # "map"
          BY <4>4 DEF Using
        <5> QED BY Zenon, <2>6, <4>1, <4>2, <4>4, <5>1 DEF ClientOK
      <4> QED BY Zenon, <1>2, <4>3, <4>4
    <3>2. \A b \in Client : client'[b].o = client[b].o
                            /\ (client'[b].pc = "idle" <=> client[b].pc = "idle")
      BY Zenon, <1>2 DEF Using
    <3> QED BY Zenon, <1>0, <3>1, <3>2 DEF ClientInv
  <2>8. ObjectInv'
    <3>1. \A q \in Obj : (Used(q)' <=> Used(q)) /\ (Filling(q)' <=> Filling(q))
      BY Zenon, <1>2, <1>3 DEF Used, Filling
    <3>2. ASSUME NEW q \in Obj PROVE RefsOK(q)'
      BY Zenon, <1>0, <1>1, <2>1, <3>1 DEF ObjectInv, RefsOK
    <3>3. ASSUME NEW q \in Obj PROVE PagesOK(q)'
      <4>1. ASSUME NEW r \in Page, object'[q].page[r] \in Frame
            PROVE  object'[q].page[r] = object[q].page[r]
        BY Zenon, <2>1, <4>1, NoFrame
      <4>2. PagesOK(q) /\ memory' = memory /\ object'[q].state = object[q].state
        BY Zenon, <1>0, <1>3, <2>6 DEF ObjectInv
      <4> QED BY Zenon, <4>1, <4>2, PagesKept
    <3> QED BY Zenon, <1>0, <1>3, <2>6, <3>2, <3>3 DEF ObjectInv
  <2>9. QueueInv'
    <3>1. ASSUME NEW q \in Obj, q # o PROVE QueueOK(q)'
      <4>1. QueueOK(q) /\ queue'[q] = queue[q] /\ object'[q].state = object[q].state
        BY Zenon, <1>0, <2>2, <2>6, <3>1 DEF QueueInv
      <4>2. \A e \in Listed : Serves(e, q) => e \in Listed' /\ Serves(e, q)'
        BY Zenon, <1>3, <2>3, <4>1 DEF Serves
      <4> QED BY Zenon, <4>1, <4>2, QueueKept
    <3>2. QueueOK(o)'
      BY Zenon, <1>0, <1>1, <1>3, <2>1, <2>2, <2>3, QueueGrows
    <3> QED BY Zenon, <3>1, <3>2 DEF QueueInv
  <2> QED BY Zenon, <2>4, <2>5, <2>7, <2>8, <2>9 DEF DevInv
<1> QED BY Zenon, <1>4, <1>5, FaultEffect

(* Messages that come after the others do not change which one is first.   *)
LEMMA SentAfter ==
  ASSUME NEW q \in Seq(Msg), NEW w \in Seq(Msg), NEW s, s = q \o w,
         \A i \in 1 .. Len(q) : q[i] = "init" => i = 1,
         \A i \in 1 .. Len(w) : w[i] # "init"
  PROVE  /\ s \in Seq(Msg) /\ Len(q) \in Nat /\ Len(w) \in Nat /\ Len(s) = Len(q) + Len(w)
         /\ (s # << >> /\ s[1] = "init") <=> (q # << >> /\ q[1] = "init")
         /\ \A i \in 1 .. Len(s) :
              /\ s[i] = "init" => i = 1
              /\ (\E k \in 1 .. Len(q) : i = k /\ s[i] = q[k])
                   \/ (\E k \in 1 .. Len(w) : i = Len(q) + k /\ s[i] = w[k])
<1>1. /\ s \in Seq(Msg) /\ Len(q) \in Nat /\ Len(w) \in Nat /\ Len(s) = Len(q) + Len(w)
      /\ \A k \in 1 .. Len(q) : s[k] = q[k]
      /\ \A k \in 1 .. Len(w) : s[Len(q) + k] = w[k]
  OBVIOUS
<1>2. ASSUME NEW i \in 1 .. Len(s)
      PROVE  \/ \E k \in 1 .. Len(q) : i = k /\ s[i] = q[k]
             \/ \E k \in 1 .. Len(w) : i = Len(q) + k /\ s[i] = w[k]
  <2>1. CASE i \in 1 .. Len(q)
    BY <1>1, <2>1
  <2>2. CASE i \notin 1 .. Len(q)
    <3>1. i - Len(q) \in 1 .. Len(w) /\ i = Len(q) + (i - Len(q))
      BY <1>1, <2>2
    <3>2. s[Len(q) + (i - Len(q))] = w[i - Len(q)]
      BY <1>1, <3>1
    <3> QED BY <3>1, <3>2
  <2> QED BY <2>1, <2>2
<1>3. ASSUME NEW i \in 1 .. Len(s), s[i] = "init" PROVE i = 1 /\ \E k \in 1 .. Len(q) : i = k /\ s[i] = q[k]
  BY Zenon, <1>2, <1>3
<1>4. (s # << >> /\ s[1] = "init") <=> (q # << >> /\ q[1] = "init")
  <2>1. ASSUME s # << >>, s[1] = "init" PROVE q # << >> /\ q[1] = "init"
    <3>1. 1 \in 1 .. Len(s)
      BY <1>1, <2>1
    <3>2. 1 \in 1 .. Len(q) /\ q[1] = "init"
      BY <1>3, <2>1, <3>1
    <3>3. Len(q) # 0
      BY <1>1, <3>2
    <3> QED BY <3>2, <3>3
  <2>2. ASSUME q # << >>, q[1] = "init" PROVE s # << >> /\ s[1] = "init"
    <3>1. 1 \in 1 .. Len(q)
      BY <1>1, <2>2
    <3>2. s[1] = "init" /\ Len(s) # 0
      BY <1>1, <2>2, <3>1
    <3> QED BY <3>2
  <2> QED BY <2>1, <2>2
<1> QED BY <1>1, <1>2, <1>3, <1>4

(* The messages that vm_object_terminate sends come after the others, and  *)
(* the last one is the only terminate message.                             *)
LEMMA TerminationQueue ==
  ASSUME TypeInv, QueueInv, NEW o \in Obj, vm_object_terminate(o)
  PROVE  /\ queue'[o] # << >>
         /\ queue'[o][1] = "init" <=> (queue[o] # << >> /\ queue[o][1] = "init")
         /\ \A i \in 1 .. Len(queue'[o]) :
              /\ queue'[o][i] = "init" => i = 1
              /\ queue'[o][i] = "terminate" => i = Len(queue'[o])
         /\ \A q \in Obj : q # o => queue'[q] = queue[q]
<1>1. PICK w : /\ w \in {<< >>, <<"data_write">>}
               /\ queue' = [queue EXCEPT ![o] = @ \o w \o <<"terminate">>]
  BY Zenon DEF vm_object_terminate
<1>2. w \in Seq(Msg) /\ \A i \in 1 .. Len(w) : w[i] = "data_write"
  <2>1. CASE w = << >>
    BY <2>1
  <2>2. CASE w = <<"data_write">>
    BY <2>2 DEF Msg
  <2> QED BY <1>1, <2>1, <2>2
<1>3. PICK v \in Seq(Msg) : v = <<"terminate">> /\ Len(v) = 1 /\ v[1] = "terminate"
  <2>1. <<"terminate">> \in Seq(Msg)
    BY DEF Msg
  <2>2. Len(<<"terminate">>) = 1 /\ <<"terminate">>[1] = "terminate"
    OBVIOUS
  <2> QED BY Zenon, <2>1, <2>2
<1>4. PICK q \in Seq(Msg) : q = queue[o] /\ queue'[o] = (q \o w) \o v
  BY <1>1, <1>3 DEF TypeInv
<1>5. \A i \in 1 .. Len(q) : (q[i] = "init" => i = 1) /\ q[i] # "terminate"
  <2>1. object[o].state = "dying"
    BY DEF vm_object_terminate
  <2> QED BY <1>4, <2>1 DEF QueueInv, QueueOK
<1>6. PICK r : r = q \o w
  BY Zenon
<1>14. /\ \A i \in 1 .. Len(w) : w[i] # "init"
       /\ \A i \in 1 .. Len(q) : q[i] = "init" => i = 1
  BY <1>2, <1>5
<1>7. /\ r \in Seq(Msg) /\ Len(r) \in Nat
      /\ (r # << >> /\ r[1] = "init") <=> (q # << >> /\ q[1] = "init")
      /\ \A i \in 1 .. Len(r) :
           /\ r[i] = "init" => i = 1
           /\ (\E k \in 1 .. Len(q) : i = k /\ r[i] = q[k])
                \/ (\E k \in 1 .. Len(w) : i = Len(q) + k /\ r[i] = w[k])
  <2>1. w \in Seq(Msg) /\ q \in Seq(Msg)
    BY <1>2
  <2> QED BY SMTT(40), <1>6, <1>14, <2>1, SentAfter
<1>8. \A i \in 1 .. Len(r) : r[i] # "terminate"
  BY Zenon, <1>2, <1>5, <1>7
<1>9. Len(v) = 1 /\ v[1] = "terminate" /\ \A i \in 1 .. Len(v) : v[i] # "init"
  BY <1>3
<1>10. PICK s : s = r \o v /\ s = queue'[o]
  BY Zenon, <1>4, <1>6
<1>11. /\ s \in Seq(Msg) /\ Len(s) = Len(r) + Len(v)
       /\ (s # << >> /\ s[1] = "init") <=> (r # << >> /\ r[1] = "init")
       /\ \A i \in 1 .. Len(s) :
            /\ s[i] = "init" => i = 1
            /\ (\E k \in 1 .. Len(r) : i = k /\ s[i] = r[k])
                 \/ (\E k \in 1 .. Len(v) : i = Len(r) + k /\ s[i] = v[k])
  <2>1. /\ r \in Seq(Msg) /\ v \in Seq(Msg) /\ s = r \o v
        /\ \A i \in 1 .. Len(r) : r[i] = "init" => i = 1
        /\ \A i \in 1 .. Len(v) : v[i] # "init"
    BY <1>7, <1>9, <1>10
  <2> QED BY SMTT(40), <2>1, SentAfter
<1>12. s # << >> /\ \A i \in 1 .. Len(s) : s[i] = "terminate" => i = Len(s)
  <2>1. Len(s) # 0
    BY <1>7, <1>9, <1>11
  <2>2. s # << >>
    BY <1>11, <2>1
  <2>3. ASSUME NEW i \in 1 .. Len(s), s[i] = "terminate" PROVE i = Len(s)
    <3>1. PICK k \in 1 .. Len(v) : i = Len(r) + k
      BY SMTT(40), <1>8, <1>11, <2>3
    <3> QED BY <1>7, <1>9, <1>11, <3>1
  <2> QED BY <2>2, <2>3
<1>13. \A p \in Obj : p # o => queue'[p] = queue[p]
  BY <1>1 DEF TypeInv
<1> QED BY Zenon, <1>4, <1>7, <1>10, <1>11, <1>12, <1>13

(* The object that nobody refers to loses its pages.                       *)
LEMMA TerminationKeeps ==
  ASSUME DevicePagerAssumption, DevInv, TypeInv', NEW o \in Obj, vm_object_terminate(o)
  PROVE  DevInv'
<1>0. TypeInv /\ ListInv /\ DescInv /\ ClientInv /\ ObjectInv /\ QueueInv /\ MgrInv /\ MemoryInv
  BY DEF DevInv
<1>1. object[o].state = "dying"
  BY DEF vm_object_terminate
<1>2. /\ object'[o].state = "dead" /\ \A p \in Page : object'[o].page[p] \notin Frame
      /\ \A q \in Obj : q # o => object'[q] = object[q]
  <2>1. PICK n : n = [NoObject EXCEPT !.state = "dead"]
    BY Zenon
  <2>2. n.state = "dead" /\ n.page = NoObject.page
    BY <2>1, DeadObjectType
  <2>3. object' = [object EXCEPT ![o] = n]
    BY <2>1 DEF vm_object_terminate
  <2> QED BY <1>0, <2>2, <2>3, NoObjectType DEF TypeInv
<1>3. /\ UNCHANGED <<zone, mgr, memory, client, maps, device_pager_lock>>
      /\ Listed' = Listed /\ Free' = Free
  BY DEF vm_object_terminate, Listed, Free
<1>4. /\ queue'[o] # << >>
      /\ queue'[o][1] = "init" <=> (queue[o] # << >> /\ queue[o][1] = "init")
      /\ \A i \in 1 .. Len(queue'[o]) :
           /\ queue'[o][i] = "init" => i = 1
           /\ queue'[o][i] = "terminate" => i = Len(queue'[o])
      /\ \A q \in Obj : q # o => queue'[q] = queue[q]
  BY <1>0, TerminationQueue
<1>5. ListInv' /\ MemoryInv'
  BY <1>0, <1>3 DEF ListInv, MemoryInv, vm_object_terminate
<1>6. DescInv'
  <2>1. \A r \in Obj : Spent(r) => Spent(r)'
    BY <1>1, <1>2, <1>4 DEF Spent
  <2> QED BY SMTT(40), <1>0, <2>1, DescKept DEF vm_object_terminate
<1>7. ClientInv'
  <2>1. ASSUME NEW b \in Client PROVE ClientOK(b)'
    <3>1. client[b].pc # "idle" => client[b].o \in Obj /\ client[b].o # o
      BY Zenon, <1>0, <1>1, ClientObject DEF ClientInv, ClientOK, Fresh, TypeInv, Thread
    <3> QED BY <1>0, <1>2, <1>3, <1>4, <3>1 DEF ClientInv, ClientOK, Fresh, Using
  <2> QED BY ZenonT(30), <1>0, <1>3, <2>1 DEF ClientInv
<1>8. ObjectInv'
  <2>1. ASSUME NEW q \in Obj PROVE (Used(q)' <=> Used(q)) /\ (Filling(q)' <=> Filling(q))
    BY <1>3 DEF Used, Filling
  <2>2. RefsOK(o)' /\ PagesOK(o)' /\ ~(o > maps')
    <3>1. ~(o > maps')
      BY Zenon, <1>0, <1>1, <1>3 DEF ObjectInv, Fresh
    <3>2. RefsOK(o)' /\ PagesOK(o)'
      BY <1>2, <1>3 DEF RefsOK, PagesOK
    <3> QED BY Zenon, <3>1, <3>2
  <2>3. ASSUME NEW q \in Obj, q # o PROVE RefsOK(q)' /\ PagesOK(q)' /\ (q > maps => Fresh(q))'
    <3>1. /\ RefsOK(q) /\ PagesOK(q) /\ (q > maps => Fresh(q))
          /\ object'[q] = object[q] /\ queue'[q] = queue[q] /\ memory' = memory /\ maps' = maps
      BY Zenon, <1>0, <1>2, <1>3, <1>4, <2>3 DEF ObjectInv
    <3>2. PagesOK(q)'
      BY Zenon, <3>1, PagesKept
    <3> QED BY Zenon, <2>1, <3>1, <3>2 DEF RefsOK, Fresh
  <2> QED BY Zenon, <2>2, <2>3 DEF ObjectInv
<1>9. QueueInv'
  <2>1. QueueOK(o)'
    <3>1. PICK d \in Listed : Serves(d, o)
      BY <1>0, <1>1 DEF QueueInv, QueueOK
    <3>2. Serves(d, o)'
      BY <1>3, <1>4, <3>1 DEF Serves
    <3> QED BY ZenonT(30), <1>2, <1>3, <1>4, <3>2 DEF QueueOK
  <2>2. ASSUME NEW q \in Obj, q # o PROVE QueueOK(q)'
    <3>1. QueueOK(q) /\ queue'[q] = queue[q] /\ object'[q] = object[q]
      BY Zenon, <1>0, <1>2, <1>4, <2>2 DEF QueueInv
    <3>2. \A e \in Listed : Serves(e, q) => e \in Listed' /\ Serves(e, q)'
      BY Zenon, <1>3, <3>1 DEF Serves
    <3> QED BY Zenon, <3>1, <3>2, QueueKept
  <2> QED BY Zenon, <2>1, <2>2 DEF QueueInv
<1>10. MgrInv'
  BY <1>0, <1>1, <1>2, <1>3 DEF MgrInv
<1> QED BY Zenon, <1>5, <1>6, <1>7, <1>8, <1>9, <1>10 DEF DevInv

(* The message at the head of a queue is taken out; an init message is     *)
(* never left behind another one.                                          *)
LEMMA Received ==
  ASSUME DevInv, NEW o \in Obj, NEW m, Receive(o, m)
  PROVE  /\ mgr.pc = "receive" /\ queue[o] # << >> /\ queue[o][1] = m
         /\ object[o].state # "none" /\ ~Fresh(o)
         /\ \A q \in Obj : q # o => queue'[q] = queue[q]
         /\ ~(queue'[o] # << >> /\ queue'[o][1] = "init")
         /\ \A i \in 1 .. Len(queue'[o]) :
              /\ queue'[o][i] # "init"
              /\ queue'[o][i] = "terminate" => i = Len(queue'[o]) /\ object[o].state = "dead"
<1>1. PICK q \in Seq(Msg) : q = queue[o] /\ q # << >> /\ queue'[o] = Tail(q)
  BY DEF Receive, DevInv, TypeInv
<1>2. mgr.pc = "receive" /\ queue[o][1] = m /\ \A p \in Obj : p # o => queue'[p] = queue[p]
  BY DEF Receive, DevInv, TypeInv
<1>3. PICK t \in Seq(Msg) : t = Tail(q) /\ Len(t) = Len(q) - 1
                            /\ \A i \in 1 .. Len(t) : t[i] = q[i + 1]
  <2>1. q # << >>
    BY <1>1
  <2> QED BY Zenon, <2>1, TailList
<1>4. /\ Len(t) \in Nat /\ Len(q) \in Nat /\ Len(q) = Len(t) + 1
      /\ \A i \in 1 .. Len(t) : i + 1 \in 1 .. Len(q) /\ i + 1 # 1
      /\ t # << >> => 1 \in 1 .. Len(t)
  <2>1. Len(t) \in Nat /\ Len(q) \in Nat
    OBVIOUS
  <2>2. t # << >> => Len(t) # 0
    BY SMTT(40)
  <2> QED BY <1>3, <2>1, <2>2
<1>5. QueueOK(o) /\ object[o].state # "none" /\ ~Fresh(o)
  BY <1>1 DEF DevInv, QueueInv, QueueOK, Fresh
<1>6. \A i \in 1 .. Len(q) : /\ q[i] = "init" => i = 1
                             /\ q[i] = "terminate" => i = Len(q) /\ object[o].state = "dead"
  BY <1>1, <1>5 DEF QueueOK
<1>7. ASSUME NEW i \in 1 .. Len(t)
      PROVE  /\ t[i] # "init"
             /\ t[i] = "terminate" => i = Len(t) /\ object[o].state = "dead"
  <2>1. i + 1 \in 1 .. Len(q) /\ t[i] = q[i + 1] /\ i + 1 # 1
    BY <1>3, <1>4
  <2>2. PICK k \in 1 .. Len(q) : k = i + 1 /\ t[i] = q[k] /\ k # 1
    BY <2>1
  <2>3. q[k] # "init" /\ (q[k] = "terminate" => k = Len(q) /\ object[o].state = "dead")
    BY <1>6, <2>2
  <2> QED BY <1>4, <2>2, <2>3
<1>8. t # << >> => t[1] # "init"
  BY <1>4, <1>7
<1>9. queue'[o] = t
  BY <1>1, <1>3
<1> QED BY Zenon, <1>1, <1>2, <1>5, <1>7, <1>8, <1>9

(* Requests that the pager throws away.                                    *)
LEMMA IgnoreKeeps ==
  ASSUME DevicePagerAssumption, DevInv, TypeInv', NEW o \in Obj, IgnoreData(o)
  PROVE  DevInv'
<1>0. TypeInv /\ ListInv /\ DescInv /\ ClientInv /\ ObjectInv /\ QueueInv /\ MgrInv /\ MemoryInv
  BY DEF DevInv
<1>1. PICK m \in {"data_request", "data_write"} : Receive(o, m)
  BY DEF IgnoreData
<1>2. /\ mgr.pc = "receive" /\ queue[o] # << >> /\ queue[o][1] = m
      /\ object[o].state # "none" /\ ~Fresh(o)
      /\ \A q \in Obj : q # o => queue'[q] = queue[q]
      /\ ~(queue'[o] # << >> /\ queue'[o][1] = "init")
      /\ \A i \in 1 .. Len(queue'[o]) :
           /\ queue'[o][i] # "init"
           /\ queue'[o][i] = "terminate" => i = Len(queue'[o]) /\ object[o].state = "dead"
  BY <1>1, Received
<1>3. /\ UNCHANGED <<zone, mgr, object, memory, client, maps, device_pager_lock>>
      /\ Listed' = Listed /\ Free' = Free
  BY Zenon DEF IgnoreData, Listed, Free
<1>4. ListInv' /\ MgrInv' /\ MemoryInv'
  BY <1>0, <1>3 DEF ListInv, MgrInv, MemoryInv, IgnoreData
<1>5. DescInv'
  <2>1. \A r \in Obj : Spent(r) => Spent(r)'
    BY Zenon, <1>2, <1>3 DEF Spent, Obj
  <2> QED BY Zenon, <1>0, <2>1, DescKept DEF IgnoreData
<1>6. \A q \in Obj : Fresh(q) => Fresh(q)'
  BY Zenon, <1>2, <1>3 DEF Fresh
<1>7. ClientInv'
  <2>1. ASSUME NEW b \in Client PROVE ClientOK(b)'
    <3>1. client[b].pc # "idle" => client[b].o \in Obj
      BY SMTT(40), ClientObject
    <3> QED BY <1>0, <1>3, <1>6, <3>1 DEF ClientInv, ClientOK
  <2> QED BY ZenonT(30), <1>0, <1>3, <2>1 DEF ClientInv
<1>8. ObjectInv'
  <2>1. \A q \in Obj : (Used(q)' <=> Used(q)) /\ (Filling(q)' <=> Filling(q))
    BY <1>3 DEF Used, Filling
  <2> QED BY <1>0, <1>3, <1>6, <2>1 DEF ObjectInv, RefsOK, PagesOK
<1>9. QueueInv'
  <2>1. ASSUME NEW q \in Obj, q # o PROVE QueueOK(q)'
    <3>1. QueueOK(q) /\ queue'[q] = queue[q] /\ object'[q].state = object[q].state
      BY Zenon, <1>0, <1>2, <1>3, <2>1 DEF QueueInv
    <3>2. \A e \in Listed : Serves(e, q) => e \in Listed' /\ Serves(e, q)'
      BY Zenon, <1>3, <3>1 DEF Serves
    <3> QED BY Zenon, <3>1, <3>2, QueueKept
  <2>2. PICK d \in Listed : Serves(d, o)
    BY Zenon, <1>0, <1>2 DEF QueueInv, QueueOK
  <2>3. Serves(d, o)'
    BY Zenon, <1>2, <1>3, <2>2 DEF Serves
  <2>4. QueueOK(o)'
    BY Zenon, <1>2, <1>3, <2>3 DEF QueueOK
  <2> QED BY Zenon, <2>1, <2>4 DEF QueueInv
<1> QED BY Zenon, <1>4, <1>5, <1>7, <1>8, <1>9 DEF DevInv

(* memory_object_init records the request port in the object's own         *)
(* descriptor, and holds a reference while it fills the object.            *)
LEMMA InitKeeps ==
  ASSUME DevicePagerAssumption, DevInv, TypeInv', NEW o \in Obj, memory_object_init(o)
  PROVE  DevInv'
<1>0. TypeInv /\ ListInv /\ DescInv /\ ClientInv /\ ObjectInv /\ QueueInv /\ MgrInv /\ MemoryInv
  BY DEF DevInv
<1>1. Receive(o, "init")
  BY Zenon DEF memory_object_init
<1>2. /\ mgr.pc = "receive" /\ queue[o] # << >>
      /\ object[o].state # "none" /\ ~Fresh(o)
      /\ \A q \in Obj : q # o => queue'[q] = queue[q]
      /\ ~(queue'[o] # << >> /\ queue'[o][1] = "init")
      /\ \A i \in 1 .. Len(queue'[o]) :
           /\ queue'[o][i] # "init"
           /\ queue'[o][i] = "terminate" => i = Len(queue'[o]) /\ object[o].state = "dead"
  BY <1>1, Received
<1>3. PICK d \in Listed : /\ DescriptorOf(o) = {d}
                          /\ zone[d].pager = o /\ zone[d].dev = o /\ zone[d].pager_request = 0
  BY <1>1, InitFinds
<1>4. /\ zone' = [zone EXCEPT ![d] = Initialised(@, o)]
      /\ IF object[o].state = "alive"
         THEN /\ object' = [object EXCEPT ![o] = LookedUp(@)]
              /\ memory' = [memory EXCEPT ![o] = "held"]
              /\ mgr' = [pc |-> "fill", d |-> d, o |-> o, p |-> 1]
         ELSE UNCHANGED <<object, memory, mgr>>
  BY Zenon, <1>3 DEF memory_object_init, PORT_NULL
<1>5. Listed \subseteq Element /\ Free \subseteq Element /\ d \in Element /\ d \notin Free
      /\ \A e \in Listed : zone[e].pager = o => e = d
  BY <1>0, <1>3, Members DEF DescInv, ListInv
<1>6. /\ \A e \in Element : e # d => zone'[e] = zone[e]
      /\ zone'[d].pager = o /\ zone'[d].dev = o /\ zone'[d].pager_request = o
      /\ IF object[o].state = "alive" THEN zone'[d].pages = o ELSE zone'[d].pages_size = 0
  BY <1>0, <1>3, <1>4, <1>5 DEF TypeInv, Desc, Initialised
<1>7. /\ UNCHANGED <<client, maps, device_pager_lock>> /\ Listed' = Listed /\ Free' = Free
  BY SMTT(40) DEF memory_object_init, Listed, Free
<1>8. /\ \A q \in Obj : object'[q].state = object[q].state /\ object'[q].page = object[q].page
      /\ \A q \in Obj : q # o => object'[q] = object[q]
      /\ object[o].state = "alive" => object'[o].ref_count = object[o].ref_count + 1
      /\ object[o].ref_count \in Int
  <2>1. /\ VmObject(object[o]) /\ object = [q \in Obj |-> object[q]]
        /\ object[o].ref_count \in Int
    BY <1>0 DEF TypeInv, VmObject
  <2>2. CASE object[o].state = "alive"
    <3>1. object' = [object EXCEPT ![o] = LookedUp(@)]
      BY <1>4, <2>2
    <3>2. object'[o] = LookedUp(object[o]) /\ \A q \in Obj : q # o => object'[q] = object[q]
      BY <2>1, <3>1
    <3>3. /\ object'[o].state = object[o].state /\ object'[o].page = object[o].page
          /\ object'[o].ref_count = object[o].ref_count + 1
      BY Zenon, <2>1, <3>2, LookedUpType
    <3> QED BY <2>1, <3>2, <3>3
  <2>3. CASE object[o].state # "alive"
    BY SMTT(40), <1>4, <2>1, <2>3
  <2> QED BY <2>2, <2>3
<1>9. /\ \A q \in Obj \cup {0} : q # o => memory'[q] = memory[q]
      /\ object[o].state = "alive" => memory'[o] = "held"
      /\ \A q \in Obj \cup {0} : memory[q] = "held" => memory'[q] = "held"
      /\ \A q \in Obj \cup {0} : memory'[q] # "misfreed"
  BY <1>0, <1>4 DEF TypeInv, MemoryInv
<1>10. ListInv' /\ MemoryInv'
  BY SMTT(40), <1>0, <1>7, <1>9 DEF ListInv, MemoryInv, memory_object_init
<1>11. \A r \in Obj : Spent(r) => Spent(r)' /\ r # o
  BY SMTT(40), <1>2, <1>8 DEF Spent, Obj
<1>12. DescInv'
  <2>1. \A e \in Element : zone[e].pager_request \in Obj \cup {0} /\ zone[e].pager \in Obj \cup {0}
    BY <1>0 DEF TypeInv, Desc
  <2>2. \A r \in Obj \cup {0} : Spent(r) => Spent(r)'
    BY Zenon, <1>11 DEF Spent
  <2>3. ASSUME NEW e \in Free PROVE Spent(zone[e].pager_request)'
    BY Zenon, <1>0, <1>5, <1>6, <2>1, <2>2 DEF DescInv
  <2>4. ASSUME NEW e \in Listed, e # d PROVE DescOK(e)'
    <3>1. /\ DescOK(e) /\ zone'[e] = zone[e] /\ maps' = maps
          /\ zone[e].pager_request \in Obj \cup {0} /\ zone[e].pager \in Obj \cup {0}
      BY Zenon, <1>0, <1>5, <1>6, <1>7, <2>1, <2>4 DEF DescInv
    <3> QED BY Zenon, <1>9, <2>2, <3>1 DEF DescOK
  <2>5. DescOK(d)'
    BY Zenon, <1>0, <1>3, <1>6, <1>7, <1>9 DEF DescInv, DescOK
  <2>6. \A e \in Listed : zone'[e].pager = zone[e].pager
    BY <1>3, <1>5, <1>6
  <2> QED BY SMTT(40), <1>0, <1>7, <2>3, <2>4, <2>5, <2>6 DEF DescInv
<1>13. \A q \in Obj : Fresh(q) => Fresh(q)' /\ q # o
  BY Zenon, <1>2, <1>8 DEF Fresh
<1>14. ClientInv'
  <2>1. ASSUME NEW b \in Client PROVE ClientOK(b)'
    <3>1. client[b].pc # "idle" => client[b].o \in Obj
      BY ClientObject
    <3>2. /\ ClientOK(b) /\ client' = client /\ maps' = maps /\ Listed' = Listed
          /\ \A q \in Obj : object'[q].state = object[q].state /\ (Fresh(q) => Fresh(q)' /\ q # o)
      BY Zenon, <1>0, <1>7, <1>8, <1>13 DEF ClientInv
    <3>3. \A e \in Listed : zone[e].pager # o => zone'[e] = zone[e]
      BY Zenon, <1>3, <1>5, <1>6
    <3> QED BY Zenon, <3>1, <3>2, <3>3 DEF ClientOK, Using
  <2> QED BY Zenon, <1>0, <1>7, <2>1 DEF ClientInv
<1>15. ObjectInv'
  <2>1. \A q \in Obj : Used(q)' <=> Used(q)
    BY ZenonT(40), <1>7 DEF Used
  <2>2. \A q \in Obj : ~Filling(q) /\ (Filling(q)' <=> q = o /\ object[o].state = "alive")
    BY ZenonT(40), <1>2, <1>4, FillingStarts
  <2>3. ASSUME NEW q \in Obj PROVE RefsOK(q)'
    BY SMTT(20), <1>0, <1>8, <2>1, <2>2 DEF ObjectInv, RefsOK
  <2>4. ASSUME NEW q \in Obj PROVE PagesOK(q)'
    <3>1. /\ PagesOK(q) /\ (memory[q] = "held" => memory'[q] = "held")
          /\ object'[q].state = object[q].state /\ object'[q].page = object[q].page
      BY Zenon, <1>0, <1>8, <1>9 DEF ObjectInv
    <3> QED BY Zenon, <3>1, PagesKept
  <2> QED BY Zenon, <1>0, <1>7, <1>13, <2>3, <2>4 DEF ObjectInv
<1>16. QueueInv'
  <2>1. ASSUME NEW q \in Obj, q # o, NEW e \in Listed, Serves(e, q) PROVE Serves(e, q)'
    BY ZenonT(30), <1>2, <1>3, <1>5, <1>6, <2>1 DEF Serves
  <2>2. ASSUME NEW q \in Obj, q # o PROVE QueueOK(q)'
    <3>1. QueueOK(q) /\ queue'[q] = queue[q] /\ object'[q].state = object[q].state
      BY Zenon, <1>0, <1>2, <1>8, <2>2 DEF QueueInv
    <3>2. \A e \in Listed : Serves(e, q) => e \in Listed' /\ Serves(e, q)'
      BY Zenon, <1>7, <2>1, <2>2
    <3> QED BY Zenon, <3>1, <3>2, QueueKept
  <2>3. Serves(d, o)'
    BY Zenon, <1>2, <1>6 DEF Serves
  <2>4. QueueOK(o)'
    <3>1. object'[o].state = object[o].state /\ d \in Listed'
      BY Zenon, <1>7, <1>8
    <3> QED BY Zenon, <1>2, <2>3, <3>1 DEF QueueOK
  <2> QED BY Zenon, <2>2, <2>4 DEF QueueInv
<1>17. MgrInv'
  <2>1. CASE object[o].state = "alive"
    <3>1. 1 \in Page
      BY DEF Page, DevicePagerAssumption
    <3> QED BY SMTT(40), <1>3, <1>4, <1>6, <1>7, <1>8, <1>9, <2>1, <3>1 DEF MgrInv
  <2>2. CASE object[o].state # "alive"
    BY Zenon, <1>2, <1>4, <2>2 DEF MgrInv
  <2> QED BY ZenonT(40), <2>1, <2>2
<1> QED BY Zenon, <1>10, <1>12, <1>14, <1>15, <1>16, <1>17 DEF DevInv

(* memory_object_terminate frees the page structures of an object that is  *)
(* gone, and with the descriptor nothing that names it is left.            *)
LEMMA TerminateKeeps ==
  ASSUME DevicePagerAssumption, DevInv, TypeInv', NEW o \in Obj, memory_object_terminate(o)
  PROVE  DevInv'
<1>0. TypeInv /\ ListInv /\ DescInv /\ ClientInv /\ ObjectInv /\ QueueInv /\ MgrInv /\ MemoryInv
  BY DEF DevInv
<1>1. Receive(o, "terminate")
  BY DEF memory_object_terminate
<1>2. /\ mgr.pc = "receive" /\ queue[o] # << >> /\ ~Fresh(o)
      /\ \A q \in Obj : q # o => queue'[q] = queue[q]
  BY SMTT(40), <1>1, Received
<1>3. /\ object[o].state = "dead" /\ queue'[o] = << >>
      /\ \E d \in Listed :
           /\ FirstOf({e \in Element : zone[e].pager_request = o}) = {d}
           /\ zone[d].pager = o /\ zone[d].pager_request = o
  BY <1>1, TerminateFinds
<1>4. PICK d \in Listed :
        /\ FirstOf({e \in Element : zone[e].pager_request = o}) = {d}
        /\ zone[d].pager = o /\ zone[d].pager_request = o
  BY Zenon, <1>3
<1>5. /\ device_pager_list' = Unlinked(device_pager_list, d)
      /\ free_elements' = <<d>> \o free_elements
      /\ memory' = Freed(zone[d])
      /\ UNCHANGED <<zone, mgr, object, client, maps, device_pager_lock>>
  BY Zenon, <1>4 DEF memory_object_terminate
<1>6. Listed \subseteq Element /\ Free \subseteq Element /\ d \in Element /\ d \notin Free
      /\ \A e \in Listed : zone[e].pager = o => e = d
  BY Zenon, <1>0, <1>4, Members DEF DescInv, ListInv
<1>7. Listed' = Listed \ {d} /\ Free' = Free \cup {d} /\ ListInv'
  <2>1. /\ device_pager_list \in Seq(Element) /\ IsInjective(device_pager_list)
        /\ free_elements \in Seq(Element) /\ IsInjective(free_elements)
        /\ d \in Range(device_pager_list) /\ d \notin Range(free_elements)
    BY SMTT(40), <1>0, <1>6 DEF TypeInv, ListInv, Listed, Free
  <2>2. Range(device_pager_list') = Listed \ {d} /\ IsInjective(device_pager_list')
    BY SMTT(40), <1>5, <2>1, UnlinkedList DEF Listed
  <2>3. Range(free_elements') = Free \cup {d} /\ IsInjective(free_elements')
    BY <1>5, <1>6, <2>1, ConsList DEF Free
  <2>4. Listed' = Listed \ {d} /\ Free' = Free \cup {d}
    BY SMTT(40), <2>2, <2>3 DEF Listed, Free
  <2> QED BY SMTT(40), <1>0, <1>5, <2>2, <2>3, <2>4 DEF ListInv
<1>8. /\ \A q \in Obj \cup {0} : q # o => memory'[q] = memory[q]
      /\ \A q \in Obj \cup {0} : memory'[q] # "misfreed"
  <2>1. zone[d].pages_size = 0 \/ (zone[d].pages = o /\ memory[o] = "held")
    BY Zenon, <1>0, <1>4 DEF DescInv, DescOK
  <2>2. CASE zone[d].pages_size = 0
    BY <1>0, <1>5, <2>2 DEF Freed, MemoryInv
  <2>3. CASE zone[d].pages_size # 0 /\ zone[d].pages = o /\ memory[o] = "held"
    <3>1. memory' = [memory EXCEPT ![o] = "freed"]
      BY Zenon, <1>5, <2>3 DEF Freed
    <3> QED BY Zenon, <1>0, <3>1 DEF TypeInv, MemoryInv
  <2> QED BY <2>1, <2>2, <2>3
<1>9. Spent(o)' /\ \A r \in Obj \cup {0} : Spent(r) => Spent(r)'
  BY SMTT(40), <1>2, <1>3, <1>5 DEF Spent
<1>10. DescInv'
  <2>1. \A e \in Element : zone[e].pager_request \in Obj \cup {0} /\ zone[e].pager \in Obj \cup {0}
    BY <1>0 DEF TypeInv, Desc
  <2>2. ASSUME NEW e \in Free' PROVE Spent(zone[e].pager_request)'
    <3>1. CASE e = d
      BY Zenon, <1>4, <1>5, <1>9, <3>1
    <3>2. CASE e \in Free
      BY Zenon, <1>0, <1>5, <1>6, <1>9, <2>1, <3>2 DEF DescInv
    <3> QED BY <1>7, <3>1, <3>2
  <2>3. ASSUME NEW e \in Listed' PROVE DescOK(e)'
    <3>1. e \in Listed /\ e # d /\ zone[e].pager # o /\ e \in Element
      BY Zenon, <1>6, <1>7
    <3> QED BY Zenon, <1>0, <1>5, <1>8, <1>9, <2>1, <3>1 DEF DescInv, DescOK
  <2> QED BY SMTT(40), <1>0, <1>5, <1>7, <2>2, <2>3 DEF DescInv
<1>11. \A q \in Obj : Fresh(q) => Fresh(q)' /\ q # o
  BY Zenon, <1>2, <1>5 DEF Fresh
<1>12. ClientInv'
  <2>1. ASSUME NEW b \in Client PROVE ClientOK(b)'
    <3>1. client[b].pc # "idle" => client[b].o \in Obj
      BY ClientObject
    <3> QED BY Zenon, <1>0, <1>4, <1>5, <1>7, <1>11, <3>1 DEF ClientInv, ClientOK, Using
  <2> QED BY Zenon, <1>0, <1>5, <2>1 DEF ClientInv
<1>13. ObjectInv'
  <2>1. \A q \in Obj : (Used(q)' <=> Used(q)) /\ (Filling(q)' <=> Filling(q))
    BY Zenon, <1>5 DEF Used, Filling
  <2>2. ASSUME NEW q \in Obj PROVE PagesOK(q)'
    <3>1. CASE q = o
      BY Zenon, <1>0, <1>3, <1>5, <3>1 DEF ObjectInv, PagesOK
    <3>2. CASE q # o
      <4>1. PagesOK(q) /\ memory'[q] = memory[q] /\ object' = object
        BY Zenon, <1>0, <1>5, <1>8, <3>2 DEF ObjectInv
      <4> QED BY Zenon, <4>1, PagesKept
    <3> QED BY Zenon, <3>1, <3>2
  <2> QED BY Zenon, <1>0, <1>5, <1>11, <2>1, <2>2 DEF ObjectInv, RefsOK
<1>14. QueueInv'
  <2>1. ASSUME NEW q \in Obj, q # o, NEW e \in Listed, Serves(e, q)
        PROVE  e \in Listed' /\ Serves(e, q)'
    BY Zenon, <1>2, <1>4, <1>5, <1>7, <2>1 DEF Serves
  <2>2. ASSUME NEW q \in Obj, q # o PROVE QueueOK(q)'
    <3>1. QueueOK(q) /\ queue'[q] = queue[q] /\ object' = object
      BY Zenon, <1>0, <1>2, <1>5, <2>2 DEF QueueInv
    <3>2. \A e \in Listed : Serves(e, q) => e \in Listed' /\ Serves(e, q)'
      BY Zenon, <2>1, <2>2
    <3> QED BY Zenon, <3>1, <3>2, QueueKept
  <2>3. QueueOK(o)'
    <3>1. object'[o].state = "dead" /\ queue'[o] = << >> /\ Len(<< >>) = 0
      BY <1>3, <1>5
    <3> QED BY SMTT(40), <3>1 DEF QueueOK
  <2> QED BY Zenon, <2>2, <2>3 DEF QueueInv
<1>15. MgrInv' /\ MemoryInv'
  BY Zenon, <1>0, <1>2, <1>5, <1>8 DEF MgrInv, MemoryInv
<1> QED BY Zenon, <1>7, <1>10, <1>12, <1>13, <1>14, <1>15 DEF DevInv

(* The page that is filled in is the page of the object's own device.      *)
LEMMA FillKeeps ==
  ASSUME DevicePagerAssumption, DevInv, TypeInv', FillPage
  PROVE  DevInv'
<1>0. TypeInv /\ ObjectInv /\ MgrInv
  BY DEF DevInv
<1>1. PICK o \in Obj, p \in Page : o = mgr.o /\ p = mgr.p /\ mgr.pc = "fill"
  BY Zenon, <1>0 DEF MgrInv, FillPage
<1>2. /\ object[o].state = "alive" /\ memory[o] = "held" /\ mgr.d \in Listed
      /\ zone[mgr.d].pager = o /\ zone[mgr.d].dev = o
  BY <1>0, <1>1 DEF MgrInv
<1>3. PICK f \in Content : f = <<o, p>>
  BY Zenon DEF Content, Frame
<1>4. object' = [object EXCEPT ![o] = [@ EXCEPT !.page[p] = f]]
  BY <1>1, <1>2, <1>3 DEF FillPage
<1>5. /\ object'[o].state = "alive" /\ object'[o].ref_count = object[o].ref_count
      /\ object'[o].page = [object[o].page EXCEPT ![p] = f]
      /\ object[o].page \in [Page -> Content]
      /\ \A q \in Obj : q # o => object'[q] = object[q]
  <2>1. VmObject(object[o]) /\ object = [q \in Obj |-> object[q]]
    BY <1>0 DEF TypeInv
  <2>2. object'[o] = [object[o] EXCEPT !.page[p] = f] /\ \A q \in Obj : q # o => object'[q] = object[q]
    BY <1>4, <2>1
  <2>3. /\ [object[o] EXCEPT !.page[p] = f].page = [object[o].page EXCEPT ![p] = f]
        /\ [object[o] EXCEPT !.page[p] = f].ref_count = object[o].ref_count
        /\ [object[o] EXCEPT !.page[p] = f].state = object[o].state
    BY <2>1, PageType
  <2>4. object[o].page \in [Page -> Content]
    BY <2>1 DEF VmObject
  <2> QED BY SMTT(40), <1>2, <2>2, <2>3, <2>4
<1>6. UNCHANGED <<zone, free_elements, device_pager_list, device_pager_lock, queue, memory, maps>>
  BY DEF FillPage
<1>7. /\ mgr'.o = o /\ mgr'.d = mgr.d /\ mgr'.p \in Page /\ mgr'.pc \in {"fill", "release"}
  BY SMTT(40), <1>0, <1>1 DEF FillPage, TypeInv, Manager, Page, DevicePagerAssumption
<1>8. MgrInv'
  BY ZenonT(40), <1>2, <1>5, <1>6, <1>7 DEF MgrInv, Listed
<1>9. ASSUME NEW q \in Obj
      PROVE  /\ object'[q].state = object[q].state
             /\ object'[q].ref_count = object[q].ref_count
             /\ PagesOK(q)' /\ (Filling(q)' <=> Filling(q))
  <2>1. Filling(q)' <=> Filling(q)
    BY Zenon, <1>1, <1>7 DEF Filling
  <2>2. CASE q = o
    <3>1. object'[o].state = "alive" /\ memory'[o] = "held"
      BY Zenon, <1>2, <1>5, <1>6
    <3>2. \A r \in Page : object'[o].page[r] = IF r = p THEN <<o, p>> ELSE object[o].page[r]
      BY <1>3, <1>5
    <3>3. PagesOK(o)'
      BY Zenon, <1>0, <3>1, <3>2 DEF ObjectInv, PagesOK
    <3> QED BY Zenon, <1>2, <1>5, <2>1, <2>2, <3>3
  <2>3. CASE q # o
    <3>1. PagesOK(q) /\ memory' = memory /\ object'[q] = object[q]
      BY Zenon, <1>0, <1>5, <1>6, <2>3 DEF ObjectInv
    <3>2. PagesOK(q)'
      BY Zenon, <3>1, PagesKept
    <3> QED BY Zenon, <2>1, <3>1, <3>2
  <2> QED BY <2>2, <2>3
<1>10. \A b \in Client : /\ client'[b].o = client[b].o /\ client'[b].d = client[b].d
                         /\ \/ client'[b].pc = client[b].pc
                            \/ client'[b].pc \in Using /\ client[b].pc \in Using
  <2>1. client' = Awaken(mgr.o, "page", {mgr.p}) \/ client' = client
    BY DEF FillPage, Replaced
  <2> QED BY <1>0, <2>1, AwakenEffect
<1> QED BY Zenon, <1>6, <1>8, <1>9, <1>10, PagerKeeps

(* An object that is made ready.                                           *)
LEMMA ReadyKeeps ==
  ASSUME DevicePagerAssumption, DevInv, TypeInv', SetReady
  PROVE  DevInv'
<1>0. TypeInv /\ ObjectInv /\ MgrInv
  BY DEF DevInv
<1>1. \A q \in Obj : /\ object'[q].state = object[q].state
                     /\ object'[q].ref_count = object[q].ref_count
                     /\ object'[q].page = object[q].page
  <2>1. CASE object[mgr.o].state = "alive"
    <3>1. object' = [object EXCEPT ![mgr.o] = [@ EXCEPT !.pager_ready = TRUE]] /\ mgr.o \in Obj
      BY <1>0, <2>1 DEF SetReady, MgrInv
    <3>2. object'[mgr.o] = [object[mgr.o] EXCEPT !.pager_ready = TRUE]
          /\ VmObject(object[mgr.o]) /\ \A q \in Obj : q # mgr.o => object'[q] = object[q]
      BY <1>0, <3>1 DEF TypeInv
    <3>3. /\ [object[mgr.o] EXCEPT !.pager_ready = TRUE].page = object[mgr.o].page
          /\ [object[mgr.o] EXCEPT !.pager_ready = TRUE].ref_count = object[mgr.o].ref_count
          /\ [object[mgr.o] EXCEPT !.pager_ready = TRUE].state = object[mgr.o].state
      BY <3>2, LookedUpType
    <3> QED BY Zenon, <3>2, <3>3
  <2>2. CASE object[mgr.o].state # "alive"
    BY <2>2 DEF SetReady
  <2> QED BY <2>1, <2>2
<1>2. UNCHANGED <<zone, free_elements, device_pager_list, device_pager_lock, queue, memory, maps>>
  BY DEF SetReady
<1>3. mgr.pc = "attributes" /\ mgr'.pc = "receive"
  BY DEF SetReady, Receiving
<1>4. MgrInv'
  BY SMTT(40), <1>3 DEF MgrInv
<1>5. ASSUME NEW q \in Obj PROVE PagesOK(q)' /\ (Filling(q)' <=> Filling(q))
  BY SMTT(40), <1>0, <1>1, <1>2, <1>3 DEF ObjectInv, PagesOK, Filling
<1>6. \A b \in Client : /\ client'[b].o = client[b].o /\ client'[b].d = client[b].d
                        /\ \/ client'[b].pc = client[b].pc
                           \/ client'[b].pc \in Using /\ client[b].pc \in Using
  <2>1. client' = Awaken(mgr.o, "ready", Page) \/ client' = client
    BY DEF SetReady
  <2> QED BY <1>0, <2>1, AwakenEffect
<1> QED BY Zenon, <1>1, <1>2, <1>4, <1>5, <1>6, PagerKeeps

(* The pager gives its reference back; without a mapping, the object dies. *)
LEMMA ReleaseKeeps ==
  ASSUME DevicePagerAssumption, DevInv, TypeInv', ReleaseObject
  PROVE  DevInv'
<1>0. TypeInv /\ ListInv /\ DescInv /\ ClientInv /\ ObjectInv /\ QueueInv /\ MgrInv /\ MemoryInv
  BY DEF DevInv
<1>1. PICK o \in Obj : o = mgr.o /\ mgr.pc = "release" /\ object[o].state = "alive"
  BY <1>0 DEF MgrInv, ReleaseObject
<1>2. mgr'.pc = "attributes" /\ mgr'.o = o
  BY <1>0, <1>1 DEF ReleaseObject, TypeInv, Manager
<1>3. /\ UNCHANGED <<zone, queue, memory, client, maps, device_pager_lock>>
      /\ Listed' = Listed /\ Free' = Free
  BY DEF ReleaseObject, Listed, Free
<1>4. /\ object'[o].page = object[o].page
      /\ object'[o].ref_count = object[o].ref_count - 1
      /\ object'[o].state = IF object[o].ref_count = 1 THEN "dying" ELSE "alive"
      /\ \A q \in Obj : q # o => object'[q] = object[q]
      /\ object[o].ref_count \in Int
  BY Zenon, <1>0, <1>1, UnreferencedType DEF TypeInv, ReleaseObject, VmObject
<1>5. \A q \in Obj : ~Filling(q)' /\ (Filling(q) <=> q = o) /\ (Used(q)' <=> Used(q))
  BY SMTT(40), <1>1, <1>2, <1>3 DEF Filling, Used
<1>6. object[o].ref_count = (IF Used(o) THEN 2 ELSE 1)
  BY SMTT(40), <1>0, <1>1, <1>5 DEF ObjectInv, RefsOK
<1>7. object'[o].state = (IF Used(o) THEN "alive" ELSE "dying")
  BY <1>4, <1>6
<1>state. \A q \in Obj : \/ object'[q].state = object[q].state
                         \/ object[q].state = "alive" /\ object'[q].state = "dying"
  <2>1. object'[o].state = "alive" \/ object'[o].state = "dying"
    BY <1>7
  <2>2. \A q \in Obj : q # o => object'[q].state = object[q].state
    BY Zenon, <1>4
  <2>3. object[o].state = "alive"
    BY <1>1
  <2> QED BY <2>1, <2>2, <2>3
<1>8. ListInv' /\ MemoryInv' /\ MgrInv'
  BY <1>0, <1>2, <1>3 DEF ReleaseObject, ListInv, MemoryInv, MgrInv
<1>9. DescInv'
  <2>1. \A r \in Obj : Spent(r) => Spent(r)'
    BY <1>1, <1>3, <1>4 DEF Spent
  <2> QED BY SMTT(40), <1>0, <2>1, DescKept DEF ReleaseObject
<1>10. ClientInv'
  <2>1. ASSUME NEW b \in Client PROVE ClientOK(b)'
    <3>1. client[b].pc # "idle" => client[b].o \in Obj
      BY SMTT(40), ClientObject
    <3>2. client[b].pc \in Using => object'[client[b].o].state = "alive" /\ client[b].o \in Obj
      <4>1. CASE client[b].pc \in Using /\ client[b].o = o
        BY Zenon, <1>1, <1>7, <4>1 DEF Used
      <4>2. CASE client[b].pc \in Using /\ client[b].o # o
        BY Zenon, <1>0, <1>4, <3>1, <4>2 DEF ClientInv, ClientOK, Using
      <4> QED BY <4>1, <4>2
    <3>3. client[b].pc \in {"record", "map"} => client[b].o # o
      BY <1>0, <1>1 DEF ClientInv, ClientOK, Fresh
    <3> QED BY SMTT(40), <1>0, <1>3, <1>4, <3>1, <3>2, <3>3 DEF ClientInv, ClientOK, Fresh, Using
  <2> QED BY ZenonT(30), <1>0, <1>3, <2>1 DEF ClientInv
<1>11. ObjectInv'
  <2>1. RefsOK(o)'
    BY <1>4, <1>5, <1>6, <1>7 DEF RefsOK
  <2>2. ~(o > maps')
    BY Zenon, <1>0, <1>1, <1>3 DEF ObjectInv, Fresh
  <2>3. ASSUME NEW q \in Obj, q # o PROVE RefsOK(q)' /\ (q > maps => Fresh(q))'
    BY Zenon, <1>0, <1>3, <1>4, <1>5, <2>3 DEF ObjectInv, RefsOK, Fresh
  <2>4. ASSUME NEW q \in Obj PROVE PagesOK(q)'
    <3>1. PagesOK(q) /\ object'[q].page = object[q].page /\ memory' = memory
      BY Zenon, <1>0, <1>3, <1>4 DEF ObjectInv
    <3> QED BY Zenon, <1>state, <3>1, PagesKept
  <2> QED BY Zenon, <2>1, <2>2, <2>3, <2>4 DEF ObjectInv
<1>12. QueueInv'
  <2>1. ASSUME NEW q \in Obj PROVE QueueOK(q)'
    <3>1. QueueOK(q) /\ queue'[q] = queue[q]
      BY Zenon, <1>0, <1>3 DEF QueueInv
    <3>2. \A e \in Listed : Serves(e, q) => e \in Listed' /\ Serves(e, q)'
      BY Zenon, <1>3 DEF Serves
    <3> QED BY Zenon, <1>state, <3>1, <3>2, QueueKept
  <2> QED BY Zenon, <2>1 DEF QueueInv
<1> QED BY Zenon, <1>8, <1>9, <1>10, <1>11, <1>12 DEF DevInv

(* Every step keeps the invariant.                                         *)
LEMMA DevNext == ASSUME DevicePagerAssumption, DevInv, [Next]_vars PROVE DevInv'
<1>0. TypeInv'
  BY DevType
<1>1. ASSUME NEW c \in Client, device_pager_create(c) PROVE DevInv'
  BY <1>0, <1>1, CreateKeeps
<1>16. ASSUME NEW c \in Client, CreateFails(c) PROVE DevInv'
  BY <1>0, <1>16, CreateFailsKeeps
<1>2. ASSUME NEW c \in Client, RecordArguments(c) PROVE DevInv'
  BY Zenon, <1>0, <1>2, RecordKeeps
<1>3. ASSUME NEW c \in Client, Map(c) PROVE DevInv'
  BY <1>0, <1>3, MapKeeps
<1>4. ASSUME NEW c \in Client, MapFails(c) PROVE DevInv'
  BY <1>0, <1>4, MapFailsKeeps
<1>5. ASSUME NEW c \in Client, Abort(c) PROVE DevInv'
  BY <1>0, <1>5, AbortKeeps
<1>6. ASSUME NEW c \in Client, Unmap(c) PROVE DevInv'
  BY <1>0, <1>6, UnmapKeeps
<1>7. ASSUME NEW c \in Client, NEW p \in Page, Fault(c, p) PROVE DevInv'
  BY <1>0, <1>7, FaultKeeps
<1>8. ASSUME NEW o \in Obj, vm_object_terminate(o) PROVE DevInv'
  BY <1>0, <1>8, TerminationKeeps
<1>9. ASSUME NEW o \in Obj, memory_object_init(o) PROVE DevInv'
  BY SMTT(40), <1>0, <1>9, InitKeeps
<1>10. ASSUME NEW o \in Obj, IgnoreData(o) PROVE DevInv'
  BY <1>0, <1>10, IgnoreKeeps
<1>11. ASSUME NEW o \in Obj, memory_object_terminate(o) PROVE DevInv'
  BY <1>0, <1>11, TerminateKeeps
<1>12. ASSUME FillPage PROVE DevInv'
  BY <1>0, <1>12, FillKeeps
<1>13. ASSUME ReleaseObject PROVE DevInv'
  BY SMTT(40), <1>0, <1>13, ReleaseKeeps
<1>14. ASSUME SetReady PROVE DevInv'
  BY <1>0, <1>14, ReadyKeeps
<1>15. CASE UNCHANGED vars
  BY <1>0, <1>15, WaitKeeps DEF vars
<1> QED BY Zenon, <1>1, <1>2, <1>3, <1>4, <1>5, <1>6, <1>7, <1>8, <1>9, <1>10, <1>11, <1>12, <1>13, <1>14,
           <1>15, <1>16 DEF Next, MgrStep

(* In every behaviour of the device pager.                                 *)
LEMMA DevInvariant == ASSUME DevicePagerAssumption PROVE Spec => []DevInv
<1>1. Init => DevInv
  BY DevInit
<1>2. DevInv /\ [Next]_vars => DevInv'
  BY DevNext
<1> QED BY <1>1, <1>2, PTL DEF Spec
-----------------------------------------------------------------------------
(* memory_object_init never panics, kmem_free is given the page structures *)
(* of memory_object_terminate's own object and gets them once, and no page *)
(* of an object outlives its structure, for every number of descriptors,   *)
(* mappings, pages and tasks.                                              *)
THEOREM PageStructuresCorrect == ASSUME DevicePagerAssumption PROVE Spec => []PageStructuresAreSafe
<1>1. DevInv => PageStructuresAreSafe
  BY Zenon DEF DevInv, MgrInv, MemoryInv, ObjectInv, PagesOK, PageStructuresAreSafe
<1> QED BY <1>1, DevInvariant, PTL

(* A page that memory_object_init enters into an object is the page of the *)
(* device that mmap named for this object.                                 *)
THEOREM PageCorrect == ASSUME DevicePagerAssumption PROVE Spec => []PageIsOfTheDevice
<1>1. DevInv => PageIsOfTheDevice
  BY DEF DevInv, ObjectInv, PagesOK, PageIsOfTheDevice
<1> QED BY <1>1, DevInvariant, PTL

(* memory_object_terminate always finds a descriptor, so the return that   *)
(* leaves device_pager_lock locked is not taken.                           *)
THEOREM LockCorrect == ASSUME DevicePagerAssumption PROVE Spec => []~device_pager_lock
<1>1. DevInv => ~device_pager_lock
  BY DEF DevInv, ListInv
<1> QED BY <1>1, DevInvariant, PTL
============================================================================
