---------------------------- MODULE DevicePager ----------------------------
(***************************************************************************)
(* The device pager of the kernel (kernel/builtin/device_pager.c): a task  *)
(* of its own that gives the pages of a device to the vm_object of each    *)
(* mmap of the device.  device_pager_create runs in the thread that calls  *)
(* mmap, on another processor perhaps than the pager; the handlers of the  *)
(* memory object messages run one after the other in the pager.            *)
(*                                                                         *)
(* An object stands for one call of mmap: its number names the memory      *)
(* object port and the request port, whose names the kernel does not use   *)
(* again, the device, a different one each time, and the kernel memory of  *)
(* its page structures.  The descriptors come from a zone, which hands     *)
(* them out with the values of their last use.  The virtual memory system  *)
(* (vm_object, vm_fault, mmap) is not in the sources as text; it is        *)
(* modelled from what the pager asks of it.                                *)
(***************************************************************************)
EXTENDS Integers, Sequences, FiniteSets

CONSTANTS
  Client,     \* the tasks that map a device
  Elements,   \* bound: the elements of device_pager_zone
  MaxMaps,    \* bound: the calls of mmap
  Size,       \* the pages of a mapping, atop(d->size)
  Budgets     \* bounds and build: [early, aborts, fails]

VARIABLES
  zone,                \* Element -> struct dev_pager
  free_elements,       \* the free list of the zone
  device_pager_list,   \* the elements in use, last created first
  device_pager_lock,   \* TRUE: left locked
  mgr,                 \* the thread of the pager
  queue,               \* the messages of each memory object port
  object,              \* the vm_object of each mmap
  memory,              \* the page structures of each object
  client,              \* the thread of each task
  maps,                \* calls of mmap so far
  budget

vars == <<zone, free_elements, device_pager_list, device_pager_lock, mgr,
          queue, object, memory, client, maps, budget>>

(* A mapping has at least one page. *)
DevicePagerAssumption == Elements \in Nat /\ MaxMaps \in Nat /\ Size \in Nat \ {0}

Obj == 1 .. MaxMaps

Element == 1 .. Elements

PORT_NULL == 0

Page == 1 .. Size

(* What mapfun returns for a page of a device, or of what stands for the   *)
(* device in a descriptor without arguments.                               *)
Frame == (Obj \cup {0}) \X Page

(* No page of the object, and a page that is busy until its data comes. *)
Absent == << >>

Busy == <<"busy">>

NoObject ==
  [state |-> "none", ref_count |-> 0, pager_ready |-> FALSE,
   page |-> [p \in Page |-> Absent]]

Idle == [pc |-> "idle", d |-> 0, o |-> 0, p |-> 0]

Receiving == [pc |-> "receive", d |-> 0, o |-> 0, p |-> 0]

(* A fresh element of the zone holds whatever the memory held. *)
Garbage == [pager |-> 0, pager_request |-> 0, dev |-> 0, pages |-> 0,
            pages_size |-> 1]

Init ==
  /\ zone = [d \in Element |-> Garbage]
  /\ free_elements = [i \in Element |-> i]
  /\ device_pager_list = << >>
  /\ device_pager_lock = FALSE
  /\ mgr = Receiving
  /\ queue = [o \in Obj |-> << >>]
  /\ object = [o \in Obj |-> NoObject]
  /\ memory = [o \in Obj \cup {0} |-> "none"]
  /\ client = [c \in Client |-> Idle]
  /\ maps = 0
  /\ budget \in Budgets

InList == {device_pager_list[i] : i \in 1 .. Len(device_pager_list)}

Send(o, m) == [queue EXCEPT ![o] = Append(@, m)]

(***************************************************************************)
(* device_pager_create, in the thread of mmap.  The descriptor is in the   *)
(* list before the arguments are in the descriptor.                        *)
(***************************************************************************)
device_pager_create(c) ==
  /\ client[c].pc = "idle"
  /\ maps < MaxMaps
  /\ ~device_pager_lock
  /\ free_elements # << >>
  /\ maps' = maps + 1
  /\ free_elements' = Tail(free_elements)
  /\ LET d == Head(free_elements)
     IN  /\ device_pager_list' = <<d>> \o device_pager_list
         /\ zone' = [zone EXCEPT ![d].pager = maps']
         /\ client' = [client EXCEPT ![c] =
                         [Idle EXCEPT !.pc = "record", !.d = d, !.o = maps']]
  /\ UNCHANGED <<device_pager_lock, mgr, queue, object, memory, budget>>

(* port_allocate fails: mmap gets PORT_NULL, and the element is lost to    *)
(* the zone.                                                               *)
CreateFails(c) ==
  /\ client[c].pc = "idle"
  /\ free_elements # << >>
  /\ budget.fails > 0
  /\ budget' = [budget EXCEPT !.fails = @ - 1]
  /\ free_elements' = Tail(free_elements)
  /\ UNCHANGED <<zone, device_pager_list, device_pager_lock, mgr, queue, object, memory, client,
                 maps>>

(* The assignments at the end of device_pager_create. *)
Recorded(e, dev) == [e EXCEPT !.dev = dev, !.pager_request = PORT_NULL]

RecordArguments(c) ==
  /\ client[c].pc = "record"
  /\ zone' = [zone EXCEPT ![client[c].d] = Recorded(@, client[c].o)]
  /\ client' = [client EXCEPT ![c].pc = "map"]
  /\ UNCHANGED <<free_elements, device_pager_list, device_pager_lock, mgr, queue, object,
                 memory, maps, budget>>

(***************************************************************************)
(* The virtual memory system.                                              *)
(***************************************************************************)
(* vm_map: vm_object_enter makes the object and tells the pager. *)
Map(c) ==
  /\ client[c].pc = "map"
  /\ LET o == client[c].o
     IN  /\ object' = [object EXCEPT ![o] =
                         [NoObject EXCEPT !.state = "alive", !.ref_count = 1,
                                          !.pager_ready = budget.early]]
         /\ queue' = Send(o, "init")
  /\ client' = [client EXCEPT ![c].pc = "mapped", ![c].d = 0]
  /\ UNCHANGED <<free_elements, zone, device_pager_list, device_pager_lock, mgr, memory, maps,
                 budget>>

(* vm_map fails: mmap releases the port, and nobody tells the pager. *)
MapFails(c) ==
  /\ client[c].pc = "map"
  /\ budget.fails > 0
  /\ budget' = [budget EXCEPT !.fails = @ - 1]
  /\ client' = [client EXCEPT ![c] = Idle]
  /\ UNCHANGED <<free_elements, zone, device_pager_list, device_pager_lock, mgr, queue, object,
                 memory, maps>>

(* vm_fault: the page is there, or the thread waits until the object is    *)
(* ready, or it enters a busy page, asks for the data and waits for it.    *)
Fault(c, p) ==
  /\ \/ client[c].pc = "mapped"
     \/ client[c].pc = "retry" /\ client[c].p = p
  /\ LET o    == client[c].o
         page == object[o].page[p]
     IN  \/ /\ page \in Frame
            /\ client' = [client EXCEPT ![c] = [@ EXCEPT !.pc = "mapped", !.p = 0]]
            /\ UNCHANGED <<object, queue>>
         \/ /\ page = Busy
            /\ client' = [client EXCEPT ![c] = [@ EXCEPT !.pc = "page", !.p = p]]
            /\ UNCHANGED <<object, queue>>
         \/ /\ page = Absent
            /\ ~object[o].pager_ready
            /\ client' = [client EXCEPT ![c] = [@ EXCEPT !.pc = "ready", !.p = p]]
            /\ UNCHANGED <<object, queue>>
         \/ /\ page = Absent
            /\ object[o].pager_ready
            /\ object' = [object EXCEPT ![o].page[p] = Busy]
            /\ queue' = Send(o, "data_request")
            /\ client' = [client EXCEPT ![c] = [@ EXCEPT !.pc = "page", !.p = p]]
  /\ UNCHANGED <<free_elements, zone, device_pager_list, device_pager_lock, mgr, memory, maps,
                 budget>>

(* The wait of a fault is interrupted; a busy page stays in the object. *)
Abort(c) ==
  /\ client[c].pc \in {"page", "ready"}
  /\ budget.aborts > 0
  /\ budget' = [budget EXCEPT !.aborts = @ - 1]
  /\ client' = [client EXCEPT ![c].pc = "mapped", ![c].p = 0]
  /\ UNCHANGED <<free_elements, zone, device_pager_list, device_pager_lock, mgr, queue, object,
                 memory, maps>>

(* The last reference is gone: nobody can look the object up any more. *)
Unreferenced(ob) ==
  [ob EXCEPT !.ref_count = @ - 1,
             !.state = IF ob.ref_count = 1 THEN "dying" ELSE @]

(* The threads that wait at pc for page p of object o run again. *)
Awaken(o, pc, P) ==
  [c \in Client |->
    IF client[c].o = o /\ client[c].pc = pc /\ client[c].p \in P
    THEN [client[c] EXCEPT !.pc = "retry"] ELSE client[c]]

Unmap(c) ==
  /\ client[c].pc = "mapped"
  /\ object' = [object EXCEPT ![client[c].o] = Unreferenced(@)]
  /\ client' = [client EXCEPT ![c] = Idle]
  /\ UNCHANGED <<free_elements, zone, device_pager_list, device_pager_lock, mgr, queue, memory,
                 maps, budget>>

(* The rest of vm_object_terminate: the pages go, modified ones to the     *)
(* pager first, and the pager is told.                                     *)
vm_object_terminate(o) ==
  /\ object[o].state = "dying"
  /\ \E written \in {<< >>, <<"data_write">>} :
       /\ written # << >> => \E p \in Page : object[o].page[p] \in Frame
       /\ queue' = [queue EXCEPT ![o] = @ \o written \o <<"terminate">>]
  /\ object' = [object EXCEPT ![o] = [NoObject EXCEPT !.state = "dead"]]
  /\ UNCHANGED <<free_elements, zone, device_pager_list, device_pager_lock, mgr, memory, client,
                 maps, budget>>

(***************************************************************************)
(* The handlers of the pager.                                              *)
(***************************************************************************)
Receive(o, m) ==
  /\ mgr.pc = "receive"
  /\ queue[o] # << >>
  /\ Head(queue[o]) = m
  /\ queue' = [queue EXCEPT ![o] = Tail(@)]

(* The first descriptor of the list that is in D, if there is one. *)
FirstOf(D) ==
  LET found == {i \in 1 .. Len(device_pager_list) : device_pager_list[i] \in D}
  IN  IF found = {} THEN {}
      ELSE {device_pager_list[CHOOSE i \in found : \A j \in found : i <= j]}

(* Variant: the newest descriptor is taken for the one of the pager. *)
DescriptorOf_newest(o) == FirstOf(Element)

(* The search of memory_object_init. *)
DescriptorOf(o) == FirstOf({d \in Element : zone[d].pager = o})

(* Variant: a failed initialisation leaves the size as it was. *)
Initialised_keepsSize(e, o) ==
  IF object[o].state = "alive"
  THEN [e EXCEPT !.pager_request = o, !.pages = o, !.pages_size = 1]
  ELSE [e EXCEPT !.pager_request = o]

(* Variant: the request port is only recorded when the object is found. *)
Initialised_looksFirst(e, o) ==
  IF object[o].state = "alive"
  THEN [e EXCEPT !.pager_request = o, !.pages = o, !.pages_size = 1]
  ELSE [e EXCEPT !.pages_size = 0]

(* What memory_object_init records; the object may be gone already. *)
Initialised(e, o) ==
  IF object[o].state = "alive"
  THEN [e EXCEPT !.pager_request = o, !.pages = o, !.pages_size = 1]
  ELSE [e EXCEPT !.pager_request = o, !.pages_size = 0]

(* vm_object_lookup takes a reference. *)
LookedUp(ob) == [ob EXCEPT !.ref_count = @ + 1]

(***************************************************************************)
(* memory_object_init: find the descriptor, or panic, and look up the      *)
(* object; the pages are filled in one by one, each under the lock of the  *)
(* object.                                                                 *)
(***************************************************************************)
memory_object_init(o) ==
  /\ Receive(o, "init")
  /\ ~device_pager_lock
  /\ IF \A d \in DescriptorOf(o) : zone[d].pager_request # PORT_NULL
     THEN /\ mgr' = [mgr EXCEPT !.pc = "panic"]
          /\ UNCHANGED <<zone, memory, object>>
     ELSE \E d \in DescriptorOf(o) :
            /\ zone' = [zone EXCEPT ![d] = Initialised(@, o)]
            /\ IF object[o].state = "alive"
               THEN /\ object' = [object EXCEPT ![o] = LookedUp(@)]
                    /\ memory' = [memory EXCEPT ![o] = "held"]
                    /\ mgr' = [pc |-> "fill", d |-> d, o |-> o, p |-> 1]
               ELSE UNCHANGED <<object, memory, mgr>>
  /\ UNCHANGED <<free_elements, device_pager_list, device_pager_lock, client, maps, budget>>

(* vm_page_free of the page found wakes the threads that wait for it. *)
Replaced(o, p) ==
  IF object[o].page[p] = Busy THEN Awaken(o, "page", {p}) ELSE client

FillPage ==
  /\ mgr.pc = "fill"
  /\ client' = Replaced(mgr.o, mgr.p)
  /\ object' = [object EXCEPT ![mgr.o].page[mgr.p] = <<zone[mgr.d].dev, mgr.p>>]
  /\ mgr' = IF mgr.p < Size THEN [mgr EXCEPT !.p = @ + 1]
                            ELSE [mgr EXCEPT !.pc = "release"]
  /\ UNCHANGED <<free_elements, zone, device_pager_list, device_pager_lock, queue, memory, maps,
                 budget>>

(* The reference is given back; it may be the last one. *)
ReleaseObject ==
  /\ mgr.pc = "release"
  /\ object' = [object EXCEPT ![mgr.o] = Unreferenced(@)]
  /\ mgr' = [mgr EXCEPT !.pc = "attributes"]
  /\ UNCHANGED <<free_elements, zone, device_pager_list, device_pager_lock, queue, memory,
                 client, maps, budget>>

(* memory_object_set_attributes: the object, if it lives, is ready.  When  *)
(* the pager dropped the last reference it terminated the object first.    *)
SetReady ==
  /\ mgr.pc = "attributes"
  /\ object[mgr.o].state # "dying"
  /\ IF object[mgr.o].state = "alive"
     THEN /\ object' = [object EXCEPT ![mgr.o].pager_ready = TRUE]
          /\ client' = Awaken(mgr.o, "ready", Page)
     ELSE UNCHANGED <<object, client>>
  /\ mgr' = Receiving
  /\ UNCHANGED <<free_elements, zone, device_pager_list, device_pager_lock, queue, memory, maps,
                 budget>>

(* memory_object_data_request and memory_object_data_write do nothing. *)
IgnoreData(o) ==
  /\ Receive(o, "data_request") \/ Receive(o, "data_write")
  /\ UNCHANGED <<free_elements, zone, device_pager_list, device_pager_lock, mgr, object, memory,
                 client, maps, budget>>

(* kmem_free of the page structures. *)
Freed(e) ==
  IF e.pages_size = 0 THEN memory
  ELSE [memory EXCEPT ![e.pages] = IF @ = "held" THEN "freed" ELSE "misfreed"]

(* The list without d, which is in it once. *)
Unlinked(q, d) ==
  LET i == CHOOSE j \in 1 .. Len(q) : q[j] = d
  IN  [j \in 1 .. Len(q) - 1 |-> IF j < i THEN q[j] ELSE q[j + 1]]

(***************************************************************************)
(* memory_object_terminate: the descriptor is searched by the request      *)
(* port.  An unknown one leaves device_pager_lock locked.                  *)
(***************************************************************************)
memory_object_terminate(o) ==
  LET found == FirstOf({d \in Element : zone[d].pager_request = o})
  IN  /\ Receive(o, "terminate")
      /\ ~device_pager_lock
      /\ IF found = {}
         THEN /\ device_pager_lock' = TRUE
              /\ UNCHANGED <<device_pager_list, free_elements, memory>>
         ELSE \E d \in found :
                /\ device_pager_list' = Unlinked(device_pager_list, d)
                /\ free_elements' = <<d>> \o free_elements
                /\ memory' = Freed(zone[d])
                /\ UNCHANGED device_pager_lock
      /\ UNCHANGED <<zone, mgr, object, client, maps, budget>>

MgrStep ==
  \/ \E o \in Obj :
       memory_object_init(o) \/ IgnoreData(o) \/ memory_object_terminate(o)
  \/ FillPage \/ ReleaseObject \/ SetReady

Next ==
  \/ \E c \in Client :
       \/ device_pager_create(c) \/ CreateFails(c)
       \/ RecordArguments(c) \/ Map(c) \/ MapFails(c) \/ Abort(c) \/ Unmap(c)
       \/ \E p \in Page : Fault(c, p)
  \/ \E o \in Obj : vm_object_terminate(o)
  \/ MgrStep

Spec == Init /\ [][Next]_vars

(* The pager receives as long as there are messages, a thread that was     *)
(* awakened runs, and a termination that was begun is finished.            *)
Fairness ==
  /\ WF_vars(MgrStep)
  /\ \A c \in Client : WF_vars(client[c].pc = "retry" /\ \E p \in Page : Fault(c, p))
  /\ \A o \in Obj : WF_vars(vm_object_terminate(o))

----------------------------------------------------------------------------
(* Whatever the element of the zone was used for before, each init message *)
(* finds the descriptor device_pager_create made for it, not yet           *)
(* initialised (the panics of memory_object_init do not happen), the page  *)
(* structures are freed once, by the termination of their own object, and  *)
(* no object that can still be used holds a page whose structure is freed. *)
PageStructuresAreSafe ==
  /\ mgr.pc # "panic"
  /\ \A o \in Obj \cup {0} : memory[o] # "misfreed"
  /\ \A o \in Obj : (\E p \in Page : object[o].page[p] \in Frame) => memory[o] = "held"

(* A page of an object is the page, at the same offset, of the device that *)
(* mmap named for it, whatever else is in the list of descriptors and      *)
(* whatever the descriptor was used for before: by the time of the first   *)
(* message its arguments are recorded.                                     *)
PageIsOfTheDevice ==
  \A o \in Obj, p \in Page : object[o].page[p] \in Frame => object[o].page[p] = <<o, p>>

(* A fault that waits for the data or for the object to be ready ends,     *)
(* although memory_object_data_request throws all requests away.           *)
FaultIsServed ==
  \A c \in Client : []<>(client[c].pc \notin {"page", "ready", "retry"})

(* Once a mapping is gone, the list is rid of the descriptors of mappings  *)
(* that are gone, and device_pager_lock is free for the next.  (An element *)
(* whose port_allocate or vm_map failed is never given back to the zone.)  *)
DescriptorIsReclaimed ==
  []<>((\E o \in Obj : object[o].state = "dead") =>
         /\ ~device_pager_lock
         /\ \A d \in InList, o \in Obj : zone[d].pager = o => object[o].state # "dead")
============================================================================
