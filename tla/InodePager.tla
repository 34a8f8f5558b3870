----------------------------- MODULE InodePager -----------------------------
(***************************************************************************)
(* Mapped files in the kernel's inode pager (kernel/builtin/inode_pager.c, *)
(* MACH_XP): the life of the memory object of an inode between the threads *)
(* that map the file, the kernel's virtual memory system and the thread of *)
(* the pager task.                                                         *)
(*                                                                         *)
(* A client thread gets the object with inode_pager_setup, maps it (or     *)
(* decides not to), and gives it back with inode_pager_release.  The       *)
(* kernel tells the pager of its first mapping (init), asks for pages,     *)
(* writes pages, and says when it is done (terminate), all by messages to  *)
(* the object's port.  The pager destroys an object on a terminate message *)
(* that finds no references to its port but the pager's own three.         *)
(*                                                                         *)
(* All of this runs on the Unix master processor, so a step goes from one  *)
(* point where a thread may block (port operations, sending a message,     *)
(* releasing an inode, moving to the master) to the next.  The kernel's    *)
(* vm_object routines and the ports are external.  Port names and request  *)
(* ports are identified with the istruct and the kernel object, and are    *)
(* not used again while a page request with them is queued.                *)
(***************************************************************************)
EXTENDS Integers, Sequences, FiniteSets

CONSTANTS Client, Inode, None,
          Is,        \* istructs, and the ports of their objects
          Ko,        \* vm_objects of the kernel, and their request ports
          Budgets    \* bounds: setups of each client, and in all faults,
                     \* aborts, writes, uncaches; `locked': clients hold the
                     \* inode lock during inode_pager_setup, which does not
                     \* take it itself; `can_cache' as they pass it

VARIABLES is,        \* the istructs, with `refs' the references of the port
          vm_info,   \* ip->i_vm_info: pager and pager_request
          client, ko,
          queue,     \* messages at the port of each object
          pager,     \* what the pager's thread is doing
          data_request_queue, receive_option,
          budget

vars == <<is, vm_info, client, ko, queue, pager, data_request_queue, receive_option, budget>>
pagervars == <<pager, data_request_queue, receive_option>>

FreeIs == [st |-> "free", ip |-> None, refs |-> 0, client_count |-> 0, dead |-> 0, free_me |-> FALSE,
           request |-> None]
FreeKo == [st |-> "free", is |-> None, maps |-> 0, persist |-> FALSE, wait |-> FALSE]
Idle == [pc |-> "idle", ip |-> None, is |-> None, ko |-> None]

Spend(f) == budget[f] > 0 /\ budget' = [budget EXCEPT ![f] = @ - 1]

(* inode_pager_lookup: the object has a port that the pager knows.         *)
Known(s) == is[s].st = "up"

(* A message to a port that is gone is lost.                               *)
Send(q, s, m, o) == IF Known(s) THEN [q EXCEPT ![s] = Append(@, [type |-> m, ko |-> o])] ELSE q

(***************************************************************************)
(* inode_pager_setup                                                       *)
(***************************************************************************)
InSetup(c, ip) == client[c].pc \in {"alloc", "ports", "return"} /\ client[c].ip = ip

(* The file has an object already, or one must be created, which blocks.   *)
(* Callers that hold the inode lock keep each other out; others may both   *)
(* find that there is no object.                                           *)
inode_pager_setup(c, ip) ==
  /\ client[c].pc = "idle" /\ budget.setups[c] > 0
  /\ budget.locked => \A d \in Client : ~InSetup(d, ip)
  /\ budget' = [budget EXCEPT !.setups[c] = @ - 1]
  /\ LET s == vm_info[ip].pager
     IN IF s = None
          THEN /\ client' = [client EXCEPT ![c] = [Idle EXCEPT !.pc = "alloc", !.ip = ip]]
               /\ UNCHANGED is
          ELSE /\ is' = [is EXCEPT ![s].refs = @ + 1]
               /\ client' = [client EXCEPT ![c] = [Idle EXCEPT !.pc = "return", !.ip = ip]]
  /\ UNCHANGED <<vm_info, ko, queue, pagervars>>

(* One element of S, any of which will do.                                 *)
Some(S) == IF S = {} THEN {} ELSE {CHOOSE x \in S : TRUE}

NameUnused(s) == \A i \in DOMAIN data_request_queue : data_request_queue[i].is # s

(* Variant: the inode names the object before its port exists. *)
inode_pager_create_names(c) ==
  /\ client[c].pc = "alloc"
  /\ \E s \in Some({t \in Is : is[t].st = "free" /\ NameUnused(t)}) :
       /\ is' = [is EXCEPT ![s] = [FreeIs EXCEPT !.st = "new", !.ip = client[c].ip]]
       /\ client' = [client EXCEPT ![c].pc = "ports", ![c].is = s]
       /\ vm_info' = [vm_info EXCEPT ![client[c].ip] = [pager |-> s, pager_request |-> None]]
  /\ UNCHANGED <<ko, queue, pagervars, budget>>

(* inode_pager_create, which resets what the inode names; the port         *)
(* operations that follow block.                                           *)
inode_pager_create(c) ==
  /\ client[c].pc = "alloc"
  /\ \E s \in Some({t \in Is : is[t].st = "free" /\ NameUnused(t)}) :
       /\ is' = [is EXCEPT ![s] = [FreeIs EXCEPT !.st = "new", !.ip = client[c].ip]]
       /\ client' = [client EXCEPT ![c].pc = "ports", ![c].is = s]
  /\ vm_info' = [vm_info EXCEPT ![client[c].ip] = [pager |-> None, pager_request |-> None]]
  /\ UNCHANGED <<ko, queue, pagervars, budget>>

(* The port has three references of the pager and one for the client.      *)
SetupPorts(c) ==
  LET s == client[c].is
  IN /\ client[c].pc = "ports"
     /\ is' = [is EXCEPT ![s].st = "up", ![s].refs = 4]
     /\ vm_info' = [vm_info EXCEPT ![client[c].ip].pager = s]
     /\ client' = [client EXCEPT ![c].pc = "return"]
     /\ UNCHANGED <<ko, queue, pagervars, budget>>

(* The result is read from the inode after unix_release: it need not be    *)
(* the object whose reference was taken when there are two creators.       *)
SetupReturns(c) ==
  LET s == vm_info[client[c].ip].pager
  IN /\ client[c].pc = "return"
     /\ client' = [client EXCEPT ![c] = IF s = None THEN Idle ELSE [Idle EXCEPT !.pc = "have", !.is = s]]
     /\ UNCHANGED <<is, vm_info, ko, queue, pagervars, budget>>

(***************************************************************************)
(* The kernel's side (external): vm_object_enter, vm_object_deallocate and *)
(* vm_object_terminate, page faults and pageouts.                          *)
(***************************************************************************)
Active(s) == {o \in Ko : ko[o].st = "active" /\ ko[o].is = s}

(* No right to an earlier request port of this name is left.               *)
PortUnused(o) ==
  /\ \A s \in Is : is[s].request # o /\ \A i \in DOMAIN queue[s] : queue[s][i].ko # o
  /\ \A i \in DOMAIN data_request_queue : data_request_queue[i].ko # o

(* The first mapping makes a vm_object with a reference to the port; the   *)
(* next ones share it, if only out of the cache.  Nothing is known of what *)
(* a client does with an object that was destroyed under it, here and in   *)
(* inode_pager_release.                                                    *)
Map(c) ==
  LET s == client[c].is
  IN /\ client[c].pc = "have" /\ client[c].ko = None /\ Known(s)
     /\ IF Active(s) # {}
          THEN \E o \in Active(s) :
                 /\ ko' = [ko EXCEPT ![o].maps = @ + 1]
                 /\ client' = [client EXCEPT ![c].ko = o]
                 /\ UNCHANGED <<is, queue>>
          ELSE \E o \in Some({x \in Ko : ko[x].st = "free" /\ PortUnused(x)}) :
                 /\ ko' = [ko EXCEPT ![o] = [FreeKo EXCEPT !.st = "active", !.is = s, !.maps = 1]]
                 /\ client' = [client EXCEPT ![c].ko = o]
                 /\ is' = [is EXCEPT ![s].refs = @ + 1]
                 /\ queue' = Send(queue, s, "init", o)
     /\ UNCHANGED <<vm_info, pagervars, budget>>

(* The vm_object is no longer to be found, and client c terminates it.     *)
Terminate(c, o) ==
  /\ ko' = [ko EXCEPT ![o].st = "dying", ![o].maps = 0, ![o].wait = FALSE]
  /\ client' = [client EXCEPT ![c] = [Idle EXCEPT !.pc = "terminate", !.is = ko[o].is, !.ko = o]]

Unmap(c) ==
  LET o == client[c].ko
  IN /\ client[c].pc = "mapped"
     /\ IF ko[o].maps = 1 /\ ~ko[o].persist
          THEN Terminate(c, o)
          ELSE /\ ko' = [ko EXCEPT ![o].maps = @ - 1, ![o].wait = @ /\ ko[o].maps > 1]
               /\ client' = [client EXCEPT ![c] = Idle]
     /\ UNCHANGED <<is, vm_info, queue, pagervars, budget>>

(* An object in the cache makes room for another one.                      *)
TrimCache(c) ==
  /\ client[c].pc = "idle"
  /\ \E o \in Ko : ko[o].st = "active" /\ ko[o].maps = 0 /\ Terminate(c, o)
  /\ UNCHANGED <<is, vm_info, queue, pagervars, budget>>

(* Sending the message may block; only then is the reference given up.     *)
SendTerminate(c) ==
  /\ client[c].pc = "terminate"
  /\ queue' = Send(queue, client[c].is, "terminate", client[c].ko)
  /\ client' = [client EXCEPT ![c].pc = "port_release"]
  /\ UNCHANGED <<is, vm_info, ko, pagervars, budget>>

PortRelease(c) ==
  /\ client[c].pc = "port_release"
  /\ is' = [is EXCEPT ![client[c].is].refs = @ - 1]
  /\ ko' = [ko EXCEPT ![client[c].ko] = FreeKo]
  /\ client' = [client EXCEPT ![c] = Idle]
  /\ UNCHANGED <<vm_info, queue, pagervars, budget>>

Fault(o) ==
  /\ ko[o].st = "active" /\ ko[o].maps > 0 /\ ~ko[o].wait
  /\ Spend("faults")
  /\ ko' = [ko EXCEPT ![o].wait = TRUE]
  /\ queue' = Send(queue, ko[o].is, "data_request", o)
  /\ UNCHANGED <<is, vm_info, client, pagervars>>

(* A thread is interrupted in a fault; its request stays where it is.      *)
Abort(o) ==
  /\ ko[o].wait
  /\ Spend("aborts")
  /\ ko' = [ko EXCEPT ![o].wait = FALSE]
  /\ UNCHANGED <<is, vm_info, client, queue, pagervars>>

(* By the pageout daemon, or by vm_object_terminate before its message.    *)
PageOut(o) ==
  /\ \/ ko[o].st = "active"
     \/ \E c \in Client : client[c].pc = "terminate" /\ client[c].ko = o
  /\ Spend("writes")
  /\ queue' = Send(queue, ko[o].is, "data_write", o)
  /\ UNCHANGED <<is, vm_info, client, ko, pagervars>>

(***************************************************************************)
(* The other routines that client threads call                             *)
(***************************************************************************)
Free(s) == [is EXCEPT ![s] = FreeIs]

(* Variant: one reference too many is put down to the pager. *)
inode_pager_no_more_senders_four(s, dead) == is[s].refs - dead <= 4

(* References that do not prevent destruction are counted in `dead'.       *)
inode_pager_no_more_senders(s, dead) == is[s].refs - dead <= 3

(* If nobody else refers to the object, a termination is forged; sending   *)
(* it may block.                                                           *)
inode_pager_release(c) ==
  LET s == client[c].is
      returned == IF client[c].ko = None THEN Idle ELSE [client[c] EXCEPT !.pc = "mapped", !.is = None]
  IN /\ client[c].pc = "have" /\ Known(s)
     /\ IF inode_pager_no_more_senders(s, is[s].dead + 1)
          THEN /\ is' = [is EXCEPT ![s].dead = @ + 1]
               /\ queue' = Send(queue, s, "terminate", None)
               /\ client' = [client EXCEPT ![c].pc = "release"]
          ELSE /\ is' = [is EXCEPT ![s].refs = @ - 1]
               /\ client' = [client EXCEPT ![c] = returned]
               /\ UNCHANGED queue
     /\ UNCHANGED <<vm_info, ko, pagervars, budget>>

(* The last dead reference frees the structure if the object is gone.      *)
ReleaseReturns(c) ==
  LET s == client[c].is
  IN /\ client[c].pc = "release"
     /\ is' = IF is[s].dead = 1 /\ is[s].free_me
                THEN Free(s)
                ELSE [is EXCEPT ![s].refs = @ - 1, ![s].dead = @ - 1]
     /\ client' = [client EXCEPT ![c] = IF @.ko = None THEN Idle ELSE [@ EXCEPT !.pc = "mapped", !.is = None]]
     /\ UNCHANGED <<vm_info, ko, queue, pagervars, budget>>

(* inode_uncache and inode_uncache_try.  pager_request outlives the object *)
(* in the inode: the kernel finds no vm_object for it, or that of another  *)
(* port in its place.                                                      *)
inode_uncache(c, ip) ==
  LET o == vm_info[ip].pager_request
  IN /\ client[c].pc = "idle"
     /\ Spend("uncaches")
     /\ IF o = None \/ ko[o].st # "active"
          THEN UNCHANGED <<ko, client>>
          ELSE IF ko[o].maps = 0
          THEN Terminate(c, o)
          ELSE /\ \/ ko' = [ko EXCEPT ![o].persist = FALSE]
                  \/ UNCHANGED ko                              \* inode_uncache_try
               /\ UNCHANGED client
     /\ UNCHANGED <<is, vm_info, queue, pagervars>>

(***************************************************************************)
(* The thread of the pager task                                            *)
(***************************************************************************)
inode_pager_in_out_ratio == 4
Receive == [pc |-> "receive", is |-> None, n |-> 0]

(* The latest kernel object to introduce itself is the one remembered.     *)
memory_object_init(s, o) ==
  /\ is' = [is EXCEPT ![s].client_count = @ + 1, ![s].request = o]
  /\ vm_info' = [vm_info EXCEPT ![is[s].ip].pager_request = o]
  /\ ko' = IF ko[o].st = "active" THEN [ko EXCEPT ![o].persist = budget.can_cache] ELSE ko
  /\ UNCHANGED <<client, pagervars, budget>>

(* Variant: the pager goes on to wait for messages without a timeout. *)
memory_object_data_request_sleepy(s, o) ==
  /\ data_request_queue' = Append(data_request_queue, [is |-> s, ko |-> o])
  /\ UNCHANGED <<is, vm_info, client, ko, pager, receive_option, budget>>

memory_object_data_request(s, o) ==
  /\ data_request_queue' = Append(data_request_queue, [is |-> s, ko |-> o])
  /\ receive_option' = "RCV_TIMEOUT"
  /\ UNCHANGED <<is, vm_info, client, ko, pager, budget>>

LockedByClient(s) == budget.locked /\ \E c \in Client : InSetup(c, is[s].ip)

memory_object_data_write(s) ==
  /\ ~LockedByClient(s)
  /\ pager' = [pc |-> "pageins", is |-> None, n |-> inode_pager_in_out_ratio]
  /\ UNCHANGED <<is, vm_info, client, ko, data_request_queue, receive_option, budget>>

memory_object_terminate(s) ==
  /\ is' = [is EXCEPT ![s].client_count = @ - 1]
  /\ pager' = [pc |-> "terminate", is |-> s, n |-> 0]
  /\ UNCHANGED <<vm_info, client, ko, data_request_queue, receive_option, budget>>

inode_pager_server ==
  /\ pager.pc = "receive"
  /\ \E s \in Is :
       /\ queue[s] # <<>>
       /\ queue' = [queue EXCEPT ![s] = Tail(@)]
       /\ LET m == Head(queue[s])
          IN CASE m.type = "init"         -> memory_object_init(s, m.ko)
               [] m.type = "data_request" -> memory_object_data_request(s, m.ko)
               [] m.type = "data_write"   -> memory_object_data_write(s)
               [] m.type = "terminate"    -> memory_object_terminate(s)

(* memory_object_terminate, now on the master processor: only clean up if  *)
(* the object has not grown other references.                              *)
TerminateOnMaster ==
  LET s == pager.is
  IN /\ pager.pc = "terminate"
     /\ IF inode_pager_no_more_senders(s, is[s].dead)
          THEN /\ vm_info' = [vm_info EXCEPT ![is[s].ip].pager = None]
               /\ pager' = [pager EXCEPT !.pc = "release"]
          ELSE pager' = Receive /\ UNCHANGED vm_info
     /\ UNCHANGED <<is, client, ko, queue, data_request_queue, receive_option, budget>>

(* Variant: the structure is freed under dying references. *)
InodeReleased_frees ==
  LET s == pager.is
  IN /\ pager.pc = "release"
     /\ is' = Free(s)
     /\ queue' = [queue EXCEPT ![s] = <<>>]
     /\ pager' = Receive
     /\ UNCHANGED <<vm_info, client, ko, data_request_queue, receive_option, budget>>

(* The inode is released: the port is destroyed with the messages in it,   *)
(* and the structure freed or left to the dying references.                *)
InodeReleased ==
  LET s == pager.is
  IN /\ pager.pc = "release"
     /\ is' = IF is[s].dead = 0
                THEN Free(s)
                ELSE [is EXCEPT ![s].st = "gone", ![s].refs = @ - 3, ![s].request = None, ![s].free_me = TRUE]
     /\ queue' = [queue EXCEPT ![s] = <<>>]
     /\ pager' = Receive
     /\ UNCHANGED <<vm_info, client, ko, data_request_queue, receive_option, budget>>

(* One pagein, when no message is waiting or in turn with pageouts.        *)
inode_pager_timeout ==
  IF data_request_queue = <<>>
    THEN receive_option' = "MSG_OPTION_NONE" /\ UNCHANGED <<data_request_queue, ko>>
    ELSE LET e == Head(data_request_queue)
         IN /\ Known(e.is) => ~LockedByClient(e.is)
            /\ data_request_queue' = Tail(data_request_queue)
            /\ ko' = IF Known(e.is) THEN [ko EXCEPT ![e.ko].wait = FALSE] ELSE ko
            /\ UNCHANGED receive_option

PageInAfterPageOut ==
  /\ pager.pc = "pageins"
  /\ inode_pager_timeout
  /\ pager' = IF pager.n = 1 THEN Receive ELSE [pager EXCEPT !.n = @ - 1]
  /\ UNCHANGED <<is, vm_info, client, queue, budget>>

ReceiveTimesOut ==
  /\ pager.pc = "receive" /\ receive_option = "RCV_TIMEOUT"
  /\ \A s \in Is : queue[s] = <<>>
  /\ inode_pager_timeout
  /\ UNCHANGED <<is, vm_info, client, queue, pager, budget>>

Pager == inode_pager_server \/ TerminateOnMaster \/ InodeReleased \/ PageInAfterPageOut \/ ReceiveTimesOut

(* Steps a client thread in the kernel takes as soon as it can run.        *)
Resume(c) ==
  \/ inode_pager_create(c) \/ SetupPorts(c) \/ SetupReturns(c)
  \/ ReleaseReturns(c) \/ SendTerminate(c) \/ PortRelease(c)

Init ==
  /\ is = [s \in Is |-> FreeIs]
  /\ vm_info = [ip \in Inode |-> [pager |-> None, pager_request |-> None]]
  /\ client = [c \in Client |-> Idle]
  /\ ko = [o \in Ko |-> FreeKo]
  /\ queue = [s \in Is |-> <<>>]
  /\ pager = Receive /\ data_request_queue = <<>> /\ receive_option = "MSG_OPTION_NONE"
  /\ budget \in Budgets

Next ==
  \/ Pager
  \/ \E c \in Client :
       \/ Resume(c) \/ inode_pager_release(c) \/ Map(c) \/ Unmap(c) \/ TrimCache(c)
       \/ \E ip \in Inode : inode_pager_setup(c, ip) \/ inode_uncache(c, ip)
  \/ \E o \in Ko : Fault(o) \/ Abort(o) \/ PageOut(o)

Spec == Init /\ [][Next]_vars

(* A thread that runs in the kernel is scheduled; it is up to the user     *)
(* when files are mapped and unmapped.                                     *)
Fairness == WF_vars(Pager) /\ \A c \in Client : WF_vars(Resume(c))

(***************************************************************************)
(* Properties                                                              *)
(***************************************************************************)
(* Nobody is left with an object that is gone: a client between setup and  *)
(* release and every vm_object of the kernel have an object the pager      *)
(* knows, and a client in inode_pager_release has an istruct that is not   *)
(* freed, whatever terminations, remappings and releases are under way.    *)
(* The callers of inode_pager_setup hold the inode lock; two that do not   *)
(* may create an object each, and one returns the other's object without a *)
(* reference to it.                                                        *)
ObjectIsKept ==
  budget.locked =>
    /\ \A c \in Client : /\ client[c].pc = "have" => Known(client[c].is)
                         /\ client[c].pc = "release" => is[client[c].is].st \in {"up", "gone"}
    /\ \A o \in Ko : ko[o].st # "free" => Known(ko[o].is)

(* When a port is destroyed, nothing is in its queue of a vm_object that   *)
(* still exists: no init, no request of a fault in progress.  Here too the *)
(* callers of inode_pager_setup hold the inode lock.                       *)
NothingIsLost ==
  budget.locked /\ pager.pc = "release" =>
    \A i \in DOMAIN queue[pager.is] :
      LET m == queue[pager.is][i] IN m.type = "terminate" \/ ko[m.ko].st = "free"

(* The object that an inode names has its port, is that of this inode, and *)
(* is not being destroyed, whether or not callers hold the inode lock: the *)
(* comment in inode_pager_setup has the association "entirely set up       *)
(* before the pager value can be grabbed from the inode structure by       *)
(* someone else while we're blocked in the port operations", and           *)
(* memory_object_terminate takes the name away before it destroys the      *)
(* object.                                                                 *)
PagerValueIsSetUp ==
  \A ip \in Inode :
    LET s == vm_info[ip].pager
    IN s # None => /\ Known(s) /\ is[s].ip = ip
                   /\ ~(pager.pc = "release" /\ pager.is = s)

(* Every page fault is served: requests are put off while there are        *)
(* messages, but the pager does not go to sleep on them.                   *)
FaultIsServed == \A o \in Ko : []<>~ko[o].wait
=============================================================================
