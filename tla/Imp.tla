-------------------------------- MODULE Imp --------------------------------
(***************************************************************************)
(* The interface to an ARPAnet IMP (kernel/netimp/if_imp.c) and its table  *)
(* of hosts (if_imphost.c).  The IMP answers each message to a host with a *)
(* RFNM, "request for next message"; the table counts the messages to each *)
(* host that are not answered yet, and holds back what would exceed the    *)
(* limit.  Every routine runs at splimp, so each is one action; the hazard *)
(* is in the order of the answers, the clock and the resets.               *)
(*                                                                         *)
(* A message is the host it is for.  The table is a chain of mbufs; a host *)
(* has its place at the index HOSTHASH of one of them.  The hardware and   *)
(* the IMP are not part of the sources: they take the messages from        *)
(* if_snd in order and answer them late, in any order, or not at all.      *)
(***************************************************************************)
EXTENDS Integers, Sequences, FiniteSets

CONSTANTS
  Host,            \* internet addresses on the network of the IMP
  None,            \* h_addr of a place never used: the address 0
  HPMBUF,          \* places for hosts in an mbuf
  MaxRfnm,         \* 8: messages in flight to a host
  MaxHeld,         \* 8: high water mark of the holding queue
  MaxSnd,          \* ifq_maxlen of if_snd
  HOSTTIMER,
  HOSTDEADTIMER,
  Budgets          \* bounds: [hash, inits, msgs, dead, bad, resets, downs]

Index == 1 .. HPMBUF

(* Places, counters and timers exist; HOSTHASH is an index.                *)
ASSUME ImpAssumption ==
  /\ None \notin Host
  /\ HPMBUF \in Nat \ {0} /\ MaxRfnm \in Nat \ {0} /\ MaxHeld \in Nat /\ MaxSnd \in Nat
  /\ HOSTTIMER \in Nat \ {0} /\ HOSTDEADTIMER \in Nat \ {0}
  /\ Budgets \subseteq [hash : [Host -> Index], inits : Nat, msgs : Nat, dead : Nat, bad : Nat,
                        resets : Nat, downs : Nat]

VARIABLES
  imp_state,       \* state of the IMP
  imp_dropcnt,     \* NOOPs of the IMP still to be ignored
  downs,           \* pending timeouts that call impdown
  hosts,           \* the chain of mbufs
  if_snd,          \* output queue of the interface
  ifq_drops,       \* TRUE: it was full and dropped a message
  flight,          \* messages to each host the IMP has not answered
  forgotten,       \* the hosts whose count was cleared (history)
  overtaken,       \* the hosts a message of which was overtaken (history)
  leaked,          \* the hosts of packets in freed mbufs (history)
  budget

vars == <<imp_state, imp_dropcnt, downs, hosts, if_snd, ifq_drops, flight,
          forgotten, overtaken, leaked, budget>>

IMP_DROPCNT == 2

NOOP == None

(* m_getclr: a struct hmbuf of zeroes. *)
NewHost == [h_addr |-> None, h_q |-> << >>, h_qcnt |-> 0, h_timer |-> 0,
            h_rfnm |-> 0, inuse |-> FALSE, dead |-> FALSE]

NewMbuf == [hm_count |-> 0, hm_hosts |-> [i \in Index |-> NewHost]]

(* n NOOPs at the head of an output queue. *)
WithNoops(q, n) == [i \in 1 .. n |-> NOOP] \o q

(* Three NOOPs at the head of the output queue, whatever its length, or    *)
(* fewer if there are no more mbufs.                                       *)
impnoops(q) == {WithNoops(q, n) : n \in 0 .. IMP_DROPCNT + 1}

(* After the first impinit, when the interface gets its address. *)
Init ==
  /\ imp_state = "init"
  /\ imp_dropcnt = IMP_DROPCNT
  /\ downs = 0
  /\ hosts = << >>
  /\ if_snd \in impnoops(<< >>)
  /\ ifq_drops = FALSE
  /\ flight = [h \in Host |-> 0]
  /\ forgotten = {}
  /\ overtaken = {}
  /\ leaked = {}
  /\ budget \in Budgets

HOSTHASH(h) == budget.hash[h]

(***************************************************************************)
(* The table of hosts: operators on a chain T.                             *)
(***************************************************************************)
Smallest(S) == CHOOSE i \in S : \A j \in S : i <= j

(* The mbufs of T whose place for h is taken by h, whether in use or not.  *)
MbufsOf(T, h) == {m \in 1 .. Len(T) : T[m].hm_hosts[HOSTHASH(h)].h_addr = h}

Known(T, h) == MbufsOf(T, h) # {}

HostIn(T, h) == T[Smallest(MbufsOf(T, h))].hm_hosts[HOSTHASH(h)]

(* T with the place of h changed to hp. *)
With(T, h, hp) == [T EXCEPT ![Smallest(MbufsOf(T, h))].hm_hosts[HOSTHASH(h)] = hp]

hostlookup(T, h) ==
  IF Known(T, h) THEN With(T, h, [HostIn(T, h) EXCEPT !.inuse = TRUE]) ELSE T

(* An address that is not in the table takes the first place of its index  *)
(* that is not in use, or one in a new mbuf.  Queue, queue count and RFNM  *)
(* count of the place are left as they are.                                *)
hostenter(T, h) ==
  LET i    == HOSTHASH(h)
      free == {m \in 1 .. Len(T) : ~T[m].hm_hosts[i].inuse}
      U    == IF free = {} THEN Append(T, NewMbuf) ELSE T
      m    == IF free = {} THEN Len(U) ELSE Smallest(free)
  IN  [U EXCEPT ![m].hm_count = @ + 1,
                ![m].hm_hosts[i] = [@ EXCEPT !.h_addr = h, !.h_timer = 0,
                                             !.dead = FALSE, !.inuse = TRUE]]

(* hostenter cannot do without a new mbuf.                                 *)
NeedsMbuf(T, h) ==
  ~Known(T, h) /\ \A m \in 1 .. Len(T) : T[m].hm_hosts[HOSTHASH(h)].inuse

hostfree(hp) == [hp EXCEPT !.inuse = FALSE, !.h_timer = HOSTTIMER, !.h_rfnm = 0]

(* What hostrelease leaves of a place; the packets of its queue are freed. *)
Released(hp) == [hp EXCEPT !.h_q = << >>, !.inuse = FALSE, !.dead = FALSE, !.h_rfnm = 0]

(* The loops that call hostrelease stop when hm_count is zero: of the      *)
(* places S of mbuf M the first hm_count are released.                     *)
FirstOf(M, S) == {i \in S : Cardinality({j \in S : j < i}) < M.hm_count}

ReleaseAll(M, S) ==
  [hm_count |-> M.hm_count - Cardinality(FirstOf(M, S)),
   hm_hosts |-> [i \in Index |-> IF i \in FirstOf(M, S) THEN Released(M.hm_hosts[i])
                                                        ELSE M.hm_hosts[i]]]

Messages(q) == {q[i] : i \in 1 .. Len(q)}

HeldBy(M) == UNION {Messages(M.hm_hosts[i].h_q) : i \in Index}

HeldIn(T) == UNION {HeldBy(T[m]) : m \in 1 .. Len(T)}

(* The k-th of the numbers S in their order. *)
NthOf(S, k) == CHOOSE m \in S : Cardinality({n \in S : n <= m}) = k

(* hostrelease gives an mbuf back when its count reaches zero; the others  *)
(* stay linked in their order.                                             *)
Linked(T) ==
  LET S == {m \in 1 .. Len(T) : T[m].hm_count # 0}
  IN  [k \in 1 .. Cardinality(S) |-> T[NthOf(S, k)]]

HeldInUnlinked(T) == UNION {HeldBy(T[m]) : m \in {n \in 1 .. Len(T) : T[n].hm_count = 0}}

(* The routines read the network number at the wrong place: they take the  *)
(* field if_addrlist of the interface for the in_ifaddr it points to, and  *)
(* ia_net is then the field if_watchdog, which is zero for an IMP.         *)
IaNet == None

in_netof(a) == IF a = None THEN None ELSE "net"

hostreset(T, net) ==
  [m \in 1 .. Len(T) |->
    ReleaseAll(T[m], {i \in Index : in_netof(T[m].hm_hosts[i].h_addr) = net})]

(* A place after a tick of the clock. *)
Ticked(hp) == [hp EXCEPT !.h_timer = IF @ > 0 THEN @ - 1 ELSE 0]

TickedAll(M) == [M EXCEPT !.hm_hosts = [i \in Index |-> Ticked(M.hm_hosts[i])]]

(* Variant: a place in use is not released. *)
hostslowtimo_idleOnly(T) ==
  [m \in 1 .. Len(T) |->
    ReleaseAll(TickedAll(T[m]),
               {i \in Index : T[m].hm_hosts[i].h_timer = 1 /\ ~T[m].hm_hosts[i].inuse})]

hostslowtimo(T) ==
  [m \in 1 .. Len(T) |->
    ReleaseAll(TickedAll(T[m]), {i \in Index : T[m].hm_hosts[i].h_timer = 1})]

(* h_rfnm of a host; zero if the table does not know it. *)
Rfnms(T, h) == IF Known(T, h) THEN HostIn(T, h).h_rfnm ELSE 0

(* The table becomes what is linked of T.  A count that drops on the way   *)
(* is forgotten, and a queue in an mbuf that goes is leaked.               *)
BecomesTable(T) ==
  /\ hosts' = Linked(T)
  /\ forgotten' = forgotten \cup {h \in Host : Rfnms(hosts', h) < Rfnms(hosts, h)}
  /\ leaked' = leaked \cup HeldInUnlinked(T)

(***************************************************************************)
(* impsnd: count the message, hold it back, or drop it.                    *)
(***************************************************************************)
QFULL(q) == Len(q) >= MaxSnd

(* Variant: a message the full output queue drops stays counted. *)
Enque_counts(T, q, h, hp) ==
  [hosts |-> With(T, h, [hp EXCEPT !.h_timer = HOSTTIMER, !.h_rfnm = @ + 1]),
   snd   |-> IF QFULL(q) THEN q ELSE Append(q, h), drops |-> QFULL(q)]

(* The label enque of impsnd, for a message that is counted. *)
Enque(T, q, h, hp) ==
  [hosts |-> With(T, h, [hp EXCEPT !.h_timer = HOSTTIMER,
                                      !.h_rfnm = IF QFULL(q) THEN @ ELSE @ + 1]),
   snd   |-> IF QFULL(q) THEN q ELSE Append(q, h), drops |-> QFULL(q)]

impsnd(T, q, h) ==
  LET T1 == IF Known(T, h) THEN hostlookup(T, h) ELSE hostenter(T, h)
      hp == HostIn(T1, h)
  IN  IF hp.dead
      THEN [hosts |-> With(T1, h, [hp EXCEPT !.inuse = FALSE]), snd |-> q,
            drops |-> FALSE]
      ELSE IF hp.h_rfnm < MaxRfnm
      THEN Enque(T1, q, h, hp)
      ELSE IF hp.h_qcnt < MaxHeld
      THEN [hosts |-> With(T1, h, [hp EXCEPT !.h_q = Append(@, h), !.h_qcnt = @ + 1]),
            snd |-> q, drops |-> FALSE]
      ELSE [hosts |-> T1, snd |-> q, drops |-> FALSE]

(***************************************************************************)
(* The routines of the interface.                                          *)
(***************************************************************************)
Spend(f) == budget[f] > 0 /\ budget' = [budget EXCEPT ![f] = @ - 1]

(* impinit once more, after a reset of the bus.  The hardware may fail; the *)
(* table of hosts stays as it is.                                          *)
impinit ==
  /\ Spend("inits")
  /\ \/ /\ imp_state' = "down"
        /\ UNCHANGED <<imp_dropcnt, if_snd>>
     \/ /\ imp_state' = "init"
        /\ imp_dropcnt' = IMP_DROPCNT
        /\ if_snd' \in impnoops(if_snd)
  /\ UNCHANGED <<ifq_drops, downs, hosts, flight, forgotten, overtaken, leaked>>

(* The message is given to impsnd, or there is no mbuf for its host.  A    *)
(* message that enters if_snd while one to the same host is held, in the   *)
(* place of the host or in another, overtakes it.                          *)
impoutput(h) ==
  LET r == impsnd(hosts, if_snd, h)
  IN  /\ imp_state = "up"
      /\ Spend("msgs")
      /\ \/ /\ BecomesTable(r.hosts)
            /\ if_snd' = r.snd
            /\ ifq_drops' = (ifq_drops \/ r.drops)
            /\ overtaken' = IF r.snd # if_snd /\ h \in HeldIn(hosts)
                            THEN overtaken \cup {h} ELSE overtaken
         \/ /\ NeedsMbuf(hosts, h)
            /\ UNCHANGED <<hosts, forgotten, leaked, if_snd, ifq_drops, overtaken>>
      /\ UNCHANGED <<imp_state, imp_dropcnt, downs, flight>>

(* Variant: the RFNM is counted a second time when a packet is dequeued. *)
hostdeque_twice(hp) ==
  IF hp.h_q # << >>
  THEN [hp EXCEPT !.h_rfnm = IF @ > 1 THEN @ - 2 ELSE 0, !.h_q = Tail(@),
                  !.h_qcnt = @ - 1]
  ELSE IF hp.h_rfnm = 1 THEN hostfree(hp)
  ELSE [hp EXCEPT !.h_rfnm = @ - 1]

(* The host after a RFNM: its head, if it has one, is to be sent. *)
hostdeque(hp) ==
  IF hp.h_q # << >>
  THEN [hp EXCEPT !.h_rfnm = @ - 1, !.h_q = Tail(@), !.h_qcnt = @ - 1]
  ELSE IF hp.h_rfnm = 1 THEN hostfree(hp)
  ELSE [hp EXCEPT !.h_rfnm = @ - 1]

(***************************************************************************)
(* impinput, one action for each type of message from the IMP.             *)
(***************************************************************************)
(* A RFNM or an INCOMPLETE: the next message of the host is sent, or freed *)
(* if it is for a host that is not known and there is no mbuf.             *)
Rfnm(h) ==
  /\ flight[h] > 0
  /\ flight' = [flight EXCEPT ![h] = @ - 1]
  /\ LET T  == hostlookup(hosts, h)
         hp == [HostIn(T, h) EXCEPT !.h_timer = HOSTTIMER]
         U  == With(T, h, hostdeque(hp))
         r  == impsnd(U, if_snd, Head(hp.h_q))
     IN  IF ~Known(hosts, h)
         THEN UNCHANGED <<hosts, if_snd, ifq_drops>>
         ELSE IF hp.h_rfnm = 0
         THEN /\ hosts' = With(T, h, [hp EXCEPT !.inuse = FALSE])
              /\ UNCHANGED <<if_snd, ifq_drops>>
         ELSE IF hp.h_q = << >>
         THEN hosts' = U /\ UNCHANGED <<if_snd, ifq_drops>>
         ELSE \/ hosts' = r.hosts /\ if_snd' = r.snd /\ ifq_drops' = (ifq_drops \/ r.drops)
              \/ NeedsMbuf(U, Head(hp.h_q)) /\ hosts' = U /\ UNCHANGED <<if_snd, ifq_drops>>
  /\ UNCHANGED <<imp_state, imp_dropcnt, downs, forgotten, overtaken, leaked, budget>>

(* HOSTDEAD or HOSTUNREACH in answer to a message.  The held packets stay. *)
HostDead(h) ==
  /\ flight[h] > 0
  /\ Spend("dead")
  /\ flight' = [flight EXCEPT ![h] = @ - 1]
  /\ IF Known(hosts, h)
     THEN BecomesTable(With(hosts, h,
            [hostfree(HostIn(hosts, h)) EXCEPT !.dead = TRUE, !.h_timer = HOSTDEADTIMER]))
     ELSE UNCHANGED <<hosts, forgotten, leaked>>
  /\ UNCHANGED <<ifq_drops, imp_state, imp_dropcnt, downs, if_snd, overtaken>>

(* Error in data: the count of the host is cleared. *)
BadData(h) ==
  /\ flight[h] > 0
  /\ Spend("bad")
  /\ flight' = [flight EXCEPT ![h] = @ - 1]
  /\ IF Known(hosts, h)
     THEN BecomesTable(With(hosts, h,
            [HostIn(hosts, h) EXCEPT !.inuse = TRUE, !.h_rfnm = 0]))
     ELSE UNCHANGED <<hosts, forgotten, leaked>>
  /\ imp_dropcnt' = IMP_DROPCNT
  /\ if_snd' \in impnoops(if_snd)
  /\ UNCHANGED <<ifq_drops, imp_state, downs, overtaken>>

(* Interface reset, or a leader error outside the initialisation. *)
Reset ==
  /\ Spend("resets")
  /\ BecomesTable(hostreset(hosts, IaNet))
  /\ imp_dropcnt' = IMP_DROPCNT
  /\ if_snd' \in impnoops(if_snd)
  /\ UNCHANGED <<ifq_drops, imp_state, downs, flight, overtaken>>

(* The IMP is going down in 30 seconds. *)
GoingDown ==
  /\ imp_state \in {"init", "up"}
  /\ Spend("downs")
  /\ imp_state' = "goingdown"
  /\ downs' = downs + 1
  /\ UNCHANGED <<ifq_drops, imp_dropcnt, hosts, if_snd, flight, forgotten, overtaken,
                 leaked>>

(* A NOOP of the IMP; the first ones of an initialisation are ignored. *)
Noop ==
  /\ imp_state # "up"
  /\ LET count == IF imp_state = "down" THEN IMP_DROPCNT - 1
                  ELSE IF imp_state = "init" THEN imp_dropcnt - 1 ELSE imp_dropcnt
         waits == imp_state # "goingdown" /\ count > 0
     IN  /\ imp_dropcnt' = count
         /\ imp_state' = IF waits THEN "init" ELSE "up"
  /\ UNCHANGED <<ifq_drops, downs, hosts, if_snd, flight, forgotten, overtaken, leaked,
                 budget>>

(* The timeout that GoingDown set; nobody cancels it. *)
impdown ==
  /\ downs > 0
  /\ downs' = downs - 1
  /\ imp_state' = "down"
  /\ BecomesTable(hostreset(hosts, IaNet))
  /\ UNCHANGED <<ifq_drops, imp_dropcnt, if_snd, flight, overtaken, budget>>

SlowTimeout ==
  /\ BecomesTable(hostslowtimo(hosts))
  /\ UNCHANGED <<ifq_drops, imp_state, imp_dropcnt, downs, if_snd, flight, overtaken,
                 budget>>

(***************************************************************************)
(* The hardware hands the next message to the IMP; the IMP may lose it.    *)
(***************************************************************************)
Transmit ==
  /\ if_snd # << >>
  /\ if_snd' = Tail(if_snd)
  /\ flight' = IF Head(if_snd) = NOOP THEN flight
               ELSE [flight EXCEPT ![Head(if_snd)] = @ + 1]
  /\ UNCHANGED <<ifq_drops, imp_state, imp_dropcnt, downs, hosts, forgotten, overtaken,
                 leaked, budget>>

Next ==
  \/ impinit \/ Reset \/ GoingDown \/ Noop \/ impdown \/ SlowTimeout \/ Transmit
  \/ \E h \in Host : impoutput(h) \/ Rfnm(h) \/ HostDead(h) \/ BadData(h)

Spec == Init /\ [][Next]_vars

(* The clock calls hostslowtimo twice a second.  (What it does to the      *)
(* hosts is enough to recognise the step.)                                 *)
Fairness == WF_hosts(hosts' = Linked(hostslowtimo(hosts)))

----------------------------------------------------------------------------
InFlight(h) ==
  flight[h] + Cardinality({i \in 1 .. Len(if_snd) : if_snd[i] = h})

(* The RFNM counting of impsnd is exact: h_rfnm is the number of messages  *)
(* to the host that are in the output queue or unanswered at the IMP, so   *)
(* no more than 8 are in flight, until an error, a reset or the clock      *)
(* clears the count.                                                       *)
CountIsExact ==
  \A h \in Host \ forgotten : InFlight(h) = Rfnms(hosts, h)

(* A message does not overtake an older one to the same host that impsnd   *)
(* holds back, as long as the output queue drops none and no count is      *)
(* cleared (a host that takes the place of a dead one gets its packets).   *)
HeldInOrder ==
  overtaken # {} => ifq_drops \/ forgotten # {}

(* A message does not stay in a holding queue for ever: the host answers,  *)
(* or the timer of its place expires, whatever address has taken the place *)
(* in between.  It is then sent, freed by impsnd or hostrelease, or lost   *)
(* with its mbuf (ResourcesAreReleased).                                   *)
HeldMessageLeaves ==
  \A h \in Host : []<>(h \notin HeldIn(hosts))

(* "Remove a host structure and release any resources it's accumulated":   *)
(* no packet is in the holding queue of a host when the mbuf of the host   *)
(* goes.  It does not hold: hm_count, "# of struct's in use", is too small *)
(* when a host that was released is found by its address and put in use    *)
(* again, and when hostreset releases places of the mbuf that nobody used. *)
ResourcesAreReleased ==
  leaked = {}
============================================================================
