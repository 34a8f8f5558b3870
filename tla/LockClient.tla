----------------------------- MODULE LockClient -----------------------------
(***************************************************************************)
(* The kernel's client of the network lock manager (kernel/krpc): fcntl    *)
(* locks are forwarded by RPC to a lock manager on the same machine, whose *)
(* port is asked of the port mapper (klm_lockmgr.c, pmap_kgetport.c,       *)
(* clnt_kudp.c).  One file range is locked by several processes.           *)
(*                                                                         *)
(* A process in the kernel runs until it sleeps, so each action goes from  *)
(* one sleep to the next.  The lock manager and the port mapper are        *)
(* external.  Requests stay in order, since they do not leave the machine, *)
(* but may be lost when a socket's queue is full or closed.  On the        *)
(* loopback interface the manager is given the client's own buffer: a      *)
(* request in its queue is the client's cku_outbuf.  Of the transaction    *)
(* numbers (clntkudpxid) only matters whether a message has that of its    *)
(* process's current call ("this"), an earlier one ("old"), or belongs to  *)
(* a handle that was destroyed ("freed").                                  *)
(***************************************************************************)
EXTENDS Naturals, Sequences, FiniteSets

CONSTANTS Process, Nobody,
          Budgets     \* what may happen in a behaviour (each one a bound):
                      \*   calls     commands of each process
                      \*   ops       the commands they may be
                      \*   signals   processes that get a signal, once each
                      \*   timeouts  RPC timeouts that come too early
                      \*   losses    datagrams lost
                      \*   errors    sends that fail
                      \*   nolocks   answers of a manager out of resources
                      \*   restarts  restarts of the lock manager

VARIABLES proc,       \* what each process is doing in klm_lockctl
          lm_port,    \* lm_sa.sin_port
          timers,     \* pending timeout(wakeup, &lm_sa) entries
          sig,        \* processes with a signal pending
          mgr,        \* the lock manager
          pmap,       \* its port in the port mapper, 0 if not registered
          budget

vars == <<proc, lm_port, timers, sig, mgr, pmap, budget>>

RECVTRIES == 2

(* A process that is not in klm_lockctl; `result' is that of its last      *)
(* command, `last'.  `doubt': a lock command of it ended with ENOLCK, and  *)
(* since then it was neither granted the lock nor could cancel.            *)
Fresh == [pc |-> "idle", op |-> "none", block |-> FALSE, rtries |-> 0, port |-> 0, rcv |-> <<>>,
          last |-> "none", result |-> "none", doubt |-> FALSE]

Idle(h, result) ==
  [Fresh EXCEPT !.last = h.last, !.result = result,
                !.doubt = IF h.last \in {"LOCK", "lockw"} /\ result \in {"0", "EINTR", "ENOLCK"}
                          THEN result = "ENOLCK" ELSE h.doubt]

Spend(f) == budget[f] > 0 /\ budget' = [budget EXCEPT ![f] = @ - 1]

(***************************************************************************)
(* klm_lockctl: what becomes of process h when talk_to_lockmgr returns e.  *)
(* "create" is the next talk, "nolocks" the back-off sleep.                *)
(***************************************************************************)
Again(h, op) == [h EXCEPT !.pc = "create", !.op = op, !.rcv = <<>>]

klm_lockctl_return(h, e) ==
  CASE e = "ENOLCK" -> Idle(h, "ENOLCK")
    [] h.op = "LOCK" ->
         (CASE e = "granted" -> Idle(h, "0")
            [] e = "denied" -> IF h.block THEN Again(h, "LOCK") ELSE Idle(h, "EACCES")
            [] e = "nolocks" -> Idle(h, "ENOLCK")
            [] e = "EINTR" -> Again(h, IF h.block THEN "CANCEL" ELSE "LOCK"))
    [] h.op \in {"UNLOCK", "TEST"} ->
         (CASE e = "granted" -> Idle(h, "0")
            [] e = "denied" -> Idle(h, IF h.op = "UNLOCK" THEN "EINVAL" ELSE "0")
            [] e = "nolocks" -> [h EXCEPT !.pc = "nolocks", !.rcv = <<>>]
            [] e = "EINTR" -> Again(h, h.op))
    [] h.op = "CANCEL" ->
         (CASE e = "granted" -> Idle(h, "0")
            [] e = "denied" -> Idle(h, "EINTR")
            [] e = "nolocks" -> Idle(h, "ENOLCK")
            [] e = "EINTR" -> Again(h, "CANCEL"))

Becomes(p, h) == proc' = [proc EXCEPT ![p] = h]

(* The sleeps on &lm_sa: a timer is set and the process sleeps, unless a   *)
(* signal is pending.  `wake' is where it goes on.                         *)
SleepOn(p, h, asleep, wake) ==
  /\ Becomes(p, [h EXCEPT !.pc = IF p \in sig THEN wake ELSE asleep])
  /\ timers' = timers + 1

(* talk_to_lockmgr returns: clntkudp_destroy frees the handle's buffer,    *)
(* also when the manager has not read it.                                  *)
clntkudp_destroy(p) ==
  mgr' = [mgr EXCEPT !.inq =
            [i \in DOMAIN @ |-> IF @[i].from = p THEN [@[i] EXCEPT !.xid = "freed"] ELSE @[i]]]

TalkReturns(p, e) ==
  LET h == klm_lockctl_return(proc[p], e)
  IN  /\ clntkudp_destroy(p)
      /\ IF h.pc = "nolocks" THEN SleepOn(p, h, "nolocks", "nlwake")
                             ELSE Becomes(p, h) /\ UNCHANGED timers

(* klm_lockctl: the arguments are set up for the command.                  *)
klm_lockctl(p) ==
  /\ proc[p].pc = "idle" /\ p \notin sig /\ budget.calls[p] > 0
  /\ \E c \in budget.ops :
       /\ Becomes(p, [Idle(proc[p], "none") EXCEPT !.pc = "create", !.last = c, !.block = (c = "lockw"),
                        !.op = IF c = "lockw" THEN "LOCK" ELSE c])
  /\ budget' = [budget EXCEPT !.calls[p] = @ - 1]
  /\ UNCHANGED <<lm_port, timers, sig, mgr, pmap>>

(***************************************************************************)
(* clntkudp_callit, on a handle that makes one try.  It first waits until  *)
(* its buffer is free (CKU_BUFBUSY), and then throws away what was         *)
(* received.  The request has a new transaction number; it arrives if the  *)
(* manager has the port, and cannot be sent to port 0.                     *)
(***************************************************************************)
BufBusy(p) == \E i \in DOMAIN mgr.inq : mgr.inq[i].from = p /\ mgr.inq[i].xid = "this"

(* Any error of the call but a timeout: it could not be sent, the socket   *)
(* has an error, or the reply is not one of success.                       *)
RpcError(p, h) == SleepOn(p, h, "errsleep", "errwake") /\ UNCHANGED mgr

Sent(p, h, port) ==
  /\ Becomes(p, [h EXCEPT !.pc = "wait", !.rtries = RECVTRIES,
                   !.rcv = [i \in DOMAIN @ |-> [@[i] EXCEPT !.xid = "old"]]])
  /\ mgr' = [mgr EXCEPT !.inq = IF port # mgr.port THEN @
                  ELSE Append(@, [from |-> p, xid |-> "this", op |-> h.op, block |-> h.block])]
  /\ UNCHANGED timers

Transmit(p, h, port) ==
  \/ BufBusy(p) /\ Becomes(p, [h EXCEPT !.pc = "bufbusy", !.port = port]) /\ UNCHANGED <<mgr, timers>>
  \/ ~BufBusy(p) /\ port # 0 /\ Sent(p, h, port)
  \/ ~BufBusy(p) /\ port = 0 /\ RpcError(p, h)

Call(p, h, port) ==
  \/ Transmit(p, h, port) /\ UNCHANGED budget
  \/ ~BufBusy(p) /\ RpcError(p, h) /\ Spend("errors")

(* The manager has read the buffer's request.  The handle has the port     *)
(* that it was given at its last clntkudp_init.                            *)
BufFree(p) ==
  /\ proc[p].pc = "bufbusy" /\ ~BufBusy(p)
  /\ Call(p, [proc[p] EXCEPT !.rcv = <<>>, !.port = 0], proc[p].port)
  /\ UNCHANGED <<lm_port, sig, pmap>>

(* talk_to_lockmgr: without a handle there is no call; with a port number  *)
(* the request is sent at once.                                            *)
Talk(p) ==
  /\ proc[p].pc = "create"
  /\ \/ TalkReturns(p, "ENOLCK") /\ Spend("errors")
     \/ lm_port # 0 /\ Call(p, proc[p], lm_port)
     \/ lm_port = 0 /\ Becomes(p, [proc[p] EXCEPT !.pc = "remap"]) /\ UNCHANGED <<mgr, timers, budget>>
  /\ UNCHANGED <<lm_port, sig, pmap>>

(* Variant: the new port number is not kept.                               *)
PortFound_forgets(p) ==
  /\ pmap # 0 /\ UNCHANGED lm_port
  /\ IF p \in sig THEN TalkReturns(p, "EINTR") /\ UNCHANGED budget
                  ELSE Call(p, proc[p], lm_port)

(* The port mapper knows the manager's port: unless a signal is pending    *)
(* the request is sent there.                                              *)
PortFound(p) ==
  /\ pmap # 0 /\ lm_port' = pmap
  /\ IF p \in sig THEN TalkReturns(p, "EINTR") /\ UNCHANGED budget
                  ELSE Call(p, proc[p], pmap)

(* getport_loop and what talk_to_lockmgr does with its answer: a port, no  *)
(* port, or none at all and a signal.  When pmap_kgetport gets no client   *)
(* handle it reports success, and the old port is used.                    *)
getport_loop(p) ==
  /\ proc[p].pc = "remap"
  /\ \/ PortFound(p)
     \/ pmap = 0 /\ TalkReturns(p, "ENOLCK") /\ UNCHANGED <<lm_port, budget>>
     \/ p \in sig /\ TalkReturns(p, "EINTR") /\ Spend("losses") /\ UNCHANGED lm_port
     \/ p \notin sig /\ Spend("errors") /\ Transmit(p, proc[p], lm_port) /\ UNCHANGED lm_port
  /\ UNCHANGED <<sig, pmap>>

(* A call times out: because nothing can come, or too early, also when the *)
(* reply comes before the process runs.                                    *)
Unanswered(p) == proc[p].rcv = <<>> /\ ~BufBusy(p)

Timeout(p) ==
  /\ proc[p].pc = "wait"
  /\ IF Unanswered(p) THEN UNCHANGED budget ELSE Spend("timeouts")
  /\ Becomes(p, [proc[p] EXCEPT !.pc = "remap"])
  /\ UNCHANGED <<lm_port, timers, sig, mgr, pmap>>

(* Variant: a reply is taken whatever its transaction number.              *)
Reply_anyXid(p) ==
  /\ proc[p].pc = "wait" /\ proc[p].rcv # <<>>
  /\ LET m == Head(proc[p].rcv)
     IN  IF m.stat # "working" THEN TalkReturns(p, m.stat) /\ UNCHANGED budget
         ELSE Call(p, [proc[p] EXCEPT !.rcv = <<>>], lm_port)
  /\ UNCHANGED <<lm_port, sig, pmap>>

(* A datagram is read.  An old one uses up a try; when there is none left  *)
(* the call fails.  klm_working means to ask again.                        *)
Reply(p) ==
  /\ proc[p].pc = "wait" /\ proc[p].rcv # <<>>
  /\ LET m == Head(proc[p].rcv)
         flushed == [proc[p] EXCEPT !.rcv = <<>>]
     IN  CASE m.xid = "old" /\ proc[p].rtries > 1 ->
                Becomes(p, [proc[p] EXCEPT !.rcv = Tail(@), !.rtries = @ - 1])
                /\ UNCHANGED <<mgr, timers, budget>>
           [] m.xid = "old" /\ proc[p].rtries = 1 ->
                SleepOn(p, [proc[p] EXCEPT !.rcv = Tail(@), !.rtries = 0], "errsleep", "errwake")
                /\ UNCHANGED <<mgr, budget>>
           [] m.xid = "this" /\ m.stat # "working" ->
                TalkReturns(p, m.stat) /\ UNCHANGED budget
           [] m.xid = "this" /\ m.stat = "working" ->
                IF p \in sig THEN TalkReturns(p, "EINTR") /\ UNCHANGED budget
                             ELSE Call(p, flushed, lm_port)
  /\ UNCHANGED <<lm_port, sig, pmap>>

(* A timer goes off: wakeup(&lm_sa) wakes every process that sleeps there. *)
Wakeup ==
  /\ timers > 0 /\ timers' = timers - 1
  /\ proc' = [p \in Process |-> [proc[p] EXCEPT !.pc =
                IF @ = "errsleep" THEN "errwake" ELSE IF @ = "nolocks" THEN "nlwake" ELSE @]]
  /\ UNCHANGED <<lm_port, sig, mgr, pmap, budget>>

(* After the sleep: untimeout takes away one timer, whoever set it.        *)
Resume(p) ==
  /\ proc[p].pc \in {"errwake", "nlwake"}
  /\ timers' = IF timers > 0 THEN timers - 1 ELSE 0
  /\ IF proc[p].pc = "errwake" /\ p \in sig
     THEN Becomes(p, klm_lockctl_return(proc[p], "EINTR")) /\ clntkudp_destroy(p)
     ELSE Becomes(p, [proc[p] EXCEPT !.pc = IF @ = "errwake" THEN "remap" ELSE "create"]) /\ UNCHANGED mgr
  /\ UNCHANGED <<lm_port, sig, pmap, budget>>

(* A signal is posted to a process in klm_lockctl, and taken when it is    *)
(* back in user mode.                                                      *)
Signal(p) ==
  /\ p \in budget.signals /\ p \notin sig /\ proc[p].pc # "idle"
  /\ budget' = [budget EXCEPT !.signals = @ \ {p}]
  /\ sig' = sig \cup {p}
  /\ Becomes(p, [proc[p] EXCEPT !.pc =
        IF @ = "errsleep" THEN "errwake" ELSE IF @ = "nolocks" THEN "nlwake" ELSE @])
  /\ UNCHANGED <<lm_port, timers, mgr, pmap>>

TakeSignal(p) ==
  /\ p \in sig /\ proc[p].pc = "idle"
  /\ sig' = sig \ {p}
  /\ UNCHANGED <<proc, lm_port, timers, mgr, pmap, budget>>

(***************************************************************************)
(* The lock manager (external): one lock, the processes that wait for it,  *)
(* and a queue of requests.  A blocking request that must wait is answered *)
(* with klm_working.  The lock outlives the manager: it is kept for the    *)
(* process at the file's server.                                           *)
(***************************************************************************)
Answer(p, stat, holder, waiting, lost) ==
  LET m == Head(mgr.inq)
      open == proc[m.from].pc \in {"wait", "remap", "errsleep", "errwake", "bufbusy"}
      a == [xid |-> IF m.xid = "this" THEN "this" ELSE "old", stat |-> stat]
  IN  /\ proc' = [proc EXCEPT ![m.from].rcv = IF open /\ ~lost THEN Append(@, a) ELSE @]
      /\ mgr' = [mgr EXCEPT !.inq = Tail(@), !.holder = holder, !.waiting = waiting]

Perform(m, lost) ==
  LET p == m.from
      h == mgr.holder
      w == mgr.waiting
  IN  CASE m.op = "LOCK" ->
             IF h \in {Nobody, p} THEN Answer(p, "granted", p, w \ {p}, lost)
             ELSE IF m.block THEN Answer(p, "working", h, w \cup {p}, lost)
             ELSE Answer(p, "denied", h, w, lost)
        [] m.op = "CANCEL" ->
             IF h = p THEN Answer(p, "granted", h, w, lost) ELSE Answer(p, "denied", h, w \ {p}, lost)
        [] m.op = "UNLOCK" ->
             IF h # p THEN Answer(p, "granted", h, w, lost)
             ELSE IF w = {} THEN Answer(p, "granted", Nobody, w, lost)
             ELSE \E n \in w : Answer(p, "granted", n, w \ {n}, lost)
        [] m.op = "TEST" -> Answer(p, IF h \in {Nobody, p} THEN "granted" ELSE "denied", h, w, lost)

(* The manager answers the first request, if it has the resources.  A      *)
(* freed buffer may still hold the request, or another one that is         *)
(* pending, or nothing that makes sense.                                   *)
Serve ==
  /\ mgr.port # 0 /\ mgr.inq # <<>>
  /\ LET m == Head(mgr.inq)
     IN  \/ Perform(m, FALSE) /\ UNCHANGED budget
         \/ Perform(m, TRUE) /\ Spend("losses")
         \/ m.from \notin mgr.waiting /\ Answer(m.from, "nolocks", mgr.holder, mgr.waiting, FALSE) /\ Spend("nolocks")
         \/ /\ m.xid = "freed"
            /\ \E i \in DOMAIN mgr.inq : mgr.inq[i].xid = "this" /\ Perform(mgr.inq[i], TRUE)
            /\ UNCHANGED budget
         \/ m.xid = "freed" /\ Answer(m.from, "none", mgr.holder, mgr.waiting, TRUE) /\ UNCHANGED budget
  /\ UNCHANGED <<lm_port, timers, sig, pmap>>

(* A request is lost in front of the manager; the manager dies; when it    *)
(* is started again it first takes back the old registration.              *)
Overflow ==
  /\ mgr.inq # <<>> /\ Spend("losses")
  /\ mgr' = [mgr EXCEPT !.inq = Tail(@)]
  /\ UNCHANGED <<proc, lm_port, timers, sig, pmap>>

Die ==
  /\ mgr.port # 0 /\ Spend("restarts")
  /\ mgr' = [mgr EXCEPT !.port = 0, !.inq = <<>>, !.waiting = {}]
  /\ UNCHANGED <<proc, lm_port, timers, sig, pmap>>

Start ==
  /\ mgr.port = 0
  /\ \/ pmap # 0 /\ pmap' = 0 /\ UNCHANGED mgr
     \/ pmap = 0 /\ pmap' = 1 + budget.restarts /\ mgr' = [mgr EXCEPT !.port = pmap']
  /\ UNCHANGED <<proc, lm_port, timers, sig, budget>>

Init ==
  /\ budget \in Budgets
  /\ proc = [p \in Process |-> Fresh]
  /\ lm_port = 0 /\ timers = 0 /\ sig = {}
  /\ mgr = [port |-> 0, inq |-> <<>>, holder |-> Nobody, waiting |-> {}] /\ pmap = 0

Step(p) == klm_lockctl(p) \/ Talk(p) \/ BufFree(p) \/ getport_loop(p) \/ Reply(p) \/ Resume(p)
Next ==
  \/ \E p \in Process : Step(p) \/ Timeout(p) \/ Signal(p) \/ TakeSignal(p)
  \/ Wakeup \/ Serve \/ Overflow \/ Die \/ Start

Spec == Init /\ [][Next]_vars

(* Processes run, timers go off, and the lock manager does its work.       *)
Fairness ==
  /\ WF_vars(Wakeup) /\ WF_vars(Serve) /\ WF_vars(Start)
  /\ \A p \in Process : WF_vars(proc[p].pc # "idle" /\ Step(p)) /\ WF_vars(Unanswered(p) /\ Timeout(p))

(***************************************************************************)
(* Properties.                                                             *)
(***************************************************************************)
(* A request of p that could still get the lock.                           *)
Pending(p) ==
  p \in mgr.waiting \/ \E i \in DOMAIN mgr.inq : mgr.inq[i].from = p /\ mgr.inq[i].op = "LOCK"

Returned(p, ops, result) == proc[p].pc = "idle" /\ proc[p].last \in ops /\ proc[p].result = result

(* What klm_lockctl returns is true, whatever was lost, sent twice or      *)
(* cancelled on the way: 0 means the process has the lock, EINTR and       *)
(* EACCES that it has not and will not get it, 0 of an unlock that it has  *)
(* not.  ENOLCK says nothing: "no way the request could have gotten out"   *)
(* is not so when an earlier try timed out and the manager is no longer    *)
(* registered, or when the manager had no resources for the CANCEL.  The   *)
(* request may then be granted at any time, which EACCES and the 0 of an   *)
(* unlock cannot know of, until a lock is granted or cancelled.            *)
ResultIsTrue ==
  \A p \in Process :
    /\ Returned(p, {"LOCK", "lockw"}, "0") => mgr.holder = p
    /\ Returned(p, {"LOCK", "lockw"}, "EINTR") => mgr.holder # p /\ ~Pending(p)
    /\ Returned(p, {"LOCK"}, "EACCES") /\ ~proc[p].doubt => mgr.holder # p /\ ~Pending(p)
    /\ Returned(p, {"UNLOCK"}, "0") /\ ~proc[p].doubt => mgr.holder # p

(* A process that backs off sleeps.                                        *)
BacksOff(p) == proc[p].pc \in {"errsleep", "nolocks"}

(* A command ends, whatever was lost, unless another process has the lock, *)
(* or the process backs off and no timer is left to wake it up.  The last  *)
(* case is what BackoffEnds denies and the code has.                       *)
CommandEnds ==
  \A p \in Process :
    []<>(\/ proc[p].pc = "idle"
         \/ mgr.holder \notin {p, Nobody}
         \/ timers = 0 /\ BacksOff(p))

(* "on RPC error, wait a bit and try again", "back off; loop forever": a   *)
(* process that backs off goes on after a while.  untimeout(wakeup,        *)
(* &lm_sa) at the end of each wait cancels any entry for lm_sa, that of    *)
(* another process too, which then sleeps until it gets a signal.          *)
BackoffEnds == \A p \in Process : BacksOff(p) ~> ~BacksOff(p)
=============================================================================
