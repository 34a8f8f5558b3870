------------------------------- MODULE RpcUdp -------------------------------
(***************************************************************************)
(* Sun RPC over UDP at user level (usr/misc/nfs/lib/librpc): clients that  *)
(* send a call again until it is answered or times out (clnt_udp.c), and   *)
(* one server that takes a datagram at a time, dispatches it and remembers *)
(* its last replies in a fifo cache (svc.c, svc_udp.c).  Datagrams may be  *)
(* duplicated, reordered and lost (never delivered); the server may be     *)
(* restarted.                                                              *)
(*                                                                         *)
(* A call is known by its number `n' at its client, which no message       *)
(* carries in the code: it stands for the arguments and the results.       *)
(***************************************************************************)
EXTENDS Naturals, Sequences, FiniteSets, Functions

CONSTANTS Client,      \* the sockets (addresses) of the client handles
          Served,      \* procedures the server has registered
          XidMod,      \* 2^16: transaction numbers of a handle
          Timeouts,    \* timeouts of a call, in units of cu_wait
          CacheSize,   \* uc_size
          Budgets      \* what may happen in a behaviour (each one a bound):
                       \*   calls     calls of each client
                       \*   dups      datagrams the network duplicates
                       \*   restarts  restarts of the server
                       \*   procs     procedures the clients call
                       \*   first     the transaction number of each new handle
                       \*   short     clients that start with shorthand credentials

Xid == 0 .. XidMod - 1

(* The bounds are numbers, and no handle takes more transaction numbers    *)
(* than there are: one for each call and one for the second attempt with   *)
(* full credentials.                                                       *)
RpcAssumption ==
  /\ CacheSize \in Nat \ {0}
  /\ XidMod \in Nat \ {0}
  /\ Timeouts \subseteq Nat
  /\ Budgets \subseteq [calls : [Client -> 0 .. XidMod - 1], dups : Nat, restarts : Nat,
                        procs : {b.procs : b \in Budgets},
                        first : [Client -> Xid], short : SUBSET Client]

VARIABLES clnt,     \* the client handles
          net,      \* datagrams on their way
          srv,      \* the server's transport and the request it is working on
          cache,    \* the reply cache
          buffer,   \* contents of the server's buffers
          exec,     \* the calls that were executed
          budget    \* what is left of the budget

vars == <<clnt, net, srv, cache, buffer, exec, budget>>

Nothing == [kind |-> "nothing"]

(***************************************************************************)
(* Clients.                                                                *)
(***************************************************************************)
NextXid(x) == (x + 1) % XidMod
Request(c, h) == [kind |-> "call", addr |-> c, xid |-> h.xid, proc |-> h.proc,
                  short |-> h.short, n |-> h.n]

Return(h, status, n) ==
  [h EXCEPT !.pc = "idle", !.waited = 0, !.timeout = 0, !.status = status, !.got = n]

(* Variant: the transaction number stays the same from call to call.       *)
clntudp_call_sameXid(c) ==
  /\ clnt[c].pc = "idle" /\ clnt[c].n < budget.calls[c]
  /\ \E p \in budget.procs, t \in Timeouts :
       LET h == [clnt[c] EXCEPT !.n = @ + 1, !.proc = p, !.waited = 0, !.timeout = t,
                                !.pc = "wait", !.status = "none"]
       IN  clnt' = [clnt EXCEPT ![c] = h] /\ net' = net \cup {Request(c, h)}
  /\ UNCHANGED <<srv, cache, buffer, exec, budget>>

(* clntudp_call up to the wait: a new transaction number, then the send.   *)
(* It returns at once if the arguments cannot be encoded or sent, and when *)
(* the timeout is zero ("rpc-based message passing").                      *)
clntudp_call(c) ==
  /\ clnt[c].pc = "idle" /\ clnt[c].n < budget.calls[c]
  /\ \E p \in budget.procs, t \in Timeouts :
       LET h == [clnt[c] EXCEPT !.n = @ + 1, !.xid = NextXid(@), !.proc = p, !.waited = 0,
                                !.timeout = t, !.pc = "wait", !.status = "none"]
       IN  \/ /\ clnt' = [clnt EXCEPT ![c] = IF t = 0 THEN Return(h, "timedout", 0) ELSE h]
              /\ net' = net \cup {Request(c, h)}
           \/ /\ clnt' = [clnt EXCEPT ![c] = Return(h, "failed", 0)]
              /\ UNCHANGED net
  /\ UNCHANGED <<srv, cache, buffer, exec, budget>>

(* Variant: the time waited is not added up.                               *)
SelectTimesOut_forgets(c) ==
  /\ clnt[c].pc = "wait"
  /\ net' = net \cup {Request(c, clnt[c])}
  /\ UNCHANGED <<clnt, srv, cache, buffer, exec, budget>>

(* select returns 0: send again until the call has waited for its timeout. *)
SelectTimesOut(c) ==
  /\ clnt[c].pc = "wait"
  /\ LET h == [clnt[c] EXCEPT !.waited = @ + 1]
     IN  IF h.waited < h.timeout
         THEN clnt' = [clnt EXCEPT ![c] = h] /\ net' = net \cup {Request(c, h)}
         ELSE clnt' = [clnt EXCEPT ![c] = Return(h, "timedout", 0)] /\ UNCHANGED net
  /\ UNCHANGED <<srv, cache, buffer, exec, budget>>

(* select or recvfrom fails, or the call cannot be sent again.             *)
CantReceive(c) ==
  /\ clnt[c].pc = "wait"
  /\ clnt' = [clnt EXCEPT ![c] = Return(@, "failed", 0)]
  /\ UNCHANGED <<net, srv, cache, buffer, exec, budget>>

(* A datagram leaves the network when it is delivered, unless there was a  *)
(* duplicate of it.                                                        *)
Delivered(d, new) ==
  \/ net' = (net \ {d}) \cup new /\ UNCHANGED budget
  \/ /\ budget.dups > 0 /\ net' = net \cup new
     /\ budget' = [budget EXCEPT !.dups = @ - 1]

(* A reply with another transaction number is thrown away.  A call that    *)
(* was rejected for its shorthand credentials is made again with full      *)
(* ones and a new number, and time_waited runs on.                         *)
Receive(c) ==
  /\ clnt[c].pc = "wait"
  /\ \E d \in {x \in net : x.kind = "reply" /\ x.addr = c} :
       LET h == clnt[c]
           again == [h EXCEPT !.short = FALSE, !.xid = NextXid(@)]
       IN  IF d.xid # h.xid THEN Delivered(d, {}) /\ UNCHANGED clnt
           ELSE IF d.status = "rejected" /\ h.short
           THEN /\ Delivered(d, {Request(c, again)})
                /\ clnt' = [clnt EXCEPT ![c] = again]
           ELSE /\ Delivered(d, {})
                /\ \E s \in {d.status, "failed"} : clnt' = [clnt EXCEPT ![c] = Return(h, s, d.n)]
  /\ UNCHANGED <<srv, cache, buffer, exec>>

(***************************************************************************)
(* The fifo cache.  Node v is allocated for place v of the fifo; buffer    *)
(* CacheSize is the transport's first, buffer v is allocated with node v.  *)
(* A hash chain is the set of its nodes.                                   *)
(***************************************************************************)
SPARSENESS == 4
Nodes == 0 .. CacheSize - 1
Buffers == 0 .. CacheSize
CACHE_LOC(xid) == xid % (SPARSENESS * CacheSize)

(* The transport when it waits for a request.                              *)
Transport == [pc |-> "recv", req |-> Nothing, status |-> "none", buf |-> CacheSize]

EmptyCache == [on |-> FALSE,
               entries |-> [l \in 0 .. SPARSENESS * CacheSize - 1 |-> {}], fifo |-> {},
               node |-> [v \in Nodes |-> [xid |-> 0, proc |-> "none", addr |-> "none", buf |-> v]],
               nextvictim |-> 0, proc |-> "none", addr |-> "none"]

(* The server may enable the cache once, with no way back.                 *)
svcudp_enablecache ==
  /\ srv.pc = "recv" /\ ~cache.on
  /\ cache' = [EmptyCache EXCEPT !.on = TRUE]
  /\ UNCHANGED <<clnt, net, srv, buffer, exec, budget>>

(* Variant: the transport goes on with the buffer it gave to the cache.    *)
cache_set_keepsBuffer(buf, xid) ==
  LET v == cache.nextvictim
      loc == CACHE_LOC(cache.node[v].xid)
      chains == IF v \in cache.fifo THEN [cache.entries EXCEPT ![loc] = @ \ {v}] ELSE cache.entries
  IN  /\ cache' = [cache EXCEPT
             !.entries = [chains EXCEPT ![CACHE_LOC(xid)] = @ \cup {v}],
             !.node[v] = [xid |-> xid, proc |-> cache.proc, addr |-> cache.addr, buf |-> buf],
             !.fifo = @ \cup {v}, !.nextvictim = (v + 1) % CacheSize]
      /\ srv' = [Transport EXCEPT !.buf = srv.buf]

(* The oldest node leaves its chain and takes the transport's buffer with  *)
(* the reply in it; the transport goes on with the node's old buffer.  If  *)
(* the node cannot be found or allocated the reply is not remembered.      *)
cache_set(buf, xid) ==
  LET v == cache.nextvictim
      loc == CACHE_LOC(cache.node[v].xid)
      chains == IF v \in cache.fifo THEN [cache.entries EXCEPT ![loc] = @ \ {v}] ELSE cache.entries
  IN  \/ /\ v \in cache.fifo => v \in cache.entries[loc]
         /\ cache' = [cache EXCEPT
              !.entries = [chains EXCEPT ![CACHE_LOC(xid)] = @ \cup {v}],
              !.node[v] = [xid |-> xid, proc |-> cache.proc, addr |-> cache.addr, buf |-> buf],
              !.fifo = @ \cup {v}, !.nextvictim = (v + 1) % CacheSize]
         /\ srv' = [Transport EXCEPT !.buf = cache.node[v].buf]
      \/ /\ v \notin cache.fifo \/ v \notin cache.entries[loc]
         /\ srv' = [Transport EXCEPT !.buf = srv.buf] /\ UNCHANGED cache

(* cache_get compares an entry with what was saved for the last request    *)
(* that was not in the cache, not with the request at hand, and saves the  *)
(* request at hand when there is no such entry.                            *)
Hits(xid) ==
  {v \in cache.entries[CACHE_LOC(xid)] :
     /\ cache.node[v].xid = xid
     /\ cache.node[v].proc = cache.proc /\ cache.node[v].addr = cache.addr}

cache_get(d) ==
  IF Hits(d.xid) # {}
  THEN UNCHANGED <<srv, cache>>
  ELSE /\ srv' = [srv EXCEPT !.pc = "dispatch", !.req = d]
       /\ cache' = [cache EXCEPT !.proc = d.proc, !.addr = d.addr]

(***************************************************************************)
(* The server.                                                             *)
(***************************************************************************)
(* sendto (external) takes no address longer than a socket address.  For a *)
(* cached reply svcudp_recv passes a pointer, the address of xp_addrlen,   *)
(* as the length.                                                          *)
sendto(D, length) == IF length = "sizeof" THEN D ELSE {}

(* The datagram is read into the transport's buffer.  If its reply is in   *)
(* the cache that is sent, else the request is dispatched.                 *)
svcudp_recv ==
  /\ srv.pc = "recv"
  /\ \E d \in {x \in net : x.kind = "call"} :
       /\ buffer' = [buffer EXCEPT ![srv.buf] = d]
       /\ IF cache.on
          THEN /\ cache_get(d)
               /\ Delivered(d, sendto({[buffer[cache.node[v].buf] EXCEPT !.addr = d.addr] : v \in Hits(d.xid)},
                                      "pointer"))
          ELSE /\ srv' = [srv EXCEPT !.pc = "dispatch", !.req = d] /\ UNCHANGED cache
               /\ Delivered(d, {})
  /\ UNCHANGED <<clnt, exec>>

(* svc_getreq: shorthand credentials are always rejected, a program that   *)
(* is not registered is an error, everything else is executed.             *)
Dispatch ==
  /\ srv.pc = "dispatch"
  /\ LET d == srv.req
         run == ~d.short /\ d.proc \in Served
     IN  /\ srv' = [srv EXCEPT !.pc = "reply",
                      !.status = IF d.short THEN "rejected" ELSE IF run THEN "success" ELSE "noprog"]
         /\ exec' = IF run THEN exec \cup {<<d.addr, d.n>>} ELSE exec
  /\ UNCHANGED <<clnt, net, cache, buffer, budget>>

Reply(d, status) == [kind |-> "reply", addr |-> d.addr, xid |-> d.xid, status |-> status, n |-> d.n]

(* The reply is written over the request, sent, and given to the cache; or *)
(* it cannot be encoded or sent, and the client hears nothing.             *)
svcudp_reply ==
  /\ srv.pc = "reply"
  /\ LET r == Reply(srv.req, srv.status)
     IN  /\ buffer' = [buffer EXCEPT ![srv.buf] = r]
         /\ \/ /\ net' = net \cup sendto({r}, "sizeof")
               /\ IF cache.on THEN cache_set(srv.buf, srv.req.xid)
                              ELSE srv' = [Transport EXCEPT !.buf = srv.buf] /\ UNCHANGED cache
            \/ srv' = [Transport EXCEPT !.buf = srv.buf] /\ UNCHANGED <<net, cache>>
  /\ UNCHANGED <<clnt, exec, budget>>

(* The server process dies and is started again.                           *)
Restart ==
  /\ budget.restarts > 0
  /\ budget' = [budget EXCEPT !.restarts = @ - 1]
  /\ srv' = Transport /\ cache' = EmptyCache /\ buffer' = [b \in Buffers |-> Nothing]
  /\ UNCHANGED <<clnt, net, exec>>

Init ==
  /\ budget \in Budgets
  /\ clnt = [c \in Client |-> [pc |-> "idle", xid |-> budget.first[c], n |-> 0, proc |-> "none",
                              short |-> c \in budget.short, waited |-> 0, timeout |-> 0,
                              status |-> "none", got |-> 0]]
  /\ net = {}
  /\ srv = Transport /\ cache = EmptyCache /\ buffer = [b \in Buffers |-> Nothing]
  /\ exec = {}

Next ==
  \/ \E c \in Client : clntudp_call(c) \/ SelectTimesOut(c) \/ CantReceive(c) \/ Receive(c)
  \/ svcudp_enablecache \/ svcudp_recv \/ Dispatch \/ svcudp_reply \/ Restart

Spec == Init /\ [][Next]_vars

(* select returns, with a datagram or, after the whole wait without one,   *)
(* with 0.  A datagram that is not for the call starts the wait anew.      *)
Fairness == \A c \in Client : WF_vars(SelectTimesOut(c) \/ Receive(c))

(***************************************************************************)
(* Properties.                                                             *)
(***************************************************************************)
(* A call that succeeds returns its own results, and it was executed: late *)
(* answers to earlier calls, to copies of a call and to calls made before  *)
(* a restart are told apart by the transaction number alone.               *)
AnswerIsForThisCall ==
  \A c \in Client : clnt[c].status = "success" => clnt[c].got = clnt[c].n /\ <<c, clnt[c].n>> \in exec

(* The cache keeps what it says: every node in use is in the one chain of  *)
(* its number, and its buffer, which nobody else uses, holds the reply to  *)
(* the call with that number from that address.                            *)
CacheTellsTheTruth ==
  /\ \A l \in DOMAIN cache.entries : \A v \in cache.entries[l] :
       /\ v \in cache.fifo /\ l = CACHE_LOC(cache.node[v].xid)
       /\ LET e == cache.node[v]
              b == buffer[e.buf]
          IN  b.kind = "reply" /\ b.xid = e.xid /\ b.addr = e.addr
  /\ \A v \in cache.fifo : v \in cache.entries[CACHE_LOC(cache.node[v].xid)]
  /\ \A v, w \in Nodes : v # w => cache.node[v].buf # cache.node[w].buf
  /\ \A v \in Nodes : cache.node[v].buf # srv.buf

(* Every call returns, whatever the server does and the network loses,     *)
(* when datagrams that are not for the call stop coming.  Each of them     *)
(* starts select again with the full wait and is not counted in the time   *)
(* waited ("buggy in other cases because time_waited is not being          *)
(* updated", clntudp_call); in a behaviour the budget bounds their number. *)
CallReturns == \A c \in Client : []<>(clnt[c].pc = "idle")

(* "Buffers are sent again if retransmissions are detected": a call whose  *)
(* reply is in the cache is not dispatched.                                *)
NotDispatchedIfCached ==
  srv.pc = "dispatch" => \A v \in cache.fifo : LET e == cache.node[v] IN
     ~(e.xid = srv.req.xid /\ e.proc = srv.req.proc /\ e.addr = srv.req.addr)
=============================================================================
