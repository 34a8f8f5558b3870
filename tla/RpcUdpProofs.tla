---------------------------- MODULE RpcUdpProofs ----------------------------
(***************************************************************************)
(* Sun RPC over UDP, for any clients, any size of the reply cache and any  *)
(* number of transaction numbers: the reply cache keeps what it says, and  *)
(* an answer that is accepted is the answer to the call.                   *)
(***************************************************************************)
EXTENDS RpcUdp, TLAPS

Called == UNION {b.procs : b \in Budgets}
Proc == Called \cup {"none"}
Addr == Client \cup {"none"}

Budget == [calls : [Client -> 0 .. XidMod - 1], dups : Nat, restarts : Nat,
           procs : {b.procs : b \in Budgets}, first : [Client -> Xid], short : SUBSET Client]

Handle == [pc : {"idle", "wait"}, xid : Xid, n : Nat, proc : Proc, short : BOOLEAN,
           waited : Nat, timeout : Nat,
           status : {"none", "failed", "timedout", "rejected", "success", "noprog"}, got : Nat]

CallMessage == [kind : {"call"}, addr : Client, xid : Xid, proc : Proc, short : BOOLEAN, n : Nat]

Answer == [kind : {"reply"}, addr : Client, xid : Xid, status : {"rejected", "success", "noprog"},
           n : Nat]

Locations == 0 .. SPARSENESS * CacheSize - 1

Node == [xid : Nat, proc : Proc, addr : Addr, buf : Buffers]

TInv ==
  /\ budget \in Budget
  /\ clnt \in [Client -> Handle]
  /\ net \subseteq CallMessage \cup Answer
  /\ srv \in [pc : {"recv", "dispatch", "reply"}, req : CallMessage \cup {Nothing},
              status : {"none", "rejected", "success", "noprog"}, buf : Buffers]
  /\ srv.pc # "recv" => srv.req \in CallMessage
  /\ srv.pc = "reply" => srv.status # "none"
  /\ cache \in [on : BOOLEAN, entries : [Locations -> SUBSET Nodes], fifo : SUBSET Nodes,
                node : [Nodes -> Node], nextvictim : Nodes, proc : Proc, addr : Addr]
  /\ buffer \in [Buffers -> CallMessage \cup Answer \cup {Nothing}]

(* While a request is worked on the cache remembers whose it is.           *)
SavedIsCurrent ==
  cache.on /\ srv.pc # "recv" => cache.addr = srv.req.addr /\ cache.proc = srv.req.proc

(* Before there is a cache the transport has the buffer it began with.     *)
FirstBuffer == ~cache.on => srv.buf = CacheSize

CacheInv == CacheTellsTheTruth /\ SavedIsCurrent /\ FirstBuffer
-----------------------------------------------------------------------------
(* The transaction numbers of c in the order of their use: i-th after the  *)
(* first one.                                                              *)
Numbered(c, xid, i) == xid = budget.first[c] + i \/ xid = budget.first[c] + i - XidMod

(* One number more is used once c makes its calls with full credentials.   *)
Extra(c, short) == IF c \in budget.short /\ ~short THEN 1 ELSE 0

(* Handle h of c has made at most its calls, and uses their numbers.       *)
HandleOK(c, h) ==
  /\ h.n <= budget.calls[c]
  /\ h.pc = "wait" => h.n >= 1
  /\ h.short => c \in budget.short
  /\ Numbered(c, h.xid, h.n + Extra(c, h.short))

(* A message about call n of c with number xid: c has made that call.      *)
Made(c, xid, n, short) ==
  /\ n >= 1 /\ n <= clnt[c].n
  /\ Extra(c, short) <= Extra(c, clnt[c].short)
  /\ Numbered(c, xid, n + Extra(c, short))

MadeBySender(d) ==
  Made(d.addr, d.xid, d.n, IF d.kind = "call" THEN d.short ELSE d.status = "rejected")

MessagesNumbered ==
  /\ \A d \in net : MadeBySender(d)
  /\ srv.pc # "recv" => MadeBySender(srv.req)
  /\ srv.pc = "reply" => (srv.status = "rejected" <=> srv.req.short)

(* A success is announced only for a call that was executed.               *)
SuccessIsExecuted ==
  /\ \A d \in net : d.kind = "reply" /\ d.status = "success" => <<d.addr, d.n>> \in exec
  /\ srv.pc = "reply" /\ srv.status = "success" => <<srv.req.addr, srv.req.n>> \in exec

NumInv ==
  /\ \A c \in Client : HandleOK(c, clnt[c])
  /\ MessagesNumbered /\ SuccessIsExecuted /\ AnswerIsForThisCall
-----------------------------------------------------------------------------
(* clntudp_call counts transaction numbers modulo 2^16.                    *)
LEMMA NextXidIs ==
  ASSUME RpcAssumption, NEW x \in Xid
  PROVE  NextXid(x) \in Xid /\ NextXid(x) = IF x + 1 = XidMod THEN 0 ELSE x + 1
  BY DEF RpcAssumption, Xid, NextXid

(* CACHE_LOC names a chain of the cache.                                   *)
LEMMA LocationIs == ASSUME RpcAssumption, NEW x \in Nat PROVE CACHE_LOC(x) \in Locations
  BY DEF RpcAssumption, CACHE_LOC, Locations, SPARSENESS

(* What clntudp_call sends and what it leaves in its handle.               *)
LEMMA ClientTypes ==
  ASSUME NEW c \in Client, NEW h \in Handle
  PROVE  /\ Request(c, h) \in CallMessage
         /\ \A s \in {"failed", "timedout", "rejected", "success", "noprog"}, n \in Nat :
               Return(h, s, n) \in Handle
<1>1. Request(c, h) \in CallMessage
  BY DEF Request, CallMessage, Handle
<1>2. ASSUME NEW s \in {"failed", "timedout", "rejected", "success", "noprog"}, NEW n \in Nat
      PROVE  Return(h, s, n) \in Handle
  BY Zenon DEF Return, Handle
<1> QED
  BY <1>1, <1>2

(* A datagram taken off the network, duplicated or not, leaves datagrams.  *)
LEMMA DeliveredTypes ==
  ASSUME TInv, NEW d \in net, NEW new \in SUBSET (CallMessage \cup Answer), Delivered(d, new)
  PROVE  net' \subseteq CallMessage \cup Answer /\ budget' \in Budget
<1>1. CASE net' = (net \ {d}) \cup new /\ UNCHANGED budget
  BY <1>1 DEF TInv
<1>2. CASE budget.dups > 0 /\ net' = net \cup new /\ budget' = [budget EXCEPT !.dups = @ - 1]
  BY <1>2 DEF TInv, Budget
<1> QED
  BY <1>1, <1>2 DEF Delivered

(* A client changes its own handle.                                        *)
LEMMA HandlePut ==
  ASSUME clnt \in [Client -> Handle], NEW c \in Client, NEW h \in Handle,
         clnt' = [clnt EXCEPT ![c] = h]
  PROVE  clnt' \in [Client -> Handle]
  OBVIOUS

(* No procedure and no address is one of the values in a new handle.       *)
LEMMA NoneTyped == "none" \in Proc /\ "none" \in Addr
  BY DEF Proc, Addr

(* The state the server starts in.                                         *)
LEMMA TransportTypes ==
  ASSUME RpcAssumption
  PROVE  /\ \A b \in Buffers : [Transport EXCEPT !.buf = b] \in
              [pc : {"recv", "dispatch", "reply"}, req : CallMessage \cup {Nothing},
               status : {"none", "rejected", "success", "noprog"}, buf : Buffers]
         /\ Transport \in
              [pc : {"recv", "dispatch", "reply"}, req : CallMessage \cup {Nothing},
               status : {"none", "rejected", "success", "noprog"}, buf : Buffers]
         /\ EmptyCache \in
              [on : BOOLEAN, entries : [Locations -> SUBSET Nodes], fifo : SUBSET Nodes,
               node : [Nodes -> Node], nextvictim : Nodes, proc : Proc, addr : Addr]
<1>1. CacheSize \in Buffers /\ 0 \in Nodes /\ Nodes \subseteq Buffers /\ 0 \in Nat
  BY DEF RpcAssumption, Buffers, Nodes
<1>2. \A v \in Nodes : [xid |-> 0, proc |-> "none", addr |-> "none", buf |-> v] \in Node
  BY <1>1, NoneTyped DEF Node
<1>3. [l \in Locations |-> {}] \in [Locations -> SUBSET Nodes]
  OBVIOUS
<1>4. EmptyCache \in
              [on : BOOLEAN, entries : [Locations -> SUBSET Nodes], fifo : SUBSET Nodes,
               node : [Nodes -> Node], nextvictim : Nodes, proc : Proc, addr : Addr]
  <2>1. [v \in Nodes |-> [xid |-> 0, proc |-> "none", addr |-> "none", buf |-> v]] \in [Nodes -> Node]
    BY <1>2
  <2>2. {} \in SUBSET Nodes
    OBVIOUS
  <2> QED
    BY <1>1, <1>3, <2>1, <2>2, NoneTyped DEF EmptyCache, Locations
<1> QED
  BY <1>1, <1>4 DEF Transport

(* The state of the client handles, of the network and of the server has   *)
(* its type in every step.                                                 *)
LEMMA TypeInit == RpcAssumption /\ Init => TInv
<1> SUFFICES ASSUME RpcAssumption, Init PROVE TInv
  OBVIOUS
<1>1. budget \in Budget
  BY DEF RpcAssumption, Budget, Init
<1>2. clnt \in [Client -> Handle]
  <2>1. ASSUME NEW c \in Client
        PROVE  [pc |-> "idle", xid |-> budget.first[c], n |-> 0, proc |-> "none",
                short |-> c \in budget.short, waited |-> 0, timeout |-> 0,
                status |-> "none", got |-> 0] \in Handle
    <3>1. budget.first[c] \in Xid /\ (c \in budget.short) \in BOOLEAN
      BY <1>1 DEF Budget
    <3> QED
      BY <3>1, NoneTyped DEF Handle
  <2> QED
    BY <2>1 DEF Init
<1> QED
  BY <1>1, <1>2, TransportTypes DEF Init, TInv, Transport

LEMMA TypeStep == RpcAssumption /\ TInv /\ [Next]_vars => TInv'
<1> SUFFICES ASSUME RpcAssumption, TInv, [Next]_vars PROVE TInv'
  OBVIOUS
<1>1. ASSUME NEW c \in Client, clntudp_call(c) PROVE TInv'
  <2>1. PICK p \in budget.procs, t \in Timeouts :
          LET h == [clnt[c] EXCEPT !.n = @ + 1, !.xid = NextXid(@), !.proc = p, !.waited = 0,
                                   !.timeout = t, !.pc = "wait", !.status = "none"]
          IN  \/ /\ clnt' = [clnt EXCEPT ![c] = IF t = 0 THEN Return(h, "timedout", 0) ELSE h]
                 /\ net' = net \cup {Request(c, h)}
              \/ /\ clnt' = [clnt EXCEPT ![c] = Return(h, "failed", 0)]
                 /\ UNCHANGED net
    BY Zenon, <1>1 DEF clntudp_call
  <2> DEFINE h == [clnt[c] EXCEPT !.n = @ + 1, !.xid = NextXid(@), !.proc = p, !.waited = 0,
                                  !.timeout = t, !.pc = "wait", !.status = "none"]
  <2>2. clnt[c] \in Handle /\ p \in Proc /\ t \in Nat
    BY DEF TInv, Budget, Called, Proc, RpcAssumption
  <2>3. NextXid(clnt[c].xid) \in Xid
    BY <2>2, NextXidIs DEF Handle
  <2>4. h \in Handle
    <3>1. clnt[c].n + 1 \in Nat
      BY <2>2 DEF Handle
    <3> QED
      BY Zenon, <2>2, <2>3, <3>1 DEF Handle
  <2> HIDE DEF h
  <2>5. clnt' \in [Client -> Handle] /\ net' \subseteq CallMessage \cup Answer
    <3>1. \E x \in Handle : clnt' = [clnt EXCEPT ![c] = x]
      <4>1. Return(h, "timedout", 0) \in Handle /\ Return(h, "failed", 0) \in Handle
        BY <2>4, ClientTypes
      <4> QED
        BY <2>1, <2>4, <4>1 DEF h
    <3>2. net' = net \/ net' = net \cup {Request(c, h)}
      BY <2>1 DEF h
    <3> QED
      BY <2>4, <3>1, <3>2, ClientTypes, HandlePut DEF TInv
  <2> QED
    BY <2>5, <1>1 DEF TInv, clntudp_call
<1>2. ASSUME NEW c \in Client, SelectTimesOut(c) PROVE TInv'
  <2> DEFINE h == [clnt[c] EXCEPT !.waited = @ + 1]
  <2>1. h \in Handle
    BY DEF TInv, Handle
  <2>2. \/ clnt' = [clnt EXCEPT ![c] = h] /\ net' = net \cup {Request(c, h)}
        \/ clnt' = [clnt EXCEPT ![c] = Return(h, "timedout", 0)] /\ UNCHANGED net
    BY <1>2 DEF SelectTimesOut
  <2> HIDE DEF h
  <2>3. clnt' \in [Client -> Handle] /\ net' \subseteq CallMessage \cup Answer
    <3>1. Return(h, "timedout", 0) \in Handle
      BY <2>1, ClientTypes
    <3> QED
      BY SMTT(40), <2>1, <2>2, <3>1, ClientTypes, HandlePut DEF TInv
  <2> QED
    BY <2>3, <1>2 DEF TInv, SelectTimesOut
<1>3. ASSUME NEW c \in Client, CantReceive(c) PROVE TInv'
  <2>1. clnt' \in [Client -> Handle]
    BY <1>3, ClientTypes DEF TInv, CantReceive
  <2> QED
    BY <2>1, <1>3 DEF TInv, CantReceive
<1>4. ASSUME NEW c \in Client, Receive(c) PROVE TInv'
  <2> DEFINE again == [clnt[c] EXCEPT !.short = FALSE, !.xid = NextXid(@)]
  <2>1. again \in Handle /\ clnt[c] \in Handle
    BY ZenonT(30), NextXidIs DEF TInv, Handle
  <2>2. PICK d \in net : /\ d.kind = "reply"
                         /\ \/ Delivered(d, {}) /\ UNCHANGED clnt
                            \/ Delivered(d, {Request(c, again)}) /\ clnt' = [clnt EXCEPT ![c] = again]
                            \/ /\ Delivered(d, {})
                               /\ \E s \in {d.status, "failed"} :
                                     clnt' = [clnt EXCEPT ![c] = Return(clnt[c], s, d.n)]
    BY <1>4 DEF Receive
  <2> HIDE DEF again
  <2>3. d.n \in Nat /\ d.status \in {"rejected", "success", "noprog"}
    BY <2>2 DEF TInv, CallMessage, Answer
  <2>4. clnt' \in [Client -> Handle]
    <3>1. \A s \in {d.status, "failed"} : Return(clnt[c], s, d.n) \in Handle
      BY Zenon, <2>1, <2>3, ClientTypes
    <3>2. clnt' = clnt \/ \E x \in Handle : clnt' = [clnt EXCEPT ![c] = x]
      BY <2>1, <2>2, <3>1
    <3> QED
      BY <3>2, HandlePut DEF TInv
  <2>5. net' \subseteq CallMessage \cup Answer /\ budget' \in Budget
    BY <2>1, <2>2, ClientTypes, DeliveredTypes
  <2> QED
    BY <2>4, <2>5, <1>4 DEF TInv, Receive
<1>5. ASSUME svcudp_enablecache PROVE TInv'
  BY Zenon, <1>5, TransportTypes DEF TInv, svcudp_enablecache
<1>6. ASSUME svcudp_recv PROVE TInv'
  <2>1. PICK d \in net :
          /\ d.kind = "call" /\ buffer' = [buffer EXCEPT ![srv.buf] = d] /\ Delivered(d, {})
          /\ \/ UNCHANGED <<srv, cache>>
             \/ /\ srv' = [srv EXCEPT !.pc = "dispatch", !.req = d]
                /\ \/ cache' = [cache EXCEPT !.proc = d.proc, !.addr = d.addr]
                   \/ UNCHANGED cache
    BY Zenon, <1>6 DEF svcudp_recv, cache_get, sendto
  <2>2. d \in CallMessage /\ d.proc \in Proc /\ d.addr \in Addr
    BY <2>1 DEF TInv, CallMessage, Answer, Addr
  <2>3. net' \subseteq CallMessage \cup Answer /\ budget' \in Budget
    BY <2>1, DeliveredTypes
  <2>4. buffer' \in [Buffers -> CallMessage \cup Answer \cup {Nothing}]
    BY <2>1, <2>2 DEF TInv
  <2>5. cache' \in [on : BOOLEAN, entries : [Locations -> SUBSET Nodes], fifo : SUBSET Nodes,
                    node : [Nodes -> Node], nextvictim : Nodes, proc : Proc, addr : Addr]
    BY Zenon, <2>1, <2>2 DEF TInv
  <2> QED
    BY ZenonT(30), <1>6, <2>1, <2>2, <2>3, <2>4, <2>5 DEF TInv, svcudp_recv
<1>7. ASSUME Dispatch PROVE TInv'
  <2>1. srv' \in [pc : {"recv", "dispatch", "reply"}, req : CallMessage \cup {Nothing},
                  status : {"none", "rejected", "success", "noprog"}, buf : Buffers]
        /\ srv'.req \in CallMessage /\ srv'.status # "none"
    BY Zenon, <1>7 DEF TInv, Dispatch
  <2> QED
    BY <1>7, <2>1 DEF TInv, Dispatch
<1>8. ASSUME svcudp_reply PROVE TInv'
  <2> DEFINE r == Reply(srv.req, srv.status)
  <2>1. r \in Answer /\ srv.req.xid \in Nat /\ srv.buf \in Buffers
    BY <1>8 DEF svcudp_reply, TInv, Reply, Answer, CallMessage, Xid
  <2> HIDE DEF r
  <2>2. buffer' = [buffer EXCEPT ![srv.buf] = r] /\ (net' = net \/ net' = net \cup {r})
    BY <1>8 DEF svcudp_reply, sendto, r
  <2>3. cache' \in [on : BOOLEAN, entries : [Locations -> SUBSET Nodes], fifo : SUBSET Nodes,
                    node : [Nodes -> Node], nextvictim : Nodes, proc : Proc, addr : Addr]
        /\ \E b \in Buffers : srv' = [Transport EXCEPT !.buf = b]
    <3>1. CASE UNCHANGED cache /\ srv' = [Transport EXCEPT !.buf = srv.buf]
      BY <3>1, <2>1 DEF TInv
    <3>2. CASE ~(UNCHANGED cache /\ srv' = [Transport EXCEPT !.buf = srv.buf])
      <4> DEFINE v == cache.nextvictim
                 loc == CACHE_LOC(cache.node[v].xid)
                 chains == IF v \in cache.fifo THEN [cache.entries EXCEPT ![loc] = @ \ {v}]
                                               ELSE cache.entries
      <4>1. /\ cache' = [cache EXCEPT
                  !.entries = [chains EXCEPT ![CACHE_LOC(srv.req.xid)] = @ \cup {v}],
                  !.node[v] = [xid |-> srv.req.xid, proc |-> cache.proc, addr |-> cache.addr,
                               buf |-> srv.buf],
                  !.fifo = @ \cup {v}, !.nextvictim = (v + 1) % CacheSize]
            /\ srv' = [Transport EXCEPT !.buf = cache.node[v].buf]
        BY <1>8, <3>2 DEF svcudp_reply, cache_set
      <4>2. v \in Nodes /\ cache.node[v] \in Node /\ cache.node[v].buf \in Buffers
        BY DEF TInv, Node
      <4>3. chains \in [Locations -> SUBSET Nodes]
        BY Zenon, <4>2 DEF TInv
      <4>4. (v + 1) % CacheSize \in Nodes
        BY <4>2 DEF RpcAssumption, Nodes
      <4>5. [xid |-> srv.req.xid, proc |-> cache.proc, addr |-> cache.addr, buf |-> srv.buf] \in Node
        BY <2>1 DEF TInv, Node
      <4> HIDE DEF v, chains
      <4>6. [chains EXCEPT ![CACHE_LOC(srv.req.xid)] = @ \cup {v}] \in [Locations -> SUBSET Nodes]
        BY Zenon, <4>2, <4>3
      <4> QED
        BY Zenon, <4>1, <4>2, <4>4, <4>5, <4>6 DEF TInv
    <3> QED
      BY <3>1, <3>2
  <2>4. buffer' \in [Buffers -> CallMessage \cup Answer \cup {Nothing}]
    BY <2>1, <2>2 DEF TInv
  <2>5. srv'.pc = "recv"
    BY <2>3 DEF Transport
  <2>6. UNCHANGED <<clnt, budget>>
    BY <1>8 DEF svcudp_reply
  <2>7. srv' \in [pc : {"recv", "dispatch", "reply"}, req : CallMessage \cup {Nothing},
                  status : {"none", "rejected", "success", "noprog"}, buf : Buffers]
    BY <2>3, TransportTypes
  <2> QED
    BY <2>1, <2>2, <2>3, <2>4, <2>5, <2>6, <2>7 DEF TInv
<1>9. ASSUME Restart PROVE TInv'
  <2>1. budget' \in Budget
    BY <1>9 DEF Restart, TInv, Budget
  <2>2. srv'.pc = "recv" /\ buffer' \in [Buffers -> CallMessage \cup Answer \cup {Nothing}]
    BY <1>9 DEF Restart, Transport
  <2>3. srv' = Transport /\ cache' = EmptyCache /\ UNCHANGED <<clnt, net>>
    BY <1>9 DEF Restart
  <2> QED
    BY <2>1, <2>2, <2>3, TransportTypes DEF TInv
<1>10. CASE UNCHANGED vars
  BY <1>10 DEF TInv, vars
<1> QED
  BY <1>1, <1>2, <1>3, <1>4, <1>5, <1>6, <1>7, <1>8, <1>9, <1>10 DEF Next
-----------------------------------------------------------------------------
(* What CacheTellsTheTruth says of a node in use, apart from its chain.    *)
NodeHolds(v) ==
  LET e == cache.node[v]
      b == buffer[e.buf]
  IN  b.kind = "reply" /\ b.xid = e.xid /\ b.addr = e.addr

(* An empty cache, as a new or a restarted server has it, tells no lies.   *)
LEMMA EmptyCacheTrue ==
  ASSUME RpcAssumption
  PROVE  /\ \A l \in DOMAIN EmptyCache.entries : EmptyCache.entries[l] = {}
         /\ EmptyCache.fifo = {} /\ EmptyCache.on = FALSE
         /\ \A v \in Nodes : EmptyCache.node[v].buf = v /\ v # CacheSize
  BY DEF EmptyCache, Nodes, RpcAssumption

(* cache_set with the reply in the transport's buffer: the oldest node     *)
(* changes its chain, its buffer and its contents together, and the        *)
(* transport goes on with a buffer of no node.                             *)
LEMMA CacheSetTrue ==
  ASSUME RpcAssumption, TInv, CacheInv, svcudp_reply, cache.on
  PROVE  CacheTellsTheTruth'
<1> DEFINE v == cache.nextvictim
           loc == CACHE_LOC(cache.node[v].xid)
           chains == IF v \in cache.fifo THEN [cache.entries EXCEPT ![loc] = @ \ {v}]
                                         ELSE cache.entries
           x == srv.req.xid
           e == [xid |-> x, proc |-> cache.proc, addr |-> cache.addr, buf |-> srv.buf]
           r == Reply(srv.req, srv.status)
<1>1. /\ buffer' = [buffer EXCEPT ![srv.buf] = r]
      /\ cache_set(srv.buf, x) \/ (UNCHANGED cache /\ srv' = [Transport EXCEPT !.buf = srv.buf])
  BY DEF svcudp_reply
<1>2. /\ r.kind = "reply" /\ r.xid = e.xid /\ r.addr = e.addr
      /\ e.xid = x /\ e.buf = srv.buf /\ x \in Nat
  BY DEF svcudp_reply, CacheInv, SavedIsCurrent, Reply, TInv, CallMessage, Xid
<1>3. /\ v \in Nodes /\ srv.buf \in Buffers /\ CACHE_LOC(x) \in Locations
      /\ \A w \in Nodes : cache.node[w].buf \in Buffers /\ CACHE_LOC(cache.node[w].xid) \in Locations
  BY <1>2, LocationIs DEF TInv, Node
<1>4. CASE UNCHANGED cache /\ srv' = [Transport EXCEPT !.buf = srv.buf]
  <2>1. srv'.buf = srv.buf
    BY <1>4 DEF Transport
  <2>2. \A w \in Nodes : buffer'[cache.node[w].buf] = buffer[cache.node[w].buf]
    BY <1>1, <1>3 DEF TInv, CacheInv, CacheTellsTheTruth
  <2> QED
    BY <1>4, <2>1, <2>2 DEF TInv, CacheInv, CacheTellsTheTruth
<1>5. CASE /\ v \in cache.fifo => v \in cache.entries[loc]
           /\ cache' = [cache EXCEPT
                !.entries = [chains EXCEPT ![CACHE_LOC(x)] = @ \cup {v}],
                !.node[v] = e,
                !.fifo = @ \cup {v}, !.nextvictim = (v + 1) % CacheSize]
           /\ srv' = [Transport EXCEPT !.buf = cache.node[v].buf]
  <2>1. srv'.buf = cache.node[v].buf
    BY SMTT(40), <1>5 DEF Transport
  <2>2. /\ cache'.fifo = cache.fifo \cup {v}
        /\ cache'.entries = [chains EXCEPT ![CACHE_LOC(x)] = @ \cup {v}]
        /\ cache'.node = [cache.node EXCEPT ![v] = e]
    BY SMTT(40), <1>5 DEF TInv
  <2>3. chains \in [Locations -> SUBSET Nodes] /\ \A l \in Locations : v \notin chains[l]
                                                  /\ chains[l] = cache.entries[l] \ {v}
    BY <1>3 DEF TInv, CacheInv, CacheTellsTheTruth
  <2> HIDE DEF v, loc, chains, x, e, r
  <2>4. /\ cache'.entries \in [Locations -> SUBSET Nodes]
        /\ \A l \in Locations : \A w :
             w \in cache'.entries[l]
               <=> ((w = v /\ l = CACHE_LOC(x)) \/ (w # v /\ w \in cache.entries[l]))
    <3>1. \A l \in Locations : cache'.entries[l] =
             IF l = CACHE_LOC(x) THEN chains[l] \cup {v} ELSE chains[l]
      BY ZenonT(30), <1>3, <2>2, <2>3
    <3>2. chains[CACHE_LOC(x)] \cup {v} \in SUBSET Nodes
      BY <1>3, <2>3
    <3>3. cache'.entries \in [Locations -> SUBSET Nodes]
      BY ZenonT(30), <2>2, <2>3, <3>2
    <3>4. \A l \in Locations : \A w : w \in chains[l] <=> w # v /\ w \in cache.entries[l]
      BY <2>3
    <3> QED
      BY ZenonT(30), <3>1, <3>3, <3>4
  <2>5. /\ cache'.node[v] = e
        /\ \A w \in Nodes \ {v} : cache'.node[w] = cache.node[w]
    BY <1>3, <2>2 DEF TInv
  <2>6. /\ buffer'[srv.buf] = r
        /\ \A w \in Nodes : buffer'[cache.node[w].buf] = buffer[cache.node[w].buf]
    BY <1>1, <1>3 DEF TInv, CacheInv, CacheTellsTheTruth
  <2>7. ASSUME NEW l \in Locations, NEW w \in cache'.entries[l]
        PROVE  /\ w \in cache'.fifo /\ l = CACHE_LOC(cache'.node[w].xid)
               /\ NodeHolds(w)'
    <3>1. CASE w = v
      BY <1>2, <2>2, <2>4, <2>5, <2>6, <2>7, <3>1 DEF NodeHolds
    <3>2. CASE w # v
      <4>1. w \in cache.entries[l] /\ w \in Nodes
        BY <2>4, <2>7, <3>2 DEF TInv
      <4>2. /\ w \in cache.fifo /\ l = CACHE_LOC(cache.node[w].xid) /\ NodeHolds(w)
        BY <4>1 DEF TInv, CacheInv, CacheTellsTheTruth, NodeHolds
      <4> QED
        BY <2>2, <2>5, <2>6, <3>2, <4>1, <4>2 DEF NodeHolds
    <3> QED
      BY <3>1, <3>2
  <2>8. ASSUME NEW w \in cache'.fifo
        PROVE  w \in cache'.entries[CACHE_LOC(cache'.node[w].xid)]
    <3>1. CASE w = v
      BY <1>2, <1>3, <2>4, <2>5, <3>1
    <3>2. CASE w # v
      <4>1. w \in cache.fifo /\ w \in Nodes
        BY <2>2, <2>8, <3>2 DEF TInv
      <4>2. w \in cache.entries[CACHE_LOC(cache.node[w].xid)]
        BY <4>1 DEF CacheInv, CacheTellsTheTruth
      <4> QED
        BY <1>3, <2>4, <2>5, <3>2, <4>1, <4>2
    <3> QED
      BY <3>1, <3>2
  <2>9. \A w, u \in Nodes : w # u => cache'.node[w].buf # cache'.node[u].buf
    BY <1>2, <2>5 DEF CacheInv, CacheTellsTheTruth
  <2>10. \A w \in Nodes : cache'.node[w].buf # srv'.buf
    BY <1>2, <1>3, <2>1, <2>5 DEF CacheInv, CacheTellsTheTruth
  <2> QED
    BY SMTT(40), <2>4, <2>7, <2>8, <2>9, <2>10 DEF CacheTellsTheTruth, NodeHolds
<1> QED
  BY <1>1, <1>4, <1>5 DEF cache_set

(* The cache keeps what it says in every step.                             *)
LEMMA CacheStep == RpcAssumption /\ TInv /\ CacheInv /\ [Next]_vars => CacheInv'
<1> SUFFICES ASSUME RpcAssumption, TInv, CacheInv, [Next]_vars PROVE CacheInv'
  OBVIOUS
<1>1. CASE UNCHANGED <<srv, cache, buffer>>
  BY <1>1 DEF CacheInv, CacheTellsTheTruth, SavedIsCurrent, FirstBuffer
<1>2. ASSUME svcudp_enablecache PROVE CacheInv'
  <2>1. /\ cache'.entries = EmptyCache.entries /\ cache'.fifo = {} /\ cache'.node = EmptyCache.node
        /\ cache'.on /\ srv'.buf = CacheSize /\ srv'.pc = "recv"
    BY <1>2 DEF svcudp_enablecache, EmptyCache, CacheInv, FirstBuffer
  <2> QED
    BY <2>1, EmptyCacheTrue DEF CacheInv, CacheTellsTheTruth, SavedIsCurrent, FirstBuffer
<1>3. ASSUME svcudp_recv PROVE CacheInv'
  <2>1. PICK d \in net :
          /\ d.kind = "call" /\ buffer' = [buffer EXCEPT ![srv.buf] = d]
          /\ \/ UNCHANGED <<srv, cache>>
             \/ /\ srv' = [srv EXCEPT !.pc = "dispatch", !.req = d]
                /\ \/ cache' = [cache EXCEPT !.proc = d.proc, !.addr = d.addr]
                   \/ ~cache.on /\ UNCHANGED cache
    BY Zenon, <1>3 DEF svcudp_recv, cache_get
  <2>2. /\ srv'.buf = srv.buf /\ cache'.entries = cache.entries /\ cache'.fifo = cache.fifo
        /\ cache'.node = cache.node /\ cache'.on = cache.on
        /\ srv'.pc = "recv" \/ ~cache.on \/ (srv'.req = d /\ cache'.addr = d.addr /\ cache'.proc = d.proc)
    BY ZenonT(40), <1>3, <2>1 DEF TInv, svcudp_recv
  <2>3. \A w \in Nodes : buffer'[cache.node[w].buf] = buffer[cache.node[w].buf]
    BY <2>1 DEF TInv, CacheInv, CacheTellsTheTruth
  <2>4. CacheTellsTheTruth'
    BY <2>2, <2>3 DEF TInv, CacheInv, CacheTellsTheTruth
  <2> QED
    BY SMTT(30), <2>2, <2>4 DEF CacheInv, SavedIsCurrent, FirstBuffer
<1>4. ASSUME Dispatch PROVE CacheInv'
  <2>1. srv'.buf = srv.buf /\ srv'.req = srv.req /\ srv.pc # "recv" /\ UNCHANGED <<cache, buffer>>
    BY <1>4 DEF Dispatch, TInv
  <2> QED
    BY <2>1 DEF CacheInv, CacheTellsTheTruth, SavedIsCurrent, FirstBuffer
<1>5. ASSUME svcudp_reply PROVE CacheInv'
  <2>1. srv'.pc = "recv"
    BY <1>5 DEF svcudp_reply, cache_set, Transport
  <2>2. CASE cache.on
    <3>1. cache'.on
      BY Zenon, <1>5, <2>2 DEF svcudp_reply, cache_set, TInv
    <3> QED
      BY <1>5, <2>1, <2>2, <3>1, CacheSetTrue DEF CacheInv, SavedIsCurrent, FirstBuffer
  <2>3. CASE ~cache.on
    <3>1. srv'.buf = srv.buf /\ UNCHANGED cache
          /\ \E r : buffer' = [buffer EXCEPT ![srv.buf] = r]
      BY Zenon, <1>5, <2>3 DEF svcudp_reply, Transport
    <3>2. \A w \in Nodes : buffer'[cache.node[w].buf] = buffer[cache.node[w].buf]
      BY <3>1 DEF TInv, CacheInv, CacheTellsTheTruth
    <3>3. CacheTellsTheTruth'
      BY <3>1, <3>2 DEF TInv, CacheInv, CacheTellsTheTruth
    <3> QED
      BY <2>1, <3>1, <3>3 DEF CacheInv, SavedIsCurrent, FirstBuffer
  <2> QED
    BY <2>2, <2>3
<1>6. ASSUME Restart PROVE CacheInv'
  <2>1. cache' = EmptyCache /\ srv'.pc = "recv" /\ srv'.buf = CacheSize
    BY SMTT(30), <1>6 DEF Restart, Transport
  <2> QED
    BY <2>1, EmptyCacheTrue DEF CacheInv, CacheTellsTheTruth, SavedIsCurrent, FirstBuffer
<1>7. ASSUME NEW c \in Client, clntudp_call(c) \/ SelectTimesOut(c) \/ CantReceive(c) \/ Receive(c)
      PROVE  CacheInv'
  BY Zenon, <1>1, <1>7 DEF clntudp_call, SelectTimesOut, CantReceive, Receive
<1> QED
  BY <1>1, <1>2, <1>3, <1>4, <1>5, <1>6, <1>7 DEF Next, vars

(* The cache keeps what it says: whatever is received, however often and   *)
(* in whatever order, every node in use is in the one chain of its number  *)
(* and its buffer, which neither the transport nor another node has, holds *)
(* the reply to the call with that number from that address.               *)
THEOREM CacheCorrect == ASSUME RpcAssumption PROVE Spec => []CacheTellsTheTruth
<1>1. Init => TInv /\ CacheInv
  <2> SUFFICES ASSUME Init PROVE CacheInv
    BY TypeInit
  <2>1. cache = EmptyCache /\ srv.pc = "recv" /\ srv.buf = CacheSize
    BY DEF Init, Transport
  <2> QED
    BY <2>1, EmptyCacheTrue DEF CacheInv, CacheTellsTheTruth, SavedIsCurrent, FirstBuffer
<1>2. TInv /\ CacheInv /\ [Next]_vars => (TInv /\ CacheInv)'
  BY TypeStep, CacheStep
<1>3. CacheInv => CacheTellsTheTruth
  BY DEF CacheInv
<1> QED
  BY <1>1, <1>2, <1>3, PTL DEF Spec
-----------------------------------------------------------------------------
(* Among XidMod numbers in a row no two are the same, although the code    *)
(* counts them modulo 2^16.                                                *)
LEMMA SameNumber ==
  ASSUME RpcAssumption, NEW f \in Xid, NEW x \in Xid, NEW e \in {0, 1},
         NEW i \in 1 .. XidMod - 1, NEW j \in 1 .. XidMod - 1,
         x = f + (i + e) \/ x = f + (i + e) - XidMod, x = f + (j + e) \/ x = f + (j + e) - XidMod
  PROVE  i = j
  BY DEF RpcAssumption, Xid

(* The number after the i-th one is the next one.                          *)
LEMMA NextNumber ==
  ASSUME RpcAssumption, TInv, NEW c \in Client, NEW x \in Xid, NEW i \in 0 .. XidMod - 1,
         Numbered(c, x, i)
  PROVE  Numbered(c, NextXid(x), i + 1)
<1>1. budget.first[c] \in Xid
  BY DEF TInv, Budget
<1> QED
  BY <1>1, NextXidIs DEF Numbered, Xid, RpcAssumption

(* No step changes which calls are made, from which number on and with     *)
(* which credentials.                                                      *)
LEMMA BudgetKept ==
  ASSUME TInv, [Next]_vars
  PROVE  budget'.first = budget.first /\ budget'.calls = budget.calls /\ budget'.short = budget.short
<1>1. \/ UNCHANGED budget
      \/ budget' = [budget EXCEPT !.dups = @ - 1]
      \/ budget' = [budget EXCEPT !.restarts = @ - 1]
  BY ZenonT(40) DEF Next, vars, clntudp_call, SelectTimesOut, CantReceive, Receive, svcudp_enablecache,
         svcudp_recv, Dispatch, svcudp_reply, Restart, Delivered
<1> QED
  BY SMTT(30), <1>1 DEF TInv, Budget

(* A client goes on: it puts handle h in place of its own, no earlier call *)
(* and no shorter credentials, and sends at most that call.                *)
LEMMA ClientStep ==
  ASSUME RpcAssumption, TInv, TInv', NumInv, [Next]_vars,
         NEW c \in Client, NEW h \in Handle, clnt' = [clnt EXCEPT ![c] = h],
         HandleOK(c, h), h.n >= clnt[c].n, h.short => clnt[c].short,
         h.status = "success" => h.got = h.n /\ <<c, h.n>> \in exec,
         NEW g \in Handle, g.n = h.n, g.xid = h.xid, g.short = h.short, h.n >= 1 \/ net' \subseteq net,
         net' \subseteq net \cup {Request(c, g)}, UNCHANGED <<srv, exec>>
  PROVE  NumInv'
<1> USE BudgetKept
<1>1. clnt'[c] = h /\ \A x \in Client \ {c} : clnt'[x] = clnt[x]
  BY DEF TInv
<1>2. ASSUME NEW d \in CallMessage \cup Answer, MadeBySender(d) PROVE MadeBySender(d)'
  <2>1. d.addr \in Client /\ clnt[d.addr] \in Handle /\ clnt'[d.addr] \in Handle /\ d.n \in Nat
    BY DEF TInv, CallMessage, Answer
  <2>2. clnt'[d.addr].n >= clnt[d.addr].n /\ (clnt'[d.addr].short => clnt[d.addr].short)
    BY <1>1, <2>1 DEF Handle
  <2> QED
    BY SMTT(40), <1>2, <2>1, <2>2 DEF MadeBySender, Made, Extra, Numbered, Handle
<1>3. \A x \in Client : HandleOK(x, clnt[x])'
  BY SMTT(40), <1>1 DEF HandleOK, Numbered, Extra, NumInv
<1>4. h.n >= 1 => MadeBySender(Request(c, g))'
  BY <1>1 DEF MadeBySender, Made, Request, HandleOK, Numbered, Extra, Handle
<1>5. \A d \in net' : MadeBySender(d)'
  BY <1>2, <1>4 DEF NumInv, MessagesNumbered, TInv
<1>6. MessagesNumbered'
  BY <1>2, <1>5 DEF NumInv, MessagesNumbered, TInv
<1>7. SuccessIsExecuted'
  BY DEF NumInv, SuccessIsExecuted, Request
<1>8. AnswerIsForThisCall'
  BY <1>1 DEF NumInv, AnswerIsForThisCall
<1> QED
  BY <1>3, <1>6, <1>7, <1>8 DEF NumInv

(* The server goes on: it may begin with a request, execute it, answer it. *)
LEMMA ServerStep ==
  ASSUME TInv, TInv', NumInv, [Next]_vars, UNCHANGED clnt, exec \subseteq exec',
         \A d \in net' : \/ d \in net
                         \/ MadeBySender(d) /\ (d.kind = "reply" /\ d.status = "success"
                                                => <<d.addr, d.n>> \in exec'),
         srv'.pc # "recv" => MadeBySender(srv'.req),
         srv'.pc = "reply" => /\ srv'.status = "rejected" <=> srv'.req.short
                              /\ srv'.status = "success" => <<srv'.req.addr, srv'.req.n>> \in exec'
  PROVE  NumInv'
<1> USE BudgetKept
<1>1. \A d : MadeBySender(d) => MadeBySender(d)'
  BY DEF MadeBySender, Made, Extra, Numbered
<1>2. \A c \in Client : HandleOK(c, clnt[c])'
  BY DEF NumInv, HandleOK, Numbered, Extra
<1>3. MessagesNumbered'
  BY Zenon, <1>1 DEF NumInv, MessagesNumbered
<1>4. SuccessIsExecuted'
  BY DEF NumInv, SuccessIsExecuted
<1>5. AnswerIsForThisCall'
  BY DEF NumInv, AnswerIsForThisCall
<1> QED
  BY SMTT(40), <1>2, <1>3, <1>4, <1>5 DEF NumInv

(* clntudp_call returns with the number and the credentials it has.        *)
LEMMA ReturnKeeps ==
  ASSUME NEW h \in Handle, NEW s, NEW n
  PROVE  LET r == Return(h, s, n)
         IN  /\ r.n = h.n /\ r.xid = h.xid /\ r.short = h.short /\ r.pc = "idle"
             /\ r.status = s /\ r.got = n
  BY DEF Return, Handle

(* Transaction numbers tell the calls apart in every step.                 *)
LEMMA NumberStep == RpcAssumption /\ TInv /\ TInv' /\ NumInv /\ [Next]_vars => NumInv'
<1> SUFFICES ASSUME RpcAssumption, TInv, TInv', NumInv, [Next]_vars PROVE NumInv'
  OBVIOUS
<1>1. ASSUME NEW c \in Client, clntudp_call(c) PROVE NumInv'
  <2>1. PICK p \in budget.procs, t \in Timeouts :
          LET h == [clnt[c] EXCEPT !.n = @ + 1, !.xid = NextXid(@), !.proc = p, !.waited = 0,
                                   !.timeout = t, !.pc = "wait", !.status = "none"]
          IN  \/ /\ clnt' = [clnt EXCEPT ![c] = IF t = 0 THEN Return(h, "timedout", 0) ELSE h]
                 /\ net' = net \cup {Request(c, h)}
              \/ /\ clnt' = [clnt EXCEPT ![c] = Return(h, "failed", 0)]
                 /\ UNCHANGED net
    BY Zenon, <1>1 DEF clntudp_call
  <2> DEFINE h == [clnt[c] EXCEPT !.n = @ + 1, !.xid = NextXid(@), !.proc = p, !.waited = 0,
                                  !.timeout = t, !.pc = "wait", !.status = "none"]
  <2>2. clnt[c] \in Handle /\ p \in Proc /\ t \in Nat /\ NextXid(clnt[c].xid) \in Xid
    BY ZenonT(40), NextXidIs DEF TInv, Handle, Budget, Called, Proc, RpcAssumption
  <2>3. h \in Handle
    <3>1. clnt[c].n + 1 \in Nat
      BY <2>2 DEF Handle
    <3> QED
      BY Zenon, <2>2, <3>1 DEF Handle
  <2>4. /\ h.n = clnt[c].n + 1 /\ h.xid = NextXid(clnt[c].xid) /\ h.short = clnt[c].short
        /\ h.status = "none"
    BY <2>2 DEF Handle
  <2>5. PICK k \in {h, Return(h, "timedout", 0), Return(h, "failed", 0)} :
          clnt' = [clnt EXCEPT ![c] = k] /\ net' \subseteq net \cup {Request(c, h)}
    BY <2>1
  <2> HIDE DEF h
  <2>6. HandleOK(c, h)
    <3>1. clnt[c].n + Extra(c, clnt[c].short) \in 0 .. XidMod - 1 /\ h.n <= budget.calls[c] /\ h.n >= 1
      BY <1>1, <2>2, <2>4 DEF clntudp_call, TInv, Budget, Handle, Extra, RpcAssumption
    <3>2. Numbered(c, h.xid, clnt[c].n + Extra(c, clnt[c].short) + 1)
      BY <2>2, <2>4, <3>1, NextNumber DEF NumInv, HandleOK, Handle
    <3>3. clnt[c].n + Extra(c, clnt[c].short) + 1 = h.n + Extra(c, h.short)
      BY <2>2, <2>4 DEF Extra, Handle
    <3> QED
      BY <2>4, <3>1, <3>2, <3>3 DEF HandleOK, NumInv
  <2>7. /\ k \in Handle /\ k.n = h.n /\ k.xid = h.xid /\ k.short = h.short /\ k.status # "success"
        /\ h.n \in Nat /\ h.n >= 1
    <3>1. h.n \in Nat /\ h.n >= 1
      BY <2>2, <2>4 DEF Handle
    <3>2. ASSUME NEW s \in {"timedout", "failed"}
          PROVE  LET r == Return(h, s, 0)
                 IN  r \in Handle /\ r.n = h.n /\ r.xid = h.xid /\ r.short = h.short /\ r.status = s
      <4>1. Return(h, s, 0) \in Handle
        BY <2>3, ClientTypes
      <4> QED
        BY <2>3, <4>1, ReturnKeeps
    <3> QED
      BY <2>3, <2>4, <3>1, <3>2
  <2>8. HandleOK(c, k)
    BY <2>6, <2>7 DEF HandleOK
  <2>9. k.n >= clnt[c].n /\ k.n >= 1 /\ (k.short => clnt[c].short)
    BY <2>2, <2>4, <2>7 DEF Handle
  <2>10. UNCHANGED <<srv, exec>>
    BY <1>1 DEF clntudp_call
  <2> QED
    BY Zenon, <2>3, <2>5, <2>7, <2>8, <2>9, <2>10, ClientStep
<1>2. ASSUME NEW c \in Client, SelectTimesOut(c) PROVE NumInv'
  <2> DEFINE h == [clnt[c] EXCEPT !.waited = @ + 1]
  <2>1. /\ h \in Handle /\ h.n = clnt[c].n /\ h.xid = clnt[c].xid /\ h.short = clnt[c].short
        /\ h.status = clnt[c].status /\ h.got = clnt[c].got /\ clnt[c].n \in Nat
    <3>1. clnt[c] \in Handle
      BY DEF TInv
    <3> QED
      BY <3>1 DEF Handle
  <2>2. PICK k \in {h, Return(h, "timedout", 0)} :
          clnt' = [clnt EXCEPT ![c] = k] /\ net' \subseteq net \cup {Request(c, h)}
    BY <1>2 DEF SelectTimesOut
  <2> HIDE DEF h
  <2>3. /\ k \in Handle /\ k.n = h.n /\ k.xid = h.xid /\ k.short = h.short
        /\ k.status = "timedout" \/ (k.status = h.status /\ k.got = h.got)
    <3>1. LET r == Return(h, "timedout", 0)
          IN  /\ r \in Handle /\ r.n = h.n /\ r.xid = h.xid /\ r.short = h.short
              /\ r.status = "timedout"
      BY <2>1, ReturnKeeps, ClientTypes
    <3> QED
      BY <2>1, <3>1
  <2>4. HandleOK(c, k) /\ k.n >= 1
    BY <1>2, <2>1, <2>3 DEF HandleOK, NumInv, SelectTimesOut
  <2>5. k.status = "success" => k.got = k.n /\ <<c, k.n>> \in exec
    BY <2>1, <2>3 DEF NumInv, AnswerIsForThisCall
  <2>6. UNCHANGED <<srv, exec>> /\ k.n >= clnt[c].n
    BY <1>2, <2>1, <2>3 DEF SelectTimesOut
  <2> QED
    BY Zenon, <2>1, <2>2, <2>3, <2>4, <2>5, <2>6, ClientStep
<1>3. ASSUME NEW c \in Client, CantReceive(c) PROVE NumInv'
  <2> DEFINE k == Return(clnt[c], "failed", 0)
  <2>1. clnt[c] \in Handle /\ clnt[c].n \in Nat /\ k \in Handle
    BY ClientTypes DEF TInv, Handle
  <2>2. k.n = clnt[c].n /\ k.xid = clnt[c].xid /\ k.short = clnt[c].short /\ k.status # "success"
        /\ k.pc = "idle"
    BY <2>1, ReturnKeeps
  <2>3. clnt' = [clnt EXCEPT ![c] = k] /\ UNCHANGED <<net, srv, exec>>
    BY <1>3 DEF CantReceive
  <2> HIDE DEF k
  <2>4. HandleOK(c, k) /\ k.n >= clnt[c].n
    BY <2>1, <2>2 DEF HandleOK, NumInv
  <2> QED
    BY Zenon, <2>1, <2>2, <2>3, <2>4, ClientStep
<1>4. ASSUME NEW c \in Client, Receive(c) PROVE NumInv'
  <2> DEFINE h == clnt[c]
             again == [h EXCEPT !.short = FALSE, !.xid = NextXid(@)]
  <2>1. PICK d \in net :
          /\ d.kind = "reply" /\ d.addr = c
          /\ IF d.xid # h.xid THEN Delivered(d, {}) /\ UNCHANGED clnt
             ELSE IF d.status = "rejected" /\ h.short
             THEN Delivered(d, {Request(c, again)}) /\ clnt' = [clnt EXCEPT ![c] = again]
             ELSE /\ Delivered(d, {})
                  /\ \E s \in {d.status, "failed"} : clnt' = [clnt EXCEPT ![c] = Return(h, s, d.n)]
    BY <1>4 DEF Receive
  <2>2. h \in Handle /\ HandleOK(c, h) /\ h.n \in Nat /\ h.n >= 1 /\ UNCHANGED <<srv, exec>>
    BY <1>4 DEF TInv, NumInv, Receive, HandleOK, Handle
  <2>3. d \in Answer
    BY <2>1 DEF TInv, CallMessage
  <2>4. \A new : Delivered(d, new) => net' \subseteq net \cup new
    BY DEF Delivered
  <2>5. CASE UNCHANGED clnt /\ Delivered(d, {})
    <3>1. clnt' = [clnt EXCEPT ![c] = h] /\ net' \subseteq net
      BY <2>4, <2>5 DEF TInv
    <3>2. h.status = "success" => h.got = h.n /\ <<c, h.n>> \in exec
      BY DEF NumInv, AnswerIsForThisCall
    <3>3. PICK k \in Handle : k = h
      BY <2>2
    <3>4. k.n >= clnt[c].n /\ k.n >= 1 /\ (k.short => clnt[c].short)
      BY <2>2, <3>3
    <3> QED
      BY Zenon, <2>2, <3>1, <3>2, <3>3, <3>4, ClientStep
  <2>6. CASE h.short /\ Delivered(d, {Request(c, again)}) /\ clnt' = [clnt EXCEPT ![c] = again]
    <3>1. again \in Handle /\ again.n = h.n /\ again.xid = NextXid(h.xid) /\ again.short = FALSE
          /\ again.status = h.status /\ again.got = h.got
      <4>1. NextXid(h.xid) \in Xid
        BY <2>2, NextXidIs DEF Handle
      <4> QED
        BY Zenon, <2>2, <4>1 DEF Handle
    <3>2. c \in budget.short
      BY <2>2, <2>6 DEF HandleOK
    <3>3. net' \subseteq net \cup {Request(c, again)}
      BY <2>4, <2>6
    <3>4. again.status = "success" => again.got = again.n /\ <<c, again.n>> \in exec
      BY <3>1 DEF NumInv, AnswerIsForThisCall
    <3>5. clnt' = [clnt EXCEPT ![c] = again]
      BY <2>6
    <3> HIDE DEF again
    <3>6. HandleOK(c, again)
      <4>1. h.n \in 0 .. XidMod - 1 /\ h.xid \in Xid /\ h.n <= budget.calls[c]
        BY <2>2 DEF HandleOK, TInv, Budget, RpcAssumption, Handle
      <4>2. h.n + Extra(c, h.short) = h.n /\ again.n + Extra(c, again.short) = h.n + 1
        BY SMTT(40), <2>2, <2>6, <3>1, <3>2 DEF Extra
      <4>3. Numbered(c, NextXid(h.xid), h.n + 1)
        BY <2>2, <4>1, <4>2, NextNumber DEF HandleOK
      <4> QED
        BY SMTT(40), <2>2, <3>1, <4>1, <4>2, <4>3 DEF HandleOK
    <3>7. again.n >= clnt[c].n /\ again.n >= 1 /\ (again.short => clnt[c].short)
      BY SMTT(40), <2>2, <3>1
    <3> QED
      BY Zenon, <2>2, <3>1, <3>3, <3>4, <3>5, <3>6, <3>7, ClientStep
  <2>7. CASE /\ d.xid = h.xid /\ Delivered(d, {})
             /\ \E s \in {d.status, "failed"} : clnt' = [clnt EXCEPT ![c] = Return(h, s, d.n)]
    <3>1. PICK s \in {d.status, "failed"} : clnt' = [clnt EXCEPT ![c] = Return(h, s, d.n)]
      BY Zenon, <2>7
    <3>2. /\ s \in {"failed", "rejected", "success", "noprog"} /\ d.n \in Nat /\ d.xid \in Xid
          /\ s = "success" => d.status = "success"
      BY <2>3 DEF Answer
    <3>3. PICK k \in Handle : k = Return(h, s, d.n)
      BY Zenon, <2>2, <3>2, ClientTypes
    <3>4. k.n = h.n /\ k.xid = h.xid /\ k.short = h.short /\ k.pc = "idle" /\ k.status = s /\ k.got = d.n
      BY <2>2, <3>3, ReturnKeeps
    <3>5. HandleOK(c, k)
      BY <2>2, <3>4 DEF HandleOK
    <3>6. ASSUME s = "success" PROVE d.n = h.n /\ <<c, d.n>> \in exec
      <4>1. Made(c, d.xid, d.n, FALSE) /\ <<c, d.n>> \in exec
        BY ZenonT(40), <2>1, <3>2, <3>6 DEF NumInv, MessagesNumbered, SuccessIsExecuted, MadeBySender
      <4>2. Extra(c, h.short) = Extra(c, FALSE) /\ Extra(c, FALSE) \in {0, 1}
        BY <4>1 DEF Made, Extra
      <4>3. budget.calls[c] \in 0 .. XidMod - 1 /\ budget.first[c] \in Xid /\ XidMod \in Nat
        BY DEF TInv, Budget, RpcAssumption
      <4>4. d.n >= 1 /\ h.n <= budget.calls[c]
        BY <2>2, <4>1 DEF Made, HandleOK
      <4>5. d.n <= h.n
        BY <4>1 DEF Made
      <4>6. d.n \in 1 .. XidMod - 1 /\ h.n \in 1 .. XidMod - 1
        BY <2>2, <3>2, <4>3, <4>4, <4>5
      <4>7. Numbered(c, d.xid, d.n + Extra(c, FALSE)) /\ Numbered(c, d.xid, h.n + Extra(c, FALSE))
        BY Zenon, <2>2, <2>7, <4>1, <4>2 DEF Made, HandleOK
      <4> HIDE DEF h
      <4>8. d.n = h.n
        <5>1. PICK f \in Xid, x \in Xid, e \in {0, 1}, i \in 1 .. XidMod - 1, j \in 1 .. XidMod - 1 :
                f = budget.first[c] /\ x = d.xid /\ e = Extra(c, FALSE) /\ i = d.n /\ j = h.n
          BY ZenonT(40), <3>2, <4>2, <4>3, <4>6
        <5>2. /\ x = f + (i + e) \/ x = f + (i + e) - XidMod
              /\ x = f + (j + e) \/ x = f + (j + e) - XidMod
          BY ZenonT(30), <4>7, <5>1 DEF Numbered
        <5>3. i = j
          BY <5>2, SameNumber
        <5> QED
          BY <5>1, <5>3
      <4> QED
        BY <4>1, <4>8
    <3>7. k.status = "success" => k.got = k.n /\ <<c, k.n>> \in exec
      BY <3>4, <3>6
    <3>8. k.n >= clnt[c].n /\ (k.short => clnt[c].short) /\ net' \subseteq net /\ k.n >= 1
      BY SMTT(40), <2>2, <2>4, <2>7, <3>4
    <3> QED
      BY Zenon, <2>2, <3>1, <3>3, <3>5, <3>7, <3>8, ClientStep
  <2> QED
    BY <2>1, <2>5, <2>6, <2>7
<1>5. ASSUME svcudp_enablecache \/ Restart PROVE NumInv'
  <2>1. UNCHANGED <<clnt, net, exec>> /\ (UNCHANGED srv \/ srv'.pc = "recv")
    BY <1>5 DEF svcudp_enablecache, Restart, Transport
  <2> QED
    BY <2>1, ServerStep DEF NumInv, MessagesNumbered, SuccessIsExecuted
<1>6. ASSUME svcudp_recv PROVE NumInv'
  <2>1. PICK d \in net :
          /\ d.kind = "call" /\ Delivered(d, {})
          /\ UNCHANGED srv \/ srv' = [srv EXCEPT !.pc = "dispatch", !.req = d]
    BY Zenon, <1>6 DEF svcudp_recv, cache_get, sendto
  <2>2. net' \subseteq net /\ UNCHANGED <<clnt, exec>>
    BY <1>6, <2>1 DEF svcudp_recv, Delivered
  <2>3. srv'.pc # "recv" => srv'.req = d /\ srv'.pc = "dispatch"
    BY ZenonT(40), <1>6, <2>1 DEF svcudp_recv, TInv
  <2> QED
    BY SMTT(40), <2>1, <2>2, <2>3, ServerStep DEF NumInv, MessagesNumbered
<1>7. ASSUME Dispatch PROVE NumInv'
  <2>1. /\ srv'.pc = "reply" /\ srv'.req = srv.req /\ srv.pc # "recv"
        /\ srv'.status = "rejected" <=> srv.req.short
        /\ srv'.status = "success" => <<srv.req.addr, srv.req.n>> \in exec'
        /\ exec \subseteq exec' /\ UNCHANGED <<clnt, net>>
    BY <1>7 DEF Dispatch, TInv
  <2> QED
    BY <2>1, ServerStep DEF NumInv, MessagesNumbered
<1>8. ASSUME svcudp_reply PROVE NumInv'
  <2> DEFINE r == Reply(srv.req, srv.status)
  <2>1. net' \subseteq net \cup {r} /\ UNCHANGED <<clnt, exec>> /\ srv'.pc = "recv"
    BY <1>8 DEF svcudp_reply, sendto, cache_set, Transport
  <2>2. /\ r.kind = "reply" /\ r.addr = srv.req.addr /\ r.xid = srv.req.xid /\ r.n = srv.req.n
        /\ r.status = srv.status /\ srv.req.kind = "call"
    BY <1>8 DEF svcudp_reply, Reply, TInv, CallMessage
  <2>3. MadeBySender(srv.req) /\ (srv.status = "rejected" <=> srv.req.short)
    BY <1>8 DEF svcudp_reply, NumInv, MessagesNumbered
  <2> HIDE DEF r
  <2>4. MadeBySender(r)
    BY <2>2, <2>3 DEF MadeBySender, Made, Extra
  <2>5. r.status = "success" => <<r.addr, r.n>> \in exec
    BY SMTT(40), <1>8, <2>2 DEF svcudp_reply, NumInv, SuccessIsExecuted
  <2> QED
    BY <2>1, <2>4, <2>5, ServerStep
<1>9. CASE UNCHANGED vars
  <2>1. UNCHANGED <<clnt, net, srv, exec>>
    BY <1>9 DEF vars
  <2> QED
    BY <2>1, ServerStep DEF NumInv, MessagesNumbered, SuccessIsExecuted
<1> QED
  BY <1>1, <1>2, <1>3, <1>4, <1>5, <1>6, <1>7, <1>8, <1>9 DEF Next

(* A call that succeeds returns its own results, and it was executed, as   *)
(* long as a handle makes fewer than 2^16 calls: transaction numbers alone *)
(* tell its answer from late answers to earlier calls, to copies of a call *)
(* and to calls made before the server was restarted.                      *)
THEOREM AnswerCorrect == ASSUME RpcAssumption PROVE Spec => []AnswerIsForThisCall
<1>1. Init => TInv /\ NumInv
  <2> SUFFICES ASSUME Init PROVE NumInv
    BY TypeInit
  <2>1. TInv /\ net = {} /\ srv.pc = "recv"
    BY TypeInit DEF Init, Transport
  <2>2. ASSUME NEW c \in Client
        PROVE  HandleOK(c, clnt[c]) /\ clnt[c].status # "success"
    <3>1. /\ clnt[c].n = 0 /\ clnt[c].pc = "idle" /\ clnt[c].xid = budget.first[c]
          /\ clnt[c].short <=> c \in budget.short
          /\ clnt[c].status = "none"
      BY Zenon DEF Init
    <3>2. budget.calls[c] \in Nat /\ budget.first[c] \in Nat
      BY <2>1 DEF TInv, Budget, Xid
    <3> QED
      BY SMTT(40), <3>1, <3>2 DEF HandleOK, Numbered, Extra
  <2> QED
    BY SMTT(40), <2>1, <2>2 DEF NumInv, MessagesNumbered, SuccessIsExecuted, AnswerIsForThisCall
<1>2. TInv /\ NumInv /\ [Next]_vars => (TInv /\ NumInv)'
  BY TypeStep, NumberStep
<1>3. NumInv => AnswerIsForThisCall
  BY DEF NumInv
<1> QED
  BY <1>1, <1>2, <1>3, PTL DEF Spec
=============================================================================
