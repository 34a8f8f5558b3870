----------------------------- MODULE NetMemory -----------------------------
(***************************************************************************)
(* The network shared memory server (mach/etc/netmemoryserver): one object *)
(* thread that hands out pages of a memory object to the kernels of        *)
(* several hosts, many readers or one writer at a time.                    *)
(*                                                                         *)
(* The object thread takes one message at a time from its port `inq' and   *)
(* runs the handler to its end, so a handler is one action.  What it keeps *)
(* is the record `obj'; what it sends to the kernel behind control port q  *)
(* is appended to net[q], which that kernel reads in order.  The kernels   *)
(* are external: they are modelled from the messages the server expects of *)
(* them.  Offsets and lengths are counted in min_pages.                    *)
(*                                                                         *)
(* `wild' is set when the code uses a value it has not set or stores       *)
(* outside min_pages; nothing is claimed after that and the thread stops.  *)
(***************************************************************************)
EXTENDS Integers, Sequences, FiniteSets, Functions

CONSTANTS Ports,        \* control ports of the kernels that may map the object
          NumKernels,   \* MAX_NUM_KERNELS
          NumPages,     \* min_pages of the object
          NULL,
          MaxWrites,    \* bound: stores made by programs to one page
          MaxQueue,     \* bound: messages waiting for the object thread when a kernel faults
          MaxNet,       \* bound: messages a kernel has not read when it faults
          Settings      \* the settings a behaviour may start in:
                        \*   size      page size of the kernel behind each port
                        \*   opened    the kernels that have mapped the object, in slot order
                        \*   late      the kernels that map it later
                        \*   readonly  the kernels whose programs only read
                        \*   pagers    bound: the kernels that give up a page by themselves, once
                        \*   crashes   bound: hosts that crash
                        \*   timeouts  bound: rounds of periodic_routine

Slots == 0 .. NumKernels - 1
Pages == 0 .. NumPages - 1
Requests == 1 .. (2 * NumKernels * NumPages)   \* bound: request_t blocks allocated

VARIABLES obj,      \* the object_t and its min_pages
          inq,      \* messages queued at paging_object
          net,      \* messages on their way to each kernel
          page,     \* page[q][p]: what the kernel behind q does with its page at p
          val,      \* val[q][p]: the version of min_page p that kernel holds
          latest,   \* latest[p]: the last version a program wrote
          down,     \* control ports that died
          set,      \* the setting of this behaviour
          spent     \* the bounded events so far

vars == <<obj, inq, net, page, val, latest, down, set, spent>>

(***************************************************************************)
(* The union `user' holds a writer's number or a set of readers in the     *)
(* same word; a word is the set of its one bits.                           *)
(***************************************************************************)
Word(k) == {b \in 0 .. NumKernels : (k \div 2^b) % 2 = 1}
WriterIn(w) == CHOOSE k \in 0 .. 2^(NumKernels + 1) : Word(k) = w

LastPage(s, k, first) == first + s.page_size[k] - 1
Writes(s, k, p) == s.use[p] = "WRITE" /\ WriterIn(s.user[p]) = k

(* A message to the kernel in slot k, or to all kernels of a set of slots. *)
SendAll(s, K, m) ==
  [s EXCEPT !.net = [q \in Ports |->
     IF q \notin down /\ \E k \in K : s.port[k] = q THEN Append(@[q], m) ELSE @[q]]]
DATA_PROVIDED(s, k, first, write) ==
  SendAll(s, {k}, [type |-> "data", first |-> first, write |-> write,
                   val |-> [p \in first .. LastPage(s, k, first) |-> s.storage[p]]])

(* Variant: readers are not told to flush the page.                        *)
LOCK_READER_unsent(s, K, first) == s

LOCK_READER(s, K, first) == SendAll(s, K, [type |-> "lock", first |-> first, reply |-> FALSE])

LOCK_WRITER(s, k, first) == SendAll(s, {k}, [type |-> "lock", first |-> first, reply |-> TRUE])
UNLOCK_WRITER(s, k, first) == SendAll(s, {k}, [type |-> "unlock", first |-> first])

req_mark(s, r, k) ==
  [s EXCEPT !.req[r].mark = s.mark, !.outstanding[k][s.mark] = @ + 1]

req_unmark(s, r, k) == [s EXCEPT !.outstanding[k][s.req[r].mark] = @ - 1]
NoRequest == [kernel |-> -1, first |-> 0, last |-> 0, follow |-> 0, sibling |-> 0, count |-> 0, mark |-> 0]
req_free(s, r) == [s EXCEPT !.free = @ \cup {r}, !.req[r] = NoRequest]

(***************************************************************************)
(* add_reader: every min_page of the range gets the reader.                *)
(***************************************************************************)
add_reader(s, first, last, k) ==
  DATA_PROVIDED(
    [s EXCEPT !.use  = [p \in Pages |-> IF p \in first .. last /\ @[p] = "NONE" THEN "READ" ELSE @[p]],
              !.user = [p \in Pages |-> IF p \in first .. last
                                        THEN (IF s.use[p] = "NONE" THEN {} ELSE @[p]) \cup {k}
                                        ELSE @[p]]],
    k, first, FALSE)

SET_DELETE(s, j, K) == [s EXCEPT !.user = [p \in Pages |-> IF p \in j THEN @[p] \ K ELSE @[p]]]

(***************************************************************************)
(* add_writer: boot the readers, first those with bigger pages, then all   *)
(* others, page by page.  The offset of a bigger reader's page is computed *)
(* with an exclusive or (its_offset), which flips the low bits of the page *)
(* number and leaves the low bits of the byte offset set: `start' is the   *)
(* page it falls in, and the lock request sent for it names no whole page, *)
(* so that the kernel finds nothing to flush.                              *)
(***************************************************************************)
RECURSIVE BootBigger(_, _, _, _), BootReaders(_, _, _, _)
BootBigger(s, first, k, todo) ==
  IF todo = {} THEN s
  ELSE LET r == CHOOSE x \in todo : \A y \in todo : x <= y
           its_size == s.page_size[r]
           start == first + its_size - 1 - 2 * (first % its_size)
           s1 == [SET_DELETE(s, start .. start + its_size - 1, {r})
                    EXCEPT !.wild = @ \/ start + its_size > NumPages]
       IN  BootBigger(s1, first, k, todo \ {r})

BootReaders(s, m, last, k) ==
  IF m > last THEN s
  ELSE LET K == IF s.use[m] = "READ" THEN s.user[m] \ {k} ELSE {}
           s1 == [s EXCEPT !.user = [p \in Pages |-> @[p] \ {r \in K : p \in m .. m + s.page_size[r] - 1}]]
       IN  BootReaders(LOCK_READER(s1, K, m), m + 1, last, k)

(* k becomes the writer of the range; a kernel that is still among its     *)
(* readers has the data already.                                           *)
Reads(s, range, k) == \E p \in range : s.use[p] = "READ" /\ k \in s.user[p]

BecomesWriter(s, range, k) ==
  [s EXCEPT !.use  = [p \in Pages |-> IF p \in range THEN "WRITE" ELSE @[p]],
            !.user = [p \in Pages |-> IF p \in range THEN Word(k) ELSE @[p]]]

GrantWrite(s, first, last, k, needs_data) ==
  IF needs_data \/ ~Reads(s, first .. last, k)
  THEN DATA_PROVIDED(BecomesWriter(s, first .. last, k), k, first, TRUE)
  ELSE UNLOCK_WRITER(BecomesWriter(s, first .. last, k), k, first)

add_writer(s, first, last, k, needs_data) ==
  LET bigger == IF s.use[first] = "READ"
                THEN {r \in s.user[first] : s.page_size[r] > s.page_size[k]} ELSE {}
  IN  GrantWrite(BootReaders(BootBigger(s, first, k, bigger), first, last, k), first, last, k, needs_data)

(***************************************************************************)
(* Lock out the writers in the range of request r from page m on; each one *)
(* gets r as its head, is marked for the timeout, and is counted.          *)
(***************************************************************************)
RECURSIVE BootWriters(_, _, _)
BootWriters(s, r, m) ==
  IF m > s.req[r].last THEN s
  ELSE IF s.use[m] # "WRITE" THEN BootWriters(s, r, m + 1)
  ELSE LET w == WriterIn(s.user[m])
           s1 == LOCK_WRITER(req_mark([s EXCEPT !.head[m] = r, !.req[r].count = @ + 1], r, w), w, m)
       IN  BootWriters(s1, r, m + s.page_size[w])

add_expecting(s0, r) ==
  LET first == s0.req[r].first
      last  == s0.req[r].last
      s == [s0 EXCEPT !.req[r].count = 0, !.req[r].follow = 0, !.req[r].sibling = 0,
                      !.tail = [p \in Pages |-> IF p \in first .. last THEN r ELSE @[p]]]
      w == WriterIn(s.user[first])
  IN  IF s.use[first] = "WRITE" /\ s.page_size[w] > s.page_size[s.req[r].kernel]
      THEN LOCK_WRITER(req_mark([s EXCEPT !.head[first] = r], r, w), w,
                       first - (first % s.page_size[w]))
      ELSE BootWriters(s, r, first)

(***************************************************************************)
(* add_sleeping: follow every unfollowed tail in the range; if there is    *)
(* none, become a sibling among the followers of a bigger request.         *)
(***************************************************************************)
RECURSIVE BeforeSibling(_, _, _)
BeforeSibling(s, f, r) ==
  LET n == s.req[f].sibling
  IN  IF n # 0 /\ s.req[n].first < s.req[r].first THEN BeforeSibling(s, n, r) ELSE f

add_sleeping(s, r) ==
  LET range == s.req[r].first .. s.req[r].last
      old == {s.tail[p] : p \in range} \ {0}
      unfollowed == {t \in old : s.req[t].follow = 0}
      s1 == [s EXCEPT !.tail = [p \in Pages |-> IF p \in range THEN r ELSE @[p]],
                      !.req = [t \in Requests |->
                         IF t \in unfollowed THEN [@[t] EXCEPT !.follow = r]
                         ELSE IF t = r THEN [@[t] EXCEPT !.count = Cardinality(unfollowed),
                                                        !.follow = 0, !.sibling = 0]
                         ELSE @[t]]]
      oldtail == s.tail[s.req[r].first]
      f == s1.req[oldtail].follow
      b == BeforeSibling(s1, f, r)
  IN  IF unfollowed # {} THEN s1
      ELSE IF oldtail = 0 \/ (s1.req[b].sibling = 0 /\ b # f)
      THEN [s1 EXCEPT !.wild = TRUE]        \* the code follows a null pointer
      ELSE IF s1.req[f].first > s1.req[r].first
      THEN [s1 EXCEPT !.req[oldtail].follow = r, !.req[r].sibling = f]
      ELSE [s1 EXCEPT !.req[r].sibling = s1.req[b].sibling, !.req[b].sibling = r]

(***************************************************************************)
(* satisfy_request: give request r what it waits for, then wake its        *)
(* followers: a bigger follower counts down and boots the writers that are *)
(* left, smaller ones are served at once behind a reader and become heads  *)
(* behind a writer.  For a request whose kernel was closed the code leaves *)
(* first_page, last_page and use unset and goes on to use them.            *)
(***************************************************************************)
HaveWriter(s, first, last) == \E p \in first .. last : s.use[p] = "WRITE"

RECURSIVE satisfy_request(_, _), SatisfyAll(_, _), MarkAll(_, _, _)
SatisfyAll(s, r) ==
  IF r = 0 \/ s.wild THEN s
  ELSE SatisfyAll(req_free(satisfy_request(s, r), r), s.req[r].sibling)

(* Variant: the follower is marked but not put at the head of its page.    *)
MarkAll_headless(s, r, w) == req_mark(s, r, w)

MarkAll(s, r, w) ==
  IF r = 0 THEN s
  ELSE MarkAll(req_mark([s EXCEPT !.head[s.req[r].first] = r], r, w), s.req[r].sibling, w)

(* What the request waits for; its tails are cleared.                      *)
Grant(s, r, k, first, last) ==
  LET granted == [s EXCEPT !.ww[first] = @ \ {k}, !.dw[first] = @ \ {k},
                           !.stolen = @ \/ HaveWriter(s, first, last)]
      served == IF k \in s.ww[first] THEN add_writer(granted, first, last, k, k \in s.dw[first])
                                     ELSE add_reader(granted, first, last, k)
  IN  [served EXCEPT !.tail = [p \in Pages |-> IF p \in first .. last /\ @[p] = r THEN 0 ELSE @[p]]]

(* A bigger follower f of a request that was satisfied.                    *)
Countdown(s, f) == [s EXCEPT !.req[f].count = @ - 1]

WakeIfCountedDown(s, f) ==
  IF s.req[f].count = 0 THEN req_free(satisfy_request(s, f), f) ELSE s

WakeBigger(s, f) ==
  IF s.req[f].count > 0 THEN s ELSE WakeIfCountedDown(BootWriters(s, f, s.req[f].first), f)

(* Variant: the followers of a writer are served with it.                  *)
Wake_serves(s, f, k, first, last, write) ==
  IF f = 0 THEN s
  ELSE IF s.req[f].first < first \/ s.req[f].last > last THEN WakeBigger(Countdown(s, f), f)
  ELSE SatisfyAll(s, f)

Wake(s, f, k, first, last, write) ==
  IF f = 0 THEN s
  ELSE IF s.req[f].first < first \/ s.req[f].last > last THEN WakeBigger(Countdown(s, f), f)
  ELSE IF write THEN MarkAll(LOCK_WRITER(s, k, first), f, k)
  ELSE SatisfyAll(s, f)

satisfy_request(s, r) ==
  LET req == s.req[r]
  IN  IF req.kernel = -1 THEN [s EXCEPT !.wild = TRUE]
      ELSE Wake(Grant(s, r, req.kernel, req.first, req.last), req.follow, req.kernel, req.first, req.last,
                req.kernel \in s.ww[req.first])

(***************************************************************************)
(* The exported routines.  A kernel that is writing and has not been       *)
(* locked out gets its page again; one that already waits is not queued    *)
(* twice; else the page is granted or a request is queued.                 *)
(***************************************************************************)
(* Variant: a writer that was told to leave is not noticed.                *)
Evicted_never(s, first, last) == FALSE

Evicted(s, first, last) == \E p \in first .. last : s.tail[p] # 0

HaveExpecting(s, first, last) == \E p \in first .. last : s.use[p] = "WRITE" /\ s.tail[p] # 0

Enqueue(s, k, first, last, write, needs_data) ==
  LET r == CHOOSE x \in s.free : \A y \in s.free : x <= y
      s1 == [s EXCEPT !.free = @ \ {r},
                      !.req[r].kernel = k, !.req[r].first = first, !.req[r].last = last,
                      !.ww[first] = IF write THEN @ \cup {k} ELSE @,
                      !.dw[first] = IF needs_data THEN @ \cup {k} ELSE @]
  IN  IF HaveExpecting(s, first, last) THEN add_sleeping(s1, r) ELSE add_expecting(s1, r)

Add_reading_kernel(s, k, first, needs_data) ==
  LET last == LastPage(s, k, first)
  IN  IF Writes(s, k, first) /\ ~Evicted(s, first, last)
      THEN IF needs_data THEN DATA_PROVIDED(s, k, first, TRUE) ELSE UNLOCK_WRITER(s, k, first)
      ELSE IF k \in s.ww[first] \/ k \in s.dw[first] \/ ~needs_data THEN s
      ELSE IF s.use[first] = "READ" /\ k \in s.user[first] THEN DATA_PROVIDED(s, k, first, FALSE)
      ELSE IF ~HaveWriter(s, first, last) THEN add_reader(s, first, last, k)
      ELSE Enqueue(s, k, first, last, FALSE, TRUE)

Add_writing_kernel(s, k, first, needs_data) ==
  LET last == LastPage(s, k, first)
  IN  IF Writes(s, k, first) /\ ~Evicted(s, first, last)
      THEN IF needs_data THEN DATA_PROVIDED(s, k, first, TRUE) ELSE UNLOCK_WRITER(s, k, first)
      ELSE IF k \in s.ww[first]
      THEN [s EXCEPT !.dw[first] = IF needs_data THEN @ \cup {k} ELSE @]
      ELSE IF k \in s.dw[first] THEN [s EXCEPT !.ww[first] = @ \cup {k}]
      ELSE IF ~HaveWriter(s, first, last) THEN add_writer(s, first, last, k, needs_data)
      ELSE Enqueue(s, k, first, last, TRUE, needs_data)

(***************************************************************************)
(* Subtract_kernel: written-back data is stored and that is all; a         *)
(* completed lock frees the pages and serves whoever waited for them.      *)
(***************************************************************************)
RECURSIVE ServeHeads(_, _, _, _)
ServeHeads(s, m, last, k) ==
  IF m > last \/ s.wild THEN s
  ELSE IF s.head[m] = 0 THEN ServeHeads(s, m + 1, last, k)
  ELSE LET r == s.head[m]
           s1 == satisfy_request(req_unmark([s EXCEPT !.head[m] = 0], r, k), r)
       IN  ServeHeads(req_free(s1, r), s.req[r].last + 1, last, k)

(* Variant: the data a writer sends back is not kept.                      *)
Store_dropped(s, k, first, data) == s

Store(s, k, first, data) ==
  IF ~Writes(s, k, first) THEN s
  ELSE [s EXCEPT !.storage = [p \in Pages |-> IF p \in DOMAIN data THEN data[p] ELSE @[p]]]

Subtract_kernel(s, k, first) ==
  LET last == LastPage(s, k, first)
      s1 == [s EXCEPT !.use = [p \in Pages |-> IF p \in first .. last THEN "NONE" ELSE @[p]]]
      r == s.head[first]
      s2 == [req_unmark([s1 EXCEPT !.head[first] = 0], r, k) EXCEPT !.req[r].count = @ - 1]
  IN  IF ~Writes(s, k, first) THEN s
      ELSE IF r # 0 /\ (s.req[r].first < first \/ s.req[r].last > last)
      THEN IF s2.req[r].count = 0 THEN req_free(satisfy_request(s2, r), r) ELSE s2
      ELSE ServeHeads(s1, first, last, k)

(***************************************************************************)
(* Kernel_close: the requests of the kernel lose their owner, its pages    *)
(* are freed in order, its slot is empty again.                            *)
(***************************************************************************)
RECURSIVE ClosePages(_, _, _)
ClosePages(s, k, m) ==
  IF m = NumPages \/ s.wild THEN s
  ELSE LET s1 == IF s.use[m] = "READ" THEN [s EXCEPT !.user[m] = @ \ {k}]
                 ELSE IF Writes(s, k, m) THEN Subtract_kernel(s, k, m) ELSE s
       IN  ClosePages([s1 EXCEPT !.ww[m] = @ \ {k}, !.dw[m] = @ \ {k}], k, m + 1)

Kernel_close(s, k) ==
  LET s1 == [s EXCEPT !.req = [r \in Requests |->
                         IF @[r].kernel = k THEN [@[r] EXCEPT !.kernel = -1] ELSE @[r]]]
  IN  [ClosePages(s1, k, 0) EXCEPT !.port[k] = NULL, !.outstanding[k] = [m \in {0, 1} |-> 0]]

(* Each round closes the kernels that owe an answer since the round before. *)
RECURSIVE TimeOutFrom(_, _, _)
TimeOutFrom(s, k, newmark) ==
  IF k = NumKernels \/ s.wild THEN s
  ELSE TimeOutFrom(IF s.outstanding[k][newmark] > 0 THEN Kernel_close(s, k) ELSE s, k + 1, newmark)
timed_out(s) == [TimeOutFrom(s, 0, 1 - s.mark) EXCEPT !.mark = 1 - s.mark]

(***************************************************************************)
(* The object thread's message handlers.                                   *)
(***************************************************************************)
SlotOf(s, q) == {k \in Slots : s.port[k] = q}     \* port_to_kernel

(* The kernel gets the first free slot, and its port is registered with    *)
(* the main thread under that slot; nobody ever takes it out again.        *)
memory_object_init(s, q) ==
  IF SlotOf(s, NULL) = {} THEN s
  ELSE LET k == CHOOSE x \in SlotOf(s, NULL) : \A y \in SlotOf(s, NULL) : x <= y
       IN  SendAll([s EXCEPT !.port[k] = q, !.page_size[k] = set.size[q], !.registry[q] = {k}],
                   {k}, [type |-> "ready"])

memory_object_request(s, m) ==
  IF SlotOf(s, m.port) = {}
  THEN [s EXCEPT !.net[m.port] = Append(@, [type |-> "error", first |-> m.first])]
  ELSE LET k == CHOOSE x \in SlotOf(s, m.port) : TRUE
       IN  IF m.write THEN Add_writing_kernel(s, k, m.first, m.type = "data_request")
                      ELSE Add_reading_kernel(s, k, m.first, m.type = "data_request")

Handle(s, m) ==
  CASE m.type = "init" -> memory_object_init(s, m.port)
    [] m.type \in {"data_request", "data_unlock"} -> memory_object_request(s, m)
    [] m.type = "data_write" ->
         IF SlotOf(s, m.port) = {} THEN s
         ELSE Store(s, CHOOSE k \in SlotOf(s, m.port) : TRUE, m.first, m.val)
    [] m.type = "lock_completed" ->
         IF SlotOf(s, m.port) = {} THEN s
         ELSE Subtract_kernel(s, CHOOSE k \in SlotOf(s, m.port) : TRUE, m.first)
    [] m.type = "port_death" -> Kernel_close(s, m.slot)
    [] m.type = "timed_out" -> timed_out(s)

(* What a program wrote on a host that is closed is lost with it.          *)
LatestKept(s, t) ==
  [p \in Pages |-> IF /\ s.use[p] = "WRITE"
                      /\ s.port[WriterIn(s.user[p])] # t.port[WriterIn(s.user[p])]
                   THEN t.storage[p] ELSE latest[p]]

ObjectThread ==
  /\ inq # <<>> /\ ~obj.wild
  /\ LET s == Handle([obj EXCEPT !.net = net], Head(inq))
     IN  /\ obj' = [s EXCEPT !.net = <<>>]
         /\ net' = s.net
         /\ latest' = LatestKept(obj, s)
  /\ inq' = Tail(inq)
  /\ UNCHANGED <<page, val, down, spent, set>>

(* periodic_routine posts a message every TIMEOUT seconds.                 *)
PeriodicRoutine ==
  /\ spent.timeouts < set.timeouts /\ Len(inq) < MaxQueue
  /\ spent' = [spent EXCEPT !.timeouts = @ + 1]
  /\ inq' = Append(inq, [type |-> "timed_out"])
  /\ UNCHANGED <<obj, net, page, val, latest, down, set>>

(* A host crashes (external).  handle_port_death sends the object thread a *)
(* message with the slot the port was registered under, even if the slot   *)
(* has been closed since, or given to another kernel.                      *)
handle_port_death(q) ==
  /\ Cardinality(down) < set.crashes /\ q \notin down /\ Len(inq) < MaxQueue
  /\ \E k \in obj.registry[q] : inq' = Append(inq, [type |-> "port_death", slot |-> k])
  /\ down' = down \cup {q}
  /\ net' = [net EXCEPT ![q] = <<>>]
  /\ UNCHANGED <<obj, page, val, latest, spent, set>>

(***************************************************************************)
(* The kernels (external).  A page of a kernel is "unmapped" or "opening"  *)
(* until the object is ready, then "none" (not resident), "absent" (asked  *)
(* for), "read", "unlock" (read, write access asked for) or "write".       *)
(***************************************************************************)
KPages(q) == {p \in Pages : p % set.size[q] = 0}
Span(q, p) == p .. p + set.size[q] - 1
Dirty(q, p) == page[q][p].dirty
SetPage(q, p, a) == page' = [page EXCEPT ![q][p] = [access |-> a, dirty |-> FALSE]]
ToServer(ms) == inq' = inq \o ms
Room(n) == Len(inq) + n <= MaxQueue
Copy(q, p) == [x \in Span(q, p) |-> val[q][x]]

Map(q) ==
  /\ q \in set.late \ down /\ Room(1)
  /\ \A p \in KPages(q) : page[q][p].access = "unmapped"
  /\ page' = [page EXCEPT ![q] = [p \in KPages(q) |-> [access |-> "opening", dirty |-> FALSE]]]
  /\ ToServer(<<[type |-> "init", port |-> q]>>)
  /\ UNCHANGED <<obj, net, val, latest, down, spent, set>>

Fault(q, p, write) ==
  /\ q \notin down /\ Room(1) /\ Len(net[q]) < MaxNet
  /\ \/ /\ page[q][p].access = "none"
        /\ SetPage(q, p, "absent")
        /\ ToServer(<<[type |-> "data_request", port |-> q, first |-> p, write |-> write]>>)
     \/ /\ page[q][p].access = "read" /\ write
        /\ SetPage(q, p, "unlock")
        /\ ToServer(<<[type |-> "data_unlock", port |-> q, first |-> p, write |-> TRUE]>>)
  /\ UNCHANGED <<obj, net, val, latest, down, spent, set>>

(* A program stores into a page its kernel may write.                      *)
Write(q, p) ==
  /\ q \notin down /\ page[q][p].access = "write"
  /\ SlotOf(obj, q) # {}
  /\ \A x \in Span(q, p) : latest[x] < MaxWrites
  /\ latest' = [x \in Pages |-> IF x \in Span(q, p) THEN latest[x] + 1 ELSE latest[x]]
  /\ val' = [val EXCEPT ![q] = [x \in Pages |-> IF x \in Span(q, p) THEN latest[x] + 1 ELSE @[x]]]
  /\ page' = [page EXCEPT ![q][p].dirty = TRUE]
  /\ UNCHANGED <<obj, inq, net, down, spent, set>>

WriteBack(q, p) ==
  IF Dirty(q, p) THEN <<[type |-> "data_write", port |-> q, first |-> p, val |-> Copy(q, p)]>> ELSE <<>>

(* The page daemon takes a page, writing it back if it is dirty.           *)
PageOut(q, p) ==
  /\ q \notin down /\ Room(1)
  /\ q \in set.pagers /\ q \notin spent.pagers
  /\ page[q][p].access \in {"read", "unlock", "write"}
  /\ spent' = [spent EXCEPT !.pagers = @ \cup {q}]
  /\ SetPage(q, p, "none")
  /\ ToServer(WriteBack(q, p))
  /\ UNCHANGED <<obj, net, val, latest, down, set>>

(* Data fills a page that is asked for, or a page that is not resident;    *)
(* a resident page is left alone.                                          *)
TakeData(q, m) ==
  /\ IF page[q][m.first].access \in {"absent", "none"}
     THEN /\ page' = [page EXCEPT ![q][m.first] =
                        [access |-> IF m.write THEN "write" ELSE "read", dirty |-> FALSE]]
          /\ val' = [val EXCEPT ![q] = [x \in Pages |-> IF x \in DOMAIN m.val THEN m.val[x] ELSE @[x]]]
     ELSE UNCHANGED <<page, val>>
  /\ UNCHANGED inq

TakeLock(q, m) ==
  /\ IF page[q][m.first].access \in {"read", "unlock", "write"}
     THEN SetPage(q, m.first, "none") ELSE UNCHANGED page
  /\ ToServer((IF m.reply THEN WriteBack(q, m.first) ELSE <<>>) \o
              (IF m.reply THEN <<[type |-> "lock_completed", port |-> q, first |-> m.first]>> ELSE <<>>))
  /\ UNCHANGED val

TakeOther(q, m) ==
  /\ CASE m.type = "ready" ->
            page' = [page EXCEPT ![q] = [p \in KPages(q) |-> [access |-> "none", dirty |-> FALSE]]]
       [] m.type = "unlock" ->
            IF page[q][m.first].access \in {"read", "unlock"} THEN SetPage(q, m.first, "write")
                                                             ELSE UNCHANGED page
       [] m.type = "error" ->
            IF page[q][m.first].access = "absent" THEN SetPage(q, m.first, "none") ELSE UNCHANGED page
  /\ UNCHANGED <<val, inq>>

KernelReceives(q) ==
  /\ q \notin down /\ net[q] # <<>>
  /\ LET m == Head(net[q])
     IN  \/ m.type = "data" /\ TakeData(q, m)
         \/ m.type = "lock" /\ TakeLock(q, m)
         \/ m.type \in {"ready", "unlock", "error"} /\ TakeOther(q, m)
  /\ net' = [net EXCEPT ![q] = Tail(@)]
  /\ UNCHANGED <<obj, latest, down, spent, set>>

Init ==
  /\ set \in Settings
  /\ obj = [use |-> [p \in Pages |-> "NONE"], user |-> [p \in Pages |-> {}],
            head |-> [p \in Pages |-> 0], tail |-> [p \in Pages |-> 0],
            ww |-> [p \in Pages |-> {}], dw |-> [p \in Pages |-> {}],
            storage |-> [p \in Pages |-> 0],
            req |-> [r \in Requests |-> NoRequest], free |-> Requests,
            port |-> [k \in Slots |-> IF k < Len(set.opened) THEN set.opened[k + 1] ELSE NULL],
            page_size |-> [k \in Slots |-> IF k < Len(set.opened) THEN set.size[set.opened[k + 1]] ELSE 1],
            outstanding |-> [k \in Slots |-> [m \in {0, 1} |-> 0]], mark |-> 0,
            registry |-> [q \in Ports |-> {k \in Slots : k < Len(set.opened) /\ set.opened[k + 1] = q}],
            net |-> <<>>, wild |-> FALSE, stolen |-> FALSE]
  /\ inq = <<>>
  /\ net = [q \in Ports |-> <<>>]
  /\ page = [q \in Ports |-> [p \in KPages(q) |->
               [access |-> IF q \in Range(set.opened) THEN "none" ELSE "unmapped", dirty |-> FALSE]]]
  /\ val = [q \in Ports |-> [p \in Pages |-> 0]]
  /\ latest = [p \in Pages |-> 0]
  /\ down = {}
  /\ spent = [timeouts |-> 0, pagers |-> {}]

KernelStep(q) ==
  \/ Map(q) \/ KernelReceives(q)
  \/ \E p \in KPages(q) : \/ Write(q, p) \/ PageOut(q, p)
                          \/ \E w \in BOOLEAN : (w => q \notin set.readonly) /\ Fault(q, p, w)

Next == \/ ObjectThread \/ PeriodicRoutine
        \/ \E q \in Ports : KernelStep(q) \/ handle_port_death(q)

Spec == Init /\ [][Next]_vars

(* The object thread and every kernel keep reading their messages.  (Only  *)
(* ObjectThread shortens inq.)                                             *)
Fairness == WF_inq(~obj.wild /\ inq # <<>> /\ inq' = Tail(inq)) /\ \A q \in Ports : WF_vars(KernelReceives(q))

(***************************************************************************)
(* Properties.                                                             *)
(***************************************************************************)
Known(q) == q \notin down /\ SlotOf(obj, q) # {}
Access(q, p) == page[q][p].access

(* Two kernels the server knows never both have write access to a page:    *)
(* add_writer is only reached when Subtract_kernel has heard of every      *)
(* earlier writer.                                                         *)
OneWriter ==
  \A q1, q2 \in {q \in Ports : Known(q)} : q1 # q2 =>
    \A p1 \in KPages(q1), p2 \in KPages(q2) :
      Span(q1, p1) \cap Span(q2, p2) # {} => ~(Access(q1, p1) = "write" /\ Access(q2, p2) = "write")

(* No update is lost on the way from writer to writer: who may write a     *)
(* page holds its last version.  Kernels that gave up a page by themselves *)
(* are left out: data that crossed their page-out may fill the page again. *)
WriterIsFresh ==
  \A q \in {x \in Ports : Known(x) /\ x \notin spent.pagers} : \A p \in KPages(q) :
    Access(q, p) = "write" => \A x \in Span(q, p) : val[q][x] = latest[x]

(* "We do not wait for readers to acknowledge that they have been kicked   *)
(* off": a kernel that reads an old version has the request that flushes   *)
(* it on the way, and no grant of write access before that.                *)
StaleReaderIsDoomed ==
  \A q \in {x \in Ports : Known(x) /\ x \notin spent.pagers} : \A p \in KPages(q) :
    Access(q, p) \in {"read", "unlock"} =>
      \/ \A x \in Span(q, p) : val[q][x] = latest[x]
      \/ \E i \in DOMAIN net[q] : /\ net[q][i].type = "lock" /\ net[q][i].first = p
                                  /\ \A j \in 1 .. i - 1 : net[q][j].type # "unlock"

(* Whoever faults on a page gets an answer, unless its host goes down or   *)
(* the server has come upon the request of a closed kernel (see            *)
(* ClosedKernelsAreHandled): no request is forgotten behind a writer.      *)
FaultIsServed ==
  \A q \in Ports : \A p \in Pages :
    []<>(q \notin down /\ p \in DOMAIN page[q] /\ Access(q, p) \in {"absent", "unlock"}
           => obj.wild)

(* Kernel_close leaves the requests of the kernel in the queue without an  *)
(* owner: "Satisfy_request knows how to deal with -1 kernels."  When it    *)
(* comes to one it uses no variable that it has not set.                   *)
ClosedKernelsAreHandled == ~obj.wild

(* The invariant the code states at the head of satisfy_request: "Request  *)
(* has count == 0 and all writers are gone."                               *)
AllWritersGone == ~obj.stolen
=============================================================================
