-------------------------------- MODULE MCNet -------------------------------
(***************************************************************************)
(* Instances for TLC of the components that talk to other hosts: the       *)
(* network shared memory server (NetMemory), and in the kernel the IMP     *)
(* interface (Imp) and the lock manager client (LockClient).  A behaviour  *)
(* runs one of them; the variables of the others stay as they are at       *)
(* first.                                                                  *)
(***************************************************************************)
EXTENDS Imp, TLC
CONSTANTS Components,           \* those to be checked
          NULL, k1, k2, k3,     \* of NetMemory
          Settings, NumPages,
          Nobody, p1, p2,       \* of LockClient
          h1, h2                \* of Imp
VARIABLES component,
          obj, inq, net, page, val, latest, down, set, spent,
          proc, lm_port, timers, sig, mgr, pmap, lm_budget

nmvars == <<obj, inq, net, page, val, latest, down, set, spent>>
lmvars == <<proc, lm_port, timers, sig, mgr, pmap, lm_budget>>
-----------------------------------------------------------------------------
Equal(n) == [x \in {k1, k2, k3} |-> n]
(* Two kernels that read and write, and a reader.                          *)
Steady == [size |-> Equal(1), opened |-> <<k1, k2, k3>>, late |-> {}, readonly |-> {k3},
           pagers |-> {}, crashes |-> 0, timeouts |-> 0]
(* Two kernels that read, write and page out.                              *)
Paging == [Steady EXCEPT !.opened = <<k1, k2>>, !.pagers = {k1, k2}]
(* A host crashes while another reads and writes and a third opens to      *)
(* read.                                                                   *)
Crash == [Steady EXCEPT !.opened = <<k1, k2>>, !.late = {k3}, !.readonly = {k2, k3}, !.crashes = 1]
(* Kernels that are slow to answer are closed by the second timeout, and a *)
(* host crashes.                                                           *)
Timeout == [Crash EXCEPT !.readonly = {k1, k3}, !.timeouts = 2]
(* Kernels of different page sizes.                                        *)
Mixed == [Steady EXCEPT !.size = (k1 :> 1) @@ (k2 :> 2) @@ (k3 :> 1), !.opened = <<k1, k2>>]
EqualSizes == {Steady, Paging, Crash, Timeout}
MixedSizes == {Mixed}

NM == INSTANCE NetMemory WITH
        Ports <- {k1, k2, k3}, NumKernels <- 3, MaxWrites <- 1, MaxQueue <- 2, MaxNet <- 2

(* Two processes that lock, test and unlock; with signals; with timeouts   *)
(* that come too early and losses, and a signal or more timeouts; with     *)
(* refusals; with a restart of the manager, and a signal or a timeout;     *)
(* with sends that fail and a manager out of resources.                    *)
Quiet == [calls |-> (p1 :> 2) @@ (p2 :> 2), ops |-> {"lockw", "LOCK", "UNLOCK", "TEST"}, signals |-> {},
          timeouts |-> 0, losses |-> 0, errors |-> 0, nolocks |-> 0, restarts |-> 0]
Signals == [Quiet EXCEPT !.ops = {"lockw", "UNLOCK"}, !.signals = {p1, p2}]
Late == [Quiet EXCEPT !.calls = (p1 :> 2) @@ (p2 :> 1), !.ops = {"lockw", "UNLOCK"}, !.signals = {p1},
                      !.timeouts = 1, !.losses = 1]
Later == [Late EXCEPT !.signals = {}, !.timeouts = 2]
Refused == [Late EXCEPT !.ops = {"lockw", "LOCK", "UNLOCK"}, !.losses = 0]
Restarts == [Late EXCEPT !.ops = {"lockw", "LOCK"}, !.losses = 0, !.timeouts = 0, !.restarts = 1]
LateRestarts == [Restarts EXCEPT !.signals = {}, !.timeouts = 1]
Errors == [Quiet EXCEPT !.calls = (p1 :> 2) @@ (p2 :> 1), !.errors = 1, !.nolocks = 1]
Backoff == [Errors EXCEPT !.calls = (p1 :> 1) @@ (p2 :> 1), !.signals = {p1}, !.errors = 2, !.nolocks = 0]

LM == INSTANCE LockClient WITH
        Process <- {p1, p2}, budget <- lm_budget,
        Budgets <- {Quiet, Signals, Late, Later, Refused, Restarts, LateRestarts, Errors, Backoff}

(* Two hosts that share an mbuf, and two of one index, each in its own.    *)
Shared == (h1 :> 1) @@ (h2 :> 2)
Chained == (h1 :> 1) @@ (h2 :> 1)

(* Messages, and hosts that die; errors in data; resets; the IMP going     *)
(* down; a reset of the bus.                                               *)
Calm == [hash |-> Shared, msgs |-> 5, inits |-> 0, dead |-> 0, bad |-> 0, resets |-> 0, downs |-> 0]
Dead == [Calm EXCEPT !.hash = Chained, !.msgs = 4, !.dead = 1]
Bad == [Calm EXCEPT !.msgs = 3, !.bad = 1]
Resets == [Calm EXCEPT !.msgs = 3, !.resets = 1]
Down == [Calm EXCEPT !.msgs = 3, !.downs = 1]
Bus == [Calm EXCEPT !.msgs = 3, !.inits = 1]

ImpBudgets == {Calm, Dead, Bad, Resets, Down, Bus}
OnlyMessages == {Calm, Dead}
-----------------------------------------------------------------------------
NetInit ==
  /\ component \in Components
  /\ NM!Init /\ (component # "netmemory" => set = Steady)
  /\ LM!Init /\ (component # "lockclient" => lm_budget = Quiet)
  /\ Init /\ (component # "imp" => budget = Calm /\ if_snd = << >>)

(* Kernels may stop using the object and processes may stop making calls;  *)
(* the IMP interface goes on for ever.                                     *)
NetNext ==
  \/ component = "netmemory" /\ NM!Next /\ UNCHANGED <<component, vars, lmvars>>
  \/ component = "lockclient" /\ LM!Next /\ UNCHANGED <<component, vars, nmvars>>
  \/ component = "imp" /\ Next /\ UNCHANGED <<component, nmvars, lmvars>>
  \/ component # "imp" /\ UNCHANGED <<component, vars, nmvars, lmvars>>

NetSpec == NetInit /\ [][NetNext]_<<component, vars, nmvars, lmvars>>

(* Processes that lock, timers and the lock manager go on.                 *)
FairLockSpec == NetSpec /\ LM!Fairness
-----------------------------------------------------------------------------
(* Of NetMemory: two kernels the server knows never both have write access *)
(* to a page.                                                              *)
OneWriter == NM!OneWriter

(* Who may write a page holds its last version.                            *)
WriterIsFresh == NM!WriterIsFresh

(* A kernel that reads an old version has the request that flushes it on   *)
(* the way.                                                                *)
StaleReaderIsDoomed == NM!StaleReaderIsDoomed

(* "Request has count == 0 and all writers are gone" (satisfy_request).    *)
AllWritersGone == NM!AllWritersGone

(* "Satisfy_request knows how to deal with -1 kernels" (Kernel_close).     *)
ClosedKernelsAreHandled == NM!ClosedKernelsAreHandled

(* Whoever faults on a page gets an answer, unless its host goes down or   *)
(* satisfy_request met a closed kernel, if the server and the kernels keep *)
(* reading their messages.                                                 *)
FairFaultIsServed == component = "netmemory" /\ NM!Fairness => NM!FaultIsServed

(* Of LockClient: what klm_lockctl returns is true of the lock.            *)
ResultIsTrue == LM!ResultIsTrue

(* A command ends, unless another process has the lock or the process lost *)
(* its timer.                                                              *)
FairCommandEnds == component = "lockclient" /\ LM!Fairness => LM!CommandEnds

(* "on RPC error, wait a bit and try again" (talk_to_lockmgr).             *)
BackoffEnds == LM!BackoffEnds

(* Of Imp: a message that is held leaves its queue, while the clock runs.  *)
FairHeldMessageLeaves == component = "imp" /\ Fairness => HeldMessageLeaves
=============================================================================
