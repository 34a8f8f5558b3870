------------------------------- MODULE MCUser -------------------------------
(***************************************************************************)
(* Instances for TLC of user level code: the two builds of the mutexes and *)
(* conditions of C Threads (CProcs, Coroutine), its threads (CThreads) and *)
(* locks (ForkLocks) with fewer cprocs than in MCLibrary, and Sun RPC over *)
(* UDP (RpcUdp).  A behaviour runs one component; the variables of the     *)
(* others stay as they are at first.                                       *)
(***************************************************************************)
EXTENDS CProcs, TLC
CONSTANTS Components,       \* those to be checked
          p1, p2, p3, p4, NO_CTHREAD, Free, a1, a2, x1, x2
VARIABLES component,
          cr_ready, cr_n_blocked, cr_queue, cr_state, cr_mutex, cr_held, cr_pc, cr_aborted,
          cthreads, free_cthreads, n_cprocs, n_cthreads, max_cprocs, cthread_needed, cthread_idle,
          record, ct_pc, incarnation, t, want, handles, forks, unix_forks, status,
          owner, todo, reply_port, multithreaded, child,
          clnt, net, srv, cache, buffer, exec, rpc_budget

crvars == <<cr_ready, cr_n_blocked, cr_queue, cr_state, cr_mutex, cr_held, cr_pc, cr_aborted>>
ctvars == <<cthreads, free_cthreads, n_cprocs, n_cthreads, max_cprocs, cthread_needed, cthread_idle,
            record, ct_pc, incarnation, t, want, handles, forks, unix_forks, status>>
flvars == <<owner, todo, reply_port, multithreaded, child>>
rpcvars == <<clnt, net, srv, cache, buffer, exec, rpc_budget>>
-----------------------------------------------------------------------------
CR == INSTANCE Coroutine WITH
        Cproc <- {p1, p2, p3, p4}, ready <- cr_ready, n_blocked <- cr_n_blocked,
        queue <- cr_queue, state <- cr_state, mutex <- cr_mutex, held <- cr_held,
        pc <- cr_pc, aborted <- cr_aborted

CT == INSTANCE CThreads WITH
        Cproc <- {p1, p2, p3}, Record <- 1 .. 3, MaxForks <- 2, MaxUnixForks <- 1, Limits <- {0},
        pc <- ct_pc

FL == INSTANCE ForkLocks WITH Cproc <- {p1, p2}, NLISTS <- 2

(* Two clients with the same and with other numbers; one client with       *)
(* several calls; a restart; a call that is rejected and then finds no     *)
(* program.                                                                *)
Two == [calls |-> (a1 :> 1) @@ (a2 :> 1), dups |-> 1, restarts |-> 0, procs |-> {x1},
        first |-> (a1 :> 2) @@ (a2 :> 2), short |-> {}]
Other == [Two EXCEPT !.first[a2] = 0]
Many == [Two EXCEPT !.calls = (a1 :> 3) @@ (a2 :> 0)]
Fail == [Two EXCEPT !.calls = (a1 :> 2) @@ (a2 :> 0), !.restarts = 1]
Reject == [Two EXCEPT !.calls = (a1 :> 1) @@ (a2 :> 0), !.procs = {x1, x2}, !.short = {a1}]

RPC == INSTANCE RpcUdp WITH
         Client <- {a1, a2}, Served <- {x1}, XidMod <- 4, Timeouts <- {0, 2}, CacheSize <- 2,
         budget <- rpc_budget, Budgets <- {Two, Other, Many, Fail, Reject}

ASSUME CR!CoroutineAssumption /\ CT!CThreadsAssumption /\ FL!ForkLocksAssumption /\ RPC!RpcAssumption
-----------------------------------------------------------------------------
(* The other components start in one of their initial states.              *)
UserInit ==
  /\ component \in Components
  /\ Init /\ FL!Init
  /\ CR!Init /\ (component # "coroutine" => cr_ready = <<p1>>)
  /\ CT!Init /\ (component # "cthreads" => incarnation[p1] = 1)
  /\ RPC!Init /\ (component # "rpc" => rpc_budget = Two)

UserNext ==
  \/ component = "cprocs" /\ Next
     /\ UNCHANGED <<component, crvars, ctvars, flvars, rpcvars>>
  \/ component = "coroutine" /\ CR!Next
     /\ UNCHANGED <<component, vars, ctvars, flvars, rpcvars>>
  \/ component = "cthreads" /\ CT!Next
     /\ UNCHANGED <<component, vars, crvars, flvars, rpcvars>>
  \/ component = "forklocks" /\ FL!Next
     /\ UNCHANGED <<component, vars, crvars, ctvars, rpcvars>>
  \/ component = "rpc" /\ RPC!Next
     /\ UNCHANGED <<component, vars, crvars, ctvars, flvars>>

UserSpec ==
  UserInit /\ [][UserNext]_<<component, vars, crvars, ctvars, flvars, rpcvars>>
-----------------------------------------------------------------------------
(* Every signal and broadcast of Mach threads returns, if the threads are  *)
(* scheduled fairly.                                                       *)
FairSignallerReturns == component = "cprocs" /\ Fairness => SignallerReturns

(* The COROUTINE build keeps the same promise as the MTHREAD build.        *)
CoroutineImplementsCondVar == CR!CoroutineImplementsCondVar

(* A signalled coroutine returns from its wait if client code yields and   *)
(* does not yield holding the mutex.                                       *)
SignalledReturns == component = "coroutine" => CR!SignalledReturns

(* Of CThreads: a forked thread starts, whatever the others do, when there *)
(* is no limit and the cprocs in the library are scheduled.                *)
FairQueuedThreadStarts == component = "cthreads" /\ CT!LibraryFairness => CT!QueuedThreadStarts

(* When the client's threads end, the process does.                        *)
FairProcessExits == component = "cthreads" /\ CT!LibraryFairness => CT!ProcessExits

(* Of ForkLocks: every call of the library returns if the cprocs and the   *)
(* locks are fair.                                                         *)
FairCallsReturn == component = "forklocks" /\ FL!Fairness => FL!CallsReturn

(* Of RpcUdp: a call that succeeds returns its own results.                *)
AnswerIsForThisCall == RPC!AnswerIsForThisCall

(* The server's cache of replies holds the replies that were sent.         *)
CacheTellsTheTruth == RPC!CacheTellsTheTruth

(* A call returns when datagrams that are not for it stop coming, whatever *)
(* the server does and the network loses.                                  *)
FairCallReturns == component = "rpc" /\ RPC!Fairness => RPC!CallReturns

(* A call whose reply is in the cache is not dispatched again (svc_udp.c). *)
NotDispatchedIfCached == RPC!NotDispatchedIfCached
=============================================================================
