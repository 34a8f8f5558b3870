------------------------------ MODULE MCLibrary -----------------------------
(***************************************************************************)
(* Instances for TLC of the parts of the library above its mutexes and     *)
(* conditions: CThreads, ForkLocks, and Malloc with few sizes and several  *)
(* pools ("pools") and with every size ("sizes").  A behaviour runs one    *)
(* part; the variables of the others are not used.                         *)
(***************************************************************************)
EXTENDS ForkLocks, Integers, TLC
CONSTANTS Parts,      \* those to be checked
          ThreadCproc,   \* the cprocs of CThreads
          Record, NO_CTHREAD, MaxForks, MaxUnixForks, Limits   \* of CThreads
VARIABLES part,
          cthreads, free_cthreads, n_cprocs, n_cthreads, max_cprocs, cthread_needed, cthread_idle,
          record, pc, incarnation, t, want, handles, forks, unix_forks, status,
          head, pool, size, pool_size, brk, blocks

ctvars == <<cthreads, free_cthreads, n_cprocs, n_cthreads, max_cprocs, cthread_needed, cthread_idle,
            record, pc, incarnation, t, want, handles, forks, unix_forks, status>>
mlvars == <<head, pool, size, pool_size, brk, blocks>>

CT == INSTANCE CThreads WITH Cproc <- ThreadCproc

(* One size for each of the free lists of blocks smaller than, as large as *)
(* and larger than a page, and larger than a pool, with 0 and the largest  *)
(* size, which malloc refuses.                                             *)
Pools == INSTANCE Malloc WITH
           Width <- 8, vm_page_size <- 8, malloc_pool_size <- 5, MemorySize <- 104,
           Requests <- {0, 4, 12, 28, 60, 2^8 - 1}, MaxBlocks <- 4

(* Every size of an unsigned int.                                          *)
Sizes == INSTANCE Malloc WITH
           Width <- 6, vm_page_size <- 16, malloc_pool_size <- 2, MemorySize <- 64,
           Requests <- 0 .. 2^6 - 1, MaxBlocks <- 2

ASSUME CT!CThreadsAssumption /\ ForkLocksAssumption /\ Pools!MallocAssumption /\ Sizes!MallocAssumption

LibraryInit ==
  /\ part \in Parts
  /\ IF part = "cthreads"
     THEN CT!Init
     ELSE /\ cthreads = 0 /\ free_cthreads = 0 /\ n_cprocs = 0 /\ n_cthreads = 0 /\ max_cprocs = 0
          /\ cthread_needed = 0 /\ cthread_idle = 0 /\ record = 0 /\ pc = 0 /\ incarnation = 0 /\ t = 0
          /\ want = 0 /\ handles = 0 /\ forks = 0 /\ unix_forks = 0 /\ status = 0
  /\ Init
  /\ CASE part = "pools" -> Pools!Init
       [] part = "sizes" -> Sizes!Init
       [] OTHER -> head = 0 /\ pool = 0 /\ size = 0 /\ pool_size = 0 /\ brk = 0 /\ blocks = 0

LibraryNext ==
  \/ part = "cthreads" /\ CT!Next /\ UNCHANGED <<part, vars, mlvars>>
  \/ part = "forklocks" /\ Next /\ UNCHANGED <<part, ctvars, mlvars>>
  \/ part = "pools" /\ Pools!Next /\ UNCHANGED <<part, ctvars, vars>>
  \/ part = "sizes" /\ Sizes!Next /\ UNCHANGED <<part, ctvars, vars>>

(* The threads of a program may stop for good; malloc always returns.      *)
MayStop == part \in {"cthreads", "forklocks"} /\ UNCHANGED <<part, ctvars, vars, mlvars>>

LibrarySpec == LibraryInit /\ [][LibraryNext \/ MayStop]_<<part, ctvars, vars, mlvars>>

(* Cprocs are interchangeable.                                             *)
Symmetry == Permutations(Cproc)
-----------------------------------------------------------------------------
(* Of CThreads: a record is freed once, and nobody uses a free record as a *)
(* thread.                                                                 *)
NoUseAfterFree == part = "cthreads" => CT!NoUseAfterFree

(* A join is answered by the thread it was called for.                     *)
JoinGetsItsThread == part = "cthreads" => CT!JoinGetsItsThread

(* "... to insure no cthread data structure is left in an inconsistent     *)
(* state in the child" (cthread_fork_prepare): the child frees each record *)
(* of the other threads once, and no lock it can still use is held by a    *)
(* thread that is gone.                                                    *)
ForkChildIsConsistent ==
  /\ part = "cthreads" => CT!ForkChildFreesOnce
  /\ part = "forklocks" => LocksFreedInChild

(* Of Malloc: every byte from the kernel is in exactly one block or pool,  *)
(* with blocks from several pools and with blocks of every size.           *)
MemoryIsPartitioned ==
  /\ part = "pools" => Pools!MemoryIsPartitioned
  /\ part = "sizes" => Sizes!MemoryIsPartitioned

(* A block is the smallest that fits the size asked for and the header,    *)
(* and malloc refuses exactly the sizes that are 0 or too large.           *)
BlockFits == part = "sizes" => Sizes!BlockFits
=============================================================================
