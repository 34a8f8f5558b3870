------------------------------- MODULE Malloc -------------------------------
(***************************************************************************)
(* The storage allocator of the C Threads library: malloc, free, realloc   *)
(* and more_memory of src/mach/lib/threads/malloc.c (MTHREAD, COROUTINE).  *)
(*                                                                         *)
(* A call is one step: its free list is locked for the whole of it, and    *)
(* what calls on two free lists share, the pool, is only touched under     *)
(* malloc_lock (ForkLocks has the nesting of these locks).  Addresses and  *)
(* sizes are bytes; unsigned arithmetic wraps at 2^Width, with as many     *)
(* free lists for that width as the code has for 32 bits.                  *)
(***************************************************************************)
EXTENDS Integers, FiniteSets, Sequences, SequencesExt

CONSTANTS Width,             \* bits of an unsigned int; 32 in the code
          vm_page_size,
          malloc_pool_size,  \* pages that are requested from the kernel at once
          MemorySize,        \* bound: bytes that vm_allocate can provide
          Requests,          \* the sizes client code asks for
          MaxBlocks          \* bound: blocks in use at once

MallocAssumption ==
  /\ Width \in Nat /\ Width > 3
  /\ \E k \in 3 .. Width : vm_page_size = 2^k
  /\ malloc_pool_size \in Nat /\ MemorySize \in Nat /\ MaxBlocks \in Nat
  /\ Requests \subseteq 0 .. 2^Width - 1

VARIABLES
  head,       \* the free lists: head[i] has blocks of 2^(i+3) bytes
  pool,       \* the addresses of the pools, first one first
  size,       \* pool->size of the pool at an address, stale for the first one
  pool_size,  \* what is left of the first pool
  brk,        \* end of the memory obtained from the kernel
  blocks      \* blocks in use, with the free list in the header and the size asked for

vars == <<head, pool, size, pool_size, brk, blocks>>

unsigned(x) == x % 2^Width
header == 4
MIN_SIZE == 8
NBUCKETS == Width - 3
Bucket == 0 .. NBUCKETS - 1
BlockSize(i) == 2^(i + 3)

(* The kernel does not hand out address 0.                                 *)
FirstAddress == vm_page_size
Address == FirstAddress .. FirstAddress + MemorySize

Init ==
  /\ head = [i \in Bucket |-> <<>>]
  /\ pool = <<>> /\ pool_size = 0
  /\ size = [a \in Address |-> 0]
  /\ brk = FirstAddress
  /\ blocks = {}
-----------------------------------------------------------------------------
(* The free list for total bytes: the first i at which the loop stops,     *)
(* where n is MIN_SIZE shifted i times.                                    *)
BucketOf(total) ==
  CHOOSE i \in 0 .. NBUCKETS :
    /\ unsigned(MIN_SIZE * 2^i) >= total \/ i = NBUCKETS
    /\ \A j \in 0 .. i - 1 : unsigned(MIN_SIZE * 2^j) < total

(* more_memory takes amount bytes from the first pool, or from the first   *)
(* other pool that has them, or from the kernel: alone if it is as much as *)
(* a pool, else from a new first pool.  It may find no memory.             *)
FromFirstPool(amount) ==
  LET left == pool_size - amount IN
  [where |-> Head(pool) + left, brk |-> brk, size |-> size,
   pool |-> IF left = 0 THEN Tail(pool) ELSE pool,
   pool_size |-> IF left > 0 THEN left
                 ELSE IF Tail(pool) = <<>> THEN 0 ELSE size[pool[2]]]

OtherPools(amount) == {k \in 2 .. Len(pool) : amount <= size[pool[k]]}

FromPool(k, amount) ==
  LET left == size[pool[k]] - amount IN
  [where |-> pool[k] + left, brk |-> brk, pool_size |-> pool_size,
   size |-> [size EXCEPT ![pool[k]] = left],
   pool |-> IF left = 0 THEN RemoveAt(pool, k) ELSE pool]

FromKernel(amount) ==
  [where |-> brk, brk |-> brk + amount, size |-> size,
   pool |-> pool, pool_size |-> pool_size]

(* Variant: the size left in the old first pool is not saved.              *)
FromNewPool_unsaved(amount) ==
  LET left == vm_page_size * malloc_pool_size - amount IN
  [where |-> brk + left, brk |-> brk + vm_page_size * malloc_pool_size, size |-> size,
   pool |-> <<brk>> \o pool, pool_size |-> left]

FromNewPool(amount) ==
  LET left == vm_page_size * malloc_pool_size - amount IN
  [where |-> brk + left, brk |-> brk + vm_page_size * malloc_pool_size,
   size |-> IF pool = <<>> THEN size ELSE [size EXCEPT ![pool[1]] = pool_size],
   pool |-> <<brk>> \o pool, pool_size |-> left]

Available(n) == brk + n <= FirstAddress + MemorySize

(* The set of results: empty when vm_allocate fails.                       *)
more_memory(n) ==
  LET amount == IF n <= vm_page_size THEN vm_page_size ELSE n
      pool_bytes == vm_page_size * malloc_pool_size
  IN CASE amount <= pool_size -> {FromFirstPool(amount)}
       [] amount > pool_size /\ OtherPools(amount) # {} ->
            {FromPool(Min(OtherPools(amount)), amount)}
       [] OTHER ->
            IF amount >= pool_bytes
            THEN IF Available(amount) THEN {FromKernel(amount)} ELSE {}
            ELSE IF Available(pool_bytes) THEN {FromNewPool(amount)} ELSE {}

(* A free list made of the memory at where, last block first.              *)
Carve(where, n) ==
  LET k == IF n <= vm_page_size THEN vm_page_size \div n ELSE 1
  IN [j \in 1 .. k |-> where + (k - j) * n]

BadSize(want) ==
  \/ unsigned(want + header) <= header
  \/ BucketOf(unsigned(want + header)) = NBUCKETS

(* The results of malloc: none when it returns 0, else one, with the block *)
(* popped off its free list, the rest of the list, and the memory left.    *)
Result(fl, list, mem) == [at |-> Head(list), fl |-> fl, rest |-> Tail(list), mem |-> mem]

Same == [brk |-> brk, size |-> size, pool |-> pool, pool_size |-> pool_size]

Results(want) ==
  LET i == BucketOf(unsigned(want + header)) IN
  IF BadSize(want) THEN {}
  ELSE IF head[i] # <<>> THEN {Result(i, head[i], Same)}
  ELSE {Result(i, Carve(m.where, BlockSize(i)), m) : m \in more_memory(BlockSize(i))}

(* The lists with block b put back on the one its header names.            *)
Freed(lists, b) == [lists EXCEPT ![b.fl] = <<b.at>> \o @]

Popped(r) == [head EXCEPT ![r.fl] = r.rest]

NewBlock(r, want) == [at |-> r.at, fl |-> r.fl, want |-> want]

Memory(m) == brk' = m.brk /\ size' = m.size /\ pool' = m.pool /\ pool_size' = m.pool_size

malloc(want) ==
  /\ Cardinality(blocks) < MaxBlocks
  /\ \/ \E r \in Results(want) :
          /\ head' = Popped(r)
          /\ blocks' = blocks \cup {NewBlock(r, want)}
          /\ Memory(r.mem)
     \/ Results(want) = {} /\ UNCHANGED vars

free(b) ==
  /\ head' = Freed(head, b)
  /\ blocks' = blocks \ {b}
  /\ UNCHANGED <<pool, size, pool_size, brk>>

(* Variant: a smaller size also stays in the block.                        *)
SameBucket_atMost(i, want) == BlockSize(i) - header >= want

SameBucket(i, want) ==
  /\ BlockSize(i) - header >= want
  /\ unsigned(want + header) > 2^(i + 2)

(* realloc: the same block, or a new one and the old one is freed, also    *)
(* when there is no new one.                                               *)
realloc(b, want) ==
  \/ /\ SameBucket(b.fl, want)
     /\ blocks' = (blocks \ {b}) \cup {[b EXCEPT !.want = want]}
     /\ UNCHANGED <<head, pool, size, pool_size, brk>>
  \/ /\ ~SameBucket(b.fl, want)
     /\ \E r \in Results(want) :
          /\ head' = Freed(Popped(r), b)
          /\ blocks' = (blocks \ {b}) \cup {NewBlock(r, want)}
          /\ Memory(r.mem)
  \/ /\ ~SameBucket(b.fl, want) /\ Results(want) = {}
     /\ free(b)

Next ==
  \/ \E want \in Requests : malloc(want)
  \/ \E b \in blocks : free(b)
  \/ \E b \in blocks, want \in Requests : realloc(b, want)

Spec == Init /\ [][Next]_vars
-----------------------------------------------------------------------------
Bytes(at, n) == at .. at + n - 1

(* What is left of the k-th pool, its header included.                     *)
Left(k) == IF k = 1 THEN pool_size ELSE size[pool[k]]

(* The pieces that memory is divided into: blocks in use, free blocks and  *)
(* what is left of the pools.                                              *)
Pieces ==
  {<<"used", b.at, BlockSize(b.fl)>> : b \in blocks}
  \cup UNION {{<<"free", head[i][j], BlockSize(i)>> : j \in DOMAIN head[i]} : i \in Bucket}
  \cup {<<"pool", pool[k], Left(k)>> : k \in DOMAIN pool}

(* No byte is in two pieces, so no two blocks overlap and no block covers  *)
(* the header of a pool that is still in use, and no byte that the kernel  *)
(* provided is lost: the pieces are as large as all of it.                 *)
MemoryIsPartitioned ==
  /\ \A i \in Bucket : IsInjective(head[i])
  /\ \A x, y \in Pieces : x # y => Bytes(x[2], x[3]) \cap Bytes(y[2], y[3]) = {}
  /\ UNION {Bytes(x[2], x[3]) : x \in Pieces} = FirstAddress .. brk - 1

(* A block has room for the size it was asked for and the header, and is   *)
(* not larger than needed, whether malloc found it or realloc kept it; and *)
(* malloc refuses the sizes that are 0 or more than half of the address    *)
(* space with the header, but no other size while there is a free block    *)
(* for it, though adding the header and doubling the size both wrap around.*)
BlockFits ==
  /\ \A b \in blocks :
       /\ b.want > 0 /\ b.want + header <= BlockSize(b.fl)
       /\ b.fl > 0 => b.want + header > BlockSize(b.fl - 1)
  /\ \A want \in Requests :
       IF want = 0 \/ want > 2^(Width - 1) - header THEN Results(want) = {}
       ELSE \A i \in Bucket :
              /\ want + header <= BlockSize(i) /\ head[i] # <<>>
              /\ i = 0 \/ want + header > BlockSize(i - 1)
              => Results(want) # {}
=============================================================================
