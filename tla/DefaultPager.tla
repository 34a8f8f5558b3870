---------------------------- MODULE DefaultPager ----------------------------
(***************************************************************************)
(* Backing storage of temporary memory objects in the kernel's default     *)
(* pager (kernel/builtin/inode_pager.c, MACH_XP without MACH_VFS).         *)
(*                                                                         *)
(* With use_paging_file set, all temporary objects share one paging file:  *)
(* a bitmap of its pages, and in each istruct a map from the pages of the  *)
(* object to pages of the file.  Otherwise every object has an inode of    *)
(* its own, and an LRU list bounds the number of those inodes in memory.   *)
(*                                                                         *)
(* The pager task has one thread and the objects are known to it alone, so *)
(* each message is handled in one step.  There is one paging file at most: *)
(* only pf_default_init creates one, mach_swapon being compiled out.       *)
(* Pages pushed by the kernel are single pages within the object, as in    *)
(* vm_pageout_page.  Values are what a page can contain.                   *)
(***************************************************************************)
EXTENDS Integers, FiniteSets, Sequences

CONSTANTS Object,       \* istructs
          Value,        \* page contents
          NPages,       \* pf_npgs
          Sizes,        \* sizes (in pages) of the objects the kernel creates
          MaxSlots,     \* bound on the page map of an object
          MapEntries,   \* PAGEMAP_ENTRIES, also the largest direct map
          QMax,         \* istruct_qmax
          Budgets,      \* bounds on the messages: [writes, inits]
          MaxFaults     \* bound on write errors and failures of kalloc

RoundUp(n) == ((n + MapEntries - 1) \div MapEntries) * MapEntries

ASSUME DefaultPagerAssumption ==
  /\ NPages \in Nat /\ MapEntries \in Nat \ {0} /\ MaxSlots \in Nat \ {0}
  /\ Sizes \subseteq Nat \ {0}
  /\ \A n \in Sizes : n <= MaxSlots /\ RoundUp(n) \in 0..MaxSlots

VARIABLES use_paging_file,
          pager_file_count,         \* 0 or 1
          paging_file_initialized,
          pf_bmap,                  \* pages whose bit is set
          pf_pfree, pf_count,
          live,                     \* objects that exist
          size, pmap,               \* fields of each istruct
          tables,                   \* second-level maps allocated, for large objects
          errors,                   \* objects with a pageout error
          lru, out,                 \* istruct_queue; objects in state IS_OUT
          disk,                     \* contents of the paging file
          file,                     \* contents of the inode of each object
          stray,                    \* pages recorded in a word behind a map
          sent,                     \* last contents the kernel paged out
          dropped,                  \* pages there was no room for
          initialized,              \* a data_initialize message was handled
          budget, faults

pfvars == <<pager_file_count, paging_file_initialized, pf_bmap, pf_pfree, pf_count>>
isvars == <<live, size, pmap, tables, errors>>
lruvars == <<lru, out>>
datavars == <<disk, file, stray, sent, dropped, initialized>>
vars == <<use_paging_file, pfvars, isvars, lruvars, datavars, budget, faults>>

Absent == -1
Page == 0..NPages - 1
Slot == 0..MaxSlots - 1

(* A large object has a two-level map, whose tables are always full size.  *)
INDIRECT_PAGEMAP(o) == size[o] > MapEntries
Slots(o) == IF INDIRECT_PAGEMAP(o) THEN RoundUp(size[o]) ELSE size[o]

Spend(f) == budget[f] > 0 /\ budget' = [budget EXCEPT ![f] = @ - 1]
Fault == faults < MaxFaults /\ faults' = faults + 1

(***************************************************************************)
(* The LRU list of inodes.  Both routines are called by every handler; the *)
(* inode is in use (and off the list) in between.                          *)
(***************************************************************************)
Without(q, o) == SelectSeq(q, LAMBDA x : x # o)

(* The new list, and the objects whose inodes were released.               *)
istruct_put(q, o) ==
  LET all == Append(Without(q, o), o)
      over == IF Len(all) > QMax THEN Len(all) - QMax ELSE 0
  IN [lru |-> SubSeq(all, over + 1, Len(all)), out |-> {all[i] : i \in 1..over}]

(* istruct_get, then istruct_put.                                          *)
UseInode(o) ==
  IF use_paging_file
    THEN UNCHANGED lruvars
    ELSE LET put == istruct_put(lru, o)
         IN lru' = put.lru /\ out' = (out \ {o}) \cup put.out

(***************************************************************************)
(* memory_object_create                                                    *)
(***************************************************************************)
pf_default_init(ok) ==
  /\ paging_file_initialized' = TRUE
  /\ pager_file_count' = IF paging_file_initialized THEN pager_file_count ELSE IF ok THEN 1 ELSE 0

(* The fields of istruct o as they are in a new one, of n pages.           *)
Clear(o, n) ==
  /\ size' = [size EXCEPT ![o] = n]
  /\ pmap' = [pmap EXCEPT ![o] = [p \in Slot |-> Absent]]
  /\ tables' = [tables EXCEPT ![o] = {}]
  /\ errors' = errors \ {o}
  /\ sent' = [sent EXCEPT ![o] = [p \in Slot |-> Absent]]
  /\ dropped' = {d \in dropped : d[1] # o}
  /\ file' = [file EXCEPT ![o] = [p \in Slot |-> Absent]]

NewIstruct(o, n) == live' = live \cup {o} /\ Clear(o, n)

(* pf_find and pf_pager_create: the only paging file, even when it is full. *)
pf_alloc(o, n) ==
  \E ok \in BOOLEAN :
    /\ pf_default_init(ok)
    /\ \/ /\ pager_file_count' = 1
          /\ NewIstruct(o, n)
          /\ pf_count' = pf_count + 1
          /\ UNCHANGED faults
       \/ /\ IF pager_file_count' = 0 THEN UNCHANGED faults ELSE Fault   \* no file, or kalloc failed
          /\ UNCHANGED <<isvars, pf_count, file, sent, dropped>>
    /\ UNCHANGED <<pf_bmap, pf_pfree, lruvars>>

memory_object_create(o, n) ==
  /\ o \notin live
  /\ IF use_paging_file
       THEN pf_alloc(o, n)
       ELSE NewIstruct(o, n) /\ UseInode(o) /\ UNCHANGED <<pfvars, faults>>
  /\ UNCHANGED <<use_paging_file, disk, stray, initialized, budget>>

(***************************************************************************)
(* Pages of the paging file                                                *)
(***************************************************************************)
(* The bit that the scan of the bitmap stops at.                           *)
FirstClear(page) ==
  page \notin pf_bmap /\ \A j \in 0..page - 1 : j \in pf_bmap

pf_allocate_page(page) ==
  /\ pf_pfree # 0
  /\ FirstClear(page)
  /\ pf_bmap' = pf_bmap \cup {page}
  /\ pf_pfree' = pf_pfree - 1

(* pf_bmap(is, p, B_READ): the page of the file, or -1.                    *)
PageOf(o, p) == IF p < Slots(o) THEN pmap[o][p] ELSE Absent

(* Variant: a failed write is not held against the object. *)
WriteDisk_silent(o, page, v) ==
  \/ disk' = [disk EXCEPT ![page] = v] /\ UNCHANGED <<errors, faults>>
  \/ Fault /\ UNCHANGED <<disk, errors>>

(* Page `page' of the paging file is written, unless the write fails.      *)
WriteDisk(o, page, v) ==
  \/ disk' = [disk EXCEPT ![page] = v] /\ UNCHANGED <<errors, faults>>
  \/ Fault /\ errors' = errors \cup {o} /\ UNCHANGED disk

Drop(o, p) ==
  /\ dropped' = dropped \cup {<<o, p>>}
  /\ UNCHANGED <<pf_bmap, pf_pfree, pmap, disk, stray, errors, file>>

(* A page without a place in the file gets the first free one.             *)
StoreNew(o, p, v) ==
  \E page \in 0..NPages :
    /\ pf_allocate_page(page)
    /\ pmap' = [pmap EXCEPT ![o][p] = page]
    /\ WriteDisk(o, page, v)
    /\ dropped' = dropped \ {<<o, p>>}
    /\ UNCHANGED <<stray, file>>

StoreOld(o, p, v) ==
  /\ WriteDisk(o, pmap[o][p], v)
  /\ UNCHANGED <<pf_bmap, pf_pfree, pmap, stray, file, dropped>>

(* pf_bmap lets p = size through: the word behind a direct map is whatever *)
(* it is, and a new page is recorded in it if it happens to be -1.         *)
StoreBehind(o, v) ==
  \/ \E page \in 0..NPages : /\ pf_allocate_page(page)
                             /\ stray' = stray \cup {page}
                             /\ WriteDisk(o, page, v)
                             /\ UNCHANGED <<pmap, file, dropped>>
  \/ \E page \in Page : /\ WriteDisk(o, page, v)
                        /\ UNCHANGED <<pf_bmap, pf_pfree, pmap, stray, file, dropped>>
  \/ UNCHANGED <<pf_bmap, pf_pfree, pmap, stray, file, dropped, disk, errors, faults>>

(* is_page_write of an object in the paging file; the second-level map may *)
(* be missing, and kalloc may fail to provide it.                          *)
StoreInPagingFile(o, p, v) ==
  IF p > size[o]
    THEN UNCHANGED <<pf_bmap, pf_pfree, pmap, tables, stray, disk, errors, file, dropped, faults>>
    ELSE IF p >= Slots(o)
    THEN StoreBehind(o, v) /\ UNCHANGED tables
    ELSE \/ /\ INDIRECT_PAGEMAP(o) /\ p \div MapEntries \notin tables[o]
            /\ Fault
            /\ Drop(o, p) /\ UNCHANGED tables
         \/ /\ tables' = [tables EXCEPT ![o] = @ \cup {p \div MapEntries}]
            /\ CASE pmap[o][p] # Absent -> StoreOld(o, p, v)
                 [] pmap[o][p] = Absent /\ pf_pfree # 0 -> StoreNew(o, p, v)
                 [] OTHER -> Drop(o, p) /\ UNCHANGED faults

is_page_write(o, p, v) ==
  IF use_paging_file
    THEN StoreInPagingFile(o, p, v)
    ELSE /\ \/ file' = [file EXCEPT ![o][p] = v] /\ UNCHANGED <<errors, faults>>
            \/ Fault /\ errors' = errors \cup {o} /\ UNCHANGED file
         /\ UNCHANGED <<pf_bmap, pf_pfree, pmap, tables, stray, disk, dropped>>
(***************************************************************************)
(* The other messages                                                      *)
(***************************************************************************)
memory_object_data_write(o, p, v) ==
  /\ o \in live /\ p < size[o]
  /\ Spend("writes")
  /\ is_page_write(o, p, v)
  /\ UseInode(o)
  /\ sent' = [sent EXCEPT ![o][p] = v]
  /\ UNCHANGED <<use_paging_file, pager_file_count, paging_file_initialized, pf_count, live, size, initialized>>

(* A page of a copy of the object that the kernel pushes out.  What it is  *)
(* told apart by is whether the pager has the page, or (in a paging file)  *)
(* whether the page of the file was ever written; it is then written at    *)
(* the offset it has in the file.                                          *)
is_page_initialize(o, p, v) ==
  LET actual == IF use_paging_file THEN PageOf(o, p) ELSE p
      has == IF use_paging_file THEN actual # Absent /\ disk[actual] # Absent
                                ELSE file[o][p] # Absent
  IN IF has
       THEN is_page_write(o, actual, v)
       ELSE UNCHANGED <<pf_bmap, pf_pfree, pmap, tables, stray, disk, errors, file, dropped, faults>>

memory_object_data_initialize(o, p, v) ==
  /\ o \in live /\ p < size[o]
  /\ Spend("inits")
  /\ is_page_initialize(o, p, v)
  /\ UseInode(o)
  /\ sent' = IF sent[o][p] = Absent THEN [sent EXCEPT ![o][p] = v] ELSE sent
  /\ initialized' = TRUE
  /\ UNCHANGED <<use_paging_file, pager_file_count, paging_file_initialized, pf_count, live, size>>

(* What inode_pager_timeout may answer with: an error after a failed       *)
(* pageout or when the disk cannot be read, and what is_page_read finds.   *)
Answers(o, p) ==
  IF o \in errors THEN {"error"}
  ELSE LET v == IF use_paging_file
                  THEN IF PageOf(o, p) = Absent THEN Absent ELSE disk[PageOf(o, p)]
                  ELSE file[o][p]
       IN IF v = Absent THEN {"unavailable"} ELSE {v, "error"}

memory_object_data_request(o) ==
  /\ o \in live
  /\ UseInode(o)
  /\ UNCHANGED <<use_paging_file, pfvars, isvars, datavars, budget, faults>>

Mapped(o) == {p \in Slot : p < Slots(o) /\ pmap[o][p] # Absent}

(* Variant: a page that was never allocated is given back as well. *)
pf_dealloc_counts(o) ==
  /\ pf_bmap' = pf_bmap \ {pmap[o][p] : p \in Slot}
  /\ pf_pfree' = pf_pfree + Slots(o)
  /\ pf_count' = pf_count - 1

(* Every page in the map is given back.                                    *)
pf_dealloc(o) ==
  /\ pf_bmap' = pf_bmap \ {pmap[o][p] : p \in Mapped(o)}
  /\ pf_pfree' = pf_pfree + Cardinality(Mapped(o))
  /\ pf_count' = pf_count - 1

(* The kernel's only object is gone, and with it the last reference.       *)
memory_object_terminate(o) ==
  /\ o \in live
  /\ live' = live \ {o}
  /\ IF use_paging_file THEN pf_dealloc(o) ELSE UNCHANGED <<pf_bmap, pf_pfree, pf_count>>
  /\ lru' = Without(lru, o)
  /\ out' = out \ {o}
  /\ Clear(o, 1)
  /\ UNCHANGED <<use_paging_file, pager_file_count, paging_file_initialized, disk, stray, initialized, budget, faults>>

Init ==
  /\ use_paging_file \in BOOLEAN
  /\ pager_file_count = 0 /\ paging_file_initialized = FALSE
  /\ pf_bmap = {} /\ pf_pfree = NPages /\ pf_count = 0
  /\ live = {} /\ errors = {} /\ lru = <<>> /\ out = {}
  /\ size = [o \in Object |-> 1]
  /\ pmap = [o \in Object |-> [p \in Slot |-> Absent]]
  /\ tables = [o \in Object |-> {}]
  /\ disk = [page \in 0..NPages |-> Absent]
  /\ file = [o \in Object |-> [p \in Slot |-> Absent]]
  /\ sent = [o \in Object |-> [p \in Slot |-> Absent]]
  /\ stray = {} /\ dropped = {} /\ initialized = FALSE
  /\ budget \in Budgets /\ faults = 0

Next ==
  \E o \in Object :
    \/ \E n \in Sizes : memory_object_create(o, n)
    \/ \E p \in Slot, v \in Value : \/ memory_object_data_write(o, p, v)
                                   \/ memory_object_data_initialize(o, p, v)
    \/ memory_object_data_request(o)
    \/ memory_object_terminate(o)

Spec == Init /\ [][Next]_vars

(***************************************************************************)
(* Properties                                                              *)
(***************************************************************************)
(* Every variable stays in its range.  In particular pf_pfree, which is    *)
(* stepped up and down page by page, stays within the paging file.         *)
TypeOK ==
  /\ use_paging_file \in BOOLEAN /\ paging_file_initialized \in BOOLEAN /\ initialized \in BOOLEAN
  /\ pager_file_count \in 0..1 /\ pf_count \in 0..Cardinality(Object)
  /\ pf_bmap \subseteq Page /\ stray \subseteq Page /\ pf_pfree \in 0..NPages
  /\ live \subseteq Object /\ errors \subseteq Object /\ out \subseteq Object
  /\ lru \in Seq(Object)
  /\ size \in [Object -> Nat \ {0}]
  /\ pmap \in [Object -> [Slot -> Page \cup {Absent}]]
  /\ dropped \subseteq Object \X Slot

(* The page maps and the bitmap of the paging file agree: no page of the   *)
(* file is in two places of the maps, the bits set are those of the pages  *)
(* in some map (none is lost when objects die or allocation fails half-    *)
(* way), and pf_pfree counts the clear bits, so that the search for a free *)
(* page in pf_allocate_page finds one inside the file.                     *)
PagesAreOwned ==
  /\ \A o1, o2 \in Object : \A p1, p2 \in Slot :
       pmap[o1][p1] # Absent /\ pmap[o1][p1] = pmap[o2][p2] => o1 = o2 /\ p1 = p2
  /\ \A o \in Object : \A p \in Slot : pmap[o][p] \notin stray
  /\ \A page \in Page :
       page \in pf_bmap <=> page \in stray \/ \E o \in Object : \E p \in Slot : pmap[o][p] = page
  /\ pf_pfree = NPages - Cardinality(pf_bmap)

(* A pagein is answered with what was last paged out, unless the disk      *)
(* cannot be read or a pageout of the object failed; only a page for which *)
(* there was no room, and which is lost, is unavailable.  (Only up to the  *)
(* first data_initialize message: its comment says that a page is written  *)
(* if there is none yet, and the code writes it if there is one.)          *)
PageInIsLastPageOut ==
  \A o \in live : \A p \in 0..size[o] - 1 :
    ~initialized /\ sent[o][p] # Absent /\ o \notin errors
      => LET x == IF <<o, p>> \in dropped THEN "unavailable" ELSE sent[o][p]
         IN x \in Answers(o, p) /\ Answers(o, p) \subseteq {x, "error"}
=============================================================================
