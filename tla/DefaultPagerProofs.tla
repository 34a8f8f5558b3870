------------------------- MODULE DefaultPagerProofs -------------------------
(***************************************************************************)
(* The pages of the paging file stay accounted for, for every number and   *)
(* size of objects and every size of the file.  Apart from the property    *)
(* itself, the inductive invariant says where there can be no pages: in    *)
(* objects that do not exist, behind the end of a map, and anywhere if     *)
(* objects have inodes of their own.  On it rests the second result, that  *)
(* a pagein is answered with what was last paged out.                      *)
(***************************************************************************)
EXTENDS DefaultPager, FiniteSetTheorems, TLAPS

MapsOK ==
  /\ use_paging_file \in BOOLEAN
  /\ pf_bmap \subseteq Page /\ stray \subseteq Page /\ pf_pfree \in Int
  /\ live \subseteq Object
  /\ size \in [Object -> Sizes \cup {1}]
  /\ pmap \in [Object -> [Slot -> Page \cup {Absent}]]

(* The inductive invariant.                                                *)
PageInv ==
  /\ MapsOK
  /\ PagesAreOwned
  /\ \A o \in Object : \A p \in Slot :
       pmap[o][p] # Absent => use_paging_file /\ o \in live /\ p < Slots(o)

(* A map fits into the slots there are.                                    *)
LEMMA SlotsFit ==
  ASSUME MapsOK, NEW o \in Object
  PROVE  Slots(o) \in Nat /\ Slots(o) <= MaxSlots
<1>1. CASE size[o] = 1
  BY <1>1, DefaultPagerAssumption DEF Slots, INDIRECT_PAGEMAP
<1>2. CASE size[o] \in Sizes
  <2>1. RoundUp(size[o]) \in 0..MaxSlots /\ size[o] \in Nat /\ size[o] <= MaxSlots
    BY Zenon, <1>2, DefaultPagerAssumption
  <2> QED
    BY <2>1, DefaultPagerAssumption DEF Slots, INDIRECT_PAGEMAP
<1> QED
  BY <1>1, <1>2 DEF MapsOK

(* The bitmap is finite, and as long as pages are free it is not full: the *)
(* scan of pf_allocate_page ends inside the file.                          *)
LEMMA BitmapFinite ==
  ASSUME MapsOK
  PROVE  IsFiniteSet(pf_bmap) /\ Cardinality(pf_bmap) \in Nat
<1>1. IsFiniteSet(Page)
  BY DefaultPagerAssumption, FS_Interval DEF Page
<1> QED
  BY <1>1, FS_Subset, FS_CardinalityType DEF MapsOK

LEMMA AllocatedInFile ==
  ASSUME PageInv, NEW page \in 0..NPages, pf_pfree # 0, FirstClear(page)
  PROVE  page \in Page
<1>1. SUFFICES ASSUME page = NPages PROVE FALSE
  BY DefaultPagerAssumption DEF Page
<1>2. pf_bmap = Page
  BY Zenon, <1>1 DEF FirstClear, PageInv, MapsOK, Page
<1>3. Cardinality(Page) = NPages
  BY DefaultPagerAssumption, FS_Interval DEF Page
<1> QED
  BY <1>2, <1>3, DefaultPagerAssumption DEF PageInv, PagesAreOwned

(* One page more: pf_allocate_page leaves pf_pfree the number of free pages. *)
LEMMA AllocationCounts ==
  ASSUME PageInv, NEW page, pf_allocate_page(page)
  PROVE  pf_pfree' = NPages - Cardinality(pf_bmap')
<1>1. IsFiniteSet(pf_bmap) /\ Cardinality(pf_bmap) \in Nat
  BY BitmapFinite DEF PageInv
<1>2. Cardinality(pf_bmap \cup {page}) = Cardinality(pf_bmap) + 1
  BY <1>1, FS_AddElement DEF pf_allocate_page, FirstClear
<1> QED
  BY <1>1, <1>2, DefaultPagerAssumption DEF pf_allocate_page, PageInv, PagesAreOwned

(* A new page in a free place of a map.                                    *)
LEMMA NewPage ==
  ASSUME PageInv, NEW o \in live, NEW p \in Slot, NEW page \in 0..NPages,
         use_paging_file, p < Slots(o), pmap[o][p] = Absent,
         pf_allocate_page(page), pmap' = [pmap EXCEPT ![o][p] = page],
         UNCHANGED <<use_paging_file, live, size, stray>>
  PROVE  PageInv'
<1>1. page \in Page /\ page \notin pf_bmap
  BY AllocatedInFile DEF pf_allocate_page, FirstClear
<1>2. o \in Object
  BY DEF PageInv, MapsOK
<1>3. MapsOK'
  BY <1>1, <1>2 DEF PageInv, MapsOK, pf_allocate_page
<1>4. \A oo \in Object : \A q \in Slot :
        pmap'[oo][q] = IF oo = o /\ q = p THEN page ELSE pmap[oo][q]
  BY <1>2 DEF PageInv, MapsOK
<1>5. \A oo \in Object : \A q \in Slot : pmap[oo][q] # page
  BY <1>1 DEF PageInv, PagesAreOwned
<1>6. page # Absent /\ page \notin stray
  BY <1>1, DefaultPagerAssumption DEF Page, Absent, PageInv, PagesAreOwned
<1>7. PagesAreOwned'
  <2>1. \A o1, o2 \in Object : \A p1, p2 \in Slot :
          pmap'[o1][p1] # Absent /\ pmap'[o1][p1] = pmap'[o2][p2] => o1 = o2 /\ p1 = p2
    BY <1>4, <1>5 DEF PageInv, PagesAreOwned
  <2>2. \A oo \in Object : \A q \in Slot : pmap'[oo][q] \notin stray'
    BY <1>4, <1>6 DEF PageInv, PagesAreOwned
  <2>3. \A g \in Page :
          g \in pf_bmap' <=> g \in stray' \/ \E oo \in Object : \E q \in Slot : pmap'[oo][q] = g
    <3> TAKE g \in Page
    <3>1. CASE g = page
      BY <3>1, <1>2, <1>4 DEF pf_allocate_page
    <3>2. CASE g # page
      <4>1. ASSUME NEW oo \in Object, NEW q \in Slot
            PROVE  pmap'[oo][q] = g <=> pmap[oo][q] = g
        BY <4>1, <3>2, <1>4, DefaultPagerAssumption DEF Page, Absent
      <4> QED
        BY <3>2, <4>1 DEF pf_allocate_page, PageInv, PagesAreOwned
    <3> QED
      BY <3>1, <3>2
  <2> QED
    BY <2>1, <2>2, <2>3, AllocationCounts DEF PagesAreOwned, Page
<1> QED
  BY <1>2, <1>3, <1>4, <1>7 DEF PageInv, Slots, INDIRECT_PAGEMAP

(* A new page that ends up behind a map.                                   *)
LEMMA StrayPage ==
  ASSUME PageInv, NEW page \in 0..NPages,
         pf_allocate_page(page), stray' = stray \cup {page},
         UNCHANGED <<use_paging_file, live, size, pmap>>
  PROVE  PageInv'
<1>1. page \in Page /\ page \notin pf_bmap
  BY AllocatedInFile DEF pf_allocate_page, FirstClear
<1>2. \A o \in Object : \A p \in Slot : pmap[o][p] # page
  BY <1>1 DEF PageInv, PagesAreOwned
<1>3. MapsOK'
  BY <1>1 DEF PageInv, MapsOK, pf_allocate_page
<1>4. PagesAreOwned'
  <2>1. \A o \in Object : \A p \in Slot : pmap'[o][p] \notin stray'
    BY <1>2 DEF PageInv, PagesAreOwned
  <2>2. \A g \in Page :
          g \in pf_bmap' <=> g \in stray' \/ \E o \in Object : \E p \in Slot : pmap'[o][p] = g
    BY DEF PageInv, PagesAreOwned, pf_allocate_page
  <2>3. pf_pfree' = NPages - Cardinality(pf_bmap')
    BY AllocationCounts
  <2> QED
    BY <2>1, <2>2, <2>3 DEF PageInv, PagesAreOwned, Page
<1> QED
  BY <1>3, <1>4 DEF PageInv, Slots, INDIRECT_PAGEMAP

(* Nothing about the pages of the file changes.                            *)
LEMMA SamePages ==
  ASSUME PageInv, UNCHANGED <<use_paging_file, live, size, pmap, stray, pf_bmap, pf_pfree>>
  PROVE  PageInv'
  BY DEF PageInv, MapsOK, PagesAreOwned, Slots, INDIRECT_PAGEMAP, Page

(* is_page_write, with whatever offset it is called.                       *)
LEMMA PageWrite ==
  ASSUME PageInv, NEW o \in live, NEW p \in Nat, NEW v, is_page_write(o, p, v),
         UNCHANGED <<use_paging_file, live, size>>
  PROVE  PageInv'
<1>1. CASE UNCHANGED <<pf_bmap, pf_pfree, pmap, stray>>
  BY <1>1, SamePages
<1>2. CASE use_paging_file /\ StoreBehind(o, v)
  <2>1. ASSUME NEW page \in 0..NPages, pf_allocate_page(page), stray' = stray \cup {page}, UNCHANGED pmap
        PROVE  PageInv'
    BY <2>1, StrayPage
  <2> QED
    BY <1>1, <1>2, <2>1 DEF StoreBehind
<1>3. CASE /\ use_paging_file /\ p < Slots(o) /\ pmap[o][p] = Absent
           /\ StoreNew(o, p, v)
  <2>1. PICK page \in 0..NPages : /\ pf_allocate_page(page)
                                  /\ pmap' = [pmap EXCEPT ![o][p] = page]
                                  /\ UNCHANGED stray
    BY Zenon, <1>3 DEF StoreNew
  <2>2. p \in Slot
    BY <1>3, SlotsFit, DefaultPagerAssumption DEF Slot, PageInv, MapsOK
  <2> QED
    BY Zenon, <1>3, <2>1, <2>2, NewPage
<1>4. CASE ~use_paging_file
  BY <1>1, <1>4 DEF is_page_write
<1>5. CASE use_paging_file
  <2>1. StoreInPagingFile(o, p, v)
    BY <1>5 DEF is_page_write
  <2>2. CASE p > size[o]
    BY <1>1, <2>1, <2>2 DEF StoreInPagingFile
  <2>3. CASE ~(p > size[o]) /\ p >= Slots(o)
    BY <1>2, <1>5, <2>1, <2>3 DEF StoreInPagingFile
  <2>4. CASE ~(p > size[o]) /\ ~(p >= Slots(o))
    <3>1. p < Slots(o)
      BY <2>4, SlotsFit DEF PageInv, MapsOK
    <3>2. \/ Drop(o, p)
          \/ StoreOld(o, p, v)
          \/ pmap[o][p] = Absent /\ StoreNew(o, p, v)
      BY <2>1, <2>4 DEF StoreInPagingFile
    <3>3. CASE Drop(o, p)
      BY <1>1, <3>3 DEF Drop
    <3>4. CASE StoreOld(o, p, v)
      BY <1>1, <3>4 DEF StoreOld
    <3> QED
      BY <1>3, <1>5, <3>1, <3>2, <3>3, <3>4
  <2> QED
    BY <2>2, <2>3, <2>4
<1> QED
  BY <1>4, <1>5 DEF PageInv, MapsOK

(* The fields of an istruct without pages are set up anew.                 *)
LEMMA Cleared ==
  ASSUME PageInv, NEW o \in Object, NEW n \in Sizes \cup {1}, Clear(o, n),
         \A p \in Slot : pmap[o][p] = Absent,
         live' \subseteq Object, live \ {o} \subseteq live',
         UNCHANGED <<use_paging_file, stray, pf_bmap, pf_pfree>>
  PROVE  PageInv'
<1>1. \A oo \in Object : \A q \in Slot : pmap'[oo][q] = pmap[oo][q]
  BY DEF Clear, PageInv, MapsOK
<1>2. \A oo \in Object : oo # o => Slots(oo)' = Slots(oo)
  BY DEF Clear, PageInv, MapsOK, Slots, INDIRECT_PAGEMAP
<1>3. MapsOK'
  BY DEF PageInv, MapsOK, Clear, Absent, Page
<1>4. PagesAreOwned'
  <2>1. \A g \in Page : (\E oo \in Object : \E q \in Slot : pmap'[oo][q] = g)
                          <=> \E oo \in Object : \E q \in Slot : pmap[oo][q] = g
    BY <1>1
  <2> QED
    BY <1>1, <2>1 DEF PageInv, PagesAreOwned, Page
<1>5. \A oo \in Object : \A q \in Slot :
        pmap'[oo][q] # Absent => use_paging_file' /\ oo \in live' /\ q < Slots(oo)'
  BY <1>1, <1>2 DEF PageInv
<1> QED
  BY <1>3, <1>4, <1>5 DEF PageInv

(* pf_dealloc gives back as many pages as it clears bits: the pages of an  *)
(* object are different.                                                   *)
LEMMA Deallocation ==
  ASSUME PageInv, NEW o \in Object, pf_dealloc(o)
  PROVE  /\ pf_pfree' = NPages - Cardinality(pf_bmap')
         /\ \A p \in Slot : pmap[o][p] \notin pf_bmap'
         /\ \A page \in pf_bmap :
              page \in pf_bmap' \/ \E p \in Slot : pmap[o][p] = page
<1> DEFINE M == Mapped(o)
           P == {pmap[o][p] : p \in M}
           f == [p \in M |-> pmap[o][p]]
<1>1. IsFiniteSet(M)
  <2>1. IsFiniteSet(Slot)
    BY FS_Interval, DefaultPagerAssumption DEF Slot
  <2> QED
    BY <2>1, FS_Subset DEF Mapped
<1>2. f \in Bijection(M, P)
  <2>1. f \in [M -> P]
    OBVIOUS
  <2>2. \A a, b \in M : f[a] = f[b] => a = b
    BY DEF PageInv, PagesAreOwned, Mapped
  <2>3. \A t \in P : \E a \in M : f[a] = t
    OBVIOUS
  <2> QED
    BY <2>1, <2>2, <2>3 DEF Bijection, Injection, Surjection, IsInjective
<1>3. IsFiniteSet(P) /\ Cardinality(P) = Cardinality(M)
  BY <1>1, <1>2, FS_Bijection DEF ExistsBijection
<1>4. P \subseteq pf_bmap
  BY DEF Mapped, PageInv, MapsOK, PagesAreOwned
<1>5. IsFiniteSet(pf_bmap) /\ Cardinality(pf_bmap) \in Nat /\ Cardinality(P) \in Nat
  BY <1>3, BitmapFinite, FS_CardinalityType DEF PageInv
<1>6. Cardinality(pf_bmap \ P) = Cardinality(pf_bmap) - Cardinality(P)
  <2>1. pf_bmap \cap P = P
    BY <1>4
  <2> QED
    BY ZenonT(40), <1>5, <2>1, FS_Difference
<1>7. pf_pfree' = NPages - Cardinality(pf_bmap')
  BY <1>3, <1>5, <1>6, DefaultPagerAssumption DEF pf_dealloc, PageInv, PagesAreOwned
<1>8. \A p \in Slot : pmap[o][p] \notin pf_bmap'
  <2> TAKE p \in Slot
  <2>1. CASE pmap[o][p] = Absent
    BY <2>1, DefaultPagerAssumption DEF pf_dealloc, PageInv, MapsOK, Page, Absent
  <2>2. CASE pmap[o][p] # Absent
    BY <2>2 DEF pf_dealloc, Mapped, PageInv
  <2> QED
    BY <2>1, <2>2
<1>9. \A page \in pf_bmap : page \in pf_bmap' \/ \E p \in Slot : pmap[o][p] = page
  BY DEF pf_dealloc, Mapped
<1> QED
  BY <1>7, <1>8, <1>9

LEMMA Terminated ==
  ASSUME PageInv, NEW o \in Object, memory_object_terminate(o)
  PROVE  PageInv'
<1>1. CASE ~use_paging_file
  <2>1. \A p \in Slot : pmap[o][p] = Absent
    BY <1>1 DEF PageInv
  <2> QED
    BY <1>1, <2>1, Cleared DEF memory_object_terminate, PageInv, MapsOK
<1>2. CASE use_paging_file
  <2>1. pf_dealloc(o) /\ Clear(o, 1) /\ live' = live \ {o} /\ UNCHANGED <<use_paging_file, stray>>
    BY <1>2 DEF memory_object_terminate
  <2>2. \A oo \in Object : \A q \in Slot :
          pmap'[oo][q] = IF oo = o THEN Absent ELSE pmap[oo][q]
    BY <2>1 DEF Clear, PageInv, MapsOK
  <2>3. pf_bmap' \subseteq pf_bmap /\ pf_pfree' \in Int
    <3>1. pf_bmap' \subseteq pf_bmap
      BY <2>1 DEF pf_dealloc
    <3>2. IsFiniteSet(pf_bmap') /\ Cardinality(pf_bmap') \in Nat
      BY <3>1, BitmapFinite, FS_Subset, FS_CardinalityType DEF PageInv
    <3> QED
      BY <2>1, <3>1, <3>2, Deallocation, DefaultPagerAssumption
  <2>4. MapsOK'
    BY <2>1, <2>3 DEF PageInv, MapsOK, Clear, Absent
  <2>5. PagesAreOwned'
    <3>1. \A o1, o2 \in Object : \A p1, p2 \in Slot :
            pmap'[o1][p1] # Absent /\ pmap'[o1][p1] = pmap'[o2][p2] => o1 = o2 /\ p1 = p2
      BY <2>2 DEF PageInv, PagesAreOwned
    <3>2. \A oo \in Object : \A q \in Slot : pmap'[oo][q] \notin stray'
      BY <2>1, <2>2, DefaultPagerAssumption DEF PageInv, PagesAreOwned, MapsOK, Page, Absent
    <3>3. ASSUME NEW g \in Page
          PROVE  g \in pf_bmap' <=> g \in stray' \/ \E oo \in Object : \E q \in Slot : pmap'[oo][q] = g
      <4>1. g # Absent
        BY <3>3, DefaultPagerAssumption DEF Page, Absent
      <4>2. ASSUME g \in pf_bmap', g \notin stray'
            PROVE  \E oo \in Object : \E q \in Slot : pmap'[oo][q] = g
        <5>1. PICK oo \in Object, q \in Slot : pmap[oo][q] = g
          BY <2>1, <2>3, <3>3, <4>2 DEF PageInv, PagesAreOwned
        <5>2. oo # o
          BY <2>1, <4>2, <5>1, Deallocation
        <5> QED
          BY SMTT(40), <2>2, <5>1, <5>2
      <4>3. ASSUME g \in stray' PROVE g \in pf_bmap'
        BY <2>1, <3>3, <4>3, Deallocation DEF PageInv, PagesAreOwned
      <4>4. ASSUME NEW oo \in Object, NEW q \in Slot, pmap'[oo][q] = g
            PROVE  g \in pf_bmap'
        <5>1. oo # o /\ pmap[oo][q] = g
          BY <2>2, <4>1, <4>4
        <5>2. g \in pf_bmap
          BY <3>3, <5>1 DEF PageInv, PagesAreOwned
        <5>3. \A p \in Slot : pmap[o][p] # g
          BY <4>1, <5>1 DEF PageInv, PagesAreOwned
        <5> QED
          BY <2>1, <5>2, <5>3, Deallocation
      <4> QED
        BY <4>2, <4>3, <4>4
    <3> QED
      BY <2>1, <3>1, <3>2, <3>3, Deallocation DEF PagesAreOwned, Page
  <2>6. \A oo \in Object : oo # o => Slots(oo)' = Slots(oo)
    BY <2>1 DEF Clear, PageInv, MapsOK, Slots, INDIRECT_PAGEMAP
  <2>7. \A oo \in Object : \A q \in Slot :
          pmap'[oo][q] # Absent => use_paging_file' /\ oo \in live' /\ q < Slots(oo)'
    BY SMTT(40), <2>1, <2>2, <2>6 DEF PageInv
  <2> QED
    BY <2>4, <2>5, <2>7 DEF PageInv
<1> QED
  BY <1>1, <1>2

LEMMA Created ==
  ASSUME PageInv, NEW o \in Object, NEW n \in Sizes, memory_object_create(o, n)
  PROVE  PageInv'
<1>1. \A p \in Slot : pmap[o][p] = Absent
  BY DEF memory_object_create, PageInv
<1>2. \/ NewIstruct(o, n)
      \/ UNCHANGED <<live, size, pmap>>
  BY DEF memory_object_create, pf_alloc, isvars
<1>3. UNCHANGED <<use_paging_file, stray, pf_bmap, pf_pfree>>
  BY DEF memory_object_create, pf_alloc, pfvars
<1> QED
  BY SMTT(40), <1>1, <1>2, <1>3, Cleared, SamePages DEF NewIstruct, PageInv, MapsOK

LEMMA PagesInit ==
  ASSUME Init PROVE PageInv
<1>1. MapsOK
  BY DefaultPagerAssumption DEF Init, MapsOK, Page, Absent
<1>2. PagesAreOwned
  BY FS_EmptySet, DefaultPagerAssumption DEF Init, PagesAreOwned, Page, Absent
<1> QED
  BY <1>1, <1>2 DEF Init, PageInv

LEMMA PagesStep ==
  ASSUME PageInv, [Next]_vars PROVE PageInv'
<1>1. CASE UNCHANGED vars
  BY <1>1, SamePages DEF vars, pfvars, isvars, datavars
<1>2. ASSUME NEW o \in Object, NEW n \in Sizes, memory_object_create(o, n)
      PROVE  PageInv'
  BY <1>2, Created
<1>3. ASSUME NEW o \in Object, NEW p \in Slot, NEW v \in Value, memory_object_data_write(o, p, v)
      PROVE  PageInv'
  <2>1. p \in Nat
    BY <1>3, DefaultPagerAssumption DEF Slot
  <2> QED
    BY <1>3, <2>1, PageWrite DEF memory_object_data_write
<1>4. ASSUME NEW o \in Object, NEW p \in Slot, NEW v \in Value, memory_object_data_initialize(o, p, v)
      PROVE  PageInv'
  <2> DEFINE actual == IF use_paging_file THEN PageOf(o, p) ELSE p
  <2>1. o \in live /\ UNCHANGED <<use_paging_file, live, size>>
    BY <1>4 DEF memory_object_data_initialize
  <2>2. \/ is_page_write(o, actual, v) /\ (use_paging_file => actual # Absent)
        \/ UNCHANGED <<pf_bmap, pf_pfree, pmap, stray>>
    BY <1>4 DEF memory_object_data_initialize, is_page_initialize
  <2>3. ASSUME use_paging_file => actual # Absent PROVE actual \in Nat
    BY <1>4, <2>3, DefaultPagerAssumption DEF PageOf, PageInv, MapsOK, Page, Slot
  <2> QED
    BY <2>1, <2>2, <2>3, PageWrite, SamePages
<1>5. ASSUME NEW o \in Object, memory_object_data_request(o)
      PROVE  PageInv'
  BY <1>5, SamePages DEF memory_object_data_request, pfvars, isvars, datavars
<1>6. ASSUME NEW o \in Object, memory_object_terminate(o)
      PROVE  PageInv'
  BY <1>6, Terminated
<1> QED
  BY <1>1, <1>2, <1>3, <1>4, <1>5, <1>6 DEF Next

(* Whatever the kernel creates, pages out and terminates, no page of the   *)
(* paging file belongs to two objects, none is lost, and pf_pfree counts   *)
(* the free ones.                                                          *)
THEOREM PagesAreOwnedAlways == Spec => []PagesAreOwned
<1>1. PageInv => PagesAreOwned
  BY DEF PageInv
<1> QED
  BY PagesInit, PagesStep, <1>1, PTL DEF Spec
-----------------------------------------------------------------------------
Contents == Value \cup {Absent}

(* The last contents of page p of o are where a pagein looks for them.     *)
Kept(o, p) ==
  IF use_paging_file THEN pmap[o][p] # Absent /\ disk[pmap[o][p]] = sent[o][p]
                     ELSE file[o][p] = sent[o][p]

DataTypes ==
  /\ sent \in [Object -> [Slot -> Contents]] /\ file \in [Object -> [Slot -> Contents]]
  /\ disk \in [0..NPages -> Contents]
  /\ tables \in [Object -> SUBSET Int]

(* A page there was no room for has no place in the file, a page with a    *)
(* place has its second-level map, and all others that were paged out are  *)
(* kept.                                                                   *)
PageOK(o, p) ==
  /\ <<o, p>> \in dropped => use_paging_file /\ pmap[o][p] = Absent
  /\ pmap[o][p] # Absent /\ INDIRECT_PAGEMAP(o) => p \div MapEntries \in tables[o]
  /\ p < size[o] /\ o \notin errors /\ sent[o][p] # Absent => <<o, p>> \in dropped \/ Kept(o, p)

DataInv ==
  /\ DataTypes
  /\ ~initialized => \A o \in live : \A p \in Slot : PageOK(o, p)

(* The pages of the file are in the file.                                  *)
LEMMA PageOfFile == Page \subseteq 0..NPages
  BY DefaultPagerAssumption DEF Page

(* The tables of a two-level map hold at least the pages of the object.    *)
LEMMA RoundUpCovers == ASSUME NEW n \in Nat PROVE n <= RoundUp(n)
  BY DefaultPagerAssumption DEF RoundUp

LEMMA SizeWithinSlots ==
  ASSUME MapsOK, NEW o \in Object
  PROVE  size[o] \in Nat /\ size[o] <= Slots(o)
<1>1. size[o] \in Nat
  <2>1. CASE size[o] = 1
    BY <2>1
  <2>2. CASE size[o] \in Sizes
    BY Zenon, <2>2, DefaultPagerAssumption
  <2> QED
    BY <2>1, <2>2 DEF MapsOK
<1> QED
  BY <1>1, RoundUpCovers DEF Slots

(* Only page p of o changes, whether or not it could be written.           *)
OthersKept(o, p) ==
  /\ UNCHANGED <<use_paging_file, live, size, initialized>>
  /\ errors \subseteq errors'
  /\ \A oo \in Object : tables[oo] \subseteq tables'[oo]
  /\ \A oo \in Object : \A q \in Slot : <<oo, q>> # <<o, p>> =>
       /\ pmap'[oo][q] = pmap[oo][q] /\ file'[oo][q] = file[oo][q]
       /\ <<oo, q>> \in dropped' <=> <<oo, q>> \in dropped
  /\ \A page \in Page : page # pmap'[o][p] => disk'[page] = disk[page]

(* A pageout of one page does not harm the others.                         *)
LEMMA WrittenKeeps ==
  ASSUME PageInv, PageInv', DataInv, DataTypes', ~initialized,
         NEW o \in live, NEW p \in Slot, NEW v, sent' = [sent EXCEPT ![o][p] = v], OthersKept(o, p),
         PageOK(o, p)'
  PROVE  DataInv'
<1> SUFFICES ASSUME NEW oo \in live, NEW q \in Slot, <<oo, q>> # <<o, p>> PROVE PageOK(oo, q)'
  BY DEF DataInv, OthersKept
<1>1. o \in Object /\ oo \in Object /\ PageOK(oo, q)
  BY DEF PageInv, MapsOK, DataInv
<1>2. sent'[oo][q] = sent[oo][q]
  BY <1>1 DEF DataInv, DataTypes
<1>3. pmap[oo][q] # Absent => pmap[oo][q] \in Page /\ pmap[oo][q] # pmap'[o][p]
  <2>1. pmap'[oo][q] = pmap[oo][q] /\ pmap[oo][q] \in Page \cup {Absent}
    BY ZenonT(40), <1>1 DEF PageInv, MapsOK, OthersKept
  <2>2. pmap'[oo][q] # Absent => pmap'[oo][q] # pmap'[o][p]
    BY <1>1 DEF PageInv, PagesAreOwned
  <2> QED
    BY <2>1, <2>2
<1> QED
  BY <1>1, <1>2, <1>3 DEF PageOK, Kept, INDIRECT_PAGEMAP, OthersKept

(* memory_object_data_write keeps what it is given, or has no room for it, *)
(* or holds the failure against the object.                                *)
LEMMA DataWrite ==
  ASSUME PageInv, PageInv', DataInv, NEW o \in Object, NEW p \in Slot, NEW v \in Value,
         memory_object_data_write(o, p, v)
  PROVE  DataInv'
<1>1. /\ o \in live /\ p < size[o] /\ is_page_write(o, p, v) /\ sent' = [sent EXCEPT ![o][p] = v]
      /\ UNCHANGED <<use_paging_file, live, size, initialized>>
  BY DEF memory_object_data_write
<1>2. sent'[o][p] = v /\ v \in Contents /\ sent' \in [Object -> [Slot -> Contents]]
  BY <1>1 DEF DataInv, DataTypes, Contents
<1>3. CASE ~use_paging_file
  <2>1. /\ \/ file' = [file EXCEPT ![o][p] = v] /\ UNCHANGED errors
           \/ errors' = errors \cup {o} /\ UNCHANGED file
        /\ UNCHANGED <<pmap, tables, disk, dropped>>
    BY <1>1, <1>3 DEF is_page_write
  <2>2. DataTypes'
    <3>1. [file EXCEPT ![o][p] = v] \in [Object -> [Slot -> Contents]]
      BY <1>2 DEF DataInv, DataTypes
    <3> QED
      BY Zenon, <1>2, <2>1, <3>1 DEF DataInv, DataTypes
  <2>3. CASE initialized
    BY <1>1, <2>2, <2>3 DEF DataInv
  <2>4. CASE ~initialized
    <3>1. PageOK(o, p)'
      <4>1. PageOK(o, p)
        BY <1>1, <2>4 DEF DataInv
      <4>2. /\ <<o, p>> \notin dropped' /\ ~use_paging_file'
            /\ pmap'[o][p] # Absent /\ INDIRECT_PAGEMAP(o)' => p \div MapEntries \in tables'[o]
        BY <1>1, <1>3, <2>1, <4>1 DEF PageOK, INDIRECT_PAGEMAP
      <4>3. o \notin errors' => file'[o][p] = v
        <5>1. file \in [Object -> [Slot -> Contents]]
          BY Zenon DEF DataInv, DataTypes
        <5>2. [file EXCEPT ![o][p] = v][o][p] = v
          BY <5>1
        <5> QED BY Zenon, <2>1, <5>2
      <4> QED BY Zenon, <1>2, <4>2, <4>3 DEF PageOK, Kept
    <3>2. OthersKept(o, p)
      BY <1>1, <2>1 DEF DataInv, DataTypes, OthersKept
    <3> QED
      BY ZenonT(40), <1>1, <2>2, <2>4, <3>1, <3>2, WrittenKeeps
  <2> QED
    BY <2>3, <2>4
<1>4. CASE use_paging_file
  <2>1. size[o] \in Nat /\ size[o] <= Slots(o) /\ p \in Nat /\ Slots(o) \in Nat /\ p < Slots(o)
    BY <1>1, SizeWithinSlots, SlotsFit DEF PageInv, Slot
  <2>2. StoreInPagingFile(o, p, v) /\ ~(p > size[o]) /\ ~(p >= Slots(o))
    BY <1>1, <1>4, <2>1 DEF is_page_write
  <2>3. \/ INDIRECT_PAGEMAP(o) /\ p \div MapEntries \notin tables[o] /\ Drop(o, p) /\ UNCHANGED tables
        \/ /\ tables' = [tables EXCEPT ![o] = @ \cup {p \div MapEntries}]
           /\ \/ pmap[o][p] # Absent /\ StoreOld(o, p, v)
              \/ pmap[o][p] = Absent /\ StoreNew(o, p, v)
              \/ pmap[o][p] = Absent /\ Drop(o, p)
    BY ZenonT(40), <2>2 DEF StoreInPagingFile
  <2>4. p \div MapEntries \in Int /\ tables' \in [Object -> SUBSET Int]
        /\ (\A oo \in Object : tables[oo] \subseteq tables'[oo])
    <3>1. p \div MapEntries \in Int
      BY <2>1, DefaultPagerAssumption
    <3>2. tables \in [Object -> SUBSET Int]
      BY ZenonT(40) DEF DataInv, DataTypes
    <3>3. tables' = tables \/ tables' = [tables EXCEPT ![o] = @ \cup {p \div MapEntries}]
      BY <2>3
    <3> DEFINE t == p \div MapEntries
    <3> HIDE DEF t
    <3>4. t \in Int /\ (tables' = tables \/ tables' = [tables EXCEPT ![o] = @ \cup {t}])
      BY <3>1, <3>3 DEF t
    <3>5. tables' \in [Object -> SUBSET Int] /\ (\A oo \in Object : tables[oo] \subseteq tables'[oo])
      BY <3>2, <3>4
    <3> QED BY <3>1, <3>5
  <2>5. UNCHANGED file
    BY <2>3 DEF Drop, StoreOld, StoreNew
  <2>6. ASSUME NEW page \in 0..NPages, [disk EXCEPT ![page] = v] = disk' \/ UNCHANGED disk
        PROVE  disk' \in [0..NPages -> Contents]
    BY <1>2, <2>6 DEF DataInv, DataTypes
  <2>7. CASE Drop(o, p) /\ (~initialized => pmap[o][p] = Absent)
    <3>1. /\ dropped' = dropped \cup {<<o, p>>}
          /\ UNCHANGED <<pmap, disk, errors>>
      BY <2>7 DEF Drop
    <3>2. DataTypes'
      BY SMTT(40), <1>2, <2>4, <2>5, <3>1 DEF DataInv, DataTypes
    <3>3. CASE ~initialized
      <4>1. PageOK(o, p)'
        BY <1>1, <1>4, <2>7, <3>1, <3>3 DEF PageOK
      <4>2. OthersKept(o, p)
        BY <1>1, <2>4, <2>5, <3>1 DEF OthersKept
      <4> QED
        BY Zenon, <1>1, <3>2, <3>3, <4>1, <4>2, WrittenKeeps
    <3> QED
      BY <1>1, <3>2, <3>3 DEF DataInv
  <2>8. CASE pmap[o][p] # Absent /\ StoreOld(o, p, v)
        /\ tables' = [tables EXCEPT ![o] = @ \cup {p \div MapEntries}]
    <3>1. /\ WriteDisk(o, pmap[o][p], v) /\ UNCHANGED <<pmap, dropped>>
          /\ pmap[o][p] \in Page /\ pmap[o][p] \in 0..NPages
      BY <2>8, DefaultPagerAssumption DEF StoreOld, PageInv, MapsOK, Page
    <3>2. \/ disk' = [disk EXCEPT ![pmap[o][p]] = v] /\ UNCHANGED errors
          \/ errors' = errors \cup {o} /\ UNCHANGED disk
      BY SMTT(40), <3>1 DEF WriteDisk
    <3>3. DataTypes'
      BY SMTT(40), <1>2, <2>4, <2>5, <2>6, <3>1, <3>2 DEF DataInv, DataTypes
    <3>4. CASE ~initialized
      <4>1. PageOK(o, p)'
        <5>1. <<o, p>> \notin dropped /\ p \div MapEntries \in tables'[o]
          BY SMTT(40), <1>1, <2>8, <3>4 DEF DataInv, DataTypes, PageOK
        <5>2. o \notin errors' => disk'[pmap[o][p]] = v
          BY Zenon, <3>1, <3>2 DEF DataInv, DataTypes
        <5> QED
          BY ZenonT(40), <1>1, <1>2, <1>4, <2>8, <3>1, <5>1, <5>2 DEF PageOK, Kept
      <4>2. \A page \in Page : page # pmap'[o][p] => disk'[page] = disk[page]
        BY Zenon, <3>1, <3>2, PageOfFile DEF DataInv, DataTypes
      <4>3. OthersKept(o, p)
        BY <1>1, <2>4, <2>5, <3>1, <3>2, <4>2 DEF OthersKept
      <4> QED
        BY <1>1, <3>3, <3>4, <4>1, <4>3, WrittenKeeps
    <3> QED
      BY <1>1, <3>3, <3>4 DEF DataInv
  <2>9. CASE pmap[o][p] = Absent /\ StoreNew(o, p, v)
        /\ tables' = [tables EXCEPT ![o] = @ \cup {p \div MapEntries}]
    <3>1. PICK page \in 0..NPages :
            /\ pf_allocate_page(page) /\ pmap' = [pmap EXCEPT ![o][p] = page]
            /\ WriteDisk(o, page, v) /\ dropped' = dropped \ {<<o, p>>}
      BY Zenon, <2>9 DEF StoreNew
    <3>2. page \in Page
      BY <3>1, AllocatedInFile DEF pf_allocate_page
    <3>3. \/ disk' = [disk EXCEPT ![page] = v] /\ UNCHANGED errors
          \/ errors' = errors \cup {o} /\ UNCHANGED disk
      BY <3>1 DEF WriteDisk
    <3>4. DataTypes'
      BY <1>2, <2>4, <2>5, <2>6, <3>1, <3>3 DEF DataInv, DataTypes
    <3>5. /\ pmap'[o][p] = page
          /\ \A oo \in Object : \A q \in Slot : <<oo, q>> # <<o, p>> => pmap'[oo][q] = pmap[oo][q]
      BY <3>1 DEF PageInv, MapsOK
    <3>6. CASE ~initialized
      <4>1. PageOK(o, p)'
        <5>1. <<o, p>> \notin dropped' /\ p \div MapEntries \in tables'[o]
          BY <2>9, <3>1 DEF DataInv, DataTypes
        <5>2. o \notin errors' => disk'[page] = v
          BY Zenon, <3>1, <3>3 DEF DataInv, DataTypes
        <5>3. page # Absent
          BY <3>2, DefaultPagerAssumption DEF Page, Absent
        <5> QED
          BY Zenon, <1>1, <1>2, <1>4, <3>5, <5>1, <5>2, <5>3 DEF PageOK, Kept
      <4>2. \A g \in Page : g # pmap'[o][p] => disk'[g] = disk[g]
        BY Zenon, <3>1, <3>3, <3>5, PageOfFile DEF DataInv, DataTypes
      <4>3. OthersKept(o, p)
        BY <1>1, <2>4, <2>5, <3>1, <3>3, <3>5, <4>2 DEF OthersKept
      <4> QED
        BY ZenonT(40), <1>1, <3>4, <3>6, <4>1, <4>3, WrittenKeeps
    <3> QED
      BY <1>1, <3>4, <3>6 DEF DataInv
  <2>10. CASE INDIRECT_PAGEMAP(o) /\ p \div MapEntries \notin tables[o] /\ Drop(o, p)
    <3>1. ~initialized => pmap[o][p] = Absent
      BY ZenonT(40), <1>1, <2>10 DEF DataInv, PageOK
    <3> QED
      BY <2>7, <2>10, <3>1
  <2> QED
    BY <2>3, <2>7, <2>8, <2>9, <2>10
<1> QED
  BY <1>3, <1>4 DEF PageInv, MapsOK

(* An object that is created or terminated is cleared, the others are left *)
(* alone.                                                                  *)
LEMMA DataCleared ==
  ASSUME PageInv, DataInv, NEW o \in Object, NEW n, Clear(o, n), live' \subseteq live \cup {o},
         UNCHANGED <<use_paging_file, disk, initialized>>
  PROVE  DataInv'
<1>1. DataTypes'
  BY DEF Clear, DataInv, DataTypes, Contents
<1>2. ASSUME NEW oo \in live', NEW q \in Slot, ~initialized PROVE PageOK(oo, q)'
  <2>1. oo \in Object
    BY DEF PageInv, MapsOK
  <2>2. CASE oo = o
    <3>1. sent'[oo][q] = Absent /\ pmap'[oo][q] = Absent /\ <<oo, q>> \notin dropped'
      BY <2>2 DEF Clear, DataInv, DataTypes, PageInv, MapsOK
    <3> QED
      BY <3>1 DEF PageOK
  <2>3. CASE oo # o
    <3>1. PageOK(oo, q)
      BY SMTT(40), <1>2, <2>3 DEF DataInv
    <3>2. /\ sent'[oo] = sent[oo] /\ pmap'[oo] = pmap[oo] /\ file'[oo] = file[oo]
          /\ tables'[oo] = tables[oo] /\ size'[oo] = size[oo]
      BY <2>1, <2>3 DEF Clear, DataInv, DataTypes, PageInv, MapsOK
    <3>3. (<<oo, q>> \in dropped' <=> <<oo, q>> \in dropped) /\ (oo \in errors' <=> oo \in errors)
      BY <2>3 DEF Clear
    <3> QED
      BY <3>1, <3>2, <3>3 DEF PageOK, Kept, INDIRECT_PAGEMAP
  <2> QED
    BY <2>2, <2>3
<1> QED
  BY <1>1, <1>2 DEF DataInv

(* is_page_write with whatever offset, as is_page_initialize calls it.     *)
LEMMA WriteTypes ==
  ASSUME DataTypes, NEW o \in Object, NEW p \in Int, NEW v \in Value, is_page_write(o, p, v)
  PROVE  /\ file' \in [Object -> [Slot -> Contents]] /\ disk' \in [0..NPages -> Contents]
         /\ tables' \in [Object -> SUBSET Int]
<1>1. v \in Contents /\ p \div MapEntries \in Int
  BY DefaultPagerAssumption DEF Contents
<1>2. file' = file \/ file' = [file EXCEPT ![o][p] = v]
  BY DEF is_page_write, StoreInPagingFile, StoreBehind, StoreOld, StoreNew, Drop
<1>3. disk' = disk \/ \E page : disk' = [disk EXCEPT ![page] = v]
  BY DEF is_page_write, StoreInPagingFile, StoreBehind, StoreOld, StoreNew, Drop, WriteDisk
<1>4. tables' = tables \/ tables' = [tables EXCEPT ![o] = @ \cup {p \div MapEntries}]
  BY DEF is_page_write, StoreInPagingFile
<1>5. file' \in [Object -> [Slot -> Contents]]
  <2>1. [file[o] EXCEPT ![p] = v] \in [Slot -> Contents]
    BY Zenon, <1>1 DEF DataTypes
  <2> QED
    BY Zenon, <1>2, <2>1 DEF DataTypes
<1>6. disk' \in [0..NPages -> Contents]
  <2>1. \A page : [disk EXCEPT ![page] = v] \in [0..NPages -> Contents]
    BY Zenon, <1>1 DEF DataTypes
  <2> QED
    BY <1>3, <2>1 DEF DataTypes
<1>7. tables' \in [Object -> SUBSET Int]
  BY SMTT(40), <1>1, <1>4 DEF DataTypes
<1> QED
  BY <1>5, <1>6, <1>7

LEMMA DataStep ==
  ASSUME PageInv, PageInv', DataInv, [Next]_vars PROVE DataInv'
<1>1. CASE UNCHANGED <<use_paging_file, live, size, pmap, tables, errors, disk, file, sent, dropped, initialized>>
  BY <1>1 DEF DataInv, DataTypes, PageOK, Kept, INDIRECT_PAGEMAP
<1>2. ASSUME NEW o \in Object, NEW n \in Sizes, memory_object_create(o, n)
      PROVE  DataInv'
  <2>1. \/ NewIstruct(o, n)
        \/ UNCHANGED <<live, size, pmap, tables, errors, file, sent, dropped>>
    BY <1>2 DEF memory_object_create, pf_alloc, isvars
  <2>2. UNCHANGED <<use_paging_file, disk, initialized>>
    BY <1>2 DEF memory_object_create
  <2> QED
    BY <1>1, <2>1, <2>2, DataCleared DEF NewIstruct
<1>3. ASSUME NEW o \in Object, NEW p \in Slot, NEW v \in Value, memory_object_data_write(o, p, v)
      PROVE  DataInv'
  BY <1>3, DataWrite
<1>4. ASSUME NEW o \in Object, NEW p \in Slot, NEW v \in Value, memory_object_data_initialize(o, p, v)
      PROVE  DataInv'
  <2> DEFINE actual == IF use_paging_file THEN PageOf(o, p) ELSE p
  <2>1. initialized' /\ sent' \in [Object -> [Slot -> Contents]]
    BY <1>4 DEF memory_object_data_initialize, DataInv, DataTypes, Contents
  <2>2. is_page_write(o, actual, v) \/ UNCHANGED <<file, disk, tables>>
    BY <1>4 DEF memory_object_data_initialize, is_page_initialize
  <2>3. actual \in Int
    BY <1>4, DefaultPagerAssumption DEF PageOf, PageInv, MapsOK, Page, Slot, Absent
  <2> HIDE DEF actual
  <2> QED
    BY <2>1, <2>2, <2>3, WriteTypes DEF DataInv, DataTypes
<1>5. ASSUME NEW o \in Object, memory_object_data_request(o)
      PROVE  DataInv'
  BY <1>1, <1>5 DEF memory_object_data_request, isvars, datavars
<1>6. ASSUME NEW o \in Object, memory_object_terminate(o)
      PROVE  DataInv'
  BY <1>6, DataCleared DEF memory_object_terminate
<1> QED
  BY <1>1, <1>2, <1>3, <1>4, <1>5, <1>6 DEF Next, vars, isvars, datavars

(* Up to the first data_initialize message a pagein is answered with what  *)
(* was last paged out, whatever objects share the paging file, or with an  *)
(* error if a pageout failed or the disk cannot be read.                   *)
THEOREM PageInCorrect == Spec => []PageInIsLastPageOut
<1>1. Init => DataInv
  BY SMTT(40) DEF Init, DataInv, DataTypes, Contents, PageOK
<1>2. PageInv /\ DataInv => PageInIsLastPageOut
  <2> SUFFICES ASSUME PageInv, DataInv, NEW o \in live, NEW p \in 0..size[o] - 1,
                      ~initialized, sent[o][p] # Absent, o \notin errors
               PROVE  LET x == IF <<o, p>> \in dropped THEN "unavailable" ELSE sent[o][p]
                      IN  x \in Answers(o, p) /\ Answers(o, p) \subseteq {x, "error"}
    BY DEF PageInIsLastPageOut
  <2>1. o \in Object
    BY SMTT(40) DEF PageInv, MapsOK
  <2>2. size[o] \in Nat /\ p \in Nat /\ p < size[o] /\ p < Slots(o) /\ p \in Slot
    BY SMTT(40), <2>1, SizeWithinSlots, SlotsFit, DefaultPagerAssumption DEF PageInv, Slot
  <2>3. PageOK(o, p)
    BY <2>2 DEF DataInv
  <2>4. PageOf(o, p) = pmap[o][p]
    BY <2>2 DEF PageOf
  <2>5. <<o, p>> \in dropped \/ Kept(o, p)
    BY SMTT(40), <2>2, <2>3 DEF PageOK
  <2>6. CASE <<o, p>> \in dropped
    BY SMTT(40), <2>3, <2>4, <2>6 DEF PageOK, Answers
  <2>7. CASE <<o, p>> \notin dropped
    BY <2>4, <2>5, <2>7 DEF Kept, Answers
  <2> QED
    BY <2>6, <2>7
<1> QED
  BY PagesInit, PagesStep, DataStep, <1>1, <1>2, PTL DEF Spec
=============================================================================
