---------------------------- MODULE MemoryProofs ----------------------------
(***************************************************************************)
(* The page allocator and the heap, for every memory map and every size of *)
(* pages, buffers and heap.                                                *)
(***************************************************************************)
EXTENDS Memory, SequenceTheorems, FiniteSetTheorems, TLAPS

(***************************************************************************)
(* Arithmetic                                                              *)
(***************************************************************************)
LEMMA Div ==
    ASSUME NEW a \in Nat, NEW d \in Nat \ {0}
    PROVE  /\ a \div d \in Nat
           /\ d * (a \div d) <= a /\ a < d * (a \div d) + d
  OBVIOUS

LEMMA Scale ==
    ASSUME NEW a \in Nat, NEW b \in Nat, NEW d \in Nat \ {0}
    PROVE  /\ d * a = a * d /\ a * d \in Nat
           /\ a <= b <=> a * d <= b * d
           /\ (a + b) * d = a * d + b * d
           /\ (a * d) % d = 0
  <1>1. d * a = a * d /\ a * d \in Nat /\ (a + b) * d = a * d + b * d
    OBVIOUS
  <1>2. a <= b => a * d <= b * d  OBVIOUS
  <1>3. ASSUME a * d <= b * d PROVE a <= b
    <2>1. CASE a > b
      <3>1. a >= b + 1  BY <2>1
      <3>2. a * d >= (b + 1) * d  BY <3>1
      <3>3. (b + 1) * d = b * d + d  OBVIOUS
      <3>4. a * d \in Nat /\ b * d \in Nat  OBVIOUS
      <3> QED  BY <1>3, <3>2, <3>3, <3>4
    <2> QED  BY <2>1
  <1>4. (a * d) % d = 0  OBVIOUS
  <1> QED  BY <1>1, <1>2, <1>3, <1>4

LEMMA Sizes ==
    /\ PAGE_SIZE \in Nat \ {0} /\ PAGE_SIZE > HEADER_SIZE /\ HEADER_SIZE = 24
    /\ MAX_PAGES \in Nat \ {0} /\ KernelEnd \in Nat
    /\ HEAP_INITIAL_PAGES \in Nat \ {0} /\ ClusBytes \in Nat /\ ElfMax \in Nat
    /\ AppendSizes \subseteq Nat /\ LoadSizes \subseteq Nat
    /\ Pages \subseteq Nat /\ 0 \in Pages
    /\ IsFiniteSet(Pages) /\ Cardinality(Pages) = MAX_PAGES
  <1>1. /\ PAGE_SIZE \in Nat \ {0} /\ PAGE_SIZE > HEADER_SIZE /\ HEADER_SIZE = 24
        /\ MAX_PAGES \in Nat \ {0} /\ KernelEnd \in Nat
        /\ HEAP_INITIAL_PAGES \in Nat \ {0} /\ ClusBytes \in Nat /\ ElfMax \in Nat
        /\ AppendSizes \subseteq Nat /\ LoadSizes \subseteq Nat
    BY PmmAssumption, HeapAssumption, MemoryAssumption
       DEF PmmAssumption, HeapAssumption, MemoryAssumption, HEADER_SIZE
  <1>2. Pages \subseteq Nat /\ 0 \in Pages  BY <1>1 DEF Pages
  <1>3. IsFiniteSet(Pages) /\ Cardinality(Pages) = MAX_PAGES
    <2>1. 0 \in Int /\ MAX_PAGES - 1 \in Int /\ ~(0 > MAX_PAGES - 1)  BY <1>1
    <2>2. Cardinality(0 .. MAX_PAGES - 1) = (MAX_PAGES - 1) - 0 + 1
      BY <2>1, FS_Interval
    <2> QED  BY <1>1, <2>1, <2>2, FS_Interval DEF Pages
  <1> QED  BY <1>1, <1>2, <1>3

-----------------------------------------------------------------------------
(***************************************************************************)
(* Pages                                                                   *)
(***************************************************************************)

(* A page that a region gives lies in it as a whole. *)
LEMMA RegionIsAvailable ==
    ASSUME mmap \in MemoryMaps, NEW k \in 1 .. Len(mmap), mmap[k].available
    PROVE  RegionPages(mmap[k]) \subseteq Available
  <1> DEFINE r == mmap[k]
             x == r.base + PAGE_SIZE - 1
             y == r.base + r.length
  <1>0. mmap \in Seq([base : Nat, length : Nat, available : BOOLEAN])
    BY PmmAssumption DEF PmmAssumption
  <1>1. r \in [base : Nat, length : Nat, available : BOOLEAN] /\ k \in DOMAIN mmap
    BY <1>0, ElementOfSeq, LenProperties
  <1>2. PAGE_SIZE \in Nat \ {0} /\ r.base \in Nat /\ r.length \in Nat
        /\ x \in Nat /\ y \in Nat
    BY <1>1, Sizes
  <1> SUFFICES ASSUME NEW p \in RegionPages(r) PROVE p \in Available  OBVIOUS
  <1>3. p \in Pages /\ p \in Nat /\ x \div PAGE_SIZE <= p /\ p < y \div PAGE_SIZE
    BY Sizes DEF RegionPages, RoundUp, RoundDown
  <1>4. r.base <= p * PAGE_SIZE
    <2> DEFINE q == x \div PAGE_SIZE
    <2>1. q \in Nat /\ x < PAGE_SIZE * q + PAGE_SIZE  BY <1>2, Div
    <2>2. PAGE_SIZE * q = q * PAGE_SIZE /\ q * PAGE_SIZE \in Nat
          /\ q * PAGE_SIZE <= p * PAGE_SIZE /\ p * PAGE_SIZE \in Nat
      <3> HIDE DEF q, x
      <3>1. q \in Nat /\ p \in Nat /\ q <= p /\ PAGE_SIZE \in Nat \ {0}
        BY <1>2, <1>3, <2>1 DEF q
      <3> QED  BY ONLY <3>1, Scale
    <2> HIDE DEF q
    <2> QED  BY <1>2, <2>1, <2>2
  <1>5. (p + 1) * PAGE_SIZE <= y
    <2> DEFINE q == y \div PAGE_SIZE
    <2>1. q \in Nat /\ PAGE_SIZE * q <= y  BY <1>2, Div
    <2>2. PAGE_SIZE * q = q * PAGE_SIZE /\ q * PAGE_SIZE \in Nat
          /\ (p + 1) * PAGE_SIZE <= q * PAGE_SIZE /\ (p + 1) * PAGE_SIZE \in Nat
      <3> HIDE DEF q, y
      <3>1. q \in Nat /\ p + 1 \in Nat /\ p + 1 <= q /\ PAGE_SIZE \in Nat \ {0}
        BY <1>2, <1>3, <2>1 DEF q
      <3> QED  BY ONLY <3>1, Scale
    <2> HIDE DEF q
    <2> QED  BY <1>2, <2>1, <2>2
  <1> QED  BY <1>1, <1>3, <1>4, <1>5 DEF Available

(* The numbers of pages before and after some are freed or taken. *)
LEMMA Freed ==
    ASSUME NEW used \in SUBSET Pages, NEW new \in SUBSET used
    PROVE  /\ Cardinality(new) \in Nat /\ Cardinality(Pages \ used) \in Nat
           /\ Pages \ (used \ new) = (Pages \ used) \cup new
           /\ Cardinality(Pages \ (used \ new)) = Cardinality(Pages \ used) + Cardinality(new)
  <1>1. IsFiniteSet(Pages \ used) /\ IsFiniteSet(new)
    <2>1. Pages \ used \in SUBSET Pages /\ new \in SUBSET Pages  OBVIOUS
    <2> QED  BY <2>1, Sizes, FS_Subset
  <1>2. Cardinality(new) \in Nat /\ Cardinality(Pages \ used) \in Nat
    BY <1>1, FS_CardinalityType
  <1>3. (Pages \ used) \cap new = {} /\ Pages \ (used \ new) = (Pages \ used) \cup new
    OBVIOUS
  <1>4. Cardinality((Pages \ used) \cup new)
          = Cardinality(Pages \ used) + Cardinality(new) - Cardinality((Pages \ used) \cap new)
    BY <1>1, FS_Union
  <1>5. Cardinality((Pages \ used) \cap new) = 0  BY <1>3, FS_EmptySet
  <1>6. Cardinality(Pages \ (used \ new)) = Cardinality(Pages \ used) + Cardinality(new)
    <2>1. Cardinality(Pages \ (used \ new))
            = Cardinality(Pages \ used) + Cardinality(new) - 0
      BY <1>3, <1>4, <1>5
    <2> QED  BY ONLY <1>2, <2>1
  <1> QED  BY <1>2, <1>3, <1>6

LEMMA FirstFreeIs ==
    ASSUME NEW used \in SUBSET Pages
    PROVE  /\ used # Pages => FirstFree(used) \in Pages \ used
           /\ FirstFree(used) \in Pages
           /\ FirstFree(used) # 0 => used # Pages
  <1>1. ASSUME used # Pages PROVE FirstFree(used) \in Pages \ used
    <2> DEFINE S == Pages \ used
    <2>1. S \in SUBSET Nat /\ S # {}  BY <1>1, Sizes
    <2>2. \E x \in S : \A y \in S : x <= y
      <3> HIDE DEF S
      <3>1. PICK x \in S : \A y \in S : <<y, x>> \notin OpToRel(<, Nat)
        BY <2>1, NatLessThanWellFounded, WFMin
      <3>2. OpToRel(<, Nat) = {ss \in Nat \X Nat : ss[1] < ss[2]}
        BY Zenon DEF OpToRel
      <3>3. ASSUME NEW y \in S PROVE x <= y
        <4>1. ~(y < x)  BY <2>1, <3>1, <3>2
        <4> QED  BY <2>1, <4>1
      <3> QED  BY <3>3
    <2>3. Min(S) \in S  BY <2>2 DEF Min
    <2> QED  BY <1>1, <2>3 DEF FirstFree
  <1> QED  BY <1>1, Sizes DEF FirstFree

(* The counters, the bitmap and the map.  What is free is available, and while
   the map is read every page it gave is free. *)
CountInv ==
    /\ mmap \in MemoryMaps /\ bitmap \subseteq Pages
    /\ free_pages = Cardinality(Pages \ bitmap)
    /\ total_pages \in Nat /\ free_pages <= total_pages
    /\ total_pages <= Cardinality(Available)
    /\ Pages \ bitmap \subseteq Available
    /\ pc = "map" => total_pages = free_pages /\ i \in Nat \ {0}
    /\ pc = "stray" => free_pages < total_pages /\ stray \in Available

LEMMA CountTypes ==
    ASSUME CountInv
    PROVE  /\ free_pages \in Nat /\ Cardinality(Available) \in Nat
           /\ IsFiniteSet(Available) /\ Available \subseteq Pages
           /\ Cardinality(Available) <= MAX_PAGES
  <1>1. Available \in SUBSET Pages /\ Pages \ bitmap \in SUBSET Pages
    BY DEF Available
  <1>2. IsFiniteSet(Available) /\ IsFiniteSet(Pages \ bitmap)
        /\ Cardinality(Available) <= MAX_PAGES
    BY <1>1, Sizes, FS_Subset
  <1> QED  BY <1>1, <1>2, FS_CardinalityType DEF CountInv

(* Nobody but the map's regions, the reservation, alloc_pages and the page it
   gives back changes the counters. *)
LEMMA CountInvHolds == Spec => []CountInv
  <1>1. Init => CountInv
    <2> SUFFICES ASSUME Init PROVE CountInv  OBVIOUS
    <2>1. /\ mmap \in MemoryMaps /\ bitmap = Pages /\ free_pages = 0 /\ total_pages = 0
          /\ pc = "map" /\ i = 1
      BY DEF Init, PmmInit
    <2>2. Pages \ bitmap = {} /\ Cardinality(Pages \ bitmap) = 0
      BY <2>1, FS_EmptySet
    <2>3. Cardinality(Available) \in Nat
      <3>1. Available \in SUBSET Pages  BY DEF Available
      <3> QED  BY <3>1, Sizes, FS_Subset, FS_CardinalityType
    <2> QED  BY <2>1, <2>2, <2>3 DEF CountInv
  <1>2. CountInv /\ [Next]_vars => CountInv'
    <2> SUFFICES ASSUME CountInv, [Next]_vars PROVE CountInv'  OBVIOUS
    <2>0. /\ free_pages \in Nat /\ Cardinality(Available) \in Nat
          /\ IsFiniteSet(Available) /\ Available \subseteq Pages /\ bitmap \in SUBSET Pages
          /\ mmap \in MemoryMaps /\ total_pages \in Nat
          /\ free_pages = Cardinality(Pages \ bitmap)
      BY CountTypes DEF CountInv
    <2>1. CASE MapRegion
      <3> DEFINE r   == mmap[i]
                 new == IF r.available THEN RegionPages(r) \cap bitmap ELSE {}
      <3>1. /\ pc = "map" /\ i \in 1 .. Len(mmap) /\ UNCHANGED <<mmap, pc>> /\ i' = i + 1
            /\ bitmap' = bitmap \ new /\ free_pages' = free_pages + Cardinality(new)
            /\ total_pages' = total_pages + Cardinality(new)
        <4>1. Len(mmap) \in Nat
          BY <2>0, PmmAssumption, LenProperties DEF PmmAssumption
        <4> QED  BY <2>1, <4>1 DEF MapRegion, TakeRegion, CountInv
      <3>2. new \in SUBSET bitmap /\ new \subseteq Available
        BY <2>0, <3>1, RegionIsAvailable
      <3> HIDE DEF new
      <3>3. /\ free_pages' = Cardinality(Pages \ bitmap') /\ total_pages' = free_pages'
            /\ Pages \ bitmap' = (Pages \ bitmap) \cup new /\ free_pages' \in Nat
        <4>1. /\ Cardinality(new) \in Nat
              /\ Pages \ bitmap' = (Pages \ bitmap) \cup new
              /\ Cardinality(Pages \ bitmap') = free_pages + Cardinality(new)
          BY <2>0, <3>1, <3>2, Freed
        <4>2. total_pages = free_pages  BY <3>1 DEF CountInv
        <4> QED  BY <2>0, <3>1, <4>1, <4>2
      <3>4. Pages \ bitmap' \in SUBSET Available /\ Available' = Available
        BY <3>1, <3>2, <3>3 DEF CountInv, Available
      <3>5. free_pages' <= Cardinality(Available)  BY <2>0, <3>3, <3>4, FS_Subset
      <3>6. i' \in Nat \ {0}  BY <3>1 DEF CountInv
      <3> QED  BY <2>0, <3>1, <3>3, <3>4, <3>5, <3>6 DEF CountInv
    <2>2. CASE GuardPages
      <3> DEFINE pages == {0} \cup KernelPages
                 taken == pages \ bitmap
      <3>1. /\ pc = "map" /\ pc' = "pages" /\ UNCHANGED <<mmap, total_pages>>
            /\ bitmap' = bitmap \cup pages /\ free_pages' = free_pages - Cardinality(taken)
        BY <2>2 DEF GuardPages, Reserve
      <3>2. bitmap' \in SUBSET Pages /\ taken \in SUBSET bitmap' /\ bitmap' \ taken = bitmap
        BY <2>0, <3>1, Sizes DEF KernelPages
      <3> HIDE DEF taken
      <3>3. /\ free_pages' = Cardinality(Pages \ bitmap') /\ free_pages' <= free_pages
        <4>1. /\ Cardinality(taken) \in Nat /\ Cardinality(Pages \ bitmap') \in Nat
              /\ free_pages = Cardinality(Pages \ bitmap') + Cardinality(taken)
          BY <2>0, <3>2, Freed
        <4> QED  BY <3>1, <4>1
      <3>4. Pages \ bitmap' \subseteq Pages \ bitmap /\ Available' = Available
            /\ free_pages' \in Int
        BY <2>0, <3>1, Freed, <3>2, <3>3 DEF Available
      <3> QED  BY <2>0, <3>1, <3>2, <3>3, <3>4 DEF CountInv
    <2>3. CASE TakePage \/ TakeStrayPage
      <3> DEFINE p == FirstFree(bitmap)
      <3>1. p \in Pages \ bitmap /\ bitmap # Pages
        <4>1. p # 0  BY <2>3 DEF TakePage, TakeStrayPage
        <4> QED  BY <2>0, <4>1, FirstFreeIs
      <3>2. /\ bitmap' = bitmap \cup {p} /\ free_pages' = free_pages - 1
            /\ UNCHANGED <<mmap, total_pages>> /\ pc = "pages"
            /\ pc' = "pages" \/ (pc' = "stray" /\ stray' = p)
        BY <2>3, <3>1 DEF TakePage, TakeStrayPage, AllocPage
      <3> HIDE DEF p
      <3>3. /\ bitmap' \in SUBSET Pages /\ {p} \in SUBSET bitmap'
            /\ bitmap' \ {p} = bitmap
        BY <2>0, <3>1, <3>2
      <3>4. /\ Cardinality(Pages \ bitmap') \in Nat
            /\ free_pages = Cardinality(Pages \ bitmap') + 1
        <4>1. Cardinality({p}) = 1  BY FS_Singleton
        <4> QED  BY <2>0, <3>3, <4>1, Freed
      <3>5. free_pages' = Cardinality(Pages \ bitmap') /\ free_pages' < total_pages
        BY <2>0, <3>2, <3>4 DEF CountInv
      <3>6. Pages \ bitmap' \subseteq Pages \ bitmap /\ Available' = Available
            /\ p \in Available
        BY <3>1, <3>2 DEF Available, CountInv
      <3> QED  BY <2>0, <3>2, <3>3, <3>4, <3>5, <3>6 DEF CountInv
    <2>4. CASE GiveBackPage
      <3> DEFINE new == {stray} \cap bitmap
      <3>1. /\ pc = "stray" /\ pc' = "heap" /\ UNCHANGED <<mmap, total_pages>>
            /\ bitmap' = bitmap \ {stray}
            /\ free_pages' = free_pages + Cardinality(new)
        BY <2>4 DEF GiveBackPage, FreePage
      <3>2. new \in SUBSET bitmap /\ new \subseteq Available /\ bitmap' = bitmap \ new
            /\ (new = {} \/ new = {stray})
        BY <3>1 DEF CountInv
      <3> HIDE DEF new
      <3>3. Cardinality(new) \in {0, 1}
        BY <3>2, FS_EmptySet, FS_Singleton
      <3>4. /\ free_pages' = Cardinality(Pages \ bitmap') /\ free_pages' <= total_pages
            /\ Pages \ bitmap' = (Pages \ bitmap) \cup new
        BY <2>0, <3>1, <3>2, <3>3, Freed DEF CountInv
      <3>5. Pages \ bitmap' \subseteq Available /\ Available' = Available
        BY <3>1, <3>2, <3>4 DEF CountInv, Available
      <3> QED  BY <2>0, <3>1, <3>4, <3>5 DEF CountInv
    <2>5. CASE UNCHANGED pmmVars /\ (pc' # pc => pc' \notin {"map", "stray"})
                 /\ (pc \in {"map", "stray"} => UNCHANGED <<i, stray>>)
      BY <2>5 DEF pmmVars, CountInv, Available
    <2>6. CASE PagesDone \/ HeapInit \/ Mount \/ (\E n \in AppendSizes : AppendBegin(n))
                 \/ AppendEnd \/ ExecBegin \/ ExecRefuse \/ ExecEnd
                 \/ (\E n \in LoadSizes : ExecLoad(n)) \/ UNCHANGED vars
      <3>1. UNCHANGED pmmVars /\ (pc' # pc => pc' \notin {"map", "stray"})
                 /\ (pc \in {"map", "stray"} => UNCHANGED <<i, stray>>)
        BY <2>6 DEF PagesDone, HeapInit, Mount, AppendBegin, AppendEnd, ExecBegin,
                    ExecRefuse, ExecEnd, ExecLoad, vars
      <3> QED  BY <2>5, <3>1
    <2> QED  BY <2>1, <2>2, <2>3, <2>4, <2>6 DEF Next, Boot
  <1> QED  BY <1>1, <1>2, PTL DEF Spec

(* The counters agree with the bitmap and with the memory map, whatever regions
   it has and however they overlap (pmm_init, pmm_alloc_page, pmm_free_page). *)
THEOREM PagesAreCounted == Spec => []PagesCounted
  <1>1. CountInv => PagesCounted  BY DEF CountInv, PagesCounted
  <1> QED  BY <1>1, CountInvHolds, PTL

-----------------------------------------------------------------------------
(***************************************************************************)
(* The list of blocks                                                      *)
(***************************************************************************)
Blocks == [at : Nat, size : Nat, free : BOOLEAN]

(* The first n blocks are in use and there is at most one more, which is free;
   each begins where the one before ends. *)
Packed(h, n) ==
    /\ h \in Seq(Blocks) /\ Len(h) \in {n, n + 1}
    /\ \A k \in 1 .. Len(h) : h[k].free <=> k = n + 1
    /\ \A j, k \in 1 .. Len(h) : j < k => h[j].at + HEADER_SIZE + h[j].size <= h[k].at
    /\ \A k \in 1 .. Len(h) - 1 : h[k + 1].at = h[k].at + HEADER_SIZE + h[k].size

EndOf(h) == h[Len(h)].at + HEADER_SIZE + h[Len(h)].size

LEMMA TailReplaced ==
    ASSUME NEW S, NEW h \in Seq(S), NEW a \in 1 .. Len(h), NEW new \in Seq(S)
    PROVE  /\ Replace(h, a, Len(h), new) \in Seq(S)
           /\ Len(Replace(h, a, Len(h), new)) = a - 1 + Len(new)
           /\ \A k \in 1 .. a - 1 + Len(new) :
                Replace(h, a, Len(h), new)[k] = IF k < a THEN h[k] ELSE new[k - a + 1]
  <1> DEFINE b == SubSeq(h, 1, a - 1)
             c == SubSeq(h, Len(h) + 1, Len(h))
             r == Replace(h, a, Len(h), new)
  <1>0. Len(h) \in Nat /\ Len(new) \in Nat /\ a \in Nat  OBVIOUS
  <1>1. b \in Seq(S) /\ Len(b) = a - 1 /\ \A k \in 1 .. a - 1 : b[k] = h[k]
    BY <1>0
  <1>2. c = <<>>
    <2>1. Len(h) + 1 > Len(h)  BY <1>0
    <2> QED  BY <1>0, <2>1, SubSeqEmpty
  <1>3. r = (b \o new) \o c  BY DEF Replace
  <1> HIDE DEF b, c, r
  <1>4. /\ b \o new \in Seq(S) /\ Len(b \o new) = Len(b) + Len(new)
        /\ \A k \in 1 .. Len(b) + Len(new) :
              (b \o new)[k] = IF k <= Len(b) THEN b[k] ELSE new[k - Len(b)]
    BY <1>1, ConcatProperties
  <1>5. r = b \o new  BY <1>2, <1>3, <1>4, ConcatEmptySeq
  <1>6. Len(r) = a - 1 + Len(new) /\ r \in Seq(S)  BY <1>0, <1>1, <1>4, <1>5
  <1>7. ASSUME NEW k \in 1 .. a - 1 + Len(new)
        PROVE  r[k] = IF k < a THEN h[k] ELSE new[k - a + 1]
    <2>1. CASE k < a
      <3>1. k \in 1 .. a - 1 /\ k \in 1 .. Len(b) + Len(new) /\ k <= Len(b)
        BY <1>0, <1>1, <2>1
      <3> QED  BY <1>1, <1>4, <1>5, <2>1, <3>1
    <2>2. CASE ~(k < a)
      <3>1. k \in 1 .. Len(b) + Len(new) /\ ~(k <= Len(b)) /\ k - Len(b) = k - a + 1
        BY <1>0, <1>1, <2>2
      <3> QED  BY <1>4, <1>5, <2>2, <3>1
    <2> QED  BY <2>1, <2>2
  <1> QED  BY <1>6, <1>7 DEF r

(* kmalloc: nothing, or the free block at the end, cut to what is asked. *)
LEMMA Allocates ==
    ASSUME NEW n \in Nat, NEW h, Packed(h, n), NEW bytes \in Nat
    PROVE  \/ Kmalloc(h, bytes).ptr = NULL /\ Kmalloc(h, bytes).heap = h
           \/ \E g \in Seq(Blocks) :
                /\ Kmalloc(h, bytes).heap = g /\ Packed(g, n + 1)
                /\ Kmalloc(h, bytes).ptr = g[n + 1].at + HEADER_SIZE
                /\ g[n + 1].size >= bytes
                /\ h # <<>> /\ g # <<>> /\ g[1].at = h[1].at /\ EndOf(g) = EndOf(h)
                /\ \A k \in 1 .. n : g[k] = h[k]
  <1> DEFINE need == Align(bytes)
             F    == Fits(h, need)
  <1>0. h \in Seq(Blocks) /\ Len(h) \in Nat /\ DOMAIN h = 1 .. Len(h)
    BY LenProperties DEF Packed
  <1>1. CASE bytes = 0 \/ F = {}
    BY <1>1 DEF Kmalloc
  <1>2. CASE ~(bytes = 0 \/ F = {})
    <2>1. need \in Nat /\ need >= bytes  BY DEF Align
    <2> HIDE DEF need
    <2>2. Len(h) = n + 1 /\ F = {n + 1} /\ h[n + 1].size >= need
      <3>1. \A k \in F : k \in 1 .. Len(h) /\ h[k].free /\ h[k].size >= need
        BY <1>0 DEF Fits
      <3>2. \A k \in F : k = n + 1  BY <3>1 DEF Packed
      <3>3. PICK k \in F : TRUE  BY <1>2
      <3>4. n + 1 \in F /\ n + 1 \in 1 .. Len(h)  BY <3>1, <3>2, <3>3
      <3> HIDE DEF F
      <3>5. Len(h) = n + 1
        <4>1. Len(h) \in {n, n + 1}  BY DEF Packed
        <4> QED  BY <3>4, <4>1
      <3>6. F = {n + 1}  BY <3>2, <3>4
      <3> QED  BY <3>1, <3>4, <3>5, <3>6
    <2>3. Min(F) = n + 1
      <3>1. \A x \in {n + 1} : x <= n + 1 /\ x = n + 1  OBVIOUS
      <3>2. Min({n + 1}) = n + 1  BY <3>1 DEF Min
      <3> QED  BY <2>2, <3>2
    <2> DEFINE b  == h[n + 1]
               sp == Split(b, need)
               g  == Replace(h, n + 1, n + 1, sp)
    <2>4. Kmalloc(h, bytes).heap = g /\ Kmalloc(h, bytes).ptr = b.at + HEADER_SIZE
      BY <1>2, <2>3 DEF Kmalloc, need
    <2> HIDE DEF F
    <2>5. b \in Blocks /\ n + 1 \in 1 .. Len(h)
      BY <1>0, <2>2, ElementOfSeq
    <2>6. /\ sp \in Seq(Blocks) /\ Len(sp) \in {1, 2}
          /\ sp[1].at = b.at /\ sp[1].size >= bytes /\ ~sp[1].free
          /\ Len(sp) = 1 => sp[1].size = b.size
          /\ Len(sp) = 2 => /\ sp[2].free
                            /\ sp[2].at = b.at + HEADER_SIZE + sp[1].size
                            /\ sp[2].at + HEADER_SIZE + sp[2].size = b.at + HEADER_SIZE + b.size
      <3> HIDE DEF b
      <3>0. b.at \in Nat /\ b.size \in Nat /\ b.size >= need /\ HEADER_SIZE = 24
            /\ MIN_SPLIT = 16
        BY <2>2, <2>5 DEF Blocks, b, HEADER_SIZE, MIN_SPLIT
      <3>1. CASE b.size >= need + HEADER_SIZE + MIN_SPLIT
        <4> DEFINE x == Block(b.at, need, FALSE)
                   y == Block(b.at + HEADER_SIZE + need, b.size - need - HEADER_SIZE, TRUE)
        <4>1. sp = <<x, y>>  BY <3>1 DEF Split
        <4>2. x \in Blocks /\ y \in Blocks
          BY <2>1, <3>0, <3>1 DEF Block, Blocks
        <4>3. /\ x.at = b.at /\ x.size = need /\ ~x.free
              /\ y.at = b.at + HEADER_SIZE + need /\ y.free
              /\ y.size = b.size - need - HEADER_SIZE
          BY DEF Block
        <4> HIDE DEF x, y, sp
        <4>4. sp \in Seq(Blocks) /\ Len(sp) = 2 /\ sp[1] = x /\ sp[2] = y
          BY <4>1, <4>2
        <4>5. sp[2].at + HEADER_SIZE + sp[2].size = b.at + HEADER_SIZE + b.size
          BY <2>1, <3>0, <4>3, <4>4
        <4> QED  BY <2>1, <4>3, <4>4, <4>5
      <3>2. CASE ~(b.size >= need + HEADER_SIZE + MIN_SPLIT)
        <4> DEFINE x == Block(b.at, b.size, FALSE)
        <4>1. sp = <<x>>  BY <3>2 DEF Split
        <4>2. x \in Blocks  BY <3>0 DEF Block, Blocks
        <4>3. x.at = b.at /\ x.size = b.size /\ ~x.free  BY DEF Block
        <4> HIDE DEF x, sp
        <4>4. sp \in Seq(Blocks) /\ Len(sp) = 1 /\ sp[1] = x  BY <4>1, <4>2
        <4>5. sp[1].size >= bytes  BY <2>1, <3>0, <4>3, <4>4
        <4> QED  BY <4>3, <4>4, <4>5
      <3> QED  BY <3>1, <3>2
    <2> HIDE DEF sp
    <2>7. /\ g \in Seq(Blocks) /\ Len(g) = n + Len(sp)
          /\ \A k \in 1 .. n : g[k] = h[k]
          /\ g[n + 1] = sp[1] /\ (Len(sp) = 2 => g[n + 2] = sp[2])
      <3>1. PICK a \in 1 .. Len(h) : a = n + 1  BY <2>5
      <3>2. g = Replace(h, a, Len(h), sp)  BY <2>2, <3>1
      <3> HIDE DEF g
      <3>3. /\ g \in Seq(Blocks) /\ Len(g) = a - 1 + Len(sp)
            /\ \A k \in 1 .. a - 1 + Len(sp) : g[k] = IF k < a THEN h[k] ELSE sp[k - a + 1]
        BY <1>0, <2>6, <3>2, TailReplaced
      <3>4. ASSUME NEW k \in 1 .. n PROVE g[k] = h[k]
        <4>1. k \in 1 .. a - 1 + Len(sp) /\ k < a  BY <2>6, <3>1
        <4> QED  BY <3>3, <4>1
      <3>5. Len(sp) \in Nat /\ Len(sp) >= 1  BY <2>6
      <3>6. g[n + 1] = sp[1]
        <4>1. a \in 1 .. a - 1 + Len(sp) /\ ~(a < a) /\ a - a + 1 = 1  BY <3>5
        <4> QED  BY <3>1, <3>3, <4>1
      <3>7. Len(sp) = 2 => g[n + 2] = sp[2]
        <4>1. Len(sp) = 2 => a + 1 \in 1 .. a - 1 + Len(sp)  BY <3>5
        <4>2. ~(a + 1 < a) /\ (a + 1) - a + 1 = 2 /\ a + 1 = n + 2  BY <3>1
        <4> QED  BY <3>3, <4>1, <4>2
      <3>8. Len(g) = n + Len(sp)  BY <3>1, <3>3
      <3> QED  BY <3>3, <3>4, <3>6, <3>7, <3>8
    <2> HIDE DEF g
    <2>8. g[n + 1] = sp[1] /\ (Len(sp) = 2 => g[n + 2] = sp[2])
      BY <2>6, <2>7
    <2>9. EndOf(g) = EndOf(h) /\ g[1].at = h[1].at /\ h # <<>> /\ g # <<>>
      <3>1. EndOf(h) = b.at + HEADER_SIZE + b.size  BY <2>2 DEF EndOf
      <3>2. ASSUME Len(sp) = 1 PROVE EndOf(g) = EndOf(h)
        <4>1. Len(g) = n + 1  BY <2>7, <3>2
        <4> QED  BY <2>6, <2>8, <3>1, <3>2, <4>1 DEF EndOf
      <3>3. ASSUME Len(sp) = 2 PROVE EndOf(g) = EndOf(h)
        <4>1. Len(g) = n + 2  BY <2>7, <3>3
        <4> QED  BY <2>6, <2>8, <3>1, <3>3, <4>1 DEF EndOf
      <3>4. g[1].at = h[1].at
        <4>1. CASE n = 0  BY <2>6, <2>8, <4>1
        <4>2. CASE n # 0
          <5>1. 1 \in 1 .. n  BY <4>2
          <5> QED  BY <2>7, <5>1
        <4> QED  BY <4>1, <4>2
      <3>5. h # <<>> /\ g # <<>>
        <4>1. Len(h) # 0 /\ Len(g) # 0  BY <2>2, <2>6, <2>7
        <4> QED  BY <4>1
      <3> QED  BY <2>6, <3>2, <3>3, <3>4, <3>5
    <2>10. Packed(g, n + 1)
      <3>0. /\ Len(g) \in {n + 1, n + 2} /\ HEADER_SIZE \in Nat
            /\ \A k \in 1 .. Len(h) : h[k] \in Blocks /\ h[k].at \in Nat /\ h[k].size \in Nat
            /\ \A k \in 1 .. Len(g) : g[k] \in Blocks /\ g[k].at \in Nat /\ g[k].size \in Nat
        <4>1. \A k \in 1 .. Len(h) : h[k] \in Blocks  BY <1>0, ElementOfSeq
        <4>2. \A k \in 1 .. Len(g) : g[k] \in Blocks  BY <2>7, ElementOfSeq
        <4> QED  BY <2>6, <2>7, <4>1, <4>2 DEF Blocks, HEADER_SIZE
      <3>a. (Len(sp) = 1 /\ Len(g) = n + 1) \/ (Len(sp) = 2 /\ Len(g) = n + 2)
        BY <2>6, <2>7
      <3>1. ASSUME NEW k \in 1 .. Len(g) PROVE g[k].free <=> k = (n + 1) + 1
        <4>1. CASE k \in 1 .. n
          <5>1. g[k] = h[k] /\ k \in 1 .. Len(h) /\ k # n + 1  BY <2>2, <2>7, <4>1
          <5> QED  BY <4>1, <5>1 DEF Packed
        <4>2. CASE k = n + 1  BY <2>6, <2>8, <4>2
        <4>3. CASE k = n + 2
          <5>1. Len(sp) = 2  BY <3>a, <4>3
          <5> QED  BY <2>6, <2>8, <4>3, <5>1
        <4> QED  BY <3>0, <4>1, <4>2, <4>3
      <3>2. ASSUME NEW j \in 1 .. Len(g), NEW k \in 1 .. Len(g), j < k
            PROVE  g[j].at + HEADER_SIZE + g[j].size <= g[k].at
        <4>1. CASE k \in 1 .. n
          <5>1. /\ g[j] = h[j] /\ g[k] = h[k] /\ j \in 1 .. Len(h) /\ k \in 1 .. Len(h)
            BY <2>2, <2>7, <3>2, <4>1
          <5> QED  BY <3>2, <5>1 DEF Packed
        <4>2. CASE k = n + 1
          <5>1. g[j] = h[j] /\ j \in 1 .. Len(h) /\ n + 1 \in 1 .. Len(h)
            BY <2>2, <2>7, <3>2, <4>2
          <5>2. h[j].at + HEADER_SIZE + h[j].size <= b.at
            BY <3>2, <4>2, <5>1 DEF Packed
          <5> QED  BY <2>6, <2>8, <4>2, <5>1, <5>2
        <4>3. CASE k = n + 2 /\ j = n + 1
          <5>1. Len(sp) = 2  BY <3>a, <4>3
          <5>2. g[k].at = b.at + HEADER_SIZE + g[j].size /\ g[j].at = b.at
            BY <2>6, <2>8, <4>3, <5>1
          <5>3. g[j].at + HEADER_SIZE + g[j].size = g[k].at  BY <5>2
          <5>4. g[k].at \in Nat  BY <3>0
          <5> QED  BY <5>3, <5>4
        <4>4. CASE k = n + 2 /\ j \in 1 .. n
          <5>1. Len(sp) = 2  BY <3>a, <4>4
          <5>2. g[j] = h[j] /\ j \in 1 .. Len(h) /\ n + 1 \in 1 .. Len(h) /\ j < n + 1
            BY <2>2, <2>7, <4>4
          <5>3. h[j].at + HEADER_SIZE + h[j].size <= b.at  BY <5>2 DEF Packed
          <5>4. /\ g[k].at = b.at + HEADER_SIZE + sp[1].size
                /\ sp[1].size \in Nat /\ b.at \in Nat /\ h[j].at \in Nat /\ h[j].size \in Nat
            <6>1. n + 1 \in 1 .. Len(g) /\ sp[1] = g[n + 1]  BY <2>8, <3>0
            <6> QED  BY <2>6, <2>8, <3>0, <4>4, <5>1, <5>2, <6>1
          <5>5. b.at <= g[k].at /\ g[k].at \in Nat  BY <3>0, <5>4
          <5>6. g[j].at + HEADER_SIZE + g[j].size <= b.at  BY <5>2, <5>3
          <5>7. g[j].at + HEADER_SIZE + g[j].size \in Nat  BY <3>0
          <5> QED  BY <5>4, <5>5, <5>6, <5>7
        <4> QED  BY <3>0, <3>2, <4>1, <4>2, <4>3, <4>4
      <3>3. ASSUME NEW k \in 1 .. Len(g) - 1
            PROVE  g[k + 1].at = g[k].at + HEADER_SIZE + g[k].size
        <4>1. CASE k + 1 \in 1 .. n
          <5>1. /\ g[k] = h[k] /\ g[k + 1] = h[k + 1] /\ k \in 1 .. Len(h) - 1
            BY <2>2, <2>7, <4>1
          <5> QED  BY <5>1 DEF Packed
        <4>2. CASE k = n
          <5>1. g[k] = h[k] /\ k \in 1 .. Len(h) - 1  BY <2>2, <2>7, <4>2
          <5>2. h[k + 1].at = h[k].at + HEADER_SIZE + h[k].size  BY <5>1 DEF Packed
          <5> QED  BY <2>6, <2>8, <4>2, <5>1, <5>2
        <4>3. CASE k = n + 1
          <5>1. Len(sp) = 2 /\ k + 1 = n + 2  BY <3>a, <4>3
          <5> QED  BY <2>6, <2>8, <4>3, <5>1
        <4> QED  BY <3>0, <4>1, <4>2, <4>3
      <3>4. Len(g) \in {n + 1, (n + 1) + 1}  BY <3>0
      <3> QED  BY <2>7, <3>1, <3>2, <3>3, <3>4 DEF Packed
    <2> QED  BY <2>4, <2>6, <2>7, <2>8, <2>9, <2>10
  <1> QED  BY <1>1, <1>2

(* kfree of the last block in use: it becomes the free block at the end, with
   the one that was there. *)
LEMMA Releases ==
    ASSUME NEW n \in Nat \ {0}, NEW h, Packed(h, n)
    PROVE  LET g == Kfree(h, h[n].at + HEADER_SIZE)
           IN  /\ Packed(g, n - 1) /\ Len(g) = n
               /\ h # <<>> /\ g # <<>> /\ g[1].at = h[1].at /\ EndOf(g) = EndOf(h)
               /\ \A k \in 1 .. n - 1 : g[k] = h[k]
  <1> DEFINE ptr == h[n].at + HEADER_SIZE
             I   == CHOOSE k \in DOMAIN h : h[k].at + HEADER_SIZE = ptr
             S   == {k \in I .. Len(h) : \A m \in I + 1 .. k : h[m].free}
             L   == Max(S)
             grow[k \in I .. L] ==
                IF k = I THEN h[I].size ELSE grow[k - 1] + HEADER_SIZE + h[k].size
             new == Block(h[I].at, grow[L], TRUE)
             g   == Replace(h, I, L, <<new>>)
  <1>s. h \in Seq(Blocks) /\ DOMAIN h = 1 .. Len(h)
    BY LenProperties DEF Packed
  <1>0. Len(h) \in Nat /\ n \in 1 .. Len(h) /\ (Len(h) = n \/ Len(h) = n + 1)
    BY LenProperties DEF Packed
  <1>z. HEADER_SIZE \in Nat  BY DEF HEADER_SIZE
  <1>1. \A k \in 1 .. Len(h) : /\ h[k] \in Blocks /\ h[k].at \in Nat /\ h[k].size \in Nat
                               /\ (h[k].free <=> k = n + 1)
    <2>1. \A k \in 1 .. Len(h) : h[k] \in Blocks  BY <1>s, ElementOfSeq
    <2> QED  BY <2>1 DEF Blocks, Packed
  <1>2. Kfree(h, ptr) = g
    <2>1. h[n].at \in Nat  BY <1>0, <1>1
    <2>2. ptr # NULL  BY <2>1 DEF HEADER_SIZE, NULL
    <2> QED  BY <2>2 DEF Kfree
  <1> HIDE DEF S, L, grow, new, g
  <1>3. I = n
    <2>1. n \in DOMAIN h /\ h[n].at + HEADER_SIZE = ptr  BY <1>s, <1>0
    <2>2. I \in DOMAIN h /\ h[I].at + HEADER_SIZE = ptr  BY <2>1
    <2> HIDE DEF I
    <2>3. I \in 1 .. Len(h)  BY <1>s, <2>2
    <2>4. /\ h[I].at \in Nat /\ h[I].size \in Nat
          /\ h[n].at \in Nat /\ h[n].size \in Nat
      BY <1>0, <1>1, <2>3
    <2>5. h[I].at = h[n].at  BY <2>2, <2>4 DEF HEADER_SIZE
    <2>6. CASE I < n
      <3>1. h[I].at + HEADER_SIZE + h[I].size <= h[n].at
        BY <1>0, <2>3, <2>6 DEF Packed
      <3> QED  BY <2>4, <2>5, <3>1 DEF HEADER_SIZE
    <2>7. CASE I > n
      <3>1. h[n].at + HEADER_SIZE + h[n].size <= h[I].at
        BY <1>0, <2>3, <2>7 DEF Packed
      <3> QED  BY <2>4, <2>5, <3>1 DEF HEADER_SIZE
    <2> QED  BY <1>0, <2>3, <2>6, <2>7
  <1> HIDE DEF I
  <1>4. L = Len(h)
    <2>1. ASSUME NEW k \in S PROVE k <= Len(h) /\ k \in Int
      BY <1>0, <1>3 DEF S
    <2>2. Len(h) \in S
      <3>1. ASSUME NEW m \in I + 1 .. Len(h) PROVE h[m].free
        <4>1. m \in 1 .. Len(h) /\ m = n + 1  BY <1>0, <1>3
        <4> QED  BY <1>1, <4>1
      <3>2. Len(h) \in I .. Len(h)  BY <1>0, <1>3
      <3> QED  BY <3>1, <3>2 DEF S
    <2>3. Len(h) >= Len(h)  BY <1>0
    <2>4. \E x \in S : \A k \in S : x >= k  BY <1>0, <2>1, <2>2
    <2>5. Max(S) \in S /\ \A k \in S : Max(S) >= k  BY <2>4 DEF Max
    <2>6. L \in S /\ L >= Len(h)  BY <2>2, <2>5 DEF L
    <2> QED  BY <1>0, <2>1, <2>6
  <1> DEFINE total == IF Len(h) = n THEN h[n].size
                      ELSE h[n].size + HEADER_SIZE + h[n + 1].size
  <1>5. grow[L] = total
    <2> DEFINE Step(f) == [k \in I .. L |-> IF k = I THEN h[I].size
                                            ELSE f[k - 1] + HEADER_SIZE + h[k].size]
               w == [k \in I .. L |-> IF k = I THEN h[I].size
                                      ELSE h[I].size + HEADER_SIZE + h[k].size]
    <2>1. w = Step(w)
      <3>1. ASSUME NEW k \in I .. L PROVE w[k] = Step(w)[k]
        <4>1. CASE k = I  BY <4>1
        <4>2. CASE k # I
          <5>1. k - 1 = I /\ I \in I .. L  BY <1>0, <1>3, <1>4, <4>2
          <5> QED  BY <4>2, <5>1
        <4> QED  BY <4>1, <4>2
      <3> QED  BY <3>1
    <2>2. grow = CHOOSE f : f = Step(f)  BY DEF grow
    <2>3. grow = Step(grow)
      <3> HIDE DEF w, Step
      <3> QED  BY <2>1, <2>2
    <2>4. I \in I .. L /\ L \in I .. L /\ grow[I] = h[I].size
      BY <1>0, <1>3, <1>4, <2>3
    <2>5. CASE Len(h) = n  BY <1>3, <1>4, <2>4, <2>5
    <2>6. CASE Len(h) = n + 1
      <3>1. L # I /\ L - 1 = I /\ ~(Len(h) = n)  BY <1>3, <1>4, <2>6
      <3>2. grow[L] = grow[L - 1] + HEADER_SIZE + h[L].size
        BY <2>3, <2>4, <3>1
      <3> QED  BY <1>3, <1>4, <2>4, <2>6, <3>1, <3>2
    <2> QED  BY <1>0, <2>5, <2>6
  <1> HIDE DEF grow
  <1>6. /\ new \in Blocks /\ new.at = h[n].at /\ new.size = total /\ new.free
        /\ total \in Nat
    <2>1. h[n].at \in Nat /\ h[n].size \in Nat  BY <1>0, <1>1
    <2>2. Len(h) = n + 1 => n + 1 \in 1 .. Len(h)  BY <1>0
    <2>3. Len(h) = n + 1 => h[n + 1].size \in Nat  BY <1>1, <2>2
    <2>4. total \in Nat  BY <1>0, <1>z, <2>1, <2>3
    <2> HIDE DEF total
    <2> QED  BY <1>3, <1>5, <2>1, <2>4 DEF Block, Blocks, new
  <1>7. EndOf(h) = new.at + HEADER_SIZE + new.size
    <2>1. CASE Len(h) = n  BY <1>6, <2>1 DEF EndOf
    <2>2. CASE Len(h) = n + 1
      <3>1. h[n + 1].at = h[n].at + HEADER_SIZE + h[n].size
        <4>1. n \in 1 .. Len(h) - 1  BY <1>0, <2>2
        <4> QED  BY <4>1 DEF Packed
      <3>2. EndOf(h) = h[n + 1].at + HEADER_SIZE + h[n + 1].size  BY <2>2 DEF EndOf
      <3>3. n + 1 \in 1 .. Len(h)  BY <1>0, <2>2
      <3>4. h[n].at \in Nat /\ h[n].size \in Nat /\ h[n + 1].size \in Nat
        BY <1>0, <1>1, <3>3
      <3>5. total = h[n].size + HEADER_SIZE + h[n + 1].size  BY <1>0, <2>2
      <3> HIDE DEF total
      <3> QED  BY <1>6, <1>z, <3>1, <3>2, <3>4, <3>5
    <2> QED  BY <1>0, <2>1, <2>2
  <1> HIDE DEF total
  <1>8. /\ g \in Seq(Blocks) /\ Len(g) = n /\ g[n] = new
        /\ \A k \in 1 .. n - 1 : g[k] = h[k]
    <2>1. PICK a \in 1 .. Len(h) : a = n  BY <1>0
    <2>2. g = Replace(h, a, Len(h), <<new>>)  BY <1>3, <1>4, <2>1 DEF g
    <2>3. <<new>> \in Seq(Blocks) /\ Len(<<new>>) = 1 /\ <<new>>[1] = new
      BY <1>6
    <2> DEFINE one == <<new>>
    <2> HIDE DEF one
    <2>4. /\ g \in Seq(Blocks) /\ Len(g) = a - 1 + Len(one)
          /\ \A k \in 1 .. a - 1 + Len(one) : g[k] = IF k < a THEN h[k] ELSE one[k - a + 1]
      <3>1. one \in Seq(Blocks) /\ g = Replace(h, a, Len(h), one)
        BY <2>2, <2>3 DEF one
      <3>2. /\ Replace(h, a, Len(h), one) \in Seq(Blocks)
            /\ Len(Replace(h, a, Len(h), one)) = a - 1 + Len(one)
            /\ \A k \in 1 .. a - 1 + Len(one) :
                 Replace(h, a, Len(h), one)[k] = IF k < a THEN h[k] ELSE one[k - a + 1]
        <4>1. h \in Seq(Blocks) /\ one \in Seq(Blocks) /\ a \in 1 .. Len(h)
          BY <1>s, <3>1
        <4> QED  BY ONLY <4>1, TailReplaced
      <3> QED  BY <3>1, <3>2
    <2>5. Len(one) = 1 /\ one[1] = new  BY <2>3 DEF one
    <2>6. Len(g) = n  BY <2>1, <2>4, <2>5
    <2>7. g[n] = new
      <3>1. a \in 1 .. a - 1 + Len(one) /\ ~(a < a) /\ a - a + 1 = 1  BY <2>5
      <3> QED  BY <2>1, <2>4, <2>5, <3>1
    <2>8. ASSUME NEW k \in 1 .. n - 1 PROVE g[k] = h[k]
      <3>1. k \in 1 .. a - 1 + Len(one) /\ k < a  BY <2>1, <2>5
      <3> QED  BY <2>4, <3>1
    <2> QED  BY <2>4, <2>6, <2>7, <2>8
  <1>9. EndOf(g) = EndOf(h) /\ h # <<>> /\ g # <<>> /\ g[1].at = h[1].at
    <2>1. EndOf(g) = EndOf(h)  BY <1>7, <1>8 DEF EndOf
    <2>2. h # <<>> /\ g # <<>>
      <3>1. Len(h) # 0 /\ Len(g) # 0  BY <1>0, <1>8
      <3> QED  BY <3>1
    <2>3. g[1].at = h[1].at
      <3>1. CASE n = 1  BY <1>6, <1>8, <3>1
      <3>2. CASE n # 1
        <4>1. 1 \in 1 .. n - 1  BY <3>2
        <4> QED  BY <1>8, <4>1
      <3> QED  BY <3>1, <3>2
    <2> QED  BY <2>1, <2>2, <2>3
  <1>10. Packed(g, n - 1)
    <2>0. \A k \in 1 .. n - 1 : k \in 1 .. Len(h) /\ k # n + 1 /\ k < n /\ k # n
      BY <1>0
    <2>1. ASSUME NEW k \in 1 .. Len(g) PROVE g[k].free <=> k = n
      <3>1. CASE k \in 1 .. n - 1  BY <1>1, <1>8, <2>0, <3>1
      <3>2. CASE k = n  BY <1>6, <1>8, <3>2
      <3> QED  BY <1>8, <3>1, <3>2
    <2>2. ASSUME NEW j \in 1 .. Len(g), NEW k \in 1 .. Len(g), j < k
          PROVE  g[j].at + HEADER_SIZE + g[j].size <= g[k].at
      <3>1. j \in 1 .. n - 1 /\ g[j] = h[j] /\ g[k].at = h[k].at /\ k \in 1 .. Len(h)
        <4>1. j \in 1 .. n - 1  BY <1>8, <2>2
        <4>2. CASE k \in 1 .. n - 1  BY <1>8, <2>0, <4>1, <4>2
        <4>3. CASE k = n  BY <1>0, <1>6, <1>8, <4>1, <4>3
        <4> QED  BY <1>8, <4>2, <4>3
      <3>2. j \in 1 .. Len(h)  BY <2>0, <3>1
      <3> QED  BY <2>2, <3>1, <3>2 DEF Packed
    <2>3. ASSUME NEW k \in 1 .. Len(g) - 1
          PROVE  g[k + 1].at = g[k].at + HEADER_SIZE + g[k].size
      <3>1. k \in 1 .. n - 1 /\ g[k] = h[k] /\ k \in 1 .. Len(h) - 1
        BY <1>0, <1>8
      <3>2. g[k + 1].at = h[k + 1].at
        <4>1. CASE k + 1 \in 1 .. n - 1  BY <1>8, <4>1
        <4>2. CASE k + 1 = n  BY <1>6, <1>8, <4>2
        <4> QED  BY <3>1, <4>1, <4>2
      <3> QED  BY <3>1, <3>2 DEF Packed
    <2> QED  BY <1>8, <2>1, <2>2, <2>3 DEF Packed
  <1> QED  BY <1>2, <1>8, <1>9, <1>10

-----------------------------------------------------------------------------
(***************************************************************************)
(* alloc_pages                                                             *)
(***************************************************************************)
Own == Available \ (KernelPages \cup {0})

(* What alloc_pages has taken is a run of pages that are the heap's to use; the
   page that does not follow, which it gives back, is not among them. *)
PlaceInv ==
    /\ first \in Pages /\ stray \in Pages /\ i \in Nat
    /\ pc # "map" => KernelPages \cup {0} \subseteq bitmap
    /\ pc # "map" => first .. first + i - 1 \subseteq Own \cap bitmap
    /\ pc = "stray" => stray \in Own \ (first .. first + i - 1)

LEMMA PlaceInvHolds == Spec => []PlaceInv
  <1>1. Init => PlaceInv
    BY Sizes DEF Init, PlaceInv
  <1>2. CountInv /\ PlaceInv /\ [Next]_vars => PlaceInv'
    <2> SUFFICES ASSUME CountInv, PlaceInv, [Next]_vars PROVE PlaceInv'  OBVIOUS
    <2>0. /\ bitmap \in SUBSET Pages /\ Pages \ bitmap \subseteq Available
          /\ Available \subseteq Pages /\ Pages \subseteq Nat
          /\ first \in Pages /\ stray \in Pages /\ i \in Nat
      BY CountTypes, Sizes DEF CountInv, PlaceInv
    <2>1. CASE MapRegion
      <3>1. pc = "map" /\ pc' = "map" /\ i' = i + 1 /\ UNCHANGED <<first, stray>>
        BY <2>1 DEF MapRegion
      <3> QED  BY <2>0, <3>1, Sizes DEF PlaceInv
    <2>2. CASE GuardPages
      <3>1. /\ pc = "map" /\ pc' = "pages" /\ i' = 0 /\ UNCHANGED <<mmap, first, stray>>
            /\ bitmap' = bitmap \cup ({0} \cup KernelPages)
        BY <2>2 DEF GuardPages, Reserve
      <3>2. first .. first + i' - 1 = {} /\ i' \in Nat  BY <2>0, <3>1
      <3>3. KernelPages \cup {0} \subseteq bitmap'  BY <3>1
      <3>4. first' .. first' + i' - 1 \subseteq (Own \cap bitmap)'  BY <3>1, <3>2
      <3> QED  BY <2>0, <3>1, <3>2, <3>3, <3>4, Sizes DEF PlaceInv
    <2>3. CASE TakePage \/ TakeStrayPage
      <3> DEFINE p == FirstFree(bitmap)
      <3>1. p \in Pages \ bitmap /\ bitmap # Pages
        <4>1. p # 0  BY <2>3 DEF TakePage, TakeStrayPage
        <4> QED  BY <2>0, <4>1, FirstFreeIs
      <3>2. /\ bitmap' = bitmap \cup {p} /\ UNCHANGED mmap /\ pc = "pages"
            /\ pc' \in {"pages", "stray"}
        BY <2>3, <3>1 DEF TakePage, TakeStrayPage, AllocPage
      <3>3. p \in Own /\ Own' = Own
        <4>1. KernelPages \cup {0} \subseteq bitmap  BY <3>2 DEF PlaceInv
        <4> QED  BY <2>0, <3>1, <3>2, <4>1 DEF Own, Available
      <3>4. first .. first + i - 1 \subseteq Own \cap bitmap
            /\ KernelPages \cup {0} \subseteq bitmap'
        BY <3>2 DEF PlaceInv
      <3>5. CASE TakePage
        <4>1. /\ i' = i + 1 /\ UNCHANGED <<pc, stray>>
              /\ (i = 0 /\ first' = p) \/ (i # 0 /\ p = first + i /\ first' = first)
          BY <3>5 DEF TakePage
        <4> HIDE DEF p
        <4>2. \A k \in first' .. first' + i' - 1 : k = p \/ k \in first .. first + i - 1
          BY <2>0, <3>1, <4>1
        <4>3. first' .. first' + i' - 1 \subseteq (Own \cap bitmap)'
          BY <3>2, <3>3, <3>4, <4>2
        <4>4. first' \in Pages /\ stray' \in Pages /\ i' \in Nat  BY <2>0, <3>1, <4>1
        <4> QED  BY <3>2, <3>4, <4>1, <4>3, <4>4 DEF PlaceInv
      <3>6. CASE TakeStrayPage
        <4>1. UNCHANGED <<i, first>> /\ stray' = p
          BY <3>6 DEF TakeStrayPage
        <4> HIDE DEF p
        <4>2. p \notin first .. first + i - 1  BY <3>1, <3>4
        <4>3. first' .. first' + i' - 1 \subseteq (Own \cap bitmap)'
          BY <3>2, <3>3, <3>4, <4>1
        <4>4. first' \in Pages /\ stray' \in Pages /\ i' \in Nat  BY <2>0, <3>1, <4>1
        <4>5. stray' \in Own' \ (first' .. first' + i' - 1)  BY <3>3, <4>1, <4>2
        <4> QED  BY <3>2, <3>4, <4>3, <4>4, <4>5 DEF PlaceInv
      <3> QED  BY <2>3, <3>5, <3>6
    <2>4. CASE GiveBackPage
      <3>1. /\ pc = "stray" /\ pc' = "heap" /\ UNCHANGED <<mmap, i, first, stray>>
            /\ bitmap' = bitmap \ {stray}
        BY <2>4 DEF GiveBackPage, FreePage
      <3>2. /\ KernelPages \cup {0} \subseteq bitmap /\ stray \notin KernelPages \cup {0}
            /\ first .. first + i - 1 \subseteq Own \cap bitmap
            /\ stray \notin first .. first + i - 1
        BY <3>1 DEF PlaceInv, Own
      <3>3. Own' = Own  BY <3>1 DEF Own, Available
      <3>4. first' .. first' + i' - 1 \subseteq (Own \cap bitmap)'
        BY <3>1, <3>2, <3>3
      <3> QED  BY <2>0, <3>1, <3>2, <3>4 DEF PlaceInv
    <2>5. CASE UNCHANGED <<pmmVars, i, first, stray>> /\ (pc' # pc => pc # "map" /\ pc' # "stray")
      <3>1. Own' = Own /\ bitmap' = bitmap  BY <2>5 DEF Own, Available, pmmVars
      <3> QED  BY <2>5, <3>1 DEF PlaceInv
    <2>6. CASE PagesDone \/ HeapInit \/ Mount \/ (\E n \in AppendSizes : AppendBegin(n))
                 \/ AppendEnd \/ ExecBegin \/ ExecRefuse \/ ExecEnd
                 \/ (\E n \in LoadSizes : ExecLoad(n)) \/ UNCHANGED vars
      <3>1. UNCHANGED <<pmmVars, i, first, stray>> /\ (pc' # pc => pc # "map" /\ pc' # "stray")
        BY <2>6 DEF PagesDone, HeapInit, Mount, AppendBegin, AppendEnd, ExecBegin,
                    ExecRefuse, ExecEnd, ExecLoad, vars
      <3> QED  BY <2>5, <3>1
    <2> QED  BY <2>1, <2>2, <2>3, <2>4, <2>6 DEF Next, Boot
  <1> QED  BY <1>1, <1>2, CountInvHolds, PTL DEF Spec

-----------------------------------------------------------------------------
(***************************************************************************)
(* The heap and its users                                                  *)
(***************************************************************************)
Booting == {"map", "pages", "stray", "heap"}

One(ptr) == IF ptr = NULL THEN 0 ELSE 1

InUse == One(clus_buf) + One(tmp) + One(fbuf) + One(load_base)

IsBlock(h, k, ptr, bytes) == h[k].at + HEADER_SIZE = ptr /\ h[k].size >= bytes

(* Where the kernel is says which buffers it has. *)
PhaseInv ==
    /\ pc \in Booting \cup {"mount", "idle", "append", "read", "run"}
    /\ asked \in [{"clus_buf", "tmp", "fbuf", "load_base"} -> Nat]
    /\ pc \in Booting => heap = <<>>
    /\ pc \in Booting \cup {"mount"} => clus_buf = NULL
    /\ (tmp # NULL) <=> (pc = "append")
    /\ (fbuf # NULL) <=> (pc \in {"read", "run"})
    /\ (load_base # NULL) <=> (pc = "run")
    /\ pc \in {"append", "run"} => clus_buf # NULL

(* The buffers are the first blocks of the heap, in the order in which they were
   allocated, and the heap is the run of pages that alloc_pages gave. *)
BlockInv ==
    /\ Packed(heap, InUse)
    /\ clus_buf # NULL => IsBlock(heap, 1, clus_buf, asked.clus_buf)
    /\ tmp # NULL => IsBlock(heap, 2, tmp, asked.tmp)
    /\ fbuf # NULL => IsBlock(heap, One(clus_buf) + 1, fbuf, asked.fbuf)
    /\ load_base # NULL => IsBlock(heap, 3, load_base, asked.load_base)
    /\ heap # <<>> => /\ heap[1].at = first * PAGE_SIZE
                      /\ EndOf(heap) = (first + i) * PAGE_SIZE

HeapInv == PhaseInv /\ BlockInv

(* A list that begins and ends where another does. *)
SameSpan(g, h) == h # <<>> /\ g # <<>> /\ g[1].at = h[1].at /\ EndOf(g) = EndOf(h)

(* What a successful kmalloc does to n buffers, and what kfree of the last of
   them does. *)
Grown(g, h, n, ptr, bytes) ==
    /\ Packed(g, n + 1) /\ SameSpan(g, h)
    /\ ptr # NULL /\ IsBlock(g, n + 1, ptr, bytes)
    /\ \A k \in 1 .. n : g[k] = h[k]

Shrunk(g, h, n) ==
    /\ Packed(g, n - 1) /\ SameSpan(g, h)
    /\ \A k \in 1 .. n - 1 : g[k] = h[k]

LEMMA Mallocs ==
    ASSUME NEW n \in Nat, NEW h, Packed(h, n), NEW bytes \in Nat, NEW m,
           m = Kmalloc(h, bytes)
    PROVE  \/ m.ptr = NULL /\ m.heap = h
           \/ Grown(m.heap, h, n, m.ptr, bytes)
  <1>1. CASE m.ptr = NULL /\ m.heap = h  BY <1>1
  <1>2. CASE ~(m.ptr = NULL /\ m.heap = h)
    <2>1. PICK g \in Seq(Blocks) :
            /\ m.heap = g /\ Packed(g, n + 1)
            /\ m.ptr = g[n + 1].at + HEADER_SIZE
            /\ g[n + 1].size >= bytes
            /\ h # <<>> /\ g # <<>> /\ g[1].at = h[1].at /\ EndOf(g) = EndOf(h)
            /\ \A k \in 1 .. n : g[k] = h[k]
      BY <1>2, Allocates
    <2>2. g[n + 1].at \in Nat
      <3>1. Len(g) \in {n + 1, (n + 1) + 1}  BY <2>1 DEF Packed
      <3>2. PICK a \in 1 .. Len(g) : a = n + 1  BY <3>1
      <3>3. g[a] \in Blocks  BY <2>1, ElementOfSeq
      <3> QED  BY <3>2, <3>3 DEF Blocks
    <2>3. m.ptr # NULL  BY <2>1, <2>2 DEF NULL, HEADER_SIZE
    <2> QED  BY <2>1, <2>3 DEF Grown, SameSpan, IsBlock
  <1> QED  BY <1>1, <1>2

LEMMA Frees ==
    ASSUME NEW n \in Nat \ {0}, NEW h, Packed(h, n), NEW ptr,
           h[n].at + HEADER_SIZE = ptr
    PROVE  Shrunk(Kfree(h, ptr), h, n)
  BY Releases DEF Shrunk, SameSpan

LEMMA HeapTypes ==
    ASSUME HeapInv
    PROVE  /\ InUse \in Nat /\ One(clus_buf) \in {0, 1}
           /\ clus_buf # NULL => One(clus_buf) = 1
           /\ clus_buf = NULL => One(clus_buf) = 0
           /\ pc \in Booting \cup {"mount"} => InUse = 0
           /\ pc = "idle" => InUse = One(clus_buf)
           /\ pc = "append" => InUse = 2
           /\ pc = "read" => InUse = One(clus_buf) + 1
           /\ pc = "run" => InUse = 3
           /\ Packed(heap, InUse)
  <1>1. PhaseInv /\ Packed(heap, InUse)  BY DEF HeapInv, BlockInv
  <1> QED  BY <1>1 DEF PhaseInv, InUse, One, Booting

(* The heap begins with one free block on the pages it was given. *)
LEMMA HeapBegins ==
    ASSUME first \in Pages, i \in Nat
    PROVE  /\ Packed(NewHeap(first, i), 0)
           /\ NewHeap(first, i) # <<>> =>
                /\ NewHeap(first, i)[1].at = first * PAGE_SIZE
                /\ EndOf(NewHeap(first, i)) = (first + i) * PAGE_SIZE
  <1>1. CASE i = 0
    <2>1. NewHeap(first, i) = <<>>  BY <1>1 DEF NewHeap
    <2> QED  BY <2>1 DEF Packed
  <1>2. CASE i # 0
    <2> DEFINE b == Block(first * PAGE_SIZE, i * PAGE_SIZE - HEADER_SIZE, TRUE)
    <2>1. NewHeap(first, i) = <<b>>  BY <1>2 DEF NewHeap
    <2>2. /\ first * PAGE_SIZE \in Nat /\ i * PAGE_SIZE \in Nat /\ PAGE_SIZE <= i * PAGE_SIZE
          /\ (first + i) * PAGE_SIZE = first * PAGE_SIZE + i * PAGE_SIZE
      <3>1. first \in Nat /\ i \in Nat /\ PAGE_SIZE \in Nat \ {0} /\ 1 \in Nat /\ 1 <= i
        BY <1>2, Sizes
      <3>2. first * PAGE_SIZE \in Nat /\ i * PAGE_SIZE \in Nat
            /\ (first + i) * PAGE_SIZE = first * PAGE_SIZE + i * PAGE_SIZE
        BY ONLY <3>1, Scale
      <3>3. 1 * PAGE_SIZE <= i * PAGE_SIZE  BY ONLY <3>1, Scale
      <3>4. 1 * PAGE_SIZE = PAGE_SIZE  BY <3>1
      <3> QED  BY <3>2, <3>3, <3>4
    <2> DEFINE x == first * PAGE_SIZE
               y == i * PAGE_SIZE
    <2>3. x \in Nat /\ y \in Nat /\ PAGE_SIZE <= y /\ (first + i) * PAGE_SIZE = x + y
          /\ b = Block(x, y - HEADER_SIZE, TRUE)
      BY <2>2
    <2> HIDE DEF x, y
    <2>4. y - HEADER_SIZE \in Nat /\ HEADER_SIZE \in Nat /\ y \in Nat
      BY <2>3, Sizes
    <2>5. b \in Blocks /\ b.at = x /\ b.size = y - HEADER_SIZE /\ b.free
      BY <2>3, <2>4 DEF Block, Blocks
    <2> HIDE DEF b
    <2>6. <<b>> \in Seq(Blocks) /\ Len(<<b>>) = 1 /\ <<b>>[1] = b  BY <2>5
    <2>7. Packed(<<b>>, 0)  BY <2>5, <2>6 DEF Packed
    <2>8. EndOf(<<b>>) = x + y
      <3>1. EndOf(<<b>>) = b.at + HEADER_SIZE + b.size  BY <2>6 DEF EndOf
      <3>2. EndOf(<<b>>) = x + HEADER_SIZE + (y - HEADER_SIZE)  BY <2>5, <3>1
      <3> QED  BY <2>3, <2>4, <3>2
    <2> QED  BY <2>1, <2>3, <2>5, <2>6, <2>7, <2>8 DEF x
  <1> QED  BY <1>1, <1>2

LEMMA HeapInvHolds == Spec => []HeapInv
  <1>1. Init => HeapInv
    <2> SUFFICES ASSUME Init PROVE HeapInv  OBVIOUS
    <2>1. PhaseInv  BY DEF Init, PhaseInv, Booting, NULL
    <2>2. heap = <<>> /\ InUse = 0 /\ clus_buf = NULL /\ tmp = NULL /\ fbuf = NULL
          /\ load_base = NULL
      BY DEF Init, InUse, One
    <2>3. Packed(<<>>, 0)  BY DEF Packed
    <2> QED  BY <2>1, <2>2, <2>3 DEF HeapInv, BlockInv
  <1>2. PlaceInv /\ HeapInv /\ [Next]_vars => HeapInv'
    <2> SUFFICES ASSUME PlaceInv, HeapInv, [Next]_vars PROVE HeapInv'  OBVIOUS
    <2>0. /\ PhaseInv /\ BlockInv
          /\ first \in Pages /\ i \in Nat
          /\ ClusBytes \in Nat /\ ElfMax \in Nat
          /\ AppendSizes \subseteq Nat /\ LoadSizes \subseteq Nat
      BY Sizes DEF HeapInv, PlaceInv
    <2>p. Packed(heap, InUse)  BY DEF HeapInv, BlockInv
    <2>s. /\ Booting = {"map", "pages", "stray", "heap"}
          /\ One(NULL) = 0
      BY DEF Booting, One
    <2>a. CASE UNCHANGED <<heap, bufVars>> /\ (heap # <<>> => UNCHANGED <<first, i>>)
                 /\ (pc' # pc => pc \in Booting /\ pc' \in Booting)
      <3>1. PhaseInv'  BY <2>0, <2>a, <2>s DEF PhaseInv, bufVars, Booting
      <3>2. BlockInv'  BY <2>0, <2>a DEF BlockInv, bufVars, InUse
      <3> QED  BY <3>1, <3>2 DEF HeapInv
    <2>1. CASE MapRegion \/ GuardPages \/ TakePage \/ TakeStrayPage \/ GiveBackPage
                 \/ PagesDone \/ UNCHANGED vars
      <3>1. pc \in Booting => heap = <<>>  BY <2>0 DEF PhaseInv
      <3>2. CASE UNCHANGED vars  BY <2>a, <3>2 DEF vars
      <3>3. CASE ~UNCHANGED vars
        <4>1. UNCHANGED <<heap, bufVars>> /\ pc \in Booting /\ pc' \in Booting
          BY <2>1, <3>3 DEF MapRegion, GuardPages, TakePage, TakeStrayPage, GiveBackPage,
                            PagesDone, Booting
        <4> QED  BY <2>a, <3>1, <4>1
      <3> QED  BY <3>2, <3>3
    <2>2. CASE HeapInit
      <3>1. /\ pc = "heap" /\ pc' = "mount" /\ heap' = NewHeap(first, i)
            /\ UNCHANGED <<first, i, clus_buf, tmp, fbuf, load_base, asked>>
        BY <2>2 DEF HeapInit, bufVars
      <3>2. PhaseInv'  BY <2>0, <2>s, <3>1 DEF PhaseInv
      <3>3. /\ clus_buf = NULL /\ tmp = NULL /\ fbuf = NULL /\ load_base = NULL
        BY <2>0, <2>s, <3>1 DEF PhaseInv
      <3>4. InUse' = 0  BY <3>1, <3>3 DEF InUse, One
      <3>5. BlockInv'  BY <2>0, <3>1, <3>3, <3>4, HeapBegins DEF BlockInv
      <3> QED  BY <3>2, <3>5 DEF HeapInv
    <2>3. CASE Mount
      <3> DEFINE m == Kmalloc(heap, ClusBytes)
      <3>1. /\ pc = "mount" /\ pc' = "idle" /\ heap' = m.heap /\ clus_buf' = m.ptr
            /\ asked' = [asked EXCEPT !.clus_buf = ClusBytes]
            /\ UNCHANGED <<first, i, tmp, fbuf, load_base>>
        BY <2>3 DEF Mount
      <3>2. /\ clus_buf = NULL /\ tmp = NULL /\ fbuf = NULL /\ load_base = NULL /\ InUse = 0
        BY <2>0, <2>s, <3>1, HeapTypes DEF PhaseInv
      <3>3. asked' \in [{"clus_buf", "tmp", "fbuf", "load_base"} -> Nat]
            /\ asked'.clus_buf = ClusBytes
        BY <2>0, <3>1 DEF PhaseInv
      <3>4. PhaseInv'  BY <2>0, <2>s, <3>1, <3>2, <3>3 DEF PhaseInv
      <3>5. (m.ptr = NULL /\ m.heap = heap) \/ Grown(m.heap, heap, 0, m.ptr, ClusBytes)
        BY <2>0, <2>p, <3>2, Mallocs
      <3> HIDE DEF m
      <3>6. BlockInv'
        <4>1. CASE m.ptr = NULL /\ m.heap = heap
          BY <2>0, <3>1, <3>2, <4>1 DEF BlockInv, InUse
        <4>2. CASE Grown(m.heap, heap, 0, m.ptr, ClusBytes)
          <5>1. Packed(heap', 1) /\ SameSpan(heap', heap) /\ clus_buf' # NULL
                /\ IsBlock(heap', 1, clus_buf', ClusBytes)
            BY <3>1, <4>2 DEF Grown
          <5>2. InUse' = 1  BY <3>1, <3>2, <5>1 DEF InUse, One
          <5> QED  BY <2>0, <3>1, <3>2, <3>3, <5>1, <5>2 DEF BlockInv, SameSpan
        <4> QED  BY <3>5, <4>1, <4>2
      <3> QED  BY <3>4, <3>6 DEF HeapInv
    <2>4. ASSUME NEW b \in AppendSizes, AppendBegin(b) PROVE HeapInv'
      <3> DEFINE m == Kmalloc(heap, b)
      <3>1. /\ pc = "idle" /\ heap' = m.heap /\ tmp' = m.ptr
            /\ pc' = (IF m.ptr = NULL THEN "idle" ELSE "append")
            /\ asked' = [asked EXCEPT !.tmp = IF m.ptr = NULL THEN 0 ELSE b]
            /\ UNCHANGED <<first, i, clus_buf, fbuf, load_base>>
        BY <2>4 DEF AppendBegin
      <3>2. /\ tmp = NULL /\ fbuf = NULL /\ load_base = NULL /\ InUse = One(clus_buf)
            /\ One(clus_buf) \in {0, 1} /\ clus_buf # NULL
        BY <2>0, <2>4, <3>1, HeapTypes DEF PhaseInv, AppendBegin
      <3>3. /\ asked' \in [{"clus_buf", "tmp", "fbuf", "load_base"} -> Nat]
            /\ asked'.clus_buf = asked.clus_buf
            /\ m.ptr # NULL => asked'.tmp = b
        BY <2>0, <3>1 DEF PhaseInv
      <3>4. PhaseInv'  BY <2>0, <2>s, <3>1, <3>2, <3>3 DEF PhaseInv
      <3>5. (m.ptr = NULL /\ m.heap = heap) \/ Grown(m.heap, heap, One(clus_buf), m.ptr, b)
        BY <2>0, <2>p, <3>2, Mallocs
      <3> HIDE DEF m
      <3>6. BlockInv'
        <4>1. CASE m.ptr = NULL /\ m.heap = heap
          BY <2>0, <3>1, <3>2, <3>3, <4>1 DEF BlockInv, InUse
        <4>2. CASE Grown(m.heap, heap, One(clus_buf), m.ptr, b)
          <5>1. /\ Packed(heap', One(clus_buf) + 1) /\ SameSpan(heap', heap) /\ tmp' # NULL
                /\ IsBlock(heap', One(clus_buf) + 1, tmp', b)
                /\ \A k \in 1 .. One(clus_buf) : heap'[k] = heap[k]
            BY <3>1, <4>2 DEF Grown
          <5>2. InUse' = One(clus_buf) + 1  BY <3>1, <3>2, <5>1 DEF InUse, One
          <5>3. clus_buf # NULL => IsBlock(heap', 1, clus_buf, asked.clus_buf)
            BY <2>0, <5>1 DEF BlockInv, IsBlock, One
          <5>4. One(clus_buf)' = One(clus_buf)  BY <3>1 DEF One
          <5>5. asked'.tmp = b  BY <3>1, <3>3, <5>1
          <5> QED  BY <2>0, <3>1, <3>2, <3>3, <5>1, <5>2, <5>3, <5>4, <5>5 DEF BlockInv, SameSpan, One
        <4> QED  BY <3>5, <4>1, <4>2
      <3> QED  BY <3>4, <3>6 DEF HeapInv
    <2>5. CASE ExecBegin
      <3> DEFINE m == Kmalloc(heap, ElfMax)
      <3>1. /\ pc = "idle" /\ heap' = m.heap /\ fbuf' = m.ptr
            /\ pc' = (IF m.ptr = NULL THEN "idle" ELSE "read")
            /\ asked' = [asked EXCEPT !.fbuf = IF m.ptr = NULL THEN 0 ELSE ElfMax]
            /\ UNCHANGED <<first, i, clus_buf, tmp, load_base>>
        BY <2>5 DEF ExecBegin
      <3>2. /\ tmp = NULL /\ fbuf = NULL /\ load_base = NULL /\ InUse = One(clus_buf)
            /\ One(clus_buf) \in {0, 1} /\ pc \notin Booting
        BY <2>0, <2>s, <3>1, HeapTypes DEF PhaseInv
      <3>3. /\ asked' \in [{"clus_buf", "tmp", "fbuf", "load_base"} -> Nat]
            /\ asked'.clus_buf = asked.clus_buf
            /\ m.ptr # NULL => asked'.fbuf = ElfMax
        BY <2>0, <3>1 DEF PhaseInv
      <3>4. PhaseInv'  BY <2>0, <2>s, <3>1, <3>2, <3>3 DEF PhaseInv
      <3>5. (m.ptr = NULL /\ m.heap = heap) \/ Grown(m.heap, heap, One(clus_buf), m.ptr, ElfMax)
        BY <2>0, <2>p, <3>2, Mallocs
      <3> HIDE DEF m
      <3>6. BlockInv'
        <4>1. CASE m.ptr = NULL /\ m.heap = heap
          BY <2>0, <3>1, <3>2, <3>3, <4>1 DEF BlockInv, InUse
        <4>2. CASE Grown(m.heap, heap, One(clus_buf), m.ptr, ElfMax)
          <5>1. /\ Packed(heap', One(clus_buf) + 1) /\ SameSpan(heap', heap) /\ fbuf' # NULL
                /\ IsBlock(heap', One(clus_buf) + 1, fbuf', ElfMax)
                /\ \A k \in 1 .. One(clus_buf) : heap'[k] = heap[k]
            BY <3>1, <4>2 DEF Grown
          <5>2. InUse' = One(clus_buf) + 1  BY <3>1, <3>2, <5>1 DEF InUse, One
          <5>3. clus_buf # NULL => IsBlock(heap', 1, clus_buf, asked.clus_buf)
            BY <2>0, <5>1 DEF BlockInv, IsBlock, One
          <5>4. One(clus_buf)' = One(clus_buf)  BY <3>1 DEF One
          <5>5. asked'.fbuf = ElfMax  BY <3>1, <3>3, <5>1
          <5> QED  BY <2>0, <3>1, <3>2, <3>3, <5>1, <5>2, <5>3, <5>4, <5>5 DEF BlockInv, SameSpan
        <4> QED  BY <3>5, <4>1, <4>2
      <3> QED  BY <3>4, <3>6 DEF HeapInv
    <2>6. CASE AppendEnd
      <3>1. /\ pc = "append" /\ pc' = "idle" /\ heap' = Kfree(heap, tmp) /\ tmp' = NULL
            /\ asked' = [asked EXCEPT !.tmp = 0]
            /\ UNCHANGED <<first, i, clus_buf, fbuf, load_base>>
        BY <2>6 DEF AppendEnd
      <3>2. /\ clus_buf # NULL /\ fbuf = NULL /\ load_base = NULL /\ InUse = 2
            /\ tmp # NULL /\ One(clus_buf) \in {0, 1}
        BY <2>0, <3>1, HeapTypes DEF PhaseInv
      <3>3. asked' \in [{"clus_buf", "tmp", "fbuf", "load_base"} -> Nat] /\ asked'.clus_buf = asked.clus_buf
        BY <2>0, <3>1 DEF PhaseInv
      <3>4. PhaseInv'  BY <2>0, <2>s, <3>1, <3>2, <3>3 DEF PhaseInv
      <3>5. Shrunk(heap', heap, 2)
        <4>1. heap[2].at + HEADER_SIZE = tmp /\ 2 \in Nat \ {0}
          BY <2>0, <3>2 DEF BlockInv, IsBlock
        <4> QED  BY <2>p, <3>1, <3>2, <4>1, Frees
      <3>6. /\ Packed(heap', One(clus_buf)) /\ SameSpan(heap', heap)
            /\ \A k \in 1 .. One(clus_buf) : heap'[k] = heap[k]
        <4>1. 2 - 1 = One(clus_buf)  BY <3>2 DEF One
        <4> QED  BY <3>5, <4>1 DEF Shrunk
      <3>7. InUse' = One(clus_buf)  BY <3>1, <3>2 DEF InUse, One
      <3>8. clus_buf # NULL => IsBlock(heap', 1, clus_buf, asked.clus_buf)
        BY <2>0, <3>6 DEF BlockInv, IsBlock, One
      <3>9. BlockInv'
        BY <2>0, <3>1, <3>2, <3>3, <3>6, <3>7, <3>8 DEF BlockInv, SameSpan
      <3> QED  BY <3>4, <3>9 DEF HeapInv
    <2>7. CASE ExecRefuse
      <3>1. /\ pc = "read" /\ pc' = "idle" /\ heap' = Kfree(heap, fbuf) /\ fbuf' = NULL
            /\ asked' = [asked EXCEPT !.fbuf = 0]
            /\ UNCHANGED <<first, i, clus_buf, tmp, load_base>>
        BY <2>7 DEF ExecRefuse
      <3>2. /\ tmp = NULL /\ load_base = NULL /\ InUse = One(clus_buf) + 1
            /\ fbuf # NULL /\ One(clus_buf) \in {0, 1}
        BY <2>0, <3>1, HeapTypes DEF PhaseInv
      <3>3. asked' \in [{"clus_buf", "tmp", "fbuf", "load_base"} -> Nat] /\ asked'.clus_buf = asked.clus_buf
        BY <2>0, <3>1 DEF PhaseInv
      <3>4. PhaseInv'  BY <2>0, <2>s, <3>1, <3>2, <3>3 DEF PhaseInv
      <3> PICK u \in Nat \ {0} : u = One(clus_buf) + 1
        BY <3>2
      <3>5. Shrunk(heap', heap, u)
        <4>1. heap[u].at + HEADER_SIZE = fbuf
          BY <2>0, <3>2 DEF BlockInv, IsBlock
        <4> QED  BY <2>p, <3>1, <3>2, <4>1, Frees
      <3>6. /\ Packed(heap', One(clus_buf)) /\ SameSpan(heap', heap)
            /\ \A k \in 1 .. One(clus_buf) : heap'[k] = heap[k]
        <4>1. u - 1 = One(clus_buf)  BY <3>2
        <4>2. /\ Packed(heap', u - 1) /\ SameSpan(heap', heap)
              /\ \A k \in 1 .. u - 1 : heap'[k] = heap[k]
          BY <3>5 DEF Shrunk
        <4> QED  BY ONLY <4>1, <4>2
      <3>7. InUse' = One(clus_buf)  BY <3>1, <3>2 DEF InUse, One
      <3>8. clus_buf # NULL => IsBlock(heap', 1, clus_buf, asked.clus_buf)
        BY <2>0, <3>6 DEF BlockInv, IsBlock, One
      <3>9. BlockInv'
        BY <2>0, <3>1, <3>2, <3>3, <3>6, <3>7, <3>8 DEF BlockInv, SameSpan
      <3> QED  BY <3>4, <3>9 DEF HeapInv
    <2>8. ASSUME NEW b \in LoadSizes, ExecLoad(b) PROVE HeapInv'
      <3> DEFINE m == Kmalloc(heap, b)
      <3>1. /\ pc = "read" /\ clus_buf # NULL /\ UNCHANGED <<first, i, clus_buf, tmp>>
            /\ \/ /\ m.ptr = NULL
                  /\ heap' = Kfree(heap, fbuf) /\ fbuf' = NULL /\ load_base' = load_base
                  /\ asked' = [asked EXCEPT !.fbuf = 0] /\ pc' = "idle"
               \/ /\ m.ptr # NULL
                  /\ heap' = m.heap /\ load_base' = m.ptr /\ fbuf' = fbuf
                  /\ asked' = [asked EXCEPT !.load_base = b] /\ pc' = "run"
        BY <2>8 DEF ExecLoad
      <3>2. /\ tmp = NULL /\ load_base = NULL /\ InUse = 2
            /\ fbuf # NULL /\ One(clus_buf) = 1
        BY <2>0, <3>1, HeapTypes DEF PhaseInv
      <3>3. IsBlock(heap, 1, clus_buf, asked.clus_buf) /\ IsBlock(heap, 2, fbuf, asked.fbuf)
        BY <2>0, <3>1, <3>2 DEF BlockInv
      <3>4. CASE m.ptr = NULL
        <4>1. /\ heap' = Kfree(heap, fbuf) /\ fbuf' = NULL /\ load_base' = load_base
              /\ asked' = [asked EXCEPT !.fbuf = 0] /\ pc' = "idle"
          BY <3>1, <3>4
        <4>2. /\ asked' \in [{"clus_buf", "tmp", "fbuf", "load_base"} -> Nat]
              /\ asked'.clus_buf = asked.clus_buf
          BY <2>0, <4>1 DEF PhaseInv
        <4>3. PhaseInv'  BY <2>0, <2>s, <3>1, <3>2, <4>1, <4>2 DEF PhaseInv
        <4>4. Shrunk(heap', heap, 2)
          <5>1. heap[2].at + HEADER_SIZE = fbuf  BY <3>3 DEF IsBlock
          <5> QED  BY <2>p, <3>2, <4>1, <5>1, Frees
        <4>5. Packed(heap', 1) /\ SameSpan(heap', heap) /\ heap'[1] = heap[1]
          BY <4>4 DEF Shrunk
        <4>6. InUse' = 1  BY <3>1, <3>2, <4>1 DEF InUse, One
        <4>7. IsBlock(heap', 1, clus_buf, asked.clus_buf)
          BY <3>3, <4>5 DEF IsBlock
        <4>8. BlockInv'
          BY <2>0, <3>1, <3>2, <4>1, <4>2, <4>5, <4>6, <4>7 DEF BlockInv, SameSpan
        <4> QED  BY <4>3, <4>8 DEF HeapInv
      <3>5. CASE m.ptr # NULL
        <4>1. /\ heap' = m.heap /\ load_base' = m.ptr /\ fbuf' = fbuf
              /\ asked' = [asked EXCEPT !.load_base = b] /\ pc' = "run"
          BY <3>1, <3>5
        <4>2. /\ asked' \in [{"clus_buf", "tmp", "fbuf", "load_base"} -> Nat]
              /\ asked'.clus_buf = asked.clus_buf /\ asked'.fbuf = asked.fbuf
              /\ asked'.load_base = b
          BY <2>0, <4>1 DEF PhaseInv
        <4>3. PhaseInv'  BY <2>0, <2>s, <3>1, <3>2, <3>5, <4>1, <4>2 DEF PhaseInv
        <4>4. Grown(heap', heap, 2, load_base', b)
          <5>1. Packed(heap, 2) /\ b \in Nat /\ 2 \in Nat  BY <2>0, <2>p, <3>2
          <5>2. \/ m.ptr = NULL /\ m.heap = heap
                \/ Grown(m.heap, heap, 2, m.ptr, b)
            BY ONLY <5>1, Mallocs
          <5> QED  BY <3>5, <4>1, <5>2
        <4>5. /\ Packed(heap', 3) /\ SameSpan(heap', heap)
              /\ load_base' # NULL /\ IsBlock(heap', 3, load_base', b)
              /\ heap'[1] = heap[1] /\ heap'[2] = heap[2]
          BY <4>4 DEF Grown
        <4>6. InUse' = 3  BY <3>1, <3>2, <4>1, <4>5 DEF InUse, One
        <4>7. /\ IsBlock(heap', 1, clus_buf, asked.clus_buf)
              /\ IsBlock(heap', 2, fbuf, asked.fbuf)
          BY <3>3, <4>5 DEF IsBlock
        <4>8. One(clus_buf)' = 1  BY <3>1, <3>2 DEF One
        <4>9. BlockInv'
          BY <2>0, <3>1, <3>2, <4>1, <4>2, <4>5, <4>6, <4>7, <4>8 DEF BlockInv, SameSpan
        <4> QED  BY <4>3, <4>9 DEF HeapInv
      <3> QED  BY <3>4, <3>5
    <2>9. CASE ExecEnd
      <3> DEFINE h == Kfree(heap, load_base)
      <3>1. /\ pc = "run" /\ pc' = "idle" /\ heap' = Kfree(h, fbuf)
            /\ load_base' = NULL /\ fbuf' = NULL
            /\ asked' = [asked EXCEPT !.load_base = 0, !.fbuf = 0]
            /\ UNCHANGED <<first, i, clus_buf, tmp>>
        BY <2>9 DEF ExecEnd, FreeBoth
      <3>2. /\ tmp = NULL /\ load_base # NULL /\ InUse = 3
            /\ fbuf # NULL /\ clus_buf # NULL /\ One(clus_buf) = 1
        BY <2>0, <3>1, HeapTypes DEF PhaseInv
      <3>3. /\ asked' \in [{"clus_buf", "tmp", "fbuf", "load_base"} -> Nat]
            /\ asked'.clus_buf = asked.clus_buf
        BY <2>0, <3>1 DEF PhaseInv
      <3>4. PhaseInv'  BY <2>0, <2>s, <3>1, <3>2, <3>3 DEF PhaseInv
      <3>5. /\ IsBlock(heap, 1, clus_buf, asked.clus_buf) /\ IsBlock(heap, 2, fbuf, asked.fbuf)
            /\ IsBlock(heap, 3, load_base, asked.load_base)
        BY <2>0, <3>2 DEF BlockInv
      <3>6. Packed(h, 2) /\ SameSpan(h, heap) /\ h[1] = heap[1] /\ h[2] = heap[2]
        <4>1. heap[3].at + HEADER_SIZE = load_base  BY <3>5 DEF IsBlock
        <4>2. Shrunk(h, heap, 3)  BY <2>p, <3>2, <4>1, Frees
        <4> QED  BY <4>2 DEF Shrunk
      <3> HIDE DEF h
      <3>7. Packed(heap', 1) /\ SameSpan(heap', h) /\ heap'[1] = h[1]
        <4>1. h[2].at + HEADER_SIZE = fbuf  BY <3>5, <3>6 DEF IsBlock
        <4>2. Shrunk(Kfree(h, fbuf), h, 2)
          <5>1. Packed(h, 2) /\ 2 \in Nat \ {0}  BY <3>6
          <5> QED  BY ONLY <4>1, <5>1, Frees
        <4>3. Shrunk(heap', h, 2)  BY <3>1, <4>2
        <4> QED  BY <4>3 DEF Shrunk
      <3>8. SameSpan(heap', heap) /\ heap'[1] = heap[1]
        BY <3>6, <3>7 DEF SameSpan
      <3>9. InUse' = 1  BY <3>1, <3>2 DEF InUse, One
      <3>10. IsBlock(heap', 1, clus_buf, asked.clus_buf)
        BY <3>5, <3>8 DEF IsBlock
      <3>11. BlockInv'
        BY <2>0, <3>1, <3>2, <3>3, <3>7, <3>8, <3>9, <3>10 DEF BlockInv, SameSpan
      <3> QED  BY <3>4, <3>11 DEF HeapInv
    <2> QED  BY <2>1, <2>2, <2>3, <2>4, <2>5, <2>6, <2>7, <2>8, <2>9 DEF Next, Boot
  <1> QED  BY <1>1, <1>2, PlaceInvHolds, PTL DEF Spec

(* The blocks of the heap, by number. *)
LEMMA BlockTypes ==
    ASSUME NEW h, NEW n \in Nat, Packed(h, n), h # <<>>
    PROVE  /\ Len(h) \in Nat /\ DOMAIN h = 1 .. Len(h) /\ 1 \in 1 .. Len(h)
           /\ n <= Len(h) /\ Len(h) <= n + 1
           /\ \A k \in 1 .. Len(h) : h[k] \in Blocks
  <1>1. h \in Seq(Blocks) /\ (Len(h) = n \/ Len(h) = n + 1)  BY DEF Packed
  <1>2. Len(h) # 0 /\ Len(h) \in Nat /\ DOMAIN h = 1 .. Len(h)
    BY <1>1, LenProperties, EmptySeq
  <1>3. 1 \in 1 .. Len(h) /\ n <= Len(h) /\ Len(h) <= n + 1
    <2> DEFINE l == Len(h)
    <2>1. l \in Nat /\ l # 0 /\ (l = n \/ l = n + 1)  BY <1>1, <1>2
    <2> HIDE DEF l
    <2>2. 1 \in 1 .. l /\ n <= l /\ l <= n + 1  BY <2>1
    <2> QED  BY <2>2 DEF l
  <1>4. \A k \in 1 .. Len(h) : h[k] \in Blocks  BY <1>1, ElementOfSeq
  <1> QED  BY <1>2, <1>3, <1>4

(* The blocks tile the heap, and the heap is whole pages, whatever is allocated
   and freed (kmalloc, kfree). *)
THEOREM HeapIsTiled == Spec => []Tiled
  <1>1. PlaceInv /\ HeapInv => Tiled
    <2> SUFFICES ASSUME PlaceInv, HeapInv, heap # <<>>
                 PROVE  /\ \A k \in 1 .. Len(heap) - 1 :
                              heap[k + 1].at = heap[k].at + HEADER_SIZE + heap[k].size
                        /\ heap[1].at % PAGE_SIZE = 0 /\ HeapEnd % PAGE_SIZE = 0
      BY DEF Tiled
    <2>1. \A k \in 1 .. Len(heap) - 1 :
             heap[k + 1].at = heap[k].at + HEADER_SIZE + heap[k].size
      BY DEF HeapInv, BlockInv, Packed
    <2>2. heap[1].at = first * PAGE_SIZE /\ HeapEnd = (first + i) * PAGE_SIZE
      BY DEF HeapInv, BlockInv, EndOf, HeapEnd
    <2>3. first \in Nat /\ first + i \in Nat /\ PAGE_SIZE \in Nat \ {0}
      BY Sizes DEF PlaceInv
    <2>4. (first * PAGE_SIZE) % PAGE_SIZE = 0 /\ ((first + i) * PAGE_SIZE) % PAGE_SIZE = 0
      BY ONLY <2>3, Scale
    <2> QED  BY <2>1, <2>2, <2>4
  <1> QED  BY <1>1, PlaceInvHolds, HeapInvHolds, PTL

(* The free memory is one block behind the buffers, also while they are held
   (kfree, fat32_append, elf_exec). *)
THEOREM FreeStaysWhole == Spec => []FreeIsWhole
  <1>1. HeapInv => FreeIsWhole
    <2> SUFFICES ASSUME HeapInv, NEW k \in 1 .. Len(heap) - 1 PROVE ~heap[k].free
      BY DEF FreeIsWhole
    <2>1. Packed(heap, InUse) /\ InUse \in Nat  BY HeapTypes
    <2>2. Len(heap) \in {InUse, InUse + 1}  BY <2>1 DEF Packed
    <2>3. k \in 1 .. Len(heap) /\ k # InUse + 1  BY <2>1, <2>2
    <2> QED  BY <2>1, <2>3 DEF Packed
  <1> QED  BY <1>1, HeapInvHolds, PTL

(* Every buffer in use has a block of its own and every block in use is a
   buffer's (fat32_mount, fat32_append, elf_exec). *)
THEOREM BuffersStayApart == Spec => []BuffersApart
  <1>1. HeapInv => BuffersApart
    <2> SUFFICES ASSUME HeapInv PROVE BuffersApart  OBVIOUS
    <2> DEFINE Place(b) == IF b = "clus_buf" THEN 1
                           ELSE IF b = "tmp" THEN 2
                           ELSE IF b = "fbuf" THEN One(clus_buf) + 1 ELSE 3
    <2>0. PhaseInv /\ BlockInv /\ Packed(heap, InUse) /\ InUse \in Nat
      BY HeapTypes DEF HeapInv
    <2>1. /\ DOMAIN Pointer = {"clus_buf", "tmp", "fbuf", "load_base"}
          /\ Pointer["clus_buf"] = clus_buf /\ Pointer["tmp"] = tmp
          /\ Pointer["fbuf"] = fbuf /\ Pointer["load_base"] = load_base
      BY DEF Pointer
    <2>2. ASSUME NEW b \in Held
          PROVE  Place(b) \in 1 .. InUse /\ IsBlock(heap, Place(b), Pointer[b], asked[b])
      BY <2>0, <2>1 DEF Held, BlockInv, PhaseInv, InUse, One
    <2>3. ASSUME NEW k \in 1 .. InUse PROVE \E b \in Held : Place(b) = k
      BY <2>0, <2>1 DEF Held, PhaseInv, InUse, One
    <2>4. \A b, c \in Held : Place(b) = Place(c) => b = c
      BY <2>0, <2>1 DEF Held, PhaseInv, One
    <2> HIDE DEF Place
    <2>5. ASSUME NEW k \in 1 .. Len(heap)
          PROVE  /\ k \in UsedBlocks <=> k \in 1 .. InUse
                 /\ heap[k].at \in Nat /\ heap[k].size \in Nat
      <3>1. heap # <<>>  BY EmptySeq
      <3>2. /\ DOMAIN heap = 1 .. Len(heap) /\ Len(heap) \in Nat
            /\ InUse <= Len(heap) /\ Len(heap) <= InUse + 1 /\ heap[k] \in Blocks
        BY <2>0, <3>1, BlockTypes
      <3>3. heap[k].free <=> k = InUse + 1  BY <2>0 DEF Packed
      <3>4. k \in 1 .. InUse <=> k # InUse + 1  BY <2>0, <3>2
      <3> QED  BY <3>2, <3>3, <3>4 DEF UsedBlocks, Blocks
    <2>6. /\ \A k \in 1 .. InUse : k \in 1 .. Len(heap)
          /\ \A k \in UsedBlocks : k \in 1 .. Len(heap)
      <3>1. CASE heap = <<>>
        <4>1. Len(heap) = 0 /\ DOMAIN heap = {}  BY <3>1
        <4>2. InUse = 0  BY <2>0, <4>1 DEF Packed
        <4> QED  BY <4>1, <4>2 DEF UsedBlocks
      <3>2. CASE heap # <<>>
        <4>1. /\ DOMAIN heap = 1 .. Len(heap) /\ Len(heap) \in Nat /\ InUse <= Len(heap)
          BY <2>0, <3>2, BlockTypes
        <4> QED  BY <2>0, <4>1 DEF UsedBlocks
      <3> QED  BY <3>1, <3>2
    <2>7. \A b \in Held : /\ Place(b) \in UsedBlocks
                          /\ heap[Place(b)].at + HEADER_SIZE = Pointer[b]
                          /\ heap[Place(b)].size >= asked[b]
      BY <2>2, <2>5, <2>6 DEF IsBlock
    <2>8. ASSUME NEW b \in Held, NEW c \in Held, Pointer[b] = Pointer[c]
          PROVE  b = c
      <3> DEFINE j == Place(b)
                 k == Place(c)
      <3>1. /\ j \in 1 .. Len(heap) /\ k \in 1 .. Len(heap)
            /\ heap[j].at + HEADER_SIZE = heap[k].at + HEADER_SIZE
        BY <2>6, <2>7, <2>8
      <3> HIDE DEF j, k
      <3>2. heap[j].at \in Nat /\ heap[j].size \in Nat /\ heap[k].at \in Nat
            /\ heap[k].size \in Nat
        BY <2>5, <3>1
      <3>3. CASE j < k
        <4>1. heap[j].at + HEADER_SIZE + heap[j].size <= heap[k].at
          BY <2>0, <3>1, <3>3 DEF Packed
        <4> QED  BY <3>1, <3>2, <4>1 DEF HEADER_SIZE
      <3>4. CASE k < j
        <4>1. heap[k].at + HEADER_SIZE + heap[k].size <= heap[j].at
          BY <2>0, <3>1, <3>4 DEF Packed
        <4> QED  BY <3>1, <3>2, <4>1 DEF HEADER_SIZE
      <3>5. CASE j = k  BY <2>4, <3>5 DEF j, k
      <3>6. j < k \/ k < j \/ j = k  BY <3>1
      <3> QED  BY <3>3, <3>4, <3>5, <3>6
    <2>9. ASSUME NEW k \in UsedBlocks
          PROVE  \E b \in Held : heap[k].at + HEADER_SIZE = Pointer[b]
      <3>1. k \in 1 .. InUse  BY <2>5, <2>6
      <3>2. PICK b \in Held : Place(b) = k  BY <2>3, <3>1
      <3> QED  BY <2>7, <3>2
    <2> QED  BY <2>7, <2>8, <2>9 DEF BuffersApart
  <1> QED  BY <1>1, HeapInvHolds, PTL

(* The heap's pages are the kernel's to use, and the page allocator keeps them
   marked, whatever the map and whatever is free (alloc_pages, heap_init). *)
THEOREM HeapHasItsPages == Spec => []HeapOnOwnPages
  <1>1. CountInv /\ PlaceInv /\ HeapInv => HeapOnOwnPages
    <2> SUFFICES ASSUME CountInv, PlaceInv, HeapInv, NEW p \in HeapPages
                 PROVE  p \in Own \cap bitmap
      BY DEF HeapOnOwnPages, Own
    <2>1. p \in Pages /\ heap # <<>>
          /\ heap[1].at <= p * PAGE_SIZE /\ p * PAGE_SIZE < HeapEnd
      BY DEF HeapPages
    <2>2. heap[1].at = first * PAGE_SIZE /\ HeapEnd = (first + i) * PAGE_SIZE
      BY <2>1 DEF HeapInv, BlockInv, EndOf, HeapEnd
    <2>3. /\ p \in Nat /\ first \in Nat /\ i \in Nat /\ first + i \in Nat
          /\ PAGE_SIZE \in Nat \ {0}
      BY <2>1, Sizes DEF PlaceInv
    <2>4. first <= p
      <3>1. first * PAGE_SIZE <= p * PAGE_SIZE  BY <2>1, <2>2
      <3> QED  BY ONLY <2>3, <3>1, Scale
    <2>5. p < first + i
      <3>1. ~((first + i) * PAGE_SIZE <= p * PAGE_SIZE)
        <4>1. p * PAGE_SIZE < (first + i) * PAGE_SIZE  BY <2>1, <2>2
        <4>2. p * PAGE_SIZE \in Nat /\ (first + i) * PAGE_SIZE \in Nat
          BY ONLY <2>3, Scale
        <4> QED  BY ONLY <4>1, <4>2
      <3>2. ~(first + i <= p)  BY ONLY <2>3, <3>1, Scale
      <3> QED  BY <2>3, <3>2
    <2>6. pc # "map"  BY <2>1 DEF HeapInv, PhaseInv, Booting
    <2>7. p \in first .. first + i - 1  BY <2>3, <2>4, <2>5
    <2> QED  BY <2>6, <2>7 DEF PlaceInv
  <1> QED  BY <1>1, CountInvHolds, PlaceInvHolds, HeapInvHolds, PTL

(* Pages, blocks and pointers stay in range. *)
THEOREM TypeCorrect == Spec => []TypeOK
  <1>1. CountInv /\ PlaceInv /\ HeapInv => TypeOK
    <2> SUFFICES ASSUME CountInv, PlaceInv, HeapInv PROVE TypeOK  OBVIOUS
    <2>0. PhaseInv /\ BlockInv /\ Packed(heap, InUse) /\ InUse \in Nat
          /\ One(clus_buf) \in {0, 1} /\ (clus_buf # NULL => One(clus_buf) = 1)
      BY HeapTypes DEF HeapInv
    <2>1. PmmTypeOK
      <3>1. /\ free_pages \in Nat /\ total_pages \in Nat /\ MAX_PAGES \in Nat
            /\ free_pages <= total_pages /\ total_pages <= MAX_PAGES
        <4>1. Cardinality(Available) \in Nat /\ Cardinality(Available) <= MAX_PAGES
              /\ free_pages \in Nat
          BY CountTypes
        <4> QED  BY <4>1, Sizes DEF CountInv
      <3>2. free_pages \in 0 .. MAX_PAGES /\ total_pages \in 0 .. MAX_PAGES
        BY <3>1
      <3> QED  BY <3>2 DEF PmmTypeOK, CountInv
    <2>2. /\ HeapTypeOK
          /\ \A k \in 1 .. InUse : heap[k].at + HEADER_SIZE \in Nat
      <3>1. CASE heap = <<>>
        <4>1. Len(heap) = 0 /\ DOMAIN heap = {}  BY <3>1
        <4>2. InUse = 0  BY <2>0, <4>1 DEF Packed
        <4> QED  BY <4>1, <4>2 DEF HeapTypeOK
      <3>2. CASE heap # <<>>
        <4>1. /\ DOMAIN heap = 1 .. Len(heap) /\ Len(heap) \in Nat /\ InUse <= Len(heap)
              /\ \A k \in 1 .. Len(heap) : heap[k] \in Blocks
          BY <2>0, <3>2, BlockTypes
        <4>2. \A k \in 1 .. InUse : k \in 1 .. Len(heap)  BY <2>0, <4>1
        <4>3. \A k \in 1 .. Len(heap) :
                heap[k].at \in Nat /\ heap[k].size \in Nat /\ heap[k].free \in BOOLEAN
          BY <4>1 DEF Blocks
        <4> QED  BY <4>1, <4>2, <4>3 DEF HeapTypeOK, HEADER_SIZE
      <3> QED  BY <3>1, <3>2
    <2>3. clus_buf \in Nat /\ tmp \in Nat /\ fbuf \in Nat /\ load_base \in Nat
      <3>1. NULL \in Nat  BY DEF NULL
      <3>2. clus_buf # NULL => 1 \in 1 .. InUse  BY <2>0 DEF InUse, One
      <3>3. tmp # NULL => 2 \in 1 .. InUse  BY <2>0 DEF InUse, One, PhaseInv
      <3>4. fbuf # NULL => One(clus_buf) + 1 \in 1 .. InUse  BY <2>0 DEF InUse, One, PhaseInv
      <3>5. load_base # NULL => 3 \in 1 .. InUse  BY <2>0 DEF InUse, One, PhaseInv
      <3>6. clus_buf \in Nat  BY <2>0, <2>2, <3>1, <3>2 DEF BlockInv, IsBlock
      <3>7. tmp \in Nat  BY <2>0, <2>2, <3>1, <3>3 DEF BlockInv, IsBlock
      <3>8. fbuf \in Nat  BY <2>0, <2>2, <3>1, <3>4 DEF BlockInv, IsBlock
      <3>9. load_base \in Nat  BY <2>0, <2>2, <3>1, <3>5 DEF BlockInv, IsBlock
      <3> QED  BY <3>6, <3>7, <3>8, <3>9
    <2>4. pc \in {"map", "pages", "stray", "heap", "mount", "idle", "append", "read", "run"}
          /\ \A b \in DOMAIN asked : asked[b] \in Nat
      BY <2>0 DEF PhaseInv, Booting
    <2> QED  BY <2>1, <2>2, <2>3, <2>4 DEF TypeOK, PlaceInv
  <1> QED  BY <1>1, CountInvHolds, PlaceInvHolds, HeapInvHolds, PTL

=============================================================================
