-------------------------------- MODULE Pmm --------------------------------
(***************************************************************************)
(* The page allocator (src/src/core/pmm.c): one bit per page and two       *)
(* counters, set up from the boot loader's memory map.                     *)
(***************************************************************************)
EXTENDS Integers, Sequences, FiniteSets, FiniteSetsExt

CONSTANTS
    PAGE_SIZE,
    MAX_PAGES,      \* the bitmap's length
    KernelEnd,      \* the address behind the kernel
    MemoryMaps      \* the maps a machine may have: sequences of regions
                    \* [base, length, available], in bytes

ASSUME PmmAssumption ==
    /\ PAGE_SIZE \in Nat \ {0} /\ MAX_PAGES \in Nat \ {0} /\ KernelEnd \in Nat
    /\ MemoryMaps \subseteq Seq([base : Nat, length : Nat, available : BOOLEAN])

Pages == 0 .. MAX_PAGES - 1

VARIABLES
    mmap,           \* the memory map
    bitmap,         \* the pages marked used
    free_pages, total_pages

pmmVars == <<mmap, bitmap, free_pages, total_pages>>

RoundUp(a)   == (a + PAGE_SIZE - 1) \div PAGE_SIZE
RoundDown(a) == a \div PAGE_SIZE

KernelPages == {p \in Pages : p < RoundUp(KernelEnd)}

RegionPagesOut(r) ==        \* slip: rounded outwards
    {p \in Pages : RoundDown(r.base) <= p /\ p < RoundUp(r.base + r.length)}

(* The pages that lie in a region as a whole. *)
RegionPages(r) == {p \in Pages : RoundUp(r.base) <= p /\ p < RoundDown(r.base + r.length)}

PmmInit ==
    /\ mmap \in MemoryMaps
    /\ bitmap = Pages /\ free_pages = 0 /\ total_pages = 0

TakeRegionTwice(r) ==       \* slip: pages that are free already counted
    LET new == IF r.available THEN RegionPages(r) ELSE {}
    IN  /\ bitmap' = bitmap \ new
        /\ free_pages' = free_pages + Cardinality(new)
        /\ total_pages' = total_pages + Cardinality(new)
        /\ UNCHANGED mmap

(* One region of the map: a page that an earlier region freed is not counted
   again. *)
TakeRegion(r) ==
    LET new == IF r.available THEN RegionPages(r) \cap bitmap ELSE {}
    IN  /\ bitmap' = bitmap \ new
        /\ free_pages' = free_pages + Cardinality(new)
        /\ total_pages' = total_pages + Cardinality(new)
        /\ UNCHANGED mmap

(* Page 0 and the kernel's pages are marked used again. *)
Reserve(pages) ==
    /\ bitmap' = bitmap \cup pages
    /\ free_pages' = free_pages - Cardinality(pages \ bitmap)
    /\ UNCHANGED <<mmap, total_pages>>

(* pmm_alloc_page: the first free page, or 0. *)
FirstFree(used) == IF used = Pages THEN 0 ELSE Min(Pages \ used)

AllocPage ==
    LET p == FirstFree(bitmap)
    IN  /\ bitmap' = IF bitmap = Pages THEN bitmap ELSE bitmap \cup {p}
        /\ free_pages' = IF bitmap = Pages THEN free_pages ELSE free_pages - 1
        /\ UNCHANGED <<mmap, total_pages>>

FreePage(p) ==
    /\ bitmap' = bitmap \ {p}
    /\ free_pages' = free_pages + Cardinality({p} \cap bitmap)
    /\ UNCHANGED <<mmap, total_pages>>

-----------------------------------------------------------------------------
PmmTypeOK ==
    /\ mmap \in MemoryMaps
    /\ bitmap \subseteq Pages
    /\ free_pages \in 0 .. MAX_PAGES /\ total_pages \in 0 .. MAX_PAGES

(* The pages that the map gives as available from their first byte to their
   last. *)
Available ==
    {p \in Pages : \E k \in DOMAIN mmap :
        /\ mmap[k].available
        /\ mmap[k].base <= p * PAGE_SIZE
        /\ (p + 1) * PAGE_SIZE <= mmap[k].base + mmap[k].length}

(* The counters agree with the bitmap, however the regions of the map overlap
   and whatever is reserved, allocated and given back (pmm_init,
   pmm_alloc_page, pmm_free_page). *)
PagesCounted ==
    /\ free_pages = Cardinality(Pages \ bitmap)
    /\ total_pages <= Cardinality(Available)
    /\ free_pages <= total_pages
=============================================================================
