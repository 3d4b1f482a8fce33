------------------------------- MODULE Memory ------------------------------
(***************************************************************************)
(* The heap and its users: boot (src/src/core/kernel.c), the file system's *)
(* cluster buffer and append buffer (src/src/fs/fat32.c) and the program   *)
(* loader (src/src/core/elf.c).  The kernel is one thread; pc is where it  *)
(* is between two calls of the allocators.                                 *)
(***************************************************************************)
EXTENDS Heap

CONSTANTS
    ClusBytes,      \* the cluster buffer
    AppendSizes,    \* old and new contents together, of an append
    ElfMax,         \* max_size of elf_exec
    LoadSizes       \* from the program headers

ASSUME MemoryAssumption ==
    /\ ClusBytes \in Nat \ {0} /\ ElfMax \in Nat \ {0}
    /\ AppendSizes \subseteq Nat /\ LoadSizes \subseteq Nat

VARIABLES
    pc,
    i,              \* the loop of pmm_init, then that of alloc_pages
    first, stray,   \* alloc_pages: its first page, one that does not follow
    clus_buf, tmp, fbuf, load_base,     \* the pointers
    asked           \* history: the bytes each of them was allocated for

bufVars == <<clus_buf, tmp, fbuf, load_base, asked>>
vars == <<pmmVars, heap, pc, i, first, stray, bufVars>>

Init ==
    /\ PmmInit
    /\ heap = <<>> /\ pc = "map" /\ i = 1 /\ first = 0 /\ stray = 0
    /\ clus_buf = NULL /\ tmp = NULL /\ fbuf = NULL /\ load_base = NULL
    /\ asked = [clus_buf |-> 0, tmp |-> 0, fbuf |-> 0, load_base |-> 0]

(***************************************************************************)
(* Boot: pmm_init, heap_init with alloc_pages, fat32_mount                 *)
(***************************************************************************)
MapRegion ==
    /\ pc = "map" /\ i <= Len(mmap)
    /\ TakeRegion(mmap[i]) /\ i' = i + 1
    /\ UNCHANGED <<heap, pc, first, stray, bufVars>>

GuardPages ==
    /\ pc = "map" /\ i > Len(mmap)
    /\ Reserve({0} \cup KernelPages)
    /\ pc' = "pages" /\ i' = 0
    /\ UNCHANGED <<heap, first, stray, bufVars>>

(* alloc_pages takes page after page and stops at the first that does not
   follow; that one it gives back. *)
TakePage ==
    /\ pc = "pages" /\ i < HEAP_INITIAL_PAGES
    /\ LET p == FirstFree(bitmap)
       IN  /\ p # 0 /\ (i = 0 \/ p = first + i)
           /\ first' = IF i = 0 THEN p ELSE first
    /\ AllocPage /\ i' = i + 1
    /\ UNCHANGED <<heap, pc, stray, bufVars>>

TakeStrayPage ==
    /\ pc = "pages" /\ i \in 1 .. HEAP_INITIAL_PAGES - 1
    /\ LET p == FirstFree(bitmap)
       IN  p # 0 /\ p # first + i /\ stray' = p
    /\ AllocPage
    /\ pc' = "stray"
    /\ UNCHANGED <<heap, i, first, bufVars>>

GiveBackPage ==
    /\ pc = "stray"
    /\ FreePage(stray)
    /\ pc' = "heap"
    /\ UNCHANGED <<heap, i, first, stray, bufVars>>

PagesDone ==
    /\ pc = "pages" /\ (i = HEAP_INITIAL_PAGES \/ FirstFree(bitmap) = 0)
    /\ pc' = "heap"
    /\ UNCHANGED <<pmmVars, heap, i, first, stray, bufVars>>

HeapInit ==
    /\ pc = "heap"
    /\ heap' = NewHeap(first, i)
    /\ pc' = "mount"
    /\ UNCHANGED <<pmmVars, i, first, stray, bufVars>>

(* Without its buffer the file system is not mounted. *)
Mount ==
    /\ pc = "mount"
    /\ LET m == Kmalloc(heap, ClusBytes)
       IN  heap' = m.heap /\ clus_buf' = m.ptr
    /\ asked' = [asked EXCEPT !.clus_buf = ClusBytes]
    /\ pc' = "idle"
    /\ UNCHANGED <<pmmVars, i, first, stray, tmp, fbuf, load_base>>

(***************************************************************************)
(* fat32_append: every way out of it frees the buffer.                     *)
(***************************************************************************)
AppendBegin(n) ==
    /\ pc = "idle" /\ clus_buf # NULL
    /\ LET m == Kmalloc(heap, n)
       IN  /\ heap' = m.heap /\ tmp' = m.ptr
           /\ pc' = IF m.ptr = NULL THEN "idle" ELSE "append"
    /\ asked' = [asked EXCEPT !.tmp = IF tmp' = NULL THEN 0 ELSE n]
    /\ UNCHANGED <<pmmVars, i, first, stray, clus_buf, fbuf, load_base>>

AppendEnd ==
    /\ pc = "append"
    /\ heap' = Kfree(heap, tmp) /\ tmp' = NULL
    /\ asked' = [asked EXCEPT !.tmp = 0]
    /\ pc' = "idle"
    /\ UNCHANGED <<pmmVars, i, first, stray, clus_buf, fbuf, load_base>>

(***************************************************************************)
(* elf_exec                                                                *)
(***************************************************************************)
ExecBegin ==
    /\ pc = "idle"
    /\ LET m == Kmalloc(heap, ElfMax)
       IN  /\ heap' = m.heap /\ fbuf' = m.ptr
           /\ pc' = IF m.ptr = NULL THEN "idle" ELSE "read"
    /\ asked' = [asked EXCEPT !.fbuf = IF fbuf' = NULL THEN 0 ELSE ElfMax]
    /\ UNCHANGED <<pmmVars, i, first, stray, clus_buf, tmp, load_base>>

(* The file cannot be read or is not a program. *)
ExecRefuse ==
    /\ pc = "read"
    /\ heap' = Kfree(heap, fbuf) /\ fbuf' = NULL
    /\ asked' = [asked EXCEPT !.fbuf = 0]
    /\ pc' = "idle"
    /\ UNCHANGED <<pmmVars, i, first, stray, clus_buf, tmp, load_base>>

ExecLoad(n) ==
    /\ pc = "read" /\ clus_buf # NULL
    /\ LET m == Kmalloc(heap, n)
       IN  IF m.ptr = NULL
           THEN /\ heap' = Kfree(heap, fbuf) /\ fbuf' = NULL
                /\ asked' = [asked EXCEPT !.fbuf = 0]
                /\ pc' = "idle"
                /\ UNCHANGED load_base
           ELSE /\ heap' = m.heap /\ load_base' = m.ptr
                /\ asked' = [asked EXCEPT !.load_base = n]
                /\ pc' = "run"
                /\ UNCHANGED fbuf
    /\ UNCHANGED <<pmmVars, i, first, stray, clus_buf, tmp>>

FreeBothForward(h) ==       \* slip: the other order
    Kfree(Kfree(h, fbuf), load_base)

(* The program returns: load_base first, then fbuf. *)
FreeBoth(h) == Kfree(Kfree(h, load_base), fbuf)

ExecEnd ==
    /\ pc = "run"
    /\ heap' = FreeBoth(heap)
    /\ load_base' = NULL /\ fbuf' = NULL
    /\ asked' = [asked EXCEPT !.load_base = 0, !.fbuf = 0]
    /\ pc' = "idle"
    /\ UNCHANGED <<pmmVars, i, first, stray, clus_buf, tmp>>

Boot == \/ MapRegion \/ GuardPages
        \/ TakePage \/ TakeStrayPage \/ GiveBackPage \/ PagesDone
        \/ HeapInit \/ Mount

Next ==
    \/ Boot
    \/ \E n \in AppendSizes : AppendBegin(n)
    \/ AppendEnd
    \/ ExecBegin \/ ExecRefuse \/ ExecEnd
    \/ \E n \in LoadSizes : ExecLoad(n)

Spec == Init /\ [][Next]_vars

-----------------------------------------------------------------------------
Pointer == [clus_buf |-> clus_buf, tmp |-> tmp, fbuf |-> fbuf, load_base |-> load_base]
Held    == {b \in DOMAIN Pointer : Pointer[b] # NULL}

UsedBlocks == {k \in DOMAIN heap : ~heap[k].free}

(* Type invariant. *)
TypeOK ==
    /\ PmmTypeOK /\ HeapTypeOK
    /\ pc \in {"map", "pages", "stray", "heap", "mount", "idle", "append", "read", "run"}
    /\ i \in Nat /\ first \in Pages /\ stray \in Pages
    /\ {clus_buf, tmp, fbuf, load_base} \subseteq Nat
    /\ \A b \in DOMAIN asked : asked[b] \in Nat

(* Every buffer in use has a block of its own, long enough for what was asked,
   and every block in use is a buffer's: nothing is handed out twice, and no
   way out of fat32_append or elf_exec forgets a buffer. *)
BuffersApart ==
    /\ \A b \in Held : \E k \in UsedBlocks :
          heap[k].at + HEADER_SIZE = Pointer[b] /\ heap[k].size >= asked[b]
    /\ \A b, c \in Held : Pointer[b] = Pointer[c] => b = c
    /\ \A k \in UsedBlocks : \E b \in Held : heap[k].at + HEADER_SIZE = Pointer[b]

(* Between two commands the free memory is one block behind the cluster
   buffer, although kfree merges only with what follows: its callers free in
   the reverse order of allocation (elf_exec: load_base, then fbuf). *)
FreeIsWhole ==
    pc = "idle" => \A k \in 1 .. Len(heap) - 1 : ~heap[k].free
=============================================================================
