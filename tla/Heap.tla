------------------------------- MODULE Heap --------------------------------
(***************************************************************************)
(* The kernel heap (src/src/core/heap.c): blocks in address order, each a  *)
(* header and its data, on pages of Pmm.  The list of headers is a         *)
(* sequence here; a pointer is the address of a block's data.              *)
(***************************************************************************)
EXTENDS Pmm

CONSTANT HEAP_INITIAL_PAGES

HEADER_SIZE == 24
MIN_SPLIT   == 16
NULL        == 0

ASSUME HeapAssumption ==
    /\ HEAP_INITIAL_PAGES \in Nat \ {0}
    /\ PAGE_SIZE > HEADER_SIZE

VARIABLE heap       \* sequence of [at, size, free]; empty: heap_head is NULL

Block(a, s, f) == [at |-> a, size |-> s, free |-> f]

(* heap_init, with what alloc_pages returned. *)
NewHeap(first, got) ==
    IF got = 0 THEN <<>>
    ELSE <<Block(first * PAGE_SIZE, got * PAGE_SIZE - HEADER_SIZE, TRUE)>>

AlignDown(n) == (n \div 8) * 8      \* slip: rounded down

Align(n) == ((n + 7) \div 8) * 8

Replace(s, i, j, new) == SubSeq(s, 1, i - 1) \o new \o SubSeq(s, j + 1, Len(s))

(* kmalloc: the first block that is large enough, split if enough is left over.
   Returns the list and the pointer. *)
Fits(h, n) == {i \in DOMAIN h : h[i].free /\ h[i].size >= n}

SplitLoose(b, n) ==     \* slip: the new header not counted
    IF b.size >= n + HEADER_SIZE + MIN_SPLIT
    THEN <<Block(b.at, n, FALSE), Block(b.at + HEADER_SIZE + n, b.size - n, TRUE)>>
    ELSE <<Block(b.at, b.size, FALSE)>>

Split(b, n) ==
    IF b.size >= n + HEADER_SIZE + MIN_SPLIT
    THEN <<Block(b.at, n, FALSE),
           Block(b.at + HEADER_SIZE + n, b.size - n - HEADER_SIZE, TRUE)>>
    ELSE <<Block(b.at, b.size, FALSE)>>

Kmalloc(h, bytes) ==
    LET n == Align(bytes)
        i == Min(Fits(h, n))
    IN  IF bytes = 0 \/ Fits(h, n) = {} THEN [heap |-> h, ptr |-> NULL]
        ELSE [heap |-> Replace(h, i, i, Split(h[i], n)),
              ptr  |-> h[i].at + HEADER_SIZE]

(* kfree: the block and the free ones that follow it become one. *)
Kfree(h, ptr) ==
    LET i    == CHOOSE k \in DOMAIN h : h[k].at + HEADER_SIZE = ptr
        last == Max({k \in i .. Len(h) : \A m \in i + 1 .. k : h[m].free})
        grow[k \in i .. last] ==
            IF k = i THEN h[i].size ELSE grow[k - 1] + HEADER_SIZE + h[k].size
    IN  IF ptr = NULL THEN h
        ELSE Replace(h, i, last, <<Block(h[i].at, grow[last], TRUE)>>)

-----------------------------------------------------------------------------
HeapTypeOK ==
    \A i \in DOMAIN heap :
        heap[i].at \in Nat /\ heap[i].size \in Nat /\ heap[i].free \in BOOLEAN

HeapEnd == heap[Len(heap)].at + HEADER_SIZE + heap[Len(heap)].size

HeapPages == {p \in Pages : \E i \in DOMAIN heap :
                 /\ heap[1].at <= p * PAGE_SIZE /\ p * PAGE_SIZE < HeapEnd}

(* The blocks tile the heap: each begins where the one before ends, so that no
   byte is in two blocks or in none, whatever is split and merged. *)
Tiled ==
    heap # <<>> =>
        /\ \A i \in 1 .. Len(heap) - 1 :
              heap[i + 1].at = heap[i].at + HEADER_SIZE + heap[i].size
        /\ heap[1].at % PAGE_SIZE = 0 /\ HeapEnd % PAGE_SIZE = 0

(* The heap is on pages that are the kernel's to use, and that the page
   allocator will give to nobody else (alloc_pages, heap_init). *)
HeapOnOwnPages ==
    HeapPages \subseteq (Available \ (KernelPages \cup {0})) \cap bitmap
=============================================================================
