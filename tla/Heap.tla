-------------------------------- MODULE Heap --------------------------------
(***************************************************************************)
(* The kernel heap of kernel/memory.c: kmalloc and kfree over a singly     *)
(* linked list of headers that lies in the heap's own memory.              *)
(*                                                                         *)
(* A header is known by its address.  The list is the set hdrs of the      *)
(* headers that are linked into it with their three fields, so             *)
(* heap.next[b] is b->next.  vmm.heap_end only ever moves by whole pages   *)
(* and is kept as a page count.  The pages behind the heap are the ones    *)
(* map_page was called for: ptes[k] is the frame of the heap's k-th page.  *)
(* map_page itself is module Paging; here it may fail at any page, which   *)
(* is what its callers have to live with.                                  *)
(***************************************************************************)
EXTENDS Integers, FiniteSets

CONSTANTS
  PAGE,        \* PAGE_SIZE
  INIT_PAGES,  \* pages mapped by the first kmalloc (4MB / PAGE_SIZE)
  HEAP_START,  \* vmm.heap_start
  Requests,    \* the sizes callers ask for
  MaxFrames    \* bound: frames handed out by alloc_physical_page

NULL  == 0
HDR   == 24    \* sizeof(struct heap_block)
SLACK == 16    \* a split must leave more than this behind the new header

ASSUME HeapConstants ==
  /\ PAGE \in Nat \ {0}
  /\ INIT_PAGES \in Nat \ {0}
  /\ PAGE >= HDR
  /\ HEAP_START \in Nat \ {0}
  /\ Requests \subseteq Nat
  /\ MaxFrames \in Nat

VARIABLES
  heap,        \* the list and the heap's extent
  ptes,        \* page table entries of heap pages: page number -> frame
  next_free_page, \* the bump pointer of alloc_physical_page, in frames
  live         \* pointers returned and not yet freed -> requested size

vars == <<heap, ptes, next_free_page, live>>

-----------------------------------------------------------------------------
(* Values the code computes.                                               *)

\* Fault: "size & ~3" without the "+ 3".
AlignDown(n) == (n \div 4) * 4

AlignUp(n) == ((n + 3) \div 4) * 4

heap_end(h) == HEAP_START + h.pages * PAGE

\* The first byte after block b.
End(h, b) == b + HDR + h.size[b]

pages_needed(size) == (HDR + size + PAGE - 1) \div PAGE

\* The whole region as one free block: what the first kmalloc writes.
InitialHeap ==
  [first |-> HEAP_START,
   pages |-> INIT_PAGES,
   hdrs  |-> {HEAP_START},
   size  |-> [b \in {HEAP_START} |-> INIT_PAGES * PAGE - HDR],
   next  |-> [b \in {HEAP_START} |-> NULL],
   free  |-> [b \in {HEAP_START} |-> TRUE]]

Initialised(h) == IF h.first = NULL THEN InitialHeap ELSE h

-----------------------------------------------------------------------------
(* kmalloc's three phases, as functions of the list.                       *)

Candidates(h, size) == {b \in h.hdrs : h.free[b] /\ h.size[b] >= size}

\* The walk keeps the first of the smallest candidates.  The list is in
\* address order (Tiled below), so the first is the lowest.
best_fit(h, size) ==
  CHOOSE b \in Candidates(h, size) :
    \A c \in Candidates(h, size) :
      h.size[b] < h.size[c] \/ (h.size[b] = h.size[c] /\ b <= c)

\* The block "while (current->next)" stops at.
tail(h) == CHOOSE b \in h.hdrs : h.next[b] = NULL

\* A new free block of n pages at heap_end, linked behind the tail.
Extend(h, n) ==
  LET e == heap_end(h) IN
  [first |-> h.first,
   pages |-> h.pages + n,
   hdrs  |-> h.hdrs \cup {e},
   size  |-> [b \in h.hdrs \cup {e} |-> IF b = e THEN n * PAGE - HDR ELSE h.size[b]],
   next  |-> [b \in h.hdrs \cup {e} |->
                IF b = e THEN NULL ELSE IF b = tail(h) THEN e ELSE h.next[b]],
   free  |-> [b \in h.hdrs \cup {e} |-> IF b = e THEN TRUE ELSE h.free[b]]]

\* b->free = f
Mark(h, b, f) == [h EXCEPT !.free[b] = f]

\* Fault: the rest of a split block is not reduced by its header.
PlaceForgetsHeader(h, b, size) ==
  IF h.size[b] <= size + HDR + SLACK
  THEN Mark(h, b, FALSE)
  ELSE LET n == b + HDR + size IN
       [h EXCEPT !.hdrs = @ \cup {n},
                 !.size = [c \in h.hdrs \cup {n} |->
                             IF c = n THEN h.size[b] - size
                             ELSE IF c = b THEN size ELSE h.size[c]],
                 !.next = [c \in h.hdrs \cup {n} |->
                             IF c = n THEN h.next[b]
                             ELSE IF c = b THEN n ELSE h.next[c]],
                 !.free = [c \in h.hdrs \cup {n} |->
                             IF c = n THEN TRUE
                             ELSE IF c = b THEN FALSE ELSE h.free[c]]]

\* Take block b for size bytes: whole if little would be left, else split.
Place(h, b, size) ==
  IF h.size[b] <= size + HDR + SLACK
  THEN Mark(h, b, FALSE)
  ELSE LET n == b + HDR + size IN
       [first |-> h.first,
        pages |-> h.pages,
        hdrs  |-> h.hdrs \cup {n},
        size  |-> [c \in h.hdrs \cup {n} |->
                     IF c = n THEN h.size[b] - size - HDR
                     ELSE IF c = b THEN size ELSE h.size[c]],
        next  |-> [c \in h.hdrs \cup {n} |->
                     IF c = n THEN h.next[b]
                     ELSE IF c = b THEN n ELSE h.next[c]],
        free  |-> [c \in h.hdrs \cup {n} |->
                     IF c = n THEN TRUE
                     ELSE IF c = b THEN FALSE ELSE h.free[c]]]

(* kfree's steps.                                                          *)

\* Block b swallows its successor n.
Merge(h, b, n) ==
  [first |-> h.first,
   pages |-> h.pages,
   hdrs  |-> h.hdrs \ {n},
   size  |-> [c \in h.hdrs \ {n} |->
                IF c = b THEN h.size[b] + HDR + h.size[n] ELSE h.size[c]],
   next  |-> [c \in h.hdrs \ {n} |-> IF c = b THEN h.next[n] ELSE h.next[c]],
   free  |-> [c \in h.hdrs \ {n} |-> h.free[c]]]

MergeNext(h, b) ==
  IF h.next[b] # NULL /\ h.free[h.next[b]] THEN Merge(h, b, h.next[b]) ELSE h

\* The blocks whose next pointer is b: where the walk for the predecessor
\* stops, if anywhere.
Preds(h, b) == {p \in h.hdrs : h.next[p] = b}

\* Fault: the walk for the predecessor is left out.
MergePrevNever(h, b) == h

\* Fault: the predecessor swallows the block also when it is in use.
MergePrevAlways(h, b) ==
  LET p == CHOOSE q \in Preds(h, b) : TRUE IN
  IF Preds(h, b) # {} THEN Merge(h, p, b) ELSE h

MergePrev(h, b) ==
  LET p == CHOOSE q \in Preds(h, b) : TRUE IN
  IF Preds(h, b) # {} /\ h.free[p] THEN Merge(h, p, b) ELSE h

-----------------------------------------------------------------------------
(* Physical pages.                                                         *)

\* n iterations of the mapping loop from page p on: each takes the next
\* frame and maps it.
Mapped(m, p, n, f) ==
  [k \in DOMAIN m \cup p .. (p + n - 1) |->
     IF k \in p .. (p + n - 1) THEN f + (k - p) ELSE m[k]]

\* Fault: the loop stops one page short of its bound.
MapLoopShort(p, n) ==
  /\ next_free_page + n <= MaxFrames
  /\ ptes' = Mapped(ptes, p, n - 1, next_free_page)
  /\ next_free_page' = next_free_page + n

\* The loop ran to the end.
MapLoopDone(p, n) ==
  /\ next_free_page + n <= MaxFrames
  /\ ptes' = Mapped(ptes, p, n, next_free_page)
  /\ next_free_page' = next_free_page + n

\* map_page refused page number k of the loop, one of ks: its frame is gone,
\* the earlier pages stay mapped.
MapLoopFails(p, ks) ==
  \E k \in ks :
    /\ next_free_page + k <= MaxFrames
    /\ ptes' = Mapped(ptes, p, k - 1, next_free_page)
    /\ next_free_page' = next_free_page + k

-----------------------------------------------------------------------------
(* The operations.                                                         *)

Init ==
  /\ heap = [first |-> NULL, pages |-> 0, hdrs |-> {},
             size |-> [b \in {} |-> 0], next |-> [b \in {} |-> NULL],
             free |-> [b \in {} |-> TRUE]]
  /\ ptes = [k \in {} |-> 0]
  /\ next_free_page = 0
  /\ live = [p \in {} |-> 0]

\* The pages a call maps before it looks for a block.
InitPages == IF heap.first = NULL THEN INIT_PAGES ELSE 0

\* kmalloc returns block b of heap h for a request of req bytes.
Return(h, b, req) ==
  /\ heap' = Place(h, b, AlignUp(req))
  /\ live' = [p \in DOMAIN live \cup {b + HDR} |->
                IF p = b + HDR THEN req ELSE live[p]]

\* kmalloc finds a block, after initialising the heap if need be.
KmallocFit(req) ==
  LET h == Initialised(heap) IN
  /\ Candidates(h, AlignUp(req)) # {}
  /\ MapLoopDone(heap.pages, InitPages)
  /\ Return(h, best_fit(h, AlignUp(req)), req)

\* kmalloc finds none and extends the heap.  On a fresh heap the pages of
\* the extension follow those of the initialisation.
KmallocExtend(req) ==
  LET h == Initialised(heap)
      n == pages_needed(AlignUp(req))
  IN
  /\ Candidates(h, AlignUp(req)) = {}
  /\ MapLoopDone(heap.pages, InitPages + n)
  /\ Return(Extend(h, n), heap_end(h), req)

\* A page of the initial region cannot be mapped: NULL, and the heap is
\* still uninitialised, so that the next call starts over.
KmallocInitFails(req) ==
  /\ heap.first = NULL
  /\ MapLoopFails(heap.pages, 1 .. INIT_PAGES)
  /\ UNCHANGED <<heap, live>>

\* A page of the extension cannot be mapped: NULL.
KmallocExtendFails(req) ==
  LET h == Initialised(heap)
      n == pages_needed(AlignUp(req))
  IN
  /\ Candidates(h, AlignUp(req)) = {}
  /\ MapLoopFails(heap.pages, (InitPages + 1) .. (InitPages + n))
  /\ heap' = h
  /\ UNCHANGED live

kmalloc(req) ==
  \/ KmallocFit(req)
  \/ KmallocExtend(req)
  \/ KmallocInitFails(req)
  \/ KmallocExtendFails(req)

\* kfree of a pointer kmalloc returned.  kfree(NULL) changes nothing.
kfree(p) ==
  LET b == p - HDR IN
  /\ p \in DOMAIN live
  /\ heap' = MergePrev(MergeNext(Mark(heap, b, TRUE), b), b)
  /\ live' = [q \in DOMAIN live \ {p} |-> live[q]]
  /\ UNCHANGED <<ptes, next_free_page>>

\* Another part of the kernel takes a frame (stacks, program segments).
alloc_physical_page ==
  /\ next_free_page < MaxFrames
  /\ next_free_page' = next_free_page + 1
  /\ UNCHANGED <<heap, ptes, live>>

Next ==
  \/ \E req \in Requests : kmalloc(req)
  \/ \E p \in DOMAIN live : kfree(p)
  \/ alloc_physical_page

Spec == Init /\ [][Next]_vars

-----------------------------------------------------------------------------
(* Properties.                                                             *)

HeapType(h) ==
  /\ h = [first |-> h.first, pages |-> h.pages, hdrs |-> h.hdrs,
          size |-> h.size, next |-> h.next, free |-> h.free]
  /\ h.first \in Nat
  /\ h.pages \in Nat
  /\ h.hdrs \subseteq Nat \ {NULL}
  /\ h.size \in [h.hdrs -> Nat]
  /\ h.next \in [h.hdrs -> h.hdrs \cup {NULL}]
  /\ h.free \in [h.hdrs -> BOOLEAN]

\* Every field has its type; in particular every next pointer is NULL or the
\* address of a header that is still on the list.
TypeOK ==
  /\ HeapType(heap)
  /\ ptes \in [DOMAIN ptes -> 0 .. (next_free_page - 1)]
  /\ DOMAIN ptes \subseteq Nat
  /\ next_free_page \in 0 .. MaxFrames
  /\ live \in [DOMAIN live -> Requests]
  /\ DOMAIN live \subseteq Nat

\* The blocks lie in the heap without overlap, each next pointer is the end
\* of its block, and the last block ends at heap_end.
Tiled(h) ==
  /\ \A b \in h.hdrs : HEAP_START <= b /\ End(h, b) <= heap_end(h)
  /\ \A b \in h.hdrs : h.next[b] = IF End(h, b) = heap_end(h) THEN NULL ELSE End(h, b)
  /\ \A b, c \in h.hdrs : b < c => End(h, b) <= c

\* From the first kmalloc on the list of headers tiles the heap: no byte
\* between heap_start and heap_end is lost by splitting, merging or
\* extending, none belongs to two blocks, and the list ends.
HeapTiled ==
  /\ Tiled(heap)
  /\ heap.first = NULL => heap.hdrs = {} /\ heap.pages = 0
  /\ heap.first # NULL =>
       /\ heap.first = HEAP_START
       /\ HEAP_START \in heap.hdrs
       /\ \E b \in heap.hdrs : heap.next[b] = NULL

\* kfree's two merges leave no two neighbours free.
Coalesced(h) ==
  \A b \in h.hdrs : h.free[b] /\ h.next[b] # NULL => ~h.free[h.next[b]]

\* Freed neighbours are always merged, whatever the order of the kfrees and
\* even when the heap was extended behind a free last block.
NoAdjacentFree == Coalesced(heap)

\* The used blocks of h are the headers of the pointers in l.
Owned(h, l) ==
  /\ \A p \in DOMAIN l :
       p - HDR \in h.hdrs /\ ~h.free[p - HDR] /\ l[p] <= h.size[p - HDR]
  /\ \A b \in h.hdrs : ~h.free[b] => b + HDR \in DOMAIN l

\* When every allocation has been freed the heap is one free block, whatever
\* the order: kfree leaves no fragmentation behind.
FullyCoalesced ==
  heap.first # NULL /\ live = [p \in {} |-> 0] => heap.hdrs = {HEAP_START}

\* A pointer that kmalloc returned and nobody freed is the payload of a block
\* marked used that holds the request, and no other block is marked used.
LiveSafe == Owned(heap, live)

\* What two callers were given never overlaps, and never overlaps a header
\* that kmalloc and kfree write to.
LiveDisjoint ==
  \A p \in DOMAIN live :
    /\ \A q \in DOMAIN live : p < q => p + live[p] <= q
    /\ \A b \in heap.hdrs : b + HDR <= p \/ p + live[p] <= b

\* Every page between heap_start and heap_end is mapped, and no two heap
\* pages share a frame, however often a failed kmalloc was retried.
HeapBacked ==
  /\ 0 .. (heap.pages - 1) \subseteq DOMAIN ptes
  /\ \A j, k \in DOMAIN ptes : ptes[j] = ptes[k] => j = k

\* A block keeps its place and its size for as long as its pointer is live.
LiveBlockStable ==
  [][\A p \in DOMAIN live \cap DOMAIN live' :
       heap'.size[p - HDR] = heap.size[p - HDR]]_vars
=============================================================================
