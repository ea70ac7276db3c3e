---------------------------- MODULE MemoryProofs ----------------------------
(***************************************************************************)
(* Proofs about the memory manager: module Heap, for every page size,      *)
(* initial size, heap start and set of requests.                           *)
(***************************************************************************)
EXTENDS Heap, TLAPS

\* Zenon, which knows no arithmetic, is tried first; a leaf beyond it names SMT.
USE ZenonT(60), SMTT(60)

-----------------------------------------------------------------------------
(* Arithmetic.                                                             *)

\* kmalloc's "(size + 3) & ~3" never rounds a request down.
LEMMA AlignUpGrows ==
  ASSUME NEW n \in Nat
  PROVE  AlignUp(n) \in Nat /\ n <= AlignUp(n)
BY SMTT(60) DEF AlignUp

\* Division rounds down by less than the divisor.
LEMMA Division ==
  ASSUME NEW x \in Nat, NEW d \in Nat \ {0}
  PROVE  x \div d \in Nat /\ x < (x \div d) * d + d
<1>1. x = d * (x \div d) + (x % d) /\ x % d < d
  BY SMTT(60)
<1>2. x \div d \in Nat
  BY SMTT(60)
<1>. QED
  BY <1>1, <1>2, SMTT(60)

\* The pages kmalloc maps for an extension hold the header and the request.
LEMMA PagesNeededSuffice ==
  ASSUME NEW s \in Nat
  PROVE  /\ pages_needed(s) \in Nat \ {0}
         /\ HDR + s <= pages_needed(s) * PAGE
<1>1. HDR + s + PAGE - 1 \in Nat /\ PAGE \in Nat \ {0} /\ HDR = 24
  BY HeapConstants, SMTT(60) DEF HDR
<1>2. /\ pages_needed(s) \in Nat
      /\ HDR + s + PAGE - 1 < pages_needed(s) * PAGE + PAGE
  BY <1>1, Division DEF pages_needed
<1>3. HDR + s <= pages_needed(s) * PAGE
  <2>1. pages_needed(s) * PAGE \in Int
    BY <1>1, <1>2, SMTT(60)
  <2>. QED
    BY <1>1, <1>2, <2>1, SMTT(60)
<1>4. pages_needed(s) # 0
  BY <1>1, <1>3, SMTT(60)
<1>. QED
  BY <1>2, <1>3, <1>4

\* heap_end moves by whole pages.
LEMMA HeapEndMoves ==
  ASSUME NEW j \in Nat, NEW k \in Nat
  PROVE  /\ j * PAGE \in Nat
         /\ (j + k) * PAGE = j * PAGE + k * PAGE
BY HeapConstants, SMTT(60)

-----------------------------------------------------------------------------
(* The list.  WF is what every operation on an initialised heap keeps; the *)
(* tail is needed because kmalloc walks to it to extend the heap.          *)

WF(h) ==
  /\ HeapType(h)
  /\ Tiled(h)
  /\ h.first = HEAP_START
  /\ HEAP_START \in h.hdrs
  /\ \E b \in h.hdrs : h.next[b] = NULL

\* No two neighbours are free, except that t and its predecessor may be.
CoalescedBefore(h, t) ==
  \A b \in h.hdrs :
    h.free[b] /\ h.next[b] # NULL /\ h.next[b] # t => ~h.free[h.next[b]]

\* The heap the first kmalloc writes is a tiled list of one block.
LEMMA InitialHeapWF ==
  WF(InitialHeap) /\ Coalesced(InitialHeap)
<1>1. INIT_PAGES * PAGE \in Nat /\ INIT_PAGES * PAGE - HDR \in Nat
  <2>1. INIT_PAGES * PAGE >= PAGE
    BY HeapConstants, SMTT(60)
  <2>. QED
    BY <2>1, HeapConstants, SMTT(60) DEF HDR
<1>2. HeapType(InitialHeap)
  BY <1>1, HeapConstants DEF HeapType, InitialHeap, NULL
<1>3. Tiled(InitialHeap)
  BY <1>1, HeapConstants, SMTT(60) DEF Tiled, InitialHeap, End, heap_end, NULL, HDR
<1>. QED
  BY <1>2, <1>3 DEF WF, InitialHeap, Coalesced

\* A header's block has room for the header: it ends before heap_end.
LEMMA HeaderBelowEnd ==
  ASSUME NEW h, HeapType(h), Tiled(h), NEW b \in h.hdrs
  PROVE  /\ b \in Nat \ {0}
         /\ h.size[b] \in Nat
         /\ End(h, b) = b + HDR + h.size[b]
         /\ heap_end(h) \in Nat
         /\ b + HDR <= End(h, b)
         /\ End(h, b) <= heap_end(h)
         /\ b < heap_end(h)
<1>1. h.pages * PAGE \in Nat
  BY HeapConstants, HeapEndMoves DEF HeapType
<1>2. heap_end(h) \in Nat
  BY <1>1, HeapConstants, SMTT(60) DEF heap_end
<1>3. b \in Nat \ {0} /\ h.size[b] \in Nat
  BY DEF HeapType, NULL
<1>. QED
  BY <1>2, <1>3, SMTT(60) DEF End, HDR, Tiled
\* Appending a block of n pages behind the tail keeps the list tiled.
LEMMA ExtendWF ==
  ASSUME NEW h, WF(h), NEW n \in Nat, HDR <= n * PAGE
  PROVE  /\ WF(Extend(h, n))
         /\ heap_end(h) \notin h.hdrs
         /\ tail(h) \in h.hdrs /\ h.next[tail(h)] = NULL
<1> DEFINE e == heap_end(h)
           x == Extend(h, n)
           t == tail(h)
<1>1. t \in h.hdrs /\ h.next[t] = NULL
  BY DEF tail, WF
<1>2. HeapType(h) /\ Tiled(h)
  BY DEF WF
<1>3. \A b \in h.hdrs : /\ b \in Nat \ {0} /\ h.size[b] \in Nat
                        /\ End(h, b) = b + HDR + h.size[b]
                        /\ b + HDR <= End(h, b) /\ End(h, b) <= e /\ b < e
  BY <1>2, HeaderBelowEnd
<1>4. e \in Nat \ {0} /\ e \notin h.hdrs
  BY <1>1, <1>2, <1>3, HeaderBelowEnd, SMTT(60)
<1>5. n * PAGE \in Nat /\ n * PAGE - HDR \in Nat
  BY HeapEndMoves, HeapConstants, SMTT(60) DEF HDR
<1>6. heap_end(x) = e + n * PAGE
  BY <1>2, HeapEndMoves, HeapConstants, SMTT(60) DEF heap_end, Extend, HeapType
<1>7. \A b \in h.hdrs : b # t => h.next[b] = End(h, b) /\ End(h, b) # e
  <2>1. End(h, t) = e
    BY <1>1, <1>2, <1>3, SMTT(60) DEF Tiled, NULL, HDR
  <2>2. \A b \in h.hdrs : b # t => End(h, b) # e
    BY <1>1, <1>2, <1>3, <2>1, SMTT(60) DEF Tiled, HDR
  <2>. QED
    BY <1>2, <2>2 DEF Tiled
<1>8. /\ x = [first |-> x.first, pages |-> x.pages, hdrs |-> x.hdrs,
              size |-> x.size, next |-> x.next, free |-> x.free]
      /\ x.first = h.first
      /\ x.pages = h.pages + n
      /\ x.hdrs = h.hdrs \cup {e}
      /\ x.size = [b \in h.hdrs \cup {e} |-> IF b = e THEN n * PAGE - HDR ELSE h.size[b]]
      /\ x.next = [b \in h.hdrs \cup {e} |->
                     IF b = e THEN NULL ELSE IF b = t THEN e ELSE h.next[b]]
      /\ x.free = [b \in h.hdrs \cup {e} |-> IF b = e THEN TRUE ELSE h.free[b]]
  BY DEF Extend
<1>9. /\ \A b \in h.hdrs : End(x, b) = End(h, b)
      /\ End(x, e) = e + n * PAGE
      /\ End(h, t) = e
  <2>1. End(h, t) = e
    BY <1>1, <1>2, <1>3, SMTT(60) DEF Tiled, NULL, HDR
  <2>. QED
    BY <1>3, <1>4, <1>5, <1>8, <2>1, SMTT(60) DEF End, HDR
<1> HIDE DEF x, e, t
<1>10. HeapType(x)
  <2>1. x.size \in [x.hdrs -> Nat]
    BY <1>2, <1>5, <1>8, SMTT(60) DEF HeapType
  <2>2. x.next \in [x.hdrs -> x.hdrs \cup {NULL}]
    BY <1>2, <1>8 DEF HeapType
  <2>3. x.free \in [x.hdrs -> BOOLEAN]
    BY <1>2, <1>8 DEF HeapType
  <2>4. x.first \in Nat /\ x.pages \in Nat /\ x.hdrs \subseteq Nat \ {NULL}
    BY <1>2, <1>4, <1>8, SMTT(60) DEF HeapType, NULL
  <2>. QED
    BY <1>8, <2>1, <2>2, <2>3, <2>4 DEF HeapType
<1>11. Tiled(x)
  <2>1. \A b \in x.hdrs : HEAP_START <= b /\ End(x, b) <= heap_end(x)
    <3>1. \A b \in h.hdrs : HEAP_START <= b /\ End(h, b) \in Nat /\ End(h, b) <= e
      BY <1>2, <1>3, SMTT(60) DEF Tiled, HDR
    <3>2. HEAP_START <= e
      BY <1>1, <1>3, <1>4, <3>1, HeapConstants, SMTT(60)
    <3>. QED
      BY <1>4, <1>5, <1>6, <1>8, <1>9, <3>1, <3>2, SMTT(60)
  <2>2. \A b \in x.hdrs : x.next[b] = IF End(x, b) = heap_end(x) THEN NULL ELSE End(x, b)
    <3>1. n * PAGE > 0
      BY <1>5, SMTT(60) DEF HDR
    <3>2. ASSUME NEW b \in h.hdrs, b # t PROVE x.next[b] = End(x, b) /\ End(x, b) # heap_end(x)
      BY <1>3, <1>4, <1>5, <1>6, <1>7, <1>8, <1>9, <3>1, <3>2, SMTT(60) DEF HDR
    <3>3. x.next[t] = e /\ End(x, t) = e /\ e # heap_end(x)
      BY <1>1, <1>4, <1>5, <1>6, <1>8, <1>9, <3>1, SMTT(60)
    <3>4. x.next[e] = NULL /\ End(x, e) = heap_end(x)
      BY <1>6, <1>8, <1>9
    <3>. QED
      BY <1>8, <3>2, <3>3, <3>4
  <2>3. \A b, c \in x.hdrs : b < c => End(x, b) <= c
    BY <1>2, <1>3, <1>4, <1>8, <1>9, SMTT(60) DEF Tiled
  <2>. QED
    BY <2>1, <2>2, <2>3 DEF Tiled
<1>12. x.first = HEAP_START /\ HEAP_START \in x.hdrs /\ x.next[e] = NULL /\ e \in x.hdrs
  BY <1>8 DEF WF
<1>13. WF(x)
  BY <1>10, <1>11, <1>12 DEF WF
<1>. QED
  BY <1>1, <1>4, <1>13 DEF x, e, t

\* Marking a block free or used moves nothing.
LEMMA MarkWF ==
  ASSUME NEW h, WF(h), NEW b \in h.hdrs, NEW f \in BOOLEAN
  PROVE  /\ WF(Mark(h, b, f))
         /\ Mark(h, b, f).hdrs = h.hdrs
         /\ Mark(h, b, f).pages = h.pages
         /\ Mark(h, b, f).next = h.next
         /\ Mark(h, b, f).size = h.size
         /\ Mark(h, b, f).free = [h.free EXCEPT ![b] = f]
<1> DEFINE x == Mark(h, b, f)
<1>1. HeapType(h) /\ Tiled(h)
  BY DEF WF
<1>2. x = [first |-> h.first, pages |-> h.pages, hdrs |-> h.hdrs, size |-> h.size,
           next |-> h.next, free |-> [h.free EXCEPT ![b] = f]]
  BY <1>1, SMTT(60) DEF Mark, HeapType
<1>3. HeapType(x)
  BY <1>1, <1>2, SMTT(60) DEF HeapType
<1>4. Tiled(x)
  BY <1>1, <1>2, SMTT(60) DEF Tiled, End, heap_end
<1>. QED
  BY <1>2, <1>3, <1>4, SMTT(60) DEF WF

\* Taking a block, whole or split, keeps the list tiled.
LEMMA PlaceWF ==
  ASSUME NEW h, WF(h), NEW b \in h.hdrs, NEW s \in Nat, s <= h.size[b]
  PROVE  WF(Place(h, b, s))
<1> DEFINE n == b + HDR + s
           x == Place(h, b, s)
<1>1. HeapType(h) /\ Tiled(h)
  BY DEF WF
<1>2. \A c \in h.hdrs : /\ c \in Nat \ {0} /\ h.size[c] \in Nat
                        /\ End(h, c) = c + HDR + h.size[c]
                        /\ c + HDR <= End(h, c) /\ End(h, c) <= heap_end(h)
  BY <1>1, HeaderBelowEnd
<1>3. CASE h.size[b] <= s + HDR + SLACK
  BY <1>3, MarkWF DEF Place
<1>4. CASE ~(h.size[b] <= s + HDR + SLACK)
  <2>1. /\ n \in Nat \ {0}
        /\ b + HDR <= n
        /\ n + HDR <= End(h, b)
        /\ h.size[b] - s - HDR \in Nat
    BY <1>2, <1>4, SMTT(60) DEF HDR, SLACK
  <2>2. n \notin h.hdrs
    <3>1. b < n /\ n < End(h, b)
      BY <1>2, <2>1, SMTT(60) DEF HDR
    <3>2. b < n => n \notin h.hdrs \/ End(h, b) <= n
      BY <1>1 DEF Tiled
    <3>3. End(h, b) \in Nat
      BY <1>2, SMTT(60) DEF HDR
    <3> HIDE DEF n
    <3>. QED
      BY <2>1, <3>1, <3>2, <3>3, SMTT(60)
  <2>3. /\ x = [first |-> x.first, pages |-> x.pages, hdrs |-> x.hdrs,
                size |-> x.size, next |-> x.next, free |-> x.free]
        /\ x.first = h.first /\ x.pages = h.pages
        /\ x.hdrs = h.hdrs \cup {n}
        /\ x.size = [c \in h.hdrs \cup {n} |->
                       IF c = n THEN h.size[b] - s - HDR
                       ELSE IF c = b THEN s ELSE h.size[c]]
        /\ x.next = [c \in h.hdrs \cup {n} |->
                       IF c = n THEN h.next[b] ELSE IF c = b THEN n ELSE h.next[c]]
        /\ x.free = [c \in h.hdrs \cup {n} |->
                       IF c = n THEN TRUE ELSE IF c = b THEN FALSE ELSE h.free[c]]
    BY <1>4 DEF Place
  <2> HIDE DEF x, n
  <2>4. HeapType(x)
    <3>1. x.size \in [x.hdrs -> Nat]
      BY <1>1, <2>1, <2>3, SMTT(60) DEF HeapType
    <3>2. x.next \in [x.hdrs -> x.hdrs \cup {NULL}]
      BY <1>1, <2>3, SMTT(60) DEF HeapType
    <3>3. x.free \in [x.hdrs -> BOOLEAN]
      BY <1>1, <2>3 DEF HeapType
    <3>4. x.first \in Nat /\ x.pages \in Nat /\ x.hdrs \subseteq Nat \ {NULL}
      BY <1>1, <2>1, <2>3 DEF HeapType, NULL
    <3>. QED
      BY <2>3, <3>1, <3>2, <3>3, <3>4 DEF HeapType
  <2>5. /\ heap_end(x) = heap_end(h)
        /\ End(x, n) = End(h, b)
        /\ End(x, b) = n
        /\ \A c \in h.hdrs : c # b => End(x, c) = End(h, c)
    BY <1>2, <2>1, <2>2, <2>3, SMTT(60) DEF heap_end, End, HDR, n
  <2>6. Tiled(x)
    <3>1. \A c \in x.hdrs : HEAP_START <= c /\ End(x, c) <= heap_end(x)
      <4>1. \A c \in h.hdrs : HEAP_START <= c /\ End(h, c) <= heap_end(h)
        BY <1>1 DEF Tiled
      <4>2. HEAP_START <= n /\ n <= heap_end(h)
        BY <1>1, <1>2, <2>1, <4>1, HeaderBelowEnd, HeapConstants, SMTT(60) DEF HDR
      <4>. QED
        BY <2>3, <2>5, <4>1, <4>2
    <3>2. \A c \in x.hdrs : x.next[c] = IF End(x, c) = heap_end(x) THEN NULL ELSE End(x, c)
      BY <1>1, <1>2, <2>1, <2>2, <2>3, <2>5, SMTT(60) DEF Tiled, HDR
    <3>3. \A c, d \in x.hdrs : c < d => End(x, c) <= d
      BY <1>1, <1>2, <2>1, <2>2, <2>3, <2>5, SMTT(60) DEF Tiled, HDR
    <3>. QED
      BY <3>1, <3>2, <3>3 DEF Tiled
  <2>7. \E c \in x.hdrs : x.next[c] = NULL
    BY <2>1, <2>2, <2>3, SMTT(60) DEF WF
  <2>8. WF(x)
    BY <2>3, <2>4, <2>6, <2>7 DEF WF
  <2>. QED
    BY <2>8 DEF x
<1>. QED
  BY <1>3, <1>4
\* A next pointer is the end of its block, and no two blocks share one.
LEMMA NextIsEnd ==
  ASSUME NEW h, HeapType(h), Tiled(h), NEW b \in h.hdrs, h.next[b] # NULL
  PROVE  /\ h.next[b] \in h.hdrs
         /\ h.next[b] = End(h, b)
         /\ b < h.next[b]
         /\ HEAP_START # h.next[b]
         /\ \A c \in h.hdrs : h.next[c] = h.next[b] => c = b
<1>1. \A c \in h.hdrs : /\ c \in Nat \ {0} /\ h.size[c] \in Nat
                        /\ End(h, c) = c + HDR + h.size[c]
                        /\ HEAP_START <= c
  BY HeaderBelowEnd DEF Tiled
<1>2. h.next[b] \in h.hdrs /\ h.next[b] = End(h, b)
  BY DEF HeapType, Tiled
<1>3. b < End(h, b) /\ End(h, b) # HEAP_START
  BY <1>1, HeapConstants, SMTT(60) DEF HDR
<1>4. ASSUME NEW c \in h.hdrs, h.next[c] = h.next[b]
      PROVE  c = b
  <2>1. End(h, c) = End(h, b)
    BY <1>2, <1>4 DEF Tiled
  <2>2. ~(c < b) /\ ~(b < c)
    BY <1>1, <2>1, SMTT(60) DEF Tiled, HDR
  <2>. QED
    BY <1>1, <2>2, SMTT(60)
<1>. QED
  BY <1>2, <1>3, <1>4

\* Swallowing the successor keeps the list tiled.
LEMMA MergeWF ==
  ASSUME NEW h, WF(h), NEW b \in h.hdrs, h.next[b] # NULL
  PROVE  WF(Merge(h, b, h.next[b]))
<1> DEFINE n == h.next[b]
           x == Merge(h, b, n)
<1>1. HeapType(h) /\ Tiled(h)
  BY DEF WF
<1>2. \A c \in h.hdrs : /\ c \in Nat \ {0} /\ h.size[c] \in Nat
                        /\ End(h, c) = c + HDR + h.size[c]
                        /\ c + HDR <= End(h, c) /\ End(h, c) <= heap_end(h)
  BY <1>1, HeaderBelowEnd
<1>3. /\ n \in h.hdrs /\ n = End(h, b) /\ b < n /\ n # HEAP_START
      /\ \A c \in h.hdrs : h.next[c] = n => c = b
  BY <1>1, NextIsEnd
<1>4. /\ x = [first |-> x.first, pages |-> x.pages, hdrs |-> x.hdrs,
              size |-> x.size, next |-> x.next, free |-> x.free]
      /\ x.first = h.first /\ x.pages = h.pages
      /\ x.hdrs = h.hdrs \ {n}
      /\ x.size = [c \in h.hdrs \ {n} |->
                     IF c = b THEN h.size[b] + HDR + h.size[n] ELSE h.size[c]]
      /\ x.next = [c \in h.hdrs \ {n} |-> IF c = b THEN h.next[n] ELSE h.next[c]]
      /\ x.free = [c \in h.hdrs \ {n} |-> h.free[c]]
  BY DEF Merge
<1>5. h.next[n] # n
  BY <1>1, <1>2, <1>3, NextIsEnd, SMTT(60)
<1> HIDE DEF x, n
<1>6. HeapType(x)
  <2>1. x.size \in [x.hdrs -> Nat]
    BY <1>2, <1>3, <1>4, SMTT(60) DEF HDR
  <2>2. x.next \in [x.hdrs -> x.hdrs \cup {NULL}]
    BY <1>1, <1>3, <1>4, <1>5, SMTT(60) DEF HeapType
  <2>3. x.free \in [x.hdrs -> BOOLEAN]
    BY <1>1, <1>4 DEF HeapType
  <2>4. x.first \in Nat /\ x.pages \in Nat /\ x.hdrs \subseteq Nat \ {NULL}
    BY <1>1, <1>4 DEF HeapType
  <2>. QED
    BY <1>4, <2>1, <2>2, <2>3, <2>4 DEF HeapType
<1>7. /\ heap_end(x) = heap_end(h)
      /\ End(x, b) = End(h, n)
      /\ \A c \in x.hdrs : c # b => End(x, c) = End(h, c)
  BY <1>2, <1>3, <1>4, SMTT(60) DEF heap_end, End, HDR
<1>8. Tiled(x)
  <2>1. \A c \in x.hdrs : HEAP_START <= c /\ End(x, c) <= heap_end(x)
    BY <1>1, <1>3, <1>4, <1>7 DEF Tiled
  <2>2. \A c \in x.hdrs : x.next[c] = IF End(x, c) = heap_end(x) THEN NULL ELSE End(x, c)
    BY <1>1, <1>3, <1>4, <1>7, SMTT(60) DEF Tiled
  <2>3. ASSUME NEW c \in x.hdrs, NEW d \in x.hdrs, c < d
        PROVE  End(x, c) <= d
    <3>1. CASE c # b
      BY <1>1, <1>4, <1>7, <2>3, <3>1 DEF Tiled
    <3>2. CASE c = b
      <4>1. n <= d
        BY <1>1, <1>3, <1>4, <2>3, <3>2 DEF Tiled
      <4>2. n < d
        BY <1>2, <1>3, <1>4, <4>1, SMTT(60)
      <4>. QED
        BY <1>1, <1>3, <1>4, <1>7, <3>2, <4>2 DEF Tiled
    <3>. QED
      BY <3>1, <3>2
  <2>. QED
    BY <2>1, <2>2, <2>3 DEF Tiled
<1>9. \E c \in x.hdrs : x.next[c] = NULL
  <2>1. PICK t \in h.hdrs : h.next[t] = NULL
    BY DEF WF
  <2>2. CASE t = n
    BY <1>3, <1>4, <2>1, <2>2
  <2>3. CASE t # n
    <3>1. t # b
      BY <2>1
    <3>. QED
      BY <1>4, <2>1, <2>3, <3>1
  <2>. QED
    BY <2>2, <2>3
<1>10. WF(x)
  BY <1>3, <1>4, <1>6, <1>8, <1>9 DEF WF
<1>. QED
  BY <1>10 DEF x, n


-----------------------------------------------------------------------------
(* Which blocks are free, which are owned.                                 *)

\* The block kmalloc appends may follow a free one; no other pair changes.
LEMMA ExtendCoalesced ==
  ASSUME NEW h, WF(h), Coalesced(h), NEW n \in Nat, HDR <= n * PAGE
  PROVE  CoalescedBefore(Extend(h, n), heap_end(h))
<1> DEFINE e == heap_end(h)
           x == Extend(h, n)
           t == tail(h)
<1>1. e \notin h.hdrs /\ t \in h.hdrs /\ h.next[t] = NULL
  BY ExtendWF
<1>2. \A c \in h.hdrs : h.next[c] \in h.hdrs \cup {NULL}
  BY DEF WF, HeapType
<1>3. /\ x.hdrs = h.hdrs \cup {e}
      /\ x.next = [b \in h.hdrs \cup {e} |->
                     IF b = e THEN NULL ELSE IF b = t THEN e ELSE h.next[b]]
      /\ x.free = [b \in h.hdrs \cup {e} |-> IF b = e THEN TRUE ELSE h.free[b]]
  BY DEF Extend
<1> HIDE DEF e, x, t
<1>4. CoalescedBefore(x, e)
  BY <1>1, <1>2, <1>3, SMTT(60) DEF CoalescedBefore, Coalesced
<1>. QED
  BY <1>4 DEF e, x

\* The new block and, after a split, the rest of it have used neighbours.
LEMMA PlaceCoalesced ==
  ASSUME NEW h, WF(h), NEW b \in h.hdrs, NEW s \in Nat, s <= h.size[b],
         h.free[b], CoalescedBefore(h, b)
  PROVE  Coalesced(Place(h, b, s))
<1> DEFINE n == b + HDR + s
           x == Place(h, b, s)
<1>1. HeapType(h) /\ Tiled(h)
  BY DEF WF
<1>2. \A c \in h.hdrs : h.next[c] \in h.hdrs \cup {NULL} /\ h.next[c] # c
  BY <1>1, NextIsEnd, HeaderBelowEnd, SMTT(60) DEF HeapType, NULL
<1>3. CASE h.size[b] <= s + HDR + SLACK
  <2>1. x = Mark(h, b, FALSE)
    BY <1>3 DEF Place
  <2> HIDE DEF x
  <2>2. x.hdrs = h.hdrs /\ x.next = h.next /\ x.free = [h.free EXCEPT ![b] = FALSE]
    BY <2>1, MarkWF
  <2>3. h.free \in [h.hdrs -> BOOLEAN]
    BY <1>1 DEF HeapType
  <2>4. Coalesced(x)
    BY <1>2, <2>2, <2>3, SMTT(60) DEF Coalesced, CoalescedBefore
  <2>. QED
    BY <2>4 DEF x
<1>4. CASE ~(h.size[b] <= s + HDR + SLACK)
  <2>1. n \notin h.hdrs
    <3>1. /\ b \in Nat /\ h.size[b] \in Nat /\ End(h, b) = b + HDR + h.size[b]
      BY <1>1, HeaderBelowEnd
    <3>2. b < n /\ n < End(h, b)
      BY <1>4, <3>1, SMTT(60) DEF HDR, SLACK
    <3>3. b < n => n \notin h.hdrs \/ End(h, b) <= n
      BY <1>1 DEF Tiled
    <3>4. n \in Nat /\ End(h, b) \in Nat
      BY <3>1, SMTT(60) DEF HDR
    <3> HIDE DEF n
    <3>. QED
      BY <3>2, <3>3, <3>4, SMTT(60)
  <2>2. /\ x.hdrs = h.hdrs \cup {n}
        /\ x.next = [c \in h.hdrs \cup {n} |->
                       IF c = n THEN h.next[b] ELSE IF c = b THEN n ELSE h.next[c]]
        /\ x.free = [c \in h.hdrs \cup {n} |->
                       IF c = n THEN TRUE ELSE IF c = b THEN FALSE ELSE h.free[c]]
    BY <1>4 DEF Place
  <2> HIDE DEF n, x
  <2>3. \A c \in h.hdrs : c # b /\ x.free[c] /\ x.next[c] # NULL => ~x.free[x.next[c]]
    BY <1>2, <2>1, <2>2, SMTT(60) DEF CoalescedBefore
  <2>4. ~x.free[b]
    BY <2>1, <2>2
  <2>5. x.next[n] # NULL => ~x.free[x.next[n]]
    BY <1>2, <2>1, <2>2, SMTT(60) DEF CoalescedBefore
  <2>6. Coalesced(x)
    BY <2>2, <2>3, <2>4, <2>5 DEF Coalesced
  <2>. QED
    BY <2>6 DEF x
<1>. QED
  BY <1>3, <1>4

\* kfree on block b: after the merge with the successor only the pair that
\* ends at b may still be free.
LEMMA MergeNextOK ==
  ASSUME NEW h, WF(h), Coalesced(h), NEW b \in h.hdrs
  PROVE  LET m == MergeNext(Mark(h, b, TRUE), b)
         IN  WF(m) /\ b \in m.hdrs /\ m.free[b] /\ CoalescedBefore(m, b)
<1> DEFINE r == Mark(h, b, TRUE)
           n == r.next[b]
           x == Merge(r, b, n)
<1>1. WF(r) /\ r.hdrs = h.hdrs /\ r.next = h.next /\ r.free = [h.free EXCEPT ![b] = TRUE]
  BY MarkWF
<1>2. HeapType(h) /\ Tiled(h) /\ HeapType(r) /\ Tiled(r)
  BY <1>1 DEF WF
<1>3. \A c \in h.hdrs : h.next[c] \in h.hdrs \cup {NULL} /\ h.next[c] # c
  BY <1>2, NextIsEnd, HeaderBelowEnd, SMTT(60) DEF HeapType, NULL
<1>4. h.free \in [h.hdrs -> BOOLEAN]
  BY <1>2 DEF HeapType
<1> HIDE DEF r
<1>5. CASE n # NULL /\ r.free[n]
  <2>1. MergeNext(r, b) = x
    BY <1>5 DEF MergeNext
  <2>2. WF(x)
    BY <1>1, <1>5, MergeWF
  <2>3. /\ x.hdrs = r.hdrs \ {n}
        /\ x.next = [c \in r.hdrs \ {n} |-> IF c = b THEN r.next[n] ELSE r.next[c]]
        /\ x.free = [c \in r.hdrs \ {n} |-> r.free[c]]
    BY DEF Merge
  <2>4. /\ n \in r.hdrs /\ n # b
        /\ \A c \in r.hdrs : r.next[c] = n => c = b
    BY <1>1, <1>2, <1>3, <1>5, NextIsEnd
  <2> HIDE DEF x, n
  <2>5. h.free[n]
    BY <1>1, <1>4, <1>5, <2>4
  <2>6. r.next[n] # NULL /\ r.next[n] # b => ~r.free[r.next[n]]
    BY <1>1, <1>3, <1>4, <2>4, <2>5, SMTT(60) DEF Coalesced
  <2>7. ASSUME NEW c \in x.hdrs, x.free[c], x.next[c] # NULL, x.next[c] # b
        PROVE  ~x.free[x.next[c]]
    <3>1. CASE c = b
      BY <1>1, <1>3, <2>3, <2>4, <2>6, <2>7, <3>1, SMTT(60)
    <3>2. CASE c # b
      <4>1. r.next[c] \in x.hdrs /\ x.next[c] = r.next[c]
        BY <1>1, <1>3, <2>3, <2>4, <2>7, <3>2, SMTT(60)
      <4>2. h.free[c] /\ ~h.free[h.next[c]]
        BY <1>1, <1>4, <2>3, <2>7, <3>2, <4>1, SMTT(60) DEF Coalesced
      <4>. QED
        BY <1>1, <1>4, <2>3, <2>7, <4>1, <4>2, SMTT(60)
    <3>. QED
      BY <3>1, <3>2
  <2>8. b \in x.hdrs /\ x.free[b]
    BY <1>1, <1>4, <2>3, <2>4
  <2>. QED
    BY <2>1, <2>2, <2>7, <2>8 DEF CoalescedBefore, r
<1>6. CASE ~(n # NULL /\ r.free[n])
  <2>1. MergeNext(r, b) = r
    BY <1>6 DEF MergeNext
  <2>2. CoalescedBefore(r, b)
    BY <1>1, <1>3, <1>4, <1>6, SMTT(60) DEF Coalesced, CoalescedBefore
  <2>3. r.free[b]
    BY <1>1, <1>4
  <2>. QED
    BY <1>1, <2>1, <2>2, <2>3 DEF r
<1>. QED
  BY <1>5, <1>6
\* The merge with the predecessor leaves no two neighbours free.
LEMMA MergePrevOK ==
  ASSUME NEW m, WF(m), NEW b \in m.hdrs, m.free[b], CoalescedBefore(m, b)
  PROVE  WF(MergePrev(m, b)) /\ Coalesced(MergePrev(m, b))
<1> DEFINE p == CHOOSE q \in Preds(m, b) : TRUE
           x == Merge(m, p, b)
<1>1. HeapType(m) /\ Tiled(m)
  BY DEF WF
<1>2. \A c \in m.hdrs : m.next[c] \in m.hdrs \cup {NULL} /\ m.next[c] # c
  BY <1>1, NextIsEnd, HeaderBelowEnd, SMTT(60) DEF HeapType, NULL
<1>3. b # NULL
  BY <1>1 DEF HeapType
<1>4. CASE Preds(m, b) = {}
  <2>1. MergePrev(m, b) = m
    BY <1>4 DEF MergePrev
  <2>2. Coalesced(m)
    BY <1>4 DEF Preds, CoalescedBefore, Coalesced
  <2>. QED
    BY <2>1, <2>2
<1>5. CASE Preds(m, b) # {}
  <2>1. p \in m.hdrs /\ m.next[p] = b
    BY <1>5 DEF Preds
  <2>2. \A c \in m.hdrs : m.next[c] = b => c = p
    BY <1>1, <1>3, <2>1, NextIsEnd
  <2>3. MergePrev(m, b) = IF m.free[p] THEN x ELSE m
    BY <1>5, SMTT(60) DEF MergePrev
  <2>4. CASE ~m.free[p]
    <3>1. Coalesced(m)
      BY <2>2, <2>4 DEF Coalesced, CoalescedBefore
    <3>. QED
      BY <2>3, <2>4, <3>1
  <2>5. CASE m.free[p]
    <3>1. WF(x)
      BY <1>3, <2>1, MergeWF
    <3>2. /\ x.hdrs = m.hdrs \ {b}
          /\ x.next = [c \in m.hdrs \ {b} |-> IF c = p THEN m.next[b] ELSE m.next[c]]
          /\ x.free = [c \in m.hdrs \ {b} |-> m.free[c]]
      BY DEF Merge
    <3>3. Coalesced(x)
      <4> HIDE DEF x, p
      <4>1. m.next[b] # NULL => m.next[b] \in x.hdrs /\ ~m.free[m.next[b]]
        BY <1>2, <3>2 DEF CoalescedBefore
      <4>2. ASSUME NEW c \in x.hdrs, x.free[c], x.next[c] # NULL
            PROVE  ~x.free[x.next[c]]
        <5>1. CASE c = p
          BY <3>2, <4>1, <4>2, <5>1
        <5>2. CASE c # p
          <6>1. x.next[c] = m.next[c] /\ m.next[c] # b /\ m.next[c] \in m.hdrs
            BY <1>2, <2>2, <3>2, <4>2, <5>2, SMTT(60)
          <6>. QED
            BY <3>2, <4>2, <6>1 DEF CoalescedBefore
        <5>. QED
          BY <5>1, <5>2
      <4>. QED
        BY <4>2 DEF Coalesced
    <3>. QED
      BY <2>3, <2>5, <3>1, <3>3
  <2>. QED
    BY <2>4, <2>5
<1>. QED
  BY <1>4, <1>5

\* A merge of two free blocks takes nothing from an owner.
LEMMA MergeOwned ==
  ASSUME NEW h, HeapType(h), NEW l, Owned(h, l),
         NEW b \in h.hdrs, NEW n \in h.hdrs, h.free[b], h.free[n]
  PROVE  /\ Owned(Merge(h, b, n), l)
         /\ \A p \in DOMAIN l : Merge(h, b, n).size[p - HDR] = h.size[p - HDR]
<1> DEFINE x == Merge(h, b, n)
<1>1. /\ x.hdrs = h.hdrs \ {n}
      /\ x.size = [c \in h.hdrs \ {n} |->
                     IF c = b THEN h.size[b] + HDR + h.size[n] ELSE h.size[c]]
      /\ x.free = [c \in h.hdrs \ {n} |-> h.free[c]]
  BY DEF Merge
<1> HIDE DEF x
<1>2. Owned(x, l) /\ \A p \in DOMAIN l : x.size[p - HDR] = h.size[p - HDR]
  BY <1>1, SMTT(60) DEF Owned
<1>. QED
  BY <1>2 DEF x

\* Taking a free block for a pointer that holds req bytes.
LEMMA PlaceOwned ==
  ASSUME NEW h, WF(h), NEW l, Owned(h, l), DOMAIN l \subseteq Nat,
         NEW b \in h.hdrs, h.free[b],
         NEW s \in Nat, s <= h.size[b], NEW req \in Nat, req <= s
  PROVE  /\ Owned(Place(h, b, s),
                  [p \in DOMAIN l \cup {b + HDR} |-> IF p = b + HDR THEN req ELSE l[p]])
         /\ b + HDR \notin DOMAIN l
         /\ \A p \in DOMAIN l : Place(h, b, s).size[p - HDR] = h.size[p - HDR]
<1> DEFINE n == b + HDR + s
           x == Place(h, b, s)
           k == [p \in DOMAIN l \cup {b + HDR} |-> IF p = b + HDR THEN req ELSE l[p]]
<1>1. HeapType(h) /\ Tiled(h)
  BY DEF WF
<1>2. \A c \in h.hdrs : c \in Nat /\ h.size[c] \in Nat /\ h.free[c] \in BOOLEAN
  BY <1>1 DEF HeapType
<1>3. b + HDR \notin DOMAIN l /\ \A p \in DOMAIN l : p - HDR # b
  <2>1. \A p \in DOMAIN l : p \in Nat /\ p - HDR # b
    BY DEF Owned
  <2>. QED
    BY <1>2, <2>1, SMTT(60) DEF HDR
<1>4. CASE h.size[b] <= s + HDR + SLACK
  <2>1. x = Mark(h, b, FALSE)
    BY <1>4 DEF Place
  <2> HIDE DEF x
  <2>2. x.hdrs = h.hdrs /\ x.size = h.size /\ x.free = [h.free EXCEPT ![b] = FALSE]
    BY <2>1, MarkWF
  <2>3. \A c \in h.hdrs : c # b => x.free[c] = h.free[c]
    BY <1>1, <2>2 DEF HeapType
  <2>4. ~x.free[b]
    BY <1>1, <2>2 DEF HeapType
  <2>5. (b + HDR) - HDR = b
    BY <1>2, SMTT(60) DEF HDR
  <2>6. ASSUME NEW p \in DOMAIN k
        PROVE  p - HDR \in x.hdrs /\ ~x.free[p - HDR] /\ k[p] <= x.size[p - HDR]
    <3>1. CASE p = b + HDR
      <4>1. k[p] = req
        BY <2>6, <3>1
      <4>2. p - HDR = b
        BY <2>5, <3>1
      <4>. QED
        BY <1>2, <2>2, <2>4, <4>1, <4>2, SMTT(60)
    <3>2. CASE p # b + HDR
      <4>1. p \in DOMAIN l /\ k[p] = l[p]
        BY <2>6, <3>2
      <4>. QED
        BY <1>3, <2>2, <2>3, <4>1 DEF Owned
    <3>. QED
      BY <3>1, <3>2
  <2>7. \A c \in x.hdrs : ~x.free[c] => c + HDR \in DOMAIN k
    BY <2>2, <2>3 DEF Owned
  <2>8. Owned(x, k)
    BY <2>6, <2>7 DEF Owned
  <2>. QED
    BY <1>3, <2>2, <2>8 DEF x
<1>5. CASE ~(h.size[b] <= s + HDR + SLACK)
  <2>1. n \notin h.hdrs
    <3>1. /\ b \in Nat /\ h.size[b] \in Nat /\ End(h, b) = b + HDR + h.size[b]
      BY <1>1, HeaderBelowEnd
    <3>2. b < n /\ n < End(h, b)
      BY <1>5, <3>1, SMTT(60) DEF HDR, SLACK
    <3>3. b < n => n \notin h.hdrs \/ End(h, b) <= n
      BY <1>1 DEF Tiled
    <3>4. n \in Nat /\ End(h, b) \in Nat
      BY <3>1, SMTT(60) DEF HDR
    <3> HIDE DEF n
    <3>. QED
      BY <3>2, <3>3, <3>4, SMTT(60)
  <2>2. /\ x.hdrs = h.hdrs \cup {n}
        /\ x.size = [c \in h.hdrs \cup {n} |->
                       IF c = n THEN h.size[b] - s - HDR
                       ELSE IF c = b THEN s ELSE h.size[c]]
        /\ x.free = [c \in h.hdrs \cup {n} |->
                       IF c = n THEN TRUE ELSE IF c = b THEN FALSE ELSE h.free[c]]
    BY <1>5 DEF Place
  <2> HIDE DEF n, x
  <2>3. \A c \in h.hdrs : c # b => x.free[c] = h.free[c] /\ x.size[c] = h.size[c]
    <3>1. \A c \in h.hdrs : c # b => x.size[c] = h.size[c]
      BY <2>1, <2>2, SMTT(60)
    <3>2. \A c \in h.hdrs : c # b => x.free[c] = h.free[c]
      BY <2>1, <2>2
    <3>. QED
      BY <3>1, <3>2
  <2>4. ~x.free[b] /\ x.size[b] = s /\ x.free[n]
    BY <2>1, <2>2
  <2>5. (b + HDR) - HDR = b
    BY <1>2, SMTT(60) DEF HDR
  <2>6. ASSUME NEW p \in DOMAIN k
        PROVE  p - HDR \in x.hdrs /\ ~x.free[p - HDR] /\ k[p] <= x.size[p - HDR]
    <3>1. CASE p = b + HDR
      <4>1. k[p] = req
        BY <2>6, <3>1
      <4>2. p - HDR = b
        BY <2>5, <3>1
      <4>. QED
        BY <2>2, <2>4, <4>1, <4>2
    <3>2. CASE p # b + HDR
      <4>1. p \in DOMAIN l /\ k[p] = l[p]
        BY <2>6, <3>2
      <4>. QED
        BY <1>3, <2>2, <2>3, <4>1 DEF Owned
    <3>. QED
      BY <3>1, <3>2
  <2>7. \A c \in x.hdrs : ~x.free[c] => c + HDR \in DOMAIN k
    BY <2>2, <2>3, <2>4 DEF Owned
  <2>8. Owned(x, k)
    BY <2>6, <2>7 DEF Owned
  <2>9. \A p \in DOMAIN l : x.size[p - HDR] = h.size[p - HDR]
    BY <1>3, <2>3 DEF Owned
  <2>. QED
    BY <1>3, <2>8, <2>9 DEF x
<1>. QED
  BY <1>4, <1>5
-----------------------------------------------------------------------------
(* The inductive invariant: every invariant of Heap but LiveDisjoint,      *)
(* which follows from it.                                                  *)

IInv == TypeOK /\ HeapTiled /\ NoAdjacentFree /\ LiveSafe /\ HeapBacked

\* n iterations of the mapping loop give every page its own fresh frame.
LEMMA MappedFresh ==
  ASSUME NEW m, NEW p \in Nat, NEW n \in Nat, NEW f \in Nat,
         m \in [DOMAIN m -> 0 .. (f - 1)], DOMAIN m \subseteq Nat,
         \A j, k \in DOMAIN m : m[j] = m[k] => j = k
  PROVE  LET x == Mapped(m, p, n, f)
         IN  /\ DOMAIN x = DOMAIN m \cup p .. (p + n - 1)
             /\ x \in [DOMAIN x -> 0 .. (f + n - 1)]
             /\ DOMAIN x \subseteq Nat
             /\ \A j, k \in DOMAIN x : x[j] = x[k] => j = k
<1> DEFINE x == Mapped(m, p, n, f)
           D == DOMAIN m \cup p .. (p + n - 1)
<1>1. /\ DOMAIN x = D
      /\ x = [k \in D |-> IF k \in p .. (p + n - 1) THEN f + (k - p) ELSE m[k]]
  BY DEF Mapped
<1>2. D \subseteq Nat
  BY SMTT(60)
<1>3. \A k \in D : \/ k \in p .. (p + n - 1) /\ x[k] = f + (k - p)
                   \/ k \in DOMAIN m /\ k \notin p .. (p + n - 1) /\ x[k] = m[k]
  BY <1>1
<1> HIDE DEF x, D
<1>4. \A k \in D : x[k] \in 0 .. (f + n - 1)
  BY <1>2, <1>3, SMTT(60)
<1>5. ASSUME NEW j \in D, NEW k \in D, x[j] = x[k]
      PROVE  j = k
  BY <1>2, <1>3, <1>5, SMTT(60)
<1>6. x \in [D -> 0 .. (f + n - 1)]
  BY <1>1, <1>4
<1>. QED
  BY <1>1, <1>2, <1>5, <1>6 DEF x, D

\* What a kmalloc searches is a well-formed list owned by the live pointers,
\* initialised by this call or before.
LEMMA InitialisedOK ==
  ASSUME IInv
  PROVE  LET h == Initialised(heap)
         IN  /\ WF(h) /\ Coalesced(h) /\ Owned(h, live)
             /\ h.pages = heap.pages + InitPages
             /\ InitPages \in Nat
             /\ \A p \in DOMAIN live : h.size[p - HDR] = heap.size[p - HDR]
<1>1. CASE heap.first = NULL
  <2>1. Initialised(heap) = InitialHeap /\ heap.pages = 0 /\ InitPages = INIT_PAGES
    BY <1>1 DEF Initialised, IInv, HeapTiled, InitPages
  <2>2. DOMAIN live = {}
    BY <1>1 DEF IInv, HeapTiled, LiveSafe, Owned
  <2>3. Owned(InitialHeap, live)
    BY <2>2 DEF Owned, InitialHeap
  <2>4. InitialHeap.pages = INIT_PAGES
    BY DEF InitialHeap
  <2>. QED
    BY <2>1, <2>2, <2>3, <2>4, InitialHeapWF, HeapConstants, SMTT(60)
<1>2. CASE heap.first # NULL
  <2>1. Initialised(heap) = heap /\ InitPages = 0
    BY <1>2 DEF Initialised, InitPages
  <2>2. heap.pages \in Nat
    BY DEF IInv, TypeOK, HeapType
  <2>. QED
    BY <1>2, <2>1, <2>2, SMTT(60) DEF IInv, TypeOK, HeapTiled, NoAdjacentFree, LiveSafe, WF
<1>. QED
  BY <1>1, <1>2

INSTANCE WellFoundedInduction

\* Natural numbers have minima.
LEMMA NatMin ==
  ASSUME NEW T \in SUBSET Nat, T # {}
  PROVE  \E x \in T : \A y \in T : x <= y
<1>1. PICK x \in T : \A y \in T : ~(<<y, x>> \in OpToRel(<, Nat))
  BY NatLessThanWellFounded, WFMin
<1>2. \A y \in T : ~(y < x)
  BY <1>1 DEF OpToRel
<1>. QED
  BY <1>2, SMTT(60)

\* The walk for the best fit finds one of the candidates, if there is one.
LEMMA BestFitIsCandidate ==
  ASSUME NEW h, HeapType(h), NEW s \in Nat, Candidates(h, s) # {}
  PROVE  best_fit(h, s) \in Candidates(h, s)
<1> DEFINE C == Candidates(h, s)
           T == {h.size[b] : b \in C}
<1>1. \A b \in C : b \in Nat /\ h.size[b] \in Nat
  BY DEF Candidates, HeapType
<1>2. PICK z \in T : \A y \in T : z <= y
  <2>1. T \in SUBSET Nat /\ T # {}
    BY <1>1
  <2>. QED
    BY <2>1, NatMin
<1> DEFINE U == {b \in C : h.size[b] = z}
<1>3. PICK b \in U : \A c \in U : b <= c
  <2>1. U \in SUBSET Nat /\ U # {}
    BY <1>1, <1>2
  <2>. QED
    BY <2>1, NatMin
<1>4. b \in C /\ \A c \in C : h.size[b] < h.size[c] \/ (h.size[b] = h.size[c] /\ b <= c)
  <2>1. b \in C /\ h.size[b] = z
    BY <1>3
  <2>2. ASSUME NEW c \in C
        PROVE  h.size[b] < h.size[c] \/ (h.size[b] = h.size[c] /\ b <= c)
    <3>1. z <= h.size[c] /\ z \in Nat
      BY <1>1, <1>2
    <3>2. CASE h.size[c] = z
      BY <1>3, <2>1, <3>2
    <3>3. CASE h.size[c] # z
      BY <1>1, <2>1, <3>1, <3>3, SMTT(60)
    <3>. QED
      BY <3>2, <3>3
  <2>. QED
    BY <2>1, <2>2
<1>. QED
  BY <1>4 DEF best_fit

\* The last phase of kmalloc: the block is taken and its payload returned.
LEMMA ReturnOK ==
  ASSUME NEW h, WF(h), Owned(h, live),
         live \in [DOMAIN live -> Requests], DOMAIN live \subseteq Nat,
         NEW b \in h.hdrs, h.free[b], CoalescedBefore(h, b),
         NEW req \in Requests, AlignUp(req) <= h.size[b],
         Return(h, b, req)
  PROVE  /\ WF(heap') /\ Coalesced(heap') /\ Owned(heap', live')
         /\ heap'.pages = h.pages
         /\ live' \in [DOMAIN live' -> Requests] /\ DOMAIN live' \subseteq Nat
         /\ \A p \in DOMAIN live : heap'.size[p - HDR] = h.size[p - HDR]
<1> DEFINE s == AlignUp(req)
<1>1. s \in Nat /\ req \in Nat /\ req <= s
  BY AlignUpGrows, HeapConstants
<1>2. heap' = Place(h, b, s)
  BY DEF Return
<1>3. live' = [p \in DOMAIN live \cup {b + HDR} |->
                 IF p = b + HDR THEN req ELSE live[p]]
  BY DEF Return
<1> HIDE DEF s
<1>4. WF(heap') /\ Coalesced(heap')
  BY <1>1, <1>2, PlaceWF, PlaceCoalesced DEF s
<1>5. /\ Owned(heap', live')
      /\ \A p \in DOMAIN live : heap'.size[p - HDR] = h.size[p - HDR]
  BY <1>1, <1>2, <1>3, PlaceOwned, SMTT(60) DEF s
<1>6. heap'.pages = h.pages
  <2>1. CASE h.size[b] <= s + HDR + SLACK
    BY <1>2, <2>1, MarkWF DEF Place
  <2>2. CASE ~(h.size[b] <= s + HDR + SLACK)
    BY <1>2, <2>2 DEF Place
  <2>. QED
    BY <2>1, <2>2
<1>7. b + HDR \in Nat
  BY SMTT(60) DEF WF, HeapType, HDR
<1>8. live' \in [DOMAIN live' -> Requests] /\ DOMAIN live' \subseteq Nat
  BY <1>3, <1>7
<1>. QED
  BY <1>4, <1>5, <1>6, <1>8

\* The pages a call maps are taken from the bump pointer.
LEMMA PtesOK ==
  ASSUME IInv, NEW n \in Nat,
         ptes' = Mapped(ptes, heap.pages, n, next_free_page),
         NEW f \in n .. (MaxFrames - next_free_page), next_free_page' = next_free_page + f
  PROVE  /\ ptes' \in [DOMAIN ptes' -> 0 .. (next_free_page' - 1)]
         /\ DOMAIN ptes' \subseteq Nat
         /\ next_free_page' \in 0 .. MaxFrames
         /\ 0 .. (heap.pages + n - 1) \subseteq DOMAIN ptes'
         /\ \A j, k \in DOMAIN ptes' : ptes'[j] = ptes'[k] => j = k
<1>1. /\ heap.pages \in Nat /\ next_free_page \in Nat /\ MaxFrames \in Nat
      /\ ptes \in [DOMAIN ptes -> 0 .. (next_free_page - 1)] /\ DOMAIN ptes \subseteq Nat
      /\ \A j, k \in DOMAIN ptes : ptes[j] = ptes[k] => j = k
      /\ 0 .. (heap.pages - 1) \subseteq DOMAIN ptes
  BY HeapConstants, SMTT(60) DEF IInv, TypeOK, HeapType, HeapBacked
<1>2. /\ DOMAIN ptes' = DOMAIN ptes \cup heap.pages .. (heap.pages + n - 1)
      /\ ptes' \in [DOMAIN ptes' -> 0 .. (next_free_page + n - 1)]
      /\ DOMAIN ptes' \subseteq Nat
      /\ \A j, k \in DOMAIN ptes' : ptes'[j] = ptes'[k] => j = k
  <2> DEFINE x == Mapped(ptes, heap.pages, n, next_free_page)
  <2>1. /\ DOMAIN x = DOMAIN ptes \cup heap.pages .. (heap.pages + n - 1)
        /\ x \in [DOMAIN x -> 0 .. (next_free_page + n - 1)]
        /\ DOMAIN x \subseteq Nat
        /\ \A j, k \in DOMAIN x : x[j] = x[k] => j = k
    <3> HIDE DEF x
    <3>. QED
      BY <1>1, MappedFresh DEF x
  <2>2. ptes' = x
    OBVIOUS
  <2> HIDE DEF x
  <2>. QED
    BY <2>1, <2>2
<1>3. 0 .. (next_free_page + n - 1) \subseteq 0 .. (next_free_page' - 1)
  BY <1>1, SMTT(60)
<1>4. ptes' \in [DOMAIN ptes' -> 0 .. (next_free_page' - 1)]
  BY <1>2, <1>3
<1>. QED
  BY <1>1, <1>2, <1>4, SMTT(60)

\* One step keeps the invariant and the size of every block that stays live.
LEMMA StepOK ==
  ASSUME IInv, Next
  PROVE  /\ IInv'
         /\ \A p \in DOMAIN live \cap DOMAIN live' :
              heap'.size[p - HDR] = heap.size[p - HDR]
<1> DEFINE H == Initialised(heap)
<1>1. /\ WF(H) /\ Coalesced(H) /\ Owned(H, live)
      /\ H.pages = heap.pages + InitPages
      /\ InitPages \in Nat
      /\ \A p \in DOMAIN live : H.size[p - HDR] = heap.size[p - HDR]
  BY InitialisedOK
<1>2. /\ live \in [DOMAIN live -> Requests] /\ DOMAIN live \subseteq Nat
      /\ next_free_page \in Nat /\ heap.pages \in Nat
  BY HeapConstants, SMTT(60) DEF IInv, TypeOK, HeapType
<1>3. HeapType(H)
  BY <1>1 DEF WF
<1> HIDE DEF H
<1>4. ASSUME NEW req \in Requests, KmallocFit(req)
      PROVE  /\ IInv'
             /\ \A p \in DOMAIN live : heap'.size[p - HDR] = heap.size[p - HDR]
  <2> DEFINE s == AlignUp(req)
             b == best_fit(H, s)
  <2>1. s \in Nat
    BY AlignUpGrows, HeapConstants
  <2>2. b \in Candidates(H, s)
    BY <1>3, <1>4, <2>1, BestFitIsCandidate DEF KmallocFit, H
  <2>3. b \in H.hdrs /\ H.free[b] /\ s <= H.size[b]
    BY <1>3, <2>1, <2>2 DEF Candidates, HeapType
  <2>4. CoalescedBefore(H, b)
    BY <1>1 DEF Coalesced, CoalescedBefore
  <2>5. Return(H, b, req)
    BY <1>4 DEF KmallocFit, H
  <2>6. /\ WF(heap') /\ Coalesced(heap') /\ Owned(heap', live')
        /\ heap'.pages = H.pages
        /\ live' \in [DOMAIN live' -> Requests] /\ DOMAIN live' \subseteq Nat
        /\ \A p \in DOMAIN live : heap'.size[p - HDR] = H.size[p - HDR]
    BY <1>1, <1>2, <2>3, <2>4, <2>5, ReturnOK
  <2>7. /\ next_free_page + InitPages <= MaxFrames
        /\ ptes' = Mapped(ptes, heap.pages, InitPages, next_free_page)
        /\ next_free_page' = next_free_page + InitPages
    BY <1>4 DEF KmallocFit, MapLoopDone
  <2>8. InitPages \in InitPages .. (MaxFrames - next_free_page)
    BY <1>1, <1>2, <2>7, HeapConstants, SMTT(60)
  <2>9. /\ ptes' \in [DOMAIN ptes' -> 0 .. (next_free_page' - 1)]
        /\ DOMAIN ptes' \subseteq Nat
        /\ next_free_page' \in 0 .. MaxFrames
        /\ 0 .. (heap.pages + InitPages - 1) \subseteq DOMAIN ptes'
        /\ \A j, k \in DOMAIN ptes' : ptes'[j] = ptes'[k] => j = k
    BY <1>1, <2>7, <2>8, PtesOK
  <2>10. IInv'
    <3>1. TypeOK'
      BY <2>6, <2>9 DEF TypeOK, WF
    <3>2. HeapTiled' /\ NoAdjacentFree' /\ LiveSafe'
      BY <2>6, HeapConstants DEF HeapTiled, NoAdjacentFree, LiveSafe, WF, NULL
    <3>3. HeapBacked'
      <4>1. 0 .. (heap'.pages - 1) \subseteq DOMAIN ptes'
        BY <1>1, <1>2, <2>6, <2>9, SMTT(60)
      <4>. QED
        BY <2>9, <4>1 DEF HeapBacked
    <3>. QED
      BY <3>1, <3>2, <3>3 DEF IInv
  <2>. QED
    BY <1>1, <2>6, <2>10
<1>5. ASSUME NEW req \in Requests, KmallocExtend(req)
      PROVE  /\ IInv'
             /\ \A p \in DOMAIN live : heap'.size[p - HDR] = heap.size[p - HDR]
  <2> DEFINE s == AlignUp(req)
             n == pages_needed(s)
             e == heap_end(H)
             X == Extend(H, n)
  <2>1. s \in Nat
    BY AlignUpGrows, HeapConstants
  <2>2. n \in Nat \ {0} /\ HDR + s <= n * PAGE /\ n * PAGE \in Nat
    BY <2>1, PagesNeededSuffice, HeapEndMoves
  <2>3. HDR <= n * PAGE
    BY <2>1, <2>2, SMTT(60) DEF HDR
  <2>4. WF(X) /\ e \notin H.hdrs
    BY <1>1, <2>2, <2>3, ExtendWF
  <2>5. CoalescedBefore(X, e)
    BY <1>1, <2>2, <2>3, ExtendCoalesced
  <2>6. /\ X.pages = H.pages + n /\ X.hdrs = H.hdrs \cup {e}
        /\ X.size = [c \in H.hdrs \cup {e} |-> IF c = e THEN n * PAGE - HDR ELSE H.size[c]]
        /\ X.free = [c \in H.hdrs \cup {e} |-> IF c = e THEN TRUE ELSE H.free[c]]
    BY DEF Extend
  <2>7. Return(X, e, req) /\ MapLoopDone(heap.pages, InitPages + n)
    BY <1>5 DEF KmallocExtend, H
  <2> HIDE DEF s, n, e, X
  <2>8. Owned(X, live) /\ \A p \in DOMAIN live : X.size[p - HDR] = H.size[p - HDR]
    BY <1>1, <2>4, <2>6 DEF Owned
  <2>9. e \in X.hdrs /\ X.free[e] /\ s <= X.size[e]
    BY <2>1, <2>2, <2>6, SMTT(60) DEF HDR
  <2>10. /\ WF(heap') /\ Coalesced(heap') /\ Owned(heap', live')
         /\ heap'.pages = X.pages
         /\ live' \in [DOMAIN live' -> Requests] /\ DOMAIN live' \subseteq Nat
         /\ \A p \in DOMAIN live : heap'.size[p - HDR] = X.size[p - HDR]
    BY <1>2, <2>4, <2>5, <2>7, <2>8, <2>9, ReturnOK DEF s
  <2>11. /\ next_free_page + (InitPages + n) <= MaxFrames
         /\ ptes' = Mapped(ptes, heap.pages, InitPages + n, next_free_page)
         /\ next_free_page' = next_free_page + (InitPages + n)
    BY <2>7 DEF MapLoopDone
  <2>12. InitPages + n \in (InitPages + n) .. (MaxFrames - next_free_page) /\ InitPages + n \in Nat
    BY <1>1, <1>2, <2>2, <2>11, HeapConstants, SMTT(60)
  <2>13. /\ ptes' \in [DOMAIN ptes' -> 0 .. (next_free_page' - 1)]
         /\ DOMAIN ptes' \subseteq Nat
         /\ next_free_page' \in 0 .. MaxFrames
         /\ 0 .. (heap.pages + (InitPages + n) - 1) \subseteq DOMAIN ptes'
         /\ \A j, k \in DOMAIN ptes' : ptes'[j] = ptes'[k] => j = k
    BY <2>11, <2>12, PtesOK
  <2>14. heap'.pages = heap.pages + (InitPages + n)
    BY <1>1, <1>2, <2>2, <2>6, <2>10, SMTT(60)
  <2>15. IInv'
    <3>1. TypeOK'
      BY <2>10, <2>13 DEF TypeOK, WF
    <3>2. HeapTiled' /\ NoAdjacentFree' /\ LiveSafe'
      BY <2>10, HeapConstants DEF HeapTiled, NoAdjacentFree, LiveSafe, WF, NULL
    <3>3. HeapBacked'
      <4>1. 0 .. (heap'.pages - 1) \subseteq DOMAIN ptes'
        BY <1>1, <1>2, <2>2, <2>13, <2>14, SMTT(60)
      <4>. QED
        BY <2>13, <4>1 DEF HeapBacked
    <3>. QED
      BY <3>1, <3>2, <3>3 DEF IInv
  <2>. QED
    BY <1>1, <2>8, <2>10, <2>15
<1>6. ASSUME NEW req \in Requests, KmallocInitFails(req)
      PROVE  IInv' /\ heap' = heap
  <2>1. PICK k \in 1 .. INIT_PAGES :
          /\ next_free_page + k <= MaxFrames
          /\ ptes' = Mapped(ptes, heap.pages, k - 1, next_free_page)
          /\ next_free_page' = next_free_page + k
    BY <1>6 DEF KmallocInitFails, MapLoopFails
  <2>2. k - 1 \in Nat /\ k \in (k - 1) .. (MaxFrames - next_free_page)
    BY <1>2, <2>1, HeapConstants, SMTT(60)
  <2>3. /\ ptes' \in [DOMAIN ptes' -> 0 .. (next_free_page' - 1)]
        /\ DOMAIN ptes' \subseteq Nat
        /\ next_free_page' \in 0 .. MaxFrames
        /\ 0 .. (heap.pages + (k - 1) - 1) \subseteq DOMAIN ptes'
        /\ \A i, j \in DOMAIN ptes' : ptes'[i] = ptes'[j] => i = j
    BY <2>1, <2>2, PtesOK
  <2>4. heap' = heap /\ live' = live
    BY <1>6 DEF KmallocInitFails
  <2>5. 0 .. (heap.pages - 1) \subseteq DOMAIN ptes'
    BY <1>2, <2>2, <2>3, SMTT(60)
  <2>. QED
    BY <2>3, <2>4, <2>5
       DEF IInv, TypeOK, HeapTiled, NoAdjacentFree, LiveSafe, HeapBacked
<1>7. ASSUME NEW req \in Requests, KmallocExtendFails(req)
      PROVE  /\ IInv'
             /\ \A p \in DOMAIN live : heap'.size[p - HDR] = heap.size[p - HDR]
  <2> DEFINE n == pages_needed(AlignUp(req))
  <2>1. PICK k \in (InitPages + 1) .. (InitPages + n) :
          /\ next_free_page + k <= MaxFrames
          /\ ptes' = Mapped(ptes, heap.pages, k - 1, next_free_page)
          /\ next_free_page' = next_free_page + k
    BY <1>7 DEF KmallocExtendFails, MapLoopFails
  <2>2. n \in Nat
    BY AlignUpGrows, PagesNeededSuffice, HeapConstants
  <2> HIDE DEF n
  <2>3. k - 1 \in Nat /\ InitPages <= k - 1 /\ k \in (k - 1) .. (MaxFrames - next_free_page)
    BY <1>1, <1>2, <2>1, <2>2, HeapConstants, SMTT(60)
  <2>4. /\ ptes' \in [DOMAIN ptes' -> 0 .. (next_free_page' - 1)]
        /\ DOMAIN ptes' \subseteq Nat
        /\ next_free_page' \in 0 .. MaxFrames
        /\ 0 .. (heap.pages + (k - 1) - 1) \subseteq DOMAIN ptes'
        /\ \A i, j \in DOMAIN ptes' : ptes'[i] = ptes'[j] => i = j
    BY <2>1, <2>3, PtesOK
  <2>5. heap' = H /\ live' = live
    BY <1>7 DEF KmallocExtendFails, H
  <2>6. 0 .. (H.pages - 1) \subseteq DOMAIN ptes'
    BY <1>1, <1>2, <2>3, <2>4, SMTT(60)
  <2>7. IInv'
    BY <1>1, <1>2, <2>4, <2>5, <2>6, HeapConstants
       DEF IInv, TypeOK, HeapTiled, NoAdjacentFree, LiveSafe, HeapBacked, WF, NULL
  <2>. QED
    BY <1>1, <2>5, <2>7
<1>8. ASSUME NEW q \in DOMAIN live, kfree(q)
      PROVE  /\ IInv'
             /\ \A p \in DOMAIN live' : heap'.size[p - HDR] = heap.size[p - HDR]
  <2> DEFINE b == q - HDR
             r == Mark(heap, b, TRUE)
             m == MergeNext(r, b)
             x == MergePrev(m, b)
             L == [p \in DOMAIN live \ {q} |-> live[p]]
  <2>1. b \in heap.hdrs
    BY DEF IInv, LiveSafe, Owned
  <2>2. WF(heap) /\ Coalesced(heap) /\ Owned(heap, live)
    BY <2>1 DEF IInv, TypeOK, HeapTiled, NoAdjacentFree, LiveSafe, WF
  <2>3. /\ heap' = x /\ live' = L
        /\ ptes' = ptes /\ next_free_page' = next_free_page
    BY <1>8 DEF kfree
  <2>4. /\ WF(r) /\ r.hdrs = heap.hdrs /\ r.next = heap.next /\ r.size = heap.size
        /\ r.pages = heap.pages /\ r.free = [heap.free EXCEPT ![b] = TRUE]
    BY <2>1, <2>2, MarkWF
  <2>5. WF(m) /\ b \in m.hdrs /\ m.free[b] /\ CoalescedBefore(m, b)
    BY <2>1, <2>2, MergeNextOK
  <2>6. WF(x) /\ Coalesced(x)
    BY <2>5, MergePrevOK
  <2> HIDE DEF x, m, r
  <2>7. Owned(r, L)
    <3>1. \A c \in heap.hdrs : heap.free[c] \in BOOLEAN /\ c \in Nat
      BY <2>2 DEF WF, HeapType
    <3>2. DOMAIN L = DOMAIN live \ {q} /\ \A p \in DOMAIN L : L[p] = live[p]
      OBVIOUS
    <3>3. \A c \in heap.hdrs : c # b => r.free[c] = heap.free[c]
      BY <2>4 DEF WF, HeapType
    <3>4. r.free[b]
      BY <2>1, <2>2, <2>4 DEF WF, HeapType
    <3>5. \A p \in DOMAIN live : p # q => p - HDR # b
      BY <1>2, SMTT(60) DEF HDR
    <3>6. \A c \in heap.hdrs : c # b => c + HDR # q
      BY <1>2, <3>1, SMTT(60) DEF HDR
    <3> HIDE DEF b, L
    <3>. QED
      BY <2>2, <2>4, <3>2, <3>3, <3>4, <3>5, <3>6 DEF Owned
  <2> HIDE DEF L, b
  <2>8. /\ Owned(m, L) /\ m.pages = r.pages
        /\ \A p \in DOMAIN L : m.size[p - HDR] = r.size[p - HDR]
    <3>1. HeapType(r) /\ b \in r.hdrs /\ r.free[b]
      BY <2>1, <2>4 DEF WF, HeapType
    <3>2. CASE r.next[b] # NULL /\ r.free[r.next[b]]
      <4>1. m = Merge(r, b, r.next[b])
        BY <3>2 DEF MergeNext, m
      <4>2. r.next[b] \in r.hdrs
        BY <3>1, <3>2 DEF HeapType
      <4>3. m.pages = r.pages
        BY <4>1 DEF Merge
      <4>. QED
        BY <2>7, <3>1, <3>2, <4>1, <4>2, <4>3, MergeOwned
    <3>3. CASE ~(r.next[b] # NULL /\ r.free[r.next[b]])
      <4>1. m = r
        BY <3>3 DEF MergeNext, m
      <4>. QED
        BY <2>7, <4>1
    <3>. QED
      BY <3>2, <3>3
  <2>9. /\ Owned(x, L) /\ x.pages = m.pages
        /\ \A p \in DOMAIN L : x.size[p - HDR] = m.size[p - HDR]
    <3> DEFINE p0 == CHOOSE c \in Preds(m, b) : TRUE
    <3>1. HeapType(m)
      BY <2>5 DEF WF
    <3>2. CASE Preds(m, b) # {} /\ m.free[p0]
      <4>1. x = Merge(m, p0, b)
        BY <3>2 DEF MergePrev, x
      <4>2. p0 \in m.hdrs
        BY <3>2 DEF Preds
      <4> HIDE DEF p0
      <4>3. x.pages = m.pages
        BY <4>1 DEF Merge
      <4>. QED
        BY <2>5, <2>8, <3>1, <3>2, <4>1, <4>2, <4>3, MergeOwned
    <3>3. CASE ~(Preds(m, b) # {} /\ m.free[p0])
      <4>1. x = m
        BY <3>3 DEF MergePrev, x
      <4>. QED
        BY <2>8, <4>1
    <3>. QED
      BY <3>2, <3>3
  <2>10. live' \in [DOMAIN live' -> Requests] /\ DOMAIN live' \subseteq Nat
    BY <1>2, <2>3 DEF L
  <2>11. heap'.pages = heap.pages
    BY <2>3, <2>4, <2>8, <2>9
  <2>12. TypeOK'
    BY <2>3, <2>6, <2>10 DEF IInv, TypeOK, WF
  <2>13. HeapTiled' /\ NoAdjacentFree' /\ LiveSafe'
    BY <2>3, <2>6, <2>9, HeapConstants DEF HeapTiled, NoAdjacentFree, LiveSafe, WF, NULL
  <2>14. HeapBacked'
    BY <2>3, <2>11 DEF IInv, HeapBacked
  <2>. QED
    BY <2>3, <2>4, <2>8, <2>9, <2>12, <2>13, <2>14 DEF IInv
<1>9. CASE alloc_physical_page
  <2>1. /\ next_free_page' = next_free_page + 1 /\ next_free_page < MaxFrames
        /\ heap' = heap /\ ptes' = ptes /\ live' = live
    BY <1>9 DEF alloc_physical_page
  <2>2. next_free_page' \in 0 .. MaxFrames
    BY <1>2, <2>1, HeapConstants, SMTT(60)
  <2>3. ptes \in [DOMAIN ptes -> 0 .. (next_free_page' - 1)]
    <3>1. ptes \in [DOMAIN ptes -> 0 .. (next_free_page - 1)]
      BY DEF IInv, TypeOK
    <3>2. 0 .. (next_free_page - 1) \subseteq 0 .. (next_free_page' - 1)
      BY <1>2, <2>1, SMTT(60)
    <3>. QED
      BY <3>1, <3>2
  <2>. QED
    BY <2>1, <2>2, <2>3
       DEF IInv, TypeOK, HeapTiled, NoAdjacentFree, LiveSafe, HeapBacked
<1>. QED
  BY <1>4, <1>5, <1>6, <1>7, <1>8, <1>9 DEF Next, kmalloc

-----------------------------------------------------------------------------
(* The theorems.                                                           *)

\* The invariant holds in every reachable state of kmalloc and kfree.
THEOREM HeapInvariant == Spec => []IInv
<1>1. Init => IInv
  <2> SUFFICES ASSUME Init PROVE IInv
    OBVIOUS
  <2>1. TypeOK
    BY HeapConstants, SMTT(60) DEF Init, TypeOK, HeapType, NULL
  <2>2. HeapTiled
    BY DEF Init, HeapTiled, Tiled, NULL
  <2>3. NoAdjacentFree /\ LiveSafe /\ HeapBacked
    BY SMTT(60) DEF Init, NoAdjacentFree, Coalesced, LiveSafe, Owned, HeapBacked
  <2>. QED
    BY <2>1, <2>2, <2>3 DEF IInv
<1>2. IInv /\ [Next]_vars => IInv'
  <2>1. CASE UNCHANGED vars
    BY <2>1 DEF vars, IInv, TypeOK, HeapTiled, NoAdjacentFree, LiveSafe, HeapBacked
  <2>. QED
    BY <2>1, StepOK
<1>. QED
  BY <1>1, <1>2, PTL DEF Spec

\* Types, with the claim that no next pointer dangles, after any kmalloc and
\* kfree.
THEOREM HeapTypeCorrect == Spec => []TypeOK
<1>1. IInv => TypeOK
  BY DEF IInv
<1>. QED
  BY <1>1, HeapInvariant, PTL

\* Splitting, merging and extending lose no byte of the heap and give none to
\* two blocks.
THEOREM HeapAlwaysTiled == Spec => []HeapTiled
<1>1. IInv => HeapTiled
  BY DEF IInv
<1>. QED
  BY <1>1, HeapInvariant, PTL

\* kfree's two merges never leave two neighbours free.
THEOREM FreeBlocksCoalesced == Spec => []NoAdjacentFree
<1>1. IInv => NoAdjacentFree
  BY DEF IInv
<1>. QED
  BY <1>1, HeapInvariant, PTL

\* A pointer kmalloc returned keeps a used block that is large enough until
\* it is freed.
THEOREM LivePointersOwned == Spec => []LiveSafe
<1>1. IInv => LiveSafe
  BY DEF IInv
<1>. QED
  BY <1>1, HeapInvariant, PTL

\* Every heap page is mapped to a frame of its own, also after mapping loops
\* that failed half way.
THEOREM HeapPagesBacked == Spec => []HeapBacked
<1>1. IInv => HeapBacked
  BY DEF IInv
<1>. QED
  BY <1>1, HeapInvariant, PTL

\* No two live allocations overlap, and no header lies in one: two callers of
\* kmalloc never write to the same bytes, nor over the list.
THEOREM LiveAllocationsDisjoint == Spec => []LiveDisjoint
<1>1. IInv => LiveDisjoint
  <2> SUFFICES ASSUME IInv, NEW p \in DOMAIN live
               PROVE  /\ \A q \in DOMAIN live : p < q => p + live[p] <= q
                      /\ \A b \in heap.hdrs : b + HDR <= p \/ p + live[p] <= b
    BY DEF LiveDisjoint
  <2>1. HeapType(heap) /\ Tiled(heap) /\ Owned(heap, live)
    BY DEF IInv, TypeOK, HeapTiled, LiveSafe
  <2>2. \A q \in DOMAIN live : q \in Nat /\ live[q] \in Nat
    BY HeapConstants DEF IInv, TypeOK
  <2>3. /\ p - HDR \in heap.hdrs /\ live[p] <= heap.size[p - HDR]
        /\ End(heap, p - HDR) = (p - HDR) + HDR + heap.size[p - HDR]
        /\ heap.size[p - HDR] \in Nat
    BY <2>1, HeaderBelowEnd DEF Owned
  <2>4. p + live[p] <= End(heap, p - HDR) /\ End(heap, p - HDR) \in Int
    BY <2>2, <2>3, SMTT(60) DEF HDR
  <2>5. ASSUME NEW b \in heap.hdrs
        PROVE  b + HDR <= p \/ p + live[p] <= b
    <3>1. b \in Nat /\ heap.size[b] \in Nat /\ End(heap, b) = b + HDR + heap.size[b]
      BY <2>1, HeaderBelowEnd
    <3>2. CASE b < p - HDR
      <4>1. End(heap, b) <= p - HDR
        BY <2>1, <2>3, <3>2 DEF Tiled
      <4>. QED
        BY <2>2, <3>1, <4>1, SMTT(60) DEF HDR
    <3>3. CASE b = p - HDR
      BY <2>2, <3>3, SMTT(60) DEF HDR
    <3>4. CASE p - HDR < b
      <4>1. End(heap, p - HDR) <= b
        BY <2>1, <2>3, <3>4 DEF Tiled
      <4>. QED
        BY <2>2, <2>4, <3>1, <4>1, SMTT(60)
    <3>. QED
      BY <2>2, <3>1, <3>2, <3>3, <3>4, SMTT(60) DEF HDR
  <2>6. ASSUME NEW q \in DOMAIN live, p < q
        PROVE  p + live[p] <= q
    <3>1. q - HDR \in heap.hdrs
      BY <2>1 DEF Owned
    <3>2. (q - HDR) + HDR <= p \/ p + live[p] <= q - HDR
      BY <2>5, <3>1
    <3>. QED
      BY <2>2, <2>6, <3>2, SMTT(60) DEF HDR
  <2>. QED
    BY <2>5, <2>6
<1>. QED
  BY <1>1, HeapInvariant, PTL

\* kmalloc and kfree on other blocks never resize a live one.
THEOREM LiveBlocksStable == Spec => LiveBlockStable
<1>1. IInv /\ [Next]_vars =>
        [\A p \in DOMAIN live \cap DOMAIN live' :
           heap'.size[p - HDR] = heap.size[p - HDR]]_vars
  BY StepOK
<1>. QED
  BY <1>1, HeapInvariant, PTL DEF Spec, LiveBlockStable

\* Once everything is freed the heap is one free block again, so the order of
\* kmallocs and kfrees leaves no fragmentation behind.
THEOREM AllFreedIsOneBlock == Spec => []FullyCoalesced
<1>1. IInv => FullyCoalesced
  <2> SUFFICES ASSUME IInv, heap.first # NULL, live = [p \in {} |-> 0]
               PROVE  heap.hdrs = {HEAP_START}
    BY DEF FullyCoalesced
  <2>1. /\ HeapType(heap) /\ Tiled(heap) /\ HEAP_START \in heap.hdrs
        /\ Owned(heap, live) /\ Coalesced(heap)
    BY DEF IInv, TypeOK, HeapTiled, LiveSafe, NoAdjacentFree
  <2>2. \A b \in heap.hdrs : heap.free[b]
    BY <2>1 DEF Owned
  <2>3. heap.next[HEAP_START] = NULL
    BY <2>1, <2>2 DEF Coalesced, HeapType
  <2>4. End(heap, HEAP_START) = heap_end(heap)
    BY <2>1, <2>3, HeaderBelowEnd, SMTT(60) DEF Tiled, NULL, HDR
  <2>5. ASSUME NEW b \in heap.hdrs PROVE b = HEAP_START
    <3>1. b \in Nat /\ b < heap_end(heap) /\ HEAP_START <= b
      BY <2>1, HeaderBelowEnd DEF Tiled
    <3>2. HEAP_START < b => heap_end(heap) <= b
      BY <2>1, <2>4 DEF Tiled
    <3>3. heap_end(heap) \in Nat
      BY <2>1, HeaderBelowEnd
    <3>. QED
      BY <3>1, <3>2, <3>3, HeapConstants, SMTT(60)
  <2>. QED
    BY <2>1, <2>5
<1>. QED
  BY <1>1, HeapInvariant, PTL
=============================================================================
