------------------------------- MODULE Paging -------------------------------
(***************************************************************************)
(* The four-level page tables of kernel/memory.c: map_page, unmap_page and *)
(* set_page_flags, the bootstrap pool the tables come from, and the TLB    *)
(* that is told about every change.                                        *)
(*                                                                         *)
(* A page is the tuple of its four table indices (PML4_INDEX ... PT_INDEX  *)
(* of the address).  Physical memory is counted in entries, SPAN of them   *)
(* to a page, and a table is known by its address: ROOT is the one CR3     *)
(* holds at boot, the tables boot/stage2/paging_setup.asm linked below it  *)
(* come next, and then the pool, OFFSET entries behind a page boundary.    *)
(* The processor, and map_page itself when it finds a table, drop the low  *)
(* bits of the address in an entry; a table just allocated is used where   *)
(* it is.                                                                  *)
(*                                                                         *)
(* The tables of paging_setup and the kernel share no memory here.  In the *)
(* source both are at 0x100000 (PML4_ADDR, and boot.ld): one that runs on  *)
(* these tables has been moved.                                            *)
(***************************************************************************)
EXTENDS Integers

CONSTANTS
  SPAN,       \* entries of a table (512)
  Pages,      \* the pages the kernel passes: tuples of four indices
  Frames,     \* physical pages
  FlagSets,   \* the flags callers pass, as sets; PAGE_PRESENT is implied
  Leftovers,  \* entries that memory nobody has written may hold
  POOL,       \* tables that fit into bootstrap_memory_pool (16)
  OFFSET      \* where the linker put the pool: 0 if at a page boundary

Index == 0 .. (SPAN - 1)
ROOT == 0

\* The n-th table of the boot loader (PML4, PDPT, PD, and a page table for
\* every entry of the PD), and the n-th of the pool.
BootTable(n) == n * SPAN
PoolTable(n) == (SPAN + 3) * SPAN + OFFSET + n * SPAN
Words == ROOT .. (PoolTable(POOL) - 1)

ASSUME PagingConstants ==
  /\ SPAN \in Nat \ {0} /\ POOL \in Nat /\ OFFSET \in Index
  /\ Pages \subseteq Index \X Index \X Index \X Index
  /\ \A f \in Frames : f \in Nat /\ f % SPAN = 0
  /\ \A fl \in FlagSets : fl \subseteq {"W", "U"}
  /\ \E fl \in FlagSets : "W" \in fl
  /\ \A e \in Leftovers : e \in [present : BOOLEAN, addr : Frames, flags : FlagSets]

VARIABLES
  mem,    \* the memory of the tables: address -> entry
  used,   \* bootstrap_memory_used, in tables
  tlb,    \* translations the processor holds: page -> entry
  ret     \* what the last call returned

pagingVars == <<mem, used, tlb, ret>>

-----------------------------------------------------------------------------
Absent == [present |-> FALSE, addr |-> 0, flags |-> {}]
Present(a, fl) == [present |-> TRUE, addr |-> a, flags |-> fl]

\* addr & ~0xFFF
Aligned(a) == a - (a % SPAN)

\* Where entry i of a table leads, and what may be done there.  T is the table
\* with the rights that led to it, as a set that is empty if there is none.
Follow(m, T, i) ==
  {[addr |-> Aligned(m[t.addr + i].addr), flags |-> t.flags \cap m[t.addr + i].flags] :
     t \in {u \in T : m[u.addr + i].present}}

\* The page table that holds p's entry, if all three levels above are there.
pt_of(m, p) ==
  Follow(m, Follow(m, Follow(m, {[addr |-> ROOT, flags |-> {"W", "U"}]}, p[1]), p[2]), p[3])

\* What the processor finds for page p: the frame, and the rights every level
\* grants.
Walk(m, p) == Follow(m, pt_of(m, p), p[4])

\* invlpg, and a reload of CR3.
flush_tlb_single(c, p) == [q \in DOMAIN c \ {p} |-> c[q]]
flush_tlb == [q \in {} |-> {}]

SetEntry(m, t, i, e) == [m EXCEPT ![t + i] = e]

\* A table full of zeros at address t.
Zeroed(m, t) == [a \in DOMAIN m |-> IF a - t \in Index THEN Absent ELSE m[a]]

\* Fault: the table is linked without PAGE_PRESENT.
EnsureNotPresent(s, i) ==
  IF ~s.ok THEN s
  ELSE IF s.mem[s.at + i].present THEN [s EXCEPT !.at = Aligned(s.mem[s.at + i].addr)]
  ELSE IF s.used = POOL THEN [s EXCEPT !.ok = FALSE]
  ELSE LET n == PoolTable(s.used) IN
       [s EXCEPT !.mem = SetEntry(Zeroed(s.mem, n), s.at, i, [Absent EXCEPT !.addr = n]),
                 !.used = s.used + 1, !.at = n]

\* One level of map_page: go down from table s.at through entry i.  A missing
\* table is taken from the pool, zeroed and linked with PRESENT | WRITABLE.
Ensure(s, i) ==
  IF ~s.ok THEN s
  ELSE IF s.mem[s.at + i].present THEN [s EXCEPT !.at = Aligned(s.mem[s.at + i].addr)]
  ELSE IF s.used = POOL THEN [s EXCEPT !.ok = FALSE]
  ELSE LET n == PoolTable(s.used) IN
       [mem  |-> SetEntry(Zeroed(s.mem, n), s.at, i, Present(n, {"W"})),
        used |-> s.used + 1,
        tlb  |-> flush_tlb,
        at   |-> n,
        ok   |-> TRUE]

\* The walk of map_page down to p's page table.
Descend(p) ==
  LET s0 == [mem |-> mem, used |-> used, tlb |-> tlb, at |-> ROOT, ok |-> TRUE]
      s1 == Ensure(s0, p[1])
      s2 == Ensure(s1, p[2])
  IN Ensure(s2, p[3])

-----------------------------------------------------------------------------
\* The memory no table of the loader was set up in: setup_pd links a page
\* table for every entry, and setup_pt fills the first.
Unset == {BootTable(n) + i : n \in 4 .. (SPAN + 2), i \in Index}

\* setup_pml4, setup_pdpt, setup_pd and setup_pt.  setup_pt writes as many
\* entries as a table has, but of four bytes: two make one entry, somewhere in
\* memory (frame), and half of the table is left clear.
paging_setup(frame, left) ==
  [a \in Words |->
     LET t == Aligned(a)
         i == a % SPAN
     IN CASE t \in {BootTable(0), BootTable(1)} -> IF i = 0 THEN Present(t + SPAN, {"W"}) ELSE Absent
          [] t = BootTable(2) -> Present(BootTable(3 + i), {"W"})
          [] t = BootTable(3) -> IF 2 * i < SPAN THEN Present(frame[i], {"W"}) ELSE Absent
          [] a \in Unset -> left[a]
          [] OTHER -> Absent]

PagingInit ==
  /\ \E frame \in [{i \in Index : 2 * i < SPAN} -> Frames], left \in [Unset -> Leftovers] :
       mem = paging_setup(frame, left)
  /\ used = 0
  /\ tlb = flush_tlb
  /\ ret = 0

\* A failed call keeps the tables it has linked so far.
map_page(p, f, fl) ==
  LET s == Descend(p) IN
  /\ used' = s.used
  /\ mem' = IF s.ok THEN SetEntry(s.mem, s.at, p[4], Present(f, fl)) ELSE s.mem
  /\ tlb' = IF s.ok THEN flush_tlb_single(s.tlb, p) ELSE s.tlb
  /\ ret' = IF s.ok THEN 0 ELSE -1

\* Fault: the translation is not flushed.
RewriteNoFlush(p, e) ==
  \E t \in pt_of(mem, p) :
    /\ mem[t.addr + p[4]].present
    /\ mem' = SetEntry(mem, t.addr, p[4], e)
    /\ ret' = 0
    /\ UNCHANGED <<used, tlb>>

\* unmap_page and set_page_flags write the entry of a mapped page and flush
\* its translation; on a page that is not mapped they return -1.
Rewrite(p, e) ==
  \/ \E t \in pt_of(mem, p) :
       /\ mem[t.addr + p[4]].present
       /\ mem' = SetEntry(mem, t.addr, p[4], e)
       /\ tlb' = flush_tlb_single(tlb, p)
       /\ ret' = 0
       /\ UNCHANGED used
  \/ /\ Walk(mem, p) = {}
     /\ ret' = -1
     /\ UNCHANGED <<mem, used, tlb>>

unmap_page(p) == Rewrite(p, Absent)

\* Fault: the new flags replace the whole entry.
SetFlagsDropsFrame(p, fl) == Rewrite(p, Present(0, fl))

set_page_flags(p, fl) ==
  \/ \E e \in Walk(mem, p) : Rewrite(p, Present(e.addr, fl))
  \/ Walk(mem, p) = {} /\ Rewrite(p, Absent)

\* The processor caches a translation whenever it likes.
TlbFill(p) ==
  /\ Walk(mem, p) # {}
  /\ tlb' = [q \in DOMAIN tlb \cup {p} |-> IF q = p THEN Walk(mem, p) ELSE tlb[q]]
  /\ UNCHANGED <<mem, used, ret>>

PagingNext ==
  \E p \in Pages :
    \/ \E f \in Frames, fl \in FlagSets : map_page(p, f, fl)
    \/ unmap_page(p)
    \/ \E fl \in FlagSets : set_page_flags(p, fl)
    \/ TlbFill(p)

PagingSpec == PagingInit /\ [][PagingNext]_pagingVars

-----------------------------------------------------------------------------
(* Properties.                                                             *)

Rights == SUBSET {"W", "U"}
Entry == [present : BOOLEAN, addr : Nat, flags : Rights]

\* Tables, pool counter and cached translations have their types.
PagingTypeOK ==
  /\ mem \in [Words -> Entry]
  /\ used \in 0 .. POOL
  /\ DOMAIN tlb \subseteq Pages
  /\ \A p \in DOMAIN tlb : \A e \in tlb[p] : e.addr \in Nat /\ e.flags \in Rights
  /\ ret \in {0, -1}

\* The links from the tables of S, and the tables at each level below the root.
Links(S) == {l \in S \X Index : mem[l[1] + l[2]].present}
Target(l) == Aligned(mem[l[1] + l[2]].addr)
Children(S) == {Target(l) : l \in Links(S)}
L3 == Children({ROOT})
L2 == Children(L3)
L1 == Children(L2)

\* The tables form a tree: a table has one parent entry and one level, and
\* what the pool has handed out, also to calls of map_page that failed half
\* way, is linked and will be found by the next call.
TableTree ==
  /\ PagingTypeOK
  /\ ROOT \notin L3 \cup L2 \cup L1
  /\ L3 \cap L2 = {} /\ L3 \cap L1 = {} /\ L2 \cap L1 = {}
  /\ L3 \cup L2 \cup L1 = {BootTable(n) : n \in 1 .. (SPAN + 2)} \cup {PoolTable(n) : n \in 0 .. used - 1}
  /\ \A k, l \in Links({ROOT} \cup L3 \cup L2) : Target(k) = Target(l) => k = l

\* The processor never uses a translation the tables do not hold: every
\* entry that is changed or removed is flushed.
TlbCoherent == \A p \in DOMAIN tlb : tlb[p] = Walk(mem, p)

\* The address space the tables stand for, as the processor sees it.
Translations == [p \in Pages |-> Walk(mem, p)]

Space == INSTANCE AddressSpace WITH space <- Translations

\* The tables implement the address space the callers of memory.h rely on:
\* a call changes the translation of the page it names and of no other, and
\* a call that returns -1 changes none, wherever it gave up.  What a page may
\* be used for is what every level allows: writing if the flags say so, but
\* user mode never, as map_page links its tables without that flag.
ImplementsAddressSpace == Space!Spec

\* "Map a virtual page to a physical page" (memory.c:202): after a call that
\* returned 0 the processor finds the frame at the page.
MapsThePage ==
  [][\A p \in Pages, f \in Frames, fl \in FlagSets :
       map_page(p, f, fl) /\ ret' = 0 => {e.addr : e \in Walk(mem', p)} = {f}]_pagingVars
=============================================================================
