--------------------------------- MODULE Elf ---------------------------------
(***************************************************************************)
(* Loading an executable: elf_load of kernel/elf.c.  A step is a call that *)
(* may fail, to the file system, the heap, the page allocator or map_page; *)
(* on a failure elf_load gives back what it holds and returns 0.  A byte   *)
(* of the file is known by its offset, a byte of memory by its frame and   *)
(* its offset in it.  The file system, which is not part of the sources,   *)
(* delivers the bytes asked for or fails.                                  *)
(***************************************************************************)
EXTENDS Integers, Sequences

CONSTANTS
  Programs,    \* sequences of program headers [load, vaddr, offset, filesz, memsz]
  PAGE_SIZE

\* A segment takes at least the memory of its part of the file.
ElfConstants ==
  /\ PAGE_SIZE \in Nat \ {0}
  /\ Programs \subseteq
       Seq([load : BOOLEAN, vaddr : Nat, offset : Nat, filesz : Nat, memsz : Nat])
  /\ \A p \in Programs : \A n \in DOMAIN p : p[n].filesz <= p[n].memsz

Zero == -1
Junk == -2      \* what a frame holds when it is allocated

VARIABLES
  phdrs,   \* the program headers of the file
  elf_pc,  \* "open", "header", "alloc", "headers", "segment", "map", "seek", "buffer", "read" or "done"
  i,       \* the program header being processed
  page,    \* pages of its segment mapped so far
  held,    \* what must be given back: a subset of {"file", "phdrs", "buffer"}
  pt,      \* virtual page -> frame
  mem,     \* frame -> its bytes
  entered, \* proc->entry_point has been set
  ret      \* the result: 1 success, 0 failure, -1 not yet

elfVars == <<phdrs, elf_pc, i, page, held, pt, mem, entered, ret>>
memory == <<pt, mem>>

-----------------------------------------------------------------------------
start_page(ph) == ph.vaddr \div PAGE_SIZE
end_page(ph) == (ph.vaddr + ph.memsz + PAGE_SIZE - 1) \div PAGE_SIZE
num_pages(ph) == end_page(ph) - start_page(ph)

ElfInit ==
  /\ phdrs \in Programs
  /\ elf_pc = "open" /\ i = 1 /\ page = 0 /\ held = {}
  /\ pt = <<>> /\ mem = <<>> /\ entered = FALSE /\ ret = -1

\* elf_load gives back the things of r, all it holds at that point, and returns.
GiveBack(r, result) ==
  /\ elf_pc' = "done" /\ held' = held \ r /\ ret' = result
  /\ UNCHANGED <<phdrs, i, page>>

\* On to step l with nothing but held changed.
Goto(l, h) ==
  /\ elf_pc' = l /\ held' = h
  /\ UNCHANGED <<phdrs, i, page, ret>>

\* vfs_open.
Open ==
  /\ elf_pc = "open"
  /\ Goto("header", held \cup {"file"}) \/ GiveBack({}, 0)
  /\ UNCHANGED <<memory, entered>>

\* The header is read, and either refused or verified.  The entry point is
\* set then, although there may be no program headers, or no way to get to
\* them.
Header ==
  /\ elf_pc = "header"
  /\ \/ UNCHANGED entered /\ GiveBack({"file"}, 0)
     \/ entered' = TRUE /\ GiveBack({"file"}, 0)
     \/ entered' = TRUE /\ phdrs # <<>> /\ Goto("alloc", held)
  /\ UNCHANGED memory

AllocHeaders ==
  /\ elf_pc = "alloc"
  /\ Goto("headers", held \cup {"phdrs"}) \/ GiveBack({"file"}, 0)
  /\ UNCHANGED <<memory, entered>>

ReadHeaders ==
  /\ elf_pc = "headers"
  /\ Goto("segment", held) \/ GiveBack({"phdrs", "file"}, 0)
  /\ UNCHANGED <<memory, entered>>

\* The head of the loop over the program headers.
Segment ==
  /\ elf_pc = "segment"
  /\ \/ /\ i > Len(phdrs)
        /\ GiveBack({"phdrs", "file"}, 1)
     \/ /\ i <= Len(phdrs)
        /\ IF phdrs[i].load
           THEN /\ elf_pc' = "map" /\ page' = 0 /\ UNCHANGED i
           ELSE /\ i' = i + 1 /\ UNCHANGED <<elf_pc, page>>
        /\ UNCHANGED <<phdrs, held, ret>>
  /\ UNCHANGED <<memory, entered>>

\* One page of the segment: a new frame, mapped in the place of whatever the
\* page was mapped to.
MapPage ==
  LET v == start_page(phdrs[i]) + page
      f == Len(mem) + 1
  IN
  /\ elf_pc = "map" /\ page < num_pages(phdrs[i])
  /\ mem' = Append(mem, [k \in 0 .. PAGE_SIZE - 1 |-> Junk])
  /\ pt' = [p \in DOMAIN pt \cup {v} |-> IF p = v THEN f ELSE pt[p]]
  /\ page' = page + 1
  /\ UNCHANGED <<phdrs, elf_pc, i, held, entered, ret>>

\* map_page cannot get a frame for a table; the new frame is lost.
MapFails ==
  /\ elf_pc = "map" /\ page < num_pages(phdrs[i])
  /\ mem' = Append(mem, [k \in 0 .. PAGE_SIZE - 1 |-> Junk])
  /\ GiveBack({"phdrs", "file"}, 0)
  /\ UNCHANGED <<pt, entered>>

\* The memory after a copy of bytes, a function of virtual addresses.
Written(m, bytes) ==
  [f \in DOMAIN m |-> [k \in 0 .. PAGE_SIZE - 1 |->
    LET at == {a \in DOMAIN bytes :
                 pt[a \div PAGE_SIZE] = f /\ a % PAGE_SIZE = k}
    IN IF at = {} THEN m[f][k] ELSE bytes[CHOOSE a \in at : TRUE]]]

\* Fault: the zeros begin at the segment's address.
ZeroFromStart(m) ==
  LET ph == phdrs[i] IN
  /\ mem' = Written(m, [a \in ph.vaddr .. ph.vaddr + ph.memsz - ph.filesz - 1 |-> Zero])
  /\ elf_pc' = "segment" /\ i' = i + 1
  /\ UNCHANGED <<phdrs, page, pt, entered, ret>>

\* The rest of the segment's memory is zeroed, and the loop goes on.
ZeroRest(m) ==
  LET ph == phdrs[i] IN
  /\ mem' = Written(m, [a \in ph.vaddr + ph.filesz .. ph.vaddr + ph.memsz - 1 |-> Zero])
  /\ elf_pc' = "segment" /\ i' = i + 1
  /\ UNCHANGED <<phdrs, page, pt, entered, ret>>

\* The seek to the segment's data.
Seek ==
  /\ elf_pc = "map" /\ page = num_pages(phdrs[i])
  /\ \/ /\ phdrs[i].filesz > 0 /\ Goto("buffer", held) /\ UNCHANGED <<memory, entered>>
     \/ /\ phdrs[i].filesz = 0 /\ ZeroRest(mem) /\ UNCHANGED held
     \/ GiveBack({"phdrs", "file"}, 0) /\ UNCHANGED <<memory, entered>>

\* Fault: the program headers are not freed when there is no buffer.
AllocBufferLeaks ==
  /\ elf_pc = "buffer"
  /\ Goto("read", held \cup {"buffer"}) \/ GiveBack({"file"}, 0)
  /\ UNCHANGED <<memory, entered>>

AllocBuffer ==
  /\ elf_pc = "buffer"
  /\ Goto("read", held \cup {"buffer"}) \/ GiveBack({"phdrs", "file"}, 0)
  /\ UNCHANGED <<memory, entered>>

\* The data is read into the buffer and copied to its virtual address.
ReadSegment ==
  LET ph == phdrs[i]
      copied == Written(mem, [a \in ph.vaddr .. ph.vaddr + ph.filesz - 1 |->
                              ph.offset + (a - ph.vaddr)])
  IN
  /\ elf_pc = "read"
  /\ \/ ZeroRest(copied) /\ held' = held \ {"buffer"}
     \/ GiveBack({"buffer", "phdrs", "file"}, 0) /\ UNCHANGED <<memory, entered>>

elf_load ==
  \/ Open \/ Header \/ AllocHeaders \/ ReadHeaders
  \/ Segment \/ MapPage \/ MapFails \/ Seek \/ AllocBuffer \/ ReadSegment

ElfSpec == ElfInit /\ [][elf_load]_elfVars

-----------------------------------------------------------------------------
(* Properties.                                                             *)

\* Every variable has its type, and pages map only frames that were allocated.
ElfTypeOK ==
  /\ phdrs \in Programs
  /\ i \in 1 .. Len(phdrs) + 1 /\ page \in Nat
  /\ held \subseteq {"file", "phdrs", "buffer"}
  /\ \A p \in DOMAIN pt : pt[p] \in DOMAIN mem
  /\ entered \in BOOLEAN /\ ret \in {-1, 0, 1}

\* On every way out of elf_load the file is closed and both allocations are
\* freed, whichever step fails.
GivesBack == ElfTypeOK /\ (ret # -1 => held = {})

At(a) == mem[pt[a \div PAGE_SIZE]][a % PAGE_SIZE]

\* The pages of a segment, and whether those of different segments differ.
Pages(ph) == start_page(ph) .. (end_page(ph) - 1)

Separate(p) ==
  \A j, k \in DOMAIN p :
    p[j].load /\ p[k].load /\ Pages(p[j]) \cap Pages(p[k]) # {} => j = k

\* A segment is in memory: its part of the file followed by zeros.
InPlace(ph) ==
  \A k \in 0 .. ph.memsz - 1 :
    At(ph.vaddr + k) = IF k < ph.filesz THEN ph.offset + k ELSE Zero

\* "ELF executable loaded successfully" (elf.c:181): the process has its
\* entry point, and if no two segments share a page, each loadable one is in
\* memory.  No two pages share a frame.
Loaded ==
  /\ \A p, q \in DOMAIN pt : pt[p] = pt[q] => p = q
  /\ ret = 1 =>
       /\ entered
       /\ Separate(phdrs) => \A j \in DOMAIN phdrs : phdrs[j].load => InPlace(phdrs[j])
=============================================================================
