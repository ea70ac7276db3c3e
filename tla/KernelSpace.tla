----------------------------- MODULE KernelSpace -----------------------------
(***************************************************************************)
(* Who maps what behind 0xFFFF800000000000: the heap (kmalloc), the stacks *)
(* of tasks (scheduler_add_task) and the kernel stacks of processes        *)
(* (process_create).  Pages are numbered from that address on.  All three  *)
(* call map_page, which replaces a translation that is already there, and  *)
(* every page gets a frame of its own from alloc_physical_page.            *)
(***************************************************************************)
EXTENDS Integers

CONSTANTS
  HEAP_PAGES,      \* pages of the first kmalloc: 4MB / PAGE_SIZE
  HEAP_MAX,        \* bound: pages of the heap
  TASK_PAGES,      \* 0x10000 / PAGE_SIZE
  PROC_STRIDE,     \* 0x100000 / PAGE_SIZE
  MAX_TASKS, MAX_PROCESSES

VARIABLES
  pte,             \* page -> frame
  heap_pages,      \* (heap_end - heap_start) / PAGE_SIZE
  task_count,
  created,         \* processes created so far
  next_free_page

vars == <<pte, heap_pages, task_count, created, next_free_page>>

Init ==
  /\ pte = [pg \in {} |-> 0]
  /\ heap_pages = 0 /\ task_count = 0 /\ created = {} /\ next_free_page = 0

\* A mapping loop over the pages first .. last.
MapRange(first, last) ==
  /\ pte' = [pg \in DOMAIN pte \cup first .. last |->
               IF pg \in first .. last THEN next_free_page + pg - first ELSE pte[pg]]
  /\ next_free_page' = next_free_page + last - first + 1

\* kmalloc maps the initial region, or n more pages behind it.
heap_init ==
  /\ heap_pages = 0
  /\ heap_pages' = HEAP_PAGES
  /\ MapRange(0, HEAP_PAGES - 1)
  /\ UNCHANGED <<task_count, created>>

heap_extend(n) ==
  /\ heap_pages # 0 /\ heap_pages + n <= HEAP_MAX
  /\ heap_pages' = heap_pages + n
  /\ MapRange(heap_pages, heap_pages + n - 1)
  /\ UNCHANGED <<task_count, created>>

\* The stack of task id ends at page (id + 1) * TASK_PAGES.
scheduler_add_task ==
  /\ task_count < MAX_TASKS
  /\ MapRange(task_count * TASK_PAGES, (task_count + 1) * TASK_PAGES - 1)
  /\ task_count' = task_count + 1
  /\ UNCHANGED <<heap_pages, created>>

\* The kernel stack of pid is the two pages below (pid + 1) * PROC_STRIDE.
process_create(pid) ==
  /\ pid \notin created
  /\ MapRange((pid + 1) * PROC_STRIDE - 2, (pid + 1) * PROC_STRIDE - 1)
  /\ created' = created \cup {pid}
  /\ UNCHANGED <<heap_pages, task_count>>

Next ==
  \/ heap_init
  \/ heap_extend(1)
  \/ scheduler_add_task
  \/ \E pid \in 1 .. (MAX_PROCESSES - 1) : process_create(pid)

Spec == Init /\ [][Next]_vars

\* The virtual memory kmalloc reserves for the heap stays the heap's: the
\* translation of a heap page is never replaced.
HeapReserved ==
  [][\A pg \in 0 .. (heap_pages - 1) : pte'[pg] = pte[pg]]_vars
=============================================================================
