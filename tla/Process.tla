------------------------------- MODULE Process -------------------------------
(***************************************************************************)
(* The process table of kernel/process.c: process_create, process_exit and *)
(* process_switch, the stacks process_create maps, and the exit and getpid *)
(* system calls, which act on the current process.                         *)
(*                                                                         *)
(* A page is <<"kernel", n>>, the n-th from 0xFFFF800000000000 on, or      *)
(* <<"user", n>>, the n-th from 0x100000000 on.  map_page may fail, and    *)
(* process_create does not look at its result.                             *)
(***************************************************************************)
EXTENDS Integers, FiniteSets

CONSTANTS
  MAX_PROCESSES,
  STRIDE,         \* 0x100000 / PAGE_SIZE
  MaxFrames       \* bound: frames handed out by alloc_physical_page

ASSUME ProcessConstants ==
  /\ MAX_PROCESSES \in Nat \ {0} /\ MaxFrames \in Nat
  /\ STRIDE \in Nat /\ STRIDE >= 4

VARIABLES
  processes,       \* slot -> [pid, state, parent_pid, child_count]
  process_count,
  current_pid,
  ptes,            \* stack page -> frame, for the pages that are mapped
  next_free_page   \* the bump pointer of alloc_physical_page, in frames

vars == <<processes, process_count, current_pid, ptes, next_free_page>>

Pids == 0 .. (MAX_PROCESSES - 1)

\* Fault: the user stacks begin at 0x100000000 and go up from there.
StackTopUpward(kind, p) == IF kind = "kernel" THEN (p + 1) * STRIDE ELSE (p - 1) * STRIDE + 2

\* kernel_stack and user_stack: the number of the page above the stack.
StackTop(kind, p) == IF kind = "kernel" THEN (p + 1) * STRIDE ELSE p * STRIDE

\* Both stacks of a process: the two pages below kernel_stack and user_stack.
StackPages(p) ==
  {<<kind, StackTop(kind, p) - n>> : kind \in {"kernel", "user"}, n \in {1, 2}}

Terminated(p) == processes[p].state = "TERMINATED"
Live == {p \in Pids : ~Terminated(p)}

-----------------------------------------------------------------------------
\* process_init
Init ==
  /\ processes = [p \in Pids |->
       [pid |-> 0, state |-> "TERMINATED", parent_pid |-> 0, child_count |-> 0]]
  /\ process_count = 0
  /\ current_pid = 0
  /\ ptes = [pg \in {} |-> 0]
  /\ next_free_page = 0

process_get_by_pid(p) == IF p \in Live THEN {p} ELSE {}

\* Fault: the search starts at slot 0.
FreeSlotsFromZero == {p \in Pids : Terminated(p)}

\* The slots process_create searches, from 1 on.
FreeSlots == {p \in Pids \ {0} : Terminated(p)}
FirstFree == CHOOSE p \in FreeSlots : \A q \in FreeSlots : p <= q

\* The two mapping loops take four frames.  map_page refuses both pages of a
\* stack or none: they share their page table.
Offset(p, pg) ==
  IF pg[1] = "kernel" THEN pg[2] - StackTop("kernel", p) + 2
  ELSE pg[2] - StackTop("user", p) + 4

MapStacks(p, refused) ==
  LET done == {pg \in StackPages(p) : pg[1] \notin refused} IN
  /\ next_free_page + 4 <= MaxFrames
  /\ ptes' = [pg \in DOMAIN ptes \cup done |->
                IF pg \in done THEN next_free_page + Offset(p, pg) ELSE ptes[pg]]
  /\ next_free_page' = next_free_page + 4

\* The new process, and the child its parent has now.
Created(p) ==
  LET new == [processes EXCEPT ![p] =
               [pid |-> p, state |-> "READY", parent_pid |-> current_pid, child_count |-> 0]]
  IN IF current_pid = 0 THEN new
     ELSE [new EXCEPT ![current_pid].child_count = @ + 1]

process_create(refused) ==
  /\ process_count < MAX_PROCESSES
  /\ FreeSlots # {}
  /\ processes' = Created(FirstFree)
  /\ process_count' = process_count + 1
  /\ MapStacks(FirstFree, refused)
  /\ UNCHANGED current_pid

process_exit(p) ==
  /\ ~Terminated(p)
  /\ processes' = [processes EXCEPT ![p].state = "TERMINATED"]
  /\ process_count' = process_count - 1
  /\ UNCHANGED <<current_pid, ptes, next_free_page>>

process_get_current == processes[current_pid]

\* The exit system call ends the current process, whatever is in its slot.
sys_exit == process_exit(process_get_current.pid)

\* process_switch to a process the caller looked up.
process_switch(p) ==
  /\ process_get_by_pid(p) # {}
  /\ current_pid' = processes[p].pid
  /\ UNCHANGED <<processes, process_count, ptes, next_free_page>>

Next ==
  \/ \E refused \in SUBSET {"kernel", "user"} : process_create(refused)
  \/ \E p \in Pids : process_exit(p) \/ process_switch(p)
  \/ sys_exit

Spec == Init /\ [][Next]_vars

-----------------------------------------------------------------------------
(* Properties.                                                             *)

\* Every variable has its type.
TypeOK ==
  /\ processes \in [Pids -> [pid : Pids, state : {"READY", "TERMINATED"},
                             parent_pid : Pids, child_count : Nat]]
  /\ process_count \in 0 .. MAX_PROCESSES
  /\ current_pid \in Pids
  /\ DOMAIN ptes \subseteq {"kernel", "user"} \X Int
  /\ next_free_page \in 0 .. MaxFrames

\* process_count counts the live processes through any sequence of creations,
\* exits and slots used again; slot 0 stays the answer "no process", so that
\* a live process is found under the pid it carries.
CountMatches ==
  /\ TypeOK
  /\ process_count = Cardinality(Live)
  /\ Terminated(0)
  /\ \A p \in Live : processes[p].pid = p
=============================================================================
