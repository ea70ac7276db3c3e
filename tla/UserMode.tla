------------------------------ MODULE UserMode ------------------------------
(***************************************************************************)
(* Starting a function on a user stack: kernel/user_mode.c and             *)
(* switch_to_user_mode (kernel/user_mode.asm), next to the processes whose *)
(* stacks are mapped in the same address space.                            *)
(*                                                                         *)
(* A segment descriptor is its access byte, 0 if it is not present.        *)
(* enter_user_mode does not come back unless it fails, and there is no     *)
(* way back from the function: one function is started.                    *)
(***************************************************************************)
EXTENDS Process

VARIABLES
  gdt_entries,   \* index -> access byte
  user           \* the function: whether it runs, has not started ("none") or
                 \* the switch faulted ("fault"), its rsp in pages, its ring

userVars == <<gdt_entries, user>>
allVars == <<vars, userVars>>

USER_CODE_SEGMENT == 24        \* 0x18
USER_DATA_SEGMENT == 32        \* 0x20

\* Bits of an access byte: present, the privilege level, code.
Present(d) == d >= 128
DPL(d) == (d \div 32) % 4
Code(d) == (d \div 8) % 2 = 1

UserModeInit ==
  /\ Init
  /\ gdt_entries = [n \in 0 .. 4 |-> CASE n = 1 -> 154 [] n = 2 -> 146 [] OTHER -> 0]
  /\ user = [at |-> "none", rsp |-> 0, ring |-> 0]

\* user_mode_init: 0x98 and 0x92 are bits 40 to 47 of the two descriptors.
setup_user_segments ==
  /\ gdt_entries' = [gdt_entries EXCEPT ![3] = 152, ![4] = 146]
  /\ UNCHANGED <<vars, user>>

\* What iretq demands of the selectors on the stack: the privilege level of
\* the code selector is that of its segment, and of the stack's segment.
Accepted(cs, ss) ==
  LET code == gdt_entries[cs \div 8]
      data == gdt_entries[ss \div 8]
  IN /\ Present(code) /\ Code(code) /\ DPL(code) = cs % 4
     /\ Present(data) /\ ~Code(data) /\ DPL(data) = ss % 4 /\ cs % 4 = ss % 4

\* The data segments, the stack with the five words for iretq, and iretq,
\* which takes the words off again and goes to the level of the code selector.
\* Without user_mode_init the first load of a data segment faults.
switch_to_user_mode(top) ==
  user' = [at |-> IF Accepted(USER_CODE_SEGMENT, USER_DATA_SEGMENT) THEN "runs" ELSE "fault",
           rsp |-> top, ring |-> USER_CODE_SEGMENT % 4]

UserStack == {<<"user", 0>>, <<"user", 1>>}

\* Fault: every page gets the first frame, user_stack_phys.
EnterOneFrame ==
  /\ next_free_page + 3 <= MaxFrames
  /\ ptes' = [pg \in DOMAIN ptes \cup UserStack |->
                IF pg \in UserStack THEN next_free_page ELSE ptes[pg]]
  /\ next_free_page' = next_free_page + 3
  /\ switch_to_user_mode(2)

\* The first frame is not used, then each page gets one.
EnterMapped ==
  /\ next_free_page + 3 <= MaxFrames
  /\ ptes' = [pg \in DOMAIN ptes \cup UserStack |->
                IF pg \in UserStack THEN next_free_page + 1 + pg[2] ELSE ptes[pg]]
  /\ next_free_page' = next_free_page + 3
  /\ switch_to_user_mode(2)

\* map_page refuses the first of the two, which share their page table:
\* enter_user_mode returns, and both frames are lost.
EnterRefused ==
  /\ next_free_page + 2 <= MaxFrames
  /\ next_free_page' = next_free_page + 2
  /\ UNCHANGED <<ptes, user>>

enter_user_mode ==
  /\ user.at = "none"
  /\ EnterMapped \/ EnterRefused
  /\ UNCHANGED <<processes, process_count, current_pid, gdt_entries>>

UserModeNext ==
  \/ Next /\ UNCHANGED userVars
  \/ setup_user_segments
  \/ enter_user_mode

UserModeSpec == UserModeInit /\ [][UserModeNext]_allVars

-----------------------------------------------------------------------------
(* Properties.                                                             *)

Running == user.at = "runs"

\* Two stacks never share a frame, though all take theirs from one pointer and
\* some calls fail half way; and where enter_user_mode has switched to its
\* stack, the page the five words for iretq are pushed to is mapped.
StacksReady ==
  /\ \A g, h \in DOMAIN ptes : ptes[g] = ptes[h] => g = h
  /\ user.at # "none" => <<"user", user.rsp - 1>> \in DOMAIN ptes

\* "Enter user mode and execute the specified function" (user_mode.c:42), in
\* segments with "DPL = 3 (user mode)" (user_mode.c:10, 14): a function that
\* enter_user_mode started runs in ring 3.
RunsInRing3 == Running => user.ring = 3

\* The stack pages of the processes that live and of the function that runs.
InUse == (UNION {StackPages(p) : p \in Live}) \cup (IF Running THEN UserStack ELSE {})

\* No later call of process_create or enter_user_mode replaces a stack that
\* is in use, although process_exit unmaps nothing, slots are used again and
\* all the stacks are in one address space.
StacksKept ==
  [][\A pg \in InUse \cap InUse' \cap DOMAIN ptes : ptes'[pg] = ptes[pg]]_allVars
=============================================================================
