---------------------------- MODULE ContextLayout ----------------------------
(***************************************************************************)
(* The words of a task control block, as the two sides that share it see   *)
(* them: scheduler_add_task writes the fields of struct task, in the order *)
(* of kernel/scheduler.h, and kernel/context_switch.asm stores and loads   *)
(* the registers at offsets of its own.  A value is known by what it is    *)
(* for: the thread and the register it came from, or what add_task set.    *)
(***************************************************************************)
EXTENDS Integers, Sequences

CONSTANT NTASKS    \* tasks kernel_main adds

\* struct task, a word per field, in the order the compiler lays them out.
TaskFields ==
  <<"rsp", "rip", "rbp", "rax", "rbx", "rcx", "rdx", "rsi", "rdi",
    "r8", "r9", "r10", "r11", "r12", "r13", "r14", "r15",
    "cs", "ds", "es", "fs", "gs", "ss", "rflags">>

\* The registers in the order of the offsets of save_context.
SaveOrder ==
  <<"rsp", "r15", "r14", "r13", "r12", "r11", "r10", "r9", "r8", "rbp",
    "rdi", "rsi", "rdx", "rcx", "rbx", "rax",
    "cs", "ds", "es", "fs", "gs", "ss", "rflags", "rip">>

Registers == {TaskFields[k] : k \in DOMAIN TaskFields}
Words == DOMAIN TaskFields
Tasks == 0 .. NTASKS - 1

\* The word a register is saved in and restored from.
slot(r) == CHOOSE k \in Words : SaveOrder[k] = r

\* restore_context loads all registers but rdi, its argument, and ss.
Restored == Registers \ {"rdi", "ss"}

VARIABLES
  tasks,    \* task -> word -> value
  count,    \* task_count
  cpu,      \* register -> value
  current,  \* current_task
  started   \* history: the tasks that were switched to for the first time

vars == <<tasks, count, cpu, current, started>>

Init ==
  /\ tasks = [t \in Tasks |-> [k \in Words |-> <<"zero", 0>>]]
  /\ count = 0 /\ current = 0
  /\ cpu = [r \in Registers |-> <<r, "main">>]
  /\ started = {}

\* What scheduler_add_task sets a register field to.
Initial(r, t) ==
  CASE r = "rip" -> <<"entry_point", t>>
    [] r = "cs" -> <<"0x08", 0>>
    [] r = "rflags" -> <<"0x202", 0>>
    [] r = "rsp" -> <<"stack", t>>
    [] r \in {"ss", "ds", "es", "fs", "gs"} -> <<"0x10", 0>>
    [] OTHER -> <<"zero", 0>>

scheduler_add_task ==
  /\ count < NTASKS
  /\ tasks' = [tasks EXCEPT ![count] = [k \in Words |-> Initial(TaskFields[k], count)]]
  /\ count' = count + 1
  /\ UNCHANGED <<cpu, current, started>>

\* The instruction behind "call save_context", which save_context stores as rip.
RESTORE_NEXT == <<"restore_next", 0>>

\* scheduler_schedule picks another task and calls context_switch, and that
\* save_context with the two TCBs in rdi and rsi.
save_context(new) ==
  LET here == [cpu EXCEPT !.rdi = <<"tcb", current>>, !.rsi = <<"tcb", new>>,
                          !.rip = RESTORE_NEXT]
  IN
  /\ cpu.rip # RESTORE_NEXT /\ new < count /\ new # current
  /\ tasks' = [tasks EXCEPT ![current] = [k \in Words |-> here[SaveOrder[k]]]]
  /\ cpu' = here
  /\ current' = new
  /\ UNCHANGED <<count, started>>

\* mov rdi, rsi and restore_context, which jumps to the rip it finds.
restore_context ==
  LET new == cpu.rsi[2] IN
  /\ cpu.rip = RESTORE_NEXT
  /\ cpu' = [r \in Registers |->
               CASE r \in Restored -> tasks[new][slot(r)]
                 [] r = "rdi" -> cpu.rsi
                 [] OTHER -> cpu[r]]
  /\ started' = started \cup {new}
  /\ UNCHANGED <<tasks, count, current>>

Next == scheduler_add_task \/ (\E new \in Tasks : save_context(new)) \/ restore_context

Spec == Init /\ [][Next]_vars

-----------------------------------------------------------------------------
(* Properties.                                                             *)

\* A task that is switched to for the first time is at its entry point, in
\* the kernel's code segment and with interrupts enabled, as the comments of
\* scheduler_add_task say of the registers it sets up.
FreshStartsAtEntry ==
  [][\A t \in Tasks :
       t \in started' \ started /\ t # 0 =>
         /\ cpu'["rip"] = <<"entry_point", t>>
         /\ cpu'["cs"] = <<"0x08", 0>>
         /\ cpu'["rflags"] = <<"0x202", 0>>]_vars
=============================================================================
