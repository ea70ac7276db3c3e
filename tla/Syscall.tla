------------------------------ MODULE Syscall -------------------------------
(***************************************************************************)
(* System calls: the SYSCALL instruction, syscall_entry and                *)
(* init_syscall_msr (kernel/syscall_entry.asm), syscall_dispatch and the   *)
(* handlers (kernel/syscall.c).                                            *)
(*                                                                         *)
(* The moves of syscall_entry are carried out one by one on the registers, *)
(* in one step: interrupts are masked there (SFMASK), and nobody else sees *)
(* them.  A 64-bit register that is loaded in halves is a pair of words.   *)
(*                                                                         *)
(* At run time only test_syscalls comes here, through syscall_dispatch.    *)
(* Nobody calls init_syscall_msr; the model is of a kernel that does,      *)
(* after syscall_init, and of programs that then use SYSCALL.              *)
(***************************************************************************)
EXTENDS Integers, Sequences

CONSTANTS
  MAX_SYSCALLS,
  Numbers,        \* what programs put into RAX
  Args,           \* what they put into RDI and RSI
  CURRENT,        \* current_pid
  ENTRY_LOW,      \* the low and the high half of the address of syscall_entry
  ENTRY_HIGH

VARIABLES
  call_pc,  \* "user", or where the call is in the kernel; "astray" after a
            \* SYSCALL to an address that is not that of syscall_entry
  regs,     \* register -> value
  stack,    \* the words above rsp, lowest address first
  call,     \* history: the registers the program made the call with
  passed,   \* history: what syscall_dispatch was called with
  handlers, \* syscall_handlers: number -> handler
  alive,    \* the current process is not TERMINATED
  written,  \* the string sys_write printed last, by its address; 0 for none
  lstar     \* the LSTAR register: low and high half

syscallVars == <<call_pc, regs, stack, call, passed, handlers, alive, written, lstar>>

Registers == {"rax", "rdi", "rsi", "rdx", "rcx", "r8", "r9", "r10", "r11"}

MINUS_1 == -1
NULL == "NULL"

\* The numbers of syscall.h, in the order syscall_init registers them.
Registered ==
  <<"exit", "write", "read", "open", "close", "fork", "exec", "wait", "sleep",
    "getpid", "yield">>

SyscallInit ==
  /\ call_pc = "boot"
  /\ regs = [r \in Registers |-> 0] /\ stack = <<>>
  /\ call = regs /\ passed = <<>>
  /\ handlers = [n \in 0 .. (MAX_SYSCALLS - 1) |-> NULL]
  /\ alive = TRUE /\ written = 0
  /\ lstar = [low |-> 0, high |-> 0]

\* syscall_register (declared in syscall.h) stores a handler in the table.
syscall_init ==
  /\ call_pc = "boot"
  /\ handlers' = [n \in DOMAIN handlers |->
                    IF n + 1 \in DOMAIN Registered THEN Registered[n + 1] ELSE NULL]
  /\ call_pc' = "msr"
  /\ UNCHANGED <<regs, stack, call, passed, alive, written, lstar>>

\* A shift by 32 of a 32-bit register is a shift by 32 % 32: edx stays eax.
init_syscall_msr ==
  /\ call_pc = "msr"
  /\ lstar' = [low |-> ENTRY_LOW, high |-> ENTRY_LOW]
  /\ call_pc' = "user"
  /\ UNCHANGED <<regs, stack, call, passed, handlers, alive, written>>

\* A program makes a call.  The processor puts the return address and the
\* flags into RCX and R11 and goes where LSTAR says.
Call(number, arg1, arg2) ==
  /\ call_pc = "user"
  /\ regs' = [regs EXCEPT !.rax = number, !.rdi = arg1, !.rsi = arg2, !.rdx = 103,
                          !.r10 = 104, !.r8 = 105, !.r9 = 106, !.rcx = 107, !.r11 = 108]
  /\ call' = regs'
  /\ call_pc' = IF lstar = [low |-> ENTRY_LOW, high |-> ENTRY_HIGH] THEN "entry" ELSE "astray"
  /\ UNCHANGED <<stack, passed, handlers, alive, written, lstar>>

\* The moves between the first two pushes and the call, in their order; the
\* pushes and pops of rdi and r9 are the locals rdi0 and r9.
Shuffle(g) ==
  LET a == [g EXCEPT !.r10 = g.rdx, !.rcx = g.rsi]
      b == [a EXCEPT !.rdi = a.rax]
      c == [b EXCEPT !.rsi = b.rdi]
      d == [c EXCEPT !.rdi = a.rdi, !.rdx = c.rcx]
      e == [d EXCEPT !.rcx = d.r8]
      f == [e EXCEPT !.r8 = e.r10]
      h == [f EXCEPT !.r9 = f.r8]
  IN [h EXCEPT !.r10 = e.r9]

\* The arguments of a C function of seven parameters: six registers, and the
\* word above the return address.
CArguments(g, s) == <<g.rdi, g.rsi, g.rdx, g.rcx, g.r8, g.r9, Head(s)>>

syscall_entry ==
  /\ call_pc = "entry"
  /\ stack' = <<regs.r11, regs.rcx>> \o stack
  /\ regs' = Shuffle(regs)
  /\ passed' = CArguments(regs', stack')
  /\ call_pc' = "dispatch"
  /\ UNCHANGED <<call, handlers, alive, written, lstar>>

\* test_syscalls calls syscall_dispatch as any C function does: nothing of it is
\* on the stack of syscall_entry.
test_syscalls(number, arg1, arg2) ==
  /\ call_pc = "user"
  /\ passed' = <<number, arg1, arg2, 0, 0, 0, 0>>
  /\ call_pc' = "dispatch"
  /\ UNCHANGED <<regs, stack, call, handlers, alive, written, lstar>>

\* What a handler returns; sys_exit does not.
Result(h, arg1, arg2, arg3) ==
  CASE h = "write" -> IF arg1 # 1 \/ arg2 = 0 THEN MINUS_1 ELSE arg3
    [] h \in {"close", "sleep", "yield"} -> 0
    [] h = "getpid" -> CURRENT
    [] OTHER -> MINUS_1

\* The handler of a number, NULL if it is out of range.
Handler(n) == IF n \in DOMAIN handlers THEN handlers[n] ELSE NULL

\* The compiled handlers leave in the other registers what they like.
Leave(result) ==
  regs' = [r \in Registers |-> IF r = "rax" THEN result ELSE MINUS_1]

\* syscall_dispatch and the handler it calls.  sys_exit terminates the
\* current process (process_exit) and halts for ever.
syscall_dispatch ==
  LET h == Handler(passed[1]) IN
  /\ call_pc = "dispatch"
  /\ alive' = (alive /\ h # "exit")
  /\ written' = IF h = "write" /\ passed[2] = 1 /\ passed[3] # 0
                THEN passed[3] ELSE written
  /\ IF h = "exit"
     THEN UNCHANGED regs
     ELSE Leave(Result(h, passed[2], passed[3], passed[4]))
  /\ call_pc' = CASE h = "exit" -> "halted"
                  [] h # "exit" /\ stack # <<>> -> "return"
                  [] OTHER -> "user"
  /\ UNCHANGED <<stack, call, passed, handlers, lstar>>

sysretq ==
  /\ call_pc = "return"
  /\ regs' = [regs EXCEPT !.r11 = stack[1], !.rcx = stack[2]]
  /\ stack' = SubSeq(stack, 3, Len(stack))
  /\ call_pc' = "user"
  /\ UNCHANGED <<call, passed, handlers, alive, written, lstar>>

SyscallNext ==
  \/ syscall_init \/ init_syscall_msr
  \/ \E n \in Numbers, a1 \in Args, a2 \in Args : Call(n, a1, a2) \/ test_syscalls(n, a1, a2)
  \/ syscall_entry \/ syscall_dispatch \/ sysretq

SyscallSpec == SyscallInit /\ [][SyscallNext]_syscallVars

-----------------------------------------------------------------------------
(* Properties.                                                             *)

\* "LSTAR MSR: Contains the linear address of the syscall entry point"
\* (syscall_entry.asm:70) and "RAX contains the system call number" (:5): a
\* SYSCALL gets to syscall_entry, and from there to syscall_dispatch with the
\* number the program had in RAX.
NumberDispatched ==
  /\ call_pc # "astray"
  /\ call_pc = "dispatch" /\ stack # <<>> => passed[1] = call.rax
=============================================================================
