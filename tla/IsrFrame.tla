------------------------------ MODULE IsrFrame ------------------------------
(***************************************************************************)
(* The stack of an interrupt: what the processor pushes, what the stubs of *)
(* kernel/interrupts.asm and kernel/apic_isr_stubs.asm push on top of it,  *)
(* what the C handlers read there as struct registers (interrupt.h), and   *)
(* what is popped on the way back.                                         *)
(*                                                                         *)
(* A register holds its own name while it has the value of the interrupted *)
(* code.  isr_handler and apic_isr_handler take struct registers by value, *)
(* that is from the stack above the return address; the pointer the stubs  *)
(* put into rdi is not looked at.                                          *)
(***************************************************************************)
EXTENDS Integers, Sequences

CONSTANTS
  GateVectors,  \* the vectors with a gate
  ErrorCodes    \* what the processor may push for a fault: 0 among them

FrameConstants == GateVectors \subseteq Nat /\ 0 \in ErrorCodes

\* The exceptions for which the processor pushes an error code, and those of
\* them for which it is always 0.
HwErrorCode == {8, 10, 11, 12, 13, 14, 17}
HwErrorZero == {8, 17}

\* The vectors defined with ISR_ERRCODE, whose stub pushes no dummy.
ISR_ERRCODE == {8, 10, 11, 12, 13, 14}

\* The stub a vector jumps to.
Stub(v) ==
  CASE v < 32 -> "isr_common_stub"
    [] v = 32 -> "apic_timer_handler"
    [] v = 33 -> "apic_keyboard_handler"
    [] OTHER  -> "apic_isr_common_stub"

\* The order in which all the stubs push the general-purpose registers.
Pushed ==
  <<"rax", "rbx", "rcx", "rdx", "rsi", "rdi", "rbp", "r8", "r9", "r10",
    "r11", "r12", "r13", "r14", "r15">>

\* The order in which they pop them.
Popped ==
  <<"r15", "r14", "r13", "r12", "r11", "r10", "r9", "r8", "rbp", "rdi",
    "rsi", "rdx", "rcx", "rbx", "rax">>

\* struct registers of interrupt.h, lowest address first.
RegistersStruct ==
  <<"r15", "r14", "r13", "r12", "r11", "r10", "r9", "r8", "rbp", "rdi",
    "rsi", "rdx", "rcx", "rbx", "rax", "int_no", "err_code",
    "rip", "cs", "rflags", "useresp", "ss">>

General == {Pushed[k] : k \in DOMAIN Pushed}
Data    == {"ds", "es", "fs", "gs"}
\* What a C function may overwrite, by the calling convention.
CallerSaved == {"rax", "rcx", "rdx", "rsi", "rdi", "r8", "r9", "r10", "r11"}

VARIABLES
  vec,      \* the vector
  stub_pc,  \* where the stub is
  done,     \* pushes or pops done
  regs,     \* register -> what it holds
  stack,    \* the words above rsp, lowest address first
  hw,       \* history: what the processor pushed, without the error code
  err,      \* history: the error code of the exception, 0 if it has none
  seen      \* history: struct registers as the C handler found it

stubVars == <<vec, stub_pc, done, regs, stack, hw, err, seen>>

KERNEL_DS == 16
CpuFrame == <<"rip", "cs", "rflags", "rsp", "ss">>

StubInit ==
  /\ vec \in GateVectors
  /\ stub_pc = "running" /\ done = 0
  /\ regs = [r \in General \cup Data |-> r]
  /\ stack = <<>> /\ hw = <<>> /\ err = 0 /\ seen = <<>>

\* The processor takes the interrupt, in long mode always with ss and rsp.
TakeInterrupt(e) ==
  /\ stub_pc = "running"
  /\ vec \notin HwErrorCode \ HwErrorZero => e = 0
  /\ hw' = CpuFrame
  /\ err' = e
  /\ stack' = IF vec \in HwErrorCode THEN <<e>> \o CpuFrame ELSE CpuFrame
  /\ stub_pc' = "entry"
  /\ UNCHANGED <<vec, done, regs, seen>>

\* isr<v> or apic_isr<v>: a dummy error code where there is none, the vector.
StubEntry ==
  /\ stub_pc = "entry"
  /\ stack' = (IF vec \in ISR_ERRCODE THEN <<vec>> ELSE <<vec, 0>>) \o stack
  /\ stub_pc' = "push"
  /\ UNCHANGED <<vec, done, regs, hw, err, seen>>

Push ==
  /\ stub_pc = "push"
  /\ stack' = <<regs[Pushed[done + 1]]>> \o stack
  /\ done' = (done + 1) % Len(Pushed)
  /\ stub_pc' = IF done' = 0 THEN "segments" ELSE "push"
  /\ UNCHANGED <<vec, regs, hw, err, seen>>

\* The common stubs load the kernel's data segment, through ax, and rdi; the
\* timer's and the keyboard's do not.
LoadSegments(next) ==
  /\ regs' = IF Stub(vec) \in {"isr_common_stub", "apic_isr_common_stub"}
             THEN [r \in DOMAIN regs |->
                     IF r \in Data THEN KERNEL_DS
                     ELSE IF r = "rax" \/ (r = "rdi" /\ next = "call") THEN "junk"
                     ELSE regs[r]]
             ELSE regs
  /\ stub_pc' = next
  /\ UNCHANGED <<vec, done, stack, hw, err, seen>>

Segments == stub_pc = "segments" /\ LoadSegments("call")

\* The C handler.  It finds its argument above the return address and may
\* overwrite the registers that are not its caller's.  isr_handler halts the
\* system for every vector below 32.
Call ==
  /\ stub_pc = "call"
  /\ seen' = IF Stub(vec) \in {"isr_common_stub", "apic_isr_common_stub"}
             THEN [n \in DOMAIN RegistersStruct |-> stack[n]] ELSE <<>>
  /\ regs' = [r \in DOMAIN regs |-> IF r \in CallerSaved THEN "junk" ELSE regs[r]]
  /\ stub_pc' = IF vec < 32 THEN "halted" ELSE "restore"
  /\ UNCHANGED <<vec, done, stack, hw, err>>

RestoreSegments == stub_pc = "restore" /\ LoadSegments("pop")

\* Fault: the registers are popped in the order they were pushed in.
PopSameOrder ==
  /\ stub_pc = "pop"
  /\ regs' = [regs EXCEPT ![Pushed[done + 1]] = Head(stack)]
  /\ stack' = Tail(stack)
  /\ done' = (done + 1) % Len(Popped)
  /\ stub_pc' = IF done' = 0 THEN "clean" ELSE "pop"
  /\ UNCHANGED <<vec, hw, err, seen>>

Pop ==
  /\ stub_pc = "pop"
  /\ regs' = [regs EXCEPT ![Popped[done + 1]] = Head(stack)]
  /\ stack' = Tail(stack)
  /\ done' = (done + 1) % Len(Popped)
  /\ stub_pc' = IF done' = 0 THEN "clean" ELSE "pop"
  /\ UNCHANGED <<vec, hw, err, seen>>

\* add rsp, 16.
CleanUp ==
  /\ stub_pc = "clean"
  /\ stack' = SubSeq(stack, 3, Len(stack))
  /\ stub_pc' = "iretq"
  /\ UNCHANGED <<vec, done, regs, hw, err, seen>>

StubNext ==
  \/ \E e \in ErrorCodes : TakeInterrupt(e)
  \/ StubEntry \/ Push \/ Segments \/ Call \/ RestoreSegments \/ Pop \/ CleanUp

StubSpec == StubInit /\ [][StubNext]_stubVars

-----------------------------------------------------------------------------
(* Properties.                                                             *)

\* The stub is somewhere, and the registers and the stack hold what was put
\* there.
StubTypeOK ==
  /\ vec \in GateVectors /\ done \in 0 .. (Len(Pushed) - 1)
  /\ stub_pc \in {"running", "entry", "push", "segments", "call", "restore",
                 "pop", "clean", "iretq", "halted"}
  /\ DOMAIN regs = General \cup Data
  /\ Len(stack) <= Len(RegistersStruct) + 1

\* Whatever the vector, and whether or not the processor pushes an error
\* code for it, the C handler finds the vector, the error code and every
\* register of the interrupted code in the field of that name, and behind them
\* the frame of the processor, unless an error code lies in between for which
\* the stub has no place (vector 17).
HandlerSees ==
  seen # <<>> =>
    /\ \A n \in DOMAIN RegistersStruct :
         /\ RegistersStruct[n] = "int_no" => seen[n] = vec
         /\ RegistersStruct[n] = "err_code" => seen[n] = err
         /\ RegistersStruct[n] \in General => seen[n] = RegistersStruct[n]
    /\ vec \notin HwErrorCode \ ISR_ERRCODE => SubSeq(seen, 18, 22) = hw

\* An interrupt that returns does so with every general-purpose register
\* restored, although the C handler and the segment loads overwrite some,
\* and with rsp at the frame the processor pushed.
Transparent ==
  stub_pc = "iretq" => stack = hw /\ \A r \in General : regs[r] = r

\* The C handler finds every register in its field, and an interrupt that
\* returns restores them all.
FrameRight == StubTypeOK /\ HandlerSees /\ Transparent
=============================================================================
