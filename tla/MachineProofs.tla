---------------------------- MODULE MachineProofs ---------------------------
(***************************************************************************)
(* Proofs about what the kernel meets in the machine: the interrupts of    *)
(* module Interrupts, for time slices of any length and devices that raise *)
(* their lines whenever they like; the stubs of module IsrFrame, for all   *)
(* vectors and error codes; the volume module FatMount mounts, for every   *)
(* well-formed one; and what init_pmm of module Boot takes from a memory   *)
(* map, for every map.                                                     *)
(***************************************************************************)
EXTENDS Interrupts, IsrFrame, FatMount, Boot, TLAPS

\* Zenon, which knows no arithmetic, is tried first; a leaf beyond it names SMT.
USE ZenonT(60), SMTT(60)

-----------------------------------------------------------------------------
(* The invariant: what kernel_main has set up, in the order it does so,    *)
(* and which handlers there can be.                                        *)

\* The places of kernel_main up to sti.
Off == {"setup_idt", "setup_pic", "lapic_init", "irq0", "irq1", "sti"}
Places == Off \cup {"timer_init", "add_tasks", "main"}

Table == [v \in Vectors |-> Gate(v)]

Lapic == [enabled : BOOLEAN, timer : BOOLEAN, irr : SUBSET {32, 33}, isr : SUBSET {32, 33}]
Pic == [base : {8, 32}, masked : SUBSET Irqs, irr : SUBSET Irqs]
Running == [v : {32, 33}, at : {"body", "eoi", "iretq"}]

SetUp ==
  /\ pc # "setup_idt" => idt = Table
  /\ pc \notin {"setup_idt", "setup_pic"} => pic.base = 32 /\ pic.masked = Irqs
  /\ pc \in Off => ~iflag /\ active = Idle /\ parked = Idle

Types ==
  /\ pc \in Places /\ iflag \in BOOLEAN /\ obf \in BOOLEAN /\ tick \in 0 .. (SLICE - 1)
  /\ pic \in Pic /\ lapic \in Lapic
  /\ rte \in [Irqs -> [vector : {0, 32, 33}, masked : BOOLEAN]]
  /\ active \in Running \cup {Idle}
  /\ parked \in {Idle, [v |-> 32, at |-> "eoi"]}

\* The vector in service is that of the handler that has not sent its EOI.
InService ==
  /\ active # Idle => parked = Idle /\ ~iflag
  /\ parked # Idle => lapic.isr = {32}
  /\ active # Idle /\ active.at \in {"body", "eoi"} => lapic.isr = {active.v}
  /\ parked = Idle /\ (active = Idle \/ active.at = "iretq") => lapic.isr = {}

IInv == SetUp /\ Types /\ InService

\* A place of a handler is none of the idle processor's.
LEMMA RunningIsNotIdle ==
  /\ Idle.v = -1 /\ Idle.at = "none" /\ Idle \notin Running
  /\ [v |-> 32, at |-> "eoi"] \in Running
BY DEF Idle, Running

\* The gates of the two vectors that are ever used.
LEMMA Gates ==
  /\ 32 \in Vectors /\ 33 \in Vectors
  /\ Table[32] = "apic_timer_handler" /\ Table[33] = "apic_keyboard_handler"
BY SMTT(60) DEF Table, Gate, Vectors

\* The invariant says what the properties do.
LEMMA IInvImplies == IInv => NeverAnException /\ EoiMatches
<1> SUFFICES ASSUME IInv PROVE NeverAnException /\ EoiMatches
  OBVIOUS
<1>1. TypeOK
  BY RunningIsNotIdle, SMTT(60) DEF IInv, Types, TypeOK, Places, Off, Lapic, Pic, Running, Vectors
<1>2. active # Idle => idt[active.v] \in {"apic_timer_handler", "apic_keyboard_handler"}
  <2> SUFFICES ASSUME active # Idle
               PROVE  idt[active.v] \in {"apic_timer_handler", "apic_keyboard_handler"}
    OBVIOUS
  <2>1. pc # "setup_idt" /\ active \in Running
    BY DEF IInv, SetUp, Types, Off
  <2>2. idt = Table /\ active.v \in {32, 33}
    BY <2>1 DEF IInv, SetUp, Running
  <2>. QED
    BY <2>2, Gates
<1>3. EoiMatches
  <2>1. active = Idle \/ active \in Running
    BY DEF IInv, Types
  <2>2. parked = Idle \/ parked = [v |-> 32, at |-> "eoi"]
    BY DEF IInv, Types
  <2>3. CASE active # Idle
    <3>1. parked = Idle /\ active \in Running
      BY <2>1, <2>3 DEF IInv, InService
    <3>2. active.at \in {"body", "eoi", "iretq"} /\ parked.at = "none"
      BY <3>1, RunningIsNotIdle DEF Running
    <3>. QED
      BY <2>3, <3>1, <3>2, SMTT(60) DEF IInv, InService, EoiMatches
  <2>4. CASE active = Idle /\ parked # Idle
    <3>1. parked.v = 32 /\ parked.at = "eoi" /\ active.at = "none"
      BY <2>2, <2>4, RunningIsNotIdle, SMTT(60)
    <3>. QED
      BY <2>4, <3>1, SMTT(60) DEF IInv, InService, EoiMatches
  <2>5. CASE active = Idle /\ parked = Idle
    BY <2>5, RunningIsNotIdle DEF IInv, InService, EoiMatches
  <2>. QED
    BY <2>3, <2>4, <2>5
<1>. QED
  BY <1>1, <1>2, <1>3 DEF NeverAnException

\* It holds when kernel_main starts.
LEMMA IInvInit == Init => IInv
<1> SUFFICES ASSUME Init PROVE IInv
  OBVIOUS
<1>1. pic \in Pic /\ lapic \in Lapic /\ lapic.isr = {}
  BY DEF Init, Pic, Lapic, Irqs
<1>2. rte \in [Irqs -> [vector : {0, 32, 33}, masked : BOOLEAN]]
  BY SMTT(60) DEF Init
<1>3. tick \in 0 .. (SLICE - 1)
  BY InterruptsConstants, SMTT(60) DEF Init
<1>. QED
  BY <1>1, <1>2, <1>3 DEF Init, IInv, SetUp, Types, InService, Places, Off

\* kernel_main's steps.
LEMMA SetupStep ==
  ASSUME IInv, KernelMain
  PROVE  IInv'
<1>0. /\ active = Idle /\ parked = Idle /\ active' = active /\ parked' = parked
      /\ obf' = obf /\ tick' = tick
  BY DEF KernelMain, idt_init, setup_idt, setup_pic, lapic_init, RedirectPit, RedirectKeyboard,
         enable_interrupts, timer_init, add_tasks, Boot
<1>1. /\ pic \in Pic /\ lapic \in Lapic /\ lapic.isr = {} /\ iflag \in BOOLEAN
      /\ rte \in [Irqs -> [vector : {0, 32, 33}, masked : BOOLEAN]]
      /\ obf \in BOOLEAN /\ tick \in 0 .. (SLICE - 1)
  BY <1>0 DEF IInv, Types, InService
<1>2. ASSUME pc' \in Places, iflag' \in BOOLEAN, pic' \in Pic, lapic' \in Lapic, lapic'.isr = {},
             rte' \in [Irqs -> [vector : {0, 32, 33}, masked : BOOLEAN]], SetUp'
      PROVE  IInv'
  BY <1>0, <1>1, <1>2 DEF IInv, Types, InService
<1>3. CASE setup_idt
  BY <1>0, <1>1, <1>2, <1>3 DEF setup_idt, Boot, Places, Off, IInv, SetUp, Table
<1>4. CASE setup_pic
  BY <1>0, <1>1, <1>2, <1>4 DEF setup_pic, Boot, Places, Off, IInv, SetUp, Table, Pic
<1>5. CASE lapic_init
  BY <1>0, <1>1, <1>2, <1>5 DEF lapic_init, Boot, Places, Off, IInv, SetUp, Table, Lapic
<1>6. CASE RedirectPit \/ RedirectKeyboard
  <2>1. PICK irq \in Irqs, vector \in {32, 33} : ioapic_set_irq_redirect(irq, vector)
    BY <1>6 DEF RedirectPit, RedirectKeyboard, Irqs
  <2>2. rte' \in [Irqs -> [vector : {0, 32, 33}, masked : BOOLEAN]]
    BY <1>1, <2>1, SMTT(60) DEF ioapic_set_irq_redirect
  <2>. QED
    BY <1>0, <1>1, <1>2, <1>6, <2>2
       DEF RedirectPit, RedirectKeyboard, Boot, Places, Off, IInv, SetUp
<1>7. CASE enable_interrupts
  BY <1>0, <1>1, <1>2, <1>7 DEF enable_interrupts, Boot, Places, Off, IInv, SetUp
<1>8. CASE timer_init
  BY <1>0, <1>1, <1>2, <1>8 DEF timer_init, Boot, Places, Off, IInv, SetUp, Lapic
<1>9. CASE add_tasks
  BY <1>0, <1>1, <1>2, <1>9 DEF add_tasks, Boot, Places, Off, IInv, SetUp
<1>. QED
  BY <1>3, <1>4, <1>5, <1>6, <1>7, <1>8, <1>9 DEF KernelMain, idt_init

\* An edge reaches the local APIC as one of the two vectors, or not at all.
LEMMA EdgeTypes ==
  ASSUME Types, NEW irq \in Irqs, Edge(irq)
  PROVE  /\ pic' \in Pic /\ pic'.base = pic.base /\ pic'.masked = pic.masked
         /\ lapic' \in Lapic /\ lapic'.isr = lapic.isr
<1>1. pic \in Pic /\ pic' = [pic EXCEPT !.irr = @ \cup {irq}]
  BY DEF Types, Edge
<1>2. pic' \in Pic /\ pic'.base = pic.base /\ pic'.masked = pic.masked
  BY <1>1 DEF Pic
<1>3. rte[irq].vector \in {0, 32, 33} /\ lapic \in Lapic
  BY DEF Types
<1>4. lapic' = lapic \/ \E v \in {32, 33} : lapic' = [lapic EXCEPT !.irr = @ \cup {v}]
  BY <1>3, SMTT(60) DEF Edge
<1>5. lapic' \in Lapic /\ lapic'.isr = lapic.isr
  BY <1>3, <1>4, SMTT(60) DEF Lapic
<1>. QED
  BY <1>2, <1>5

\* The devices.
LEMMA DeviceStep ==
  ASSUME IInv, Pit \/ Key \/ LocalTimer
  PROVE  IInv'
<1>1. /\ pc' = pc /\ idt' = idt /\ iflag' = iflag /\ rte' = rte /\ active' = active
      /\ parked' = parked /\ tick' = tick /\ obf' \in BOOLEAN
  BY DEF Pit, Key, LocalTimer, boot, IInv, Types
<1>2. /\ pic' \in Pic /\ pic'.base = pic.base /\ pic'.masked = pic.masked
      /\ lapic' \in Lapic /\ lapic'.isr = lapic.isr
  <2>1. CASE Pit \/ Key
    <3>1. PICK irq \in Irqs : Edge(irq)
      BY <2>1 DEF Pit, Key, Irqs
    <3>. QED
      BY <3>1, EdgeTypes DEF IInv
  <2>2. CASE LocalTimer
    <3>1. lapic \in Lapic /\ lapic' = [lapic EXCEPT !.irr = @ \cup {32}] /\ pic' = pic /\ pic \in Pic
      BY <2>2 DEF LocalTimer, IInv, Types
    <3>2. lapic' \in Lapic /\ lapic'.isr = lapic.isr
      BY <3>1 DEF Lapic
    <3>. QED
      BY <3>1, <3>2
  <2>. QED
    BY <2>1, <2>2
<1>. QED
  BY <1>1, <1>2 DEF IInv, SetUp, Types, InService

\* Vectors 32 and 33 are of one priority class.
LEMMA OneClass ==
  ASSUME NEW v \in {32, 33}
  PROVE  Class(v) = 2
BY SMTT(60) DEF Class

\* An interrupt is one of the two, and there is no other handler then.
LEMMA DeliverStep ==
  ASSUME IInv, Interrupt
  PROVE  IInv'
<1>1. PICK offer \in Offered : Deliver(offer)
  BY DEF Interrupt
<1>2. /\ iflag /\ active = Idle /\ iflag' = FALSE
      /\ UNCHANGED <<pc, idt, rte, parked, obf, tick>>
  BY <1>1 DEF Deliver, boot
<1>3. pc \notin Off
  BY <1>2 DEF IInv, SetUp
<1>4. pic \in Pic /\ pic.masked = Irqs /\ pic.irr \ pic.masked = {}
  BY <1>3 DEF IInv, SetUp, Types, Pic, Off
<1>5. PICK v \in Deliverable : offer = <<"apic", v>>
  BY <1>1, <1>4 DEF Offered
<1>6. v \in {32, 33} /\ v \in lapic.irr /\ lapic \in Lapic
  BY <1>5 DEF Deliverable, IInv, Types, Lapic
<1>7. parked = Idle
  <2> SUFFICES ASSUME parked # Idle PROVE FALSE
    OBVIOUS
  <2>1. lapic.isr = {32}
    BY DEF IInv, InService
  <2>2. Class(v) > Class(32)
    BY <1>5, <2>1 DEF Deliverable
  <2>. QED
    BY <1>6, <2>2, OneClass, SMTT(60)
<1>8. lapic.isr = {}
  BY <1>2, <1>7 DEF IInv, InService
<1>9. /\ offer[1] = "apic" /\ offer[2] = v /\ active' = [v |-> v, at |-> "body"]
      /\ lapic' = [lapic EXCEPT !.irr = @ \ {v}, !.isr = @ \cup {v}] /\ pic' = pic
  BY <1>1, <1>5 DEF Deliver
<1>10. lapic' \in Lapic /\ lapic'.isr = {v}
  BY <1>6, <1>8, <1>9 DEF Lapic
<1>11. active' \in Running /\ active'.v = v /\ active'.at = "body"
  BY <1>6, <1>9 DEF Running
<1>12. SetUp'
  BY <1>2, <1>3, <1>9 DEF IInv, SetUp
<1>13. Types'
  BY <1>2, <1>9, <1>10, <1>11 DEF IInv, Types
<1>14. InService'
  BY <1>2, <1>7, <1>10, <1>11, RunningIsNotIdle DEF InService
<1>. QED
  BY <1>12, <1>13, <1>14 DEF IInv

\* The largest element of a set of one.
LEMMA MaxOfOne ==
  ASSUME NEW v \in Int
  PROVE  Max({v}) = v
BY SMTT(60) DEF Max

\* The handlers.
LEMMA HandlerStep ==
  ASSUME IInv, Handler \/ SwitchBack
  PROVE  IInv'
<1>0. /\ pc' = pc /\ idt' = idt /\ pic' = pic /\ rte' = rte /\ obf' \in BOOLEAN
      /\ tick' \in 0 .. (SLICE - 1)
  <2>1. pc' = pc /\ idt' = idt /\ pic' = pic /\ rte' = rte /\ obf' \in {obf, FALSE}
        /\ tick' \in {tick, (tick + 1) % SLICE}
    BY DEF Handler, SwitchBack, timer_callback, SwitchAway, KeyRead, apic_eoi, iretq,
           Body, boot
  <2>2. tick \in Nat /\ tick \in 0 .. (SLICE - 1) /\ SLICE \in Nat \ {0}
    BY InterruptsConstants, SMTT(60) DEF IInv, Types
  <2>3. (tick + 1) % SLICE \in 0 .. (SLICE - 1)
    BY <2>2, SMTT(60)
  <2>. QED
    BY <2>1, <2>2, <2>3 DEF IInv, Types
<1>1. ASSUME pc \notin Off, iflag' \in BOOLEAN, lapic' \in Lapic, active' \in Running \cup {Idle},
             parked' \in {Idle, [v |-> 32, at |-> "eoi"]}, InService'
      PROVE  IInv'
  <2>1. SetUp'
    BY <1>0, <1>1 DEF IInv, SetUp
  <2>2. Types'
    BY <1>0, <1>1 DEF IInv, Types
  <2>. QED
    BY <1>1, <2>1, <2>2 DEF IInv
<1>2. active \in Running \cup {Idle} /\ lapic \in Lapic /\ parked \in {Idle, [v |-> 32, at |-> "eoi"]}
      /\ iflag \in BOOLEAN
  BY DEF IInv, Types
<1>3. ASSUME active.at \in {"body", "eoi", "iretq"}
      PROVE  /\ active \in Running /\ active # Idle /\ pc \notin Off /\ parked = Idle /\ ~iflag
             /\ active.at \in {"body", "eoi"} => lapic.isr = {active.v}
             /\ active.at = "iretq" => lapic.isr = {}
  BY <1>2, <1>3, RunningIsNotIdle DEF IInv, InService, SetUp
<1>4. CASE timer_callback \/ KeyRead
  <2>1. /\ active.at = "body" /\ active' = [active EXCEPT !.at = "eoi"]
        /\ iflag' = iflag /\ parked' = parked /\ lapic' = lapic
    BY <1>4 DEF timer_callback, KeyRead, Body
  <2>2. active' \in Running /\ active'.v = active.v /\ active'.at = "eoi"
    BY <1>3, <2>1 DEF Running
  <2>3. InService'
    BY <1>3, <2>1, <2>2, RunningIsNotIdle DEF InService
  <2>. QED
    BY <1>1, <1>2, <1>3, <2>1, <2>2, <2>3
<1>5. CASE SwitchAway
  <2>1. /\ active.at = "body" /\ idt[active.v] = "apic_timer_handler" /\ active' = Idle
        /\ iflag' = TRUE /\ parked' = [active EXCEPT !.at = "eoi"] /\ lapic' = lapic
    BY <1>5 DEF SwitchAway, Body
  <2>2. active.v \in {32, 33} /\ idt = Table
    BY <1>3, <2>1 DEF Running, IInv, SetUp, Off
  <2>3. active.v = 32
    BY <2>1, <2>2, Gates
  <2>4. parked' = [v |-> 32, at |-> "eoi"]
    BY <1>3, <2>1, <2>3 DEF Running
  <2>5. lapic.isr = {32}
    BY <1>3, <2>1, <2>3
  <2>6. InService'
    BY <2>1, <2>4, <2>5, RunningIsNotIdle DEF InService
  <2>. QED
    BY <1>1, <1>2, <1>3, <2>1, <2>4, <2>6
<1>6. CASE apic_eoi
  <2>1. /\ active.at = "eoi" /\ active' = [active EXCEPT !.at = "iretq"]
        /\ iflag' = iflag /\ parked' = parked
        /\ lapic' = IF lapic.isr = {} THEN lapic ELSE [lapic EXCEPT !.isr = @ \ {Max(@)}]
    BY <1>6 DEF apic_eoi
  <2>2. active' \in Running /\ active'.v = active.v /\ active'.at = "iretq" /\ active.v \in {32, 33}
    BY <1>3, <2>1 DEF Running
  <2>3. lapic.isr = {active.v} /\ Max({active.v}) = active.v
    BY <1>3, <2>1, <2>2, MaxOfOne, SMTT(60)
  <2>4. lapic' = [lapic EXCEPT !.isr = {}]
    BY <2>1, <2>3
  <2>5. lapic' \in Lapic /\ lapic'.isr = {}
    BY <1>2, <2>4 DEF Lapic
  <2>6. InService'
    BY <1>3, <2>1, <2>2, <2>5, RunningIsNotIdle DEF InService
  <2>. QED
    BY <1>1, <1>2, <1>3, <2>1, <2>2, <2>5, <2>6
<1>7. CASE iretq
  <2>1. active.at = "iretq" /\ active' = Idle /\ iflag' = TRUE /\ parked' = parked /\ lapic' = lapic
    BY <1>7 DEF iretq
  <2>2. InService'
    BY <1>3, <2>1 DEF InService
  <2>. QED
    BY <1>1, <1>2, <1>3, <2>1, <2>2
<1>8. CASE SwitchBack
  <2>1. /\ parked # Idle /\ active = Idle /\ active' = parked /\ parked' = Idle /\ iflag' = FALSE
        /\ lapic' = lapic
    BY <1>8 DEF SwitchBack
  <2>2. parked \in Running /\ parked.v = 32 /\ parked.at = "eoi" /\ lapic.isr = {32} /\ pc \notin Off
    BY <1>2, <2>1, RunningIsNotIdle, SMTT(60) DEF IInv, InService, SetUp
  <2>3. InService'
    BY <2>1, <2>2, RunningIsNotIdle DEF InService
  <2>. QED
    BY <1>1, <1>2, <2>1, <2>2, <2>3
<1>. QED
  BY <1>4, <1>5, <1>6, <1>7, <1>8 DEF Handler

\* The invariant is inductive.
LEMMA InterruptsStep == IInv /\ [Next]_vars => IInv'
<1> SUFFICES ASSUME IInv, [Next]_vars PROVE IInv'
  OBVIOUS
<1>1. CASE UNCHANGED vars
  BY <1>1 DEF vars, boot, IInv, SetUp, Types, InService
<1>. QED
  BY <1>1, SetupStep, DeviceStep, DeliverStep, HandlerStep DEF Next

-----------------------------------------------------------------------------
(* The theorems.                                                           *)

\* From power-on and whatever the devices do, no interrupt arrives as an
\* exception or at a vector without a gate: the order of idt_init is right.
THEOREM OnlyDeviceVectors == Spec => []NeverAnException
BY IInvInit, InterruptsStep, IInvImplies, PTL DEF Spec

\* The EOI of every handler is for its own interrupt, also when the timer's
\* handler is parked by a task switch.
THEOREM EveryEoiMatches == Spec => []EoiMatches
BY IInvInit, InterruptsStep, IInvImplies, PTL DEF Spec

-----------------------------------------------------------------------------
(* The stubs, for every set of vectors and of error codes.  Pile is the    *)
(* stack with k registers on it, above what the processor and the entry    *)
(* have pushed.                                                            *)

Trap == IF vec \in HwErrorCode THEN <<err>> \o CpuFrame ELSE CpuFrame
Base == (IF vec \in ISR_ERRCODE THEN <<vec>> ELSE <<vec, 0>>) \o Trap
Size(b) == Len(b)
Pile(b, k) == [j \in 1 .. (k + Size(b)) |-> IF j <= k THEN Pushed[k + 1 - j] ELSE b[j - k]]

Restored == \A r \in General : regs[r] = r

StubInv ==
  /\ StubTypeOK /\ HandlerSees
  /\ stub_pc = "running" => stack = <<>>
  /\ stub_pc \in {"running", "entry", "push", "segments", "call"} => seen = <<>>
  /\ stub_pc # "running" => hw = CpuFrame /\ (vec \notin HwErrorCode \ HwErrorZero => err = 0)
  /\ stub_pc \in {"running", "entry", "push"} => Restored
  /\ stub_pc \in {"restore", "pop", "clean", "iretq"} => vec >= 32
  /\ stub_pc \notin {"push", "pop"} => done = 0
  /\ stub_pc = "entry" => stack = Trap
  /\ stub_pc = "push" => stack = Pile(Base, done)
  /\ stub_pc \in {"segments", "call", "restore", "halted"} => stack = Pile(Base, 15)
  /\ stub_pc = "pop" => stack = Pile(Base, 15 - done) /\ \A k \in 1 .. done : regs[Popped[k]] = Popped[k]
  /\ stub_pc = "clean" => stack = Pile(Base, 0) /\ Restored
  /\ stub_pc = "iretq" => stack = hw /\ Restored

\* The registers come off the stack in the opposite order, which is also
\* that of struct registers.
LEMMA Orders ==
  /\ Len(Pushed) = 15 /\ Len(Popped) = 15 /\ Len(RegistersStruct) = 22
  /\ DOMAIN Pushed = 1 .. 15 /\ DOMAIN RegistersStruct = 1 .. 22
  /\ \A k \in 1 .. 15 : Popped[k] = Pushed[16 - k] /\ RegistersStruct[k] = Pushed[16 - k]
BY SMTT(60) DEF Pushed, Popped, RegistersStruct

\* The fields of struct registers that are no registers.
LEMMA FrameFields ==
  /\ RegistersStruct[16] = "int_no" /\ RegistersStruct[17] = "err_code"
  /\ \A n \in 1 .. 22 : /\ RegistersStruct[n] = "int_no" => n = 16
                        /\ RegistersStruct[n] = "err_code" => n = 17
                        /\ RegistersStruct[n] \in General => n \in 1 .. 15
BY SMTT(60) DEF RegistersStruct, General, Pushed

\* What lies above the registers.
LEMMA BaseIs ==
  ASSUME vec \notin HwErrorCode \ HwErrorZero => err = 0
  PROVE  /\ Size(Base) \in 7 .. 8 /\ DOMAIN Base = 1 .. Size(Base)
         /\ Base[1] = vec /\ Base[2] = err
         /\ vec \notin HwErrorCode \ ISR_ERRCODE
              => Size(Base) = 7 /\ \A k \in 1 .. 5 : Base[k + 2] = CpuFrame[k]
<1>1. CASE vec \in ISR_ERRCODE
  BY <1>1, SMTT(60) DEF Size, Base, Trap, ISR_ERRCODE, HwErrorCode, CpuFrame
<1>2. CASE vec \notin ISR_ERRCODE /\ vec \in HwErrorCode
  BY <1>2, SMTT(60) DEF Size, Base, Trap, ISR_ERRCODE, HwErrorCode, HwErrorZero, CpuFrame
<1>3. CASE vec \notin ISR_ERRCODE /\ vec \notin HwErrorCode
  BY <1>3, SMTT(60) DEF Size, Base, Trap, HwErrorCode, HwErrorZero, CpuFrame
<1>. QED
  BY <1>1, <1>2, <1>3

\* A push and a pop on the pile.
LEMMA PushOne ==
  ASSUME NEW k \in 0 .. 14, Size(Base) \in Nat
  PROVE  <<Pushed[k + 1]>> \o Pile(Base, k) = Pile(Base, k + 1)
<1> DEFINE L == Size(Base)
           new == Pushed[k + 1]
           s == <<new>> \o Pile(Base, k)
<1>1. L \in Nat /\ k + L \in Nat
  BY SMTT(60)
<1>2. Pile(Base, k) = [j \in 1 .. (k + L) |-> IF j <= k THEN Pushed[k + 1 - j] ELSE Base[j - k]]
  BY DEF Pile
<1>3. Len(Pile(Base, k)) = k + L /\ \A j \in 1 .. (k + L) : Pile(Base, k)[j] = IF j <= k THEN Pushed[k + 1 - j] ELSE Base[j - k]
  BY <1>1, <1>2, SMTT(60)
<1>4. s = [j \in 1 .. ((k + 1) + L) |-> IF j = 1 THEN new ELSE Pile(Base, k)[j - 1]]
  BY <1>1, <1>3, SMTT(60)
<1>5. Pile(Base, k + 1) = [j \in 1 .. ((k + 1) + L) |-> IF j <= k + 1 THEN Pushed[(k + 1) + 1 - j] ELSE Base[j - (k + 1)]]
  BY DEF Pile
<1>6. \A j \in 1 .. ((k + 1) + L) :
        (IF j = 1 THEN new ELSE Pile(Base, k)[j - 1])
          = IF j <= k + 1 THEN Pushed[(k + 1) + 1 - j] ELSE Base[j - (k + 1)]
  BY <1>1, <1>3, SMTT(60)
<1> HIDE DEF L, new, s
<1>7. s = Pile(Base, k + 1)
  BY <1>1, <1>4, <1>5, <1>6
<1>. QED
  BY <1>7 DEF s, new

LEMMA PopOne ==
  ASSUME NEW k \in 1 .. 15, Size(Base) \in Nat
  PROVE  Head(Pile(Base, k)) = Pushed[k] /\ Tail(Pile(Base, k)) = Pile(Base, k - 1)
<1> DEFINE L == Size(Base)
<1>1. L \in Nat /\ k + L \in Nat
  BY SMTT(60)
<1>2. /\ Len(Pile(Base, k)) = k + L
      /\ \A j \in 1 .. (k + L) : Pile(Base, k)[j] = IF j <= k THEN Pushed[k + 1 - j] ELSE Base[j - k]
  BY <1>1, SMTT(60) DEF Pile
<1>3. Head(Pile(Base, k)) = Pushed[k]
  BY <1>1, <1>2, SMTT(60)
<1>4. Tail(Pile(Base, k)) = [j \in 1 .. ((k - 1) + L) |-> Pile(Base, k)[j + 1]]
  <2>1. PICK S : S = {Pile(Base, k)[j] : j \in 1 .. (k + L)}
    OBVIOUS
  <2>2. Pile(Base, k) \in Seq(S) /\ Pile(Base, k) # <<>>
    BY <1>1, <1>2, <2>1, SMTT(60) DEF Pile
  <2>3. (k + L) - 1 = (k - 1) + L
    BY <1>1, SMTT(60)
  <2>4. /\ Tail(Pile(Base, k)) \in Seq(S) /\ Len(Tail(Pile(Base, k))) = (k - 1) + L
        /\ \A j \in 1 .. ((k - 1) + L) : Tail(Pile(Base, k))[j] = Pile(Base, k)[j + 1]
    BY <1>2, <2>2, <2>3, SMTT(60)
  <2>5. PICK t : t = Tail(Pile(Base, k))
    OBVIOUS
  <2>6. t = [j \in 1 .. Len(t) |-> t[j]]
    <3>1. t \in Seq(S)
      BY <2>4, <2>5
    <3>. QED
      BY <3>1, SMTT(60)
  <2>. QED
    BY <2>4, <2>5, <2>6
<1>5. Pile(Base, k - 1) = [j \in 1 .. ((k - 1) + L) |->
                      IF j <= k - 1 THEN Pushed[(k - 1) + 1 - j] ELSE Base[j - (k - 1)]]
  BY DEF Pile
<1>6. \A j \in 1 .. ((k - 1) + L) :
        Pile(Base, k)[j + 1] = IF j <= k - 1 THEN Pushed[(k - 1) + 1 - j] ELSE Base[j - (k - 1)]
  <2>1. TAKE j \in 1 .. ((k - 1) + L)
  <2>2. /\ j + 1 \in 1 .. (k + L) /\ (j + 1 <= k <=> j <= k - 1)
        /\ k + 1 - (j + 1) = (k - 1) + 1 - j /\ (j + 1) - k = j - (k - 1)
    BY <1>1, SMTT(60)
  <2>3. Pile(Base, k)[j + 1] = IF j + 1 <= k THEN Pushed[k + 1 - (j + 1)] ELSE Base[(j + 1) - k]
    BY <1>2, <2>2, Zenon
  <2>. QED
    BY <2>2, <2>3, Zenon
<1> HIDE DEF L
<1>. QED
  BY <1>1, <1>3, <1>4, <1>5, <1>6

\* Without registers the pile is the base, which add rsp, 16 takes down to
\* the processor's frame.
LEMMA CleanOne ==
  ASSUME Size(Base) = 7, \A k \in 1 .. 5 : Base[k + 2] = CpuFrame[k]
  PROVE  SubSeq(Pile(Base, 0), 3, Len(Pile(Base, 0))) = CpuFrame
<1>1. Len(Pile(Base, 0)) = 7 /\ \A j \in 1 .. 7 : Pile(Base, 0)[j] = Base[j]
  BY SMTT(60) DEF Pile
<1>2. SubSeq(Pile(Base, 0), 3, 7) = [j \in 1 .. 5 |-> Pile(Base, 0)[j + 2]]
  BY <1>1, SMTT(60)
<1>3. CpuFrame = [j \in 1 .. 5 |-> CpuFrame[j]]
  BY SMTT(60) DEF CpuFrame
<1>4. \A j \in 1 .. 5 : Pile(Base, 0)[j + 2] = CpuFrame[j]
  BY <1>1, SMTT(60)
<1>. QED
  BY <1>1, <1>2, <1>3, <1>4

LEMMA StubStart ==
  ASSUME FrameConstants, StubInit PROVE StubInv
BY Orders, SMTT(60) DEF FrameConstants, StubInit, StubInv, StubTypeOK, HandlerSees, Restored

\* The base is the same all the way through the stub.
LEMMA BaseStays ==
  ASSUME UNCHANGED <<vec, err>> PROVE Base' = Base
BY DEF Base, Trap

LEMMA PileLength ==
  ASSUME NEW k \in 0 .. 15, Size(Base) \in 7 .. 8
  PROVE  Len(Pile(Base, k)) <= 23
<1>1. PICK n \in 0 .. 23 : n = k + Size(Base)
  BY SMTT(60)
<1>2. Pile(Base, k) = [j \in 1 .. n |-> IF j <= k THEN Pushed[k + 1 - j] ELSE Base[j - k]]
  BY <1>1 DEF Pile
<1>3. Len(Pile(Base, k)) = n
  BY <1>1, <1>2, SMTT(60)
<1>. QED
  BY <1>1, <1>3, SMTT(60)

\* The processor takes the interrupt.
LEMMA TakeStep ==
  ASSUME FrameConstants, StubInv, NEW e \in ErrorCodes, TakeInterrupt(e)
  PROVE  StubInv'
<1>1. stack' = Trap'
  BY DEF TakeInterrupt, Trap
<1>2. Len(stack') <= 6
  BY SMTT(60) DEF TakeInterrupt, CpuFrame
<1>3. HandlerSees'
  BY DEF StubInv, TakeInterrupt, HandlerSees
<1>. QED
  BY <1>1, <1>2, <1>3, Orders, SMTT(60) DEF StubInv, StubTypeOK, TakeInterrupt, Restored

LEMMA EntryStep ==
  ASSUME FrameConstants, StubInv, StubEntry
  PROVE  StubInv'
<1>1. /\ stub_pc = "entry" /\ stub_pc' = "push" /\ done = 0 /\ stack = Trap /\ seen = <<>>
      /\ UNCHANGED <<vec, done, regs, hw, err, seen>>
  BY DEF StubInv, StubEntry
<1>2. Size(Base) \in 7 .. 8 /\ DOMAIN Base = 1 .. Size(Base)
  BY <1>1, BaseIs DEF StubInv
<1>3. stack' = Base
  BY <1>1 DEF StubEntry, Base
<1>4. Base = Pile(Base, 0)
  <2>1. Pile(Base, 0) = [j \in 1 .. Size(Base) |-> Base[j]]
    BY <1>2, SMTT(60) DEF Pile
  <2>2. Base = [j \in DOMAIN Base |-> Base[j]]
    <3>1. CASE vec \in ISR_ERRCODE
      BY <3>1, SMTT(60) DEF Base, Trap, ISR_ERRCODE, HwErrorCode, CpuFrame
    <3>2. CASE vec \notin ISR_ERRCODE /\ vec \in HwErrorCode
      BY <3>2, SMTT(60) DEF Base, Trap, CpuFrame
    <3>3. CASE vec \notin ISR_ERRCODE /\ vec \notin HwErrorCode
      BY <3>3, SMTT(60) DEF Base, Trap, CpuFrame
    <3>. QED
      BY <3>1, <3>2, <3>3
  <2>. QED
    BY <1>2, <2>1, <2>2
<1>5. stack' = Pile(Base', done')
  BY <1>1, <1>3, <1>4, BaseStays
<1>6. Len(stack') <= 23
  BY <1>2, <1>3, SMTT(60)
<1>7. HandlerSees'
  BY <1>1 DEF HandlerSees
<1>. QED
  BY <1>1, <1>5, <1>6, <1>7, Orders, SMTT(60) DEF StubInv, StubTypeOK, Restored

LEMMA PushStep ==
  ASSUME FrameConstants, StubInv, Push
  PROVE  StubInv'
<1>1. /\ stub_pc = "push" /\ done \in 0 .. 14 /\ stack = Pile(Base, done) /\ seen = <<>>
      /\ UNCHANGED <<vec, regs, hw, err, seen>>
  BY Orders, SMTT(60) DEF StubInv, StubTypeOK, Push
<1>2. Size(Base) \in 7 .. 8 /\ Size(Base) \in Nat /\ done + 1 \in 0 .. 15
  BY <1>1, BaseIs, SMTT(60) DEF StubInv
<1>3. stack' = Pile(Base, done + 1)
  <2>1. Pushed[done + 1] \in General
    BY <1>1, Orders, SMTT(60) DEF General
  <2>2. regs[Pushed[done + 1]] = Pushed[done + 1]
    BY <1>1, <2>1 DEF StubInv, Restored
  <2>3. stack' = <<Pushed[done + 1]>> \o Pile(Base, done)
    BY <1>1, <2>2 DEF Push
  <2>. QED
    BY <1>1, <1>2, <2>3, PushOne
<1>4. Len(stack') <= 23
  <2>1. Len(Pile(Base, done + 1)) <= 23
    BY <1>2, PileLength
  <2>. QED
    BY <1>3, <2>1
<1>5. \/ done < 14 /\ done' = done + 1 /\ stub_pc' = "push"
      \/ done = 14 /\ done' = 0 /\ stub_pc' = "segments"
  <2>1. done' = (done + 1) % 15 /\ stub_pc' = IF done' = 0 THEN "segments" ELSE "push"
    BY Orders DEF Push
  <2>2. CASE done < 14
    BY <1>1, <2>1, <2>2, SMTT(60)
  <2>3. CASE done = 14
    BY <1>1, <2>1, <2>3, SMTT(60)
  <2>. QED
    BY <1>1, <2>2, <2>3, SMTT(60)
<1>6. Base' = Base
  BY <1>1, BaseStays
<1>7. HandlerSees'
  BY <1>1 DEF HandlerSees
<1>8. CASE done < 14 /\ done' = done + 1 /\ stub_pc' = "push"
  <2>1. stack' = Pile(Base', done')
    BY <1>3, <1>6, <1>8
  <2>. QED
    BY <1>1, <1>4, <1>7, <1>8, <2>1, Orders, SMTT(60) DEF StubInv, StubTypeOK, Restored
<1>9. CASE done = 14 /\ done' = 0 /\ stub_pc' = "segments"
  <2>1. stack' = Pile(Base', 15)
    BY <1>3, <1>6, <1>9, SMTT(60)
  <2>. QED
    BY <1>1, <1>4, <1>7, <1>9, <2>1, Orders, SMTT(60) DEF StubInv, StubTypeOK
<1>. QED
  BY <1>5, <1>8, <1>9

\* The steps between the pushes and the pops leave the stack alone.
LEMMA SegmentSteps ==
  ASSUME FrameConstants, StubInv, Segments \/ RestoreSegments
  PROVE  StubInv'
<1>1. /\ \/ stub_pc = "segments" /\ stub_pc' = "call"
         \/ stub_pc = "restore" /\ stub_pc' = "pop"
      /\ UNCHANGED <<vec, done, stack, hw, err, seen>> /\ DOMAIN regs' = DOMAIN regs
  BY DEF Segments, RestoreSegments, LoadSegments
<1>2. Base' = Base /\ done = 0 /\ stack = Pile(Base, 15)
  BY <1>1, BaseStays DEF StubInv
<1>3. HandlerSees'
  BY <1>1 DEF StubInv, HandlerSees
<1>. QED
  BY <1>1, <1>2, <1>3, SMTT(60) DEF StubInv, StubTypeOK

LEMMA CallStep ==
  ASSUME FrameConstants, StubInv, Call
  PROVE  StubInv'
<1>1. /\ stub_pc = "call" /\ done = 0 /\ stack = Pile(Base, 15) /\ hw = CpuFrame
      /\ stub_pc' = IF vec < 32 THEN "halted" ELSE "restore"
      /\ UNCHANGED <<vec, done, stack, hw, err>> /\ DOMAIN regs' = DOMAIN regs
      /\ seen' = <<>> \/ seen' = [n \in 1 .. 22 |-> stack[n]]
  BY Orders DEF StubInv, Call
<1>2. /\ Base' = Base /\ Size(Base) \in 7 .. 8 /\ Base[1] = vec /\ Base[2] = err
      /\ vec \notin HwErrorCode \ ISR_ERRCODE => Size(Base) = 7 /\ \A k \in 1 .. 5 : Base[k + 2] = CpuFrame[k]
  BY <1>1, BaseStays, BaseIs DEF StubInv
<1>3. HandlerSees'
  <2> SUFFICES ASSUME seen' = [n \in 1 .. 22 |-> stack[n]] PROVE HandlerSees'
    BY <1>1 DEF HandlerSees
  <2>1. \A n \in 1 .. 22 : stack[n] = IF n <= 15 THEN Pushed[16 - n] ELSE Base[n - 15]
    <3>1. \A n \in 1 .. 22 : n \in 1 .. (15 + Size(Base)) /\ 15 + 1 - n = 16 - n
      BY <1>2, SMTT(60)
    <3>2. \A n \in 1 .. (15 + Size(Base)) : stack[n] = IF n <= 15 THEN Pushed[15 + 1 - n] ELSE Base[n - 15]
      BY <1>1 DEF Pile
    <3>. QED
      BY <3>1, <3>2, SMTT(60)
  <2>2. \A n \in 1 .. 22 : seen'[n] = IF n <= 15 THEN Pushed[16 - n] ELSE Base[n - 15]
    BY <2>1
  <2>3. seen'[16] = vec /\ seen'[17] = err /\ \A n \in 1 .. 15 : seen'[n] = RegistersStruct[n]
    BY <1>2, <2>2, Orders, SMTT(60)
  <2>4. ASSUME vec \notin HwErrorCode \ ISR_ERRCODE PROVE SubSeq(seen', 18, 22) = CpuFrame
    <3>1. SubSeq(seen', 18, 22) = [j \in 1 .. 5 |-> seen'[j + 17]]
      BY SMTT(60)
    <3>2. \A j \in 1 .. 5 : seen'[j + 17] = CpuFrame[j]
      BY <1>2, <2>2, <2>4, SMTT(60)
    <3>3. CpuFrame = [j \in 1 .. 5 |-> CpuFrame[j]]
      BY SMTT(60) DEF CpuFrame
    <3>. QED
      BY <3>1, <3>2, <3>3
  <2>. QED
    BY <1>1, <2>3, <2>4, Orders, FrameFields DEF HandlerSees
<1>4. vec \in Nat
  BY DEF StubInv, StubTypeOK, FrameConstants
<1>. QED
  BY <1>1, <1>2, <1>3, <1>4, SMTT(60) DEF StubInv, StubTypeOK

\* A pop gives a register its value back and disturbs none that has it.
LEMMA PopStep ==
  ASSUME FrameConstants, StubInv, Pop
  PROVE  StubInv'
<1>1. /\ stub_pc = "pop" /\ done \in 0 .. 14 /\ stack = Pile(Base, 15 - done)
      /\ UNCHANGED <<vec, hw, err, seen>> /\ vec >= 32
      /\ \A k \in 1 .. done : regs[Popped[k]] = Popped[k]
  BY Orders, SMTT(60) DEF StubInv, StubTypeOK, Pop
<1>2. /\ Size(Base) \in 7 .. 8 /\ Size(Base) \in Nat /\ Base' = Base
      /\ 15 - done \in 1 .. 15 /\ 15 - (done + 1) \in 0 .. 15 /\ (15 - done) - 1 = 15 - (done + 1)
  BY <1>1, BaseStays, BaseIs, SMTT(60) DEF StubInv
<1>3. Head(stack) = Pushed[15 - done] /\ stack' = Pile(Base, 15 - (done + 1))
  <2>1. Head(Pile(Base, 15 - done)) = Pushed[15 - done]
    BY <1>2, PopOne
  <2>2. Tail(Pile(Base, 15 - done)) = Pile(Base, (15 - done) - 1)
    BY <1>2, PopOne
  <2>. QED
    BY <1>1, <1>2, <2>1, <2>2 DEF Pop
<1>4. Head(stack) = Popped[done + 1] /\ Popped[done + 1] \in General
  <2>1. done + 1 \in 1 .. 15 /\ 16 - (done + 1) = 15 - done /\ 15 - done \in 1 .. 15
    BY <1>1, SMTT(60)
  <2>. QED
    BY <1>3, <2>1, Orders DEF General
<1>5. /\ DOMAIN regs' = DOMAIN regs /\ DOMAIN regs = General \cup Data
      /\ \A k \in 1 .. (done + 1) : regs'[Popped[k]] = Popped[k]
  <2>1. DOMAIN regs = General \cup Data /\ regs' = [regs EXCEPT ![Popped[done + 1]] = Popped[done + 1]]
    BY <1>4 DEF StubInv, StubTypeOK, Pop
  <2>2. \A k \in 1 .. 15 : Popped[k] \in General
    BY Orders, SMTT(60) DEF General
  <2>. QED
    BY <1>1, <1>4, <2>1, <2>2, SMTT(60)
<1>6. Len(stack') <= 23
  <2>1. Len(Pile(Base, 15 - (done + 1))) <= 23
    BY <1>2, PileLength
  <2>. QED
    BY <1>3, <2>1
<1>7. HandlerSees'
  BY <1>1 DEF StubInv, HandlerSees
<1>8. \/ done < 14 /\ done' = done + 1 /\ stub_pc' = "pop"
      \/ done = 14 /\ done' = 0 /\ stub_pc' = "clean"
  <2>1. done' = (done + 1) % 15 /\ stub_pc' = IF done' = 0 THEN "clean" ELSE "pop"
    BY Orders DEF Pop
  <2>2. CASE done < 14
    BY <1>1, <2>1, <2>2, SMTT(60)
  <2>3. CASE done = 14
    BY <1>1, <2>1, <2>3, SMTT(60)
  <2>. QED
    BY <1>1, <2>2, <2>3, SMTT(60)
<1>9. CASE done < 14 /\ done' = done + 1 /\ stub_pc' = "pop"
  BY <1>1, <1>2, <1>3, <1>5, <1>6, <1>7, <1>9, Orders, SMTT(60) DEF StubInv, StubTypeOK
<1>10. CASE done = 14 /\ done' = 0 /\ stub_pc' = "clean"
  <2>1. \A r \in General : regs'[r] = r
    <3> SUFFICES ASSUME NEW k \in 1 .. 15 PROVE regs'[Pushed[k]] = Pushed[k]
      BY Orders, SMTT(60) DEF General
    <3>1. 16 - k \in 1 .. (done + 1) /\ 16 - k \in 1 .. 15 /\ 16 - (16 - k) = k
      BY <1>10, SMTT(60)
    <3>2. Popped[16 - k] = Pushed[k]
      BY <3>1, Orders
    <3>. QED
      BY <1>5, <3>1, <3>2
  <2>2. stack' = Pile(Base', 0)
    BY <1>2, <1>3, <1>10, SMTT(60)
  <2>. QED
    <3>1. StubTypeOK'
      BY <1>1, <1>5, <1>6, <1>10, Orders, SMTT(60) DEF StubInv, StubTypeOK
    <3>2. Restored'
      BY <2>1 DEF Restored
    <3>. QED
      BY <1>1, <1>7, <1>10, <2>2, <3>1, <3>2 DEF StubInv
<1>. QED
  BY <1>8, <1>9, <1>10

LEMMA CleanUpStep ==
  ASSUME FrameConstants, StubInv, CleanUp
  PROVE  StubInv'
<1>1. /\ stub_pc = "clean" /\ stub_pc' = "iretq" /\ stack = Pile(Base, 0) /\ vec >= 32 /\ hw = CpuFrame
      /\ UNCHANGED <<vec, done, regs, hw, err, seen>>
  BY DEF StubInv, CleanUp
<1>2. vec \in Nat
  BY DEF StubInv, StubTypeOK, FrameConstants
<1>3. Size(Base) = 7 /\ \A k \in 1 .. 5 : Base[k + 2] = CpuFrame[k]
  <2>1. vec \notin HwErrorCode \ ISR_ERRCODE
    BY <1>1, <1>2, SMTT(60) DEF HwErrorCode
  <2>. QED
    BY <1>1, <2>1, BaseIs DEF StubInv
<1>4. stack' = CpuFrame
  BY <1>1, <1>3, CleanOne DEF CleanUp
<1>5. Len(stack') <= 23
  BY <1>4, SMTT(60) DEF CpuFrame
<1>6. HandlerSees'
  BY <1>1 DEF StubInv, HandlerSees
<1>. QED
  BY <1>1, <1>4, <1>5, <1>6, Orders, SMTT(60) DEF StubInv, StubTypeOK, Restored

LEMMA StubStep ==
  ASSUME FrameConstants, StubInv, [StubNext]_stubVars
  PROVE  StubInv'
<1>1. CASE UNCHANGED stubVars
  <2>1. UNCHANGED <<vec, stub_pc, done, regs, stack, hw, err, seen>>
    BY <1>1 DEF stubVars
  <2>2. Base' = Base /\ Trap' = Trap
    BY <2>1 DEF Base, Trap
  <2>3. HandlerSees' /\ StubTypeOK'
    BY <2>1 DEF StubInv, HandlerSees, StubTypeOK
  <2>. QED
    BY <2>1, <2>2, <2>3, SMTT(60) DEF StubInv, Restored
<1>. QED
  BY <1>1, TakeStep, EntryStep, PushStep, SegmentSteps, CallStep, PopStep, CleanUpStep DEF StubNext

\* For every set of vectors and whatever the error codes, the C handler finds
\* every register of the interrupted code, the vector and the error code in
\* the fields of struct registers, and an interrupt that returns restores the
\* registers and leaves the stack at the processor's frame.
THEOREM StubsAreTransparent == FrameConstants => (StubSpec => []FrameRight)
<1> SUFFICES ASSUME FrameConstants PROVE StubSpec => []FrameRight
  OBVIOUS
<1>1. StubInit => StubInv
  BY StubStart
<1>2. StubInv /\ [StubNext]_stubVars => StubInv'
  BY StubStep
<1>3. StubInv => FrameRight
  BY DEF StubInv, FrameRight, Transparent, Restored
<1>. QED
  BY <1>1, <1>2, <1>3, PTL DEF StubSpec

-----------------------------------------------------------------------------
(* Mounting: the arithmetic of the boot sector.                            *)

\* A quotient, from its remainder.
LEMMA Quotient ==
  ASSUME NEW d \in Nat \ {0}, NEW k \in Nat, NEW m \in 0 .. (d - 1)
  PROVE  (k * d + m) \div d = k /\ (k * d + m) % d = m
<1> DEFINE a == k * d + m
           q == a \div d
           r == a % d
<1>1. k * d \in Nat /\ a \in Nat
  BY SMTT(60)
<1>2. a = d * q + r /\ r \in 0 .. (d - 1) /\ q \in Int
  <2> HIDE DEF a
  <2>. QED
    BY <1>1, SMTT(60)
<1>3. a = k * d + m
  OBVIOUS
<1> HIDE DEF a, q, r
<1>4. q = k
  <2>1. CASE q >= k + 1
    <3>1. d * q >= d * (k + 1) /\ d * (k + 1) = k * d + d
      BY <1>2, <2>1, SMTT(60)
    <3>. QED
      BY <1>2, <1>3, <3>1, SMTT(60)
  <2>2. CASE q <= k - 1
    <3>1. d * q <= d * (k - 1) /\ d * (k - 1) = k * d - d
      BY <1>2, <2>2, SMTT(60)
    <3>. QED
      BY <1>2, <1>3, <3>1, SMTT(60)
  <2>. QED
    BY <1>2, <2>1, <2>2, SMTT(60)
<1>5. r = m
  <2>1. d * q = k * d
    BY <1>4, SMTT(60)
  <2>. QED
    BY <1>2, <1>3, <2>1, SMTT(60)
<1>. QED
  BY <1>4, <1>5 DEF a, q, r

\* Rounding up changes nothing when the division leaves no remainder.
LEMMA RoundingUp ==
  ASSUME NEW a \in Nat, a % 512 = 0
  PROVE  (a + (512 - 1)) \div 512 = a \div 512 /\ a \div 512 \in Nat
  BY SMTT(60)

Numbers(v) == \A f \in Fields : v[f] \in Nat

\* The fields are numbers.
LEMMA FieldsAreNumbers ==
  ASSUME NEW v, Numbers(v)
  PROVE  /\ v.reserved \in Nat /\ v.fats \in Nat /\ v.fat_size \in Nat /\ v.root_entries \in Nat
         /\ v.spc \in Nat /\ v.clusters \in Nat /\ v.left \in Nat
  BY DEF Numbers, Fields

Total(v) == v.reserved + v.fats * v.fat_size + RootSectors(v) + v.clusters * v.spc + v.left

\* What fat_mount reads of the sizes is what the formatter wrote.
LEMMA SizesRead ==
  ASSUME NEW v, Numbers(v), WellFormedVolume(v)
  PROVE  LET b == boot_sector(v) IN
         /\ (IF b.fat_size_16 = 0 THEN b.fat_size_32 ELSE b.fat_size_16) = v.fat_size
         /\ (IF b.total_sectors_16 = 0 THEN b.total_sectors_32 ELSE b.total_sectors_16) = Total(v)
         /\ (b.root_entries * 32 + (SECTOR - 1)) \div SECTOR = RootSectors(v)
         /\ RootSectors(v) \in Nat /\ v.fats * v.fat_size \in Nat /\ v.clusters * v.spc \in Nat
<1> DEFINE b == boot_sector(v)
<1>1. /\ v.reserved \in Nat /\ v.fats \in Nat /\ v.fat_size \in Nat /\ v.root_entries \in Nat
      /\ v.spc \in Nat /\ v.clusters \in Nat /\ v.left \in Nat
  BY FieldsAreNumbers
<1>2. /\ v.type # "FAT32" => b.fat_size_16 = v.fat_size
      /\ v.type = "FAT32" => b.fat_size_16 = 0 /\ b.fat_size_32 = v.fat_size
      /\ b.root_entries = v.root_entries
  <2>1. CASE v.type # "FAT32"
    BY <2>1, SMTT(60) DEF boot_sector
  <2>2. CASE v.type = "FAT32"
    BY <2>2, SMTT(60) DEF boot_sector
  <2>. QED
    BY <2>1, <2>2
<1>9. /\ Total(v) < 65536 => b.total_sectors_16 = Total(v)
      /\ ~(Total(v) < 65536) => b.total_sectors_16 = 0 /\ b.total_sectors_32 = Total(v)
  BY SMTT(60) DEF boot_sector, Total
<1> HIDE DEF b
<1>3. v.fat_size # 0
  <2>1. /\ v.type \in {"FAT12", "FAT16", "FAT32"}
        /\ v.fat_size * SECTOR * 8 >= (v.clusters + 2) *
             (CASE v.type = "FAT12" -> 12 [] v.type = "FAT16" -> 16 [] v.type = "FAT32" -> 32)
    BY SMTT(60) DEF WellFormedVolume
  <2>2. v.fat_size = 0 => v.fat_size * SECTOR * 8 = 0
    BY SMTT(60) DEF SECTOR
  <2>3. (v.clusters + 2) * 12 > 0 /\ (v.clusters + 2) * 16 > 0 /\ (v.clusters + 2) * 32 > 0
    BY <1>1, SMTT(60)
  <2>4. CASE v.type = "FAT12"
    BY <1>1, <2>1, <2>2, <2>3, <2>4, SMTT(60)
  <2>5. CASE v.type = "FAT16"
    BY <1>1, <2>1, <2>2, <2>3, <2>5, SMTT(60)
  <2>6. CASE v.type = "FAT32"
    BY <1>1, <2>1, <2>2, <2>3, <2>6, SMTT(60)
  <2>. QED
    BY <2>1, <2>4, <2>5, <2>6
<1>4. (IF b.fat_size_16 = 0 THEN b.fat_size_32 ELSE b.fat_size_16) = v.fat_size
  <2>1. CASE v.type # "FAT32"
    <3>1. b.fat_size_16 = v.fat_size
      BY <1>2, <2>1
    <3>. QED
      BY <1>3, <3>1
  <2>2. CASE v.type = "FAT32"
    <3>1. b.fat_size_16 = 0 /\ b.fat_size_32 = v.fat_size
      BY <1>2, <2>2
    <3>. QED
      BY <3>1
  <2>. QED
    BY <2>1, <2>2
<1>5. /\ (v.root_entries * 32 + (SECTOR - 1)) \div SECTOR = RootSectors(v)
      /\ RootSectors(v) \in Nat
  <2> DEFINE a == v.root_entries * 32
  <2>1. a \in Nat /\ a % 512 = 0
    BY <1>1, SMTT(60) DEF WellFormedVolume, SECTOR
  <2> HIDE DEF a
  <2>2. (a + (512 - 1)) \div 512 = a \div 512 /\ a \div 512 \in Nat
    BY <2>1, RoundingUp, SMTT(60)
  <2>. QED
    BY <2>2, SMTT(60) DEF a, RootSectors, SECTOR
<1>6. v.fats * v.fat_size \in Nat /\ v.clusters * v.spc \in Nat
  BY <1>1, SMTT(60)
<1>7. Total(v) \in Nat /\ Total(v) > 0
  BY <1>1, <1>5, <1>6, SMTT(60) DEF Total, WellFormedVolume
<1>8. (IF b.total_sectors_16 = 0 THEN b.total_sectors_32 ELSE b.total_sectors_16) = Total(v)
  <2>1. CASE Total(v) < 65536
    BY <1>7, <1>9, <2>1, SMTT(60)
  <2>2. CASE ~(Total(v) < 65536)
    BY <1>9, <2>2, SMTT(60)
  <2>. QED
    BY <2>1, <2>2, SMTT(60)
<1>. QED
  BY <1>2, <1>4, <1>5, <1>6, <1>8 DEF b

\* The numbers fat_mount derives.
LEMMA DerivedRight ==
  ASSUME NEW v, Numbers(v), WellFormedVolume(v), NEW p
  PROVE  LET d == Derived(boot_sector(v), p) IN
         /\ d.fat_start = v.reserved
         /\ d.root_start = v.reserved + v.fats * v.fat_size
         /\ d.data_start = v.reserved + v.fats * v.fat_size + RootSectors(v)
         /\ d.fat_size = v.fat_size
         /\ d.cluster_count = v.clusters
         /\ d.cluster_size = v.spc * SECTOR
         /\ d.fat_type = v.type
         /\ d.fat = p
<1> DEFINE b == boot_sector(v)
           sectors_of_fat == IF b.fat_size_16 = 0 THEN b.fat_size_32 ELSE b.fat_size_16
           sectors_in_all == IF b.total_sectors_16 = 0 THEN b.total_sectors_32 ELSE b.total_sectors_16
           root == (b.root_entries * 32 + (SECTOR - 1)) \div SECTOR
           data == sectors_in_all - (v.reserved + v.fats * v.fat_size + root)
<1>1. /\ v.reserved \in Nat /\ v.fats \in Nat /\ v.fat_size \in Nat /\ v.root_entries \in Nat
      /\ v.spc \in Nat /\ v.clusters \in Nat /\ v.left \in Nat
  BY FieldsAreNumbers
<1>2. /\ sectors_of_fat = v.fat_size /\ sectors_in_all = Total(v) /\ root = RootSectors(v)
      /\ RootSectors(v) \in Nat /\ v.fats * v.fat_size \in Nat /\ v.clusters * v.spc \in Nat
  BY SizesRead
<1>3. b.reserved_sectors = v.reserved /\ b.num_fats = v.fats /\ b.sectors_per_cluster = v.spc
  BY SMTT(60) DEF boot_sector
<1> HIDE DEF b, sectors_of_fat, sectors_in_all, root
<1>4. data = v.clusters * v.spc + v.left
  BY <1>1, <1>2, SMTT(60) DEF Total
<1>5. data \div v.spc = v.clusters
  <2>1. v.spc \in Nat \ {0} /\ v.left \in 0 .. (v.spc - 1)
    BY <1>1, SMTT(60) DEF WellFormedVolume
  <2>. QED
    BY <1>1, <1>4, <2>1, Quotient
<1> HIDE DEF data
<1>6. Derived(b, p) =
        [fat_start |-> v.reserved, root_start |-> v.reserved + v.fats * v.fat_size,
         data_start |-> v.reserved + v.fats * v.fat_size + RootSectors(v), fat_size |-> v.fat_size,
         cluster_count |-> v.clusters, cluster_size |-> v.spc * SECTOR,
         fat_type |-> FatType(v.clusters), fat |-> p]
  <2>1. sectors_of_fat = IF b.fat_size_16 = 0 THEN b.fat_size_32 ELSE b.fat_size_16
    BY DEF sectors_of_fat
  <2>2. sectors_in_all = IF b.total_sectors_16 = 0 THEN b.total_sectors_32 ELSE b.total_sectors_16
    BY DEF sectors_in_all
  <2>3. root = (b.root_entries * 32 + (SECTOR - 1)) \div SECTOR
    BY DEF root
  <2>4. data = sectors_in_all - (v.reserved + v.fats * v.fat_size + root)
    BY DEF data
  <2>. QED
    BY <1>2, <1>3, <1>5, <2>1, <2>2, <2>3, <2>4, Zenon DEF Derived
<1>7. FatType(v.clusters) = v.type
  BY SMTT(60) DEF WellFormedVolume, FatType
<1>. QED
  BY <1>6, <1>7, SMTT(60) DEF b

\* They are what the formatter laid out.
LEMMA DerivedDescribes ==
  ASSUME NEW v, Numbers(v), WellFormedVolume(v), NEW p
  PROVE  Describes(Derived(boot_sector(v), p), v)
<1> DEFINE d == Derived(boot_sector(v), p)
<1>1. /\ v.reserved \in Nat /\ v.fats \in Nat /\ v.fat_size \in Nat /\ v.root_entries \in Nat
      /\ v.spc \in Nat \ {0} /\ v.clusters \in Nat /\ v.left \in Nat
  BY FieldsAreNumbers, SMTT(60) DEF WellFormedVolume
<1>2. /\ d.fat_start = v.reserved
      /\ d.root_start = v.reserved + v.fats * v.fat_size
      /\ d.data_start = v.reserved + v.fats * v.fat_size + RootSectors(v)
      /\ d.fat_size = v.fat_size
      /\ d.cluster_count = v.clusters
      /\ d.cluster_size = v.spc * SECTOR
      /\ d.fat_type = v.type
  BY DerivedRight
<1>3. RootSectors(v) \in Nat /\ v.fats * v.fat_size \in Nat /\ v.clusters * v.spc \in Nat
  BY SizesRead
<1>4. (v.spc * SECTOR) \div SECTOR = v.spc
  <2>1. (v.spc * 512 + 0) \div 512 = v.spc
    BY <1>1, Quotient, SMTT(60)
  <2>. QED
    BY <1>1, <2>1, SMTT(60) DEF SECTOR
<1>5. (v.clusters + 2) * (CASE v.type = "FAT12" -> 12 [] v.type = "FAT16" -> 16 [] OTHER -> 32)
        <= v.fat_size * SECTOR * 8
  <2>1. /\ v.type \in {"FAT12", "FAT16", "FAT32"}
        /\ v.fat_size * SECTOR * 8 >= (v.clusters + 2) *
             (CASE v.type = "FAT12" -> 12 [] v.type = "FAT16" -> 16 [] v.type = "FAT32" -> 32)
    BY SMTT(60) DEF WellFormedVolume
  <2>2. v.fat_size * SECTOR * 8 \in Int
    BY <1>1, SMTT(60) DEF SECTOR
  <2>3. CASE v.type = "FAT12"
    BY <1>1, <2>1, <2>2, <2>3
  <2>4. CASE v.type = "FAT16"
    BY <1>1, <2>1, <2>2, <2>4
  <2>5. CASE v.type = "FAT32"
    BY <1>1, <2>1, <2>2, <2>5
  <2>. QED
    BY <2>1, <2>3, <2>4, <2>5
<1> HIDE DEF d
<1>6. d.cluster_size \div SECTOR = v.spc
  BY <1>2, <1>4
<1>7. d.data_start + (2 - 2) * (d.cluster_size \div SECTOR) = d.root_start + RootSectors(v)
  <2>1. (2 - 2) * v.spc = 0
    BY <1>1, SMTT(60)
  <2>. QED
    BY <1>1, <1>2, <1>3, <1>6, <2>1, SMTT(60)
<1>8. d.data_start + ((d.cluster_count + 2) - 2) * (d.cluster_size \div SECTOR) = Total(v) - v.left
  <2>1. ((v.clusters + 2) - 2) * v.spc = v.clusters * v.spc
    BY <1>1, SMTT(60)
  <2>2. d.data_start + ((v.clusters + 2) - 2) * v.spc = Total(v) - v.left
    BY <1>1, <1>2, <1>3, <2>1, SMTT(60) DEF Total
  <2>. QED
    BY <1>2, <1>6, <2>2, Zenon
<1>9. /\ cluster_to_sector(d, 2) = d.root_start + RootSectors(v)
      /\ cluster_to_sector(d, d.cluster_count + 2) = Total(v) - v.left
  BY <1>7, <1>8, Zenon DEF cluster_to_sector
<1>10. (d.cluster_count + 2) * (CASE d.fat_type = "FAT12" -> 12 [] d.fat_type = "FAT16" -> 16 [] OTHER -> 32)
         <= d.fat_size * SECTOR * 8
  BY <1>2, <1>5
<1>11. d.root_start = d.fat_start + v.fats * v.fat_size
  BY <1>2
<1>12. Describes(d, v)
  BY <1>2, <1>9, <1>10, <1>11 DEF Describes, Total
<1>. QED
  BY <1>12 DEF d

-----------------------------------------------------------------------------
(* The inductive invariant: with both properties, that fat is NULL after   *)
(* fat_unmount, which is why a second one frees nothing, and that what fat *)
(* points to is either the copy or nothing the file system owns.           *)

FatHeap ==
  /\ owner \in [Blocks -> {"none", "fat", "other"}]
  /\ fs.fat \in Blocks \cup {NULL} /\ fs.fat \notin lost
  /\ copy = {} \/ copy = {fs.fat}
  /\ status = "unmounted" => fs.fat = NULL

MountInv ==
  /\ volume \in Volumes /\ status \in {"none", "mounted", "failed", "unmounted"}
  /\ FatHeap /\ FatOwned /\ GeometryRight

\* Nothing is mounted at first.
LEMMA MountInitHolds == FatMountConstants /\ MountInit => MountInv
<1> SUFFICES ASSUME FatMountConstants, MountInit PROVE MountInv
  OBVIOUS
<1>1. fs.fat \in Blocks
  BY SMTT(60) DEF MountInit
<1>. QED
  BY <1>1 DEF MountInit, MountInv, FatHeap, FatOwned, GeometryRight

\* What Derived keeps of the pointer.
LEMMA DerivedFat == ASSUME NEW b, NEW p PROVE Derived(b, p).fat = p
  BY SMTT(60) DEF Derived

\* A mount, in each of its outcomes.
LEMMA MountStep ==
  ASSUME FatMountConstants, MountInv, ~wrong, fat_mount
  PROVE  MountInv'
<1>1. UNCHANGED <<volume, wrong, misused>>
  BY DEF fat_mount
<1>2. ASSUME MountNoBoot PROVE MountInv'
  BY <1>1, <1>2 DEF MountNoBoot, MountInv, FatHeap, FatOwned, GeometryRight
<1>3. ASSUME NEW p \in Blocks \cup {NULL}, p \notin copy \cup lost, Overwritten(p, {}),
             status' = "failed", owner' = owner
      PROVE  MountInv'
  <2>1. fs'.fat = p /\ copy' = {} /\ lost' = lost \cup copy
    BY <1>3, DerivedFat DEF Overwritten
  <2>2. FatHeap' /\ FatOwned'
    BY <1>1, <1>3, <2>1 DEF MountInv, FatHeap, FatOwned
  <2>. QED
    BY <1>1, <1>3, <2>2 DEF MountInv, GeometryRight
<1>4. \A b \in Blocks : owner[b] = "none" => b \notin copy \cup lost
  BY DEF MountInv, FatOwned
<1>5. copy \cup lost \subseteq Blocks
  BY DEF MountInv, FatOwned
<1>6. ASSUME MountNoMemory PROVE MountInv'
  <2>1. NULL \notin copy \cup lost
    BY <1>5 DEF FatMountConstants
  <2>. QED
    BY <1>3, <1>6, <2>1 DEF MountNoMemory
<1>7. ASSUME NEW b \in Blocks, MountNoFat(b) PROVE MountInv'
  BY <1>3, <1>4, <1>7 DEF MountNoFat
<1>8. ASSUME NEW b \in Blocks, Mounted(b) PROVE MountInv'
  <2>1. /\ owner[b] = "none" /\ owner' = [owner EXCEPT ![b] = "fat"]
        /\ fs' = Derived(boot_sector(volume), b) /\ status' = "mounted"
        /\ copy' = {b} /\ lost' = lost \cup copy
    BY <1>8 DEF Mounted, Overwritten, kmalloc
  <2>2. GeometryRight' /\ fs'.fat = b
    <3>1. WellFormedVolume(volume) /\ Numbers(volume)
      BY DEF MountInv, FatMountConstants, Numbers
    <3>. QED
      BY <1>1, <2>1, <3>1, DerivedDescribes, DerivedFat DEF GeometryRight
  <2>3. FatHeap'
    BY <1>4, <2>1, <2>2 DEF MountInv, FatHeap
  <2>4. {x \in Blocks : owner'[x] = "fat"} = {b} \cup {x \in Blocks : owner[x] = "fat"}
    BY <2>1 DEF MountInv, FatHeap
  <2>5. FatOwned'
    BY <1>1, <2>1, <2>2, <2>4 DEF MountInv, FatOwned
  <2>. QED
    BY <1>1, <2>1, <2>2, <2>3, <2>5 DEF MountInv
<1>. QED
  BY <1>2, <1>6, <1>7, <1>8 DEF fat_mount

\* An unmount, whatever came before it.
LEMMA UnmountStep ==
  ASSUME FatMountConstants, MountInv, ~wrong, fat_unmount
  PROVE  MountInv'
<1>1. /\ UNCHANGED <<volume, lost>> /\ status' = "unmounted" /\ copy' = {}
      /\ misused' = (status \in {"none", "failed"})
      /\ fs' = [fs EXCEPT !.fat = NULL]
      /\ owner' = IF fs.fat = NULL THEN owner ELSE [owner EXCEPT ![fs.fat] = "none"]
      /\ wrong' = (wrong \/ (fs.fat # NULL /\ owner[fs.fat] # "fat"))
  BY DEF fat_unmount, FreeFat, kfree
<1>2. fs'.fat = NULL /\ NULL \notin lost
  <2>1. fs'.fat = NULL
    BY <1>1, SMTT(60)
  <2>2. lost \subseteq Blocks
    BY DEF MountInv, FatOwned
  <2>. QED
    BY <2>1, <2>2 DEF FatMountConstants
<1>3. FatHeap'
  BY <1>1, <1>2 DEF MountInv, FatHeap
<1>4. {b \in Blocks : owner'[b] = "fat"} = lost
  <2>1. {b \in Blocks : owner'[b] = "fat"} = {b \in Blocks : owner[b] = "fat"} \ {fs.fat}
    BY <1>1 DEF MountInv, FatHeap, FatMountConstants
  <2>. QED
    BY <2>1 DEF MountInv, FatHeap, FatOwned
<1>5. wrong' => misused'
  <2> SUFFICES ASSUME wrong' PROVE status \in {"none", "failed"}
    BY <1>1
  <2>1. fs.fat # NULL /\ owner[fs.fat] # "fat"
    BY <1>1
  <2>2. status # "unmounted" /\ status # "mounted"
    BY <2>1 DEF MountInv, FatHeap, FatOwned
  <2>. QED
    BY <2>2 DEF MountInv
<1>. QED
  BY <1>1, <1>3, <1>4, <1>5 DEF MountInv, FatOwned, GeometryRight

\* What else happens to the heap and to the drive.
LEMMA MountOthers ==
  ASSUME FatMountConstants, MountInv, OthersAlloc \/ OthersFree \/ ChangeVolume
  PROVE  MountInv'
<1>1. ASSUME OthersAlloc \/ OthersFree PROVE MountInv'
  <2>1. PICK b \in Blocks, who \in {"none", "other"} :
          owner[b] # "fat" /\ owner' = [owner EXCEPT ![b] = who]
    BY <1>1 DEF OthersAlloc, OthersFree, kmalloc, kfree
  <2>2. UNCHANGED <<volume, fs, status, copy, lost, wrong, misused>>
    BY <1>1 DEF OthersAlloc, OthersFree, ghosts
  <2>3. \A x \in Blocks : owner'[x] = "fat" <=> owner[x] = "fat"
    BY <2>1 DEF MountInv, FatHeap
  <2>4. FatHeap' /\ FatOwned'
    BY <2>1, <2>2, <2>3 DEF MountInv, FatHeap, FatOwned
  <2>5. GeometryRight'
    BY <2>2 DEF MountInv, GeometryRight
  <2>. QED
    BY <2>2, <2>4, <2>5 DEF MountInv
<1>2. ASSUME ChangeVolume PROVE MountInv'
  BY <1>2 DEF ChangeVolume, ghosts, MountInv, FatHeap, FatOwned, GeometryRight
<1>. QED
  BY <1>1, <1>2

\* Every step.
LEMMA MountSteps == FatMountConstants /\ MountInv /\ [MountNext]_mountVars => MountInv'
<1>1. FatMountConstants /\ MountInv /\ MountNext => MountInv'
  BY MountStep, UnmountStep, MountOthers DEF MountNext
<1>2. MountInv /\ UNCHANGED mountVars => MountInv'
  BY SMTT(60) DEF mountVars, ghosts, MountInv, FatHeap, FatOwned, GeometryRight
<1>. QED
  BY <1>1, <1>2

-----------------------------------------------------------------------------
(* The theorems.                                                           *)

\* For any heap, and mounts and unmounts in any order: fat points to the copy
\* of the FAT while a volume is mounted, the file system owns no more than the
\* copies of its mounts, and a block of another owner is freed only by an
\* unmount after a mount that failed or without one (fat_mount, fat_unmount).
THEOREM FatCopyOwned == FatMountConstants => (MountSpec => []FatOwned)
<1> SUFFICES ASSUME FatMountConstants PROVE MountSpec => []FatOwned
  OBVIOUS
<1>1. MountInit => MountInv
  BY MountInitHolds
<1>2. MountInv /\ [MountNext]_mountVars => MountInv'
  BY MountSteps
<1>3. MountInv => FatOwned
  BY DEF MountInv
<1>. QED
  BY <1>1, <1>2, <1>3, PTL DEF MountSpec

\* For every volume a formatter may have laid out, of any of the three types,
\* fat_mount recovers the layout from the boot sector.
THEOREM LayoutRecovered == FatMountConstants => (MountSpec => []GeometryRight)
<1> SUFFICES ASSUME FatMountConstants PROVE MountSpec => []GeometryRight
  OBVIOUS
<1>1. MountInit => MountInv
  BY MountInitHolds
<1>2. MountInv /\ [MountNext]_mountVars => MountInv'
  BY MountSteps
<1>3. MountInv => GeometryRight
  BY DEF MountInv
<1>. QED
  BY <1>1, <1>2, <1>3, PTL DEF MountSpec

-----------------------------------------------------------------------------
(* The physical memory manager.  First sums, whose recursive definition    *)
(* must be shown to define something.                                      *)

INSTANCE FiniteSetTheorems

\* Natural numbers have minima.
LEMMA NatMin ==
  ASSUME NEW T \in SUBSET Nat, T # {}
  PROVE  \E x \in T : \A y \in T : x <= y
<1>1. PICK x \in T : \A y \in T : ~(<<y, x>> \in OpToRel(<, Nat))
  BY NatLessThanWellFounded, WFMin
<1>2. \A y \in T : ~(y < x)
  BY <1>1 DEF OpToRel
<1>. QED
  BY <1>2, SMTT(60)

MAX == MAX_MEMORY_MAP_ENTRIES

SumOf(w, f, n) ==
  f \in [0 .. n -> Nat] /\ f[0] = 0 /\ \A k \in 1 .. n : f[k] = f[k - 1] + w[k - 1]

\* A sum over n weights goes on to n + 1.
LEMMA SumGoesOn ==
  ASSUME NEW n \in Nat, NEW N \in Nat, n < N, NEW w \in [0 .. (N - 1) -> Nat],
         NEW f, SumOf(w, f, n)
  PROVE  \E g : SumOf(w, g, n + 1)
<1> DEFINE g == [k \in 0 .. (n + 1) |-> IF k <= n THEN f[k] ELSE f[n] + w[n]]
<1>1. f[n] \in Nat /\ w[n] \in Nat
  BY SMTT(60) DEF SumOf
<1>2. g \in [0 .. (n + 1) -> Nat] /\ g[0] = 0
  BY <1>1, SMTT(60) DEF SumOf
<1>3. ASSUME NEW k \in 1 .. (n + 1) PROVE g[k] = g[k - 1] + w[k - 1]
  <2>1. CASE k <= n
    BY <2>1, <1>3, SMTT(60) DEF SumOf
  <2>2. CASE k = n + 1
    BY <2>2, <1>1, SMTT(60)
  <2>. QED
    BY <2>1, <2>2, SMTT(60)
<1> HIDE DEF g
<1>4. SumOf(w, g, n + 1)
  BY <1>2, <1>3 DEF SumOf
<1>. QED
  BY <1>4

LEMMA SumExists ==
  ASSUME NEW N \in Nat, NEW w \in [0 .. (N - 1) -> Nat]
  PROVE  \E f : SumOf(w, f, N)
<1> DEFINE T == {n \in 0 .. N : ~\E f : SumOf(w, f, n)}
<1> SUFFICES ASSUME T # {} PROVE FALSE
  <2>1. N \in 0 .. N
    BY SMTT(60)
  <2>. QED
    BY <2>1, Zenon
<1>1. PICK x \in T : \A y \in T : x <= y
  <2>1. T \in SUBSET Nat
    BY SMTT(60)
  <2>. QED
    BY <2>1, NatMin
<1>2. x # 0
  <2>1. SumOf(w, [k \in 0 .. 0 |-> 0], 0)
    BY SMTT(60) DEF SumOf
  <2>. QED
    BY <1>1, <2>1
<1>3. x - 1 \in 0 .. N /\ x - 1 < N /\ x - 1 \notin T /\ (x - 1) + 1 = x
  BY <1>1, <1>2, SMTT(60)
<1>4. PICK f : SumOf(w, f, x - 1)
  BY <1>3
<1>5. x - 1 \in Nat
  BY <1>3, SMTT(60)
<1>6. \E g : SumOf(w, g, (x - 1) + 1)
  BY <1>3, <1>4, <1>5, SumGoesOn
<1>. QED
  BY <1>1, <1>3, <1>6

\* Two sums of the same weights are equal.
LEMMA SumUnique ==
  ASSUME NEW N \in Nat, NEW w, NEW f, SumOf(w, f, N),
         NEW g, g = [n \in 0 .. N |-> IF n = 0 THEN 0 ELSE g[n - 1] + w[n - 1]]
  PROVE  \A n \in 0 .. N : g[n] = f[n]
<1> DEFINE T == {n \in 0 .. N : g[n] # f[n]}
<1> SUFFICES ASSUME T # {} PROVE FALSE
  OBVIOUS
<1>1. PICK x \in T : \A y \in T : x <= y
  <2>1. T \in SUBSET Nat
    BY SMTT(60)
  <2>. QED
    BY <2>1, NatMin
<1>2. CASE x = 0
  BY <1>1, <1>2 DEF SumOf
<1>3. CASE x # 0
  <2>1. x \in 1 .. N /\ x - 1 \in 0 .. N /\ x - 1 \notin T
    BY <1>1, <1>3, SMTT(60)
  <2>2. g[x] = g[x - 1] + w[x - 1]
    BY <2>1, SMTT(60)
  <2>3. f[x] = f[x - 1] + w[x - 1] /\ g[x - 1] = f[x - 1]
    BY <2>1 DEF SumOf
  <2>. QED
    BY <1>1, <2>2, <2>3
<1>. QED
  BY <1>2, <1>3

\* What Sums defines.
LEMMA SumsAre ==
  ASSUME BootConstants, NEW w \in [0 .. (MAX - 1) -> Nat]
  PROVE  SumOf(w, Sums(w), MAX)
<1> DEFINE Unfold(g) == [n \in 0 .. MAX |-> IF n = 0 THEN 0 ELSE g[n - 1] + w[n - 1]]
<1>1. MAX \in Nat
  BY DEF BootConstants, MAX
<1>2. PICK f : SumOf(w, f, MAX)
  BY <1>1, SumExists
<1>3. f = Unfold(f)
  BY <1>1, <1>2, SMTT(60) DEF SumOf
<1>4. Sums(w) = CHOOSE g : g = Unfold(g)
  BY DEF Sums, MAX
<1>5. Sums(w) = Unfold(Sums(w))
  BY <1>3, <1>4
<1>6. \A n \in 0 .. MAX : Sums(w)[n] = f[n]
  BY <1>1, <1>2, <1>5, SumUnique, SMTT(60)
<1>7. Sums(w) = f
  BY <1>2, <1>5, <1>6, SMTT(60) DEF SumOf
<1>. QED
  BY <1>2, <1>7

\* The sums of pmm wrap round at each step, those of the property at the end.
LEMMA RemainderIs ==
  ASSUME NEW n \in Nat \ {0}, NEW a \in Int, NEW k \in Int, NEW b \in 0 .. (n - 1), a = n * k + b
  PROVE  a % n = b
<1> DEFINE q == a \div n
           m == a % n
<1>1. a = n * q + m /\ m \in 0 .. (n - 1) /\ q \in Int
  BY SMTT(60)
<1> HIDE DEF q, m
<1>2. q = k
  <2>1. CASE q >= k + 1
    <3>1. n * q >= n * (k + 1) /\ n * (k + 1) = n * k + n
      BY <1>1, <2>1, SMTT(60)
    <3>. QED
      BY <1>1, <3>1, SMTT(60)
  <2>2. CASE q <= k - 1
    <3>1. n * q <= n * (k - 1) /\ n * (k - 1) = n * k - n
      BY <1>1, <2>2, SMTT(60)
    <3>. QED
      BY <1>1, <3>1, SMTT(60)
  <2>. QED
    BY <1>1, <2>1, <2>2, SMTT(60)
<1>. QED
  BY <1>1, <1>2, SMTT(60) DEF m

LEMMA SumsWrap ==
  ASSUME NEW n \in Nat \ {0}, NEW s \in Nat, NEW l \in Nat
  PROVE  ((s % n) + l) % n = (s + l) % n
<1> DEFINE q == s \div n
           m == s % n
           q2 == (m + l) \div n
           m2 == (m + l) % n
<1>1. s = n * q + m /\ m \in 0 .. (n - 1) /\ q \in Int
  BY SMTT(60)
<1> HIDE DEF q, m
<1>2. m + l = n * q2 + m2 /\ m2 \in 0 .. (n - 1) /\ q2 \in Int
  BY <1>1, SMTT(60)
<1> HIDE DEF q2, m2
<1>3. s + l = n * (q + q2) + m2 /\ q + q2 \in Int
  <2>1. n * (q + q2) = n * q + n * q2 /\ n * q \in Int /\ n * q2 \in Int
    BY <1>1, <1>2, SMTT(60)
  <2>. QED
    BY <1>1, <1>2, <2>1, SMTT(60)
<1>4. (s + l) % n = m2
  BY <1>2, <1>3, RemainderIs, SMTT(60)
<1>. QED
  BY <1>4 DEF m2, m

\* The usable entries among the first n of a map l.
UsableBelow(l, n) == {k \in 0 .. (n - 1) : Usable(l[k])}
Rank(T, k) == Cardinality({j \in T : j <= k})

LEMMA UsableFinite ==
  ASSUME NEW l, NEW n \in Nat
  PROVE  IsFiniteSet(UsableBelow(l, n)) /\ Cardinality(UsableBelow(l, n)) \in 0 .. n
<1>1. IsFiniteSet(0 .. (n - 1)) /\ Cardinality(0 .. (n - 1)) = n
  BY FS_Interval, SMTT(60)
<1>2. UsableBelow(l, n) \in SUBSET (0 .. (n - 1))
  BY DEF UsableBelow
<1>3. IsFiniteSet(UsableBelow(l, n)) /\ Cardinality(UsableBelow(l, n)) <= n
  BY <1>1, <1>2, FS_Subset, SMTT(60)
<1>4. Cardinality(UsableBelow(l, n)) \in Nat
  BY <1>3, FS_CardinalityType
<1>. QED
  BY <1>3, <1>4, SMTT(60)

\* One more entry.
LEMMA UsableNext ==
  ASSUME NEW l, NEW n \in Nat
  PROVE  /\ ~Usable(l[n]) => UsableBelow(l, n + 1) = UsableBelow(l, n)
         /\ Usable(l[n]) =>
              /\ UsableBelow(l, n + 1) = UsableBelow(l, n) \cup {n}
              /\ Cardinality(UsableBelow(l, n + 1)) = Cardinality(UsableBelow(l, n)) + 1
              /\ Rank(UsableBelow(l, n + 1), n) = Cardinality(UsableBelow(l, n + 1))
              /\ \A k \in UsableBelow(l, n) :
                   /\ Rank(UsableBelow(l, n + 1), k) = Rank(UsableBelow(l, n), k)
                   /\ Rank(UsableBelow(l, n), k) \in 1 .. Cardinality(UsableBelow(l, n))
<1> DEFINE S == UsableBelow(l, n)
           T == UsableBelow(l, n + 1)
<1>1. \A k : k \in S => k \in Nat /\ k < n
  BY SMTT(60) DEF UsableBelow
<1>2. IsFiniteSet(S) /\ Cardinality(S) \in Nat
  BY UsableFinite, SMTT(60)
<1>3. ~Usable(l[n]) => T = S
  BY SMTT(60) DEF UsableBelow
<1>4. ASSUME Usable(l[n]) PROVE T = S \cup {n}
  BY <1>4, SMTT(60) DEF UsableBelow
<1> HIDE DEF S, T
<1>5. ASSUME Usable(l[n])
      PROVE  Cardinality(T) = Cardinality(S) + 1 /\ Rank(T, n) = Cardinality(T)
  <2>1. n \notin S
    BY <1>1, SMTT(60)
  <2>2. Cardinality(T) = Cardinality(S) + 1
    BY <1>2, <1>4, <1>5, <2>1, FS_AddElement
  <2>3. {j \in T : j <= n} = T
    BY <1>1, <1>4, <1>5, SMTT(60)
  <2>. QED
    BY <2>2, <2>3 DEF Rank
<1>6. ASSUME Usable(l[n]), NEW k \in S
      PROVE  Rank(T, k) = Rank(S, k) /\ Rank(S, k) \in 1 .. Cardinality(S)
  <2> DEFINE U == {j \in S : j <= k}
  <2>1. {j \in T : j <= k} = U
    BY <1>1, <1>4, <1>6, SMTT(60)
  <2>2. U \in SUBSET S /\ k \in U
    BY <1>1, <1>6, SMTT(60)
  <2> HIDE DEF U
  <2>3. IsFiniteSet(U) /\ Cardinality(U) <= Cardinality(S)
    BY <1>2, <2>2, FS_Subset
  <2>4. Cardinality(U) \in Nat /\ Cardinality(U) # 0
    BY <2>2, <2>3, FS_CardinalityType, FS_EmptySet
  <2>5. Rank(S, k) = Cardinality(U) /\ Rank(T, k) = Cardinality(U)
    BY <2>1 DEF Rank, U
  <2>. QED
    BY <1>2, <2>3, <2>4, <2>5, SMTT(60)
<1>. QED
  BY <1>3, <1>4, <1>5, <1>6 DEF S, T

-----------------------------------------------------------------------------
(* The loop of init_pmm: what it has taken and summed up after n entries.  *)

Map == [0 .. (MAX - 1) -> Entry]
Extent == [base : Nat, length : Nat]
Turn(p, e) == IF Usable(e) THEN AddRegion(p, e) ELSE p

TakenSoFar(l, p, n) ==
  /\ p.regions \in Seq(Extent)
  /\ Len(p.regions) = Cardinality(UsableBelow(l, n))
  /\ \A k \in UsableBelow(l, n) :
       p.regions[Rank(UsableBelow(l, n), k)] = [base |-> l[k].base, length |-> l[k].length]

SumsSoFar(p, n) ==
  /\ p.total = Sums(Lengths)[n] % WORD
  /\ p.free = Sums(HighLengths)[n] % WORD
  /\ Sums(HighLengths)[n] <= Sums(Lengths)[n]

LEMMA TakesNext ==
  ASSUME BootConstants, NEW l \in Map, NEW n \in 0 .. (MAX - 1), NEW p, TakenSoFar(l, p, n)
  PROVE  TakenSoFar(l, Turn(p, l[n]), n + 1)
<1>1. n \in Nat /\ l[n] \in Entry
  BY SMTT(60) DEF Map, MAX, BootConstants
<1>2. CASE ~Usable(l[n])
  BY <1>1, <1>2, UsableNext DEF TakenSoFar, Turn
<1>3. CASE Usable(l[n])
  <2> DEFINE S == UsableBelow(l, n)
             T == UsableBelow(l, n + 1)
             new == [base |-> l[n].base, length |-> l[n].length]
             old == p.regions
             rs == Append(old, new)
  <2>1. Turn(p, l[n]).regions = rs
    BY <1>3 DEF Turn, AddRegion
  <2>2. /\ T = S \cup {n} /\ Cardinality(T) = Cardinality(S) + 1 /\ Rank(T, n) = Cardinality(T)
        /\ \A k \in S : Rank(T, k) = Rank(S, k) /\ Rank(S, k) \in 1 .. Cardinality(S)
    BY <1>1, <1>3, UsableNext
  <2>3. /\ old \in Seq(Extent) /\ Len(old) = Cardinality(S) /\ Cardinality(S) \in Nat
        /\ \A k \in S : old[Rank(S, k)] = [base |-> l[k].base, length |-> l[k].length]
    <3>1. /\ old \in Seq(Extent) /\ Len(old) = Cardinality(S)
          /\ \A k \in S : old[Rank(S, k)] = [base |-> l[k].base, length |-> l[k].length]
      BY <1>1 DEF TakenSoFar
    <3>2. Cardinality(S) \in Nat
      BY <1>1, UsableFinite, SMTT(60)
    <3>. QED
      BY <3>1, <3>2
  <2>4. new \in Extent
    BY <1>1 DEF Extent, Entry
  <2> HIDE DEF S, T, new, old
  <2>5. /\ rs \in Seq(Extent) /\ Len(rs) = Len(old) + 1 /\ rs[Len(old) + 1] = new
        /\ \A j \in 1 .. Len(old) : rs[j] = old[j]
    BY <2>3, <2>4, SMTT(60)
  <2> HIDE DEF rs
  <2>6. Len(rs) = Cardinality(T)
    BY <2>2, <2>3, <2>5
  <2>7. ASSUME NEW k \in T PROVE rs[Rank(T, k)] = [base |-> l[k].base, length |-> l[k].length]
    <3>1. CASE k \in S
      BY <2>2, <2>3, <2>5, <3>1
    <3>2. CASE k = n
      <4>1. Rank(T, k) = Len(old) + 1
        BY <2>2, <2>3, <3>2
      <4>. QED
        BY <2>5, <3>2, <4>1 DEF new
    <3>. QED
      BY <2>2, <2>7, <3>1, <3>2
  <2>. QED
    BY <2>1, <2>5, <2>6, <2>7 DEF TakenSoFar, T
<1>. QED
  BY <1>2, <1>3

LEMMA SumsNext ==
  ASSUME BootConstants, low \in Map, NEW n \in 0 .. (MAX - 1), NEW p, SumsSoFar(p, n)
  PROVE  SumsSoFar(Turn(p, low[n]), n + 1)
<1> DEFINE A == Sums(Lengths)
           B == Sums(HighLengths)
           e == low[n]
<1>1. /\ MAX \in Nat \ {0} /\ WORD \in Nat \ {0} /\ n + 1 \in 1 .. MAX /\ (n + 1) - 1 = n /\ n \in 0 .. MAX
      /\ DOMAIN low = 0 .. (MAX - 1) /\ e \in Entry
  BY SMTT(60) DEF BootConstants, MAX, Map
<1>2. e.length \in Nat /\ e.base \in Nat
  BY <1>1 DEF Entry
<1>3. Lengths \in [0 .. (MAX - 1) -> Nat] /\ HighLengths \in [0 .. (MAX - 1) -> Nat]
  BY DEF Lengths, HighLengths, Map, Entry
<1>4. SumOf(Lengths, A, MAX) /\ SumOf(HighLengths, B, MAX)
  BY <1>3, SumsAre
<1>5. /\ Lengths[n] = IF Usable(e) THEN e.length ELSE 0
      /\ HighLengths[n] = IF Usable(e) /\ e.base # 0 THEN e.length ELSE 0
  BY <1>1 DEF Lengths, HighLengths
<1>6. p.total = A[n] % WORD /\ p.free = B[n] % WORD /\ B[n] <= A[n]
  BY DEF SumsSoFar
<1> HIDE DEF A, B, e
<1>7. A[n] \in Nat /\ B[n] \in Nat /\ A[n + 1] = A[n] + Lengths[n] /\ B[n + 1] = B[n] + HighLengths[n]
  BY <1>1, <1>4 DEF SumOf
<1>8. CASE ~Usable(e)
  <2>1. A[n + 1] = A[n] /\ B[n + 1] = B[n] /\ Turn(p, e) = p
    BY <1>5, <1>7, <1>8, SMTT(60) DEF Turn
  <2>. QED
    BY <1>6, <2>1 DEF SumsSoFar, A, B, e
<1>9. CASE Usable(e)
  <2>1. /\ Turn(p, e).total = (p.total + e.length) % WORD
        /\ Turn(p, e).free = IF e.base >= 1 THEN (p.free + e.length) % WORD ELSE p.free
    BY <1>9 DEF Turn, AddRegion
  <2>2. A[n + 1] = A[n] + e.length /\ Turn(p, e).total = A[n + 1] % WORD
    <3>1. A[n + 1] = A[n] + e.length
      BY <1>5, <1>7, <1>9
    <3>2. ((A[n] % WORD) + e.length) % WORD = (A[n] + e.length) % WORD
      BY <1>1, <1>2, <1>7, SumsWrap
    <3>. QED
      BY <1>6, <2>1, <3>1, <3>2
  <2>3. Turn(p, e).free = B[n + 1] % WORD /\ B[n + 1] <= A[n + 1]
    <3>1. CASE e.base = 0
      <4>1. B[n + 1] = B[n] /\ Turn(p, e).free = p.free
        BY <1>2, <1>5, <1>7, <2>1, <3>1, SMTT(60)
      <4>. QED
        BY <1>2, <1>6, <1>7, <2>2, <4>1, SMTT(60)
    <3>2. CASE e.base # 0
      <4>1. B[n + 1] = B[n] + e.length /\ Turn(p, e).free = (p.free + e.length) % WORD
        BY <1>2, <1>5, <1>7, <1>9, <2>1, <3>2, SMTT(60)
      <4>2. ((B[n] % WORD) + e.length) % WORD = (B[n] + e.length) % WORD
        BY <1>1, <1>2, <1>7, SumsWrap
      <4>. QED
        BY <1>2, <1>6, <1>7, <2>2, <4>1, <4>2, SMTT(60)
    <3>. QED
      BY <3>1, <3>2
  <2>. QED
    BY <2>2, <2>3 DEF SumsSoFar, A, B, e
<1>. QED
  BY <1>8, <1>9 DEF e

-----------------------------------------------------------------------------
(* The boot.  The invariant says that a signed record has address 0 for    *)
(* its map, and that the magic number comes with a signed record only.     *)

Loading == {"e820", "detected", "simple", "init", "handover"}
Starting == {"start", "main", "memory_init", "pmm", "ready"}

RecordInv ==
  /\ boot_pc \in Loading \cup Starting
  /\ dwords \in [0 .. 3 -> Nat] /\ low \in Map
  /\ ecx \in Nat
  /\ boot_pc \in {"e820", "detected", "simple", "init"} => dwords[0] = 0
  /\ dwords[0] = MAGIC => dwords[1] = 0 /\ dwords[2] = 0
  /\ boot_pc \in Loading => rsi = 0
  /\ boot_pc \in Starting /\ rsi = MAGIC => dwords[0] = MAGIC
  /\ boot_pc \in {"memory_init", "pmm", "ready"} => (verified <=> rsi = MAGIC)

PmmInv ==
  /\ boot_pc \in {"main", "memory_init"} => pmm = NoPmm
  /\ boot_pc = "pmm" =>
       /\ dwords[0] = MAGIC /\ entry \in 0 .. Counted
       /\ TakenSoFar(low, pmm, entry) /\ SumsSoFar(pmm, entry)
  /\ boot_pc = "ready" => TakenSoFar(low, pmm, Counted) /\ SumsSoFar(pmm, Counted)

BootInv == BootConstants /\ RecordInv /\ PmmInv

LEMMA CountedType ==
  ASSUME BootConstants, RecordInv
  PROVE  /\ Counted \in 0 .. MAX /\ MAX \in Nat \ {0}
         /\ dwords[0] = MAGIC => Counted = EntryCount
BY SMTT(60) DEF BootConstants, RecordInv, Counted, EntryCount, Record, boot_params, MAX

\* At the start nothing has been taken.
LEMMA NothingTaken ==
  ASSUME BootConstants, low \in Map
  PROVE  TakenSoFar(low, NoPmm, 0) /\ SumsSoFar(NoPmm, 0)
<1>1. MAX \in Nat \ {0} /\ WORD \in Nat \ {0}
  BY DEF BootConstants, MAX
<1>2. UsableBelow(low, 0) = {}
  BY SMTT(60) DEF UsableBelow
<1>3. TakenSoFar(low, NoPmm, 0)
  <2>1. NoPmm.regions = <<>> /\ <<>> \in Seq(Extent) /\ Len(<<>>) = 0
    BY SMTT(60) DEF NoPmm
  <2>2. Cardinality({}) = 0
    BY FS_EmptySet
  <2>. QED
    BY <1>2, <2>1, <2>2 DEF TakenSoFar
<1>4. Lengths \in [0 .. (MAX - 1) -> Nat] /\ HighLengths \in [0 .. (MAX - 1) -> Nat]
  BY DEF Lengths, HighLengths, Map, Entry
<1>5. Sums(Lengths)[0] = 0 /\ Sums(HighLengths)[0] = 0
  BY <1>4, SumsAre DEF SumOf
<1>6. 0 % WORD = 0
  BY <1>1, SMTT(60)
<1>. QED
  BY <1>3, <1>5, <1>6, SMTT(60) DEF SumsSoFar, NoPmm

\* The record and the map stay as they are once the kernel runs.
LEMMA SameRecord ==
  ASSUME UNCHANGED <<dwords, low>>
  PROVE  /\ Counted' = Counted
         /\ \A p, n : TakenSoFar(low', p, n) = TakenSoFar(low, p, n)
         /\ \A p, n : SumsSoFar(p, n)' = SumsSoFar(p, n)
<1>1. Counted' = Counted /\ Lengths' = Lengths /\ HighLengths' = HighLengths
  BY DEF Counted, Lengths, HighLengths
<1>. QED
  BY <1>1 DEF SumsSoFar

\* The firmware and the loader, up to the jump to the kernel.
LEMMA LoaderSteps ==
  ASSUME BootInv, Firmware \/ Loader
  PROVE  BootInv'
<1> USE DEF Loading, Starting, MAGIC
<1>1. ASSUME Firmware PROVE BootInv'
  <2>1. /\ boot_pc = "e820" /\ boot_pc' \in {"e820", "detected"} /\ ecx' \in Nat
        /\ UNCHANGED <<dwords, low, rdi, rsi, verified, pmm, entry>>
    BY <1>1, SMTT(60) DEF Firmware, Answer, Carry, BootInv, BootConstants
  <2>. QED
    BY <2>1 DEF BootInv, RecordInv, PmmInv
<1>2. ASSUME detect_memory \/ simple_memory_detection PROVE BootInv'
  <2>1. /\ boot_pc \in {"detected", "simple"} /\ boot_pc' \in {"simple", "init"}
        /\ UNCHANGED <<ecx, low, rdi, rsi, verified, pmm, entry>>
        /\ \E n \in Nat : dwords' = [dwords EXCEPT ![1] = BUFFER, ![2] = n]
    BY <1>2 DEF detect_memory, simple_memory_detection, BootInv, RecordInv
  <2>2. dwords' \in [0 .. 3 -> Nat] /\ dwords'[0] = 0
    BY <2>1, SMTT(60) DEF BootInv, RecordInv, BUFFER
  <2>. QED
    BY <2>1, <2>2 DEF BootInv, RecordInv, PmmInv
<1>3. ASSUME NEW device \in Devices, bootloader_init(device) \/ handover_to_kernel(device)
      PROVE  BootInv'
  <2>1. /\ \/ boot_pc = "init" /\ boot_pc' = "handover" /\ rsi' = rsi
           \/ boot_pc = "handover" /\ boot_pc' = "start"
        /\ UNCHANGED <<ecx, low, verified, pmm, entry>>
    BY <1>3 DEF bootloader_init, handover_to_kernel
  <2>2. dwords' \in [0 .. 3 -> Nat] /\ dwords'[0] = MAGIC /\ dwords'[1] = 0 /\ dwords'[2] = 0
    BY <1>3, SMTT(60) DEF bootloader_init, handover_to_kernel, prepare_boot_info, BootInv,
       BootConstants
  <2>. QED
    BY <2>1, <2>2 DEF BootInv, RecordInv, PmmInv
<1>4. ASSUME long_mode_entry PROVE BootInv'
  BY <1>4 DEF long_mode_entry, loader, BootInv, RecordInv, PmmInv
<1>. QED
  BY <1>1, <1>2, <1>3, <1>4 DEF Loader

\* The kernel up to the loop.
LEMMA KernelStarts ==
  ASSUME BootInv, start \/ kernel_main \/ memory_init
  PROVE  BootInv'
<1> USE DEF Loading, Starting
<1>1. UNCHANGED <<dwords, ecx, low, rsi>> /\ RecordInv /\ BootConstants /\ low \in Map
  BY DEF start, kernel_main, memory_init, loader, BootInv, RecordInv
<1>2. CASE start
  BY <1>1, <1>2 DEF start, BootInv, RecordInv, PmmInv
<1>3. CASE kernel_main
  BY <1>1, <1>3 DEF kernel_main, BootInv, RecordInv, PmmInv
<1>4. CASE memory_init
  <2>1. /\ boot_pc = "memory_init" /\ pmm = NoPmm /\ pmm' = NoPmm /\ entry' = 0
        /\ boot_pc' = IF dwords[0] = MAGIC THEN "pmm" ELSE "ready"
        /\ verified' = verified
    BY <1>4 DEF memory_init, BootInv, PmmInv, Record, boot_params
  <2>2. RecordInv'
    BY <1>1, <2>1 DEF RecordInv
  <2>3. Counted' = Counted /\ Counted \in 0 .. MAX /\ 0 \in 0 .. Counted /\ (dwords[0] # MAGIC => Counted = 0)
    <3>1. Counted' = Counted /\ (dwords[0] # MAGIC => Counted = 0)
      BY <1>1, SameRecord DEF Counted
    <3>2. Counted \in 0 .. MAX /\ MAX \in Nat
      BY <1>1, CountedType
    <3>. QED
      BY <3>1, <3>2, SMTT(60)
  <2>4. TakenSoFar(low', NoPmm, 0) /\ SumsSoFar(NoPmm, 0)'
    <3>1. TakenSoFar(low, NoPmm, 0) /\ SumsSoFar(NoPmm, 0)
      BY <1>1, NothingTaken
    <3>. QED
      BY <1>1, <3>1, SameRecord
  <2>5. SumsSoFar(pmm, entry)' /\ TakenSoFar(low', pmm', entry')
    BY <2>1, <2>4 DEF SumsSoFar
  <2>6. CASE dwords[0] = MAGIC
    BY <1>1, <2>1, <2>2, <2>3, <2>5, <2>6 DEF BootInv, PmmInv
  <2>7. CASE dwords[0] # MAGIC
    <3>1. SumsSoFar(pmm, Counted)' /\ TakenSoFar(low', pmm', Counted')
      BY <2>1, <2>3, <2>4, <2>7 DEF SumsSoFar
    <3>. QED
      BY <1>1, <2>1, <2>2, <2>7, <3>1 DEF BootInv, PmmInv
  <2>. QED
    BY <2>6, <2>7
<1>. QED
  BY <1>2, <1>3, <1>4

\* The loop of init_pmm; it may also end because there is no more room, and
\* then there are no more entries either.
LEMMA PmmSteps ==
  ASSUME BootInv, init_pmm \/ init_pmm_done
  PROVE  BootInv'
<1> USE DEF Loading, Starting
<1>1. /\ UNCHANGED <<dwords, ecx, low, rsi, verified>> /\ RecordInv /\ BootConstants /\ low \in Map
      /\ boot_pc = "pmm" /\ dwords[0] = MAGIC /\ entry \in 0 .. Counted
      /\ TakenSoFar(low, pmm, entry) /\ SumsSoFar(pmm, entry)
      /\ boot_pc' \in {"pmm", "ready"}
  BY DEF init_pmm, init_pmm_done, loader, BootInv, RecordInv, PmmInv
<1>2. RecordInv'
  BY <1>1 DEF RecordInv
<1>3. Counted' = Counted /\ Counted \in 0 .. MAX /\ MAX \in Nat \ {0} /\ EntryCount = Counted
  BY <1>1, SameRecord, CountedType
<1>4. CASE init_pmm_done
  <2>1. entry = Counted /\ pmm' = pmm /\ boot_pc' = "ready"
    BY <1>1, <1>3, <1>4, SMTT(60) DEF init_pmm_done
  <2>2. TakenSoFar(low', pmm', Counted') /\ SumsSoFar(pmm, Counted)'
    <3>1. TakenSoFar(low', pmm, entry) /\ SumsSoFar(pmm, entry)
      BY <1>1
    <3>2. Lengths' = Lengths /\ HighLengths' = HighLengths
      BY <1>1 DEF Lengths, HighLengths
    <3>. QED
      BY <1>3, <2>1, <3>1, <3>2 DEF SumsSoFar
  <2>. QED
    BY <1>1, <1>2, <2>1, <2>2 DEF BootInv, PmmInv
<1>5. CASE init_pmm
  <2>1. entry \in 0 .. (MAX - 1) /\ entry + 1 \in 0 .. Counted /\ entry' = entry + 1
    BY <1>1, <1>3, <1>5, SMTT(60) DEF init_pmm
  <2>2. mmap(entry) = low[entry]
    BY <1>1, SMTT(60) DEF mmap, Record, boot_params, RecordInv, BUFFER
  <2>3. pmm' = Turn(pmm, low[entry])
    BY <1>5, <2>2 DEF init_pmm, Turn
  <2>4. TakenSoFar(low, pmm', entry + 1) /\ SumsSoFar(Turn(pmm, low[entry]), entry + 1)
    BY <1>1, <2>1, <2>3, TakesNext, SumsNext
  <2>5. TakenSoFar(low', pmm', entry') /\ SumsSoFar(pmm, entry)'
    <3>1. Lengths' = Lengths /\ HighLengths' = HighLengths
      BY <1>1 DEF Lengths, HighLengths
    <3>. QED
      BY <1>1, <2>1, <2>3, <2>4, <3>1 DEF SumsSoFar
  <2>6. CASE boot_pc' = "pmm"
    BY <1>1, <1>2, <1>3, <2>1, <2>5, <2>6 DEF BootInv, PmmInv
  <2>7. CASE boot_pc' = "ready"
    <3>1. Len(pmm'.regions) >= MAX
      BY <1>5, <2>7 DEF init_pmm, MAX
    <3>2. Len(pmm'.regions) = Cardinality(UsableBelow(low, entry + 1))
      BY <2>4 DEF TakenSoFar
    <3>3. Cardinality(UsableBelow(low, entry + 1)) \in 0 .. (entry + 1)
      BY <2>1, UsableFinite, SMTT(60)
    <3>4. entry + 1 = Counted
      BY <1>3, <2>1, <3>1, <3>2, <3>3, SMTT(60)
    <3>5. TakenSoFar(low', pmm', Counted') /\ SumsSoFar(pmm, Counted)'
      BY <1>3, <2>1, <2>5, <3>4 DEF SumsSoFar
    <3>. QED
      BY <1>1, <1>2, <2>7, <3>5 DEF BootInv, PmmInv
  <2>. QED
    BY <1>1, <2>6, <2>7
<1>. QED
  BY <1>4, <1>5

LEMMA BootStart ==
  ASSUME BootConstants, BootInit PROVE BootInv
BY SMTT(60) DEF BootConstants, BootInit, BootInv, RecordInv, PmmInv, Loading, Starting, MAGIC, Map,
   MAX

LEMMA BootStep ==
  ASSUME BootInv, [BootNext]_bootVars PROVE BootInv'
<1>1. CASE UNCHANGED bootVars
  <2>1. UNCHANGED <<boot_pc, ecx, dwords, low, rsi, verified, pmm, entry>>
    BY <1>1 DEF bootVars, loader
  <2>2. RecordInv'
    BY <2>1 DEF BootInv, RecordInv
  <2>3. Lengths' = Lengths /\ HighLengths' = HighLengths /\ Counted' = Counted
    BY <2>1 DEF Lengths, HighLengths, Counted
  <2>. QED
    BY <2>1, <2>2, <2>3 DEF BootInv, PmmInv, SumsSoFar
<1>2. Ready => UNCHANGED bootVars
  BY DEF Ready
<1>. QED
  BY <1>1, <1>2, LoaderSteps, KernelStarts, PmmSteps DEF BootNext, Kernel

\* For every memory map and record the loader leaves, of whatever length, and
\* every size of the words, init_pmm takes the usable regions of the map the
\* record names, once and in order, and its sums are right modulo the size of
\* a word.
THEOREM PmmFollowsTheRecord == BootConstants => (BootSpec => []PmmMatchesRecord)
<1> SUFFICES ASSUME BootConstants PROVE BootSpec => []PmmMatchesRecord
  OBVIOUS
<1>1. BootInit => BootInv
  BY BootStart
<1>2. BootInv /\ [BootNext]_bootVars => BootInv'
  BY BootStep
<1>3. BootInv => PmmMatchesRecord
  <2> SUFFICES ASSUME BootInv PROVE PmmMatchesRecord
    OBVIOUS
  <2>1. boot_pc \in {"memory_init", "pmm", "ready"} =>
          (verified <=> rsi = MAGIC) /\ (verified => dwords[0] = MAGIC)
    BY DEF BootInv, RecordInv, Starting
  <2>2. ASSUME boot_pc = "ready", Sums(Lengths)[Counted] < WORD PROVE pmm.free <= pmm.total
    <3> DEFINE a == Sums(Lengths)[Counted]
               b == Sums(HighLengths)[Counted]
    <3>1. MAX \in Nat \ {0} /\ WORD \in Nat \ {0} /\ Counted \in 0 .. MAX
      BY CountedType DEF BootInv, BootConstants
    <3>2. Lengths \in [0 .. (MAX - 1) -> Nat] /\ HighLengths \in [0 .. (MAX - 1) -> Nat]
      BY DEF BootInv, RecordInv, Lengths, HighLengths, Map, Entry
    <3>3. a \in Nat /\ b \in Nat
      BY <3>1, <3>2, SumsAre DEF SumOf, BootInv
    <3>4. pmm.total = a % WORD /\ pmm.free = b % WORD /\ b <= a /\ a < WORD
      BY <2>2 DEF BootInv, PmmInv, SumsSoFar
    <3> HIDE DEF a, b
    <3>5. a % WORD = a /\ b % WORD = b
      BY <3>1, <3>3, <3>4, SMTT(60)
    <3>. QED
      BY <3>4, <3>5
  <2>. QED
    BY <2>1, <2>2 DEF BootInv, PmmInv, PmmMatchesRecord, TakenSoFar, SumsSoFar, UsableBelow, Rank
<1>. QED
  BY <1>1, <1>2, <1>3, PTL DEF BootSpec
=============================================================================
