----------------------------- MODULE Interrupts -----------------------------
(***************************************************************************)
(* How interrupts get to their handlers: idt_init (kernel/interrupt.c),    *)
(* apic_init (kernel/apic.c) and timer_init (kernel/timer.c) as            *)
(* kernel_main calls them, one step after the other, against devices that  *)
(* raise their lines whenever they like, and the handlers of               *)
(* kernel/apic_isr_stubs.asm.                                              *)
(*                                                                         *)
(* The interrupt controllers are external and modelled as far as the code  *)
(* relies on them.  The 8259 pair delivers its unmasked requests at its    *)
(* base vector.  An entry of the I/O APIC passes an edge on to the local   *)
(* APIC unless it is masked; a masked edge is lost, and so is one with a   *)
(* vector below 16, which the local APIC refuses.  The local APIC          *)
(* delivers the highest vector it was asked for when its priority class    *)
(* (vector / 16) is above that of the vectors in service, and an EOI takes *)
(* the highest one out of service.                                         *)
(*                                                                         *)
(* timer_callback may switch to another thread (module Preemption); here   *)
(* the handler is then parked, interrupts are on again, and it goes on     *)
(* with its EOI when its thread is resumed.                                *)
(***************************************************************************)
EXTENDS Integers, FiniteSetsExt

CONSTANT SLICE   \* timer_callback calls the scheduler every SLICE ticks (5)

ASSUME InterruptsConstants == SLICE \in Nat \ {0}

VARIABLES
  pc,       \* how far kernel_main has got
  idt,      \* vector -> stub, "none" where the gate is not present
  iflag,    \* the interrupt flag
  pic,      \* the 8259 pair: base vector, masked, requests
  rte,      \* I/O APIC: irq -> vector and mask bit
  lapic,    \* local APIC: enabled, timer unmasked, requests, in service
  active,   \* the handler on the processor: vector and place
  parked,   \* the handler whose thread was switched away
  obf,      \* the keyboard controller holds a byte
  tick      \* tick_count % SLICE

boot  == <<pc, idt>>
vars  == <<boot, iflag, pic, rte, lapic, active, parked, obf, tick>>

Vectors == 0 .. 255
Irqs == {0, 1}
Idle == [v |-> -1, at |-> "none"]

-----------------------------------------------------------------------------
(* kernel_main.  kernel_entry.asm has interrupts off; the firmware left    *)
(* the 8259 at its own vectors, its timer running, and the redirection     *)
(* entries masked, as they are at reset, or not.                           *)

Init ==
  /\ pc = "setup_idt"
  /\ idt = [v \in Vectors |-> "none"]
  /\ iflag = FALSE
  /\ pic = [base |-> 8, masked |-> {}, irr |-> {}]
  /\ \E masked \in BOOLEAN : rte = [irq \in Irqs |-> [vector |-> 0, masked |-> masked]]
  /\ lapic = [enabled |-> FALSE, timer |-> FALSE, irr |-> {}, isr |-> {}]
  /\ active = Idle /\ parked = Idle
  /\ obf = FALSE /\ tick = 0

\* kernel_main goes from one step to the next when no handler has its thread.
Boot(here, next) ==
  /\ pc = here /\ active = Idle /\ parked = Idle
  /\ pc' = next
  /\ UNCHANGED <<active, parked, obf, tick>>

Gate(v) ==
  CASE v < 32 -> "isr_common_stub"
    [] v = 32 -> "apic_timer_handler"
    [] v = 33 -> "apic_keyboard_handler"
    [] v \in 34 .. 47 -> "apic_isr_common_stub"
    [] OTHER -> "none"

setup_idt ==
  /\ Boot("setup_idt", "setup_pic")
  /\ idt' = [v \in Vectors |-> Gate(v)]
  /\ UNCHANGED <<iflag, pic, rte, lapic>>

\* Fault: the 8259 is left as the firmware had it.
PicNotRemapped ==
  /\ Boot("setup_pic", "lapic_init")
  /\ UNCHANGED <<idt, iflag, pic, rte, lapic>>

\* The initialisation forgets the requests, remaps, and masks all lines.
setup_pic ==
  /\ Boot("setup_pic", "lapic_init")
  /\ pic' = [base |-> 32, masked |-> Irqs, irr |-> {}]
  /\ UNCHANGED <<idt, iflag, rte, lapic>>

lapic_init ==
  /\ Boot("lapic_init", "irq0")
  /\ lapic' = [lapic EXCEPT !.enabled = TRUE]
  /\ UNCHANGED <<idt, iflag, pic, rte>>

\* The entry is read, gets its vector, and bits 0x8F00 are cleared; the mask
\* is bit 16 and stays as it was.
ioapic_set_irq_redirect(irq, vector) ==
  rte' = [rte EXCEPT ![irq].vector = vector]

RedirectPit ==
  /\ Boot("irq0", "irq1")
  /\ ioapic_set_irq_redirect(0, 32)
  /\ UNCHANGED <<idt, iflag, pic, lapic>>

RedirectKeyboard ==
  /\ Boot("irq1", "sti")
  /\ ioapic_set_irq_redirect(1, 33)
  /\ UNCHANGED <<idt, iflag, pic, lapic>>

enable_interrupts ==
  /\ Boot("sti", "timer_init")
  /\ iflag' = TRUE
  /\ UNCHANGED <<idt, pic, rte, lapic>>

\* scheduler_init, pit_init and apic_timer_init: the first two touch nothing
\* of this module, the last one unmasks the local timer, vector 32.
timer_init ==
  /\ Boot("timer_init", "add_tasks")
  /\ lapic' = [lapic EXCEPT !.timer = TRUE]
  /\ UNCHANGED <<idt, iflag, pic, rte>>

\* From the second scheduler_add_task on the scheduler may switch threads.
add_tasks ==
  /\ Boot("add_tasks", "main")
  /\ UNCHANGED <<idt, iflag, pic, rte, lapic>>

idt_init == setup_idt \/ setup_pic \/ lapic_init \/ RedirectPit \/ RedirectKeyboard \/ enable_interrupts

KernelMain == idt_init \/ timer_init \/ add_tasks

-----------------------------------------------------------------------------
(* The devices and controllers.                                            *)

\* A rising edge on a line of both controllers.
Edge(irq) ==
  /\ pic' = [pic EXCEPT !.irr = @ \cup {irq}]
  /\ lapic' = IF lapic.enabled /\ ~rte[irq].masked /\ rte[irq].vector >= 16
              THEN [lapic EXCEPT !.irr = @ \cup {rte[irq].vector}]
              ELSE lapic

Pit ==
  /\ Edge(0)
  /\ UNCHANGED <<boot, iflag, rte, active, parked, obf, tick>>

\* The controller takes the next byte when the last one has been read.
Key ==
  /\ ~obf
  /\ obf' = TRUE
  /\ Edge(1)
  /\ UNCHANGED <<boot, iflag, rte, active, parked, tick>>

LocalTimer ==
  /\ lapic.timer
  /\ lapic' = [lapic EXCEPT !.irr = @ \cup {32}]
  /\ UNCHANGED <<boot, iflag, pic, rte, active, parked, obf, tick>>

Class(v) == v \div 16

\* The vectors the local APIC lets through.
Deliverable ==
  {v \in lapic.irr : \A s \in lapic.isr : Class(v) > Class(s)}

\* What the two controllers offer the processor: the highest of these
\* vectors, and the first unmasked request of the 8259.
Offered ==
  {<<"apic", v>> : v \in {w \in Deliverable : w = Max(Deliverable)}}
    \cup {<<"pic", irq>> : irq \in pic.irr \ pic.masked}

\* The processor takes it; the gate is an interrupt gate and clears the flag.
Deliver(offer) ==
  /\ iflag /\ active = Idle
  /\ iflag' = FALSE
  /\ active' = [v |-> IF offer[1] = "apic" THEN offer[2] ELSE pic.base + offer[2],
                at |-> "body"]
  /\ lapic' = IF offer[1] = "apic"
              THEN [lapic EXCEPT !.irr = @ \ {offer[2]}, !.isr = @ \cup {offer[2]}]
              ELSE lapic
  /\ pic' = IF offer[1] = "pic" THEN [pic EXCEPT !.irr = @ \ {offer[2]}] ELSE pic
  /\ UNCHANGED <<boot, rte, parked, obf, tick>>

-----------------------------------------------------------------------------
(* The handlers.                                                           *)

Body(stub) ==
  /\ active.at = "body" /\ idt[active.v] = stub
  /\ UNCHANGED <<boot, pic, rte, lapic>>

\* timer_callback up to its EOI, in a thread that keeps the processor.
timer_callback ==
  /\ Body("apic_timer_handler")
  /\ tick' = (tick + 1) % SLICE
  /\ active' = [active EXCEPT !.at = "eoi"]
  /\ UNCHANGED <<iflag, parked, obf>>

\* Fault: the EOI is sent before the scheduler is called.
SwitchAfterEoi ==
  /\ active.at = "body" /\ idt[active.v] = "apic_timer_handler"
  /\ tick' = (tick + 1) % SLICE /\ tick' = 0
  /\ pc = "main" /\ parked = Idle
  /\ parked' = [active EXCEPT !.at = "iretq"]
  /\ lapic' = [lapic EXCEPT !.isr = {}]
  /\ active' = Idle /\ iflag' = TRUE
  /\ UNCHANGED <<boot, pic, rte, obf>>

\* timer_callback switches to a thread that runs with interrupts on.
SwitchAway ==
  /\ Body("apic_timer_handler")
  /\ tick' = (tick + 1) % SLICE /\ tick' = 0
  /\ pc = "main" /\ parked = Idle
  /\ parked' = [active EXCEPT !.at = "eoi"]
  /\ active' = Idle /\ iflag' = TRUE
  /\ UNCHANGED obf

\* The other thread calls the scheduler, which comes back to this one.
SwitchBack ==
  /\ parked # Idle /\ active = Idle
  /\ active' = parked /\ parked' = Idle
  /\ iflag' = FALSE
  /\ UNCHANGED <<boot, pic, rte, lapic, obf, tick>>

\* Fault: the handler leaves the byte in the controller.
KeyNotRead ==
  /\ Body("apic_keyboard_handler")
  /\ active' = [active EXCEPT !.at = "eoi"]
  /\ UNCHANGED <<iflag, parked, obf, tick>>

\* keyboard_handler, as far as the controllers see it: the byte is read.
KeyRead ==
  /\ Body("apic_keyboard_handler")
  /\ obf' = FALSE
  /\ active' = [active EXCEPT !.at = "eoi"]
  /\ UNCHANGED <<iflag, parked, tick>>

\* Both end with an EOI, which goes to the local APIC alone.
apic_eoi ==
  /\ active.at = "eoi"
  /\ lapic' = IF lapic.isr = {} THEN lapic ELSE [lapic EXCEPT !.isr = @ \ {Max(@)}]
  /\ active' = [active EXCEPT !.at = "iretq"]
  /\ UNCHANGED <<boot, iflag, pic, rte, parked, obf, tick>>

\* Fault: "ret" for "iretq".
RetForIretq ==
  /\ active.at = "iretq"
  /\ active' = Idle
  /\ UNCHANGED <<boot, iflag, pic, rte, lapic, parked, obf, tick>>

iretq ==
  /\ active.at = "iretq"
  /\ active' = Idle /\ iflag' = TRUE
  /\ UNCHANGED <<boot, pic, rte, lapic, parked, obf, tick>>

Handler == timer_callback \/ SwitchAway \/ KeyRead \/ apic_eoi \/ iretq

Interrupt == \E offer \in Offered : Deliver(offer)

Next == KernelMain \/ Pit \/ Key \/ LocalTimer \/ Interrupt \/ Handler \/ SwitchBack

\* The processor goes on, the local timer is periodic, interrupts that are
\* let through are taken, and the other threads give the processor back (as
\* the tasks of kernel_main do, which sleep again and again).
Spec ==
  /\ Init /\ [][Next]_vars
  /\ WF_vars(KernelMain) /\ WF_vars(Handler) /\ WF_vars(SwitchBack)
  /\ WF_vars(LocalTimer) /\ WF_vars(Interrupt)

-----------------------------------------------------------------------------
(* Properties.                                                             *)

\* Every variable has its type.
TypeOK ==
  /\ pc \in {"setup_idt", "setup_pic", "lapic_init", "irq0", "irq1", "sti",
             "timer_init", "add_tasks", "main"}
  /\ iflag \in BOOLEAN /\ obf \in BOOLEAN /\ tick \in 0 .. (SLICE - 1)
  /\ {active.v, parked.v} \subseteq Vectors \cup {-1}
  /\ {active.at, parked.at} \subseteq {"none", "body", "eoi", "iretq"}
  /\ lapic.irr \subseteq Vectors /\ lapic.isr \subseteq Vectors
  /\ pic.irr \subseteq Irqs /\ pic.masked \subseteq Irqs

\* No line of a device ever arrives as a processor exception, or at a vector
\* without a gate: when idt_init enables interrupts the table is loaded, the
\* 8259 remapped and masked, and every redirection entry has its vector.
NeverAnException ==
  /\ TypeOK
  /\ active # Idle => idt[active.v] \in {"apic_timer_handler", "apic_keyboard_handler"}

\* The EOI a handler sends is for its own interrupt: just the vector of the
\* one handler that has not sent it yet is in service.  While a handler is
\* parked nothing else gets in, not even a key: timer and keyboard have
\* vectors of one priority class.
EoiMatches ==
  /\ lapic.isr = {h.v : h \in {k \in {active, parked} : k.at \in {"body", "eoi"}}}
  /\ parked # Idle => active = Idle

\* Interrupts go on for ever, from the timer or else from somebody who never
\* stops typing (vector 33 goes first), and no timer interrupt lasts for ever.
TimerGoesOn ==
  ([]<>(active.v = 32) \/ []<>(active.v = 33)) /\ []<>(active.v # 32)

\* A key whose interrupt the local APIC accepted is read by keyboard_handler.
\* An edge that comes before ioapic_set_irq_redirect, or to a masked entry, is
\* not accepted: that byte stays in the controller.
KeysArrive == 33 \in lapic.irr ~> ~obf
=============================================================================
