------------------------------ MODULE Keyboard ------------------------------
(***************************************************************************)
(* The keyboard driver, kernel/drivers/keyboard.c, and its only reader,    *)
(* the main loop at the end of kernel_main.                                *)
(*                                                                         *)
(* The interrupt handler runs with interrupts off (interrupt gate, and cli *)
(* in its stub), so it is one step; it may come between any two steps of   *)
(* the main loop.  The compiled keyboard_getchar loads the character       *)
(* before it stores buffer_tail, as the source is written.                 *)
(***************************************************************************)
EXTENDS Integers

CONSTANTS
  SIZE,               \* KEYBOARD_BUFFER_SIZE
  Scancodes,          \* the bytes the PS/2 port delivers
  scancode_to_ascii   \* the table: 0 .. 57 -> character, 0 for none

RELEASED == 128       \* bit 7 of a scancode: the key went up

KeyboardConstants ==
  /\ SIZE \in Nat \ {0, 1}
  /\ Scancodes \subseteq 0 .. 255
  /\ DOMAIN scancode_to_ascii \subseteq 0 .. 127
  /\ \A sc \in DOMAIN scancode_to_ascii : scancode_to_ascii[sc] \in Nat

VARIABLES
  keyboard_buffer, buffer_head, buffer_tail,
  loop_pc,   \* where the main loop is
  c,         \* its local variable
  screen     \* the last character echoed: <<>> at first

keyboardVars == <<keyboard_buffer, buffer_head, buffer_tail, loop_pc, c, screen>>

ring == <<keyboard_buffer, buffer_head, buffer_tail>>

-----------------------------------------------------------------------------
KeyboardInit ==
  /\ keyboard_buffer = [i \in 0 .. (SIZE - 1) |-> 0]
  /\ buffer_head = 0 /\ buffer_tail = 0
  /\ loop_pc = "has_input" /\ c = 0 /\ screen = <<>>

keyboard_has_input == buffer_head # buffer_tail

\* hlt ends at any interrupt.
Wake == loop_pc' = IF loop_pc = "halted" THEN "has_input" ELSE loop_pc

\* The character a scancode stands for, 0 if it is to be ignored.
Translate(sc) ==
  IF sc < RELEASED /\ sc \in DOMAIN scancode_to_ascii THEN scancode_to_ascii[sc] ELSE 0

\* Fault: keys without a character are stored too.
HandlerNoFilter(sc) ==
  LET next_head == (buffer_head + 1) % SIZE IN
  /\ next_head # buffer_tail
  /\ keyboard_buffer' = [keyboard_buffer EXCEPT ![buffer_head] = Translate(sc)]
  /\ buffer_head' = next_head
  /\ Wake
  /\ UNCHANGED <<buffer_tail, c, screen>>

keyboard_handler(sc) ==
  LET ch == Translate(sc)
      next_head == (buffer_head + 1) % SIZE
  IN
  /\ IF ch # 0 /\ next_head # buffer_tail
     THEN /\ keyboard_buffer' = [keyboard_buffer EXCEPT ![buffer_head] = ch]
          /\ buffer_head' = next_head
     ELSE UNCHANGED <<keyboard_buffer, buffer_head>>
  /\ Wake
  /\ UNCHANGED <<buffer_tail, c, screen>>

\* Fault: the timer is masked while the main loop halts.
TimerMasked == UNCHANGED keyboardVars

\* Any other interrupt, in particular the periodic timer's.
OtherInterrupt ==
  /\ Wake
  /\ UNCHANGED <<ring, c, screen>>

\* The main loop looks, and goes for the character or for the halt.
HasInput ==
  /\ loop_pc = "has_input"
  /\ loop_pc' = IF keyboard_has_input THEN "getchar" ELSE "hlt"
  /\ UNCHANGED <<ring, c, screen>>

\* keyboard_getchar loads the character.  (It looks again, but only the main
\* loop itself could have emptied the buffer in between.)
GetcharLoad ==
  /\ loop_pc = "getchar"
  /\ c' = IF keyboard_has_input THEN keyboard_buffer[buffer_tail] ELSE 0
  /\ loop_pc' = IF keyboard_has_input THEN "advance" ELSE "putchar"
  /\ UNCHANGED <<ring, screen>>

GetcharAdvance ==
  /\ loop_pc = "advance"
  /\ buffer_tail' = (buffer_tail + 1) % SIZE
  /\ loop_pc' = "putchar"
  /\ UNCHANGED <<keyboard_buffer, buffer_head, c, screen>>

Putchar ==
  /\ loop_pc = "putchar"
  /\ screen' = <<c>>
  /\ loop_pc' = "hlt"
  /\ UNCHANGED <<ring, c>>

Hlt ==
  /\ loop_pc = "hlt"
  /\ loop_pc' = "halted"
  /\ UNCHANGED <<ring, c, screen>>

MainLoop == HasInput \/ GetcharLoad \/ GetcharAdvance \/ Putchar \/ Hlt

KeyboardNext == MainLoop \/ (\E sc \in Scancodes : keyboard_handler(sc)) \/ OtherInterrupt

\* The processor runs the main loop, and the timer, which is periodic, keeps
\* interrupting it.  Nobody is forced to type.
KeyboardSpec ==
  /\ KeyboardInit /\ [][KeyboardNext]_keyboardVars
  /\ WF_keyboardVars(MainLoop) /\ WF_keyboardVars(OtherInterrupt)

-----------------------------------------------------------------------------
(* Properties.                                                             *)

Slots == 0 .. (SIZE - 1)
Chars == {scancode_to_ascii[sc] : sc \in DOMAIN scancode_to_ascii} \ {0}

\* The indices stay inside the array, whatever is typed when.
KeyboardTypeOK ==
  /\ keyboard_buffer \in [Slots -> Chars \cup {0}]
  /\ buffer_head \in Slots /\ buffer_tail \in Slots
  /\ loop_pc \in {"has_input", "getchar", "advance", "putchar", "hlt", "halted"}
  /\ c \in Chars \cup {0}
  /\ screen \in {<<>>} \cup {<<ch>> : ch \in Chars \cup {0}}

\* The characters between tail and head, oldest first.
Length == (buffer_head - buffer_tail + SIZE) % SIZE
Queue == [i \in 1 .. Length |-> keyboard_buffer[(buffer_tail + i - 1) % SIZE]]

Input == INSTANCE InputQueue WITH
  CAPACITY <- SIZE - 1,
  queue <- Queue,
  hand <- IF loop_pc = "putchar" THEN <<c>> ELSE <<>>

\* However the handler interleaves with the main loop, the ring buffer is a
\* queue of SIZE - 1 characters: what is echoed is what was put into it, in
\* that order, each character once, and it never holds more than it can.  In
\* particular the handler does not overwrite the character keyboard_getchar
\* has loaded but not yet removed, even when the buffer runs full meanwhile;
\* and the indices stay inside the array.
ImplementsInputQueue == []KeyboardTypeOK /\ Input!Spec

\* A character in the buffer is taken out some day, although the main loop
\* halts after every look and a key may come between the look and the halt.
EveryKeyTaken ==
  \A i \in Slots : (keyboard_has_input /\ buffer_tail = i) ~> buffer_tail # i
=============================================================================
