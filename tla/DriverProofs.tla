---------------------------- MODULE DriverProofs ----------------------------
(***************************************************************************)
(* Proofs about the drivers.                                               *)
(*                                                                         *)
(* The ring buffer of module Keyboard implements the queue of InputQueue,  *)
(* for every size of the buffer, table of characters and set of scancodes. *)
(* The console of a caller that is alone implements the roll of paper of   *)
(* Terminal, and the shared console keeps to its screen, for screens of    *)
(* any size.  The sleep of module Timer is exact, for every word size and  *)
(* delay.                                                                  *)
(***************************************************************************)
EXTENDS Keyboard, Console, ConsoleShared, Timer, TLAPS

\* Zenon, which knows no arithmetic, is tried first; a leaf beyond it names SMT.
USE ZenonT(60), SMTT(60)

-----------------------------------------------------------------------------
(* Arithmetic modulo SIZE.                                                 *)

\* A number below twice the divisor, without the division.
LEMMA ModOnce ==
  ASSUME NEW n \in Nat \ {0}, NEW x \in 0 .. (2 * n - 1)
  PROVE  x % n = IF x < n THEN x ELSE x - n
<1>1. CASE x < n
  BY <1>1, SMTT(60)
<1>2. CASE x >= n
  <2> DEFINE q == x \div n
             m == x % n
  <2>1. x = n * q + m /\ m \in 0 .. (n - 1) /\ q \in Int
    BY SMTT(60)
  <2>2. q = 1
    <3>1. CASE q >= 2
      <4>1. n * q >= n * 2
        BY <2>1, <3>1, SMTT(60)
      <4>. QED
        BY <2>1, <4>1, SMTT(60)
    <3>2. CASE q <= 0
      <4>1. n * q <= 0
        BY <2>1, <3>2, SMTT(60)
      <4>. QED
        BY <1>2, <2>1, <4>1, SMTT(60)
    <3>. QED
      BY <2>1, <3>1, <3>2, SMTT(60)
  <2>3. m = x - n
    BY <2>1, <2>2, SMTT(60)
  <2>. QED
    BY <1>2, <2>3, SMTT(60)
<1>. QED
  BY <1>1, <1>2, SMTT(60)

\* One slot on.
Succ(i) == IF i = SIZE - 1 THEN 0 ELSE i + 1

\* The slot of the i-th character behind tail t.
Place(t, i) == IF t + i - 1 < SIZE THEN t + i - 1 ELSE t + i - 1 - SIZE

\* The number of characters between tail t and head h.
Between(t, h) == IF h >= t THEN h - t ELSE h - t + SIZE

\* The divisions of keyboard.c and of Queue, without dividing.
LEMMA RingArithmetic ==
  ASSUME KeyboardConstants
  PROVE  /\ SIZE \in Nat \ {0, 1} /\ Slots = 0 .. (SIZE - 1)
         /\ \A h \in Slots : (h + 1) % SIZE = Succ(h) /\ Succ(h) \in Slots
         /\ \A t \in Slots : \A i \in 1 .. SIZE :
              (t + i - 1) % SIZE = Place(t, i) /\ Place(t, i) \in Slots
         /\ \A t, h \in Slots : (h - t + SIZE) % SIZE = Between(t, h)
<1>1. SIZE \in Nat \ {0, 1} /\ SIZE \in Nat \ {0} /\ Slots = 0 .. (SIZE - 1)
  BY DEF KeyboardConstants, Slots
<1>2. ASSUME NEW h \in Slots PROVE (h + 1) % SIZE = Succ(h) /\ Succ(h) \in Slots
  <2> DEFINE x == h + 1
  <2>1. x \in 0 .. (2 * SIZE - 1)
    BY <1>1, SMTT(60)
  <2> HIDE DEF x
  <2>2. x % SIZE = IF x < SIZE THEN x ELSE x - SIZE
    BY <1>1, <2>1, ModOnce
  <2> USE DEF x
  <2>. QED
    BY <1>1, <2>2, SMTT(60) DEF Succ
<1>3. ASSUME NEW t \in Slots, NEW i \in 1 .. SIZE
      PROVE  (t + i - 1) % SIZE = Place(t, i) /\ Place(t, i) \in Slots
  <2> DEFINE x == t + i - 1
  <2>1. x \in 0 .. (2 * SIZE - 1)
    BY <1>1, SMTT(60)
  <2> HIDE DEF x
  <2>2. x % SIZE = IF x < SIZE THEN x ELSE x - SIZE
    BY <1>1, <2>1, ModOnce
  <2> USE DEF x
  <2>. QED
    BY <1>1, <2>2, SMTT(60) DEF Place
<1>4. ASSUME NEW t \in Slots, NEW h \in Slots PROVE (h - t + SIZE) % SIZE = Between(t, h)
  <2> DEFINE x == h - t + SIZE
  <2>1. x \in 0 .. (2 * SIZE - 1)
    BY <1>1, SMTT(60)
  <2> HIDE DEF x
  <2>2. x % SIZE = IF x < SIZE THEN x ELSE x - SIZE
    BY <1>1, <2>1, ModOnce
  <2> USE DEF x
  <2>. QED
    BY <1>1, <2>2, SMTT(60) DEF Between
<1>. QED
  BY <1>1, <1>2, <1>3, <1>4

-----------------------------------------------------------------------------
(* The invariant: the character keyboard_getchar has loaded is still the   *)
(* oldest one in the buffer when it removes it.                            *)

RingInv ==
  /\ KeyboardTypeOK
  /\ loop_pc = "getchar" => keyboard_has_input
  /\ loop_pc = "advance" => keyboard_has_input /\ c = keyboard_buffer[buffer_tail]

\* The buffer is empty at first.
LEMMA RingInit == KeyboardConstants /\ KeyboardInit => RingInv
BY SMTT(60) DEF KeyboardConstants, KeyboardInit, RingInv, KeyboardTypeOK, Slots

\* What a scancode is translated to.
LEMMA TranslateType ==
  ASSUME NEW sc
  PROVE  Translate(sc) \in Chars \cup {0}
BY DEF Translate, Chars

\* keyboard_handler leaves the slot of the tail alone unless it is empty.
LEMMA HandlerKeeps ==
  ASSUME KeyboardConstants, RingInv, NEW sc \in Scancodes, keyboard_handler(sc)
  PROVE  RingInv'
<1>1. CASE Translate(sc) # 0 /\ (buffer_head + 1) % SIZE # buffer_tail
  <2>1. /\ keyboard_buffer' = [keyboard_buffer EXCEPT ![buffer_head] = Translate(sc)]
        /\ buffer_head' = (buffer_head + 1) % SIZE /\ buffer_tail' = buffer_tail
        /\ c' = c /\ screen' = screen /\ Wake
    BY <1>1 DEF keyboard_handler
  <2>2. buffer_head' \in Slots /\ buffer_head' # buffer_tail
    BY <1>1, <2>1, RingArithmetic DEF RingInv, KeyboardTypeOK
  <2>3. keyboard_buffer' \in [Slots -> Chars \cup {0}]
    BY <2>1, TranslateType DEF RingInv, KeyboardTypeOK
  <2>4. keyboard_has_input => keyboard_buffer'[buffer_tail] = keyboard_buffer[buffer_tail]
    BY <2>1 DEF RingInv, KeyboardTypeOK, keyboard_has_input
  <2>. QED
    BY <2>1, <2>2, <2>3, <2>4 DEF RingInv, KeyboardTypeOK, Wake, keyboard_has_input
<1>2. CASE ~(Translate(sc) # 0 /\ (buffer_head + 1) % SIZE # buffer_tail)
  BY <1>2 DEF keyboard_handler, RingInv, KeyboardTypeOK, Wake, keyboard_has_input
<1>. QED
  BY <1>1, <1>2

\* The other steps.
LEMMA LoopKeeps ==
  ASSUME KeyboardConstants, RingInv, MainLoop \/ OtherInterrupt
  PROVE  RingInv'
<1>1. CASE HasInput
  BY <1>1 DEF HasInput, RingInv, KeyboardTypeOK, ring, keyboard_has_input
<1>2. CASE GetcharLoad
  BY <1>2 DEF GetcharLoad, RingInv, KeyboardTypeOK, ring, keyboard_has_input
<1>3. CASE GetcharAdvance
  BY <1>3, RingArithmetic DEF GetcharAdvance, RingInv, KeyboardTypeOK, keyboard_has_input
<1>4. CASE Putchar
  BY <1>4 DEF Putchar, RingInv, KeyboardTypeOK, ring, keyboard_has_input
<1>5. CASE Hlt
  BY <1>5 DEF Hlt, RingInv, KeyboardTypeOK, ring, keyboard_has_input
<1>6. CASE OtherInterrupt
  BY <1>6 DEF OtherInterrupt, Wake, RingInv, KeyboardTypeOK, ring, keyboard_has_input
<1>. QED
  BY <1>1, <1>2, <1>3, <1>4, <1>5, <1>6 DEF MainLoop

-----------------------------------------------------------------------------
(* The refinement.                                                         *)

hand == IF loop_pc = "putchar" THEN <<c>> ELSE <<>>

\* The queue without divisions.
QueueShape ==
  /\ Length = Between(buffer_tail, buffer_head) /\ Length \in 0 .. (SIZE - 1)
  /\ Queue = [i \in 1 .. Length |-> keyboard_buffer[Place(buffer_tail, i)]]
  /\ \A i \in 1 .. Length : Place(buffer_tail, i) \in Slots
  /\ Queue \in Seq(Chars \cup {0}) /\ Len(Queue) = Length

\* The characters between tail and head have that shape.
LEMMA QueueValue == KeyboardConstants /\ KeyboardTypeOK => QueueShape
<1> SUFFICES ASSUME KeyboardConstants, KeyboardTypeOK PROVE QueueShape
  OBVIOUS
<1>1. /\ SIZE \in Nat \ {0, 1} /\ Slots = 0 .. (SIZE - 1)
      /\ buffer_head \in Slots /\ buffer_tail \in Slots
      /\ keyboard_buffer \in [Slots -> Chars \cup {0}]
  BY RingArithmetic DEF KeyboardTypeOK
<1>2. Length = Between(buffer_tail, buffer_head)
  BY <1>1, RingArithmetic DEF Length
<1>3. Length \in 0 .. (SIZE - 1)
  BY <1>1, <1>2, SMTT(60) DEF Between
<1>4. \A i \in 1 .. Length : /\ (buffer_tail + i - 1) % SIZE = Place(buffer_tail, i)
                             /\ Place(buffer_tail, i) \in Slots
  <2> SUFFICES ASSUME NEW i \in 1 .. Length
               PROVE  /\ (buffer_tail + i - 1) % SIZE = Place(buffer_tail, i)
                      /\ Place(buffer_tail, i) \in Slots
    OBVIOUS
  <2>1. i \in 1 .. SIZE
    BY <1>1, <1>3, SMTT(60)
  <2>. QED
    BY <1>1, <2>1, RingArithmetic
<1>5. Queue = [i \in 1 .. Length |-> keyboard_buffer[Place(buffer_tail, i)]]
  BY <1>4 DEF Queue
<1>6. Queue \in [1 .. Length -> Chars \cup {0}]
  BY <1>1, <1>4, <1>5
<1>7. Queue \in Seq(Chars \cup {0}) /\ Len(Queue) = Length
  BY <1>3, <1>6, SMTT(60)
<1>. QED
  BY <1>2, <1>3, <1>4, <1>5, <1>7 DEF QueueShape

\* The same of the next state.
LEMMA QueueValueNext == (KeyboardConstants /\ KeyboardTypeOK => QueueShape)'
BY QueueValue, PTL

\* A key that is stored is appended; one that is not changes nothing.
LEMMA HandlerTypes ==
  ASSUME KeyboardConstants, RingInv, RingInv', NEW sc \in Scancodes, keyboard_handler(sc)
  PROVE  (\E key \in Chars : Input!Type(key)) \/ UNCHANGED <<Queue, hand, screen>>
<1>0. /\ SIZE \in Nat \ {0, 1} /\ Slots = 0 .. (SIZE - 1)
      /\ buffer_head \in Slots /\ buffer_tail \in Slots
      /\ keyboard_buffer \in [Slots -> Chars \cup {0}]
      /\ KeyboardTypeOK /\ KeyboardTypeOK'
  BY RingArithmetic DEF RingInv, KeyboardTypeOK
<1>1. QueueShape
  BY <1>0, QueueValue
<1>2. QueueShape'
  BY <1>0, QueueValueNext
<1>3. hand' = hand /\ screen' = screen
  BY DEF keyboard_handler, Wake, hand
<1>4. CASE Translate(sc) # 0 /\ (buffer_head + 1) % SIZE # buffer_tail
  <2> DEFINE key == Translate(sc)
  <2>1. key \in Chars
    BY <1>4, TranslateType
  <2>2. /\ keyboard_buffer' = [keyboard_buffer EXCEPT ![buffer_head] = key]
        /\ buffer_head' = Succ(buffer_head) /\ buffer_tail' = buffer_tail
        /\ Succ(buffer_head) # buffer_tail
    BY <1>0, <1>4, RingArithmetic DEF keyboard_handler
  <2> HIDE DEF key
  <2>3. Length < SIZE - 1 /\ Length' = Length + 1 /\ Length \in Nat
    BY <1>0, <1>1, <1>2, <2>2, SMTT(60) DEF QueueShape, Between, Succ
  <2>4. Queue' = Append(Queue, key)
    <3>1. Place(buffer_tail, Length + 1) = buffer_head
      BY <1>0, <1>1, SMTT(60) DEF QueueShape, Between, Place
    <3>2. ASSUME NEW i \in 1 .. Length
          PROVE  Place(buffer_tail, i) # buffer_head /\ Place(buffer_tail, i) \in Slots
      BY <1>0, <1>1, <2>3, SMTT(60) DEF QueueShape, Between, Place
    <3>3. Queue' = [i \in 1 .. (Length + 1) |-> keyboard_buffer'[Place(buffer_tail, i)]]
      BY <1>2, <2>2, <2>3, SMTT(60) DEF QueueShape, Place
    <3>4. Append(Queue, key) = [i \in 1 .. (Length + 1) |-> IF i = Length + 1 THEN key ELSE Queue[i]]
      BY <1>1, <2>3, SMTT(60) DEF QueueShape
    <3>5. ASSUME NEW i \in 1 .. (Length + 1)
          PROVE  keyboard_buffer'[Place(buffer_tail, i)] = IF i = Length + 1 THEN key ELSE Queue[i]
      <4>1. CASE i = Length + 1
        BY <1>0, <2>2, <3>1, <4>1
      <4>2. CASE i # Length + 1
        <5>1. i \in 1 .. Length
          BY <2>3, <4>2, SMTT(60)
        <5>2. Queue[i] = keyboard_buffer[Place(buffer_tail, i)]
          BY <1>1, <5>1 DEF QueueShape
        <5>. QED
          BY <1>0, <2>2, <3>2, <4>2, <5>1, <5>2
      <4>. QED
        BY <4>1, <4>2
    <3>. QED
      BY <3>3, <3>4, <3>5
  <2>5. Len(Queue) < SIZE - 1
    BY <1>1, <2>3 DEF QueueShape
  <2>6. Input!Type(key)
    BY <1>3, <2>4, <2>5 DEF Input!Type, hand
  <2>. QED
    BY <2>1, <2>6
<1>5. CASE ~(Translate(sc) # 0 /\ (buffer_head + 1) % SIZE # buffer_tail)
  BY <1>3, <1>5 DEF keyboard_handler, Queue, Length
<1>. QED
  BY <1>4, <1>5

\* keyboard_getchar takes the oldest character.
LEMMA AdvanceTakes ==
  ASSUME KeyboardConstants, RingInv, RingInv', GetcharAdvance
  PROVE  Input!Take
<1>0. /\ SIZE \in Nat \ {0, 1} /\ Slots = 0 .. (SIZE - 1)
      /\ buffer_head \in Slots /\ buffer_tail \in Slots
      /\ KeyboardTypeOK /\ KeyboardTypeOK'
      /\ buffer_head # buffer_tail /\ c = keyboard_buffer[buffer_tail]
  BY RingArithmetic DEF RingInv, KeyboardTypeOK, GetcharAdvance, keyboard_has_input
<1>1. QueueShape
  BY <1>0, QueueValue
<1>2. QueueShape'
  BY <1>0, QueueValueNext
<1>3. /\ keyboard_buffer' = keyboard_buffer /\ buffer_head' = buffer_head
      /\ buffer_tail' = Succ(buffer_tail)
  BY <1>0, RingArithmetic DEF GetcharAdvance
<1>4. hand = <<>> /\ hand' = <<c>> /\ screen' = screen
  BY DEF GetcharAdvance, hand
<1>5. Length \in Nat /\ Length > 0 /\ Length' = Length - 1
  BY <1>0, <1>1, <1>2, <1>3, SMTT(60) DEF QueueShape, Between, Succ
<1>6. Queue # <<>> /\ Head(Queue) = c
  <2>1. Place(buffer_tail, 1) = buffer_tail
    BY <1>0, SMTT(60) DEF Place
  <2>2. Queue[1] = c
    BY <1>0, <1>1, <1>5, <2>1, SMTT(60) DEF QueueShape
  <2>. QED
    BY <1>1, <1>5, <2>2, SMTT(60) DEF QueueShape
<1>7. Queue' = Tail(Queue)
  <2>1. Queue' = [i \in 1 .. (Length - 1) |-> keyboard_buffer[Place(Succ(buffer_tail), i)]]
    BY <1>2, <1>3, <1>5 DEF QueueShape, Place
  <2>2. Tail(Queue) = [i \in 1 .. (Length - 1) |-> Queue[i + 1]]
    BY <1>1, <1>5, <1>6, SMTT(60) DEF QueueShape
  <2>3. ASSUME NEW i \in 1 .. (Length - 1)
        PROVE  keyboard_buffer[Place(Succ(buffer_tail), i)] = Queue[i + 1]
    <3>1. i + 1 \in 1 .. Length
      BY <1>5, SMTT(60)
    <3>2. Queue[i + 1] = keyboard_buffer[Place(buffer_tail, i + 1)]
      BY <1>1, <3>1 DEF QueueShape
    <3>3. Place(Succ(buffer_tail), i) = Place(buffer_tail, i + 1)
      BY <1>0, <1>1, <1>5, <3>1, SMTT(60) DEF QueueShape, Place, Succ
    <3>. QED
      BY <3>2, <3>3
  <2>. QED
    BY <2>1, <2>2, <2>3
<1>. QED
  BY <1>4, <1>6, <1>7 DEF Input!Take, hand

\* Every step of the driver and of the main loop is a step of the queue.
LEMMA RingStepRefines ==
  ASSUME KeyboardConstants, RingInv, RingInv', [KeyboardNext]_keyboardVars
  PROVE  [Input!Next]_<<Queue, hand, screen>>
<1>1. CASE \E sc \in Scancodes : keyboard_handler(sc)
  BY <1>1, HandlerTypes DEF Input!Next
<1>2. CASE GetcharAdvance
  BY <1>2, AdvanceTakes DEF Input!Next
<1>3. CASE Putchar
  <2>1. hand = <<c>> /\ hand' = <<>> /\ screen' = <<c>> /\ Queue' = Queue
    BY <1>3 DEF Putchar, hand, ring, Queue, Length
  <2>2. Input!Echo
    BY <2>1 DEF Input!Echo, hand
  <2>. QED
    BY <2>2 DEF Input!Next
<1>4. CASE HasInput \/ Hlt \/ OtherInterrupt \/ UNCHANGED keyboardVars
  BY <1>4 DEF HasInput, Hlt, OtherInterrupt, Wake, keyboardVars, ring, hand, Queue, Length
<1>5. CASE GetcharLoad
  BY <1>5 DEF GetcharLoad, RingInv, ring, hand, Queue, Length
<1>. QED
  BY <1>1, <1>2, <1>3, <1>4, <1>5 DEF KeyboardNext, MainLoop

\* The driver and the main loop implement the queue: for every size of the
\* buffer, and however interrupts fall into keyboard_getchar, what is echoed
\* is what was stored, in that order and each character once.
THEOREM RingBufferIsAQueue == KeyboardConstants => (KeyboardSpec => ImplementsInputQueue)
<1> SUFFICES ASSUME KeyboardConstants PROVE KeyboardSpec => ImplementsInputQueue
  OBVIOUS
<1>1. KeyboardInit => RingInv
  BY RingInit
<1>2. RingInv /\ [KeyboardNext]_keyboardVars => RingInv'
  <2>1. CASE UNCHANGED keyboardVars
    BY <2>1 DEF keyboardVars, RingInv, KeyboardTypeOK, keyboard_has_input
  <2>. QED
    BY <2>1, HandlerKeeps, LoopKeeps DEF KeyboardNext
<1>3. KeyboardInit => Input!Init
  <2> SUFFICES ASSUME KeyboardInit PROVE Input!Init
    OBVIOUS
  <2>1. RingInv /\ QueueShape
    BY <1>1, QueueValue DEF RingInv
  <2>2. Len(Queue) = 0 /\ Queue \in Seq(Chars \cup {0})
    BY <2>1, SMTT(60) DEF QueueShape, KeyboardInit, Between
  <2>. QED
    BY <2>2, SMTT(60) DEF KeyboardInit, Input!Init
<1>4. RingInv /\ RingInv' /\ [KeyboardNext]_keyboardVars => [Input!Next]_<<Queue, hand, screen>>
  BY RingStepRefines
<1>5. KeyboardSpec => []RingInv
  BY <1>1, <1>2, PTL DEF KeyboardSpec
<1>6. RingInv => KeyboardTypeOK
  BY DEF RingInv
<1>. QED
  BY <1>3, <1>4, <1>5, <1>6, PTL DEF KeyboardSpec, ImplementsInputQueue, Input!Spec, hand

-----------------------------------------------------------------------------
(* The shared console.                                                     *)

W == VGA_WIDTH
H == VGA_HEIGHT

USE DEF W, H

-----------------------------------------------------------------------------
(* Arithmetic.                                                             *)

\* A word that does not overflow, and one that does so once.
LEMMA Remainders ==
  ASSUME NEW n \in Nat \ {0}, NEW a \in Nat, a < n
  PROVE  a % n = a /\ (a + n) % n = a /\ (a - n) % n = a
<1>1. ASSUME NEW b \in Int, NEW k \in {0, 1, -1}, b = a + n * k
      PROVE  b % n = a
  <2> DEFINE q == b \div n
             m == b % n
  <2>1. b = n * q + m /\ m \in 0 .. (n - 1) /\ q \in Int
    BY SMTT(60)
  <2> HIDE DEF q, m
  <2>2. q = k
    <3>1. CASE q >= k + 1
      <4>1. n * q >= n * (k + 1) /\ n * (k + 1) = n * k + n
        BY <2>1, <3>1, SMTT(60)
      <4>. QED
        BY <1>1, <2>1, <4>1, SMTT(60)
    <3>2. CASE q <= k - 1
      <4>1. n * q <= n * (k - 1) /\ n * (k - 1) = n * k - n
        BY <2>1, <3>2, SMTT(60)
      <4>. QED
        BY <1>1, <2>1, <4>1, SMTT(60)
    <3>. QED
      BY <2>1, <3>1, <3>2, SMTT(60)
  <2>. QED
    BY <1>1, <2>1, <2>2, SMTT(60) DEF m
<1>. QED
  BY <1>1, SMTT(60)

\* Products with the width.
LEMMA Products ==
  ASSUME ConsoleSharedConstants
  PROVE  /\ W \in Nat \ {0} /\ H \in Nat \ {0} /\ WORD \in Nat
         /\ \A y \in 0 .. H : y * W \in Nat /\ y * W <= H * W
         /\ \A y \in 0 .. (H - 1) : y * W + W <= H * W
         /\ \A y \in 1 .. H : y * W >= W
         /\ H * W \in Nat /\ W * (H + 1) = H * W + W
         /\ H * W + W + W < WORD /\ H + 1 < WORD
<1>1. W \in Nat \ {0} /\ H \in Nat \ {0} /\ WORD \in Nat /\ WORD > (H + 2) * W
  BY DEF ConsoleSharedConstants, W, H
<1>2. ASSUME NEW y \in 0 .. H PROVE y * W \in Nat /\ y * W <= H * W
  <2>1. y \in Nat /\ H - y \in Nat /\ W \in Nat
    BY <1>1, SMTT(60)
  <2>2. (H - y) * W \in Nat /\ y * W \in Nat
    BY <2>1, SMTT(60)
  <2>3. (H - y) * W = H * W - y * W
    BY <1>1, <2>1, SMTT(60)
  <2>. QED
    BY <1>1, <2>2, <2>3, SMTT(60)
<1>3. ASSUME NEW y \in 0 .. (H - 1) PROVE y * W + W <= H * W
  <2>1. (y + 1) * W <= H * W
    BY <1>1, <1>2, SMTT(60)
  <2>2. (y + 1) * W = y * W + W
    BY <1>1, SMTT(60)
  <2>. QED
    BY <2>1, <2>2
<1>4. ASSUME NEW y \in 1 .. H PROVE y * W >= W
  <2>1. y - 1 \in 0 .. H
    BY <1>1, SMTT(60)
  <2>2. (y - 1) * W \in Nat
    BY <1>2, <2>1
  <2>3. (y - 1) * W = y * W - W
    BY <1>1, SMTT(60)
  <2>. QED
    BY <1>1, <2>2, <2>3, SMTT(60)
<1>5. H * W \in Nat /\ (H + 2) * W = H * W + W + W /\ W * (H + 1) = H * W + W
  BY <1>1, SMTT(60)
<1>6. H <= H * W
  <2>1. (W - 1) * H \in Nat
    BY <1>1, SMTT(60)
  <2>2. (W - 1) * H = H * W - H
    BY <1>1, SMTT(60)
  <2>. QED
    BY <1>1, <1>5, <2>1, <2>2, SMTT(60)
<1>. QED
  BY <1>1, <1>2, <1>3, <1>4, <1>5, <1>6, SMTT(60)

\* The cells that are written.
Reach == 0 .. (W * (H + 1) - 1) \cup {WORD - 1}

\* A cell of the screen or of the line behind its end.
LEMMA IndexOnScreen ==
  ASSUME ConsoleSharedConstants, NEW y \in 0 .. H, NEW x \in 0 .. (W - 1)
  PROVE  Index(y, x) \in Reach
<1>1. y * W + x \in 0 .. (W * (H + 1) - 1) /\ y * W + x < WORD /\ y * W + x \in Nat
  BY Products, SMTT(60)
<1>2. (y * W + x) % WORD = y * W + x
  <2> DEFINE z == y * W + x
  <2> HIDE DEF z
  <2>1. z \in Nat /\ z < WORD /\ WORD \in Nat \ {0}
    BY <1>1, Products, SMTT(60) DEF z
  <2>2. z % WORD = z
    BY <2>1, Remainders
  <2>. QED
    BY <2>2 DEF z
<1>. QED
  BY <1>1, <1>2 DEF Index, Reach, W

\* A column of W is the first cell of the next line.
LEMMA IndexBehindLine ==
  ASSUME ConsoleSharedConstants, NEW y \in 0 .. (H - 1)
  PROVE  Index(y, W) \in Reach
<1>1. y * W + W \in 0 .. (W * (H + 1) - 1) /\ y * W + W < WORD /\ y * W + W \in Nat
  BY Products, SMTT(60)
<1>2. (y * W + W) % WORD = y * W + W
  <2> DEFINE z == y * W + W
  <2> HIDE DEF z
  <2>1. z \in Nat /\ z < WORD /\ WORD \in Nat \ {0}
    BY <1>1, Products, SMTT(60) DEF z
  <2>2. z % WORD = z
    BY <2>1, Remainders
  <2>. QED
    BY <2>2 DEF z
<1>. QED
  BY <1>1, <1>2 DEF Index, Reach, W

\* A column of -1, as an unsigned word, is the last cell of the line before.
LEMMA IndexBeforeLine ==
  ASSUME ConsoleSharedConstants, NEW y \in 0 .. (H - 1)
  PROVE  Index(y, WORD - 1) \in Reach
<1>1. CASE y = 0
  <2>1. 0 * W + (WORD - 1) = WORD - 1 /\ WORD - 1 \in Nat
    BY Products, SMTT(60)
  <2>2. (WORD - 1) % WORD = WORD - 1
    <3> DEFINE z == WORD - 1
    <3>1. z \in Nat /\ z < WORD /\ WORD \in Nat \ {0}
      BY Products, SMTT(60)
    <3> HIDE DEF z
    <3>2. z % WORD = z
      BY <3>1, Remainders
    <3>. QED
      BY <3>2 DEF z
  <2>. QED
    BY <1>1, <2>1, <2>2 DEF Index, Reach, W
<1>2. CASE y # 0
  <2> DEFINE x == y * W - 1
  <2>1. x \in 0 .. (W * (H + 1) - 1) /\ x < WORD /\ x \in Nat
    <3>1. y \in 1 .. H /\ y \in 0 .. H
      BY <1>2, Products, SMTT(60)
    <3>2. y * W \in Nat /\ y * W <= H * W /\ y * W >= W /\ W \in Nat \ {0}
      BY <3>1, Products
    <3>. QED
      BY <3>2, Products, SMTT(60)
  <2>2. y * W + (WORD - 1) = x + WORD
    BY Products, SMTT(60)
  <2> HIDE DEF x
  <2>3. (x + WORD) % WORD = x
    BY <2>1, Products, Remainders, SMTT(60)
  <2>. QED
    BY <2>1, <2>2, <2>3 DEF Index, Reach, W
<1>. QED
  BY <1>1, <1>2

\* The part without products.
LEMMA Sizes ==
  ASSUME ConsoleSharedConstants
  PROVE  /\ W \in Nat /\ W >= 1 /\ H \in Nat /\ H >= 1
         /\ WORD \in Nat /\ W + 1 < WORD /\ H + 1 < WORD
  BY Products, SMTT(60)

\* One more and one less, in words.
LEMMA Counting ==
  ASSUME ConsoleSharedConstants
  PROVE  /\ \A x \in 0 .. W : (x + 1) % WORD = x + 1
         /\ \A y \in 0 .. H : (y + 1) % WORD = y + 1
         /\ \A x \in Nat : x = WORD - 1 => (x + 1) % WORD = 0
         /\ \A x \in 1 .. W : (x - 1) % WORD = x - 1
         /\ \A x \in Nat : x = 0 => (x - 1) % WORD = WORD - 1
<1>1. WORD \in Nat \ {0} /\ W + 1 < WORD /\ H + 1 < WORD /\ W \in Nat /\ H \in Nat
  BY Sizes, SMTT(60)
<1>2. ASSUME NEW z \in Nat, z < WORD PROVE z % WORD = z
  BY <1>1, <1>2, Remainders
<1>3. ASSUME NEW x \in Nat, x = WORD - 1 PROVE (x + 1) % WORD = 0
  <2>1. x + 1 = 0 + WORD
    BY <1>1, <1>3, SMTT(60)
  <2>2. (0 + WORD) % WORD = 0
    BY <1>1, Remainders, SMTT(60)
  <2>. QED
    BY <2>1, <2>2
<1>4. (0 - 1) % WORD = WORD - 1
  <2> DEFINE z == WORD - 1
  <2>1. z \in Nat /\ z < WORD /\ 0 - 1 = z - WORD
    BY <1>1, SMTT(60)
  <2> HIDE DEF z
  <2>2. (z - WORD) % WORD = z
    BY <1>1, <2>1, Remainders
  <2>. QED
    BY <2>1, <2>2 DEF z
<1>5. \A x \in 0 .. W : x + 1 \in Nat /\ x + 1 < WORD
  BY <1>1, SMTT(60)
<1>6. \A y \in 0 .. H : y + 1 \in Nat /\ y + 1 < WORD
  BY <1>1, SMTT(60)
<1>7. \A x \in 1 .. W : x - 1 \in Nat /\ x - 1 < WORD
  BY <1>1, SMTT(60)
<1>. QED
  BY <1>2, <1>3, <1>4, <1>5, <1>6, <1>7

-----------------------------------------------------------------------------
(* The inductive invariant: where the row and the column may be one too    *)
(* large, or the column one too small, and what kernel_main may hold.      *)

\* The column is off the line between two stores of a wrap, and nowhere else.
ColumnAt ==
  \/ column \in 0 .. (W - 1)
  \/ put_pc = "wrap" /\ column \in {W, WORD - 1}

\* The row is off the screen between its store and the scrolling, and then
\* kernel_main knows that it has to scroll.
RowAt ==
  \/ row \in 0 .. (H - 1)
  \/ put_pc \in {"test", "scroll"} /\ row = H /\ r = H

\* What kernel_main has loaded was on the screen.
Loaded ==
  /\ put_pc \in {"return", "write", "advance", "wrap", "reload column", "step back"} =>
       r \in 0 .. (H - 1)
  /\ put_pc \in {"store row", "test", "scroll"} => r \in 0 .. H
  /\ (put_pc = "load row" /\ ch = "printable") \/ put_pc \in {"write", "advance", "step back"} =>
       col \in 0 .. (W - 1)
  /\ put_pc = "rub out" => col \in 1 .. (W - 1)

CursorInv ==
  /\ ColumnAt /\ RowAt /\ Loaded
  /\ ch \in CharKinds
  /\ written \in Reach

\* The invariant says what the property says.
LEMMA CursorInvImplies == ConsoleSharedConstants /\ CursorInv => OneLineOut
  BY Sizes, SMTT(60) DEF ConsoleSharedConstants, CursorInv, ColumnAt, RowAt, OneLineOut, Reach, W, H

\* Both start at the top left.
LEMMA CursorInit == ConsoleSharedConstants /\ SharedInit => CursorInv
<1> SUFFICES ASSUME ConsoleSharedConstants, SharedInit PROVE CursorInv
  OBVIOUS
<1>1. 0 \in Reach
  BY Products, SMTT(60) DEF Reach
<1>. QED
  BY <1>1, Sizes, SMTT(60) DEF SharedInit, CursorInv, ColumnAt, RowAt, Loaded, CharKinds

\* A task's whole call, in any of the places where it may come.
LEMMA TaskStep == ConsoleSharedConstants /\ CursorInv /\ TaskPrints => CursorInv'
<1> SUFFICES ASSUME ConsoleSharedConstants, CursorInv, TaskPrints PROVE CursorInv'
  OBVIOUS
<1> DEFINE x == (column + 1) % WORD
           wrap == x >= W
           y == IF wrap THEN (row + 1) % WORD ELSE row
<1>1. /\ written' = Index(row, column)
      /\ column' = IF wrap THEN 0 ELSE x
      /\ row' = IF y >= H THEN H - 1 ELSE y
      /\ put_pc' = put_pc /\ ch' = ch /\ r' = r /\ col' = col
  BY DEF TaskPrints, W, H
<1>2. x \in 0 .. (W + 1)
  <2>1. CASE column \in 0 .. W
    <3>1. (column + 1) % WORD = column + 1
      BY <2>1, Counting
    <3>. QED
      BY <2>1, <3>1, Sizes, SMTT(60)
  <2>2. CASE column = WORD - 1
    BY <2>2, Sizes, Counting, SMTT(60)
  <2>. QED
    BY <2>1, <2>2, Sizes, SMTT(60) DEF CursorInv, ColumnAt
<1>3. y \in 0 .. (H + 1)
  <2>1. row \in 0 .. H
    BY Sizes, SMTT(60) DEF CursorInv, RowAt
  <2>2. (row + 1) % WORD = row + 1
    BY <2>1, Counting
  <2>. QED
    BY <2>1, <2>2, Sizes, SMTT(60)
<1>4. written' \in Reach
  <2>1. CASE column \in 0 .. (W - 1)
    <3>1. row \in 0 .. H
      BY Sizes, SMTT(60) DEF CursorInv, RowAt
    <3>. QED
      BY <1>1, <2>1, <3>1, IndexOnScreen
  <2>2. CASE put_pc = "wrap" /\ column \in {W, WORD - 1}
    <3>1. row \in 0 .. (H - 1)
      BY <2>2 DEF CursorInv, RowAt
    <3>. QED
      BY <1>1, <2>2, <3>1, IndexBehindLine, IndexBeforeLine
  <2>. QED
    BY <2>1, <2>2 DEF CursorInv, ColumnAt
<1> HIDE DEF x, y
<1>5. ColumnAt' /\ RowAt'
  BY <1>1, <1>2, <1>3, Sizes, SMTT(60) DEF ColumnAt, RowAt
<1>6. Loaded' /\ ch' \in CharKinds
  BY <1>1 DEF CursorInv, Loaded
<1>. QED
  BY <1>4, <1>5, <1>6 DEF CursorInv

\* The steps of kernel_main that only load or test.
LEMMA LoadStep ==
  ConsoleSharedConstants /\ CursorInv
  /\ ((\E char \in CharKinds : Call(char)) \/ LoadColumn \/ LoadRow \/ Test \/ ReloadRow \/ ReloadColumn)
  => CursorInv'
<1> SUFFICES ASSUME ConsoleSharedConstants, CursorInv PROVE
      ((\E char \in CharKinds : Call(char)) \/ LoadColumn \/ LoadRow \/ Test \/ ReloadRow \/ ReloadColumn)
      => CursorInv'
  OBVIOUS
<1>1. ASSUME NEW char \in CharKinds, Call(char) PROVE CursorInv'
  <2>1. /\ put_pc = "idle" /\ put_pc' \in {"load row", "load column"} /\ ch' = char
        /\ put_pc' = "load row" => char # "printable"
        /\ UNCHANGED <<row, column, written>>
    BY <1>1 DEF Call, CharKinds
  <2>2. column \in 0 .. (W - 1) /\ row \in 0 .. (H - 1)
    BY <2>1 DEF CursorInv, ColumnAt, RowAt
  <2>3. ColumnAt' /\ RowAt' /\ Loaded'
    BY <2>1, <2>2 DEF ColumnAt, RowAt, Loaded
  <2>. QED
    BY <1>1, <2>1, <2>3 DEF CursorInv
<1>2. ASSUME LoadColumn PROVE CursorInv'
  <2>1. /\ put_pc = "load column" /\ col' = column
        /\ put_pc' = "load row" \/ (put_pc' = "rub out" /\ column # 0)
        /\ UNCHANGED <<row, column, ch, written>>
    BY <1>2 DEF LoadColumn
  <2>2. column \in 0 .. (W - 1) /\ row \in 0 .. (H - 1)
    BY <2>1 DEF CursorInv, ColumnAt, RowAt, Loaded
  <2>3. ColumnAt' /\ RowAt'
    BY <2>1, <2>2, Sizes DEF ColumnAt, RowAt
  <2>4. column # 0 => column \in 1 .. (W - 1)
    BY <2>2, Sizes, SMTT(60)
  <2>5. Loaded'
    BY <2>1, <2>2, <2>4 DEF Loaded
  <2>. QED
    BY <2>1, <2>3, <2>5 DEF CursorInv, CharKinds
<1>3. ASSUME LoadRow PROVE CursorInv'
  <2>1. /\ put_pc = "load row" /\ r' = row
        /\ (put_pc' = "write" /\ ch = "printable") \/ put_pc' \in {"test", "return"}
        /\ UNCHANGED <<row, column, ch, col, written>>
    BY <1>3 DEF LoadRow
  <2>2. /\ column \in 0 .. (W - 1) /\ row \in 0 .. (H - 1)
        /\ (ch = "printable" => col \in 0 .. (W - 1))
    BY <2>1 DEF CursorInv, ColumnAt, RowAt, Loaded
  <2>3. ColumnAt' /\ RowAt'
    BY <2>1, <2>2, Sizes DEF ColumnAt, RowAt
  <2>4. row \in 0 .. H
    BY <2>2, Sizes, SMTT(60)
  <2>5. Loaded'
    BY <2>1, <2>2, <2>4 DEF Loaded
  <2>. QED
    BY <2>1, <2>3, <2>5 DEF CursorInv, CharKinds
<1>4. ASSUME Test PROVE CursorInv'
  <2>1. /\ put_pc = "test"
        /\ (put_pc' = "scroll" /\ r >= H) \/ (put_pc' \in {"reload row", "idle"} /\ ~ (r >= H))
        /\ UNCHANGED <<row, column, ch, r, col, written>>
    BY <1>4 DEF Test
  <2>2. column \in 0 .. (W - 1) /\ r \in 0 .. H /\ RowAt
    BY <2>1 DEF CursorInv, ColumnAt, RowAt, Loaded
  <2>3. r = H => r >= H
    BY <2>2, Sizes, SMTT(60)
  <2>4. ColumnAt' /\ RowAt'
    BY <2>1, <2>2, <2>3 DEF ColumnAt, RowAt
  <2>5. Loaded'
    BY <2>1, <2>2, Sizes DEF Loaded
  <2>. QED
    BY <2>1, <2>4, <2>5 DEF CursorInv, CharKinds
<1>5. ASSUME ReloadRow PROVE CursorInv'
  <2>1. /\ put_pc = "reload row" /\ r' = row /\ put_pc' = "reload column"
        /\ UNCHANGED <<row, column, ch, col, written>>
    BY <1>5 DEF ReloadRow
  <2>2. column \in 0 .. (W - 1) /\ row \in 0 .. (H - 1)
    BY <2>1 DEF CursorInv, ColumnAt, RowAt, Loaded
  <2>3. ColumnAt' /\ RowAt'
    BY <2>1, <2>2, Sizes DEF ColumnAt, RowAt
  <2>4. Loaded'
    BY <2>1, <2>2, Sizes DEF Loaded
  <2>. QED
    BY <2>1, <2>3, <2>4 DEF CursorInv, CharKinds
<1>6. ASSUME ReloadColumn PROVE CursorInv'
  <2>1. /\ put_pc = "reload column" /\ col' = column /\ put_pc' = "step back"
        /\ UNCHANGED <<row, column, ch, r, written>>
    BY <1>6 DEF ReloadColumn
  <2>2. column \in 0 .. (W - 1) /\ row \in 0 .. (H - 1) /\ r \in 0 .. (H - 1)
    BY <2>1 DEF CursorInv, ColumnAt, RowAt, Loaded
  <2>3. ColumnAt' /\ RowAt'
    BY <2>1, <2>2, Sizes DEF ColumnAt, RowAt
  <2>4. Loaded'
    BY <2>1, <2>2, Sizes DEF Loaded
  <2>. QED
    BY <2>1, <2>3, <2>4 DEF CursorInv, CharKinds
<1>. QED
  BY <1>1, <1>2, <1>3, <1>4, <1>5, <1>6

\* The steps of kernel_main that store.
LEMMA StoreStep ==
  ConsoleSharedConstants /\ CursorInv
  /\ (Return \/ Write \/ Advance \/ Wrap \/ Scroll \/ RubOut \/ StepBack)
  => CursorInv'
<1> SUFFICES ASSUME ConsoleSharedConstants, CursorInv PROVE
      (Return \/ Write \/ Advance \/ Wrap \/ Scroll \/ RubOut \/ StepBack) => CursorInv'
  OBVIOUS
<1>1. ASSUME Return PROVE CursorInv'
  <2>1. /\ put_pc = "return" /\ column' = 0
        /\ (put_pc' = "store row" /\ r' = (r + 1) % WORD) \/ (put_pc' = "test" /\ r' = r)
        /\ UNCHANGED <<row, ch, col, written>>
    BY <1>1 DEF Return
  <2>2. row \in 0 .. (H - 1) /\ r \in 0 .. (H - 1)
    BY <2>1 DEF CursorInv, ColumnAt, RowAt, Loaded
  <2>3. (r + 1) % WORD = r + 1
    BY <2>2, Sizes, Counting, SMTT(60)
  <2>4. (r + 1) % WORD \in 0 .. H /\ r \in 0 .. H /\ 0 \in 0 .. (W - 1)
    BY <2>2, <2>3, Sizes, SMTT(60)
  <2>5. ColumnAt' /\ RowAt'
    BY <2>1, <2>2, <2>4 DEF ColumnAt, RowAt
  <2>6. Loaded'
    BY <2>1, <2>4 DEF Loaded
  <2>. QED
    BY <2>1, <2>5, <2>6 DEF CursorInv, CharKinds
<1>2. ASSUME Write PROVE CursorInv'
  <2>1. /\ put_pc = "write" /\ written' = Index(r, col) /\ put_pc' = "advance"
        /\ UNCHANGED <<row, column, ch, r, col>>
    BY <1>2 DEF Write
  <2>2. /\ column \in 0 .. (W - 1) /\ row \in 0 .. (H - 1)
        /\ r \in 0 .. (H - 1) /\ col \in 0 .. (W - 1)
    BY <2>1 DEF CursorInv, ColumnAt, RowAt, Loaded
  <2>3. ColumnAt' /\ RowAt'
    BY <2>1, <2>2, Sizes DEF ColumnAt, RowAt
  <2>4. Loaded'
    BY <2>1, <2>2, Sizes DEF Loaded
  <2>5. written' \in Reach
    <3>1. r \in 0 .. H
      BY <2>2, Sizes, SMTT(60)
    <3>. QED
      BY <2>1, <2>2, <3>1, IndexOnScreen
  <2>. QED
    BY <2>1, <2>3, <2>4, <2>5 DEF CursorInv, CharKinds
<1>3. ASSUME Advance PROVE CursorInv'
  <2>1. /\ put_pc = "advance" /\ column' = (col + 1) % WORD
        /\ put_pc' = (IF (col + 1) % WORD >= W THEN "wrap" ELSE "test")
        /\ UNCHANGED <<row, ch, r, written>>
    BY <1>3 DEF Advance, StoreColumn
  <2>2. row \in 0 .. (H - 1) /\ r \in 0 .. (H - 1) /\ col \in 0 .. (W - 1)
    BY <2>1 DEF CursorInv, ColumnAt, RowAt, Loaded
  <2>3. (col + 1) % WORD = col + 1
    BY <2>2, Sizes, Counting, SMTT(60)
  <2>4. (column' = W /\ put_pc' = "wrap") \/ (column' \in 0 .. (W - 1) /\ put_pc' = "test")
    BY <2>1, <2>2, <2>3, Sizes, SMTT(60)
  <2>5. ColumnAt' /\ RowAt'
    BY <2>1, <2>2, <2>3, <2>4, Sizes DEF ColumnAt, RowAt
  <2>6. Loaded'
    BY <2>1, <2>2, <2>3, <2>4, Sizes, SMTT(60) DEF Loaded
  <2>. QED
    BY <2>1, <2>5, <2>6 DEF CursorInv, CharKinds
<1>4. ASSUME Wrap, put_pc = "wrap" PROVE CursorInv'
  <2>1. /\ put_pc = "wrap" /\ column' = 0 /\ r' = (r + 1) % WORD /\ put_pc' = "store row"
        /\ UNCHANGED <<row, ch, col, written>>
    BY <1>4 DEF Wrap
  <2>2. row \in 0 .. (H - 1) /\ r \in 0 .. (H - 1)
    BY <2>1 DEF CursorInv, RowAt, Loaded
  <2>3. (r + 1) % WORD = r + 1
    BY <2>2, Sizes, Counting, SMTT(60)
  <2>4. (r + 1) % WORD \in 0 .. H /\ r \in 0 .. H /\ 0 \in 0 .. (W - 1)
    BY <2>2, <2>3, Sizes, SMTT(60)
  <2>5. ColumnAt' /\ RowAt' /\ Loaded'
    BY <2>1, <2>2, <2>4 DEF ColumnAt, RowAt, Loaded
  <2>. QED
    BY <2>1, <2>5 DEF CursorInv
<1>5. ASSUME Wrap, put_pc # "wrap" PROVE CursorInv'
  <2>1. /\ put_pc = "store row" /\ row' = r /\ put_pc' = "test"
        /\ UNCHANGED <<column, ch, r, col, written>>
    BY <1>5 DEF Wrap
  <2>2. column \in 0 .. (W - 1) /\ r \in 0 .. H
    BY <2>1 DEF CursorInv, ColumnAt, Loaded
  <2>3. r \in 0 .. (H - 1) \/ r = H
    BY <2>2, Sizes, SMTT(60)
  <2>4. ColumnAt' /\ RowAt' /\ Loaded'
    BY <2>1, <2>2, <2>3 DEF ColumnAt, RowAt, Loaded
  <2>. QED
    BY <2>1, <2>4 DEF CursorInv
<1>6. ASSUME Scroll PROVE CursorInv'
  <2>1. /\ put_pc = "scroll" /\ row' = H - 1 /\ put_pc' \in {"reload row", "idle"}
        /\ UNCHANGED <<column, ch, r, col, written>>
    BY <1>6 DEF Scroll
  <2>2. column \in 0 .. (W - 1)
    BY <2>1 DEF CursorInv, ColumnAt, RowAt, Loaded
  <2>3. H - 1 \in 0 .. (H - 1)
    BY Sizes, SMTT(60)
  <2>4. ColumnAt' /\ RowAt'
    BY <2>1, <2>2, <2>3 DEF ColumnAt, RowAt
  <2>5. Loaded'
    BY <2>1, <2>2 DEF Loaded
  <2>. QED
    BY <2>1, <2>4, <2>5 DEF CursorInv, CharKinds
<1>7. ASSUME RubOut PROVE CursorInv'
  <2>1. /\ put_pc = "rub out" /\ column' = col - 1 /\ ch' = "printable" /\ put_pc' = "load column"
        /\ UNCHANGED <<row, r, col, written>>
    BY <1>7 DEF RubOut
  <2>2. row \in 0 .. (H - 1) /\ col \in 1 .. (W - 1)
    BY <2>1 DEF CursorInv, ColumnAt, RowAt, Loaded
  <2>3. col - 1 \in 0 .. (W - 1)
    BY <2>2, Sizes, SMTT(60)
  <2>4. ColumnAt' /\ RowAt'
    BY <2>1, <2>2, <2>3 DEF ColumnAt, RowAt
  <2>5. Loaded'
    BY <2>1, <2>2 DEF Loaded
  <2>. QED
    BY <2>1, <2>4, <2>5 DEF CursorInv, CharKinds
<1>8. ASSUME StepBack PROVE CursorInv'
  <2>1. /\ put_pc = "step back" /\ column' = (col - 1) % WORD
        /\ put_pc' = (IF (col - 1) % WORD >= W THEN "wrap" ELSE "test")
        /\ UNCHANGED <<row, ch, r, written>>
    BY <1>8 DEF StepBack, StoreColumn
  <2>2. row \in 0 .. (H - 1) /\ r \in 0 .. (H - 1) /\ col \in 0 .. (W - 1)
    BY <2>1 DEF CursorInv, ColumnAt, RowAt, Loaded
  <2>3. (col - 1) % WORD = WORD - 1 \/ (col \in 1 .. W /\ (col - 1) % WORD = col - 1)
    BY <2>2, Sizes, Counting, SMTT(60)
  <2>4. IF (col - 1) % WORD >= W THEN (col - 1) % WORD = WORD - 1 ELSE (col - 1) % WORD \in 0 .. (W - 1)
    BY <2>2, <2>3, Sizes, SMTT(60)
  <2>5. (column' = WORD - 1 /\ put_pc' = "wrap") \/ (column' \in 0 .. (W - 1) /\ put_pc' = "test")
    BY <2>1, <2>4
  <2>6. ColumnAt' /\ RowAt'
    BY <2>1, <2>2, <2>5 DEF ColumnAt, RowAt
  <2>7. r \in 0 .. H
    BY <2>2, Sizes, SMTT(60)
  <2>8. Loaded'
    BY <2>1, <2>2, <2>5, <2>7 DEF Loaded
  <2>. QED
    BY <2>1, <2>6, <2>8 DEF CursorInv, CharKinds
<1>. QED
  BY <1>1, <1>2, <1>3, <1>4, <1>5, <1>6, <1>7, <1>8

\* On a screen of any size, and whatever the tasks print in between, the
\* console writes at most one line behind the screen and one cell in front of
\* it, and leaves the cursor on the screen (console_putchar).
THEOREM CursorComesBack == ConsoleSharedConstants => (SharedSpec => []OneLineOut)
<1> SUFFICES ASSUME ConsoleSharedConstants PROVE SharedSpec => []OneLineOut
  OBVIOUS
<1>1. SharedInit => CursorInv
  BY CursorInit
<1>2. CursorInv /\ [SharedNext]_sharedVars => CursorInv'
  <2>1. CursorInv /\ SharedNext => CursorInv'
    BY TaskStep, LoadStep, StoreStep DEF SharedNext, KernelPrints
  <2>2. CursorInv /\ UNCHANGED sharedVars => CursorInv'
    BY DEF CursorInv, ColumnAt, RowAt, Loaded, sharedVars
  <2>. QED
    BY <2>1, <2>2
<1>3. CursorInv => OneLineOut
  BY CursorInvImplies
<1>. QED
  BY <1>1, <1>2, <1>3, PTL DEF SharedSpec

-----------------------------------------------------------------------------
(* The sleep of the timer.  Until its last look, the ticks it has slept    *)
(* fit into the counter: they were fewer than asked for at the look        *)
(* before, and it is not later than MaxLate since.                         *)

SleepInv ==
  /\ TimerTypeOK
  /\ sleep_pc # "idle" => ticks + MaxLate + 1 < TICK_WORD
  /\ sleep_pc \in {"look", "hlt", "halted"} =>
       /\ tick_count = start + slept \/ tick_count = start + slept - TICK_WORD
       /\ slept - late < ticks \/ (slept = late /\ sleep_pc = "look")
  /\ sleep_pc # "look" => late <= MaxLate
  /\ sleep_pc = "done" => slept >= ticks
  /\ sleeper = "task" => slept = 0

\* One more tick, without the remainder.
LEMMA NextTick ==
  ASSUME TimerConstants, TimerTypeOK, TickCounted
  PROVE  tick_count' \in Words /\ (tick_count' = tick_count + 1 \/ tick_count' = tick_count + 1 - TICK_WORD)
<1>1. TICK_WORD \in Nat \ {0} /\ tick_count \in 0 .. (TICK_WORD - 1) /\ Words = 0 .. (TICK_WORD - 1)
  BY DEF TimerConstants, TimerTypeOK, Words
<1>2. CASE tick_count + 1 < TICK_WORD
  <2>1. tick_count + 1 \in Nat
    BY <1>1, SMTT(60)
  <2>2. (tick_count + 1) % TICK_WORD = tick_count + 1
    BY <1>1, <1>2, <2>1, Remainders
  <2>. QED
    BY <1>1, <1>2, <2>2, SMTT(60) DEF TickCounted
<1>3. CASE tick_count + 1 = TICK_WORD
  <2>1. (0 + TICK_WORD) % TICK_WORD = 0
    BY <1>1, Remainders, SMTT(60)
  <2>2. (tick_count + 1) % TICK_WORD = 0
    BY <1>1, <1>3, <2>1, SMTT(60)
  <2>. QED
    BY <1>1, <1>3, <2>2, SMTT(60) DEF TickCounted
<1>. QED
  BY <1>1, <1>2, <1>3, SMTT(60)

\* The subtraction in the loop of sleep gives the ticks slept, also when the
\* counter has wrapped round.
LEMMA ElapsedIsSlept ==
  ASSUME TimerConstants, SleepInv, sleep_pc = "look"
  PROVE  Elapsed = slept
<1>1. /\ TICK_WORD \in Nat \ {0} /\ tick_count \in Int /\ start \in Int /\ ticks \in Nat
      /\ slept \in Nat /\ late \in 0 .. (MaxLate + 1) /\ MaxLate \in Nat
  BY SMTT(60) DEF TimerConstants, SleepInv, TimerTypeOK, Words
<1>2. /\ slept < TICK_WORD
      /\ tick_count - start = slept \/ tick_count - start = slept - TICK_WORD
  BY <1>1, SMTT(60) DEF SleepInv
<1>. QED
  BY <1>1, <1>2, Remainders DEF Elapsed

\* The invariant is inductive.
LEMMA SleepStep == TimerConstants /\ SleepInv /\ [TimerNext]_timerVars => SleepInv'
<1> SUFFICES ASSUME TimerConstants, SleepInv, [TimerNext]_timerVars PROVE SleepInv'
  OBVIOUS
<1>0. /\ TICK_WORD \in Nat \ {0} /\ MsPerTick \in Nat \ {0} /\ MaxLate \in Nat \ {0}
      /\ Words = 0 .. (TICK_WORD - 1) /\ TimerTypeOK
  BY DEF TimerConstants, SleepInv, Words
<1>1. CASE TickCounted
  <2>1. tick_count' \in Words /\ (tick_count' = tick_count + 1 \/ tick_count' = tick_count + 1 - TICK_WORD)
    BY <1>1, <1>0, NextTick
  <2>2. CASE sleep_pc = "idle"
    BY <1>0, <1>1, <2>1, <2>2 DEF TickCounted, CountSlept, SleepInv, TimerTypeOK
  <2>3. CASE sleep_pc # "idle"
    <3>1. /\ slept' = slept + 1 /\ late' = late + 1 /\ start' = start /\ ticks' = ticks
          /\ sleeper' = sleeper /\ sleeper # "task"
          /\ sleep_pc = "halted" \/ late < MaxLate
          /\ sleep_pc' = IF sleep_pc = "halted" THEN "look" ELSE sleep_pc
      BY <1>1, <2>3 DEF TickCounted, CountSlept
    <3>2. TimerTypeOK'
      BY <1>0, <2>1, <3>1, SMTT(60) DEF TimerTypeOK, SleepInv
    <3>. QED
      BY <1>0, <2>1, <2>3, <3>1, <3>2, SMTT(60) DEF SleepInv, TimerTypeOK
  <2>. QED
    BY <2>2, <2>3
<1>2. ASSUME NEW ms \in Delays, NEW who \in {"main", "task"}, sleep(ms, who) PROVE SleepInv'
  <2>1. ms \in Words /\ ms \div MsPerTick + MaxLate + 1 < TICK_WORD
    BY DEF TimerConstants
  <2>2. ms \div MsPerTick \in Nat
    BY <1>0, <2>1, SMTT(60)
  <2>. QED
    BY <1>0, <1>2, <2>1, <2>2, SMTT(60) DEF sleep, SleepInv, TimerTypeOK
<1>3. CASE Look
  BY <1>0, <1>3, ElapsedIsSlept, SMTT(60) DEF Look, SleepInv, TimerTypeOK
<1>4. CASE SleepHlt
  BY <1>0, <1>4 DEF SleepHlt, SleepInv, TimerTypeOK
<1>5. CASE SleepReturn
  BY <1>0, <1>5, SMTT(60) DEF SleepReturn, SleepInv, TimerTypeOK
<1>6. CASE UNCHANGED timerVars
  BY <1>6 DEF timerVars, SleepInv, TimerTypeOK
<1>. QED
  BY <1>1, <1>2, <1>3, <1>4, <1>5, <1>6 DEF TimerNext, SleepCalled, Sleeper

\* For every word size and every delay that fits: sleep does not return early
\* and does not go back to hlt when its time is over, however late it looks
\* and however often tick_count wraps round; in a task it returns only if it
\* had no tick to wait for.
THEOREM SleepIsExact == TimerConstants => (TimerSpec => []SleepExact)
<1> SUFFICES ASSUME TimerConstants PROVE TimerSpec => []SleepExact
  OBVIOUS
<1>1. TimerInit => SleepInv
  BY SMTT(60) DEF TimerConstants, TimerInit, SleepInv, TimerTypeOK, Words
<1>2. SleepInv /\ [TimerNext]_timerVars => SleepInv'
  BY SleepStep
<1>3. SleepInv => SleepExact
  BY SMTT(60) DEF SleepInv, SleepExact, TimerTypeOK, Words
<1>. QED
  BY <1>1, <1>2, <1>3, PTL DEF TimerSpec

-----------------------------------------------------------------------------
(* The console of one caller.                                              *)

LineType == [Columns -> Printable]
BlankLine == [x \in Columns |-> BLANK]

\* Lines that are gone, and the first n of the screen.
Roll(g, n, b) == g \o [k \in 1 .. n |-> Line(b, k - 1)]

RollShape(s, g, n, b) ==
  /\ s \in Seq(LineType) /\ Len(s) = Len(g) + n
  /\ \A k \in 1 .. Len(g) : s[k] = g[k]
  /\ \A y \in 0 .. (n - 1) : s[Len(g) + y + 1] = Line(b, y)

\* The screen with a character in line y at column x.
WithCell(b, y, x, chr) == [b EXCEPT ![y * VGA_WIDTH + x] = chr]

\* A roll with a character in its last line at column x.
WrittenAt(s, x, chr) == [s EXCEPT ![Len(s)] = [@ EXCEPT ![x] = chr]]

\* Below row y the screen is blank.
BlankBelow(y, b) == \A z \in (y + 1) .. (VGA_HEIGHT - 1) : Line(b, z) = BlankLine

ConsoleInv ==
  /\ ConsoleTypeOK
  /\ cursor = Position(con)
  /\ BlankBelow(con.row, con.buffer)

\* Every cell is in one line, at one column.
LEMMA CellOfLine ==
  ASSUME ConsoleConstants, NEW y \in Nat, NEW x \in Columns
  PROVE  /\ y * VGA_WIDTH + x \in Nat
         /\ y < VGA_HEIGHT => y * VGA_WIDTH + x \in Cells
         /\ \A z \in Nat, u \in Columns :
              y * VGA_WIDTH + x = z * VGA_WIDTH + u => y = z /\ x = u
<1> DEFINE p == y * VGA_WIDTH
<1>1. VGA_WIDTH \in Nat \ {0} /\ VGA_HEIGHT \in Nat \ {0} /\ x \in 0 .. (VGA_WIDTH - 1)
  BY DEF ConsoleConstants, Columns
<1>2. p \in Nat
  BY <1>1, SMTT(60)
<1>3. ASSUME y < VGA_HEIGHT PROVE p + x \in 0 .. (VGA_WIDTH * VGA_HEIGHT - 1)
  <2>1. (y + 1) * VGA_WIDTH <= VGA_HEIGHT * VGA_WIDTH
    BY <1>1, <1>3, SMTT(60)
  <2>2. (y + 1) * VGA_WIDTH = p + VGA_WIDTH /\ VGA_HEIGHT * VGA_WIDTH = VGA_WIDTH * VGA_HEIGHT
    BY <1>1, SMTT(60)
  <2>3. VGA_WIDTH * VGA_HEIGHT \in Nat
    BY <1>1, SMTT(60)
  <2> HIDE DEF p
  <2>. QED
    BY <1>1, <1>2, <2>1, <2>2, <2>3, SMTT(60)
<1>4. ASSUME NEW z \in Nat, NEW u \in Columns, p + x = z * VGA_WIDTH + u PROVE y = z /\ x = u
  <2> DEFINE q == z * VGA_WIDTH
  <2>1. u \in 0 .. (VGA_WIDTH - 1) /\ q \in Nat
    BY <1>1, SMTT(60) DEF Columns
  <2>2. CASE y >= z + 1
    <3>1. p >= (z + 1) * VGA_WIDTH /\ (z + 1) * VGA_WIDTH = q + VGA_WIDTH
      BY <1>1, <2>2, SMTT(60)
    <3> HIDE DEF p, q
    <3>. QED
      BY <1>1, <1>2, <1>4, <2>1, <3>1, SMTT(60) DEF q
  <2>3. CASE z >= y + 1
    <3>1. q >= (y + 1) * VGA_WIDTH /\ (y + 1) * VGA_WIDTH = p + VGA_WIDTH
      BY <1>1, <2>3, SMTT(60)
    <3> HIDE DEF p, q
    <3>. QED
      BY <1>1, <1>2, <1>4, <2>1, <3>1, SMTT(60) DEF q
  <2>4. CASE y = z
    <3>1. p = q
      BY <2>4
    <3> HIDE DEF p, q
    <3>. QED
      BY <1>1, <1>2, <1>4, <2>1, <2>4, <3>1, SMTT(60) DEF q
  <2>. QED
    BY <2>2, <2>3, <2>4, SMTT(60)
<1>5. p + x \in Nat /\ (y < VGA_HEIGHT => p + x \in Cells)
  <2> HIDE DEF p
  <2>. QED
    BY <1>1, <1>2, <1>3, SMTT(60) DEF Cells
<1>6. \A z \in Nat, u \in Columns : p + x = z * VGA_WIDTH + u => y = z /\ x = u
  BY <1>4
<1>. QED
  BY <1>5, <1>6

\* The lines of the screen.
LEMMA LineTypes ==
  ASSUME ConsoleConstants, NEW b \in [Cells -> Printable], NEW y \in 0 .. (VGA_HEIGHT - 1)
  PROVE  Line(b, y) \in LineType
<1>1. y \in Nat /\ y < VGA_HEIGHT
  BY SMTT(60) DEF ConsoleConstants
<1>2. ASSUME NEW x \in Columns PROVE b[y * VGA_WIDTH + x] \in Printable
  BY <1>1, CellOfLine
<1>. QED
  BY <1>2 DEF Line, LineType

\* The elements of a roll.
LEMMA RollIs ==
  ASSUME ConsoleConstants, NEW g \in Seq(LineType), NEW b \in [Cells -> Printable],
         NEW n \in 0 .. VGA_HEIGHT
  PROVE  RollShape(Roll(g, n, b), g, n, b)
<1> DEFINE s == [k \in 1 .. n |-> Line(b, k - 1)]
<1>1. \A k \in 1 .. n : Line(b, k - 1) \in LineType
  BY LineTypes, SMTT(60) DEF ConsoleConstants
<1>2. s \in Seq(LineType) /\ Len(s) = n
  BY <1>1, SMTT(60) DEF ConsoleConstants
<1>3. ASSUME NEW y \in 0 .. (n - 1) PROVE s[y + 1] = Line(b, y)
  <2>1. y + 1 \in 1 .. n /\ (y + 1) - 1 = y
    BY SMTT(60) DEF ConsoleConstants
  <2>. QED
    BY <2>1
<1> HIDE DEF s
<1>4. Roll(g, n, b) = g \o s
  BY DEF Roll, s
<1> DEFINE t == g \o s
<1>5. ASSUME NEW y \in 0 .. (n - 1) PROVE t[Len(g) + y + 1] = Line(b, y)
  <2>1. t[Len(g) + y + 1] = s[y + 1]
    BY <1>2, SMTT(60) DEF ConsoleConstants
  <2>. QED
    BY <1>3, <2>1
<1>6. t \in Seq(LineType) /\ Len(t) = Len(g) + n /\ \A k \in 1 .. Len(g) : t[k] = g[k]
  BY <1>2, SMTT(60)
<1> HIDE DEF t
<1>7. RollShape(t, g, n, b)
  BY <1>5, <1>6 DEF RollShape
<1>. QED
  BY <1>4, <1>7 DEF t

\* A cell of a line is written.
LEMMA PutInLine ==
  ASSUME ConsoleConstants, NEW b \in [Cells -> Printable], NEW y \in 0 .. (VGA_HEIGHT - 1),
         NEW x \in Columns, NEW chr \in Printable
  PROVE  /\ WithCell(b, y, x, chr) \in [Cells -> Printable]
         /\ Line(WithCell(b, y, x, chr), y) = [Line(b, y) EXCEPT ![x] = chr]
         /\ \A z \in 0 .. (VGA_HEIGHT - 1) :
              z # y => Line(WithCell(b, y, x, chr), z) = Line(b, z)
<1> DEFINE w == WithCell(b, y, x, chr)
<1>0. w = [b EXCEPT ![y * VGA_WIDTH + x] = chr]
  BY DEF WithCell
<1> HIDE DEF w
<1>1. y \in Nat /\ y < VGA_HEIGHT /\ VGA_HEIGHT \in Nat
  BY SMTT(60) DEF ConsoleConstants
<1>2. y * VGA_WIDTH + x \in Cells
  BY <1>1, CellOfLine
<1>3. w \in [Cells -> Printable]
  BY <1>0, <1>2
<1>4. ASSUME NEW u \in Columns PROVE w[y * VGA_WIDTH + u] = IF u = x THEN chr ELSE b[y * VGA_WIDTH + u]
  <2>1. y * VGA_WIDTH + u \in Cells
    BY <1>1, CellOfLine
  <2>2. y * VGA_WIDTH + u = y * VGA_WIDTH + x <=> u = x
    BY <1>1, CellOfLine
  <2>. QED
    BY <1>0, <1>2, <2>1, <2>2
<1>5. ASSUME NEW z \in 0 .. (VGA_HEIGHT - 1), z # y, NEW u \in Columns
      PROVE  w[z * VGA_WIDTH + u] = b[z * VGA_WIDTH + u]
  <2>1. z \in Nat /\ z < VGA_HEIGHT
    BY <1>1, SMTT(60)
  <2>2. z * VGA_WIDTH + u \in Cells /\ z * VGA_WIDTH + u # y * VGA_WIDTH + x
    BY <1>1, <1>5, <2>1, CellOfLine
  <2>. QED
    BY <1>0, <1>2, <2>2
<1>6. Line(w, y) = [Line(b, y) EXCEPT ![x] = chr]
  BY <1>4 DEF Line
<1>7. \A z \in 0 .. (VGA_HEIGHT - 1) : z # y => Line(w, z) = Line(b, z)
  BY <1>5 DEF Line
<1>. QED
  BY <1>3, <1>6, <1>7 DEF w

\* What a written cell does to the roll.
LEMMA PutInRoll ==
  ASSUME ConsoleConstants, NEW g \in Seq(LineType), NEW b \in [Cells -> Printable],
         NEW y \in 0 .. (VGA_HEIGHT - 1), NEW x \in Columns, NEW chr \in Printable
  PROVE  Roll(g, y + 1, WithCell(b, y, x, chr)) = WrittenAt(Roll(g, y + 1, b), x, chr)
<1> DEFINE w == WithCell(b, y, x, chr)
           s == Roll(g, y + 1, b)
<1>1. y + 1 \in 0 .. VGA_HEIGHT /\ y \in Nat /\ Len(g) \in Nat
  BY SMTT(60) DEF ConsoleConstants
<1>2. /\ w \in [Cells -> Printable]
      /\ Line(w, y) = [Line(b, y) EXCEPT ![x] = chr]
      /\ \A z \in 0 .. (VGA_HEIGHT - 1) : z # y => Line(w, z) = Line(b, z)
  BY PutInLine, SMTT(60)
<1> HIDE DEF w
<1>3. /\ s \in Seq(LineType) /\ Len(s) = Len(g) + (y + 1)
      /\ \A k \in 1 .. Len(g) : s[k] = g[k]
      /\ \A z \in 0 .. ((y + 1) - 1) : s[Len(g) + z + 1] = Line(b, z)
  <2>1. RollShape(s, g, y + 1, b)
    BY <1>1, RollIs
  <2> HIDE DEF s
  <2>. QED
    BY <2>1 DEF RollShape
<1> HIDE DEF s
<1> DEFINE t == Roll(g, y + 1, w)
<1>4. /\ t \in Seq(LineType) /\ Len(t) = Len(g) + (y + 1)
      /\ \A k \in 1 .. Len(g) : t[k] = g[k]
      /\ \A z \in 0 .. ((y + 1) - 1) : t[Len(g) + z + 1] = Line(w, z)
  <2>1. RollShape(t, g, y + 1, w)
    BY <1>1, <1>2, RollIs
  <2> HIDE DEF t
  <2>. QED
    BY <2>1 DEF RollShape
<1> HIDE DEF t
<1>5. ASSUME NEW k \in 1 .. Len(s)
      PROVE  t[k] = IF k = Len(s) THEN [s[k] EXCEPT ![x] = chr] ELSE s[k]
  <2>1. CASE k <= Len(g)
    BY <1>1, <1>3, <1>4, <2>1, SMTT(60)
  <2>2. CASE k > Len(g)
    <3> DEFINE z == k - Len(g) - 1
    <3>1. z \in 0 .. y /\ k = Len(g) + z + 1
      BY <1>1, <1>3, <2>2, SMTT(60)
    <3>2. z = y <=> k = Len(s)
      BY <1>1, <1>3, <3>1, SMTT(60)
    <3> HIDE DEF z
    <3>3. t[k] = Line(w, z) /\ s[k] = Line(b, z) /\ z \in 0 .. (VGA_HEIGHT - 1)
      <4>1. z \in 0 .. ((y + 1) - 1) /\ z \in 0 .. (VGA_HEIGHT - 1)
        BY <1>1, <3>1, SMTT(60) DEF ConsoleConstants
      <4>. QED
        BY <1>3, <1>4, <3>1, <4>1
    <3>. QED
      BY <1>2, <3>2, <3>3
  <2>. QED
    BY <1>1, <1>3, <2>1, <2>2, SMTT(60)
<1>0. s \in [1 .. Len(s) -> LineType] /\ t \in [1 .. Len(s) -> LineType] /\ Len(s) \in 1 .. Len(s)
  <2>1. Len(s) = Len(t) /\ Len(s) >= 1 /\ Len(s) \in Nat
    BY <1>1, <1>3, <1>4, SMTT(60)
  <2>. QED
    BY <1>3, <1>4, <2>1, SMTT(60)
<1>6. t = [k \in 1 .. Len(s) |-> IF k = Len(s) THEN [s[k] EXCEPT ![x] = chr] ELSE s[k]]
  BY <1>0, <1>5
<1>7. s = [k \in 1 .. Len(s) |-> s[k]] /\ Len(s) \in 1 .. Len(s)
  BY <1>0
<1>8. t = [s EXCEPT ![Len(s)] = [s[Len(s)] EXCEPT ![x] = chr]]
  BY <1>6, <1>7
<1>. QED
  BY <1>8 DEF t, w, s, WrittenAt

\* A sequence that is another one and one more element.
LEMMA AppendIs ==
  ASSUME NEW S, NEW s \in Seq(S), NEW t \in Seq(S), NEW e \in S, Len(t) = Len(s) + 1,
         \A k \in 1 .. Len(t) : t[k] = IF k = Len(s) + 1 THEN e ELSE s[k]
  PROVE  t = Append(s, e)
<1>1. Append(s, e) \in Seq(S) /\ Len(Append(s, e)) = Len(t) /\ Len(s) \in Nat
  BY SMTT(60)
<1>2. \A k \in 1 .. Len(t) : Append(s, e)[k] = t[k]
  BY SMTT(60)
<1> DEFINE u == Append(s, e)
<1>3. u \in Seq(S) /\ Len(u) = Len(t) /\ \A k \in 1 .. Len(t) : u[k] = t[k]
  BY <1>1, <1>2
<1> HIDE DEF u
<1>4. u \in [1 .. Len(t) -> S] /\ t \in [1 .. Len(t) -> S]
  BY <1>3, SMTT(60)
<1>5. u = t
  BY <1>3, <1>4, SMTT(60)
<1>. QED
  BY <1>5 DEF u

\* On to a line of the screen that is blank.
LEMMA NextInRoll ==
  ASSUME ConsoleConstants, NEW g \in Seq(LineType), NEW b \in [Cells -> Printable],
         NEW y \in Nat, y + 1 < VGA_HEIGHT, Line(b, y + 1) = BlankLine
  PROVE  Roll(g, y + 2, b) = Append(Roll(g, y + 1, b), BlankLine)
<1> DEFINE s == Roll(g, y + 1, b)
           t == Roll(g, y + 2, b)
<1>1. /\ VGA_HEIGHT \in Nat /\ Len(g) \in Nat
      /\ y + 1 \in 0 .. VGA_HEIGHT /\ y + 2 \in 0 .. VGA_HEIGHT
  BY SMTT(60) DEF ConsoleConstants
<1>2. RollShape(s, g, y + 1, b) /\ RollShape(t, g, y + 2, b)
  BY <1>1, RollIs
<1> HIDE DEF s, t
<1>3. /\ s \in Seq(LineType) /\ Len(s) = Len(g) + (y + 1)
      /\ \A k \in 1 .. Len(g) : s[k] = g[k]
      /\ \A z \in 0 .. ((y + 1) - 1) : s[Len(g) + z + 1] = Line(b, z)
  BY <1>2 DEF RollShape
<1>4. /\ t \in Seq(LineType) /\ Len(t) = Len(g) + (y + 2)
      /\ \A k \in 1 .. Len(g) : t[k] = g[k]
      /\ \A z \in 0 .. ((y + 2) - 1) : t[Len(g) + z + 1] = Line(b, z)
  BY <1>2 DEF RollShape
<1>5. ASSUME NEW k \in 1 .. Len(t) PROVE t[k] = IF k = Len(s) + 1 THEN BlankLine ELSE s[k]
  <2>1. CASE k <= Len(g)
    BY <1>1, <1>3, <1>4, <2>1, SMTT(60)
  <2>2. CASE k > Len(g)
    <3> DEFINE z == k - Len(g) - 1
    <3>0. k \in Nat /\ k <= Len(g) + (y + 2) /\ k > Len(g)
      BY <1>1, <1>4, <2>2, SMTT(60)
    <3>1. /\ z \in 0 .. ((y + 2) - 1) /\ k = Len(g) + z + 1
          /\ z = y + 1 <=> k = Len(s) + 1
          /\ (z = y + 1) \/ (z \in 0 .. ((y + 1) - 1))
      BY <1>1, <1>3, <3>0, SMTT(60)
    <3> HIDE DEF z
    <3>2. t[k] = Line(b, z)
      BY <1>4, <3>1
    <3>3. CASE z = y + 1
      BY <3>1, <3>2, <3>3
    <3>4. CASE z \in 0 .. ((y + 1) - 1)
      <4>1. s[k] = Line(b, z) /\ z # y + 1
        BY <1>3, <3>1, <3>4, SMTT(60)
      <4>. QED
        BY <3>1, <3>2, <4>1
    <3>. QED
      BY <3>1, <3>3, <3>4
  <2>. QED
    BY <1>1, <1>4, <2>1, <2>2, SMTT(60)
<1>6. BlankLine \in LineType
  BY DEF ConsoleConstants, BlankLine, LineType
<1>7. Len(t) = Len(s) + 1
  BY <1>1, <1>3, <1>4, SMTT(60)
<1>8. t = Append(s, BlankLine)
  <2>1. s \in Seq(LineType) /\ t \in Seq(LineType)
    BY <1>3, <1>4
  <2>2. \A k \in 1 .. Len(t) : t[k] = IF k = Len(s) + 1 THEN BlankLine ELSE s[k]
    BY <1>5
  <2>. QED
    BY ONLY <1>6, <1>7, <2>1, <2>2, AppendIs
<1>. QED
  BY <1>8 DEF s, t

\* console_scroll moves the lines up by one.
LEMMA ScrollLines ==
  ASSUME ConsoleConstants, NEW s, s.buffer \in [Cells -> Printable]
  PROVE  /\ Scrolled(s).buffer \in [Cells -> Printable]
         /\ \A y \in 0 .. (VGA_HEIGHT - 2) : Line(Scrolled(s).buffer, y) = Line(s.buffer, y + 1)
         /\ Line(Scrolled(s).buffer, VGA_HEIGHT - 1) = BlankLine
<1> DEFINE m == (VGA_HEIGHT - 1) * VGA_WIDTH
           b == s.buffer
           t == Scrolled(s).buffer
<1>1. VGA_HEIGHT \in Nat \ {0} /\ VGA_WIDTH \in Nat \ {0, 1} /\ BLANK \in Printable
  BY DEF ConsoleConstants
<1>2. t = [k \in Cells |-> IF k < m THEN b[k + VGA_WIDTH] ELSE BLANK]
  BY DEF Scrolled
<1>3. m \in Nat /\ VGA_WIDTH * VGA_HEIGHT = m + VGA_WIDTH
  <2>1. VGA_HEIGHT - 1 \in Nat
    BY <1>1, SMTT(60)
  <2>. QED
    BY <1>1, <2>1, SMTT(60)
<1> HIDE DEF m, b, t
<1>4. ASSUME NEW k \in Cells, k < m PROVE k + VGA_WIDTH \in Cells
  BY <1>1, <1>3, <1>4, SMTT(60) DEF Cells
<1>5. t \in [Cells -> Printable]
  BY <1>1, <1>2, <1>4 DEF b
<1>6. ASSUME NEW y \in 0 .. (VGA_HEIGHT - 2), NEW x \in Columns
      PROVE  t[y * VGA_WIDTH + x] = b[(y + 1) * VGA_WIDTH + x]
  <2> DEFINE k == y * VGA_WIDTH + x
  <2>1. y \in Nat /\ y < VGA_HEIGHT /\ y + 1 <= VGA_HEIGHT - 1 /\ x \in 0 .. (VGA_WIDTH - 1)
    BY <1>1, SMTT(60) DEF Columns
  <2>2. k \in Cells
    BY <2>1, CellOfLine
  <2>3. (y + 1) * VGA_WIDTH + x = k + VGA_WIDTH
    BY <1>1, <2>1, SMTT(60)
  <2>4. k < m
    <3>1. (y + 1) * VGA_WIDTH <= m
      BY <1>1, <2>1, SMTT(60) DEF m
    <3>2. k \in Nat /\ k < (y + 1) * VGA_WIDTH
      <4>1. (y + 1) * VGA_WIDTH = y * VGA_WIDTH + VGA_WIDTH /\ y * VGA_WIDTH \in Nat
        BY <1>1, <2>1, SMTT(60)
      <4>. QED
        BY <1>1, <2>1, <4>1, SMTT(60)
    <3>3. (y + 1) * VGA_WIDTH \in Nat
      BY <1>1, <2>1, SMTT(60)
    <3> HIDE DEF k
    <3>. QED
      BY <1>3, <3>1, <3>2, <3>3, SMTT(60)
  <2>5. t[k] = b[k + VGA_WIDTH]
    <3> HIDE DEF k
    <3>. QED
      BY <1>2, <2>2, <2>4
  <2>. QED
    BY <2>3, <2>5
<1>7. ASSUME NEW x \in Columns PROVE t[(VGA_HEIGHT - 1) * VGA_WIDTH + x] = BLANK
  <2> DEFINE y == VGA_HEIGHT - 1
             k == y * VGA_WIDTH + x
  <2>1. y \in Nat /\ y < VGA_HEIGHT /\ x \in Nat
    BY <1>1, SMTT(60) DEF Columns
  <2>2. k \in Cells
    <3> HIDE DEF y
    <3>. QED
      BY <2>1, CellOfLine
  <2>3. k = m + x
    BY DEF m
  <2>4. ~(k < m)
    <3> HIDE DEF k
    <3>. QED
      BY <1>3, <2>1, <2>3, SMTT(60)
  <2> HIDE DEF k
  <2>5. t[k] = BLANK
    BY <1>2, <2>2, <2>4
  <2>. QED
    BY <2>5 DEF k
<1>8. \A y \in 0 .. (VGA_HEIGHT - 2) : Line(t, y) = Line(b, y + 1)
  BY <1>6 DEF Line
<1>9. Line(t, VGA_HEIGHT - 1) = BlankLine
  BY <1>7 DEF Line, BlankLine
<1>. QED
  BY <1>5, <1>8, <1>9 DEF t, b

\* The roll after a line has been scrolled off.
LEMMA ScrollRoll ==
  ASSUME ConsoleConstants, NEW g \in Seq(LineType), NEW e, e.buffer \in [Cells -> Printable]
  PROVE  Roll(Append(g, Line(e.buffer, 0)), VGA_HEIGHT, Scrolled(e).buffer) =
           Append(Roll(g, VGA_HEIGHT, e.buffer), BlankLine)
<1> DEFINE b == e.buffer
           d == Scrolled(e).buffer
           l == Line(b, 0)
           h == Append(g, l)
           s == Roll(g, VGA_HEIGHT, b)
           t == Roll(h, VGA_HEIGHT, d)
<1>1. /\ VGA_HEIGHT \in Nat \ {0} /\ VGA_HEIGHT \in 0 .. VGA_HEIGHT /\ 0 \in 0 .. (VGA_HEIGHT - 1)
      /\ Len(g) \in Nat
  BY SMTT(60) DEF ConsoleConstants
<1>2. /\ d \in [Cells -> Printable]
      /\ \A y \in 0 .. (VGA_HEIGHT - 2) : Line(d, y) = Line(b, y + 1)
      /\ Line(d, VGA_HEIGHT - 1) = BlankLine
  BY ScrollLines
<1> HIDE DEF b, d
<1>3. b \in [Cells -> Printable] /\ l \in LineType
  BY <1>1, LineTypes DEF b
<1>4. /\ h \in Seq(LineType) /\ Len(h) = Len(g) + 1 /\ h[Len(g) + 1] = l
      /\ \A k \in 1 .. Len(g) : h[k] = g[k]
  <2> HIDE DEF l
  <2>. QED
    BY <1>1, <1>3, SMTT(60)
<1> HIDE DEF h
<1>5. RollShape(s, g, VGA_HEIGHT, b) /\ RollShape(t, h, VGA_HEIGHT, d)
  BY <1>1, <1>2, <1>3, <1>4, RollIs
<1> HIDE DEF s, t
<1>6. /\ s \in Seq(LineType) /\ Len(s) = Len(g) + VGA_HEIGHT
      /\ \A k \in 1 .. Len(g) : s[k] = g[k]
      /\ \A z \in 0 .. (VGA_HEIGHT - 1) : s[Len(g) + z + 1] = Line(b, z)
  BY <1>5 DEF RollShape
<1>7. /\ t \in Seq(LineType) /\ Len(t) = Len(g) + 1 + VGA_HEIGHT
      /\ \A k \in 1 .. (Len(g) + 1) : t[k] = h[k]
      /\ \A z \in 0 .. (VGA_HEIGHT - 1) : t[Len(g) + 1 + z + 1] = Line(d, z)
  BY <1>4, <1>5 DEF RollShape
<1>8. ASSUME NEW k \in 1 .. Len(t) PROVE t[k] = IF k = Len(s) + 1 THEN BlankLine ELSE s[k]
  <2>0. k \in Nat /\ k >= 1 /\ k <= Len(g) + 1 + VGA_HEIGHT
    BY <1>1, <1>7, SMTT(60)
  <2>1. CASE k <= Len(g)
    <3>1. t[k] = g[k] /\ s[k] = g[k] /\ k # Len(s) + 1
      BY <1>1, <1>4, <1>6, <1>7, <2>0, <2>1, SMTT(60)
    <3>. QED
      BY <3>1
  <2>2. CASE k = Len(g) + 1
    <3>1. t[k] = l
      BY <1>1, <1>4, <1>7, <2>2, SMTT(60)
    <3>2. k = Len(g) + 0 + 1 /\ k # Len(s) + 1
      BY <1>1, <1>6, <2>2, SMTT(60)
    <3>3. s[k] = l
      BY <1>1, <1>6, <3>2
    <3>. QED
      BY <3>1, <3>2, <3>3
  <2>3. CASE k > Len(g) + 1
    <3> DEFINE z == k - Len(g) - 2
    <3>1. z \in 0 .. (VGA_HEIGHT - 1) /\ k = Len(g) + 1 + z + 1
      BY <1>1, <2>0, <2>3, SMTT(60)
    <3> HIDE DEF z
    <3>2. t[k] = Line(d, z)
      BY <1>7, <3>1
    <3>3. CASE z = VGA_HEIGHT - 1
      <4>1. k = Len(s) + 1
        BY <1>1, <1>6, <3>1, <3>3, SMTT(60)
      <4>. QED
        BY <1>2, <3>2, <3>3, <4>1
    <3>4. CASE z # VGA_HEIGHT - 1
      <4>1. /\ z \in 0 .. (VGA_HEIGHT - 2) /\ z + 1 \in 0 .. (VGA_HEIGHT - 1)
            /\ k = Len(g) + (z + 1) + 1 /\ k # Len(s) + 1
        BY <1>1, <1>6, <3>1, <3>4, SMTT(60)
      <4>2. s[k] = Line(b, z + 1)
        BY <1>6, <4>1
      <4>. QED
        BY <1>2, <3>2, <4>1, <4>2
    <3>. QED
      BY <3>3, <3>4
  <2>. QED
    BY <1>1, <2>0, <2>1, <2>2, <2>3, SMTT(60)
<1>9. BlankLine \in LineType
  BY DEF ConsoleConstants, BlankLine, LineType
<1>10. Len(t) = Len(s) + 1
  BY <1>1, <1>6, <1>7, SMTT(60)
<1>11. t = Append(s, BlankLine)
  <2>1. s \in Seq(LineType) /\ t \in Seq(LineType)
    BY <1>6, <1>7
  <2>2. \A k \in 1 .. Len(t) : t[k] = IF k = Len(s) + 1 THEN BlankLine ELSE s[k]
    BY <1>8
  <2>. QED
    BY ONLY <1>9, <1>10, <2>1, <2>2, AppendIs
<1>. QED
  BY <1>11 DEF s, t, h, b, d

Screens == [row : 0 .. (VGA_HEIGHT - 1), column : Columns, buffer : [Cells -> Printable]]

\* The console at the beginning of the line below y, before the screen is
\* scrolled, the lines that are gone then, and what is to be.
Fed(y, b) == [row |-> y + 1, column |-> 0, buffer |-> b]
FedGone(g, y, b) == IF y + 1 >= VGA_HEIGHT THEN Append(g, Line(b, 0)) ELSE g
IsFed(g, y, b, h, f) ==
  /\ f \in Screens /\ f.column = 0 /\ h \in Seq(LineType)
  /\ BlankBelow(f.row, f.buffer)
  /\ Roll(h, f.row + 1, f.buffer) = Append(Roll(g, y + 1, b), BlankLine)

\* On to the next line, which may be off the screen.
LEMMA LineFeed ==
  ASSUME ConsoleConstants, NEW g \in Seq(LineType), NEW b \in [Cells -> Printable],
         NEW y \in 0 .. (VGA_HEIGHT - 1), BlankBelow(y, b)
  PROVE  IsFed(g, y, b, FedGone(g, y, b), OnScreen(Fed(y, b)))
<1> DEFINE e == Fed(y, b)
           h == FedGone(g, y, b)
           f == OnScreen(e)
<1> SUFFICES IsFed(g, y, b, h, f)
  OBVIOUS
<1> USE DEF IsFed
<1>1. VGA_HEIGHT \in Nat \ {0} /\ VGA_WIDTH \in Nat \ {0, 1} /\ 0 \in Columns
  BY SMTT(60) DEF ConsoleConstants, Columns
<1>2. /\ e.row = y + 1 /\ e.column = 0 /\ e.buffer = b
      /\ e = [row |-> y + 1, column |-> 0, buffer |-> b]
      /\ h = IF e.row >= VGA_HEIGHT THEN Append(g, Line(b, 0)) ELSE g
  BY DEF Fed, FedGone
<1>0. f = OnScreen(e)
  OBVIOUS
<1> HIDE DEF e, h, f
<1>3. CASE y + 1 >= VGA_HEIGHT
  <2>1. y + 1 = VGA_HEIGHT
    BY <1>1, <1>3, SMTT(60)
  <2>2. f = Scrolled(e) /\ h = Append(g, Line(e.buffer, 0))
    BY <1>0, <1>2, <1>3 DEF OnScreen
  <2>3. f.row = VGA_HEIGHT - 1 /\ f.column = 0 /\ f = [row |-> f.row, column |-> f.column, buffer |-> f.buffer]
    BY <1>2, <2>2 DEF Scrolled
  <2>4. f.buffer \in [Cells -> Printable]
    BY <1>2, <2>2, ScrollLines
  <2>5. f \in Screens
    BY <1>1, <2>3, <2>4, SMTT(60) DEF Screens
  <2>6. h \in Seq(LineType)
    <3>1. Line(e.buffer, 0) \in LineType
      BY <1>1, <1>2, LineTypes, SMTT(60)
    <3>. QED
      BY <2>2, <3>1, SMTT(60)
  <2>7. BlankBelow(f.row, f.buffer)
    BY <1>1, <2>3, SMTT(60) DEF BlankBelow
  <2>8. Roll(h, VGA_HEIGHT, f.buffer) = Append(Roll(g, VGA_HEIGHT, b), BlankLine)
    BY <1>2, <2>2, ScrollRoll
  <2>9. f.row + 1 = VGA_HEIGHT
    BY <1>1, <2>3, SMTT(60)
  <2>. QED
    BY <2>1, <2>3, <2>5, <2>6, <2>7, <2>8, <2>9
<1>4. CASE y + 1 < VGA_HEIGHT
  <2>1. f = e /\ h = g
    BY <1>0, <1>1, <1>2, <1>4, SMTT(60) DEF OnScreen
  <2>2. f \in Screens
    BY <1>1, <1>2, <1>4, <2>1, SMTT(60) DEF Screens
  <2>3. Line(b, y + 1) = BlankLine
    BY <1>1, <1>4, SMTT(60) DEF BlankBelow
  <2>4. BlankBelow(f.row, f.buffer)
    BY <1>1, <1>2, <2>1, SMTT(60) DEF BlankBelow
  <2>5. y \in Nat /\ f.row + 1 = y + 2
    BY <1>2, <2>1, SMTT(60)
  <2>6. Roll(g, y + 2, b) = Append(Roll(g, y + 1, b), BlankLine)
    BY <1>4, <2>3, <2>5, NextInRoll
  <2>. QED
    BY <1>2, <2>1, <2>2, <2>4, <2>5, <2>6
<1>. QED
  BY <1>1, <1>3, <1>4, SMTT(60)

\* The paper of module Terminal.
Lines == Roll(gone, con.row + 1, con.buffer)
Margin == cursor - con.row * VGA_WIDTH

\* What the invariant says of the parts of the console.
LEMMA ConsoleParts ==
  ASSUME ConsoleConstants, ConsoleInv
  PROVE  /\ con \in Screens /\ con.row \in 0 .. (VGA_HEIGHT - 1) /\ con.column \in Columns
         /\ con.buffer \in [Cells -> Printable] /\ gone \in Seq(LineType)
         /\ BlankBelow(con.row, con.buffer) /\ cursor = Position(con)
         /\ Margin = con.column
         /\ VGA_WIDTH \in Nat \ {0, 1} /\ VGA_HEIGHT \in Nat \ {0}
<1>1. /\ con \in Screens /\ gone \in Seq(LineType) /\ cursor = Position(con)
      /\ BlankBelow(con.row, con.buffer)
  BY DEF ConsoleInv, ConsoleTypeOK, Screens, LineType
<1>2. /\ con.row \in 0 .. (VGA_HEIGHT - 1) /\ con.column \in Columns
      /\ con.buffer \in [Cells -> Printable]
  BY <1>1 DEF Screens
<1>3. VGA_WIDTH \in Nat \ {0, 1} /\ VGA_HEIGHT \in Nat \ {0}
  BY DEF ConsoleConstants
<1>4. Margin = con.column
  <2> DEFINE p == con.row * VGA_WIDTH
  <2>1. p \in Int /\ con.column \in Int
    BY <1>2, <1>3, SMTT(60) DEF Columns
  <2>2. cursor = p + con.column
    BY <1>1 DEF Position
  <2> HIDE DEF p
  <2>3. cursor - p = con.column
    BY <2>1, <2>2, SMTT(60)
  <2>. QED
    BY <2>3 DEF p, Margin
<1>. QED
  BY <1>1, <1>2, <1>3, <1>4

\* A console with these parts is as the invariant says.
LEMMA ConsoleFromParts ==
  ASSUME ConsoleConstants, con' \in Screens, gone' \in Seq(LineType), cursor' = Position(con'),
         BlankBelow(con'.row, con'.buffer)
  PROVE  ConsoleInv' /\ Margin' = con'.column
<1>1. con'.row \in 0 .. (VGA_HEIGHT - 1) /\ con'.column \in Columns
  BY DEF Screens
<1>2. VGA_WIDTH \in Nat \ {0, 1} /\ VGA_HEIGHT \in Nat \ {0}
  BY DEF ConsoleConstants
<1>3. con'.row \in Nat /\ con'.row < VGA_HEIGHT
  BY <1>1, <1>2, SMTT(60)
<1>4. cursor' \in Cells
  BY <1>1, <1>3, CellOfLine DEF Position
<1>5. ConsoleInv'
  BY <1>4 DEF ConsoleInv, ConsoleTypeOK, Screens, LineType
<1>6. Margin' = con'.column
  <2> DEFINE p == con'.row * VGA_WIDTH
  <2>1. p \in Int /\ con'.column \in Int
    BY <1>1, <1>2, <1>3, SMTT(60) DEF Columns
  <2>2. cursor' = p + con'.column
    BY DEF Position
  <2> HIDE DEF p
  <2>3. cursor' - p = con'.column
    BY <2>1, <2>2, SMTT(60)
  <2>. QED
    BY <2>3 DEF p, Margin
<1>. QED
  BY <1>5, <1>6

\* A printable character.
LEMMA PrintStep ==
  ASSUME ConsoleConstants, ConsoleInv, NEW chr \in Printable, console_putchar(chr)
  PROVE  /\ ConsoleInv'
         /\ IF Margin = VGA_WIDTH - 1
            THEN Lines' = Append(WrittenAt(Lines, Margin, chr), BlankLine) /\ Margin' = 0
            ELSE Lines' = WrittenAt(Lines, Margin, chr) /\ Margin' = Margin + 1
<1> DEFINE y == con.row
           x == con.column
           b == con.buffer
           w == WithCell(b, y, x, chr)
           e == [row |-> y, column |-> x + 1, buffer |-> w]
<1>0. /\ y \in 0 .. (VGA_HEIGHT - 1) /\ x \in Columns
      /\ b \in [Cells -> Printable] /\ gone \in Seq(LineType)
      /\ BlankBelow(y, b) /\ Margin = x
      /\ VGA_WIDTH \in Nat \ {0, 1} /\ VGA_HEIGHT \in Nat \ {0}
  BY ConsoleParts
<1>1. chr # NEWLINE /\ chr # RETURN /\ chr # BACKSPACE
  BY DEF ConsoleConstants
<1>2. Effect(con, chr) = e
  BY <1>1 DEF Effect, PutCell, WithCell
<1>3. /\ con' = OnScreen(Wrapped(e)) /\ cursor' = Position(con')
      /\ gone' = IF Wrapped(e).row >= VGA_HEIGHT
                 THEN Append(gone, Line(Wrapped(e).buffer, 0)) ELSE gone
  BY <1>2 DEF console_putchar
<1>4. /\ w \in [Cells -> Printable]
      /\ \A z \in 0 .. (VGA_HEIGHT - 1) : z # y => Line(w, z) = Line(b, z)
  BY <1>0, PutInLine, SMTT(60)
<1>5. Roll(gone, y + 1, w) = WrittenAt(Lines, Margin, chr)
  BY <1>0, PutInRoll, SMTT(60) DEF Lines
<1> HIDE DEF w
<1>6. BlankBelow(y, w)
  BY <1>0, <1>4, SMTT(60) DEF BlankBelow
<1>7. CASE x = VGA_WIDTH - 1
  <2>1. Wrapped(e) = Fed(y, w)
    <3>1. e.column >= VGA_WIDTH /\ e.row = y
      BY <1>0, <1>7, SMTT(60)
    <3>2. Wrapped(e) = [e EXCEPT !.column = 0, !.row = y + 1]
      BY <3>1 DEF Wrapped
    <3>. QED
      BY <3>2 DEF Fed
  <2>2. Fed(y, w).row = y + 1 /\ Fed(y, w).buffer = w
    BY DEF Fed
  <2>3. con' = OnScreen(Fed(y, w)) /\ gone' = FedGone(gone, y, w)
    BY <1>3, <2>1, <2>2 DEF FedGone
  <2> HIDE DEF e, y, b
  <2>4. /\ con' \in Screens /\ con'.column = 0 /\ gone' \in Seq(LineType)
        /\ BlankBelow(con'.row, con'.buffer)
        /\ Roll(gone', con'.row + 1, con'.buffer) = Append(Roll(gone, y + 1, w), BlankLine)
    <3>1. IsFed(gone, y, w, gone', con')
      BY <1>0, <1>4, <1>6, <2>3, LineFeed
    <3>. QED
      BY <3>1 DEF IsFed
  <2>5. ConsoleInv' /\ Margin' = 0
    BY <1>3, <2>4, ConsoleFromParts
  <2>6. Lines' = Append(WrittenAt(Lines, Margin, chr), BlankLine)
    BY <1>5, <2>4 DEF Lines
  <2>. QED
    BY <1>0, <1>7, <2>5, <2>6
<1>8. CASE x # VGA_WIDTH - 1
  <2>1. Wrapped(e) = e /\ x + 1 \in Columns /\ x + 1 \in Nat
    BY <1>0, <1>8, SMTT(60) DEF Wrapped, Columns
  <2>2. con' = e /\ gone' = gone
    BY <1>0, <1>3, <2>1, SMTT(60) DEF OnScreen
  <2>3. con' \in Screens /\ con'.row = y /\ con'.buffer = w /\ con'.column = x + 1
    BY <1>0, <1>4, <2>1, <2>2 DEF Screens
  <2>4. ConsoleInv' /\ Margin' = x + 1
    BY <1>0, <1>3, <1>6, <2>2, <2>3, ConsoleFromParts
  <2>5. Lines' = WrittenAt(Lines, Margin, chr)
    BY <1>5, <2>2, <2>3 DEF Lines
  <2>. QED
    BY <1>0, <1>8, <2>4, <2>5
<1>. QED
  BY <1>7, <1>8

\* A new line.
LEMMA NewlineStep ==
  ASSUME ConsoleConstants, ConsoleInv, console_putchar(NEWLINE)
  PROVE  ConsoleInv' /\ Lines' = Append(Lines, BlankLine) /\ Margin' = 0
<1> DEFINE y == con.row
           b == con.buffer
           v == Fed(y, b)
<1>0. /\ y \in 0 .. (VGA_HEIGHT - 1) /\ con \in Screens
      /\ b \in [Cells -> Printable] /\ gone \in Seq(LineType) /\ BlankBelow(y, b)
      /\ VGA_WIDTH \in Nat \ {0, 1} /\ VGA_HEIGHT \in Nat \ {0}
  BY ConsoleParts
<1>1. Effect(con, NEWLINE) = v
  <2>1. con = [row |-> y, column |-> con.column, buffer |-> b]
    BY <1>0 DEF Screens
  <2>2. Effect(con, NEWLINE) = [con EXCEPT !.column = 0, !.row = y + 1]
    BY DEF Effect, NEWLINE, RETURN, BACKSPACE
  <2>. QED
    BY <2>1, <2>2 DEF Fed
<1>2. v.row = y + 1 /\ v.buffer = b /\ v.column = 0
  BY DEF Fed
<1>3. Wrapped(v) = v
  BY <1>0, <1>2, SMTT(60) DEF Wrapped
<1>4. con' = OnScreen(v) /\ cursor' = Position(con') /\ gone' = FedGone(gone, y, b)
  BY <1>1, <1>2, <1>3 DEF console_putchar, FedGone
<1> HIDE DEF v, y, b
<1>5. /\ con' \in Screens /\ con'.column = 0 /\ gone' \in Seq(LineType)
      /\ BlankBelow(con'.row, con'.buffer)
      /\ Roll(gone', con'.row + 1, con'.buffer) = Append(Roll(gone, y + 1, b), BlankLine)
  <2>1. IsFed(gone, y, b, gone', con')
    BY <1>0, <1>4, LineFeed DEF v
  <2>. QED
    BY <2>1 DEF IsFed
<1>6. ConsoleInv' /\ Margin' = 0
  BY <1>4, <1>5, ConsoleFromParts
<1>. QED
  BY <1>5, <1>6 DEF Lines, y, b

\* A carriage return.
LEMMA ReturnStep ==
  ASSUME ConsoleConstants, ConsoleInv, console_putchar(RETURN)
  PROVE  ConsoleInv' /\ Lines' = Lines /\ Margin' = 0
<1> DEFINE v == [row |-> con.row, column |-> 0, buffer |-> con.buffer]
<1>0. /\ con.row \in 0 .. (VGA_HEIGHT - 1) /\ con \in Screens
      /\ con.buffer \in [Cells -> Printable] /\ gone \in Seq(LineType)
      /\ BlankBelow(con.row, con.buffer)
      /\ VGA_WIDTH \in Nat \ {0, 1} /\ VGA_HEIGHT \in Nat \ {0}
  BY ConsoleParts
<1>1. Effect(con, RETURN) = v
  <2>1. con = [row |-> con.row, column |-> con.column, buffer |-> con.buffer]
    BY <1>0 DEF Screens
  <2>2. Effect(con, RETURN) = [con EXCEPT !.column = 0]
    BY DEF Effect, NEWLINE, RETURN, BACKSPACE
  <2>. QED
    BY <2>1, <2>2
<1>2. Wrapped(v) = v /\ OnScreen(v) = v
  BY <1>0, SMTT(60) DEF Wrapped, OnScreen
<1>3. con' = v /\ cursor' = Position(con') /\ gone' = gone
  BY <1>0, <1>1, <1>2, SMTT(60) DEF console_putchar
<1>4. /\ con' \in Screens /\ con'.row = con.row /\ con'.buffer = con.buffer
      /\ con'.column = 0
  BY <1>0, <1>3, SMTT(60) DEF Screens, Columns
<1>5. ConsoleInv' /\ Margin' = 0
  BY <1>0, <1>3, <1>4, ConsoleFromParts
<1>. QED
  BY <1>3, <1>4, <1>5 DEF Lines

\* A backspace: the nested call for the blank never wraps, as it is given a
\* column to the left of the cursor.
LEMMA BackspaceStep ==
  ASSUME ConsoleConstants, ConsoleInv, console_putchar(BACKSPACE)
  PROVE  /\ ConsoleInv'
         /\ IF Margin = 0
            THEN Lines' = Lines /\ Margin' = Margin
            ELSE Lines' = WrittenAt(Lines, Margin - 1, BLANK) /\ Margin' = Margin - 1
<1> DEFINE y == con.row
           x == con.column
           b == con.buffer
<1>0. /\ y \in 0 .. (VGA_HEIGHT - 1) /\ x \in Columns /\ con \in Screens
      /\ b \in [Cells -> Printable] /\ gone \in Seq(LineType)
      /\ BlankBelow(y, b) /\ Margin = x
      /\ VGA_WIDTH \in Nat \ {0, 1} /\ VGA_HEIGHT \in Nat \ {0} /\ BLANK \in Printable
  BY ConsoleParts DEF ConsoleConstants
<1>1. con = [row |-> y, column |-> x, buffer |-> b]
  BY <1>0 DEF Screens
<1>2. Effect(con, BACKSPACE) = RubbedOut(con)
  BY DEF Effect, NEWLINE, RETURN, BACKSPACE
<1>3. x \in 0 .. (VGA_WIDTH - 1)
  BY <1>0 DEF Columns
<1>4. CASE x = 0
  <2>1. RubbedOut(con) = con
    BY <1>4 DEF RubbedOut
  <2>2. Wrapped(con) = con /\ OnScreen(con) = con
    BY <1>0, <1>3, SMTT(60) DEF Wrapped, OnScreen
  <2>3. con' = con /\ cursor' = Position(con') /\ gone' = gone
    BY <1>0, <1>2, <2>1, <2>2, SMTT(60) DEF console_putchar
  <2>4. ConsoleInv' /\ Margin' = x
    BY <1>0, <2>3, ConsoleFromParts
  <2>. QED
    BY <1>0, <1>4, <2>3, <2>4 DEF Lines
<1>5. CASE x # 0
  <2> DEFINE w == WithCell(b, y, x - 1, BLANK)
             back == [row |-> y, column |-> x - 1, buffer |-> b]
             wiped == [row |-> y, column |-> x, buffer |-> w]
             v == [row |-> y, column |-> x - 1, buffer |-> w]
  <2>1. x - 1 \in Columns /\ (x - 1) + 1 = x
    BY <1>0, <1>3, <1>5, SMTT(60) DEF Columns
  <2>2. [con EXCEPT !.column = x - 1] = back
    BY <1>1, SMTT(60)
  <2>3. PutCell(back, BLANK) = wiped
    BY <2>1 DEF PutCell, WithCell
  <2>4. /\ w \in [Cells -> Printable]
        /\ \A z \in 0 .. (VGA_HEIGHT - 1) : z # y => Line(w, z) = Line(b, z)
    <3> DEFINE q == x - 1
    <3>1. q \in Columns
      BY <2>1
    <3> HIDE DEF q
    <3>2. /\ WithCell(b, y, q, BLANK) \in [Cells -> Printable]
          /\ \A z \in 0 .. (VGA_HEIGHT - 1) : z # y => Line(WithCell(b, y, q, BLANK), z) = Line(b, z)
      BY <1>0, <3>1, PutInLine, SMTT(60)
    <3>. QED
      BY <3>2 DEF q
  <2>5. Roll(gone, y + 1, w) = WrittenAt(Lines, x - 1, BLANK)
    BY <1>0, <2>1, PutInRoll, SMTT(60) DEF Lines
  <2> HIDE DEF w
  <2>6. BlankBelow(y, w)
    BY <1>0, <2>4, SMTT(60) DEF BlankBelow
  <2>7. Finish(wiped) = wiped
    <3>1. wiped.column < VGA_WIDTH /\ wiped.row < VGA_HEIGHT
      BY <1>0, <1>3, SMTT(60)
    <3>2. Wrapped(wiped) = wiped
      BY <1>0, <1>3, <3>1, SMTT(60) DEF Wrapped
    <3>3. OnScreen(wiped) = wiped
      BY <1>0, <3>1, SMTT(60) DEF OnScreen
    <3>. QED
      BY <3>2, <3>3 DEF Finish
  <2>8. [wiped EXCEPT !.column = wiped.column - 1] = v
    BY SMTT(60)
  <2>9. RubbedOut(con) = v
    BY <1>5, <2>2, <2>3, <2>7, <2>8 DEF RubbedOut
  <2>10. Wrapped(v) = v /\ OnScreen(v) = v /\ v.row < VGA_HEIGHT
    BY <1>0, <1>3, SMTT(60) DEF Wrapped, OnScreen
  <2>11. con' = v /\ cursor' = Position(con') /\ gone' = gone
    BY <1>0, <1>2, <2>9, <2>10, SMTT(60) DEF console_putchar
  <2>12. con' \in Screens /\ con'.row = y /\ con'.buffer = w /\ con'.column = x - 1
    BY <1>0, <2>1, <2>4, <2>11 DEF Screens
  <2>13. ConsoleInv' /\ Margin' = x - 1
    BY <1>0, <2>6, <2>11, <2>12, ConsoleFromParts
  <2>14. Lines' = WrittenAt(Lines, x - 1, BLANK)
    BY <2>5, <2>11, <2>12 DEF Lines
  <2>. QED
    BY <1>0, <1>5, <2>13, <2>14
<1>. QED
  BY <1>4, <1>5

\* The cleared screen is a new sheet.
LEMMA ClearedSheet ==
  ASSUME ConsoleConstants
  PROVE  /\ Cleared \in Screens /\ Cleared.row = 0 /\ Cleared.column = 0 /\ Position(Cleared) = 0
         /\ BlankBelow(0, Cleared.buffer)
         /\ Roll(<<>>, 1, Cleared.buffer) = <<BlankLine>>
<1> DEFINE b == Cleared.buffer
<1>1. VGA_WIDTH \in Nat \ {0, 1} /\ VGA_HEIGHT \in Nat \ {0} /\ BLANK \in Printable
  BY DEF ConsoleConstants
<1>2. b = [k \in Cells |-> BLANK] /\ Cleared.row = 0 /\ Cleared.column = 0
  BY DEF Cleared
<1>3. Cleared \in Screens
  BY <1>1, SMTT(60) DEF Cleared, Screens, Columns
<1> HIDE DEF b
<1>4. ASSUME NEW y \in 0 .. (VGA_HEIGHT - 1) PROVE Line(b, y) = BlankLine
  <2>1. y \in Nat /\ y < VGA_HEIGHT
    BY <1>1, SMTT(60)
  <2>2. ASSUME NEW x \in Columns PROVE b[y * VGA_WIDTH + x] = BLANK
    BY <1>2, <2>1, CellOfLine
  <2>. QED
    BY <2>2 DEF Line, BlankLine
<1>5. BlankBelow(0, b)
  BY <1>1, <1>4, SMTT(60) DEF BlankBelow
<1>6. Line(b, 0) = BlankLine
  BY <1>1, <1>4, SMTT(60)
<1>7. Roll(<<>>, 1, b) = <<BlankLine>>
  <2>1. [k \in 1 .. 1 |-> Line(b, k - 1)] = <<BlankLine>>
    BY <1>6, SMTT(60)
  <2>. QED
    BY <2>1, SMTT(60) DEF Roll
<1>8. Position(Cleared) = 0
  BY <1>1, <1>2, SMTT(60) DEF Position
<1>. QED
  BY <1>2, <1>3, <1>5, <1>7, <1>8 DEF b

\* console_clear.
LEMMA ClearStep ==
  ASSUME ConsoleConstants, console_clear
  PROVE  ConsoleInv' /\ Lines' = <<BlankLine>> /\ Margin' = 0
<1>1. con' = Cleared /\ cursor' = 0 /\ gone' = <<>>
  BY DEF console_clear
<1>2. con' \in Screens /\ gone' \in Seq(LineType) /\ cursor' = Position(con')
  BY <1>1, ClearedSheet, SMTT(60)
<1>3. BlankBelow(con'.row, con'.buffer) /\ con'.column = 0 /\ con'.row = 0
  BY <1>1, ClearedSheet
<1>4. ConsoleInv' /\ Margin' = 0
  BY <1>2, <1>3, ConsoleFromParts
<1>5. Lines' = Roll(<<>>, 0 + 1, Cleared.buffer)
  BY <1>1, <1>3 DEF Lines
<1>. QED
  BY <1>4, <1>5, ClearedSheet, SMTT(60)

\* Every step of the console is a step of the terminal.
LEMMA ConsoleStep ==
  ConsoleConstants /\ ConsoleInv /\ [ConsoleNext]_consoleVars =>
    ConsoleInv' /\ [Paper!Next]_<<Lines, Margin>>
<1> SUFFICES ASSUME ConsoleConstants, ConsoleInv, [ConsoleNext]_consoleVars
             PROVE  ConsoleInv' /\ [Paper!Next]_<<Lines, Margin>>
  OBVIOUS
<1>0. Margin \in Nat /\ BLANK \in Printable
  BY ConsoleParts, SMTT(60) DEF Columns, ConsoleConstants
<1>1. CASE UNCHANGED consoleVars
  BY <1>1 DEF consoleVars, ConsoleInv, ConsoleTypeOK, Lines, Margin
<1>2. ASSUME NEW chr \in Printable, console_putchar(chr)
      PROVE  ConsoleInv' /\ Paper!Next
  <2>1. Paper!Put(chr)
    BY <1>2, PrintStep DEF Paper!Put, Paper!Written, Paper!BlankLine, Lines, Roll, Margin,
       WrittenAt, BlankLine, Columns
  <2>. QED
    BY <1>2, <2>1, PrintStep DEF Paper!Next
<1>3. CASE console_putchar(NEWLINE)
  <2>1. Paper!Newline
    BY <1>3, NewlineStep DEF Paper!Newline, Paper!BlankLine, Lines, Roll, Margin, BlankLine, Columns
  <2>. QED
    BY <1>3, <2>1, NewlineStep DEF Paper!Next
<1>4. CASE console_putchar(RETURN)
  <2>1. Paper!CarriageReturn
    BY <1>4, ReturnStep DEF Paper!CarriageReturn, Lines, Roll, Margin
  <2>. QED
    BY <1>4, <2>1, ReturnStep DEF Paper!Next
<1>5. CASE console_putchar(BACKSPACE)
  <2>1. CASE Margin = 0
    BY <1>5, <2>1, BackspaceStep
  <2>2. CASE Margin # 0
    <3>1. Margin > 0
      BY <1>0, <2>2, SMTT(60)
    <3>2. Paper!Backspace
      BY <1>5, <2>2, <3>1, BackspaceStep DEF Paper!Backspace, Paper!Written, Lines, Roll, Margin,
         WrittenAt
    <3>. QED
      BY <1>5, <3>2, BackspaceStep DEF Paper!Next
  <2>. QED
    BY <2>1, <2>2
<1>6. CASE console_clear
  <2>1. Paper!Clear
    BY <1>6, ClearStep DEF Paper!Clear, Paper!Init, Paper!BlankLine, Lines, Roll, Margin,
       BlankLine, Columns
  <2>. QED
    BY <1>6, <2>1, ClearStep DEF Paper!Next
<1>. QED
  BY <1>1, <1>2, <1>3, <1>4, <1>5, <1>6 DEF ConsoleNext

\* The console for a caller that is alone, on a screen of any size, with any
\* characters: wrapping, scrolling, rubbing out and clearing make it the end
\* of a roll of paper, and row, column and cursor stay on the screen.
THEOREM ConsoleIsATerminal == ConsoleConstants => (ConsoleSpec => ImplementsTerminal)
<1> SUFFICES ASSUME ConsoleConstants PROVE ConsoleSpec => ImplementsTerminal
  OBVIOUS
<1>1. ConsoleInit => ConsoleInv /\ Paper!Init
  <2> SUFFICES ASSUME ConsoleInit PROVE ConsoleInv /\ Paper!Init
    OBVIOUS
  <2>1. con = Cleared /\ cursor = 0 /\ gone = <<>>
    BY DEF ConsoleInit
  <2>2. /\ con \in Screens /\ con.row = 0 /\ con.column = 0 /\ cursor = Position(con)
        /\ BlankBelow(con.row, con.buffer)
        /\ Roll(gone, 0 + 1, con.buffer) = <<BlankLine>>
    BY <2>1, ClearedSheet, SMTT(60)
  <2>3. cursor \in Cells
    <3>1. 0 \in Nat /\ 0 < VGA_HEIGHT /\ 0 \in Columns
      BY SMTT(60) DEF ConsoleConstants, Columns
    <3>. QED
      BY <2>2, <3>1, CellOfLine DEF Position
  <2>4. gone \in Seq(LineType)
    BY <2>1, SMTT(60)
  <2>5. ConsoleInv
    BY <2>2, <2>3, <2>4 DEF ConsoleInv, ConsoleTypeOK, Screens, LineType
  <2>6. Margin = 0
    BY <2>2, <2>5, ConsoleParts
  <2>7. Lines = <<BlankLine>>
    BY <2>2 DEF Lines
  <2>8. Paper!Init
    BY <2>6, <2>7 DEF Paper!Init, Paper!BlankLine, Lines, Roll, Margin, BlankLine, Columns
  <2>. QED
    BY <2>5, <2>8
<1>2. ConsoleInv /\ [ConsoleNext]_consoleVars =>
        /\ ConsoleInv'
        /\ [Paper!Next]_<<gone \o [n \in 1 .. (con.row + 1) |-> Line(con.buffer, n - 1)],
                         cursor - con.row * VGA_WIDTH>>
  BY ConsoleStep DEF Lines, Roll, Margin
<1>3. ConsoleInv => ConsoleTypeOK
  BY DEF ConsoleInv
<1>. QED
  BY <1>1, <1>2, <1>3, PTL DEF ConsoleSpec, ImplementsTerminal, Paper!Spec
=============================================================================
