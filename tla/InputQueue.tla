----------------------------- MODULE InputQueue -----------------------------
(***************************************************************************)
(* What the keyboard promises its reader: a bounded queue that keeps the   *)
(* order of the characters typed.  A character that comes when the queue   *)
(* is full is dropped, and one that was taken is echoed before the next.   *)
(***************************************************************************)
EXTENDS Sequences, Naturals

CONSTANTS Chars, CAPACITY

VARIABLES
  queue,   \* typed and not yet taken
  hand,    \* the character taken and not yet echoed, if any
  screen   \* the last character echoed, if any

Init == queue = <<>> /\ hand = <<>> /\ screen = <<>>

Type(ch) ==
  /\ Len(queue) < CAPACITY
  /\ queue' = Append(queue, ch)
  /\ UNCHANGED <<hand, screen>>

Take ==
  /\ queue # <<>> /\ hand = <<>>
  /\ hand' = <<Head(queue)>>
  /\ queue' = Tail(queue)
  /\ UNCHANGED screen

Echo ==
  /\ hand # <<>>
  /\ screen' = hand
  /\ hand' = <<>>
  /\ UNCHANGED queue

Next == (\E ch \in Chars : Type(ch)) \/ Take \/ Echo

Spec == Init /\ [][Next]_<<queue, hand, screen>>
=============================================================================
