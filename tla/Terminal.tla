------------------------------ MODULE Terminal ------------------------------
(***************************************************************************)
(* What the console promises: a roll of paper of lines of WIDTH cells, of  *)
(* which the last one is written to at column col.                         *)
(***************************************************************************)
EXTENDS Integers, Sequences

CONSTANTS WIDTH, Printable, BLANK

VARIABLES lines, col

BlankLine == [x \in 0 .. (WIDTH - 1) |-> BLANK]

Init == lines = <<BlankLine>> /\ col = 0

\* The paper with ch in the current line at column x.
Written(x, ch) == [lines EXCEPT ![Len(lines)] = [@ EXCEPT ![x] = ch]]

Put(ch) ==
  IF col = WIDTH - 1
  THEN lines' = Append(Written(col, ch), BlankLine) /\ col' = 0
  ELSE lines' = Written(col, ch) /\ col' = col + 1

Newline == lines' = Append(lines, BlankLine) /\ col' = 0

CarriageReturn == col' = 0 /\ UNCHANGED lines

\* A backspace rubs out what is left of the cursor and stops at the margin.
Backspace == col > 0 /\ lines' = Written(col - 1, BLANK) /\ col' = col - 1

\* A new sheet.
Clear == Init'

Next ==
  \/ \E ch \in Printable : Put(ch)
  \/ Newline \/ CarriageReturn \/ Backspace \/ Clear

Spec == Init /\ [][Next]_<<lines, col>>
=============================================================================
