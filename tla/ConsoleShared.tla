---------------------------- MODULE ConsoleShared ----------------------------
(***************************************************************************)
(* The console when tasks print too.  console_putchar has no lock: a timer *)
(* tick in the middle of kernel_main's call lets the tasks run, which call *)
(* console_putchar themselves ("2" of task2; task1 never runs).  No tick   *)
(* comes while a task runs (module Preemption), so that their calls are    *)
(* single steps, between any two loads and stores of kernel_main's call,   *)
(* in the order of the compiled code (-O2).                                *)
(*                                                                         *)
(* Only row and column are shared state here, unsigned words that wrap     *)
(* round; which cell of the buffer is written is what the property asks.   *)
(***************************************************************************)
EXTENDS Vga

CONSTANT WORD   \* 2^64

ConsoleSharedConstants ==
  /\ VGA_WIDTH \in Nat \ {0} /\ VGA_HEIGHT \in Nat \ {0}
  /\ WORD \in Nat /\ WORD > (VGA_HEIGHT + 2) * VGA_WIDTH

VARIABLES
  row, column,   \* con.row, con.column
  put_pc, ch,    \* kernel_main in console_putchar, and its argument
  r, col,        \* what it has loaded of row and column
  nested,        \* it is in the call the backspace branch makes
  written        \* the index of the cell written last

sharedVars == <<row, column, put_pc, ch, r, col, nested, written>>

CharKinds == {"printable", "NL", "CR", "BS"}

SharedInit ==
  /\ row = 0 /\ column = 0
  /\ put_pc = "idle" /\ ch = "printable" /\ r = 0 /\ col = 0 /\ nested = FALSE
  /\ written = 0

Index(y, x) == (y * VGA_WIDTH + x) % WORD

-----------------------------------------------------------------------------
(* kernel_main in console_putchar.                                         *)

Call(char) ==
  /\ put_pc = "idle"
  /\ ch' = char
  /\ put_pc' = IF char \in {"NL", "CR"} THEN "load row" ELSE "load column"
  /\ UNCHANGED <<row, column, r, col, nested, written>>

\* A backspace at the margin does nothing.
LoadColumn ==
  /\ put_pc = "load column"
  /\ col' = column
  /\ put_pc' = IF ch = "BS" /\ column # 0 THEN "rub out" ELSE "load row"
  /\ UNCHANGED <<row, column, ch, r, nested, written>>

LoadRow ==
  /\ put_pc = "load row"
  /\ r' = row
  /\ put_pc' = CASE ch = "printable" -> "write" [] ch = "BS" -> "test" [] OTHER -> "return"
  /\ UNCHANGED <<row, column, ch, col, nested, written>>

\* A new line or a carriage return.
Return ==
  /\ put_pc = "return"
  /\ column' = 0
  /\ r' = IF ch = "NL" THEN (r + 1) % WORD ELSE r
  /\ put_pc' = IF ch = "NL" THEN "store row" ELSE "test"
  /\ UNCHANGED <<row, ch, col, nested, written>>

Write ==
  /\ put_pc = "write"
  /\ written' = Index(r, col)
  /\ put_pc' = "advance"
  /\ UNCHANGED <<row, column, ch, r, col, nested>>

\* column is stored, and if it is too large, the wrap follows.
StoreColumn(x) ==
  /\ column' = x
  /\ col' = x
  /\ put_pc' = IF x >= VGA_WIDTH THEN "wrap" ELSE "test"
  /\ UNCHANGED <<row, ch, r, nested, written>>

Advance == put_pc = "advance" /\ StoreColumn((col + 1) % WORD)

\* Fault: the row is stored in front of the column.
WrapRowFirst ==
  \/ /\ put_pc = "wrap"
     /\ row' = (r + 1) % WORD /\ r' = row' /\ put_pc' = "store row"
     /\ UNCHANGED <<column, ch, col, nested, written>>
  \/ /\ put_pc = "store row"
     /\ column' = 0 /\ put_pc' = "test"
     /\ UNCHANGED <<row, ch, r, col, nested, written>>

\* On to the next row: first the column is stored, then the row.
Wrap ==
  \/ /\ put_pc = "wrap"
     /\ column' = 0 /\ r' = (r + 1) % WORD /\ put_pc' = "store row"
     /\ UNCHANGED <<row, ch, col, nested, written>>
  \/ /\ put_pc = "store row"
     /\ row' = r /\ put_pc' = "test"
     /\ UNCHANGED <<column, ch, r, col, nested, written>>

\* The last test goes by what was loaded of the row.  A nested call comes
\* back to the backspace branch.
Test ==
  /\ put_pc = "test"
  /\ put_pc' = IF r >= VGA_HEIGHT THEN "scroll" ELSE IF nested THEN "reload row" ELSE "idle"
  /\ UNCHANGED <<row, column, ch, r, col, nested, written>>

\* console_scroll, the copying of the lines being left out.
Scroll ==
  /\ put_pc = "scroll"
  /\ row' = VGA_HEIGHT - 1
  /\ put_pc' = IF nested THEN "reload row" ELSE "idle"
  /\ UNCHANGED <<column, ch, r, col, nested, written>>

\* The backspace branch, up to its call of console_putchar(' ').
RubOut ==
  /\ put_pc = "rub out"
  /\ column' = col - 1
  /\ ch' = "printable" /\ nested' = TRUE /\ put_pc' = "load column"
  /\ UNCHANGED <<row, r, col, written>>

ReloadRow ==
  /\ put_pc = "reload row"
  /\ r' = row
  /\ put_pc' = "reload column"
  /\ UNCHANGED <<row, column, ch, col, nested, written>>

ReloadColumn ==
  /\ put_pc = "reload column"
  /\ col' = column
  /\ nested' = FALSE /\ put_pc' = "step back"
  /\ UNCHANGED <<row, column, ch, r, written>>

\* Behind the call.  At column 0 this wraps round.
StepBack == put_pc = "step back" /\ StoreColumn((col - 1) % WORD)

KernelPrints ==
  \/ \E char \in CharKinds : Call(char)
  \/ LoadColumn \/ LoadRow \/ Return \/ Write \/ Advance \/ Wrap \/ Test \/ Scroll
  \/ RubOut \/ ReloadRow \/ ReloadColumn \/ StepBack

-----------------------------------------------------------------------------
\* A task prints a character.
TaskPrints ==
  LET x    == (column + 1) % WORD
      wrap == x >= VGA_WIDTH
      y    == IF wrap THEN (row + 1) % WORD ELSE row
  IN
  /\ written' = Index(row, column)
  /\ column' = IF wrap THEN 0 ELSE x
  /\ row' = IF y >= VGA_HEIGHT THEN VGA_HEIGHT - 1 ELSE y
  /\ UNCHANGED <<put_pc, ch, r, col, nested>>

SharedNext == KernelPrints \/ TaskPrints

SharedSpec == SharedInit /\ [][SharedNext]_sharedVars

-----------------------------------------------------------------------------
(* Properties.                                                             *)

\* However the tasks' characters fall between the loads and stores of
\* kernel_main's, no cell is written but those of the screen, of one more line
\* behind its end, and the one in front of its beginning; and whenever
\* kernel_main is outside console_putchar, row and column are on the screen.
OneLineOut ==
  /\ written \in 0 .. (VGA_WIDTH * (VGA_HEIGHT + 1) - 1) \cup {WORD - 1}
  /\ put_pc = "idle" => row < VGA_HEIGHT /\ column < VGA_WIDTH
=============================================================================
