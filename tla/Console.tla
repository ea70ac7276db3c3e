------------------------------- MODULE Console -------------------------------
(***************************************************************************)
(* The VGA console of kernel/drivers/console.c, for a caller that is       *)
(* alone.  A cell holds a character; its colour never changes.             *)
(* console_write is a sequence of console_putchar.                         *)
(***************************************************************************)
EXTENDS Vga, Sequences

CONSTANTS
  Printable,    \* characters that are printed as they are
  MaxLines      \* bound: lines that leave the screen at the top

BLANK == " "
NEWLINE == "NL"
RETURN == "CR"
BACKSPACE == "BS"

ConsoleConstants ==
  /\ VGA_WIDTH \in Nat \ {0, 1} /\ VGA_HEIGHT \in Nat \ {0} /\ MaxLines \in Nat
  /\ BLANK \in Printable /\ Printable \cap {NEWLINE, RETURN, BACKSPACE} = {}

VARIABLES
  con,      \* [row, column, buffer], the buffer being indexed as in memory
  cursor,   \* the position the VGA registers were given last
  gone      \* history: the lines that were scrolled off, oldest first

consoleVars == <<con, cursor, gone>>

Cells == 0 .. (VGA_WIDTH * VGA_HEIGHT - 1)
Columns == 0 .. (VGA_WIDTH - 1)

Line(b, y) == [x \in Columns |-> b[y * VGA_WIDTH + x]]

-----------------------------------------------------------------------------
(* Steps of console_putchar, as functions of the console c.                *)

\* The default branch: the cell under the cursor, and one column on.
PutCell(c, ch) ==
  [row    |-> c.row,
   column |-> c.column + 1,
   buffer |-> [c.buffer EXCEPT ![c.row * VGA_WIDTH + c.column] = ch]]

Wrapped(c) ==
  IF c.column >= VGA_WIDTH THEN [c EXCEPT !.column = 0, !.row = c.row + 1] ELSE c

\* Fault: the last line is not cleared.
ScrolledKeepsLast(c) ==
  [row    |-> VGA_HEIGHT - 1,
   column |-> c.column,
   buffer |-> [i \in Cells |-> IF i < (VGA_HEIGHT - 1) * VGA_WIDTH
                               THEN c.buffer[i + VGA_WIDTH] ELSE c.buffer[i]]]

\* console_scroll
Scrolled(c) ==
  [row    |-> VGA_HEIGHT - 1,
   column |-> c.column,
   buffer |-> [i \in Cells |-> IF i < (VGA_HEIGHT - 1) * VGA_WIDTH
                               THEN c.buffer[i + VGA_WIDTH] ELSE BLANK]]

OnScreen(c) == IF c.row >= VGA_HEIGHT THEN Scrolled(c) ELSE c

Finish(c) == LET w == Wrapped(c) IN OnScreen(w)

\* The backspace branch prints a blank by calling console_putchar itself.
RubbedOut(c) ==
  IF c.column = 0 THEN c
  ELSE LET back == [c EXCEPT !.column = c.column - 1]
           wiped == PutCell(back, BLANK)
           inner == Finish(wiped)
       IN [inner EXCEPT !.column = inner.column - 1]

\* What a character does before the tests at the end.
Effect(c, ch) ==
  CASE ch = NEWLINE   -> [c EXCEPT !.column = 0, !.row = c.row + 1]
    [] ch = RETURN    -> [c EXCEPT !.column = 0]
    [] ch = BACKSPACE -> RubbedOut(c)
    [] OTHER          -> PutCell(c, ch)

Position(c) == c.row * VGA_WIDTH + c.column

\* The console after console_clear.
Cleared == [row |-> 0, column |-> 0, buffer |-> [i \in Cells |-> BLANK]]

-----------------------------------------------------------------------------
\* console_initialize
ConsoleInit ==
  /\ con = Cleared
  /\ cursor = 0
  /\ gone = <<>>

console_putchar(ch) ==
  LET e == Effect(con, ch)
      w == Wrapped(e)
      f == OnScreen(w)
  IN
  /\ con' = f
  /\ cursor' = Position(f)
  /\ gone' = IF w.row >= VGA_HEIGHT THEN Append(gone, Line(w.buffer, 0)) ELSE gone
  /\ Len(gone') <= MaxLines

console_clear ==
  /\ con' = Cleared
  /\ cursor' = 0
  /\ gone' = <<>>

ConsoleNext ==
  \/ \E ch \in Printable \cup {NEWLINE, RETURN, BACKSPACE} : console_putchar(ch)
  \/ console_clear

ConsoleSpec == ConsoleInit /\ [][ConsoleNext]_consoleVars

-----------------------------------------------------------------------------
(* Properties.                                                             *)

\* The buffer is written inside its bounds only: row and column are on the
\* screen between any two characters.
ConsoleTypeOK ==
  /\ con \in [row : 0 .. (VGA_HEIGHT - 1), column : Columns, buffer : [Cells -> Printable]]
  /\ cursor \in Cells
  /\ gone \in Seq([Columns -> Printable])

Paper == INSTANCE Terminal WITH
  WIDTH <- VGA_WIDTH,
  lines <- gone \o [n \in 1 .. (con.row + 1) |-> Line(con.buffer, n - 1)],
  col <- cursor - con.row * VGA_WIDTH

\* The screen is the end of a roll of paper: no character that was written
\* is lost, moved or doubled by wrapping and scrolling, but at the top, and
\* the cursor shown is where the next character goes, on the screen.
ImplementsTerminal == []ConsoleTypeOK /\ Paper!Spec
=============================================================================
