------------------------------ MODULE Terminal ------------------------------
(***************************************************************************)
(* The VGA text display of EducRTOS (terminal.c): a memory of VGA_HEIGHT   *)
(* rows of VGA_WIDTH cells and a cursor.  The kernel writes strings with   *)
(* the interrupts masked, tasks one character at a time through            *)
(* syscall_putchar, and the timer a character of its own now and then: the *)
(* terminal sees one stream of characters.                                 *)
(***************************************************************************)
EXTENDS Integers, Sequences

CONSTANTS
  VGA_WIDTH, VGA_HEIGHT,
  Characters,     \* BOUND: characters that are written
  Colors,         \* BOUND: arguments of terminal_setcolor
  Strings,        \* BOUND: arguments of terminal_write and terminal_writestring
  MaxLines        \* BOUND: lines begun on the screen

ASSUME ScreenAssumption == VGA_WIDTH \in Nat \ {0} /\ VGA_HEIGHT \in Nat \ {0}
ASSUME InputAssumption ==
  /\ Characters \subseteq 1 .. 255
  /\ Colors \subseteq 0 .. 255
  /\ Strings \subseteq Seq(1 .. 255)
  /\ MaxLines \in Nat

NewLine == 10
Space == 32

Cells == 0 .. VGA_WIDTH * VGA_HEIGHT - 1

VARIABLES
  terminal_buffer, terminal_row, terminal_column, terminal_color,
  data,    \* what is left to write of the current string
  mode,    \* "boot", "running", "halted"
  lines    \* history: everything that was written, line after line

vars == <<terminal_buffer, terminal_row, terminal_column, terminal_color, data, mode, lines>>

\* Light grey on black is 7.
vga_entry_color(fg, bg) == fg + 16 * bg

vga_entry(uc, color) == uc + 256 * color
Entry == 0 .. vga_entry(255, 255)
DefaultColor == vga_entry_color(7, 0)

-----------------------------------------------------------------------------
(* The history: a line is a sequence of VGA_WIDTH entries.                 *)

Blank(color) == [x \in 1 .. VGA_WIDTH |-> vga_entry(Space, color)]

\* The first VGA_HEIGHT lines were blanked by terminal_initialize, the later ones
\* are blanked, in the color of the moment, when they come up from below.
NextLine(ls) ==
  Append(ls, Blank(IF Len(ls) < VGA_HEIGHT THEN DefaultColor ELSE terminal_color))

-----------------------------------------------------------------------------
Init ==
  /\ terminal_buffer = [k \in Cells |-> 0]
  /\ terminal_row = 0 /\ terminal_column = 0 /\ terminal_color = 0
  /\ data = <<>>
  /\ mode = "boot"
  /\ lines = <<>>

terminal_initialize ==
  /\ mode = "boot"
  /\ terminal_row' = 0
  /\ terminal_column' = 0
  /\ terminal_color' = DefaultColor
  /\ terminal_buffer' = [k \in Cells |-> vga_entry(Space, DefaultColor)]
  /\ mode' = "running"
  /\ lines' = <<Blank(DefaultColor)>>
  /\ UNCHANGED data

terminal_setcolor(color) ==
  /\ mode = "running"
  /\ data = <<>>
  /\ terminal_color' = color
  /\ UNCHANGED <<terminal_buffer, terminal_row, terminal_column, data, mode, lines>>

\* terminal_writestring and terminal_write: one call of terminal_putchar after
\* the other.  syscall_putchar and the timer write one character.
terminal_write(string) ==
  /\ mode = "running"
  /\ data = <<>>
  /\ data' = string
  /\ UNCHANGED <<terminal_buffer, terminal_row, terminal_column, terminal_color, mode, lines>>

\* Fault: everything is copied, but the last row is not cleared.
scrolled_uncleared(buffer) ==
  [k \in Cells |-> IF k < (VGA_HEIGHT - 1) * VGA_WIDTH THEN buffer[k + VGA_WIDTH] ELSE buffer[k]]

\* Everything one row up, the last row cleared.
scrolled(buffer) ==
  [k \in Cells |-> IF k < (VGA_HEIGHT - 1) * VGA_WIDTH THEN buffer[k + VGA_WIDTH]
                   ELSE vga_entry(Space, terminal_color)]

\* buffer is the screen that the caller leaves.
terminal_newline(buffer) ==
  /\ terminal_column' = 0
  /\ IF terminal_row + 1 >= VGA_HEIGHT
     THEN terminal_row' = VGA_HEIGHT - 1 /\ terminal_buffer' = scrolled(buffer)
     ELSE terminal_row' = terminal_row + 1 /\ terminal_buffer' = buffer

\* The index that terminal_putentryat computes and checks.
index == terminal_row * VGA_WIDTH + terminal_column

\* Fault: the wrap comes one column too late.
wraps_late == terminal_column >= VGA_WIDTH

wraps == terminal_column + 1 >= VGA_WIDTH

terminal_putchar_newline ==
  /\ mode = "running"
  /\ data # <<>> /\ Head(data) = NewLine
  /\ Len(lines) < MaxLines
  /\ terminal_newline(terminal_buffer)
  /\ data' = Tail(data)
  /\ lines' = NextLine(lines)
  /\ UNCHANGED <<terminal_color, mode>>

terminal_putchar ==
  /\ mode = "running"
  /\ data # <<>> /\ Head(data) # NewLine
  /\ Len(lines) < MaxLines
  /\ data' = Tail(data)
  /\ UNCHANGED terminal_color
  /\ IF index \in Cells
     THEN LET entry == vga_entry(Head(data), terminal_color)
              put == [terminal_buffer EXCEPT ![index] = entry]
              written == [lines EXCEPT ![Len(lines)][terminal_column + 1] = entry]
          IN  /\ mode' = mode
              /\ IF wraps
                 THEN terminal_newline(put) /\ lines' = NextLine(written)
                 ELSE /\ terminal_column' = terminal_column + 1
                      /\ terminal_buffer' = put
                      /\ lines' = written
                      /\ UNCHANGED terminal_row
     ELSE /\ mode' = "halted"
          /\ UNCHANGED <<terminal_buffer, terminal_row, terminal_column, lines>>

Next ==
  \/ terminal_initialize
  \/ \E color \in Colors : terminal_setcolor(color)
  \/ \E string \in Strings : terminal_write(string)
  \/ \E c \in Characters : terminal_write(<<c>>)
  \/ terminal_putchar_newline
  \/ terminal_putchar

Spec == Init /\ [][Next]_vars

-----------------------------------------------------------------------------
TypeOK ==
  /\ terminal_buffer \in [Cells -> Entry]
  /\ terminal_row \in 0 .. VGA_HEIGHT - 1
  /\ terminal_column \in 0 .. VGA_WIDTH - 1
  /\ terminal_color \in 0 .. 255
  /\ data \in Seq(1 .. 255)
  /\ mode \in {"boot", "running", "halted"}
  /\ lines \in Seq([1 .. VGA_WIDTH -> Entry])

\* The screen always shows the end of what was written: its rows are the last
\* VGA_HEIGHT lines, in order, the cursor is in the last line, and nothing but
\* scrolling ever takes a character away (terminal_newline, terminal_putchar).
ScreenShowsTail ==
  mode = "running" =>
    LET top == IF Len(lines) > VGA_HEIGHT THEN Len(lines) - VGA_HEIGHT ELSE 0
        blank == Blank(DefaultColor)
        Line(n) == IF n <= Len(lines) THEN lines[n] ELSE blank
    IN  /\ terminal_row = Len(lines) - top - 1
        /\ \A y \in 0 .. VGA_HEIGHT - 1, x \in 0 .. VGA_WIDTH - 1 :
             terminal_buffer[y * VGA_WIDTH + x] = Line(top + y + 1)[x + 1]

\* The assertion of terminal_putentryat, and the comparison in assembly behind
\* it, never stop the kernel: no sequence of characters leads the cursor out of
\* the screen.
NeverHalts == mode # "halted"
=============================================================================
