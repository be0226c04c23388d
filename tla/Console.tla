------------------------------ MODULE Console ------------------------------
(***************************************************************************)
(* terminal_print: vfprint with terminal_putchar for its putchar.  The     *)
(* formatted output of the kernel and the characters that the tasks and    *)
(* the timer write go to the same screen.                                  *)
(***************************************************************************)
EXTENDS Terminal, Fprint

CONSTANTS
  Formats,       \* BOUND: formats printed at any time
  FirstFormats   \* BOUND: formats printed on an empty screen, with nothing after them

\* The percent signs at the end of a format pair up: it does not end within a
\* conversion.
Trailing(f) == SelectLastInSeq(f, LAMBDA c : c # Ascii.percent)
Complete(f) == (Len(f) - Trailing(f)) % 2 = 0

ASSUME FormatsAssumption ==
  \A f \in Formats \cup FirstFormats : f \in Seq(1 .. 255) /\ Complete(f)

VARIABLE printing  \* whether a call of terminal_print is under way

console_vars == <<vars, fprint_vars, printing>>

ConsoleInit ==
  /\ Init
  /\ printing = FALSE
  /\ format = <<>> /\ ap = <<>> /\ i = 1 /\ out = <<>>

terminal_print(f) ==
  /\ mode = "running"
  /\ data = <<>>
  /\ ~printing
  /\ f \in Formats \/ lines = <<Blank(DefaultColor)>>
  /\ printing' = TRUE
  /\ format' = f
  /\ UNCHANGED <<ap, i, out, vars>>

\* The characters that vfprint gives to its argument putchar go to the terminal
\* before vfprint goes on.
vfprint ==
  /\ mode = "running"
  /\ printing
  /\ data = <<>>
  /\ vfprint_step
  /\ data' = SubSeq(out', Len(out) + 1, Len(out'))
  /\ UNCHANGED <<printing, terminal_buffer, terminal_row, terminal_column, terminal_color,
                 mode, lines>>

\* What is printed first stays on the screen.
vfprint_return ==
  /\ printing
  /\ data = <<>>
  /\ Char(i) = Nul
  /\ format \in Formats
  /\ printing' = FALSE
  /\ format' = <<>> /\ ap' = <<>> /\ i' = 1 /\ out' = <<>>
  /\ UNCHANGED vars

\* What does not come from terminal_print, and the characters being written.
terminal_step ==
  /\ printing => data # <<>>
  /\ Next
  /\ UNCHANGED <<fprint_vars, printing>>

ConsoleNext ==
  \/ \E f \in Formats \cup FirstFormats : terminal_print(f)
  \/ vfprint
  \/ vfprint_return
  \/ terminal_step

ConsoleSpec == ConsoleInit /\ [][ConsoleNext]_console_vars
=============================================================================
