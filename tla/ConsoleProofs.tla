--------------------------- MODULE ConsoleProofs ---------------------------
(***************************************************************************)
(* Proofs about Terminal, for every size of the screen, every string and   *)
(* every number of lines; about what the conversions of Fprint print, for  *)
(* every argument; and about the two together, Console.                    *)
(***************************************************************************)
EXTENDS Console, WellFoundedInduction, TLAPS

-----------------------------------------------------------------------------
(* Rows and columns of the cells.                                          *)

W == VGA_WIDTH
H == VGA_HEIGHT

LEMMA Sizes == W \in Nat \ {0} /\ H \in Nat \ {0}
PROOF BY ScreenAssumption DEF W, H

LEMMA Products == \A a, b \in Nat : a * b \in Nat
PROOF OBVIOUS

\* The rows do not overlap.
LEMMA RowsInOrder ==
  ASSUME NEW w \in Nat \ {0}, NEW y \in Nat, NEW z \in Nat, y < z, NEW x \in 0 .. w - 1
  PROVE  y * w + x < z * w
PROOF
  <1>1. PICK k \in Nat : z = y + 1 + k
    <2>1. z - y - 1 \in Nat /\ z = y + 1 + (z - y - 1) OBVIOUS
    <2> QED BY <2>1
  <1>2. z * w = y * w + w + k * w BY <1>1
  <1>3. k * w \in Nat /\ y * w \in Nat BY Products
  <1> QED BY <1>2, <1>3

LEMMA CellsApart ==
  ASSUME NEW w \in Nat \ {0}, NEW y \in Nat, NEW z \in Nat, NEW x \in 0 .. w - 1,
         NEW u \in 0 .. w - 1, y * w + x = z * w + u
  PROVE  y = z /\ x = u
PROOF
  <1>0. y * w \in Nat /\ z * w \in Nat BY Products
  <1>1. CASE y < z
    <2>1. y * w + x < z * w BY <1>1, RowsInOrder
    <2> QED BY <1>0, <2>1
  <1>2. CASE z < y
    <2>1. z * w + u < y * w BY <1>2, RowsInOrder
    <2> QED BY <1>0, <2>1
  <1>3. CASE y = z BY <1>0, <1>3
  <1> QED BY <1>1, <1>2, <1>3

\* terminal_row and terminal_column within the screen are a cell of it.
LEMMA InTheScreen ==
  ASSUME NEW y \in 0 .. H - 1, NEW x \in 0 .. W - 1
  PROVE  y * W + x \in Cells
PROOF
  <1>1. y \in Nat /\ H \in Nat /\ y < H /\ W \in Nat \ {0} BY Sizes
  <1>2. y * W + x < H * W BY <1>1, RowsInOrder
  <1>3. y * W \in Nat /\ H * W \in Nat /\ H * W = W * H BY <1>1, Products
  <1> QED BY <1>1, <1>2, <1>3 DEF Cells, W, H

\* What scrolling copies: the row below, for every row but the last.
LEMMA RowBelow ==
  ASSUME NEW y \in 0 .. H - 1, NEW x \in 0 .. W - 1
  PROVE  /\ y # H - 1 => y * W + x < (H - 1) * W /\ (y * W + x) + W = (y + 1) * W + x
         /\ y = H - 1 => ~(y * W + x < (H - 1) * W)
PROOF
  <1>1. y \in Nat /\ H - 1 \in Nat /\ W \in Nat \ {0} BY Sizes
  <1>2. CASE y # H - 1
    <2>1. y < H - 1 BY <1>1, <1>2
    <2>2. y * W + x < (H - 1) * W BY <1>1, <2>1, RowsInOrder
    <2>3. (y * W + x) + W = (y + 1) * W + x BY <1>1
    <2> QED BY <1>2, <2>2, <2>3
  <1>3. CASE y = H - 1
    <2>1. y * W \in Nat BY <1>1, Products
    <2> QED BY <1>3, <2>1
  <1> QED BY <1>2, <1>3

-----------------------------------------------------------------------------
(* What the screen shows.                                                  *)

Line == [1 .. W -> Entry]

\* The number of lines that have left the screen.
Top(ls) == IF Len(ls) > H THEN Len(ls) - H ELSE 0

LineAt(ls, n) == IF n <= Len(ls) THEN ls[n] ELSE Blank(DefaultColor)

\* The screen b with the cursor in row r shows the end of ls.
Shows(b, r, ls) ==
  /\ r = Len(ls) - Top(ls) - 1
  /\ \A y \in 0 .. H - 1, x \in 0 .. W - 1 : b[y * W + x] = LineAt(ls, Top(ls) + y + 1)[x + 1]

LEMMA HeadOf ==
  ASSUME NEW S, NEW s \in Seq(S), s # <<>>
  PROVE  Head(s) \in S
PROOF OBVIOUS

LEMMA Entries ==
  ASSUME NEW c \in 0 .. 255
  PROVE  /\ \A uc \in 1 .. 255 : vga_entry(uc, c) \in Entry
         /\ vga_entry(Space, c) \in Entry
         /\ Blank(c) \in Line
PROOF
  <1>1. ASSUME NEW uc \in 1 .. 255 PROVE vga_entry(uc, c) \in Entry
    <2>1. uc \in Int /\ 1 <= uc /\ uc <= 255 /\ c \in Int /\ 0 <= c /\ c <= 255 OBVIOUS
    <2>2. PICK e \in Int, m \in Int : e = vga_entry(uc, c) /\ m = vga_entry(255, 255)
                                      /\ 0 <= e /\ e <= m
      BY <2>1 DEF vga_entry
    <2>3. e \in 0 .. m BY <2>2
    <2> QED BY <2>2, <2>3 DEF Entry
  <1>2. Space \in 1 .. 255 BY SMT DEF Space
  <1>3. vga_entry(Space, c) \in Entry BY <1>1, <1>2, SMT
  <1>4. Blank(c) \in Line BY <1>3, SMT DEF Blank, Line, W
  <1> QED BY <1>1, <1>3, <1>4, SMT

\* A new line below the others: the screen scrolls if there is no row for it.
LEMMA NewLineShown ==
  ASSUME NEW b, NEW ls \in Seq(Line), Len(ls) > 0,
         Shows(b, terminal_row, ls), terminal_newline(b)
  PROVE  Shows(terminal_buffer', terminal_row', NextLine(ls))
PROOF
  <1>0. H \in Nat /\ H > 0 /\ W \in Nat /\ W > 0 /\ Len(ls) \in Nat BY Sizes
  <1> DEFINE c == IF Len(ls) < VGA_HEIGHT THEN DefaultColor ELSE terminal_color
             ms == Append(ls, Blank(c))
  <1>1. /\ NextLine(ls) = ms
        /\ Len(ms) = Len(ls) + 1
        /\ \A n \in 1 .. Len(ls) : ms[n] = ls[n]
        /\ ms[Len(ls) + 1] = Blank(c)
    BY DEF NextLine
  <1>2. /\ terminal_row = Len(ls) - Top(ls) - 1
        /\ \A y \in 0 .. H - 1, x \in 0 .. W - 1 : b[y * W + x] = LineAt(ls, Top(ls) + y + 1)[x + 1]
    BY DEF Shows
  <1>3. CASE Len(ls) < H
    <2>1. Top(ls) = 0 /\ Top(ms) = 0 BY <1>0, <1>1, <1>3 DEF Top
    <2>2. terminal_row' = terminal_row + 1 /\ terminal_buffer' = b
      BY <1>0, <1>2, <1>3, <2>1 DEF terminal_newline, H
    <2>3. c = DefaultColor BY <1>3 DEF H
    <2>4. \A n \in Nat \ {0} : LineAt(ms, n) = LineAt(ls, n)
      <3> TAKE n \in Nat \ {0}
      <3>1. CASE n <= Len(ls) BY <1>0, <1>1, <3>1 DEF LineAt
      <3>2. CASE n = Len(ls) + 1 BY <1>0, <1>1, <2>3, <3>2 DEF LineAt
      <3>3. CASE n > Len(ls) + 1 BY <1>0, <1>1, <3>3 DEF LineAt
      <3> QED BY <1>0, <3>1, <3>2, <3>3
    <2>5. terminal_row' = Len(ms) - Top(ms) - 1 BY <1>0, <1>1, <1>2, <2>1, <2>2
    <2>6. ASSUME NEW y \in 0 .. H - 1, NEW x \in 0 .. W - 1
          PROVE  terminal_buffer'[y * W + x] = LineAt(ms, Top(ms) + y + 1)[x + 1]
      <3>1. Top(ms) + y + 1 = Top(ls) + y + 1 /\ Top(ls) + y + 1 \in Nat \ {0} BY <2>1
      <3>2. LineAt(ms, Top(ms) + y + 1) = LineAt(ls, Top(ls) + y + 1) BY <2>4, <3>1
      <3> QED BY <1>2, <2>2, <3>2
    <2> QED BY <1>1, <2>5, <2>6 DEF Shows
  <1>4. CASE Len(ls) >= H
    <2>1. Top(ls) = Len(ls) - H /\ Top(ms) = Len(ls) - H + 1 BY <1>0, <1>1, <1>4 DEF Top
    <2>2. terminal_row' = H - 1 /\ terminal_buffer' = scrolled(b)
      BY <1>0, <1>2, <1>4, <2>1 DEF terminal_newline, H
    <2>3. c = terminal_color BY <1>0, <1>4 DEF H
    <2>4. terminal_row' = Len(ms) - Top(ms) - 1 BY <1>0, <1>1, <2>1, <2>2
    <2>5. ASSUME NEW y \in 0 .. H - 1, NEW x \in 0 .. W - 1
          PROVE  terminal_buffer'[y * W + x] = LineAt(ms, Top(ms) + y + 1)[x + 1]
      <3> DEFINE k == y * W + x
      <3>1. k \in Cells BY InTheScreen
      <3>2. scrolled(b)[k] = IF k < (H - 1) * W THEN b[k + W] ELSE vga_entry(Space, terminal_color)
        BY <3>1 DEF scrolled, H, W
      <3>3. CASE y # H - 1
        <4>1. k < (H - 1) * W /\ k + W = (y + 1) * W + x BY <3>3, RowBelow
        <4>2. y + 1 \in 0 .. H - 1 BY <1>0, <3>3
        <4>3. b[(y + 1) * W + x] = LineAt(ls, Top(ls) + (y + 1) + 1)[x + 1] BY <1>2, <4>2
        <4>4. Top(ls) + (y + 1) + 1 = Top(ms) + y + 1 /\ Top(ms) + y + 1 \in 1 .. Len(ls)
          BY <1>0, <1>4, <2>1, <3>3
        <4>5. LineAt(ms, Top(ms) + y + 1) = LineAt(ls, Top(ms) + y + 1)
          BY <1>0, <1>1, <4>4 DEF LineAt
        <4>6. scrolled(b)[k] = b[(y + 1) * W + x] BY <3>2, <4>1
        <4> QED BY <2>2, <4>3, <4>4, <4>5, <4>6
      <3>4. CASE y = H - 1
        <4>1. scrolled(b)[k] = vga_entry(Space, terminal_color) BY <3>2, <3>4, RowBelow
        <4>2. Top(ms) + y + 1 = Len(ls) + 1 BY <1>0, <2>1, <3>4
        <4>3. LineAt(ms, Top(ms) + y + 1) = Blank(terminal_color)
          BY <1>0, <1>1, <2>3, <4>2 DEF LineAt
        <4>4. Blank(terminal_color)[x + 1] = vga_entry(Space, terminal_color)
          <5>1. x + 1 \in 1 .. VGA_WIDTH BY <1>0 DEF W
          <5> QED BY <5>1 DEF Blank
        <4> QED BY <2>2, <4>1, <4>3, <4>4
      <3> QED BY <3>3, <3>4
    <2> QED BY <1>1, <2>4, <2>5 DEF Shows
  <1> QED BY <1>0, <1>3, <1>4

LEMMA NewLineTypes ==
  ASSUME NEW b \in [Cells -> Entry], terminal_color \in 0 .. 255, terminal_row \in 0 .. H - 1,
         terminal_newline(b)
  PROVE  /\ terminal_buffer' \in [Cells -> Entry]
         /\ terminal_row' \in 0 .. H - 1
         /\ terminal_column' = 0
PROOF
  <1>0. H \in Nat /\ H > 0 /\ W \in Nat /\ W > 0 BY Sizes
  <1>1. vga_entry(Space, terminal_color) \in Entry BY Entries
  <1>2. scrolled(b) \in [Cells -> Entry]
    <2>1. ASSUME NEW k \in Cells, k < (H - 1) * W PROVE k + W \in Cells
      <3>1. (H - 1) * W + W = W * H /\ (H - 1) * W \in Int BY <1>0
      <3> QED BY <1>0, <2>1, <3>1 DEF Cells, W, H
    <2>2. \A k \in Cells : k < (H - 1) * W => b[k + W] \in Entry BY <2>1
    <2> QED BY <1>1, <2>2 DEF scrolled, W, H
  <1>3. CASE terminal_row + 1 >= VGA_HEIGHT
    <2>1. terminal_row' = VGA_HEIGHT - 1 /\ terminal_buffer' = scrolled(b) /\ terminal_column' = 0
      BY <1>3 DEF terminal_newline
    <2> QED BY <1>0, <1>2, <2>1 DEF H
  <1>4. CASE ~(terminal_row + 1 >= VGA_HEIGHT)
    <2>1. terminal_row' = terminal_row + 1 /\ terminal_buffer' = b /\ terminal_column' = 0
      BY <1>4 DEF terminal_newline
    <2> QED BY <1>0, <1>4, <2>1 DEF H
  <1> QED BY <1>3, <1>4

LEMMA NextLineTypes ==
  ASSUME NEW ls \in Seq(Line), terminal_color \in 0 .. 255
  PROVE  NextLine(ls) \in Seq(Line) /\ Len(NextLine(ls)) > 0
PROOF
  <1>1. DefaultColor \in 0 .. 255 BY SMT DEF DefaultColor, vga_entry_color
  <1>2. Blank(DefaultColor) \in Line /\ Blank(terminal_color) \in Line BY <1>1, Entries
  <1> QED BY <1>2 DEF NextLine

\* The history with an entry put in a column of its last line.
Written(ls, x, entry) == [ls EXCEPT ![Len(ls)][x + 1] = entry]

\* The screen with an entry put in row r, column x.
Put(b, r, x, entry) == [b EXCEPT ![r * W + x] = entry]

LEMMA EntryShown ==
  ASSUME NEW b \in [Cells -> Entry], NEW ls \in Seq(Line), Len(ls) > 0,
         NEW r \in 0 .. H - 1, NEW cl \in 0 .. W - 1, NEW entry \in Entry, Shows(b, r, ls),
         NEW p, p = Put(b, r, cl, entry),
         NEW ms, ms = Written(ls, cl, entry)
  PROVE  /\ ms \in Seq(Line) /\ Len(ms) = Len(ls)
         /\ p \in [Cells -> Entry]
         /\ Shows(p, r, ms)
PROOF
  <1>0. H \in Nat /\ H > 0 /\ W \in Nat /\ W > 0 /\ Len(ls) \in Nat BY Sizes
  <1> DEFINE n == Len(ls)
             m == [ls[n] EXCEPT ![cl + 1] = entry]
  <1>1. ls[n] \in Line /\ n \in 1 .. Len(ls) BY <1>0
  <1>2. cl + 1 \in 1 .. W BY <1>0
  <1>3. m \in Line /\ \A u \in 1 .. W : m[u] = IF u = cl + 1 THEN entry ELSE ls[n][u]
    BY <1>1, <1>2 DEF Line
  <1>4. ms = [ls EXCEPT ![n] = m] BY DEF Written
  <1> HIDE DEF m
  <1>5. ms \in Seq(Line) /\ Len(ms) = Len(ls) /\ \A k \in 1 .. Len(ls) : ms[k] = IF k = n THEN m ELSE ls[k]
    BY <1>1, <1>3, <1>4
  <1>6. r * W + cl \in Cells BY InTheScreen
  <1>7. p \in [Cells -> Entry] /\ \A k \in Cells : p[k] = IF k = r * W + cl THEN entry ELSE b[k]
    BY <1>6 DEF Put
  <1>8. /\ r = Len(ls) - Top(ls) - 1
        /\ \A y \in 0 .. H - 1, x \in 0 .. W - 1 : b[y * W + x] = LineAt(ls, Top(ls) + y + 1)[x + 1]
    BY DEF Shows
  <1>9. Top(ms) = Top(ls) /\ Top(ls) \in Nat BY <1>0, <1>5 DEF Top
  <1> HIDE DEF n
  <1>10. n = Len(ls) BY DEF n
  <1>11. ASSUME NEW y \in 0 .. H - 1, NEW x \in 0 .. W - 1
         PROVE  p[y * W + x] = LineAt(ms, Top(ls) + y + 1)[x + 1]
    <2>1. y * W + x \in Cells BY InTheScreen
    <2>2. x + 1 \in 1 .. W BY <1>0
    <2>3. CASE y = r
      <3>1. Top(ls) + y + 1 = Len(ls) BY <1>0, <1>8, <1>9, <2>3
      <3>2. LineAt(ms, Top(ls) + y + 1) = m BY <1>0, <1>1, <1>5, <1>10, <3>1 DEF LineAt
      <3>3. CASE x = cl BY <1>3, <1>7, <2>1, <2>2, <2>3, <3>2, <3>3
      <3>4. CASE x # cl
        <4>1. y * W + x # r * W + cl BY <1>0, <3>4, CellsApart
        <4>2. p[y * W + x] = b[y * W + x] BY <1>7, <2>1, <4>1
        <4>3. b[y * W + x] = ls[n][x + 1] BY <1>8, <1>10, <3>1 DEF LineAt
        <4>4. m[x + 1] = ls[n][x + 1] BY <1>3, <2>2, <3>4
        <4> QED BY <3>2, <4>2, <4>3, <4>4
      <3> QED BY <3>3, <3>4
    <2>4. CASE y # r
      <3>1. y * W + x # r * W + cl BY <1>0, <2>4, CellsApart
      <3>2. p[y * W + x] = b[y * W + x] BY <1>7, <2>1, <3>1
      <3>3. Top(ls) + y + 1 # Len(ls) /\ Top(ls) + y + 1 \in Nat \ {0} BY <1>0, <1>8, <1>9, <2>4
      <3>4. LineAt(ms, Top(ls) + y + 1) = LineAt(ls, Top(ls) + y + 1)
        BY <1>0, <1>5, <1>10, <3>3 DEF LineAt
      <3> QED BY <1>8, <3>2, <3>4
    <2> QED BY <2>3, <2>4
  <1>12. Shows(p, r, ms) BY <1>5, <1>8, <1>9, <1>11 DEF Shows
  <1> QED BY <1>5, <1>7, <1>12

-----------------------------------------------------------------------------
(* The inductive invariant: the cursor is in the screen whatever the mode, *)
(* and there is a line for it to be in.                                    *)

ScreenInv ==
  /\ TypeOK
  /\ NeverHalts
  /\ mode = "running" =>
       /\ Len(lines) > 0
       /\ Shows(terminal_buffer, terminal_row, lines)

LEMMA InitScreen == Init => ScreenInv
PROOF
  <1> SUFFICES ASSUME Init PROVE ScreenInv OBVIOUS
  <1>1. VGA_WIDTH \in Nat \ {0} /\ VGA_HEIGHT \in Nat \ {0} BY ScreenAssumption
  <1>2. 0 \in Entry
    <2>1. PICK m \in Nat : m = vga_entry(255, 255) BY DEF vga_entry
    <2> QED BY <2>1 DEF Entry
  <1>3. 0 \in 0 .. VGA_HEIGHT - 1 /\ 0 \in 0 .. VGA_WIDTH - 1 /\ 0 \in 0 .. 255 BY <1>1, SMT
  <1>4. <<>> \in Seq(1 .. 255) /\ <<>> \in Seq([1 .. VGA_WIDTH -> Entry]) BY SMT
  <1>5. [k \in Cells |-> 0] \in [Cells -> Entry] BY <1>2
  <1>6. TypeOK BY <1>3, <1>4, <1>5, Zenon DEF Init, TypeOK
  <1> QED BY <1>6, Zenon DEF Init, ScreenInv, NeverHalts

LEMMA InitializeKeeps == ScreenInv /\ terminal_initialize => ScreenInv'
PROOF
  <1> SUFFICES ASSUME ScreenInv, terminal_initialize PROVE ScreenInv' OBVIOUS
  <1>0. W \in Nat /\ W > 0 /\ H \in Nat /\ H > 0 BY Sizes
  <1> DEFINE blank == Blank(DefaultColor)
             entry == vga_entry(Space, DefaultColor)
  <1>1. DefaultColor \in 0 .. 255 BY SMT DEF DefaultColor, vga_entry_color
  <1>2. blank \in Line /\ entry \in Entry BY <1>1, Entries
  <1>3. /\ terminal_row' = 0 /\ terminal_column' = 0 /\ terminal_color' = DefaultColor
        /\ terminal_buffer' = [k \in Cells |-> entry]
        /\ mode' = "running" /\ lines' = <<blank>> /\ data' = data
    BY DEF terminal_initialize
  <1>4. \A x \in 0 .. W - 1 : blank[x + 1] = entry
    <2> TAKE x \in 0 .. W - 1
    <2>1. x + 1 \in 1 .. VGA_WIDTH BY <1>0 DEF W
    <2> QED BY <2>1 DEF Blank
  <1> HIDE DEF blank, entry
  <1>5. <<blank>> \in Seq(Line) /\ Len(<<blank>>) = 1 /\ <<blank>>[1] = blank BY <1>2
  <1>6. Top(<<blank>>) = 0 BY <1>0, <1>5 DEF Top
  <1>7. \A n \in Nat \ {0} : LineAt(<<blank>>, n) = blank
    <2> TAKE n \in Nat \ {0}
    <2>1. CASE n = 1 BY <1>5, <2>1 DEF LineAt
    <2>2. CASE n # 1
      <3>1. ~(n <= Len(<<blank>>)) BY <1>5, <2>2
      <3> QED BY <3>1 DEF LineAt, blank
    <2> QED BY <2>1, <2>2
  <1>8. Shows(terminal_buffer', terminal_row', lines')
    <2>1. terminal_row' = Len(lines') - Top(lines') - 1 BY <1>3, <1>5, <1>6
    <2>2. ASSUME NEW y \in 0 .. H - 1, NEW x \in 0 .. W - 1
          PROVE  terminal_buffer'[y * W + x] = LineAt(lines', Top(lines') + y + 1)[x + 1]
      <3>1. y * W + x \in Cells BY InTheScreen
      <3>2. 0 + y + 1 \in Nat \ {0} OBVIOUS
      <3> QED BY <1>3, <1>4, <1>6, <1>7, <3>1, <3>2
    <2> QED BY <2>1, <2>2 DEF Shows
  <1>9. TypeOK'
    <2>1. terminal_buffer' \in [Cells -> Entry] BY <1>2, <1>3
    <2>2. terminal_row' \in 0 .. VGA_HEIGHT - 1 /\ terminal_column' \in 0 .. VGA_WIDTH - 1
      BY <1>0, <1>3 DEF W, H
    <2>3. lines' \in Seq([1 .. VGA_WIDTH -> Entry]) BY <1>3, <1>5 DEF Line, W
    <2>4. data' \in Seq(1 .. 255) BY <1>3 DEF ScreenInv, TypeOK
    <2> QED BY <1>1, <1>3, <2>1, <2>2, <2>3, <2>4, Zenon DEF TypeOK
  <1>10. Len(lines') > 0 BY <1>3, <1>5
  <1> QED BY <1>3, <1>8, <1>9, <1>10, Zenon DEF ScreenInv, NeverHalts

LEMMA NewLineKeeps == ScreenInv /\ terminal_putchar_newline => ScreenInv'
PROOF
  <1> SUFFICES ASSUME ScreenInv, terminal_putchar_newline PROVE ScreenInv' OBVIOUS
  <1>0. W \in Nat /\ W > 0 /\ H \in Nat /\ H > 0 BY Sizes
  <1>1. TypeOK /\ mode = "running" /\ mode' = mode /\ terminal_color' = terminal_color
    BY Zenon DEF ScreenInv, terminal_putchar_newline
  <1>2. Len(lines) > 0 /\ Shows(terminal_buffer, terminal_row, lines) BY <1>1, Zenon DEF ScreenInv
  <1>3. data # <<>> /\ data' = Tail(data) /\ terminal_newline(terminal_buffer) /\ lines' = NextLine(lines)
    BY Zenon DEF terminal_putchar_newline
  <1>4. lines \in Seq(Line) /\ terminal_color \in 0 .. 255 /\ terminal_buffer \in [Cells -> Entry]
    BY <1>1, Zenon DEF TypeOK, Line, W
  <1>5. Shows(terminal_buffer', terminal_row', lines') BY <1>2, <1>3, <1>4, NewLineShown
  <1>6. lines' \in Seq(Line) /\ Len(lines') > 0 BY <1>3, <1>4, NextLineTypes
  <1>7. terminal_buffer' \in [Cells -> Entry] /\ terminal_row' \in 0 .. H - 1 /\ terminal_column' = 0
    <2>1. terminal_row \in 0 .. H - 1 BY <1>1, Zenon DEF TypeOK, H
    <2> QED BY <1>3, <1>4, <2>1, NewLineTypes
  <1>8. data' \in Seq(1 .. 255)
    <2>1. data \in Seq(1 .. 255) BY <1>1, Zenon DEF TypeOK
    <2> QED BY <1>3, <2>1, SMT
  <1>9. 0 \in 0 .. VGA_WIDTH - 1 BY <1>0 DEF W
  <1>10. TypeOK' BY <1>1, <1>4, <1>6, <1>7, <1>8, <1>9, Zenon DEF TypeOK, Line, W, H
  <1> QED BY <1>1, <1>5, <1>6, <1>10, Zenon DEF ScreenInv, NeverHalts

LEMMA PutcharKeeps == ScreenInv /\ terminal_putchar => ScreenInv'
PROOF
  <1> SUFFICES ASSUME ScreenInv, terminal_putchar PROVE ScreenInv' OBVIOUS
  <1>0. W \in Nat /\ W > 0 /\ H \in Nat /\ H > 0 BY Sizes
  <1>1. TypeOK /\ mode = "running" /\ data # <<>> /\ data' = Tail(data) /\ terminal_color' = terminal_color
    BY Zenon DEF ScreenInv, terminal_putchar
  <1>2. Len(lines) > 0 /\ Shows(terminal_buffer, terminal_row, lines) BY <1>1, Zenon DEF ScreenInv
  <1>3. /\ lines \in Seq(Line) /\ terminal_color \in 0 .. 255 /\ terminal_buffer \in [Cells -> Entry]
        /\ terminal_row \in 0 .. H - 1 /\ terminal_column \in 0 .. W - 1 /\ data \in Seq(1 .. 255)
    BY <1>1, Zenon DEF TypeOK, Line, W, H
  <1> DEFINE entry == vga_entry(Head(data), terminal_color)
             put == Put(terminal_buffer, terminal_row, terminal_column, entry)
             written == Written(lines, terminal_column, entry)
  <1>4. entry \in Entry
    <2>1. Head(data) \in 1 .. 255 BY <1>1, <1>3, HeadOf
    <2> QED BY <1>3, <2>1, Entries
  <1>5. terminal_row * W + terminal_column \in Cells BY <1>3, InTheScreen
  <1>6. /\ mode' = mode
        /\ IF wraps
           THEN terminal_newline(put) /\ lines' = NextLine(written)
           ELSE /\ terminal_column' = terminal_column + 1
                /\ terminal_buffer' = put
                /\ lines' = written
                /\ terminal_row' = terminal_row
    BY <1>5, Zenon DEF terminal_putchar, index, W, Written, Put
  <1> HIDE DEF entry
  <1>7. /\ written \in Seq(Line) /\ Len(written) = Len(lines)
        /\ put \in [Cells -> Entry]
        /\ Shows(put, terminal_row, written)
    <2>1. written = Written(lines, terminal_column, entry) OBVIOUS
    <2> HIDE DEF put, written
    <2>2. put = Put(terminal_buffer, terminal_row, terminal_column, entry) BY DEF put
    <2>3. /\ lines \in Seq(Line) /\ terminal_buffer \in [Cells -> Entry]
          /\ terminal_row \in 0 .. H - 1 /\ terminal_column \in 0 .. W - 1
      BY <1>3, Zenon
    <2>4. Len(lines) > 0 /\ Shows(terminal_buffer, terminal_row, lines) BY <1>2
    <2>5. entry \in Entry BY <1>4
    <2> HIDE DEF entry
    <2> QED BY <2>1, <2>2, <2>3, <2>4, <2>5, EntryShown
  <1> HIDE DEF put, written
  <1>8. data' \in Seq(1 .. 255) BY <1>1, <1>3, SMT
  <1>9. /\ Shows(terminal_buffer', terminal_row', lines') /\ Len(lines') > 0 /\ lines' \in Seq(Line)
        /\ terminal_buffer' \in [Cells -> Entry] /\ terminal_row' \in 0 .. H - 1
        /\ terminal_column' \in 0 .. W - 1
    <2>1. CASE wraps
      <3>1. terminal_newline(put) /\ lines' = NextLine(written) BY <1>6, <2>1
      <3>2. Len(written) > 0 BY <1>2, <1>7
      <3>3. Shows(terminal_buffer', terminal_row', lines') BY <1>7, <3>1, <3>2, NewLineShown
      <3>4. lines' \in Seq(Line) /\ Len(lines') > 0 BY <1>3, <1>7, <3>1, NextLineTypes
      <3>5. /\ terminal_buffer' \in [Cells -> Entry] /\ terminal_row' \in 0 .. H - 1
            /\ terminal_column' = 0
        BY <1>3, <1>7, <3>1, NewLineTypes
      <3>6. 0 \in 0 .. W - 1 BY <1>0
      <3> QED BY <3>3, <3>4, <3>5, <3>6
    <2>2. CASE ~wraps
      <3>1. /\ terminal_column' = terminal_column + 1 /\ terminal_buffer' = put
            /\ lines' = written /\ terminal_row' = terminal_row
        BY <1>6, <2>2
      <3>2. terminal_column + 1 \in 0 .. W - 1 BY <1>0, <1>3, <2>2 DEF wraps, W
      <3> QED BY <1>2, <1>3, <1>7, <3>1, <3>2
    <2> QED BY <2>1, <2>2
  <1>10. TypeOK' BY <1>1, <1>3, <1>6, <1>8, <1>9, Zenon DEF TypeOK, Line, W, H
  <1> QED BY <1>1, <1>6, <1>9, <1>10, Zenon DEF ScreenInv, NeverHalts

LEMMA ScreenInvNext == ScreenInv /\ [Next]_vars => ScreenInv'
PROOF
  <1> SUFFICES ASSUME ScreenInv, [Next]_vars PROVE ScreenInv' OBVIOUS
  <1>0. TypeOK BY DEF ScreenInv
  <1>1. CASE terminal_initialize BY <1>1, InitializeKeeps
  <1>2. ASSUME NEW color \in Colors, terminal_setcolor(color) PROVE ScreenInv'
    <2>1. color \in 0 .. 255 BY InputAssumption
    <2>2. /\ terminal_color' = color /\ terminal_buffer' = terminal_buffer
          /\ terminal_row' = terminal_row /\ terminal_column' = terminal_column
          /\ data' = data /\ mode' = mode /\ lines' = lines
      BY <1>2, Zenon DEF terminal_setcolor
    <2>3. TypeOK' BY <1>0, <2>1, <2>2, Zenon DEF TypeOK
    <2> QED BY <2>2, <2>3, Zenon DEF ScreenInv, NeverHalts
  <1>3. ASSUME NEW string \in Seq(1 .. 255), terminal_write(string) PROVE ScreenInv'
    <2>1. /\ data' = string /\ terminal_color' = terminal_color /\ terminal_buffer' = terminal_buffer
          /\ terminal_row' = terminal_row /\ terminal_column' = terminal_column
          /\ mode' = mode /\ lines' = lines
      BY <1>3, Zenon DEF terminal_write
    <2>2. TypeOK' BY <1>0, <2>1, Zenon DEF TypeOK
    <2> QED BY <2>1, <2>2, Zenon DEF ScreenInv, NeverHalts
  <1>4. ASSUME NEW string \in Strings, terminal_write(string) PROVE ScreenInv'
    BY <1>3, <1>4, InputAssumption
  <1>5. ASSUME NEW c \in Characters, terminal_write(<<c>>) PROVE ScreenInv'
    <2>1. c \in 1 .. 255 BY InputAssumption
    <2>2. <<c>> \in Seq(1 .. 255) BY <2>1
    <2> QED BY <1>3, <1>5, <2>2
  <1>6. CASE terminal_putchar_newline BY <1>6, NewLineKeeps
  <1>7. CASE terminal_putchar BY <1>7, PutcharKeeps
  <1>8. CASE UNCHANGED vars
    <2>1. /\ terminal_color' = terminal_color /\ terminal_buffer' = terminal_buffer
          /\ terminal_row' = terminal_row /\ terminal_column' = terminal_column
          /\ data' = data /\ mode' = mode /\ lines' = lines
      BY <1>8, Zenon DEF vars
    <2>2. TypeOK' BY <1>0, <2>1, Zenon DEF TypeOK
    <2> QED BY <2>1, <2>2, Zenon DEF ScreenInv, NeverHalts
  <1> QED BY <1>1, <1>2, <1>4, <1>5, <1>6, <1>7, <1>8, Zenon DEF Next

LEMMA ScreenInvariant == Spec => []ScreenInv
PROOF BY InitScreen, ScreenInvNext, PTL DEF Spec

\* The cursor never leaves the screen, and the cells and the history keep their
\* types.
THEOREM TypeCorrect == Spec => []TypeOK
PROOF
  <1>1. ScreenInv => TypeOK BY DEF ScreenInv
  <1> QED BY <1>1, ScreenInvariant, PTL

\* The assertion of terminal_putentryat never stops the kernel, whatever it
\* writes and whatever the size of the screen.
THEOREM NeverHaltsCorrect == Spec => []NeverHalts
PROOF
  <1>1. ScreenInv => NeverHalts BY DEF ScreenInv
  <1> QED BY <1>1, ScreenInvariant, PTL

\* The screen always shows the last VGA_HEIGHT lines of everything written.
THEOREM ScreenShowsTailCorrect == Spec => []ScreenShowsTail
PROOF
  <1>1. ScreenInv => ScreenShowsTail
    BY Zenon DEF ScreenInv, ScreenShowsTail, Shows, Top, LineAt, W, H
  <1> QED BY <1>1, ScreenInvariant, PTL

-----------------------------------------------------------------------------
(* Numbers.                                                                *)

\* A set of numbers has a least element: induction, for sets.
LEMMA LeastElement ==
  ASSUME NEW T \in SUBSET Nat, T # {}
  PROVE  \E m \in T : \A n \in T : m <= n
PROOF
  <1> DEFINE R == OpToRel(<, Nat)
  <1>1. IsWellFoundedOn(R, Nat) BY NatLessThanWellFounded
  <1>2. \A x, y \in Nat : y < x => <<y, x>> \in R BY DEF OpToRel
  <1> HIDE DEF R
  <1>3. PICK x \in T : \A y \in T : ~(<<y, x>> \in R) BY <1>1, WFMin
  <1>4. \A y \in T : ~(y < x) BY <1>2, <1>3
  <1>5. x \in Nat OBVIOUS
  <1>6. \A y \in T : x <= y BY <1>4, <1>5
  <1> QED BY <1>6

LEMMA Powers16 ==
  /\ pow16[0] = 1
  /\ \A k \in 0 .. 8 : pow16[k] \in Nat \ {0}
  /\ \A k \in 1 .. 8 : pow16[k] = 16 * pow16[k - 1]
PROOF
  <1> DEFINE g == [k \in 0 .. 8 |->
                     IF k = 0 THEN 1 ELSE IF k = 1 THEN 16 ELSE IF k = 2 THEN 256 ELSE IF k = 3 THEN 4096
                     ELSE IF k = 4 THEN 65536 ELSE IF k = 5 THEN 1048576 ELSE IF k = 6 THEN 16777216
                     ELSE IF k = 7 THEN 268435456 ELSE 4294967296]
  <1>1. \A k \in 0 .. 8 : g[k] = IF k = 0 THEN 1 ELSE 16 * g[k - 1] OBVIOUS
  <1>2. g = [k \in 0 .. 8 |-> g[k]] OBVIOUS
  <1> HIDE DEF g
  <1>3. g = [k \in 0 .. 8 |-> IF k = 0 THEN 1 ELSE 16 * g[k - 1]] BY <1>1, <1>2, Zenon
  <1>4. pow16 = [k \in 0 .. 8 |-> IF k = 0 THEN 1 ELSE 16 * pow16[k - 1]] BY <1>3, Zenon DEF pow16
  <1>5. \A k \in 0 .. 8 : pow16[k] = IF k = 0 THEN 1 ELSE 16 * pow16[k - 1] BY <1>4
  <1>6. /\ pow16[0] = 1 /\ pow16[1] = 16 * pow16[0] /\ pow16[2] = 16 * pow16[1] /\ pow16[3] = 16 * pow16[2]
        /\ pow16[4] = 16 * pow16[3] /\ pow16[5] = 16 * pow16[4] /\ pow16[6] = 16 * pow16[5]
        /\ pow16[7] = 16 * pow16[6] /\ pow16[8] = 16 * pow16[7]
    BY <1>5
  <1>7. \A k \in 1 .. 8 : pow16[k] = 16 * pow16[k - 1] BY <1>5
  <1>8. \A k \in 0 .. 8 : k \in {0, 1, 2, 3, 4, 5, 6, 7, 8} OBVIOUS
  <1>9. \A k \in 0 .. 8 : pow16[k] \in Nat \ {0} BY <1>6, <1>8
  <1> QED BY <1>6, <1>7, <1>9

LEMMA WordIs ==
  /\ WORD \in Nat \ {0} /\ WORD * WORD - 1 \in Nat
  /\ \E k \in 2 .. 8 : WORD = pow16[k]
PROOF
  <1>1. PICK k \in 2 .. 8 : WORD = pow16[k] BY RangeAssumption
  <1>2. k \in 0 .. 8 OBVIOUS
  <1>3. WORD \in Nat \ {0} BY <1>1, <1>2, Powers16
  <1>4. WORD * WORD \in Nat \ {0} BY <1>3
  <1> QED BY <1>1, <1>3, <1>4

-----------------------------------------------------------------------------
(* The digits of a number.                                                 *)

LEMMA DigitIs ==
  /\ \A d \in 0 .. 15 : Digit(d) \in 48 .. 70 /\ Digit(d) \in Nat /\ Digit(d) \in 1 .. 255
  /\ \A d, e \in 0 .. 15 : Digit(d) = Digit(e) => d = e
PROOF BY DEF Digit, Ascii

\* The digits of vfprint and of printf are the same up to 9, and no other is.
LEMMA PrintfDigitIs ==
  /\ \A d \in 0 .. 9 : PrintfDigit(d) = Digit(d)
  /\ \A d, e \in 0 .. 15 : Digit(d) = PrintfDigit(e) => d = e /\ d \in 0 .. 9
PROOF BY DEF PrintfDigit, Digit, Ascii

\* One call of digits, of which g is the recursive one.
DigitsStep(g, n) ==
  IF n < 10 THEN <<Digit(n)>> ELSE <<Digit(n - (n \div 10) * 10)>> \o g[n \div 10]

DigitsUpTo(m, g) == g = [n \in 0 .. m |-> DigitsStep(g, n)]

LEMMA DigitsExist ==
  ASSUME NEW m \in Nat
  PROVE  \E g : DigitsUpTo(m, g)
PROOF
  <1> DEFINE T == {j \in Nat : ~ \E g : DigitsUpTo(j, g)}
  <1> SUFFICES ASSUME T # {} PROVE FALSE OBVIOUS
  <1>1. PICK j \in T : \A n \in T : j <= n
    <2>1. T \in SUBSET Nat OBVIOUS
    <2> HIDE DEF T
    <2> QED BY <2>1, LeastElement
  <1>2. j \in Nat /\ ~ \E g : DigitsUpTo(j, g) OBVIOUS
  <1>3. \A n \in Nat : n >= 10 => n \div 10 \in 0 .. n - 1 OBVIOUS
  <1>4. \E h : \A n \in 0 .. j - 1 : h[n] = DigitsStep(h, n)
    <2>1. CASE j = 0 BY <2>1
    <2>2. CASE j # 0
      <3>1. j - 1 \in Nat /\ j - 1 \notin T BY <1>1, <1>2, <2>2
      <3>2. PICK h : DigitsUpTo(j - 1, h) BY <3>1
      <3> QED BY <3>2 DEF DigitsUpTo
    <2> QED BY <2>1, <2>2
  <1>5. PICK h : \A n \in 0 .. j - 1 : h[n] = DigitsStep(h, n) BY <1>4
  <1> DEFINE g == [n \in 0 .. j |-> DigitsStep(h, n)]
  <1>6. ASSUME NEW n \in 0 .. j PROVE DigitsStep(h, n) = DigitsStep(g, n)
    <2>1. CASE n < 10 BY <2>1 DEF DigitsStep
    <2>2. CASE ~(n < 10)
      <3>1. n \div 10 \in 0 .. n - 1 BY <1>3, <2>2
      <3>2. n \div 10 \in 0 .. j /\ n \div 10 \in 0 .. j - 1 BY <1>2, <3>1
      <3>3. g[n \div 10] = h[n \div 10] BY <1>5, <3>2
      <3> HIDE DEF g
      <3> QED BY <3>3 DEF DigitsStep
    <2> QED BY <2>1, <2>2
  <1>7. g = [n \in 0 .. j |-> DigitsStep(g, n)] BY <1>6, Zenon
  <1> HIDE DEF g
  <1>8. DigitsUpTo(j, g) BY <1>7 DEF DigitsUpTo
  <1> QED BY <1>2, <1>8

LEMMA DigitsIs ==
  ASSUME NEW n \in 0 .. WORD * WORD - 1
  PROVE  digits[n] = IF n < 10 THEN <<Digit(n)>>
                     ELSE <<Digit(n - (n \div 10) * 10)>> \o digits[n \div 10]
PROOF
  <1>1. \E g : DigitsUpTo(WORD * WORD - 1, g) BY WordIs, DigitsExist
  <1>2. DigitsUpTo(WORD * WORD - 1, digits) BY <1>1, Zenon DEF digits, DigitsUpTo, DigitsStep
  <1>3. digits[n] = DigitsStep(digits, n) BY <1>2 DEF DigitsUpTo
  <1> QED BY <1>3 DEF DigitsStep

-----------------------------------------------------------------------------
(* Numerals.                                                               *)

\* v is the numbers that the beginnings of t stand for.
Reads(v, t, base) ==
  /\ v[0] = 0
  /\ \A k \in 0 .. Len(t) : v[k] \in Nat
  /\ \A k \in 1 .. Len(t) : \E d \in 0 .. base - 1 : t[k] = Digit(d) /\ v[k] = base * v[k - 1] + d

\* No digit of t is above 9.
Plain(t) == \A k \in 1 .. Len(t) : \E d \in 0 .. 9 : t[k] = Digit(d)

ValueStep(t, base, g, k) ==
  IF k = 0 THEN 0 ELSE base * g[k - 1] + (CHOOSE d \in 0 .. base - 1 : t[k] = PrintfDigit(d))

\* It is what IsNumeral computes.
LEMMA ValueIs ==
  ASSUME NEW base \in {10, 16}, NEW t \in Seq(Nat), NEW v, Reads(v, t, base), Plain(t), NEW value,
         value = CHOOSE g : g = [k \in 0 .. Len(t) |-> ValueStep(t, base, g, k)]
  PROVE  value[Len(t)] = v[Len(t)]
PROOF
  <1> DEFINE D(k) == CHOOSE d \in 0 .. base - 1 : t[k] = PrintfDigit(d)
             u == [k \in 0 .. Len(t) |-> v[k]]
  <1>1. Len(t) \in Nat OBVIOUS
  <1>2. ASSUME NEW k \in 1 .. Len(t) PROVE v[k] = base * v[k - 1] + D(k)
    <2>1. PICK d \in 0 .. base - 1 : t[k] = Digit(d) /\ v[k] = base * v[k - 1] + d BY DEF Reads
    <2>2. \A e : e \in 0 .. base - 1 => e \in 0 .. 15
      <3>1. base = 10 \/ base = 16 OBVIOUS
      <3> QED BY <3>1
    <2>3. t[k] = PrintfDigit(d)
      <3>1. PICK e \in 0 .. 9 : t[k] = Digit(e) BY DEF Plain
      <3>2. e \in 0 .. 15 OBVIOUS
      <3>3. d = e BY <2>1, <2>2, <3>1, <3>2, DigitIs
      <3> QED BY <3>1, <3>3, PrintfDigitIs
    <2>4. D(k) \in 0 .. base - 1 /\ t[k] = PrintfDigit(D(k)) BY <2>3, Zenon
    <2> HIDE DEF D
    <2>5. D(k) \in 0 .. 15 /\ d \in 0 .. 15 BY <2>2, <2>4, Zenon
    <2>6. D(k) = d BY <2>1, <2>4, <2>5, PrintfDigitIs
    <2> QED BY <2>1, <2>6
  <1>3. \A k \in 0 .. Len(t) : u[k] = ValueStep(t, base, u, k)
    <2>1. ASSUME NEW k \in 0 .. Len(t) PROVE u[k] = ValueStep(t, base, u, k)
      <3>1. CASE k = 0 BY <1>1, <3>1 DEF Reads, ValueStep
      <3>2. CASE k # 0
        <4>1. k \in 1 .. Len(t) /\ k - 1 \in 0 .. Len(t) BY <1>1, <3>2
        <4>2. v[k] = base * v[k - 1] + D(k) BY <1>2, <4>1
        <4>3. u[k] = v[k] /\ u[k - 1] = v[k - 1] BY <4>1
        <4>4. u[k] = base * u[k - 1] + D(k) BY <4>2, <4>3
        <4> HIDE DEF u
        <4> QED BY <3>2, <4>4 DEF ValueStep
      <3> QED BY <3>1, <3>2
    <2> QED BY <2>1
  <1>4. u = [k \in 0 .. Len(t) |-> ValueStep(t, base, u, k)]
    <2>1. u = [k \in 0 .. Len(t) |-> u[k]] OBVIOUS
    <2> HIDE DEF u
    <2> QED BY <1>3, <2>1, Zenon
  <1> HIDE DEF u
  <1>5. value = [k \in 0 .. Len(t) |-> ValueStep(t, base, value, k)] BY <1>4, Zenon
  <1>6. \A k \in 0 .. Len(t) : value[k] = ValueStep(t, base, value, k) BY <1>5
  <1>7. \A k \in 0 .. Len(t) : value[k] = v[k]
    <2> DEFINE T == {k \in 0 .. Len(t) : value[k] # v[k]}
    <2> SUFFICES ASSUME T # {} PROVE FALSE OBVIOUS
    <2>1. PICK k \in T : \A n \in T : k <= n
      <3>1. T \in SUBSET Nat BY <1>1
      <3> HIDE DEF T
      <3> QED BY <3>1, LeastElement
    <2>2. k \in 0 .. Len(t) /\ value[k] # v[k] OBVIOUS
    <2>3. k # 0 BY <1>6, <2>2 DEF Reads, ValueStep
    <2>4. k - 1 \in 0 .. Len(t) /\ k - 1 \notin T /\ k \in 1 .. Len(t)
      <3>1. k - 1 \in 0 .. Len(t) /\ k \in 1 .. Len(t) /\ ~(k <= k - 1) BY <1>1, <2>2, <2>3
      <3> HIDE DEF T
      <3> QED BY <2>1, <3>1
    <2>5. value[k - 1] = v[k - 1] BY <2>4
    <2>6. value[k] = base * value[k - 1] + D(k) BY <1>6, <2>2, <2>3 DEF ValueStep
    <2>7. v[k] = base * v[k - 1] + D(k) BY <1>2, <2>4
    <2> HIDE DEF D
    <2> QED BY <2>2, <2>5, <2>6, <2>7
  <1> QED BY <1>1, <1>7

LEMMA NumeralIs ==
  ASSUME NEW base \in {10, 16}, NEW t \in Seq(Nat), t # <<>>, NEW v, Reads(v, t, base), NEW n
  PROVE  IsNumeral(t, n, base) <=> Plain(t) /\ (Len(t) > 1 => t[1] # Digit(0)) /\ v[Len(t)] = n
PROOF
  <1> DEFINE value == CHOOSE g : g = [k \in 0 .. Len(t) |-> ValueStep(t, base, g, k)]
             Digits == \A k \in DOMAIN t : \E d \in 0 .. base - 1 : t[k] = PrintfDigit(d)
  <1>1. DOMAIN t = 1 .. Len(t) OBVIOUS
  <1>2. base = 10 \/ base = 16 OBVIOUS
  <1>3. Digits <=> Plain(t)
    <2>1. ASSUME NEW k \in 1 .. Len(t)
          PROVE  (\E d \in 0 .. base - 1 : t[k] = PrintfDigit(d)) <=> \E d \in 0 .. 9 : t[k] = Digit(d)
      <3>1. PICK e \in 0 .. base - 1 : t[k] = Digit(e) BY DEF Reads
      <3>2. e \in 0 .. 15 BY <1>2
      <3>3. ASSUME NEW d \in 0 .. base - 1, t[k] = PrintfDigit(d) PROVE e \in 0 .. 9
        <4>1. d \in 0 .. 15 BY <1>2
        <4> QED BY <3>1, <3>2, <3>3, <4>1, PrintfDigitIs
      <3>4. ASSUME NEW d \in 0 .. 9, t[k] = Digit(d) PROVE d \in 0 .. base - 1 /\ t[k] = PrintfDigit(d)
        <4>1. d \in 0 .. base - 1 BY <1>2
        <4> QED BY <3>4, <4>1, PrintfDigitIs
      <3> QED BY <3>1, <3>3, <3>4
    <2> QED BY <1>1, <2>1 DEF Plain
  <1>4. PrintfDigit(0) = Digit(0) BY PrintfDigitIs
  <1>5. IsNumeral(t, n, base) <=> Digits /\ (Len(t) > 1 => t[1] # Digit(0)) /\ value[Len(t)] = n
    BY <1>4, Zenon DEF IsNumeral, ValueStep
  <1> HIDE DEF value, Digits
  <1>6. ASSUME Plain(t) PROVE value[Len(t)] = v[Len(t)]
    <2>1. value = CHOOSE g : g = [k \in 0 .. Len(t) |-> ValueStep(t, base, g, k)] BY DEF value
    <2> QED BY <1>6, <2>1, ValueIs
  <1> QED BY <1>3, <1>5, <1>6

LEMMA AppendReads ==
  ASSUME NEW base \in {10, 16}, NEW t \in Seq(Nat), NEW v, Reads(v, t, base), NEW d \in 0 .. base - 1
  PROVE  /\ Append(t, Digit(d)) \in Seq(Nat)
         /\ \E u : /\ Reads(u, Append(t, Digit(d)), base)
                   /\ u[Len(Append(t, Digit(d)))] = base * v[Len(t)] + d
PROOF
  <1> DEFINE u == [k \in 0 .. Len(t) + 1 |-> IF k <= Len(t) THEN v[k] ELSE base * v[Len(t)] + d]
  <1>1. PICK c : c = Digit(d) OBVIOUS
  <1>2. PICK n \in Nat : n = Len(t) OBVIOUS
  <1>3. PICK s : s = Append(t, c) OBVIOUS
  <1>4. c \in Nat
    <2>1. base = 10 \/ base = 16 OBVIOUS
    <2>2. d \in 0 .. 15 BY <2>1
    <2> QED BY <1>1, <2>2, DigitIs, Zenon
  <1>5. s \in Seq(Nat) /\ Len(s) = n + 1 /\ s[n + 1] = c /\ \A k \in 1 .. n : s[k] = t[k] BY <1>2, <1>3, <1>4
  <1>6. v[0] = 0 /\ (\A k \in 0 .. n : v[k] \in Nat)
        /\ \A k \in 1 .. n : \E e \in 0 .. base - 1 : t[k] = Digit(e) /\ v[k] = base * v[k - 1] + e
    BY <1>2 DEF Reads
  <1>7. (\A k \in 0 .. n : u[k] = v[k]) /\ u[n + 1] = base * v[n] + d BY <1>2
  <1> HIDE DEF u
  <1>8. base * v[n] + d \in Nat
    <2>1. v[n] \in Nat BY <1>6
    <2>2. base = 10 \/ base = 16 OBVIOUS
    <2> QED BY <2>1, <2>2
  <1>9. ASSUME NEW k \in 0 .. n + 1 PROVE u[k] \in Nat
    <2>1. k \in 0 .. n \/ k = n + 1 OBVIOUS
    <2> QED BY <1>6, <1>7, <1>8, <2>1
  <1>10. ASSUME NEW k \in 1 .. n + 1
         PROVE  \E e \in 0 .. base - 1 : s[k] = Digit(e) /\ u[k] = base * u[k - 1] + e
    <2>1. CASE k = n + 1
      <3>1. k - 1 = n /\ n \in 0 .. n BY <2>1
      <3>2. u[k - 1] = v[n] BY <1>7, <3>1
      <3> QED BY <1>1, <1>5, <1>7, <2>1, <3>2
    <2>2. CASE k # n + 1
      <3>1. k \in 1 .. n /\ k \in 0 .. n /\ k - 1 \in 0 .. n BY <2>2
      <3>2. u[k] = v[k] /\ u[k - 1] = v[k - 1] /\ s[k] = t[k] BY <1>5, <1>7, <3>1
      <3> QED BY <1>6, <3>1, <3>2
    <2> QED BY <2>1, <2>2
  <1>11. u[0] = 0
    <2>1. 0 \in 0 .. n OBVIOUS
    <2> QED BY <1>6, <1>7, <2>1
  <1>12. Reads(u, s, base) BY <1>5, <1>9, <1>10, <1>11 DEF Reads
  <1>13. u[Len(s)] = base * v[Len(t)] + d BY <1>2, <1>5, <1>7
  <1> QED BY <1>1, <1>3, <1>5, <1>12, <1>13

LEMMA OneDigit ==
  ASSUME NEW base \in {10, 16}, NEW d \in 0 .. base - 1
  PROVE  /\ <<Digit(d)>> \in Seq(Nat)
         /\ \E u : Reads(u, <<Digit(d)>>, base) /\ u[Len(<<Digit(d)>>)] = d
PROOF
  <1> DEFINE u == [k \in 0 .. 1 |-> IF k = 0 THEN 0 ELSE d]
  <1>1. PICK c : c = Digit(d) OBVIOUS
  <1>2. c \in Nat /\ d \in Nat
    <2>1. base = 10 \/ base = 16 OBVIOUS
    <2>2. d \in 0 .. 15 BY <2>1
    <2> QED BY <1>1, <2>2, DigitIs
  <1>3. <<c>> \in Seq(Nat) /\ Len(<<c>>) = 1 /\ <<c>>[1] = c BY <1>2
  <1>4. u[0] = 0 /\ u[1] = d OBVIOUS
  <1> HIDE DEF u
  <1>5. \A k \in 0 .. 1 : u[k] \in Nat BY <1>2, <1>4
  <1>6. d = base * 0 + d BY <1>2
  <1>7. ASSUME NEW k \in 1 .. 1
        PROVE  \E e \in 0 .. base - 1 : <<c>>[k] = Digit(e) /\ u[k] = base * u[k - 1] + e
    <2>1. k = 1 /\ k - 1 = 0 OBVIOUS
    <2> QED BY <1>1, <1>3, <1>4, <1>6, <2>1
  <1>8. Reads(u, <<c>>, base) BY <1>3, <1>4, <1>5, <1>7 DEF Reads
  <1>9. u[Len(<<c>>)] = d BY <1>3, <1>4
  <1> QED BY <1>1, <1>3, <1>8, <1>9

\* The digits, read backwards.
LEMMA ReverseCons ==
  ASSUME NEW s \in Seq(Nat), NEW a \in Nat
  PROVE  Reverse(s) \in Seq(Nat) /\ Len(Reverse(s)) = Len(s) /\ Reverse(<<a>> \o s) = Append(Reverse(s), a)
PROOF
  <1>1. PICK n \in Nat : n = Len(s) OBVIOUS
  <1>2. Reverse(s) \in Seq(Nat) /\ Len(Reverse(s)) = n /\ \A k \in 1 .. n : Reverse(s)[k] = s[n - k + 1]
    BY <1>1 DEF Reverse
  <1>3. PICK t : t = <<a>> \o s OBVIOUS
  <1>4. t \in Seq(Nat) /\ Len(t) = n + 1 /\ t[1] = a /\ \A k \in 1 .. n : t[k + 1] = s[k] BY <1>1, <1>3
  <1>5. Reverse(t) \in Seq(Nat) /\ Len(Reverse(t)) = n + 1 /\ \A k \in 1 .. n + 1 : Reverse(t)[k] = t[n + 1 - k + 1]
    BY <1>4 DEF Reverse
  <1>6. PICK r : r = Append(Reverse(s), a) OBVIOUS
  <1>7. r \in Seq(Nat) /\ Len(r) = n + 1 /\ r[n + 1] = a /\ \A k \in 1 .. n : r[k] = s[n - k + 1]
    <2>1. PICK q \in Seq(Nat) : q = Reverse(s) /\ Len(q) = n BY <1>2
    <2>2. r = Append(q, a) BY <1>6, <2>1
    <2>3. r \in Seq(Nat) /\ Len(r) = n + 1 /\ r[n + 1] = a BY <2>1, <2>2
    <2>4. \A k \in 1 .. n : r[k] = q[k] BY <2>1, <2>2
    <2> QED BY <1>2, <2>1, <2>3, <2>4
  <1>8. ASSUME NEW k \in 1 .. n + 1 PROVE Reverse(t)[k] = r[k]
    <2>1. CASE k = n + 1 BY <1>4, <1>5, <1>7, <2>1
    <2>2. CASE k # n + 1
      <3>1. k \in 1 .. n /\ n - k + 1 \in 1 .. n /\ n + 1 - k + 1 = (n - k + 1) + 1 BY <2>2
      <3>2. Reverse(t)[k] = t[(n - k + 1) + 1] BY <1>5, <3>1
      <3>3. t[(n - k + 1) + 1] = s[n - k + 1] BY <1>4, <3>1
      <3>4. r[k] = s[n - k + 1] BY <1>7, <3>1
      <3> QED BY <3>2, <3>3, <3>4
    <2> QED BY <2>1, <2>2
  <1>9. Reverse(t) = r BY <1>5, <1>7, <1>8
  <1> QED BY <1>1, <1>2, <1>3, <1>6, <1>9

\* What lltoa prints, and itoa for a number that is not negative.
LEMMA DecimalReads ==
  ASSUME NEW n \in 0 .. WORD * WORD - 1
  PROVE  /\ digits[n] \in Seq(Nat) /\ digits[n] # <<>>
         /\ Reverse(digits[n])[1] = Digit(0) => Len(digits[n]) = 1
         /\ \E v : Reads(v, Reverse(digits[n]), 10) /\ v[Len(Reverse(digits[n]))] = n
PROOF
  <1> DEFINE M == WORD * WORD - 1
             P(j) == /\ digits[j] \in Seq(Nat) /\ digits[j] # <<>>
                     /\ Reverse(digits[j])[1] = Digit(0) => j = 0 /\ Len(digits[j]) = 1
                     /\ \E v : Reads(v, Reverse(digits[j]), 10) /\ v[Len(Reverse(digits[j]))] = j
             T == {j \in 0 .. M : ~P(j)}
  <1>1. M \in Nat BY WordIs
  <1> SUFFICES ASSUME T # {} PROVE FALSE
    <2>1. P(n) BY <1>1
    <2> HIDE DEF T
    <2> QED BY <2>1
  <1> HIDE DEF M
  <1>2. PICK j \in T : \A l \in T : j <= l
    <2>1. T \in SUBSET Nat BY <1>1
    <2> HIDE DEF T
    <2> QED BY <2>1, LeastElement
  <1>3. j \in 0 .. M /\ ~P(j) OBVIOUS
  <1>4. digits[j] = IF j < 10 THEN <<Digit(j)>> ELSE <<Digit(j - (j \div 10) * 10)>> \o digits[j \div 10]
    BY <1>3, DigitsIs DEF M
  <1>5. CASE j < 10
    <2>1. j \in 0 .. 10 - 1 BY <1>1, <1>3, <1>5
    <2>2. <<Digit(j)>> \in Seq(Nat) /\ \E u : Reads(u, <<Digit(j)>>, 10) /\ u[Len(<<Digit(j)>>)] = j
      BY <2>1, OneDigit
    <2>3. Reverse(<<Digit(j)>>) = <<Digit(j)>>
      <3>1. Len(<<Digit(j)>>) = 1 /\ <<Digit(j)>> # <<>> /\ <<Digit(j)>>[1] = Digit(j) OBVIOUS
      <3>2. Len(Reverse(<<Digit(j)>>)) = 1 /\ Reverse(<<Digit(j)>>) \in Seq(Nat) /\ Reverse(<<Digit(j)>>)[1] = Digit(j)
        BY <2>2 DEF Reverse
      <3> QED BY <2>2, <3>1, <3>2
    <2>4. digits[j] = <<Digit(j)>> BY <1>4, <1>5
    <2>5. Digit(j) = Digit(0) => j = 0
      <3>1. j \in 0 .. 15 /\ 0 \in 0 .. 15 BY <2>1
      <3> QED BY <3>1, DigitIs, Zenon
    <2>6. Len(<<Digit(j)>>) = 1 /\ <<Digit(j)>> # <<>> /\ <<Digit(j)>>[1] = Digit(j) OBVIOUS
    <2>7. P(j) BY <2>2, <2>3, <2>4, <2>5, <2>6
    <2> QED BY <1>3, <2>7
  <1>6. CASE ~(j < 10)
    <2>1. PICK q \in Nat, d \in 0 .. 10 - 1 : q = j \div 10 /\ j = 10 * q + d /\ d = j - (j \div 10) * 10
      <3>1. j \in Nat BY <1>1, <1>3
      <3>2. j \div 10 \in Nat /\ j - (j \div 10) * 10 \in 0 .. 10 - 1 BY <3>1
      <3>3. j = 10 * (j \div 10) + (j - (j \div 10) * 10) BY <3>1, <3>2
      <3> QED BY <3>2, <3>3
    <2>2. q \in 0 .. M /\ ~(j <= q) /\ q # 0 BY <1>1, <1>3, <1>6, <2>1
    <2>3. q \notin T BY <1>2, <2>2
    <2>4. P(q) BY <2>2, <2>3
    <2>5. PICK s : s = digits[q] OBVIOUS
    <2>6. PICK r : r = Reverse(s) OBVIOUS
    <2>7. s \in Seq(Nat) /\ s # <<>> /\ r[1] # Digit(0) BY <2>2, <2>4, <2>5, <2>6
    <2>8. PICK v : Reads(v, r, 10) /\ v[Len(r)] = q BY <2>4, <2>5, <2>6
    <2>9. Digit(d) \in Nat
      <3>1. d \in 0 .. 15 BY <2>1
      <3> QED BY <3>1, DigitIs, Zenon
    <2>10. r \in Seq(Nat) /\ Len(r) = Len(s) /\ Reverse(<<Digit(d)>> \o s) = Append(r, Digit(d))
      BY <2>6, <2>7, <2>9, ReverseCons
    <2>11. /\ Append(r, Digit(d)) \in Seq(Nat)
           /\ \E u : /\ Reads(u, Append(r, Digit(d)), 10)
                     /\ u[Len(Append(r, Digit(d)))] = 10 * v[Len(r)] + d
      <3>1. 10 \in {10, 16} OBVIOUS
      <3>2. r \in Seq(Nat) BY <2>10
      <3>3. Reads(v, r, 10) BY <2>8
      <3> QED BY <3>1, <3>2, <3>3, AppendReads
    <2>12. digits[j] = <<Digit(d)>> \o s BY <1>4, <1>6, <2>1, <2>5
    <2>13. digits[j] \in Seq(Nat) /\ digits[j] # <<>> BY <2>7, <2>9, <2>12
    <2>14. Reverse(digits[j])[1] # Digit(0)
      <3>1. Len(r) >= 1 BY <2>7, <2>10
      <3>2. Append(r, Digit(d))[1] = r[1] BY <2>9, <2>10, <3>1
      <3> QED BY <2>7, <2>10, <2>12, <3>2
    <2>15. 10 * v[Len(r)] + d = j BY <2>1, <2>8
    <2>16. P(j) BY <2>10, <2>11, <2>12, <2>13, <2>14, <2>15
    <2> QED BY <1>3, <2>16
  <1> QED BY <1>5, <1>6

-----------------------------------------------------------------------------
(* Hexadecimal numbers.                                                    *)

LEMMA Division ==
  ASSUME NEW x \in Nat, NEW m \in Nat \ {0}
  PROVE  /\ x \div m \in Nat /\ x % m \in Nat /\ x % m < m
         /\ x = m * (x \div m) + (x % m)
PROOF OBVIOUS

\* A quotient is at least c when the number is at least c times the divisor.
LEMMA QuotientAtLeast ==
  ASSUME NEW x \in Nat, NEW m \in Nat \ {0}, NEW c \in Nat
  PROVE  x \div m >= c <=> x >= m * c
PROOF
  <1>1. PICK q \in Nat, r \in Nat : q = x \div m /\ r < m /\ x = m * q + r BY Division
  <1>2. m * q \in Nat /\ m * c \in Nat OBVIOUS
  <1>3. ASSUME q >= c PROVE m * q >= m * c
    <2>1. PICK d \in Nat : q = c + d
      <3>1. q - c \in Nat /\ q = c + (q - c) BY <1>3
      <3> QED BY <3>1
    <2>2. m * q = m * c + m * d /\ m * d \in Nat BY <2>1
    <2> QED BY <1>2, <2>2
  <1>4. ASSUME ~(q >= c) PROVE m * q + m <= m * c
    <2>1. PICK d \in Nat : c = q + 1 + d
      <3>1. c - q - 1 \in Nat /\ c = q + 1 + (c - q - 1) BY <1>4
      <3> QED BY <3>1
    <2>2. m * c = m * q + m + m * d /\ m * d \in Nat BY <2>1
    <2> QED BY <1>2, <2>2
  <1> QED BY <1>1, <1>2, <1>3, <1>4

LEMMA ConcatAt ==
  ASSUME NEW S, NEW s \in Seq(S), NEW t \in Seq(S)
  PROVE  \A k \in 1 .. Len(s) : (s \o t)[k] = s[k]
PROOF OBVIOUS

LEMMA TimesSixteen ==
  ASSUME NEW a \in Nat, NEW b \in Nat
  PROVE  a * (16 * b) = 16 * (a * b) /\ a * b \in Nat
PROOF OBVIOUS

\* A numeral behind another one.
LEMMA ConcatReads ==
  ASSUME NEW s \in Seq(Nat), NEW v, Reads(v, s, 16), NEW t \in Seq(Nat), NEW w, Reads(w, t, 16), Len(t) <= 8
  PROVE  /\ s \o t \in Seq(Nat) /\ Len(s \o t) = Len(s) + Len(t)
         /\ \E u : Reads(u, s \o t, 16) /\ u[Len(s \o t)] = v[Len(s)] * pow16[Len(t)] + w[Len(t)]
PROOF
  <1>0. PICK n \in Nat, m \in Nat : n = Len(s) /\ m = Len(t) OBVIOUS
  <1>1. PICK c : n = Len(s) /\ m = Len(t) /\ c = v[n] BY <1>0
  <1> DEFINE u == [k \in 0 .. n + m |-> IF k <= n THEN v[k] ELSE c * pow16[k - n] + w[k - n]]
  <1>2. PICK z : z = s \o t OBVIOUS
  <1>3. /\ z \in Seq(Nat) /\ Len(z) = n + m
        /\ \A k \in 1 .. n : z[k] = s[k]
        /\ \A k \in 1 .. m : z[n + k] = t[k]
    BY <1>1, <1>2
  <1>4. v[0] = 0 /\ (\A k \in 0 .. n : v[k] \in Nat)
        /\ \A k \in 1 .. n : \E e \in 0 .. 16 - 1 : s[k] = Digit(e) /\ v[k] = 16 * v[k - 1] + e
    BY <1>1 DEF Reads
  <1>5. w[0] = 0 /\ (\A k \in 0 .. m : w[k] \in Nat)
        /\ \A k \in 1 .. m : \E e \in 0 .. 16 - 1 : t[k] = Digit(e) /\ w[k] = 16 * w[k - 1] + e
    BY <1>1 DEF Reads
  <1>6. c \in Nat /\ m <= 8
    <2>1. n \in 0 .. n OBVIOUS
    <2> QED BY <1>1, <1>4, <2>1
  <1>7. \A k \in 0 .. n : u[k] = v[k] OBVIOUS
  <1>8. ASSUME NEW k \in 0 .. m PROVE u[n + k] = c * pow16[k] + w[k] /\ pow16[k] \in Nat
    <2>1. k \in 0 .. 8 BY <1>6
    <2>2. pow16[k] \in Nat BY <2>1, Powers16
    <2>3. CASE k = 0
      <3>1. n + k = n /\ n \in 0 .. n BY <2>3
      <3>2. u[n] = c BY <1>1, <1>7, <3>1
      <3>3. pow16[k] = 1 /\ w[k] = 0 BY <1>5, <2>3, Powers16
      <3>4. c * 1 + 0 = c BY <1>6
      <3> QED BY <2>2, <3>1, <3>2, <3>3, <3>4
    <2>4. CASE k # 0
      <3>1. n + k \in 0 .. n + m /\ ~(n + k <= n) /\ (n + k) - n = k BY <2>4
      <3> QED BY <2>2, <3>1
    <2> QED BY <2>3, <2>4
  <1> HIDE DEF u
  <1>9. ASSUME NEW k \in 0 .. n + m PROVE u[k] \in Nat
    <2>1. CASE k \in 0 .. n BY <1>4, <1>7, <2>1
    <2>2. CASE k \notin 0 .. n
      <3>1. PICK l \in 0 .. m : k = n + l
        <4>1. k - n \in 0 .. m /\ k = n + (k - n) BY <2>2
        <4> QED BY <4>1
      <3>2. PICK p \in Nat, y \in Nat : u[k] = c * p + y BY <1>5, <1>8, <3>1
      <3>3. c * p \in Nat BY <1>6
      <3> QED BY <3>2, <3>3
    <2> QED BY <2>1, <2>2
  <1>10. ASSUME NEW k \in 1 .. n + m
         PROVE  \E e \in 0 .. 16 - 1 : z[k] = Digit(e) /\ u[k] = 16 * u[k - 1] + e
    <2>1. CASE k \in 1 .. n
      <3>1. k \in 0 .. n /\ k - 1 \in 0 .. n BY <2>1
      <3>2. u[k] = v[k] /\ u[k - 1] = v[k - 1] /\ z[k] = s[k] BY <1>3, <1>7, <2>1, <3>1
      <3> QED BY <1>4, <2>1, <3>2
    <2>2. CASE k \notin 1 .. n
      <3>1. PICK l \in 1 .. m : k = n + l
        <4>1. k - n \in 1 .. m /\ k = n + (k - n) BY <2>2
        <4> QED BY <4>1
      <3>2. l \in 0 .. m /\ l - 1 \in 0 .. m /\ k - 1 = n + (l - 1) /\ l \in 1 .. 8 BY <1>6, <3>1
      <3>3. PICK e \in 0 .. 16 - 1 : t[l] = Digit(e) /\ w[l] = 16 * w[l - 1] + e BY <1>5, <3>1
      <3>4. PICK p : p = pow16[l - 1] OBVIOUS
      <3>5. u[k] = c * pow16[l] + w[l] BY <1>8, <3>1, <3>2
      <3>6. u[k - 1] = c * p + w[l - 1] /\ p \in Nat /\ w[l - 1] \in Nat BY <1>5, <1>8, <3>2, <3>4
      <3>7. pow16[l] = 16 * p BY <3>2, <3>4, Powers16
      <3>8. c * (16 * p) = 16 * (c * p) /\ c * p \in Nat BY <1>6, <3>6, TimesSixteen
      <3>9. u[k] = 16 * u[k - 1] + e BY <3>3, <3>5, <3>6, <3>7, <3>8
      <3>10. z[k] = t[l] BY <1>3, <3>1
      <3> QED BY <3>3, <3>9, <3>10
    <2> QED BY <2>1, <2>2
  <1>11. u[0] = 0
    <2>1. 0 \in 0 .. n OBVIOUS
    <2> QED BY <1>4, <1>7, <2>1
  <1>12. Reads(u, z, 16) BY <1>3, <1>9, <1>10, <1>11 DEF Reads
  <1>13. u[Len(z)] = v[Len(s)] * pow16[Len(t)] + w[Len(t)]
    <2>1. m \in 0 .. m OBVIOUS
    <2>2. u[n + m] = c * pow16[m] + w[m] BY <1>8, <2>1
    <2> QED BY <1>1, <1>3, <2>2
  <1> QED BY <1>1, <1>2, <1>3, <1>12, <1>13

\* itox_from up to m digits, of which g is the shorter ones.
ItoxStep(g, k) ==
  [number \in 0 .. WORD - 1 |->
     IF k < 0 THEN <<>>
     ELSE <<Digit(number \div pow16[k])>> \o g[k - 1][number - (number \div pow16[k]) * pow16[k]]]

ItoxUpTo(m, g) == g = [k \in -1 .. m |-> ItoxStep(g, k)]

LEMMA ItoxStepSame ==
  ASSUME NEW k \in Int, NEW g, NEW h, ~(k < 0) => g[k - 1] = h[k - 1]
  PROVE  ItoxStep(g, k) = ItoxStep(h, k)
PROOF
  <1>1. CASE k < 0 BY <1>1, Zenon DEF ItoxStep
  <1>2. CASE ~(k < 0)
    <2>1. g[k - 1] = h[k - 1] BY <1>2
    <2> QED BY <2>1 DEF ItoxStep
  <1> QED BY <1>1, <1>2

LEMMA ItoxExists ==
  ASSUME NEW m \in Nat
  PROVE  \E g : ItoxUpTo(m - 1, g)
PROOF
  <1> DEFINE T == {j \in Nat : ~ \E g : ItoxUpTo(j - 1, g)}
  <1> SUFFICES ASSUME T # {} PROVE FALSE OBVIOUS
  <1>1. PICK j \in T : \A n \in T : j <= n
    <2>1. T \in SUBSET Nat OBVIOUS
    <2> HIDE DEF T
    <2> QED BY <2>1, LeastElement
  <1>2. j \in Nat /\ ~ \E g : ItoxUpTo(j - 1, g) OBVIOUS
  <1>3. \E h : \A k \in -1 .. j - 2 : h[k] = ItoxStep(h, k)
    <2>1. CASE j = 0 BY <2>1
    <2>2. CASE j # 0
      <3>1. j - 1 \in Nat /\ j - 1 \notin T /\ (j - 1) - 1 = j - 2 BY <1>1, <1>2, <2>2
      <3>2. PICK h : ItoxUpTo(j - 2, h) BY <3>1
      <3> QED BY <3>2 DEF ItoxUpTo
    <2> QED BY <2>1, <2>2
  <1>4. PICK h : \A k \in -1 .. j - 2 : h[k] = ItoxStep(h, k) BY <1>3
  <1> DEFINE g == [k \in -1 .. j - 1 |-> ItoxStep(h, k)]
  <1>5. ASSUME NEW k \in -1 .. j - 1 PROVE ItoxStep(h, k) = ItoxStep(g, k)
    <2>1. ASSUME ~(k < 0) PROVE h[k - 1] = g[k - 1]
      <3>1. k - 1 \in -1 .. j - 1 /\ k - 1 \in -1 .. j - 2 BY <1>2, <2>1
      <3> QED BY <1>4, <3>1
    <2>2. k \in Int OBVIOUS
    <2> HIDE DEF g
    <2> QED BY <2>1, <2>2, ItoxStepSame
  <1>6. g = [k \in -1 .. j - 1 |-> ItoxStep(g, k)] BY <1>5, Zenon
  <1> HIDE DEF g
  <1>7. ItoxUpTo(j - 1, g) BY <1>6 DEF ItoxUpTo
  <1> QED BY <1>2, <1>7

LEMMA ItoxIs ==
  ASSUME NEW k \in -1 .. 7, NEW number \in 0 .. WORD - 1
  PROVE  itox_from[k][number] =
           IF k < 0 THEN <<>>
           ELSE <<Digit(number \div pow16[k])>> \o itox_from[k - 1][number - (number \div pow16[k]) * pow16[k]]
PROOF
  <1>1. 8 \in Nat /\ 8 - 1 = 7 OBVIOUS
  <1>2. \E g : ItoxUpTo(7, g) BY <1>1, ItoxExists
  <1>3. ItoxUpTo(7, itox_from) BY <1>2, Zenon DEF itox_from, ItoxUpTo, ItoxStep
  <1>4. itox_from[k] = ItoxStep(itox_from, k) BY <1>3 DEF ItoxUpTo
  <1> QED BY <1>4 DEF ItoxStep

\* The numbers of one digit less are smaller.
LEMMA HigherPowers ==
  ASSUME NEW k \in 0 .. 8, NEW l \in 0 .. 8, k < l
  PROVE  pow16[k] < pow16[l]
PROOF
  <1> DEFINE T == {j \in 0 .. 8 : k < j /\ ~(pow16[k] < pow16[j])}
  <1> SUFFICES ASSUME T # {} PROVE FALSE OBVIOUS
  <1>1. PICK j \in T : \A n \in T : j <= n
    <2>1. T \in SUBSET Nat OBVIOUS
    <2> HIDE DEF T
    <2> QED BY <2>1, LeastElement
  <1>2. j \in 1 .. 8 /\ j \in 0 .. 8 /\ j - 1 \in 0 .. 8 /\ k < j /\ ~(pow16[k] < pow16[j]) OBVIOUS
  <1>3. PICK p \in Nat \ {0}, q \in Nat \ {0} : p = pow16[k] /\ q = pow16[j - 1] /\ pow16[j] = 16 * q
    BY <1>2, Powers16
  <1>4. k = j - 1 \/ p < q
    <2>1. CASE k # j - 1
      <3>1. k < j - 1 /\ j - 1 \notin T BY <1>1, <1>2, <2>1
      <3> QED BY <1>2, <1>3, <3>1
    <2> QED BY <2>1
  <1>5. p < 16 * q BY <1>3, <1>4
  <1> QED BY <1>2, <1>3, <1>5

\* What the second loop of itox prints, from the digit k down.
HexReads(k, number) ==
  LET t == itox_from[k][number]
  IN  /\ t \in Seq(Nat) /\ Len(t) = k + 1
      /\ \E v : Reads(v, t, 16) /\ v[k + 1] = number
      /\ k >= 0 => t[1] = Digit(number \div pow16[k])

LEMMA HexBase ==
  ASSUME NEW number \in 0 .. WORD - 1, number < pow16[0]
  PROVE  HexReads(-1, number)
PROOF
  <1> DEFINE v == [k \in 0 .. 0 |-> 0]
  <1>1. number = 0 BY WordIs, Powers16
  <1>2. itox_from[-1][number] = <<>>
    <2>1. -1 \in -1 .. 7 /\ -1 < 0 OBVIOUS
    <2> QED BY <2>1, ItoxIs
  <1>3. <<>> \in Seq(Nat) /\ Len(<<>>) = 0 /\ -1 + 1 = 0 /\ ~(-1 >= 0) OBVIOUS
  <1>4. v[0] = 0 OBVIOUS
  <1> HIDE DEF v
  <1>5. Reads(v, <<>>, 16) BY <1>3, <1>4 DEF Reads
  <1> QED BY <1>1, <1>2, <1>3, <1>4, <1>5 DEF HexReads

LEMMA HexStep ==
  ASSUME NEW k \in 0 .. 7, NEW number \in 0 .. WORD - 1, number < pow16[k + 1],
         \A n \in 0 .. WORD - 1 : n < pow16[k] => HexReads(k - 1, n)
  PROVE  HexReads(k, number)
PROOF
  <1>1. k \in 0 .. 8 /\ k + 1 \in 1 .. 8 /\ (k + 1) - 1 = k /\ k \in -1 .. 7 OBVIOUS
  <1>2. PICK p \in Nat \ {0} : p = pow16[k] /\ pow16[k + 1] = 16 * p BY <1>1, Powers16
  <1>3. number \in Nat /\ WORD \in Nat BY WordIs
  <1>4. PICK q \in Nat, r \in Nat : q = number \div p /\ r < p /\ number = p * q + r
    <2>1. /\ number \div p \in Nat /\ number % p \in Nat /\ number % p < p
          /\ number = p * (number \div p) + (number % p)
      BY <1>2, <1>3, Division, Zenon
    <2> QED BY <2>1, Zenon
  <1>5. q \in 0 .. 15
    <2>1. ~(number >= p * 16) BY <1>2, <1>3
    <2>2. 16 \in Nat /\ ~(q >= 16) BY <1>3, <1>4, <2>1, QuotientAtLeast
    <2> QED BY <1>4, <2>2
  <1>6. p * q \in Nat /\ p * q = q * p BY <1>2, <1>4
  <1>7. r \in 0 .. WORD - 1 BY <1>3, <1>4, <1>6
  <1>8. number - q * p = r BY <1>3, <1>4, <1>6
  <1>9. HexReads(k - 1, r) BY <1>2, <1>4, <1>7
  <1>10. PICK t : t = itox_from[k - 1][r] OBVIOUS
  <1>11. t \in Seq(Nat) /\ Len(t) = k /\ \E w : Reads(w, t, 16) /\ w[k] = r
    <2>1. (k - 1) + 1 = k OBVIOUS
    <2> QED BY <1>9, <1>10, <2>1 DEF HexReads
  <1>12. PICK w : Reads(w, t, 16) /\ w[k] = r BY <1>11
  <1>13. PICK s : s = <<Digit(q)>> OBVIOUS
  <1>14. s \in Seq(Nat) /\ Len(s) = 1 /\ s[1] = Digit(q) /\ \E v : Reads(v, s, 16) /\ v[Len(s)] = q
    <2>1. 16 \in {10, 16} /\ q \in 0 .. 16 - 1 BY <1>5
    <2>2. <<Digit(q)>> \in Seq(Nat) /\ \E u : Reads(u, <<Digit(q)>>, 16) /\ u[Len(<<Digit(q)>>)] = q
      BY <2>1, OneDigit
    <2> QED BY <1>13, <2>2
  <1>15. PICK v : Reads(v, s, 16) /\ v[Len(s)] = q BY <1>14
  <1>16. /\ s \o t \in Seq(Nat) /\ Len(s \o t) = Len(s) + Len(t)
         /\ \E u : Reads(u, s \o t, 16) /\ u[Len(s \o t)] = v[Len(s)] * pow16[Len(t)] + w[Len(t)]
    <2>1. Len(t) <= 8 BY <1>1, <1>11
    <2>2. s \in Seq(Nat) /\ t \in Seq(Nat) /\ Reads(v, s, 16) /\ Reads(w, t, 16) BY <1>11, <1>12, <1>14, <1>15
    <2>3. s \in Seq(Nat) BY <2>2
    <2>4. t \in Seq(Nat) BY <2>2
    <2>5. Reads(v, s, 16) BY <2>2
    <2>6. Reads(w, t, 16) BY <2>2
    <2> QED BY <2>1, <2>3, <2>4, <2>5, <2>6, ConcatReads
  <1>17. v[Len(s)] * pow16[Len(t)] + w[Len(t)] = number BY <1>2, <1>4, <1>6, <1>11, <1>12, <1>15
  <1>18. Len(s \o t) = k + 1 BY <1>11, <1>14, <1>16
  <1>19. itox_from[k][number] = s \o t
    <2>1. itox_from[k][number]
            = <<Digit(number \div pow16[k])>> \o itox_from[k - 1][number - (number \div pow16[k]) * pow16[k]]
      <3>1. ~(k < 0) OBVIOUS
      <3> QED BY <1>1, <3>1, ItoxIs, Zenon
    <2> QED BY <1>2, <1>4, <1>8, <1>10, <1>13, <2>1
  <1>20. (s \o t)[1] = Digit(q)
    <2>1. 1 \in 1 .. Len(s) BY <1>14
    <2>2. (s \o t)[1] = s[1] BY <1>11, <1>14, <2>1, ConcatAt
    <2> QED BY <1>14, <2>2
  <1> QED BY <1>2, <1>4, <1>16, <1>17, <1>18, <1>19, <1>20 DEF HexReads

LEMMA HexDigits ==
  ASSUME NEW k \in -1 .. 7, NEW number \in 0 .. WORD - 1, number < pow16[k + 1]
  PROVE  HexReads(k, number)
PROOF
  <1> DEFINE T == {j \in 0 .. 8 : ~ \A n \in 0 .. WORD - 1 : n < pow16[j] => HexReads(j - 1, n)}
  <1> SUFFICES ASSUME T # {} PROVE FALSE
    <2>1. k + 1 \in 0 .. 8 /\ (k + 1) - 1 = k OBVIOUS
    <2>2. \A n \in 0 .. WORD - 1 : n < pow16[k + 1] => HexReads((k + 1) - 1, n) BY <2>1
    <2> QED BY <2>1, <2>2
  <1>1. PICK j \in T : \A n \in T : j <= n
    <2>1. T \in SUBSET Nat OBVIOUS
    <2> HIDE DEF T
    <2> QED BY <2>1, LeastElement
  <1>2. j \in 0 .. 8 /\ ~ \A n \in 0 .. WORD - 1 : n < pow16[j] => HexReads(j - 1, n) OBVIOUS
  <1>3. CASE j = 0
    <2>1. j - 1 = -1 BY <1>3
    <2> QED BY <1>2, <1>3, <2>1, HexBase
  <1>4. CASE j # 0
    <2>1. j - 1 \in 0 .. 7 /\ j - 1 \in 0 .. 8 /\ (j - 1) + 1 = j /\ ~(j <= j - 1) BY <1>2, <1>4
    <2>2. j - 1 \notin T BY <1>1, <2>1
    <2>3. \A n \in 0 .. WORD - 1 : n < pow16[j - 1] => HexReads((j - 1) - 1, n) BY <2>1, <2>2
    <2> HIDE DEF T
    <2>4. \A n \in 0 .. WORD - 1 : n < pow16[j] => HexReads(j - 1, n) BY <2>1, <2>3, HexStep
    <2> QED BY <1>2, <2>4
  <1> QED BY <1>3, <1>4

\* The first loop of itox: the shift leaves one digit, which is not zero unless
\* it is the only one.
LEMMA ShiftIs ==
  ASSUME NEW number \in 0 .. WORD - 1
  PROVE  /\ shift(number) \in 0 .. 7
         /\ number < pow16[shift(number) + 1]
         /\ shift(number) > 0 => pow16[shift(number)] <= number
PROOF
  <1> DEFINE One(k) == number \div pow16[k] <= 15
             T == {k \in 0 .. 7 : One(k)}
  <1>1. number \in Nat /\ WORD \in Nat BY WordIs
  <1>2. ASSUME NEW k \in 0 .. 7
        PROVE  /\ One(k) <=> number < pow16[k + 1]
               /\ number \div pow16[k] \in Nat
    <2>1. k \in 0 .. 8 /\ k + 1 \in 1 .. 8 /\ (k + 1) - 1 = k OBVIOUS
    <2>2. PICK p \in Nat \ {0} : p = pow16[k] /\ pow16[k + 1] = 16 * p BY <2>1, Powers16
    <2>3. 16 \in Nat OBVIOUS
    <2>4. number \div p >= 16 <=> number >= p * 16 BY <1>1, <2>2, <2>3, QuotientAtLeast, Zenon
    <2>5. number \div p \in Nat BY <1>1, <2>2, Division, Zenon
    <2> QED BY <1>1, <2>2, <2>4, <2>5
  <1>3. PICK w \in 2 .. 8 : WORD = pow16[w] BY WordIs
  <1>4. w - 1 \in T
    <2>1. w - 1 \in 0 .. 7 /\ (w - 1) + 1 = w BY <1>3
    <2>2. number < pow16[(w - 1) + 1] BY <1>1, <1>3, <2>1
    <2> QED BY <1>2, <2>1, <2>2
  <1>5. PICK k \in T : \A n \in T : k <= n
    <2>1. T \in SUBSET Nat OBVIOUS
    <2> HIDE DEF T
    <2> QED BY <1>4, <2>1, LeastElement
  <1>6. k \in 0 .. 7 /\ One(k) OBVIOUS
  <1>7. \A j \in 0 .. k - 1 : number \div pow16[j] > 15
    <2> TAKE j \in 0 .. k - 1
    <2>1. j \in 0 .. 7 /\ ~(k <= j) BY <1>6
    <2>2. ~One(j) BY <1>5, <2>1
    <2>3. number \div pow16[j] \in Nat BY <1>2, <2>1
    <2> QED BY <2>2, <2>3
  <1>8. \E x \in 0 .. 7 : number \div pow16[x] <= 15 /\ \A j \in 0 .. x - 1 : number \div pow16[j] > 15
    BY <1>6, <1>7
  <1>9. PICK x : x = shift(number) OBVIOUS
  <1>10. x \in 0 .. 7 /\ number \div pow16[x] <= 15 /\ \A j \in 0 .. x - 1 : number \div pow16[j] > 15
    BY <1>8, <1>9, Zenon DEF shift
  <1>11. number < pow16[x + 1] BY <1>2, <1>10
  <1>12. ASSUME x > 0 PROVE pow16[x] <= number
    <2>1. x - 1 \in 0 .. x - 1 /\ x - 1 \in 0 .. 7 /\ (x - 1) + 1 = x BY <1>10, <1>12
    <2>2. number \div pow16[x - 1] > 15 /\ number \div pow16[x - 1] \in Nat BY <1>2, <1>10, <2>1
    <2>3. ~One(x - 1) BY <2>2
    <2>4. ~(number < pow16[x]) BY <1>2, <2>1, <2>3
    <2>5. pow16[x] \in Nat
      <3>1. x \in 0 .. 8 BY <1>10
      <3> QED BY <3>1, Powers16
    <2> QED BY <1>1, <2>4, <2>5
  <1> QED BY <1>9, <1>10, <1>11, <1>12

\* What itox prints: the digits of the number, with no zero in front.
LEMMA HexadecimalReads ==
  ASSUME NEW number \in 0 .. WORD - 1
  PROVE  /\ itox(number) \in Seq(Nat) /\ Len(itox(number)) \in 1 .. 8
         /\ \E v : Reads(v, itox(number), 16) /\ v[Len(itox(number))] = number
         /\ number < pow16[Len(itox(number))]
         /\ Len(itox(number)) > 1 => pow16[Len(itox(number)) - 1] <= number
         /\ itox(number)[1] = Digit(0) <=> number = 0
PROOF
  <1>1. PICK k : k = shift(number) OBVIOUS
  <1>2. k \in 0 .. 7 /\ number < pow16[k + 1] /\ (k > 0 => pow16[k] <= number) BY <1>1, ShiftIs
  <1>3. PICK t : t = itox(number) OBVIOUS
  <1>4. t = itox_from[k][number] BY <1>1, <1>3 DEF itox
  <1>5. k \in -1 .. 7 /\ k >= 0 BY <1>2
  <1>6. HexReads(k, number) BY <1>2, <1>5, HexDigits
  <1>7. /\ t \in Seq(Nat) /\ Len(t) = k + 1 /\ t[1] = Digit(number \div pow16[k])
        /\ \E v : Reads(v, t, 16) /\ v[k + 1] = number
    BY <1>4, <1>5, <1>6 DEF HexReads
  <1>8. Len(t) - 1 = k /\ Len(t) \in 1 .. 8 BY <1>2, <1>7
  <1>9. t[1] = Digit(0) <=> number = 0
    <2>1. number \in Nat /\ 1 \in Nat /\ 16 \in Nat BY WordIs
    <2>2. PICK p \in Nat \ {0} : p = pow16[k] /\ pow16[k + 1] = 16 * p
      <3>1. k \in 0 .. 8 /\ k + 1 \in 1 .. 8 /\ (k + 1) - 1 = k BY <1>2
      <3> QED BY <3>1, Powers16
    <2>3. PICK q : q = number \div p OBVIOUS
    <2>4. q \in Nat BY <2>1, <2>2, <2>3, Division, Zenon
    <2>5. q >= 1 <=> number >= p * 1 BY <2>1, <2>2, <2>3, QuotientAtLeast, Zenon
    <2>6. q >= 16 <=> number >= p * 16 BY <2>1, <2>2, <2>3, QuotientAtLeast, Zenon
    <2>7. q \in 0 .. 15 /\ 0 \in 0 .. 15 BY <1>2, <2>1, <2>2, <2>4, <2>6
    <2>8. Digit(q) = Digit(0) <=> q = 0 BY <2>7, DigitIs, Zenon
    <2>9. k = 0 => p = 1 BY <2>2, Powers16
    <2>10. q = 0 <=> number = 0 BY <1>2, <2>1, <2>2, <2>4, <2>5, <2>9
    <2> QED BY <1>7, <2>2, <2>3, <2>8, <2>10
  <1> QED BY <1>2, <1>3, <1>7, <1>8, <1>9

-----------------------------------------------------------------------------
(* The texts that vfprint gives to putchar.                                *)

Byte == 1 .. 255

LEMMA DigitBytes == \A d \in 0 .. 15 : Digit(d) \in Byte
PROOF BY DEF Digit, Ascii, Byte

LEMMA ReadsBytes ==
  ASSUME NEW base \in {10, 16}, NEW t \in Seq(Nat), NEW v, Reads(v, t, base)
  PROVE  t \in Seq(Byte)
PROOF
  <1>1. Len(t) \in Nat /\ t = [k \in 1 .. Len(t) |-> t[k]] OBVIOUS
  <1>2. ASSUME NEW k \in 1 .. Len(t) PROVE t[k] \in Byte
    <2>1. PICK d \in 0 .. base - 1 : t[k] = Digit(d) BY DEF Reads
    <2>2. d \in 0 .. 15
      <3>1. base = 10 \/ base = 16 OBVIOUS
      <3> QED BY <3>1
    <2>3. Digit(d) \in Byte BY <2>2, DigitBytes
    <2> QED BY <2>1, <2>3
  <1> QED BY <1>1, <1>2

\* The loop stops before the first null character.
LEMMA UpToNulIs ==
  ASSUME NEW t \in Seq(Byte), NEW g \in 0 .. 255
  PROVE  /\ UpToNul(t) = t
         /\ UpToNul(Append(t, g)) = (IF g = 0 THEN t ELSE Append(t, g))
PROOF
  <1> DEFINE I(s) == {k \in 1 .. Len(s) : s[k] = Nul}
  <1>1. \A s : Printed(s) = IF I(s) # {} THEN Min(I(s)) ELSE 0 BY Zenon DEF Printed, SelectInSeq
  <1>2. Len(t) \in Nat /\ \A k \in 1 .. Len(t) : t[k] # Nul
    <2>1. \A x \in Byte : x # Nul BY DEF Byte, Nul
    <2>2. \A k \in 1 .. Len(t) : t[k] \in Byte OBVIOUS
    <2> QED BY <2>1, <2>2
  <1>3. UpToNul(t) = t
    <2>1. I(t) = {} BY <1>2
    <2>2. Printed(t) = 0 BY <1>1, <2>1, Zenon
    <2> QED BY <2>2 DEF UpToNul
  <1>4. PICK s : s = Append(t, g) OBVIOUS
  <1>5. Len(s) = Len(t) + 1 /\ s[Len(t) + 1] = g /\ s \in Seq(0 .. 255) /\ \A k \in 1 .. Len(t) : s[k] = t[k]
    <2>1. t \in Seq(0 .. 255)
      <3>1. \A x \in Byte : x \in 0 .. 255 BY DEF Byte
      <3> QED BY <3>1
    <2> QED BY <1>2, <1>4, <2>1
  <1>6. CASE g = 0
    <2>1. I(s) = {Len(t) + 1} BY <1>2, <1>5, <1>6 DEF Nul
    <2>2. Min({Len(t) + 1}) = Len(t) + 1 BY <1>2 DEF Min
    <2>3. Printed(s) = Len(t) + 1 BY <1>1, <2>1, <2>2, Zenon
    <2>4. UpToNul(s) = SubSeq(s, 1, Len(t)) BY <1>2, <2>3 DEF UpToNul
    <2>5. SubSeq(s, 1, Len(t)) = t BY <1>2, <1>5
    <2> QED BY <1>3, <1>4, <1>6, <2>4, <2>5
  <1>7. CASE g # 0
    <2>1. I(s) = {} BY <1>2, <1>5, <1>7 DEF Nul
    <2>2. Printed(s) = 0 BY <1>1, <2>1, Zenon
    <2>3. UpToNul(s) = s BY <2>2 DEF UpToNul
    <2> QED BY <1>3, <1>4, <1>7, <2>3
  <1> QED BY <1>6, <1>7

LEMMA DecimalText ==
  ASSUME NEW n \in 0 .. WORD * WORD - 1
  PROVE  LET t == Reverse(digits[n]) IN t \in Seq(Byte) /\ t # <<>> /\ IsNumeral(t, n, 10)
PROOF
  <1>1. PICK s : s = digits[n] OBVIOUS
  <1>2. PICK t : t = Reverse(s) OBVIOUS
  <1>3. s \in Seq(Nat) /\ s # <<>> /\ (t[1] = Digit(0) => Len(s) = 1) BY <1>1, <1>2, DecimalReads
  <1>4. PICK v : Reads(v, t, 10) /\ v[Len(t)] = n BY <1>1, <1>2, DecimalReads
  <1>5. t \in Seq(Nat) /\ Len(t) = Len(s)
    <2>1. 0 \in Nat OBVIOUS
    <2> QED BY <1>2, <1>3, <2>1, ReverseCons
  <1>6. t # <<>> BY <1>3, <1>5
  <1>7. 10 \in {10, 16} OBVIOUS
  <1>8. t \in Seq(Byte) BY <1>4, <1>5, <1>7, ReadsBytes
  <1>9. IsNumeral(t, n, 10) <=> Plain(t) /\ (Len(t) > 1 => t[1] # Digit(0)) /\ v[Len(t)] = n
    BY <1>4, <1>5, <1>6, <1>7, NumeralIs
  <1>10. IsNumeral(t, n, 10)
    <2>1. Len(s) = 1 => ~(Len(t) > 1) BY <1>5
    <2>2. Len(t) > 1 => t[1] # Digit(0) BY <1>3, <2>1, Zenon
    <2>3. Plain(t)
      <3>1. 10 - 1 = 9 OBVIOUS
      <3> QED BY <1>4, <3>1 DEF Plain, Reads
    <2> QED BY <1>4, <1>9, <2>2, <2>3
  <1> QED BY <1>1, <1>2, <1>6, <1>8, <1>10

\* The letters of a hexadecimal numeral are the digits of the number above 9.
LEMMA PlainIs ==
  ASSUME NEW t \in Seq(Nat), Len(t) \in 0 .. 8, NEW v, Reads(v, t, 16), NEW n \in Nat, v[Len(t)] = n
  PROVE  Plain(t) <=> ~HasLetter(n)
PROOF
  <1>1. PICK m \in 0 .. 8 : m = Len(t) OBVIOUS
  <1>2. v[0] = 0 /\ v[m] = n /\ \A k \in 0 .. m : v[k] \in Nat BY <1>1 DEF Reads
  <1>3. \A k \in 1 .. m : \E d \in 0 .. 15 : t[k] = Digit(d) /\ v[k] = 16 * v[k - 1] + d
    <2>1. 16 - 1 = 15 OBVIOUS
    <2> QED BY <1>1, <2>1 DEF Reads
  <1>4. \A k \in 0 .. m : v[m - k] = n \div pow16[k]
    <2> DEFINE T == {k \in 0 .. m : v[m - k] # n \div pow16[k]}
    <2> SUFFICES ASSUME T # {} PROVE FALSE OBVIOUS
    <2>1. PICK k \in T : \A j \in T : k <= j
      <3>1. T \in SUBSET Nat OBVIOUS
      <3> HIDE DEF T
      <3> QED BY <3>1, LeastElement
    <2>2. k \in 0 .. m /\ v[m - k] # n \div pow16[k] OBVIOUS
    <2>3. k # 0
      <3>1. n \div 1 = n /\ m - 0 = m OBVIOUS
      <3> QED BY <1>2, <2>2, <3>1, Powers16
    <2>4. k - 1 \in 0 .. m /\ ~(k <= k - 1) /\ k \in 1 .. 8 /\ k - 1 \in 0 .. 8 BY <2>2, <2>3
    <2>5. v[m - (k - 1)] = n \div pow16[k - 1] BY <2>1, <2>4
    <2>6. PICK p \in Nat \ {0} : p = pow16[k - 1] /\ pow16[k] = 16 * p BY <2>4, Powers16
    <2>7. PICK j \in 1 .. m : j = m - (k - 1) /\ j - 1 = m - k BY <2>2, <2>4
    <2>8. PICK d \in 0 .. 15 : v[j] = 16 * v[j - 1] + d BY <1>3
    <2>9. v[j - 1] \in Nat
      <3>1. j - 1 \in 0 .. m OBVIOUS
      <3> QED BY <1>2, <3>1
    <2>10. v[j - 1] = n \div (16 * p)
      <3>1. PICK q \in Nat, r \in Nat : q = n \div p /\ r < p /\ n = p * q + r BY Division
      <3>2. PICK x \in Nat : x = v[j - 1] BY <2>9
      <3>3. q = 16 * x + d BY <2>5, <2>6, <2>7, <2>8, <3>1, <3>2
      <3>4. PICK b \in Nat \ {0} : b = 16 * p OBVIOUS
      <3>5. PICK y \in Nat : y = p * d + r OBVIOUS
      <3>6. n = b * x + y
        <4>1. p * q = p * (16 * x) + p * d BY <3>3
        <4>2. p * (16 * x) = b * x BY <3>4
        <4>3. p * q \in Nat /\ b * x \in Nat /\ p * d \in Nat OBVIOUS
        <4>4. PICK f \in Nat, g \in Nat, e \in Nat : f = p * q /\ g = b * x /\ e = p * d BY <4>3
        <4>5. f = g + e /\ n = f + r /\ y = e + r BY <3>1, <3>5, <4>1, <4>2, <4>4
        <4>6. n = g + y BY <4>4, <4>5
        <4> QED BY <4>4, <4>6
      <3>7. y < b
        <4>1. p * d <= p * 15
          <5>1. PICK e \in Nat : 15 = d + e
            <6>1. 15 - d \in Nat /\ 15 = d + (15 - d) OBVIOUS
            <6> QED BY <6>1
          <5>2. p * 15 = p * d + p * e /\ p * e \in Nat /\ p * d \in Nat BY <5>1
          <5> QED BY <5>2
        <4> QED BY <3>1, <3>4, <3>5, <4>1
      <3>8. n \div b = x
        <4>1. b * x \in Nat /\ b * (x + 1) = b * x + b OBVIOUS
        <4>2. n >= b * x /\ ~(n >= b * (x + 1)) BY <3>6, <3>7, <4>1
        <4>3. x + 1 \in Nat OBVIOUS
        <4>4. n \div b \in Nat BY <3>4, Division
        <4>5. n \div b >= x /\ ~(n \div b >= x + 1) BY <3>4, <4>2, <4>3, QuotientAtLeast
        <4> QED BY <4>4, <4>5
      <3> QED BY <3>2, <3>4, <3>8
    <2> QED BY <2>2, <2>6, <2>7, <2>10
  <1>5. ASSUME NEW k \in 0 .. m - 1
        PROVE  \E d \in 0 .. 15 : t[m - k] = Digit(d) /\ (n \div pow16[k]) % 16 = d
    <2>1. PICK j \in 1 .. m : j = m - k OBVIOUS
    <2>2. PICK d \in 0 .. 15 : t[j] = Digit(d) /\ v[j] = 16 * v[j - 1] + d BY <1>3
    <2>3. v[j - 1] \in Nat
      <3>1. j - 1 \in 0 .. m OBVIOUS
      <3> QED BY <1>2, <3>1
    <2>4. v[j] % 16 = d
      <3>1. PICK x \in Nat : x = v[j - 1] BY <2>3
      <3>2. (16 * x + d) % 16 = d OBVIOUS
      <3> QED BY <2>2, <3>1, <3>2
    <2>5. v[j] = n \div pow16[k] BY <1>4, <2>1
    <2> QED BY <2>1, <2>2, <2>4, <2>5
  <1>6. ASSUME NEW k \in 0 .. 7, ~(k < m) PROVE (n \div pow16[k]) % 16 = 0
    <2>1. k \in 0 .. 8 /\ m \in 0 .. 8 /\ m - m = 0 /\ m \in 0 .. m /\ (m = k \/ m < k) BY <1>6
    <2>2. n \div pow16[m] = 0 BY <1>2, <1>4, <2>1
    <2>3. PICK p \in Nat \ {0}, q \in Nat \ {0} : p = pow16[m] /\ q = pow16[k] BY <2>1, Powers16
    <2>4. p <= q
      <3>1. CASE m = k BY <2>3, <3>1
      <3>2. CASE m < k
        <4>1. p < q BY <2>1, <2>3, <3>2, HigherPowers
        <4> QED BY <4>1
      <3> QED BY <2>1, <3>1, <3>2
    <2>5. 1 \in Nat /\ (n \div p >= 1 <=> n >= p * 1) /\ (n \div q >= 1 <=> n >= q * 1)
      <3>1. 1 \in Nat OBVIOUS
      <3> QED BY <2>3, <3>1, QuotientAtLeast
    <2>6. n < p BY <2>2, <2>3, <2>5
    <2>7. n \div q \in Nat /\ ~(n \div q >= 1)
      <3>1. n \div q \in Nat BY <2>3, Division
      <3> QED BY <2>4, <2>5, <2>6, <3>1
    <2>8. n \div q = 0 BY <2>7
    <2> QED BY <2>3, <2>8
  <1>7. ASSUME Plain(t), NEW k \in 0 .. 7 PROVE ~((n \div pow16[k]) % 16 > 9)
    <2>1. CASE k < m
      <3>1. k \in 0 .. m - 1 /\ m - k \in 1 .. m BY <2>1
      <3>2. PICK d \in 0 .. 15 : t[m - k] = Digit(d) /\ (n \div pow16[k]) % 16 = d BY <1>5, <3>1
      <3>3. PICK e \in 0 .. 9 : t[m - k] = Digit(e) BY <1>1, <1>7, <3>1 DEF Plain
      <3>4. e \in 0 .. 15 OBVIOUS
      <3>5. Digit(d) = Digit(e) BY <3>2, <3>3
      <3>6. d = e
        <4>1. d \in 0 .. 15 OBVIOUS
        <4> QED BY <3>4, <3>5, <4>1, DigitIs, Zenon
      <3> QED BY <3>2, <3>6
    <2>2. CASE ~(k < m)
      <3>1. (n \div pow16[k]) % 16 = 0 BY <1>6, <2>2
      <3> QED BY <3>1
    <2> QED BY <2>1, <2>2
  <1>8. ASSUME \A k \in 0 .. 7 : ~((n \div pow16[k]) % 16 > 9), NEW j \in 1 .. m
        PROVE  \E d \in 0 .. 9 : t[j] = Digit(d)
    <2>1. PICK k \in 0 .. m - 1 : m - k = j /\ k \in 0 .. 7
      <3>1. m - j \in 0 .. m - 1 /\ m - (m - j) = j /\ m - j \in 0 .. 7 OBVIOUS
      <3> QED BY <3>1
    <2>2. PICK d \in 0 .. 15 : t[j] = Digit(d) /\ (n \div pow16[k]) % 16 = d BY <1>5, <2>1
    <2>3. ~(d > 9) BY <1>8, <2>1, <2>2
    <2>4. d \in 0 .. 9 BY <2>3
    <2> QED BY <2>2, <2>4
  <1> QED BY <1>1, <1>7, <1>8 DEF Plain, HasLetter

LEMMA HexadecimalText ==
  ASSUME NEW n \in 0 .. WORD - 1
  PROVE  itox(n) \in Seq(Byte) /\ itox(n) # <<>> /\ (IsNumeral(itox(n), n, 16) <=> ~HasLetter(n))
PROOF
  <1>1. PICK t : t = itox(n) OBVIOUS
  <1>2. /\ t \in Seq(Nat) /\ Len(t) \in 1 .. 8
        /\ Len(t) > 1 => pow16[Len(t) - 1] <= n
        /\ t[1] = Digit(0) <=> n = 0
    BY <1>1, HexadecimalReads
  <1>3. PICK v : Reads(v, t, 16) /\ v[Len(t)] = n BY <1>1, HexadecimalReads
  <1>4. 16 \in {10, 16} /\ t # <<>> BY <1>2
  <1>5. t \in Seq(Byte) BY <1>2, <1>3, <1>4, ReadsBytes
  <1>6. IsNumeral(t, n, 16) <=> Plain(t) /\ (Len(t) > 1 => t[1] # Digit(0)) /\ v[Len(t)] = n
    BY <1>2, <1>3, <1>4, NumeralIs
  <1>7. ASSUME Len(t) > 1 PROVE t[1] # Digit(0)
    <2>1. Len(t) - 1 \in 0 .. 8 BY <1>2, <1>7
    <2>2. pow16[Len(t) - 1] \in Nat \ {0} BY <2>1, Powers16
    <2>3. n \in Nat BY WordIs
    <2> QED BY <1>2, <1>7, <2>2, <2>3
  <1>8. Plain(t) <=> ~HasLetter(n)
    <2>1. \A x \in 1 .. 8 : x \in 0 .. 8 OBVIOUS
    <2>2. Len(t) \in 0 .. 8 BY <1>2, <2>1, Zenon
    <2>3. n \in Nat BY WordIs
    <2> QED BY <1>2, <1>3, <2>2, <2>3, PlainIs
  <1> QED BY <1>1, <1>3, <1>4, <1>5, <1>6, <1>7, <1>8

\* The bounds of the arguments.
LEMMA WordBounds ==
  /\ WORD >= 256 /\ WORD * WORD >= 256 * WORD
  /\ WORD \div 2 \in Nat /\ WORD \div 2 <= WORD /\ WORD \div 2 >= 1
PROOF
  <1>1. PICK k \in 2 .. 8 : WORD = pow16[k] BY WordIs
  <1>2. pow16[2] = 256
    <2>1. pow16[1] = 16
      <3>1. 1 \in 1 .. 8 /\ 1 - 1 = 0 OBVIOUS
      <3> QED BY <3>1, Powers16
    <2>2. 2 \in 1 .. 8 /\ 2 - 1 = 1 OBVIOUS
    <2> QED BY <2>1, <2>2, Powers16
  <1>3. WORD >= 256
    <2>1. k = 2 \/ 2 < k OBVIOUS
    <2>2. 2 \in 0 .. 8 /\ k \in 0 .. 8 OBVIOUS
    <2>3. 2 < k => pow16[2] < pow16[k] BY <2>2, HigherPowers
    <2>4. WORD \in Nat BY WordIs
    <2>5. WORD = 256 \/ 256 < WORD BY <1>1, <1>2, <2>1, <2>3
    <2> QED BY <2>4, <2>5
  <1>4. PICK e \in Nat : WORD = 256 + e
    <2>1. WORD - 256 \in Nat /\ WORD = 256 + (WORD - 256) BY <1>3, WordIs
    <2> QED BY <2>1
  <1>5. WORD * WORD = 256 * WORD + e * WORD /\ e * WORD \in Nat BY <1>4, WordIs
  <1>6. 256 * WORD \in Nat BY WordIs
  <1>7. WORD * WORD >= 256 * WORD BY <1>5, <1>6
  <1>8. WORD \div 2 \in Nat /\ WORD \div 2 <= WORD /\ WORD \div 2 >= 1 BY <1>3, WordIs
  <1> QED BY <1>3, <1>7, <1>8

\* itoa loses the sign of a negative number: a digit comes first, and for the
\* least number there is no digit at all.
LEMMA NegativeText ==
  ASSUME NEW n \in -(WORD \div 2) .. -1, NEW g \in 0 .. 255
  PROVE  LET t == UpToNul(itoa(n, g))
         IN  t \in Seq(Byte) /\ ~(t # <<>> /\ t[1] = Ascii.minus /\ IsNumeral(Tail(t), -n, 10))
PROOF
  <1>1. n \in Int /\ ~(n >= 0) BY WordBounds
  <1>2. PICK t : t = UpToNul(itoa(n, g)) OBVIOUS
  <1>3. g # 0 => g \in Byte BY DEF Byte
  <1>4. CASE n = -(WORD \div 2)
    <2>1. <<>> \in Seq(Byte) /\ Append(<<>>, g) = <<g>> OBVIOUS
    <2>2. itoa(n, g) = <<g>> BY <1>1, <1>4 DEF itoa
    <2>3. t = IF g = 0 THEN <<>> ELSE <<g>>
      <3>1. PICK e \in Seq(Byte) : e = <<>> BY <2>1
      <3>2. UpToNul(Append(e, g)) = IF g = 0 THEN e ELSE Append(e, g) BY UpToNulIs
      <3> QED BY <1>2, <2>1, <2>2, <3>1, <3>2
    <2>4. CASE g = 0 BY <1>2, <2>1, <2>3, <2>4
    <2>5. CASE g # 0
      <3>1. t = <<g>> /\ t \in Seq(Byte) BY <1>3, <2>3, <2>5
      <3>2. Tail(t) = <<>> BY <3>1
      <3>3. ~IsNumeral(<<>>, -n, 10) BY Zenon DEF IsNumeral
      <3> QED BY <1>2, <3>1, <3>2, <3>3
    <2> QED BY <2>4, <2>5
  <1>5. CASE n # -(WORD \div 2)
    <2>1. -n \in 0 .. WORD * WORD - 1 BY <1>1, WordBounds, WordIs
    <2>2. PICK r : r = Reverse(digits[-n]) OBVIOUS
    <2>3. r \in Seq(Byte) /\ r # <<>> /\ IsNumeral(r, -n, 10) BY <2>1, <2>2, DecimalText
    <2>4. itoa(n, g) = Append(r, g) BY <1>1, <1>5, <2>2 DEF itoa
    <2>5. t = IF g = 0 THEN r ELSE Append(r, g) BY <1>2, <2>3, <2>4, UpToNulIs
    <2>6. t \in Seq(Byte) /\ t[1] = r[1]
      <3>1. CASE g = 0 BY <2>3, <2>5, <3>1
      <3>2. CASE g # 0
        <4>1. t = Append(r, g) /\ g \in Byte BY <1>3, <2>5, <3>2
        <4>2. Len(r) \in Nat /\ Len(r) >= 1 BY <2>3
        <4> QED BY <2>3, <4>1, <4>2
      <3> QED BY <3>1, <3>2
    <2>7. \E d \in 0 .. 9 : r[1] = PrintfDigit(d)
      <3>1. 1 \in DOMAIN r BY <2>3
      <3>2. \A k \in DOMAIN r : \E d \in 0 .. 10 - 1 : r[k] = PrintfDigit(d) BY <2>3, Zenon DEF IsNumeral
      <3> QED BY <3>1, <3>2
    <2>8. \A d \in 0 .. 9 : PrintfDigit(d) # Ascii.minus BY DEF PrintfDigit, Ascii
    <2> QED BY <1>2, <2>6, <2>7, <2>8
  <1> QED BY <1>4, <1>5

LEMMA PlainConcat ==
  ASSUME NEW s \in Seq(Nat), NEW t \in Seq(Nat)
  PROVE  Plain(s \o t) <=> Plain(s) /\ Plain(t)
PROOF
  <1>1. PICK z : z = s \o t OBVIOUS
  <1>2. PICK n \in Nat, m \in Nat : n = Len(s) /\ m = Len(t) OBVIOUS
  <1>3. /\ Len(z) = n + m
        /\ \A k \in 1 .. n : z[k] = s[k]
        /\ \A k \in 1 .. m : z[n + k] = t[k]
    BY <1>1, <1>2
  <1>4. ASSUME Plain(z) PROVE Plain(s) /\ Plain(t)
    <2>1. ASSUME NEW k \in 1 .. n PROVE \E d \in 0 .. 9 : s[k] = Digit(d)
      <3>1. k \in 1 .. n + m OBVIOUS
      <3> QED BY <1>3, <1>4, <3>1 DEF Plain
    <2>2. ASSUME NEW k \in 1 .. m PROVE \E d \in 0 .. 9 : t[k] = Digit(d)
      <3>1. n + k \in 1 .. n + m OBVIOUS
      <3> QED BY <1>3, <1>4, <3>1 DEF Plain
    <2> QED BY <1>2, <2>1, <2>2 DEF Plain
  <1>5. ASSUME Plain(s), Plain(t), NEW j \in 1 .. n + m PROVE \E d \in 0 .. 9 : z[j] = Digit(d)
    <2>1. CASE j <= n
      <3>1. j \in 1 .. n BY <2>1
      <3> QED BY <1>2, <1>3, <1>5, <3>1 DEF Plain
    <2>2. CASE ~(j <= n)
      <3>1. PICK k \in 1 .. m : n + k = j
        <4>1. j - n \in 1 .. m /\ n + (j - n) = j BY <2>2
        <4> QED BY <4>1
      <3> QED BY <1>2, <1>3, <1>5, <3>1 DEF Plain
    <2> QED BY <2>1, <2>2
  <1>6. Plain(s) /\ Plain(t) => Plain(z) BY <1>3, <1>5 DEF Plain
  <1> QED BY <1>1, <1>4, <1>6

\* The upper half first, even when it is 0, and the lower half without its zeros.
LEMMA LongHexadecimalText ==
  ASSUME NEW n \in 0 .. WORD * WORD - 1
  PROVE  LET t == itox(n \div WORD) \o itox(n % WORD)
         IN  /\ t \in Seq(Byte)
             /\ IsNumeral(t, n, 16) <=> ~(\/ n < WORD \/ n % WORD < WORD \div 16
                                          \/ HasLetter(n \div WORD) \/ HasLetter(n % WORD))
PROOF
  <1>1. PICK k \in 2 .. 8 : WORD = pow16[k] BY WordIs
  <1>2. n \in Nat /\ WORD \in Nat \ {0}
    <2>1. WORD * WORD - 1 \in Nat BY WordIs
    <2> QED BY <2>1, WordIs
  <1>3. PICK h \in Nat, l \in Nat : h = n \div WORD /\ l = n % WORD /\ l < WORD /\ n = WORD * h + l
    BY <1>2, Division
  <1>4. h \in 0 .. WORD - 1
    <2>1. ~(n >= WORD * WORD) BY <1>2
    <2>2. ~(h >= WORD) BY <1>2, <1>3, <2>1, QuotientAtLeast
    <2> QED BY <1>2, <1>3, <2>2
  <1>5. l \in 0 .. WORD - 1 BY <1>2, <1>3
  <1>6. PICK s, t : s = itox(h) /\ t = itox(l) OBVIOUS
  <1>7. /\ s \in Seq(Nat) /\ Len(s) \in 1 .. 8 /\ (s[1] = Digit(0) <=> h = 0)
        /\ \E v : Reads(v, s, 16) /\ v[Len(s)] = h
    BY <1>4, <1>6, HexadecimalReads
  <1>8. /\ t \in Seq(Nat) /\ Len(t) \in 1 .. 8 /\ l < pow16[Len(t)]
        /\ Len(t) > 1 => pow16[Len(t) - 1] <= l
        /\ \E w : Reads(w, t, 16) /\ w[Len(t)] = l
    BY <1>5, <1>6, HexadecimalReads
  <1>9. PICK v : Reads(v, s, 16) /\ v[Len(s)] = h BY <1>7
  <1>10. PICK w : Reads(w, t, 16) /\ w[Len(t)] = l BY <1>8
  <1>11. PICK m \in 1 .. 8 : m = Len(t) BY <1>8
  <1>12. PICK z : z = s \o t OBVIOUS
  <1>13. /\ z \in Seq(Nat) /\ Len(z) = Len(s) + m
         /\ \E u : Reads(u, z, 16) /\ u[Len(z)] = h * pow16[m] + l
    <2>1. s \in Seq(Nat) BY <1>7
    <2>2. t \in Seq(Nat) BY <1>8
    <2>3. Len(t) <= 8 BY <1>11
    <2>4. Reads(v, s, 16) BY <1>9
    <2>5. Reads(w, t, 16) BY <1>10
    <2>6. /\ s \o t \in Seq(Nat) /\ Len(s \o t) = Len(s) + Len(t)
          /\ \E u : Reads(u, s \o t, 16) /\ u[Len(s \o t)] = v[Len(s)] * pow16[Len(t)] + w[Len(t)]
      BY <2>1, <2>2, <2>3, <2>4, <2>5, ConcatReads
    <2> QED BY <1>9, <1>10, <1>11, <1>12, <2>6
  <1>14. PICK u : Reads(u, z, 16) /\ u[Len(z)] = h * pow16[m] + l BY <1>13
  <1>15. Len(z) > 1 /\ z # <<>> BY <1>7, <1>13
  <1>16. z[1] = Digit(0) <=> h = 0
    <2>1. 1 \in 1 .. Len(s) BY <1>7
    <2>2. z[1] = s[1] BY <1>7, <1>8, <1>12, <2>1, ConcatAt
    <2> QED BY <1>7, <2>2
  <1>17. 16 \in {10, 16} OBVIOUS
  <1>18. z \in Seq(Byte) BY <1>13, <1>14, <1>17, ReadsBytes
  <1>19. IsNumeral(z, n, 16) <=> Plain(z) /\ (Len(z) > 1 => z[1] # Digit(0)) /\ u[Len(z)] = n
    BY <1>13, <1>14, <1>15, <1>17, NumeralIs
  <1>20. IsNumeral(z, n, 16) <=> Plain(z) /\ h # 0 /\ h * pow16[m] + l = n BY <1>14, <1>15, <1>16, <1>19
  <1>21. h = 0 <=> n < WORD
    <2>1. 1 \in Nat /\ (h >= 1 <=> n >= WORD * 1) BY <1>2, <1>3, QuotientAtLeast
    <2> QED BY <1>2, <1>3, <2>1
  <1>22. ASSUME h # 0 PROVE h * pow16[m] + l = n <=> m = k
    <2>1. PICK p \in Nat, q \in Nat : p = pow16[m] /\ q = pow16[k]
      <3>1. m \in 0 .. 8 /\ k \in 0 .. 8 OBVIOUS
      <3> QED BY <3>1, Powers16
    <2>2. h * p = h * q => p = q
      BY <1>22, SMT
    <2>3. p = q => m = k
      <3>1. m \in 0 .. 8 /\ k \in 0 .. 8 OBVIOUS
      <3>2. CASE m < k
        <4>1. p < q BY <2>1, <3>1, <3>2, HigherPowers
        <4> QED BY <4>1
      <3>3. CASE k < m
        <4>1. q < p BY <2>1, <3>1, <3>3, HigherPowers
        <4> QED BY <4>1
      <3> QED BY <3>1, <3>2, <3>3
    <2>4. h * p \in Nat /\ h * q \in Nat /\ n = h * q + l
      <3>1. h * p \in Nat /\ h * q \in Nat /\ h * q = q * h OBVIOUS
      <3>2. WORD = q BY <1>1, <2>1
      <3> QED BY <1>3, <3>1, <3>2
    <2>5. h * p + l = n <=> h * p = h * q BY <1>3, <2>4
    <2> QED BY <2>1, <2>2, <2>3, <2>5
  <1>23. m = k <=> ~(l < WORD \div 16)
    <2>1. k - 1 \in 0 .. 8 /\ k \in 1 .. 8 OBVIOUS
    <2>2. PICK p \in Nat \ {0} : p = pow16[k - 1] /\ WORD = 16 * p BY <1>1, <2>1, Powers16
    <2>3. WORD \div 16 = p BY <2>2
    <2>4. ASSUME m = k PROVE p <= l
      <3>1. Len(t) > 1 /\ Len(t) - 1 = k - 1 BY <1>11, <2>4
      <3> QED BY <1>8, <2>2, <3>1
    <2>5. ASSUME m < k PROVE l < p
      <3>1. m = k - 1 \/ m < k - 1 BY <2>5
      <3>2. m \in 0 .. 8 OBVIOUS
      <3>3. PICK x \in Nat : x = pow16[m] BY <3>2, Powers16
      <3>4. x = p \/ x < p BY <2>1, <2>2, <3>1, <3>2, <3>3, HigherPowers
      <3>5. l < x BY <1>8, <1>11, <3>3
      <3> QED BY <3>3, <3>4, <3>5
    <2>6. ~(k < m)
      <3>1. SUFFICES ASSUME k < m PROVE FALSE OBVIOUS
      <3>2. m - 1 \in 0 .. 8 /\ k \in 0 .. 8 /\ (k = m - 1 \/ k < m - 1) /\ Len(t) > 1
        <4>1. m - 1 \in 0 .. 8 /\ k \in 0 .. 8 /\ m > 1 BY <3>1
        <4>2. k = m - 1 \/ k < m - 1 BY <3>1
        <4> QED BY <1>11, <4>1, <4>2
      <3>3. PICK x \in Nat : x = pow16[m - 1] BY <3>2, Powers16
      <3>4. x = WORD \/ WORD < x BY <1>1, <3>2, <3>3, HigherPowers
      <3>5. x <= l BY <1>8, <1>11, <3>2, <3>3
      <3> QED BY <1>2, <1>3, <3>3, <3>4, <3>5
    <2> QED BY <1>3, <2>2, <2>3, <2>4, <2>5, <2>6
  <1>24. Plain(z) <=> ~HasLetter(h) /\ ~HasLetter(l)
    <2>1. Plain(z) <=> Plain(s) /\ Plain(t) BY <1>7, <1>8, <1>12, PlainConcat
    <2>2. Plain(s) <=> ~HasLetter(h)
      <3>1. \A x \in 1 .. 8 : x \in 0 .. 8 OBVIOUS
      <3>2. Len(s) \in 0 .. 8 BY <1>7, <3>1, Zenon
      <3> QED BY <1>7, <1>9, <3>2, PlainIs
    <2>3. Plain(t) <=> ~HasLetter(l)
      <3>1. \A x \in 1 .. 8 : x \in 0 .. 8 OBVIOUS
      <3>2. Len(t) \in 0 .. 8 BY <1>8, <3>1, Zenon
      <3> QED BY <1>8, <1>10, <3>2, PlainIs
    <2> QED BY <2>1, <2>2, <2>3
  <1>25. IsNumeral(z, n, 16) <=> ~(\/ n < WORD \/ l < WORD \div 16 \/ HasLetter(h) \/ HasLetter(l))
    BY <1>20, <1>21, <1>22, <1>23, <1>24
  <1> QED BY <1>3, <1>6, <1>12, <1>18, <1>25

-----------------------------------------------------------------------------
(* One conversion, compared with printf.                                   *)

\* The conversion that a step of vfprint has performed, if any, gave putchar what
\* printf prints, unless it is one where the two part.
ConvertsLikePrintf ==
  Len(ap') > Len(ap) =>
    LET a == Last(ap')
        text == SubSeq(out', Len(out) + 1, Len(out'))
    IN  IsPrinted(a.letters, a.arg, text) <=> ~Deviates(a)

\* The conversions, their arguments and the texts.
Converts(letters, arg, text) ==
  \/ /\ letters \in {<<Ascii.d>>, <<Ascii.i>>}
     /\ arg \in Ints /\ \E g \in Garbage : text = UpToNul(itoa(arg, g))
  \/ letters = <<Ascii.x>> /\ arg \in Words /\ text = UpToNul(itox(arg))
  \/ letters = <<Ascii.s>> /\ arg \in Texts /\ text = UpToNul(arg)
  \/ /\ letters = <<Ascii.l, Ascii.l, Ascii.x>>
     /\ arg \in LongLongs /\ text = UpToNul(itox(arg \div WORD) \o itox(arg % WORD))
  \/ letters = <<Ascii.l, Ascii.l, Ascii.u>> /\ arg \in LongLongs /\ text = UpToNul(lltoa(arg))
  \/ letters \notin Conversions /\ text \in Seq(Byte)

LEMMA Letters ==
  /\ Ascii.d = 100 /\ Ascii.i = 105 /\ Ascii.l = 108 /\ Ascii.s = 115 /\ Ascii.u = 117 /\ Ascii.x = 120
  /\ \A a : Last(<<a>>) = a
  /\ \A a, b, c : Last(<<a, b, c>>) = c
PROOF BY DEF Ascii, Last

\* The conversions differ from each other.
LEMMA LettersApart ==
  /\ \A a, b, c, e : <<a>> # <<b, c, e>> /\ <<b, c, e>> # <<a>>
  /\ \A a, b : <<a>> = <<b>> => a = b
  /\ \A a, b, c, e, f, g : <<a, b, c>> = <<e, f, g>> => c = g
  /\ Ascii.d # Ascii.i /\ Ascii.d # Ascii.x /\ Ascii.d # Ascii.s /\ Ascii.i # Ascii.x /\ Ascii.i # Ascii.s
  /\ Ascii.x # Ascii.s /\ Ascii.x # Ascii.u
PROOF
  <1>1. \A a, b, c, e : <<a>> # <<b, c, e>> /\ <<b, c, e>> # <<a>>
    <2> TAKE a, b, c, e
    <2>1. PICK s, t : s = <<a>> /\ t = <<b, c, e>> OBVIOUS
    <2>2. Len(s) = 1 /\ Len(t) = 3 BY <2>1
    <2>3. s # t /\ t # s BY <2>2
    <2> QED BY <2>1, <2>3
  <1> QED BY <1>1, Letters

LEMMA IsPrintedIs ==
  ASSUME NEW arg, NEW t
  PROVE  /\ \A letters \in {<<Ascii.d>>, <<Ascii.i>>} :
              IsPrinted(letters, arg, t) <=>
                IF arg < 0 THEN t # <<>> /\ t[1] = Ascii.minus /\ IsNumeral(Tail(t), -arg, 10)
                ELSE IsNumeral(t, arg, 10)
         /\ IsPrinted(<<Ascii.x>>, arg, t) <=> IsNumeral(t, arg, 16)
         /\ IsPrinted(<<Ascii.s>>, arg, t) <=> t = arg
         /\ IsPrinted(<<Ascii.l, Ascii.l, Ascii.x>>, arg, t) <=> IsNumeral(t, arg, 16)
         /\ IsPrinted(<<Ascii.l, Ascii.l, Ascii.u>>, arg, t) <=> IsNumeral(t, arg, 10)
         /\ \A letters : letters \notin Conversions => ~IsPrinted(letters, arg, t)
PROOF
  <1>1. ASSUME NEW letters \in {<<Ascii.d>>, <<Ascii.i>>}
        PROVE  IsPrinted(letters, arg, t) <=>
                 IF arg < 0 THEN t # <<>> /\ t[1] = Ascii.minus /\ IsNumeral(Tail(t), -arg, 10)
                 ELSE IsNumeral(t, arg, 10)
    <2>1. letters = <<Ascii.d>> \/ letters = <<Ascii.i>> OBVIOUS
    <2>2. /\ letters # <<Ascii.l, Ascii.l, Ascii.u>> /\ letters # <<Ascii.s>>
          /\ letters \notin {<<Ascii.x>>, <<Ascii.l, Ascii.l, Ascii.x>>}
      BY <2>1, LettersApart
    <2> QED BY <2>2, Zenon DEF IsPrinted
  <1>2. ASSUME NEW letters \in {<<Ascii.x>>, <<Ascii.l, Ascii.l, Ascii.x>>}
        PROVE  IsPrinted(letters, arg, t) <=> IsNumeral(t, arg, 16)
    <2>1. letters = <<Ascii.x>> \/ letters = <<Ascii.l, Ascii.l, Ascii.x>> OBVIOUS
    <2>2. /\ letters # <<Ascii.l, Ascii.l, Ascii.u>> /\ letters # <<Ascii.s>>
          /\ letters \notin {<<Ascii.d>>, <<Ascii.i>>}
      BY <2>1, LettersApart
    <2> QED BY <2>2, Zenon DEF IsPrinted
  <1>3. ASSUME NEW letters, letters = <<Ascii.s>> PROVE IsPrinted(letters, arg, t) <=> t = arg
    <2>1. /\ letters # <<Ascii.l, Ascii.l, Ascii.u>> /\ letters \notin {<<Ascii.d>>, <<Ascii.i>>}
          /\ letters \notin {<<Ascii.x>>, <<Ascii.l, Ascii.l, Ascii.x>>}
      BY <1>3, LettersApart
    <2> QED BY <1>3, <2>1, Zenon DEF IsPrinted
  <1>4. ASSUME NEW letters, letters = <<Ascii.l, Ascii.l, Ascii.u>>
        PROVE  IsPrinted(letters, arg, t) <=> IsNumeral(t, arg, 10)
    <2>1. /\ letters # <<Ascii.s>> /\ letters \notin {<<Ascii.d>>, <<Ascii.i>>}
          /\ letters \notin {<<Ascii.x>>, <<Ascii.l, Ascii.l, Ascii.x>>}
      BY <1>4, LettersApart
    <2> QED BY <1>4, <2>1, Zenon DEF IsPrinted
  <1>5. ASSUME NEW letters, letters \notin Conversions PROVE ~IsPrinted(letters, arg, t)
    <2>1. /\ letters # <<Ascii.l, Ascii.l, Ascii.u>> /\ letters # <<Ascii.s>>
          /\ letters \notin {<<Ascii.d>>, <<Ascii.i>>}
          /\ letters \notin {<<Ascii.x>>, <<Ascii.l, Ascii.l, Ascii.x>>}
      BY <1>5, Zenon DEF Conversions
    <2> QED BY <2>1, Zenon DEF IsPrinted
  <1> QED BY <1>1, <1>2, <1>3, <1>4, <1>5

LEMMA ConversionText ==
  ASSUME NEW letters, NEW arg, NEW text, Converts(letters, arg, text)
  PROVE  /\ text \in Seq(Byte)
         /\ IsPrinted(letters, arg, text) <=> ~Deviates([letters |-> letters, arg |-> arg])
PROOF
  <1>1. PICK a : a = [letters |-> letters, arg |-> arg] OBVIOUS
  <1>2. a.letters = letters /\ a.arg = arg BY <1>1
  <1>3. WORD \in Nat /\ WORD * WORD >= 256 * WORD /\ WORD >= 256 /\ WORD \div 2 \in Nat /\ WORD \div 2 <= WORD
    BY WordIs, WordBounds
  <1>4. 0 \in 0 .. 255 OBVIOUS
  <1>5. CASE /\ letters \in {<<Ascii.d>>, <<Ascii.i>>}
             /\ arg \in Ints /\ \E g \in Garbage : text = UpToNul(itoa(arg, g))
    <2>1. PICK g \in Garbage : text = UpToNul(itoa(arg, g)) BY <1>5
    <2>2. g \in 0 .. 255 /\ arg \in -(WORD \div 2) .. WORD \div 2 - 1 BY <1>5, RangeAssumption
    <2>3. letters # <<Ascii.l, Ascii.l, Ascii.x>> /\ letters # <<Ascii.x>> /\ letters \in Conversions
      <3>1. letters = <<Ascii.d>> \/ letters = <<Ascii.i>> BY <1>5
      <3> QED BY <3>1, LettersApart DEF Conversions
    <2>4. Deviates(a) <=> arg < 0 BY <1>2, <1>5, <2>3, Zenon DEF Deviates
    <2>5. IsPrinted(letters, arg, text) <=>
            IF arg < 0 THEN text # <<>> /\ text[1] = Ascii.minus /\ IsNumeral(Tail(text), -arg, 10)
            ELSE IsNumeral(text, arg, 10)
      BY <1>5, IsPrintedIs
    <2>6. CASE arg < 0
      <3>1. arg \in -(WORD \div 2) .. -1 BY <1>3, <2>2, <2>6
      <3>2. text \in Seq(Byte) /\ ~(text # <<>> /\ text[1] = Ascii.minus /\ IsNumeral(Tail(text), -arg, 10))
        BY <2>1, <2>2, <3>1, NegativeText
      <3> QED BY <1>1, <2>4, <2>5, <2>6, <3>2
    <2>7. CASE ~(arg < 0)
      <3>1. arg \in 0 .. WORD * WORD - 1 /\ arg >= 0 BY <1>3, <2>2, <2>7
      <3>2. PICK t : t = Reverse(digits[arg]) OBVIOUS
      <3>3. t \in Seq(Byte) /\ IsNumeral(t, arg, 10) BY <3>1, <3>2, DecimalText
      <3>4. itoa(arg, g) = t BY <3>1, <3>2 DEF itoa
      <3>5. text = t BY <1>4, <2>1, <3>3, <3>4, UpToNulIs
      <3> QED BY <1>1, <2>4, <2>5, <2>7, <3>3, <3>5
    <2> QED BY <2>6, <2>7
  <1>6. CASE letters = <<Ascii.x>> /\ arg \in Words /\ text = UpToNul(itox(arg))
    <2>1. arg \in 0 .. WORD - 1 BY <1>6, RangeAssumption
    <2>2. itox(arg) \in Seq(Byte) /\ (IsNumeral(itox(arg), arg, 16) <=> ~HasLetter(arg))
      BY <2>1, HexadecimalText
    <2>3. text = itox(arg) BY <1>4, <1>6, <2>2, UpToNulIs
    <2>4. /\ letters # <<Ascii.l, Ascii.l, Ascii.x>> /\ letters \notin {<<Ascii.d>>, <<Ascii.i>>}
          /\ letters \in Conversions
      BY <1>6, LettersApart DEF Conversions
    <2>5. Deviates(a) <=> HasLetter(arg) BY <1>2, <1>6, <2>4, Zenon DEF Deviates
    <2>6. IsPrinted(<<Ascii.x>>, arg, text) <=> IsNumeral(text, arg, 16) BY IsPrintedIs
    <2> QED BY <1>1, <1>6, <2>2, <2>3, <2>5, <2>6
  <1>7. CASE letters = <<Ascii.s>> /\ arg \in Texts /\ text = UpToNul(arg)
    <2>1. arg \in Seq(Byte) BY <1>7, RangeAssumption DEF Byte
    <2>2. text = arg BY <1>4, <1>7, <2>1, UpToNulIs
    <2>3. /\ letters # <<Ascii.l, Ascii.l, Ascii.x>> /\ letters \notin {<<Ascii.d>>, <<Ascii.i>>}
          /\ letters # <<Ascii.x>> /\ letters \in Conversions
      BY <1>7, LettersApart DEF Conversions
    <2>4. ~Deviates(a) BY <1>2, <2>3, Zenon DEF Deviates
    <2>5. IsPrinted(<<Ascii.s>>, arg, text) <=> text = arg BY IsPrintedIs
    <2> QED BY <1>1, <1>7, <2>1, <2>2, <2>4, <2>5
  <1>8. CASE /\ letters = <<Ascii.l, Ascii.l, Ascii.x>>
             /\ arg \in LongLongs /\ text = UpToNul(itox(arg \div WORD) \o itox(arg % WORD))
    <2>1. arg \in 0 .. WORD * WORD - 1 BY <1>8, RangeAssumption
    <2>2. PICK t : t = itox(arg \div WORD) \o itox(arg % WORD) OBVIOUS
    <2>3. /\ t \in Seq(Byte)
          /\ IsNumeral(t, arg, 16) <=> ~(\/ arg < WORD \/ arg % WORD < WORD \div 16
                                         \/ HasLetter(arg \div WORD) \/ HasLetter(arg % WORD))
      BY <2>1, <2>2, LongHexadecimalText
    <2>4. text = t BY <1>4, <1>8, <2>2, <2>3, UpToNulIs
    <2>5. letters \notin {<<Ascii.d>>, <<Ascii.i>>} /\ letters # <<Ascii.x>> /\ letters \in Conversions
      BY <1>8, LettersApart DEF Conversions
    <2>6. Deviates(a) <=> \/ arg < WORD \/ arg % WORD < WORD \div 16
                          \/ HasLetter(arg \div WORD) \/ HasLetter(arg % WORD)
      BY <1>2, <1>8, <2>5, Zenon DEF Deviates
    <2>7. IsPrinted(<<Ascii.l, Ascii.l, Ascii.x>>, arg, text) <=> IsNumeral(text, arg, 16) BY IsPrintedIs
    <2> QED BY <1>1, <1>8, <2>3, <2>4, <2>6, <2>7
  <1>9. CASE letters = <<Ascii.l, Ascii.l, Ascii.u>> /\ arg \in LongLongs /\ text = UpToNul(lltoa(arg))
    <2>1. arg \in 0 .. WORD * WORD - 1 BY <1>9, RangeAssumption
    <2>2. PICK t : t = Reverse(digits[arg]) OBVIOUS
    <2>3. t \in Seq(Byte) /\ IsNumeral(t, arg, 10) BY <2>1, <2>2, DecimalText
    <2>4. text = t BY <1>4, <1>9, <2>2, <2>3, UpToNulIs DEF lltoa
    <2>5. /\ letters # <<Ascii.l, Ascii.l, Ascii.x>> /\ letters \notin {<<Ascii.d>>, <<Ascii.i>>}
          /\ letters # <<Ascii.x>> /\ letters \in Conversions
      BY <1>9, LettersApart DEF Conversions
    <2>6. ~Deviates(a) BY <1>2, <2>5, Zenon DEF Deviates
    <2>7. IsPrinted(<<Ascii.l, Ascii.l, Ascii.u>>, arg, text) <=> IsNumeral(text, arg, 10) BY IsPrintedIs
    <2> QED BY <1>1, <1>9, <2>3, <2>4, <2>6, <2>7
  <1>10. CASE letters \notin Conversions /\ text \in Seq(Byte)
    <2>1. Deviates(a) BY <1>2, <1>10, Zenon DEF Deviates
    <2>2. ~IsPrinted(letters, arg, text) BY <1>10, IsPrintedIs
    <2> QED BY <1>1, <1>10, <2>1, <2>2
  <1> QED BY <1>5, <1>6, <1>7, <1>8, <1>9, <1>10 DEF Converts

-----------------------------------------------------------------------------
(* vfprint, character by character.                                        *)

LEMMA TrailingIs ==
  ASSUME NEW f \in Seq(Byte)
  PROVE  /\ Trailing(f) \in 0 .. Len(f)
         /\ \A k \in 1 .. Len(f) : f[k] # Ascii.percent => k <= Trailing(f)
         /\ Trailing(f) # 0 => f[Trailing(f)] # Ascii.percent
PROOF
  <1> DEFINE I == {k \in 1 .. Len(f) : f[k] # Ascii.percent}
             T == {n \in 0 .. Len(f) : Len(f) - n \in I}
  <1>1. Len(f) \in Nat OBVIOUS
  <1>2. Trailing(f) = IF I # {} THEN Max(I) ELSE 0 BY Zenon DEF Trailing, SelectLastInSeq
  <1>3. CASE I = {}
    <2>1. Trailing(f) = 0 BY <1>2, <1>3
    <2> QED BY <1>1, <1>3, <2>1
  <1>4. CASE I # {}
    <2>1. PICK x \in I : TRUE BY <1>4
    <2>2. Len(f) - x \in T
      <3>1. Len(f) - x \in 0 .. Len(f) /\ Len(f) - (Len(f) - x) = x BY <1>1
      <3> QED BY <2>1, <3>1
    <2>3. T \in SUBSET Nat BY <1>1
    <2>4. PICK n \in T : \A m \in T : n <= m
      <3> HIDE DEF T
      <3> QED BY <2>2, <2>3, LeastElement
    <2>5. Len(f) - n \in I /\ n \in Nat BY <1>1
    <2>6. \A y \in I : Len(f) - n >= y
      <3> TAKE y \in I
      <3>1. Len(f) - y \in 0 .. Len(f) /\ Len(f) - (Len(f) - y) = y /\ y \in Int BY <1>1
      <3>2. Len(f) - y \in T BY <3>1
      <3>3. n <= Len(f) - y BY <2>4, <3>2
      <3> QED BY <1>1, <2>5, <3>1, <3>3
    <2>7. Max(I) \in I /\ \A y \in I : Max(I) >= y
      <3> HIDE DEF I
      <3> QED BY <2>5, <2>6, Zenon DEF Max
    <2>8. PICK r : r = Trailing(f) OBVIOUS
    <2>9. r \in I /\ \A y \in I : r >= y BY <1>2, <1>4, <2>7, <2>8
    <2>10. r \in 1 .. Len(f) /\ f[r] # Ascii.percent BY <2>9
    <2>11. \A k \in 1 .. Len(f) : f[k] # Ascii.percent => k <= r BY <2>9, <2>10
    <2> QED BY <1>1, <2>8, <2>10, <2>11
  <1> QED BY <1>3, <1>4

LEMMA Appended ==
  ASSUME NEW S, NEW s \in Seq(S), NEW t \in Seq(S)
  PROVE  s \o t \in Seq(S) /\ SubSeq(s \o t, Len(s) + 1, Len(s \o t)) = t
PROOF OBVIOUS

\* A conversion and the argument that it has taken.
Arguments == Ints \cup Words \cup LongLongs \cup Texts \cup {NoArgument}
Argument == [letters : Seq(Byte), arg : Arguments]

\* i is never beyond the null character of the format, and among the percent
\* signs at its end it is at the first one of a pair.
FprintInv ==
  /\ format \in Seq(Byte) /\ Complete(format)
  /\ ap \in Seq(Argument)
  /\ out \in Seq(Byte)
  /\ i \in 1 .. Len(format) + 1
  /\ i > Trailing(format) + 1 => (i - (Trailing(format) + 1)) % 2 = 0

\* What a step of vfprint does: it gives putchar a text, and takes at most one
\* argument, for a conversion.
Prints(text) ==
  /\ text \in Seq(Byte)
  /\ out' = out \o text
  /\ \/ ap' = ap
     \/ \E letters \in Seq(Byte), arg \in Arguments :
          ap' = Append(ap, [letters |-> letters, arg |-> arg]) /\ Converts(letters, arg, text)

LEMMA CharIs ==
  ASSUME FprintInv, NEW k \in Nat \ {0}, Char(k) # Nul
  PROVE  /\ k <= Len(format) /\ Char(k) = format[k] /\ Char(k) \in Byte
         /\ Char(k) # Ascii.percent => k <= Trailing(format)
PROOF
  <1>1. format \in Seq(Byte) BY DEF FprintInv
  <1>2. k <= Len(format) /\ Char(k) = format[k] BY DEF Char
  <1>3. k \in 1 .. Len(format) BY <1>1, <1>2
  <1>4. format[k] \in Byte BY <1>1, <1>3
  <1>5. format[k] # Ascii.percent => k <= Trailing(format) BY <1>1, <1>3, TrailingIs
  <1> QED BY <1>2, <1>4, <1>5

\* A step that has read a character other than a percent sign leaves i within
\* the format, not beyond the percent signs at its end.
LEMMA BehindCharacter ==
  ASSUME FprintInv, NEW k \in Nat \ {0}, Char(k) \notin {Ascii.percent, Nul},
         format' = format, i' = k + 1, ap' \in Seq(Argument), out' \in Seq(Byte)
  PROVE  FprintInv'
PROOF
  <1>1. format \in Seq(Byte) /\ Complete(format) BY DEF FprintInv
  <1>2. PICK n \in Nat, r \in Nat : n = Len(format) /\ r = Trailing(format) /\ r <= n
    BY <1>1, TrailingIs
  <1>3. k <= n /\ k <= r BY <1>2, CharIs
  <1>4. i' \in 1 .. n + 1 /\ ~(i' > r + 1) BY <1>2, <1>3
  <1>5. Len(format') = n /\ Trailing(format') = r /\ Complete(format') BY <1>1, <1>2
  <1>6. i' \in 1 .. Len(format') + 1 BY <1>4, <1>5
  <1>7. i' > Trailing(format') + 1 => (i' - (Trailing(format') + 1)) % 2 = 0 BY <1>4, <1>5
  <1> QED BY <1>1, <1>5, <1>6, <1>7 DEF FprintInv

LEMMA ConversionPrints ==
  ASSUME FprintInv, NEW letters \in Seq(Byte), letters # <<>>, Last(letters) # Ascii.percent,
         NEW arg \in Arguments, NEW text,
         conversion(letters, arg, text), Converts(letters, arg, UpToNul(text))
  PROVE  FprintInv' /\ \E t : Prints(t)
PROOF
  <1>1. i \in Nat \ {0} /\ out \in Seq(Byte) /\ ap \in Seq(Argument) BY DEF FprintInv
  <1>2. PICK n \in Nat \ {0} : n = Len(letters) OBVIOUS
  <1>3. PICK t : t = UpToNul(text) OBVIOUS
  <1>4. /\ \A k \in 1 .. n : Char(i + k) = letters[k]
        /\ out' = out \o t
        /\ i' = i + 1 + n
        /\ ap' = Append(ap, [letters |-> letters, arg |-> arg])
        /\ format' = format
    BY <1>2, <1>3 DEF conversion, putchar
  <1>5. t \in Seq(Byte) BY <1>3, ConversionText
  <1>6. Prints(t) BY <1>3, <1>4, <1>5 DEF Prints
  <1>7. out' \in Seq(Byte) BY <1>1, <1>4, <1>5, Appended
  <1>8. ap' \in Seq(Argument)
    <2>1. [letters |-> letters, arg |-> arg] \in Argument BY DEF Argument
    <2> QED BY <1>1, <1>4, <2>1
  <1>9. Char(i + n) \notin {Ascii.percent, Nul}
    <2>1. n \in 1 .. n BY <1>2
    <2>2. Char(i + n) = Last(letters) BY <1>2, <1>4, <2>1 DEF Last
    <2>3. Last(letters) \in Byte BY <1>2 DEF Last
    <2>4. \A x \in Byte : x # Nul BY DEF Byte, Nul
    <2> QED BY <2>2, <2>3, <2>4
  <1>10. i + n \in Nat \ {0} /\ i' = (i + n) + 1 BY <1>1, <1>2, <1>4
  <1> QED BY <1>4, <1>6, <1>7, <1>8, <1>9, <1>10, BehindCharacter

\* The characters of Ascii are bytes.
LEMMA AsciiBytes ==
  /\ Ascii.d \in Byte /\ Ascii.i \in Byte /\ Ascii.l \in Byte /\ Ascii.s \in Byte /\ Ascii.u \in Byte
  /\ Ascii.x \in Byte /\ Ascii.percent \in Byte /\ Ascii.less \in Byte /\ Ascii.greater \in Byte
  /\ Ascii.percent = 37
PROOF BY DEF Ascii, Byte

\* The letters of the conversions.
LEMMA LettersOf ==
  /\ \A a \in Byte : <<a>> \in Seq(Byte) /\ <<a>> # <<>>
  /\ \A a, b, c \in Byte : <<a, b, c>> \in Seq(Byte) /\ <<a, b, c>> # <<>>
PROOF OBVIOUS

LEMMA ConversionSteps ==
  ASSUME FprintInv,
         decimal \/ hexadecimal \/ string_argument \/ long_hexadecimal \/ long_decimal
  PROVE  FprintInv' /\ \E t : Prints(t)
PROOF
  <1>1. ASSUME NEW n \in Ints, NEW g \in Garbage, NEW letter \in {Ascii.d, Ascii.i},
               conversion(<<letter>>, n, itoa(n, g))
        PROVE  FprintInv' /\ \E t : Prints(t)
    <2>1. PICK s : s = <<letter>> OBVIOUS
    <2>2. s \in Seq(Byte) /\ s # <<>> /\ Last(s) # Ascii.percent
      BY <2>1, AsciiBytes, Letters, LettersOf
    <2>3. s \in {<<Ascii.d>>, <<Ascii.i>>} BY <2>1
    <2>4. Converts(s, n, UpToNul(itoa(n, g))) BY <2>3 DEF Converts
    <2>5. conversion(s, n, itoa(n, g)) BY <1>1, <2>1
    <2>6. n \in Arguments BY DEF Arguments
    <2> QED BY <2>2, <2>4, <2>5, <2>6, ConversionPrints
  <1>2. ASSUME NEW n \in Words, conversion(<<Ascii.x>>, n, itox(n))
        PROVE  FprintInv' /\ \E t : Prints(t)
    <2>1. PICK s : s = <<Ascii.x>> OBVIOUS
    <2>2. s \in Seq(Byte) /\ s # <<>> /\ Last(s) # Ascii.percent
      BY <2>1, AsciiBytes, Letters, LettersOf
    <2>3. Converts(s, n, UpToNul(itox(n))) BY <2>1 DEF Converts
    <2>4. conversion(s, n, itox(n)) BY <1>2, <2>1
    <2>5. n \in Arguments BY DEF Arguments
    <2> QED BY <2>2, <2>3, <2>4, <2>5, ConversionPrints
  <1>3. ASSUME NEW n \in Texts, conversion(<<Ascii.s>>, n, n)
        PROVE  FprintInv' /\ \E t : Prints(t)
    <2>1. PICK s : s = <<Ascii.s>> OBVIOUS
    <2>2. s \in Seq(Byte) /\ s # <<>> /\ Last(s) # Ascii.percent
      BY <2>1, AsciiBytes, Letters, LettersOf
    <2>3. Converts(s, n, UpToNul(n)) BY <2>1 DEF Converts
    <2>4. conversion(s, n, n) BY <1>3, <2>1
    <2>5. n \in Arguments BY DEF Arguments
    <2> QED BY <2>2, <2>3, <2>4, <2>5, ConversionPrints
  <1>4. ASSUME NEW n \in LongLongs,
               conversion(<<Ascii.l, Ascii.l, Ascii.x>>, n, itox(n \div WORD) \o itox(n % WORD))
        PROVE  FprintInv' /\ \E t : Prints(t)
    <2>1. PICK s, b : s = <<Ascii.l, Ascii.l, Ascii.x>> /\ b = itox(n \div WORD) \o itox(n % WORD) OBVIOUS
    <2>2. s \in Seq(Byte) /\ s # <<>> /\ Last(s) # Ascii.percent
      BY <2>1, AsciiBytes, Letters, LettersOf
    <2>3. Converts(s, n, UpToNul(b)) BY <2>1 DEF Converts
    <2>4. conversion(s, n, b) BY <1>4, <2>1
    <2>5. n \in Arguments BY DEF Arguments
    <2> QED BY <2>2, <2>3, <2>4, <2>5, ConversionPrints
  <1>5. ASSUME NEW n \in LongLongs, conversion(<<Ascii.l, Ascii.l, Ascii.u>>, n, lltoa(n))
        PROVE  FprintInv' /\ \E t : Prints(t)
    <2>1. PICK s : s = <<Ascii.l, Ascii.l, Ascii.u>> OBVIOUS
    <2>2. s \in Seq(Byte) /\ s # <<>> /\ Last(s) # Ascii.percent
      BY <2>1, AsciiBytes, Letters, LettersOf
    <2>3. Converts(s, n, UpToNul(lltoa(n))) BY <2>1 DEF Converts
    <2>4. conversion(s, n, lltoa(n)) BY <1>5, <2>1
    <2>5. n \in Arguments BY DEF Arguments
    <2> QED BY <2>2, <2>3, <2>4, <2>5, ConversionPrints
  <1> QED BY <1>1, <1>2, <1>3, <1>4, <1>5, Zenon
      DEF decimal, hexadecimal, string_argument, long_hexadecimal, long_decimal

LEMMA PercentKeeps ==
  ASSUME FprintInv, percent
  PROVE  FprintInv' /\ Prints(<<Ascii.percent>>)
PROOF
  <1>1. /\ format \in Seq(Byte) /\ Complete(format) /\ i \in Nat \ {0} /\ out \in Seq(Byte)
        /\ ap \in Seq(Argument)
    BY DEF FprintInv
  <1>2. PICK n \in Nat, r \in Nat : n = Len(format) /\ r = Trailing(format) /\ r <= n
    BY <1>1, TrailingIs
  <1>3. /\ Char(i) = Ascii.percent /\ Char(i + 1) = Ascii.percent /\ out' = out \o <<Ascii.percent>>
        /\ i' = i + 2 /\ format' = format /\ ap' = ap
    BY DEF percent, putchar
  <1>4. Ascii.percent # Nul BY AsciiBytes DEF Nul
  <1>5. format[i] = Ascii.percent /\ i + 1 <= n
    <2>1. i + 1 \in Nat \ {0} BY <1>1
    <2> QED BY <1>1, <1>2, <1>3, <1>4, <2>1, CharIs
  <1>6. i # r
    <2>1. r # 0 => format[r] # Ascii.percent BY <1>1, <1>2, TrailingIs
    <2> QED BY <1>1, <1>5, <2>1
  <1>7. i > r + 1 => (i - (r + 1)) % 2 = 0 BY <1>2 DEF FprintInv
  <1>8. i' \in 1 .. n + 1 BY <1>1, <1>3, <1>5
  <1>9. i + 2 > r + 1 => ((i + 2) - (r + 1)) % 2 = 0
    <2>1. CASE i > r + 1
      <3>1. PICK x \in Nat : x = i - (r + 1) BY <1>1, <2>1
      <3>2. (i + 2) - (r + 1) = x + 2 BY <1>1, <3>1
      <3>3. x % 2 = 0 => (x + 2) % 2 = 0 OBVIOUS
      <3> QED BY <1>7, <2>1, <3>1, <3>2, <3>3
    <2>2. CASE i = r + 1
      <3>1. (i + 2) - (r + 1) = 2 BY <1>1, <2>2
      <3> QED BY <3>1
    <2>3. CASE i < r BY <1>1, <2>3
    <2> QED BY <1>1, <1>6, <2>1, <2>2, <2>3
  <1>10. Prints(<<Ascii.percent>>)
    <2>1. <<Ascii.percent>> \in Seq(Byte) BY AsciiBytes
    <2> QED BY <1>3, <2>1 DEF Prints
  <1>11. out' \in Seq(Byte) BY <1>1, <1>10, Appended DEF Prints
  <1>12. Len(format') = n /\ Trailing(format') = r /\ Complete(format') BY <1>1, <1>2, <1>3
  <1>13. i' > Trailing(format') + 1 => (i' - (Trailing(format') + 1)) % 2 = 0
    <2>1. PICK x \in Nat : x = i + 2 BY <1>1
    <2>2. x > r + 1 => (x - (r + 1)) % 2 = 0 BY <1>9, <2>1
    <2>3. i' = x BY <1>3, <2>1
    <2> QED BY <1>12, <2>2, <2>3, Zenon
  <1> QED BY <1>1, <1>3, <1>8, <1>10, <1>11, <1>12, <1>13 DEF FprintInv

LEMMA FprintStep ==
  ASSUME FprintInv, vfprint_step
  PROVE  FprintInv' /\ \E t : Prints(t)
PROOF
  <1>1. i \in Nat \ {0} /\ out \in Seq(Byte) /\ ap \in Seq(Argument) BY DEF FprintInv
  <1>2. CASE literal
    <2>1. /\ Char(i) \notin {Ascii.percent, Nul} /\ out' = out \o <<Char(i)>>
          /\ i' = i + 1 /\ format' = format /\ ap' = ap
      BY <1>2 DEF literal, putchar
    <2>2. Char(i) \in Byte BY <1>1, <2>1, CharIs
    <2>3. PICK t : t = <<Char(i)>> OBVIOUS
    <2>4. t \in Seq(Byte) BY <2>2, <2>3
    <2>5. Prints(t) BY <2>1, <2>3, <2>4 DEF Prints
    <2>6. out' \in Seq(Byte) /\ ap' \in Seq(Argument) BY <1>1, <2>1, <2>3, <2>4, Appended
    <2> QED BY <1>1, <2>1, <2>5, <2>6, BehindCharacter
  <1>3. CASE percent BY <1>3, PercentKeeps
  <1>4. CASE unsupported
    <2>1. /\ Char(i + 1) \notin {Ascii.percent, Nul}
          /\ out' = out \o <<Ascii.less, Char(i + 1), Ascii.greater>>
          /\ i' = i + 2 /\ format' = format
          /\ ap' = Append(ap, [letters |-> <<Char(i + 1)>>, arg |-> NoArgument])
          /\ Char(i + 1) \notin {Ascii.i, Ascii.d, Ascii.x, Ascii.s}
      BY <1>4 DEF unsupported, putchar
    <2>2. i + 1 \in Nat \ {0} /\ i' = (i + 1) + 1 BY <1>1, <2>1
    <2>3. Char(i + 1) \in Byte BY <2>1, <2>2, CharIs
    <2>4. PICK t : t = <<Ascii.less, Char(i + 1), Ascii.greater>> OBVIOUS
    <2>5. t \in Seq(Byte) BY <2>3, <2>4, AsciiBytes, LettersOf
    <2>6. PICK letters \in Seq(Byte), arg \in Arguments : letters = <<Char(i + 1)>> /\ arg = NoArgument
      BY <2>3, LettersOf DEF Arguments
    <2>7. letters \notin Conversions BY <2>1, <2>6, LettersApart DEF Conversions
    <2>8. Converts(letters, arg, t) BY <2>5, <2>7 DEF Converts
    <2>9. ap' = Append(ap, [letters |-> letters, arg |-> arg]) BY <2>1, <2>6
    <2>10. Prints(t) BY <2>1, <2>4, <2>5, <2>8, <2>9 DEF Prints
    <2>11. ap' \in Seq(Argument)
      <3>1. [letters |-> letters, arg |-> arg] \in Argument BY DEF Argument
      <3> QED BY <1>1, <2>9, <3>1
    <2>12. out' \in Seq(Byte) BY <1>1, <2>1, <2>4, <2>5, Appended
    <2> QED BY <2>1, <2>2, <2>10, <2>11, <2>12, BehindCharacter
  <1> QED BY <1>2, <1>3, <1>4, ConversionSteps DEF vfprint_step

-----------------------------------------------------------------------------
(* The console.  Between two calls of terminal_print, vfprint is at the    *)
(* beginning of an empty format.                                           *)

ConsoleInv ==
  /\ ScreenInv
  /\ FprintInv
  /\ ~printing => i = 1

LEMMA FormatBegins ==
  ASSUME NEW f \in Seq(Byte)
  PROVE  1 \in 1 .. Len(f) + 1 /\ ~(1 > Trailing(f) + 1)
PROOF
  <1>1. Trailing(f) \in 0 .. Len(f) BY TrailingIs
  <1>2. Len(f) \in Nat OBVIOUS
  <1> QED BY <1>1, <1>2

LEMMA EmptyFormat == <<>> \in Seq(Byte) /\ Complete(<<>>)
PROOF
  <1>1. <<>> \in Seq(Byte) /\ Len(<<>>) = 0 OBVIOUS
  <1>2. Trailing(<<>>) = 0
    <2>1. PICK f : f = <<>> OBVIOUS
    <2>2. f \in Seq(Byte) /\ Len(f) = 0 BY <1>1, <2>1
    <2>3. Trailing(f) \in 0 .. 0 BY <2>2, TrailingIs
    <2> QED BY <2>1, <2>3
  <1>3. (0 - 0) % 2 = 0 OBVIOUS
  <1> QED BY <1>1, <1>2, <1>3 DEF Complete

LEMMA InitConsole == ConsoleInit => ConsoleInv
PROOF
  <1> SUFFICES ASSUME ConsoleInit PROVE ConsoleInv OBVIOUS
  <1>1. Init /\ format = <<>> /\ ap = <<>> /\ i = 1 /\ out = <<>> BY DEF ConsoleInit
  <1>2. ScreenInv BY <1>1, InitScreen
  <1>3. ap \in Seq(Argument) /\ out \in Seq(Byte) BY <1>1
  <1>4. i \in 1 .. Len(format) + 1 /\ ~(i > Trailing(format) + 1) BY <1>1, EmptyFormat, FormatBegins
  <1>5. FprintInv BY <1>1, <1>3, <1>4, EmptyFormat DEF FprintInv
  <1> QED BY <1>1, <1>2, <1>5 DEF ConsoleInv

LEMMA ConsoleInvNext == ConsoleInv /\ [ConsoleNext]_console_vars => ConsoleInv'
PROOF
  <1> SUFFICES ASSUME ConsoleInv, [ConsoleNext]_console_vars PROVE ConsoleInv' OBVIOUS
  <1>0. ScreenInv /\ FprintInv BY DEF ConsoleInv
  <1>1. ASSUME NEW f \in Formats \cup FirstFormats, terminal_print(f) PROVE ConsoleInv'
    <2>1. /\ ~printing /\ printing' = TRUE /\ format' = f /\ ap' = ap /\ i' = i /\ out' = out
          /\ UNCHANGED vars
      BY <1>1, Zenon DEF terminal_print
    <2>2. ScreenInv' BY <1>0, <2>1, ScreenInvNext
    <2>3. i' = 1 BY <2>1 DEF ConsoleInv
    <2>4. f \in Seq(Byte) /\ Complete(f) BY FormatsAssumption DEF Byte
    <2>5. i' \in 1 .. Len(format') + 1 /\ ~(i' > Trailing(format') + 1) BY <2>1, <2>3, <2>4, FormatBegins
    <2>6. ap' \in Seq(Argument) /\ out' \in Seq(Byte) BY <1>0, <2>1 DEF FprintInv
    <2>7. FprintInv' BY <2>1, <2>4, <2>5, <2>6 DEF FprintInv
    <2> QED BY <2>1, <2>2, <2>7 DEF ConsoleInv
  <1>2. CASE vfprint
    <2>1. /\ vfprint_step /\ data' = SubSeq(out', Len(out) + 1, Len(out'))
          /\ printing /\ printing' = printing
          /\ terminal_buffer' = terminal_buffer /\ terminal_row' = terminal_row
          /\ terminal_column' = terminal_column /\ terminal_color' = terminal_color
          /\ mode' = mode /\ lines' = lines
      BY <1>2, Zenon DEF vfprint
    <2>2. FprintInv' /\ \E t : Prints(t) BY <1>0, <2>1, FprintStep
    <2>3. PICK t : Prints(t) BY <2>2
    <2>4. t \in Seq(Byte) /\ out' = out \o t /\ out \in Seq(Byte) BY <1>0, <2>3 DEF Prints, FprintInv
    <2>5. data' \in Seq(1 .. 255)
      <3>1. SubSeq(out \o t, Len(out) + 1, Len(out \o t)) = t BY <2>4, Appended
      <3>2. data' = t BY <2>1, <2>4, <3>1, Zenon
      <3> QED BY <2>4, <3>2 DEF Byte
    <2>6. TypeOK BY <1>0 DEF ScreenInv
    <2>7. TypeOK' BY <2>1, <2>5, <2>6, Zenon DEF TypeOK
    <2>8. ScreenInv' BY <1>0, <2>1, <2>7, Zenon DEF ScreenInv, NeverHalts
    <2> QED BY <2>1, <2>2, <2>8 DEF ConsoleInv
  <1>3. CASE vfprint_return
    <2>1. format' = <<>> /\ ap' = <<>> /\ i' = 1 /\ out' = <<>> /\ UNCHANGED vars
      BY <1>3, Zenon DEF vfprint_return
    <2>2. ScreenInv' BY <1>0, <2>1, ScreenInvNext
    <2>3. ap' \in Seq(Argument) /\ out' \in Seq(Byte) BY <2>1
    <2>4. i' \in 1 .. Len(format') + 1 /\ ~(i' > Trailing(format') + 1) BY <2>1, EmptyFormat, FormatBegins
    <2>5. FprintInv' BY <2>1, <2>3, <2>4, EmptyFormat DEF FprintInv
    <2> QED BY <2>1, <2>2, <2>5 DEF ConsoleInv
  <1>4. ASSUME UNCHANGED <<fprint_vars, printing>>, [Next]_vars PROVE ConsoleInv'
    <2>1. ScreenInv' BY <1>0, <1>4, ScreenInvNext
    <2>2. format' = format /\ ap' = ap /\ i' = i /\ out' = out /\ printing' = printing
      BY <1>4, Zenon DEF fprint_vars
    <2>3. FprintInv' BY <1>0, <2>2 DEF FprintInv, Trailing, Complete, SelectLastInSeq
    <2> QED BY <2>1, <2>2, <2>3 DEF ConsoleInv
  <1>5. CASE terminal_step BY <1>4, <1>5, Zenon DEF terminal_step
  <1>6. CASE UNCHANGED console_vars BY <1>4, <1>6, Zenon DEF console_vars
  <1> QED BY <1>1, <1>2, <1>3, <1>5, <1>6, Zenon DEF ConsoleNext

LEMMA ConsoleInvariant == ConsoleSpec => []ConsoleInv
PROOF BY InitConsole, ConsoleInvNext, PTL DEF ConsoleSpec

\* The console as the kernel uses it, formatted output included: the assertion of
\* terminal_putentryat never stops the kernel (terminal_putchar, vfprint).
THEOREM ConsoleNeverHalts == ConsoleSpec => []NeverHalts
PROOF
  <1>1. ConsoleInv => NeverHalts BY DEF ConsoleInv, ScreenInv
  <1> QED BY <1>1, ConsoleInvariant, PTL

\* The screen shows the end of everything written, by terminal_print, the tasks
\* and the timer, in the order in which they wrote it.
THEOREM ConsoleShowsTail == ConsoleSpec => []ScreenShowsTail
PROOF
  <1>1. ScreenInv => ScreenShowsTail
    BY Zenon DEF ScreenInv, ScreenShowsTail, Shows, Top, LineAt, W, H
  <1>2. ConsoleInv => ScreenShowsTail BY <1>1 DEF ConsoleInv
  <1> QED BY <1>2, ConsoleInvariant, PTL

\* vfprint never reads behind the null character of a format: it does not step
\* over it, nor does it find it where the letter of a conversion should be.
StaysInFormat ==
  /\ i <= Len(format) + 1
  /\ ~(Char(i) = Ascii.percent /\ Char(i + 1) = Nul)

\* For every format that does not end within a conversion, the loop of vfprint
\* keeps within it: the percent signs at its end are read two by two.
THEOREM StaysInFormatCorrect == ConsoleSpec => []StaysInFormat
PROOF
  <1>1. ASSUME FprintInv PROVE StaysInFormat
    <2>1. format \in Seq(Byte) /\ Complete(format) /\ i \in Nat \ {0} /\ i <= Len(format) + 1
      BY <1>1 DEF FprintInv
    <2>2. PICK n \in Nat, r \in Nat : n = Len(format) /\ r = Trailing(format) /\ r <= n
      BY <2>1, TrailingIs
    <2>3. (n - r) % 2 = 0 /\ (i > r + 1 => (i - (r + 1)) % 2 = 0) BY <1>1, <2>2 DEF FprintInv, Complete
    <2>4. ASSUME Char(i) = Ascii.percent, Char(i + 1) = Nul PROVE FALSE
      <3>1. Ascii.percent # Nul BY AsciiBytes DEF Nul
      <3>2. i <= n /\ format[i] = Ascii.percent BY <1>1, <2>1, <2>2, <2>4, <3>1, CharIs
      <3>3. i = n
        <4>1. SUFFICES ASSUME i + 1 <= n PROVE FALSE BY <2>1, <2>2, <3>2
        <4>2. i + 1 \in 1 .. Len(format) /\ i + 1 <= Len(format) BY <2>1, <2>2, <4>1
        <4>3. format[i + 1] \in Byte BY <2>1, <4>2
        <4>4. Char(i + 1) = format[i + 1] BY <4>2 DEF Char
        <4>5. \A x \in Byte : x # Nul BY DEF Byte, Nul
        <4> QED BY <2>4, <4>3, <4>4, <4>5
      <3>4. i # r
        <4>1. r # 0 => format[r] # Ascii.percent BY <2>1, <2>2, TrailingIs
        <4> QED BY <2>1, <3>2, <4>1
      <3>5. PICK x \in Nat : x = n - r - 1 BY <2>1, <2>2, <3>3, <3>4
      <3>6. x % 2 = 0
        <4>1. CASE i > r + 1 BY <2>2, <2>3, <3>3, <3>5, <4>1
        <4>2. CASE ~(i > r + 1)
          <5>1. x = 0 BY <2>1, <2>2, <3>3, <3>5, <4>2
          <5> QED BY <5>1
        <4> QED BY <4>1, <4>2
      <3>7. (x + 1) % 2 = 0 BY <2>2, <2>3, <3>5
      <3> QED BY <3>6, <3>7
    <2> QED BY <2>1, <2>4 DEF StaysInFormat
  <1>2. ConsoleInv => StaysInFormat BY <1>1 DEF ConsoleInv
  <1> QED BY <1>2, ConsoleInvariant, PTL

\* Every conversion of vfprint (itoa, itox, lltoa, the loop over a string) gives
\* putchar what printf prints for its argument, and the conversions for which it
\* does not are exactly those of Deviates: the ones that vfprint does not have, the
\* negative ints, the hexadecimal numbers with a digit above 9, which vfprint prints in
\* capitals, and the 64-bit hexadecimal numbers one of whose halves needs zeros in
\* front.
THEOREM ConversionsCorrect == ConsoleSpec => [][ConvertsLikePrintf]_console_vars
PROOF
  <1>1. ConsoleInv /\ [ConsoleNext]_console_vars => [ConvertsLikePrintf]_console_vars
    <2> SUFFICES ASSUME ConsoleInv, ConsoleNext PROVE ConvertsLikePrintf OBVIOUS
    <2>0. FprintInv /\ ap \in Seq(Argument) /\ out \in Seq(Byte) BY DEF ConsoleInv, FprintInv
    <2>1. ASSUME ap' = ap PROVE ConvertsLikePrintf
      <3>1. ~(Len(ap') > Len(ap)) BY <2>0, <2>1
      <3> QED BY <3>1 DEF ConvertsLikePrintf
    <2>2. ASSUME NEW f \in Formats \cup FirstFormats, terminal_print(f) PROVE ConvertsLikePrintf
      BY <2>1, <2>2, Zenon DEF terminal_print
    <2>3. CASE vfprint
      <3>1. vfprint_step BY <2>3 DEF vfprint
      <3>2. \E t : Prints(t) BY <2>0, <3>1, FprintStep
      <3>3. PICK t : Prints(t) BY <3>2
      <3>4. CASE ap' = ap BY <2>1, <3>4
      <3>5. CASE ap' # ap
        <4>1. PICK letters \in Seq(Byte), arg \in Arguments :
                ap' = Append(ap, [letters |-> letters, arg |-> arg]) /\ Converts(letters, arg, t)
          BY <3>3, <3>5 DEF Prints
        <4>2. PICK a : a = [letters |-> letters, arg |-> arg] OBVIOUS
        <4>3. a \in Argument /\ a.letters = letters /\ a.arg = arg BY <4>2 DEF Argument
        <4>4. Last(ap') = a BY <2>0, <4>1, <4>2, <4>3 DEF Last
        <4>5. t \in Seq(Byte) /\ out' = out \o t BY <3>3 DEF Prints
        <4>6. SubSeq(out', Len(out) + 1, Len(out')) = t
          <5>1. SubSeq(out \o t, Len(out) + 1, Len(out \o t)) = t BY <2>0, <4>5, Appended
          <5> QED BY <4>5, <5>1, Zenon
        <4>7. IsPrinted(letters, arg, t) <=> ~Deviates(a) BY <4>1, <4>2, ConversionText
        <4> QED BY <4>3, <4>4, <4>6, <4>7, Zenon DEF ConvertsLikePrintf
      <3> QED BY <3>4, <3>5
    <2>4. CASE vfprint_return
      <3>1. ap' = <<>> BY <2>4, Zenon DEF vfprint_return
      <3>2. ~(Len(ap') > Len(ap)) BY <2>0, <3>1
      <3> QED BY <3>2 DEF ConvertsLikePrintf
    <2>5. CASE terminal_step BY <2>1, <2>5, Zenon DEF terminal_step, fprint_vars
    <2> QED BY <2>2, <2>3, <2>4, <2>5, Zenon DEF ConsoleNext
  <1> QED BY <1>1, ConsoleInvariant, PTL DEF ConsoleSpec
=============================================================================
