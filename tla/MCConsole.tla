----------------------------- MODULE MCConsole -----------------------------
(* Console for TLC: a small screen, strings that fill a row or wrap, and all *)
(* the short formats over the characters that vfprint tells apart.           *)
EXTENDS Console, Printf

A == 65
B == 66
Writes == {<<A, A, A, NewLine>>}
StringArguments == {<<>>, <<B, A>>}

Letters == {A} \cup {Ascii[n] : n \in {"percent", "d", "i", "x", "s", "l", "u"}}

ShortFormats ==
  {f \in UNION {[1 .. n -> Letters] : n \in 0 .. 3} : Complete(f)}
    \cup {f \in {<<Ascii.percent>> \o g : g \in [1 .. 3 -> Letters]} : Complete(f)}
LongFormats ==
  LET P == Ascii.percent
  IN  {<<P, Ascii.d, A, P, Ascii.l, Ascii.l, Ascii.x>>,
       <<P, Ascii.l, Ascii.l, Ascii.x, P, Ascii.l, Ascii.l, Ascii.x>>,
       <<P, Ascii.l, Ascii.l, Ascii.u, P, Ascii.s, P, Ascii.x>>}
AllFormats == ShortFormats \cup LongFormats

\* In the middle of other output, a string and a line break.
FewFormats == {<<Ascii.percent, Ascii.s, NewLine>>}

\* Numbers of one to three digits, the least int; and 64-bit numbers whose
\* halves need zeros in front or not.
Integer == {-128, -42, 0, 7, 10, 105}
Hexadecimal == {0, 10, 16, 171, 255}
Long == {18, 2571, 4114, 65535}
=============================================================================
