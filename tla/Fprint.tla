------------------------------- MODULE Fprint -------------------------------
(***************************************************************************)
(* Formatted output (lib/fprint.c).  vfprint walks over a format, one      *)
(* character or one conversion at a time.  A format is a sequence of       *)
(* character codes.                                                        *)
(*                                                                         *)
(* A format whose last character begins a conversion is left out: vfprint  *)
(* would read past its end.  All callers pass complete literals, and the   *)
(* attribute format(printf) makes the compiler warn of others.             *)
(***************************************************************************)
EXTENDS Integers, Sequences, SequencesExt

CONSTANTS
  WORD,        \* 2^32, the range of unsigned long
  Ints,        \* BOUND: int arguments
  Words,       \* BOUND: unsigned long arguments
  LongLongs,   \* BOUND: unsigned long long arguments
  Texts,       \* BOUND: string arguments
  Garbage      \* BOUND: bytes that an uninitialised byte of the stack may hold

pow16[k \in 0 .. 8] == IF k = 0 THEN 1 ELSE 16 * pow16[k - 1]

ASSUME RangeAssumption ==
  /\ \E k \in 2 .. 8 : WORD = pow16[k]
  /\ Ints \subseteq -(WORD \div 2) .. WORD \div 2 - 1
  /\ Words \subseteq 0 .. WORD - 1
  /\ LongLongs \subseteq 0 .. WORD * WORD - 1
  /\ Texts \subseteq Seq(1 .. 255)
  /\ Garbage \subseteq 0 .. 255

VARIABLES
  format,
  ap,      \* history: the conversions, and the arguments taken for them from the list
  i,       \* position in the format, from 1
  out      \* history: the characters given to putchar

fprint_vars == <<format, ap, i, out>>

\* The characters that vfprint tells apart.
Ascii == [percent |-> 37, minus |-> 45, digit0 |-> 48, less |-> 60, greater |-> 62, letterA |-> 65,
          lettera |-> 97, d |-> 100, i |-> 105, l |-> 108, s |-> 115, u |-> 117, x |-> 120]
Nul == 0
NoArgument == <<>>

\* The character at a position; the format ends with a null character.
Char(k) == IF k <= Len(format) THEN format[k] ELSE Nul

\* putchar for every character of a buffer, up to the first null one.
Printed(buf) == SelectInSeq(buf, LAMBDA c : c = Nul)
UpToNul(buf) == IF Printed(buf) = 0 THEN buf ELSE SubSeq(buf, 1, Printed(buf) - 1)

-----------------------------------------------------------------------------
(* The conversions.                                                        *)

Digit(d) == IF d > 9 THEN Ascii.letterA + (d - 10) ELSE Ascii.digit0 + d

\* lbuf: the digits that the loop of itoa and lltoa finds, the last one first.
digits[n \in 0 .. WORD * WORD - 1] ==
  IF n < 10 THEN <<Digit(n)>> ELSE <<Digit(n - (n \div 10) * 10)>> \o digits[n \div 10]

\* Fault: the digits are not reversed.
lltoa_reversed(number) == digits[number]

lltoa(number) == Reverse(digits[number])

\* A negative number leaves the first byte of lbuf unset, which ends up behind
\* the digits, and the sign is overwritten by the first digit.  The negation of
\* the least number is itself: no digit is found.
itoa(number, garbage) ==
  IF number >= 0 THEN Reverse(digits[number])
  ELSE IF number = -(WORD \div 2) THEN <<garbage>>
  ELSE Append(Reverse(digits[-number]), garbage)

\* The first loop: the shift that leaves one digit.
shift(number) == CHOOSE k \in 0 .. 7 :
  /\ number \div pow16[k] <= 15
  /\ \A j \in 0 .. k - 1 : number \div pow16[j] > 15

\* The second loop prints the digit in front and clears it.
itox_from[k \in -1 .. 7] ==
  [number \in 0 .. WORD - 1 |->
     IF k < 0 THEN <<>>
     ELSE LET digit == number \div pow16[k]
          IN  <<Digit(digit)>> \o itox_from[k - 1][number - digit * pow16[k]]]

itox(number) == itox_from[shift(number)][number]

-----------------------------------------------------------------------------
(* vfprint.  Every action leaves i behind what it has read.                *)

putchar(text) == out' = out \o text

literal ==
  /\ Char(i) \notin {Ascii.percent, Nul}
  /\ putchar(<<Char(i)>>)
  /\ i' = i + 1
  /\ UNCHANGED <<format, ap>>

\* The conversion at i has the given letters and takes the argument arg.
conversion(letters, arg, text) ==
  /\ Char(i) = Ascii.percent
  /\ \A k \in 1 .. Len(letters) : Char(i + k) = letters[k]
  /\ putchar(UpToNul(text))
  /\ i' = i + 1 + Len(letters)
  /\ ap' = Append(ap, [letters |-> letters, arg |-> arg])
  /\ UNCHANGED format

decimal == \E n \in Ints, g \in Garbage, letter \in {Ascii.d, Ascii.i} :
  conversion(<<letter>>, n, itoa(n, g))

hexadecimal == \E n \in Words : conversion(<<Ascii.x>>, n, itox(n))

string_argument == \E s \in Texts : conversion(<<Ascii.s>>, s, s)

long_hexadecimal == \E n \in LongLongs :
  conversion(<<Ascii.l, Ascii.l, Ascii.x>>, n, itox(n \div WORD) \o itox(n % WORD))

long_decimal == \E n \in LongLongs : conversion(<<Ascii.l, Ascii.l, Ascii.u>>, n, lltoa(n))

percent ==
  /\ Char(i) = Ascii.percent /\ Char(i + 1) = Ascii.percent
  /\ putchar(<<Ascii.percent>>)
  /\ i' = i + 2
  /\ UNCHANGED <<format, ap>>

\* Prints a message that names the letter, and takes no argument.
unsupported ==
  /\ Char(i) = Ascii.percent
  /\ Char(i + 1) \notin {Ascii.i, Ascii.d, Ascii.x, Ascii.s, Ascii.percent, Nul}
  /\ ~(Char(i + 1) = Ascii.l /\ Char(i + 2) = Ascii.l /\ Char(i + 3) \in {Ascii.x, Ascii.u})
  /\ putchar(<<Ascii.less, Char(i + 1), Ascii.greater>>)
  /\ i' = i + 2
  /\ ap' = Append(ap, [letters |-> <<Char(i + 1)>>, arg |-> NoArgument])
  /\ UNCHANGED format

vfprint_step ==
  \/ literal
  \/ decimal
  \/ hexadecimal
  \/ string_argument
  \/ long_hexadecimal
  \/ long_decimal
  \/ percent
  \/ unsupported

-----------------------------------------------------------------------------
(* What printf prints for a conversion, by the C standard.                 *)

\* The conversions that vfprint has in common with printf.
Conversions == {<<Ascii.d>>, <<Ascii.i>>, <<Ascii.x>>, <<Ascii.s>>,
                <<Ascii.l, Ascii.l, Ascii.x>>, <<Ascii.l, Ascii.l, Ascii.u>>}

\* The digits above 9 are the letters abcdef.
PrintfDigit(d) == IF d > 9 THEN Ascii.lettera + (d - 10) ELSE Ascii.digit0 + d

\* The numeral of n in a base: no zero in front, and it reads back as n.
IsNumeral(t, n, base) ==
  /\ t # <<>>
  /\ \A k \in DOMAIN t : \E d \in 0 .. base - 1 : t[k] = PrintfDigit(d)
  /\ Len(t) > 1 => t[1] # PrintfDigit(0)
  /\ LET value[k \in 0 .. Len(t)] ==
           IF k = 0 THEN 0
           ELSE base * value[k - 1] + (CHOOSE d \in 0 .. base - 1 : t[k] = PrintfDigit(d))
     IN  value[Len(t)] = n

\* Whether t is what a conversion prints.  Nothing printf knows prints a message
\* about the conversion.
IsPrinted(letters, arg, t) ==
  CASE letters \in {<<Ascii.d>>, <<Ascii.i>>} ->
         IF arg < 0 THEN t # <<>> /\ t[1] = Ascii.minus /\ IsNumeral(Tail(t), -arg, 10)
         ELSE IsNumeral(t, arg, 10)
    [] letters = <<Ascii.l, Ascii.l, Ascii.u>> -> IsNumeral(t, arg, 10)
    [] letters \in {<<Ascii.x>>, <<Ascii.l, Ascii.l, Ascii.x>>} -> IsNumeral(t, arg, 16)
    [] letters = <<Ascii.s>> -> t = arg
    [] OTHER -> FALSE

\* Some hexadecimal digit of the number is above 9.
HasLetter(n) == \E k \in 0 .. 7 : (n \div pow16[k]) % 16 > 9

\* Where vfprint and printf part: vfprint has only some of the conversions, itoa
\* loses the sign of a negative number, itox prints the letters ABCDEF, and the halves
\* of a 64-bit number are printed one after the other, the upper one even when it is
\* 0 and the lower one without its zeros.
Deviates(a) ==
  \/ a.letters \notin Conversions
  \/ a.letters \in {<<Ascii.d>>, <<Ascii.i>>} /\ a.arg < 0
  \/ a.letters = <<Ascii.x>> /\ HasLetter(a.arg)
  \/ /\ a.letters = <<Ascii.l, Ascii.l, Ascii.x>>
     /\ \/ a.arg < WORD \/ a.arg % WORD < WORD \div 16
        \/ HasLetter(a.arg \div WORD) \/ HasLetter(a.arg % WORD)
=============================================================================
