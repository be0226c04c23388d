------------------------------- MODULE Printf -------------------------------
(***************************************************************************)
(* What printf prints for a format and its arguments, and whether vfprint  *)
(* prints that.  Recursion over the format keeps this module with TLC;     *)
(* ConsoleProofs compares the conversions, one by one.                     *)
(***************************************************************************)
EXTENDS Fprint, FiniteSets

\* Whether t is what printf prints for a format and its arguments.  For a conversion
\* that vfprint does not have, printf takes an argument that vfprint leaves in the list:
\* nothing that vfprint prints from there on is printf's.
RECURSIVE IsPrintf(_, _, _)
IsPrintf(f, args, t) ==
  LET Drop(s, n) == SubSeq(s, n + 1, Len(s))
      Begins(s, prefix) == IsPrefix(prefix, s)
      \* f begins with n characters for which the character c is printed.
      Prints(n, c) == Begins(t, <<c>>) /\ IsPrintf(Drop(f, n), args, Tail(t))
      Converts(c) ==
        /\ Begins(Tail(f), c)
        /\ args # <<>> /\ args[1].letters = c
        /\ \E n \in 0 .. Len(t) :
             /\ IsPrinted(c, args[1].arg, SubSeq(t, 1, n))
             /\ IsPrintf(Drop(f, 1 + Len(c)), Tail(args), Drop(t, n))
  IN  IF f = <<>> THEN args = <<>> /\ t = <<>>
      ELSE IF f[1] # Ascii.percent THEN Prints(1, f[1])
      ELSE IF f[2] = Ascii.percent THEN Prints(2, Ascii.percent)
      ELSE \E c \in Conversions : Converts(c)

\* When vfprint has reached the end of the format, neither before nor beyond, it
\* has printed what printf prints for the arguments it took, unless one of the
\* conversions is among those where they part: fprint.h calls it a printf-like
\* function, and the compiler checks its callers as callers of printf.  One such
\* conversion always shows; two of them may make up for each other.
PrintsLikePrintf ==
  i > Len(format) =>
    LET odd == {k \in DOMAIN ap : Deviates(ap[k])}
    IN  /\ i = Len(format) + 1
        /\ odd = {} => IsPrintf(format, ap, out)
        /\ Cardinality(odd) = 1 => ~IsPrintf(format, ap, out)
=============================================================================
