---------------------------- MODULE Descriptors ----------------------------
(***************************************************************************)
(* The macros of low_level.c that put segment descriptors together out of  *)
(* shifts, masks and ors, and how the CPU reads them.  A number is the set *)
(* of the positions of its 1 bits: a shift adds to the positions, a mask   *)
(* is an intersection, or is union.                                        *)
(***************************************************************************)
EXTENDS Integers

\* The bits of a uint32_t, in two halves to stay below 2^31.
Bits(n) ==
  {b \in 0 .. 15 : (n \div 2^b) % 2 = 1}
    \cup {b \in 16 .. 31 : ((n \div 2^16) \div 2^(b - 16)) % 2 = 1}
Shl(x, k) == {b + k : b \in x}
Shr(x, k) == {b - k : b \in {c \in x : c >= k}}

\* A shift of a uint32_t drops what leaves its 32 bits.
Shl32(x, k) == Shl(x, k) \cap 0 .. 31

\* A normal segment that is present and not accessed, of 32 bits, its limit
\* counted in blocks of 4 KiB: so are the segments of the threads.
create_descriptor(base, limit, privilege, permissions) ==
  LET access == Shl(permissions, 1) \cup {4} \cup Shl(privilege, 5) \cup {7}
      high == (limit \cap 16 .. 19) \cup (Shr(base, 16) \cap 0 .. 7) \cup (base \cap 24 .. 31)
                \cup Shl(access, 8) \cup Shl({2, 3}, 20)
  IN  Shl(high, 32) \cup Shl32(base, 16) \cup (limit \cap 0 .. 15)

\* 4 for code; readable or writable, neither conforming nor growing down.
create_code_descriptor(base, limit, privilege) ==
  create_descriptor(base, limit, privilege, {2, 0})

create_data_descriptor(base, limit, privilege) ==
  create_descriptor(base, limit, privilege, {0})

-----------------------------------------------------------------------------
(* How the CPU reads a descriptor.                                         *)

BitField(d, first, last) == Shr(d \cap first .. last, first)

cpu_segment(d) ==
  [base |-> BitField(d, 16, 39) \cup Shl(BitField(d, 56, 63), 24),
   limit |-> BitField(d, 0, 15) \cup Shl(BitField(d, 48, 51), 16),
   privilege |-> BitField(d, 45, 46),
   present |-> 47 \in d,
   type |-> BitField(d, 40, 44)]
=============================================================================
