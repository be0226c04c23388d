--------------------------- MODULE LowLevelProofs ---------------------------
(***************************************************************************)
(* Proofs about LowLevel, for every number of tasks, size of the reserve,  *)
(* word, image and user code: the threads keep their registers and         *)
(* segments, whoever runs in between.                                      *)
(***************************************************************************)
EXTENDS LowLevel, TLAPS

-----------------------------------------------------------------------------
(* Segment descriptors.                                                    *)

LEMMA BitsOf32 == \A n : Bits(n) \subseteq 0 .. 31
PROOF BY DEF Bits

\* Where each bit of a descriptor of a thread comes from.
LEMMA DescriptorBit ==
  ASSUME NEW B \in SUBSET (0 .. 31), NEW L \in SUBSET (0 .. 31), NEW P \in SUBSET (0 .. 2),
         NEW b \in Int
  PROVE  b \in create_descriptor(B, L, {0, 1}, P) <=>
           \/ b \in 0 .. 15 /\ b \in L
           \/ b \in 16 .. 39 /\ b - 16 \in B
           \/ b \in 41 .. 43 /\ b - 41 \in P
           \/ b \in 44 .. 47 \/ b \in 54 .. 55
           \/ b \in 48 .. 51 /\ b - 32 \in L
           \/ b \in 56 .. 63 /\ b - 32 \in B
PROOF
  <1> DEFINE access == Shl(P, 1) \cup {4} \cup Shl({0, 1}, 5) \cup {7}
             high == (L \cap 16 .. 19) \cup (Shr(B, 16) \cap 0 .. 7) \cup (B \cap 24 .. 31)
                       \cup Shl(access, 8) \cup Shl({2, 3}, 20)
  <1>1. create_descriptor(B, L, {0, 1}, P) =
          Shl(high, 32) \cup Shl32(B, 16) \cup (L \cap 0 .. 15)
    BY DEF create_descriptor
  <1>2. \A a \in Int : a \in access <=> a - 1 \in P \/ a \in 4 .. 7
    BY DEF Shl
  <1>3. \A a \in Int : a \in high <=> \/ a \in 16 .. 19 /\ a \in L
                                      \/ a \in 0 .. 7 /\ a + 16 \in B
                                      \/ a \in 24 .. 31 /\ a \in B
                                      \/ a - 8 \in access
                                      \/ a \in 22 .. 23
    <2> HIDE DEF access
    <2>1. \A a \in Int : a \in Shr(B, 16) /\ a \in 0 .. 7 <=> a \in 0 .. 7 /\ a + 16 \in B
      BY DEF Shr
    <2>2. access \subseteq Int BY DEF access, Shl
    <2>3. \A a \in Int : a \in Shl(access, 8) <=> a - 8 \in access BY <2>2 DEF Shl
    <2>4. \A a \in Int : a \in Shl({2, 3}, 20) <=> a \in 22 .. 23 BY DEF Shl
    <2> QED BY <2>1, <2>3, <2>4
  <1>4. b \in Shl(high, 32) <=> b - 32 \in high
    <2>1. high \subseteq Int BY DEF Shl, Shr
    <2> HIDE DEF high
    <2> QED BY <2>1 DEF Shl
  <1>5. b \in Shl32(B, 16) <=> b \in 16 .. 31 /\ b - 16 \in B
    BY DEF Shl32, Shl
  <1> HIDE DEF high, access
  <1>6. b - 32 \in Int /\ (b - 32) - 8 \in Int OBVIOUS
  <1>7. b - 32 \in high <=> \/ b \in 48 .. 51 /\ b - 32 \in L
                            \/ b \in 32 .. 39 /\ b - 16 \in B
                            \/ b \in 56 .. 63 /\ b - 32 \in B
                            \/ b - 41 \in P \/ b \in 44 .. 47
                            \/ b \in 54 .. 55
    <2>1. ((b - 32) - 8 \in access) <=> (b - 41 \in P \/ b \in 44 .. 47)
      <3>1. ((b - 32) - 8) - 1 = b - 41 OBVIOUS
      <3>2. ((b - 32) - 8 \in 4 .. 7) <=> b \in 44 .. 47 OBVIOUS
      <3> QED BY <1>2, <1>6, <3>1, <3>2
    <2>2. (b - 32) + 16 = b - 16 OBVIOUS
    <2> QED BY <1>3, <1>6, <2>1, <2>2
  <1>8. b - 41 \in P <=> b \in 41 .. 43 /\ b - 41 \in P OBVIOUS
  <1> QED BY <1>1, <1>4, <1>5, <1>7, <1>8

\* The CPU reads back what create_descriptor packs.
LEMMA SegmentReadBack ==
  ASSUME NEW B \in SUBSET (0 .. 31), NEW L \in SUBSET (0 .. 31), NEW P \in SUBSET (0 .. 2)
  PROVE  LET d == create_descriptor(B, L, {0, 1}, P)
         IN  /\ d \subseteq 0 .. 63
             /\ cpu_segment(d) = [base |-> B, limit |-> L \cap 0 .. 19, privilege |-> {0, 1},
                                  present |-> TRUE, type |-> {p + 1 : p \in P} \cup {4}]
PROOF
  <1> DEFINE d == create_descriptor(B, L, {0, 1}, P)
             Bit(b) == \/ b \in 0 .. 15 /\ b \in L
                       \/ b \in 16 .. 39 /\ b - 16 \in B
                       \/ b \in 41 .. 43 /\ b - 41 \in P
                       \/ b \in 44 .. 47 \/ b \in 54 .. 55
                       \/ b \in 48 .. 51 /\ b - 32 \in L
                       \/ b \in 56 .. 63 /\ b - 32 \in B
  <1>1. d \subseteq Int
    BY DEF create_descriptor, Shl, Shr, Shl32
  <1>2. \A b \in Int : b \in d <=> Bit(b)
    BY DescriptorBit
  <1> HIDE DEF d
  <1>3. d \subseteq 0 .. 63
    BY <1>1, <1>2
  <1>6. BitField(d, 16, 39) \cup Shl(BitField(d, 56, 63), 24) = B
    <2>1. \A b \in Int : b \in BitField(d, 16, 39) <=> b \in 0 .. 23 /\ b \in B
      <3>1. \A b \in Int : b \in BitField(d, 16, 39) <=> b \in 0 .. 23 /\ b + 16 \in d
        BY <1>1 DEF BitField, Shr
      <3> QED BY <1>2, <3>1
    <2>2. \A b \in Int : b \in Shl(BitField(d, 56, 63), 24) <=> b \in 24 .. 31 /\ b \in B
      <3>0. /\ BitField(d, 56, 63) \subseteq Int
            /\ \A b \in Int : b \in BitField(d, 56, 63) <=> b \in 0 .. 7 /\ b + 56 \in d
        BY <1>1 DEF BitField, Shr
      <3>1. \A b \in Int : b \in Shl(BitField(d, 56, 63), 24) <=> b \in 24 .. 31 /\ b + 32 \in d
        <4>1. \A b \in Int : b \in Shl(BitField(d, 56, 63), 24) <=> b - 24 \in BitField(d, 56, 63)
          BY <3>0 DEF Shl
        <4>2. \A b \in Int : (b - 24) + 56 = b + 32 /\ b - 24 \in Int OBVIOUS
        <4> QED BY <3>0, <4>1, <4>2
      <3> QED BY <1>2, <3>1
    <2>3. BitField(d, 16, 39) \subseteq Int /\ Shl(BitField(d, 56, 63), 24) \subseteq Int
      BY <1>1 DEF BitField, Shr, Shl
    <2>4. \A b \in B : b \in 0 .. 23 \/ b \in 24 .. 31 OBVIOUS
    <2>5. BitField(d, 16, 39) \cup Shl(BitField(d, 56, 63), 24) \subseteq B
      BY <2>1, <2>2, <2>3
    <2>6. ASSUME NEW b \in B PROVE b \in BitField(d, 16, 39) \cup Shl(BitField(d, 56, 63), 24)
      <3>1. b \in Int OBVIOUS
      <3> QED BY <3>1, <2>1, <2>2, <2>4
    <2> QED BY <2>5, <2>6
  <1>7. BitField(d, 0, 15) \cup Shl(BitField(d, 48, 51), 16) = L \cap 0 .. 19
    <2>1. \A b \in Int : b \in BitField(d, 0, 15) <=> b \in 0 .. 15 /\ b \in L
      <3>1. \A b \in Int : b \in BitField(d, 0, 15) <=> b \in 0 .. 15 /\ b \in d
        BY <1>1 DEF BitField, Shr
      <3> QED BY <1>2, <3>1
    <2>2. \A b \in Int : b \in Shl(BitField(d, 48, 51), 16) <=> b \in 16 .. 19 /\ b \in L
      <3>0. /\ BitField(d, 48, 51) \subseteq Int
            /\ \A b \in Int : b \in BitField(d, 48, 51) <=> b \in 0 .. 3 /\ b + 48 \in d
        BY <1>1 DEF BitField, Shr
      <3>1. \A b \in Int : b \in Shl(BitField(d, 48, 51), 16) <=> b \in 16 .. 19 /\ b + 32 \in d
        <4>1. \A b \in Int : b \in Shl(BitField(d, 48, 51), 16) <=> b - 16 \in BitField(d, 48, 51)
          BY <3>0 DEF Shl
        <4>2. \A b \in Int : (b - 16) + 48 = b + 32 /\ b - 16 \in Int OBVIOUS
        <4> QED BY <3>0, <4>1, <4>2
      <3> QED BY <1>2, <3>1
    <2>3. BitField(d, 0, 15) \subseteq Int /\ Shl(BitField(d, 48, 51), 16) \subseteq Int
      BY <1>1 DEF BitField, Shr, Shl
    <2> QED BY <2>1, <2>2, <2>3
  <1>8. BitField(d, 45, 46) = {0, 1}
    <2>1. 45 \in d /\ 46 \in d BY <1>2
    <2> QED BY <1>1, <2>1 DEF BitField, Shr
  <1>9. 47 \in d
    BY <1>2
  <1>10. BitField(d, 40, 44) = {p + 1 : p \in P} \cup {4}
    <2>1. \A b \in Int : b \in BitField(d, 40, 44) <=> b \in 0 .. 4 /\ b + 40 \in d
      BY <1>1 DEF BitField, Shr
    <2>2. \A b \in Int : b \in BitField(d, 40, 44) <=> b = 4 \/ (b \in 1 .. 3 /\ b - 1 \in P)
      BY <1>2, <2>1
    <2>3. BitField(d, 40, 44) \subseteq Int BY <1>1 DEF BitField, Shr
    <2> QED BY <2>2, <2>3
  <1> QED BY <1>3, <1>6, <1>7, <1>8, <1>9, <1>10 DEF cpu_segment, d

\* The descriptors of a thread are the segments of its image.
LEMMA DescriptorsAreSegments ==
  ASSUME NEW start, NEW size
  PROVE  /\ descriptors(start, size) \in [{"code", "data"} -> SUBSET (0 .. 63)]
         /\ [k \in {"code", "data"} |-> cpu_segment(descriptors(start, size)[k])]
              = Segments(start, size)
PROOF
  <1> DEFINE Type(P) == {p + 1 : p \in P} \cup {4}
             Read(P) == [base |-> Bits(start), limit |-> Bits(size) \cap 0 .. 19,
                         privilege |-> {0, 1}, present |-> TRUE, type |-> Type(P)]
             code == create_descriptor(Bits(start), Bits(size), {0, 1}, {2, 0})
             data == create_descriptor(Bits(start), Bits(size), {0, 1}, {0})
  <1>1. descriptors(start, size) = [code |-> code, data |-> data]
    BY DEF descriptors, create_code_descriptor, create_data_descriptor
  <1>2. Bits(start) \in SUBSET (0 .. 31) /\ Bits(size) \in SUBSET (0 .. 31) BY BitsOf32
  <1>3. Type({2, 0}) = {4, 3, 1} /\ Type({0}) = {4, 1}
    OBVIOUS
  <1>4. {2, 0} \in SUBSET (0 .. 2) /\ {0} \in SUBSET (0 .. 2) OBVIOUS
  <1>5. ASSUME NEW P \in SUBSET (0 .. 2)
        PROVE  LET d == create_descriptor(Bits(start), Bits(size), {0, 1}, P)
               IN  d \subseteq 0 .. 63 /\ cpu_segment(d) = Read(P)
    BY <1>2, SegmentReadBack
  <1>6. code \subseteq 0 .. 63 /\ cpu_segment(code) = Read({2, 0}) BY <1>4, <1>5
  <1>7. data \subseteq 0 .. 63 /\ cpu_segment(data) = Read({0}) BY <1>4, <1>5
  <1>8. Read({2, 0}) = Segment(start, size, {4, 3, 1}) /\ Read({0}) = Segment(start, size, {4, 1})
    BY <1>3 DEF Segment
  <1> HIDE DEF code, data, Read
  <1>9. cpu_segment(code) = Segment(start, size, {4, 3, 1}) /\ cpu_segment(data) = Segment(start, size, {4, 1})
    BY <1>6, <1>7, <1>8
  <1>10. [k \in {"code", "data"} |-> cpu_segment([code |-> code, data |-> data][k])]
           = [code |-> cpu_segment(code), data |-> cpu_segment(data)]
    OBVIOUS
  <1>11. [code |-> code, data |-> data] \in [{"code", "data"} -> SUBSET (0 .. 63)]
    <2>1. code \in SUBSET (0 .. 63) /\ data \in SUBSET (0 .. 63) BY <1>6, <1>7, Zenon
    <2>2. PICK S : S = SUBSET (0 .. 63) OBVIOUS
    <2>3. code \in S /\ data \in S BY <2>1, <2>2, Zenon
    <2>4. PICK a \in S, b \in S : a = code /\ b = data BY <2>3, Zenon
    <2>5. [code |-> a, data |-> b] \in [{"code", "data"} -> S] OBVIOUS
    <2> QED BY <2>2, <2>4, <2>5, Zenon
  <1>12. [code |-> cpu_segment(code), data |-> cpu_segment(data)] = Segments(start, size)
    BY <1>9 DEF Segments
  <1> QED BY <1>1, <1>10, <1>11, <1>12

-----------------------------------------------------------------------------
(* Memory.                                                                 *)

LEMMA Layout ==
  /\ context_idle \in Nat /\ PushaWords = 8 /\ FrameWords = 5 /\ ContextWords = 16
  /\ \A c \in Contexts : c \in Nat /\ Address(c) = 16 * c /\ Address(c) \in Nat
  /\ \A c \in Contexts : \A o \in 0 .. 15 : Address(c) + o \in Addresses
  /\ \A a \in Addresses : a \in Nat
PROOF BY SizeAssumption
      DEF context_idle, Contexts, Address, Addresses, PushaWords, FrameWords, ContextWords

LEMMA Offsets ==
  /\ Offset.edi = 0 /\ Offset.esi = 1 /\ Offset.ebp = 2 /\ Offset.ebx = 4
  /\ Offset.edx = 5 /\ Offset.ecx = 6 /\ Offset.eax = 7
  /\ Offset.eip = 8 /\ Offset.cs = 9 /\ Offset.flags = 10 /\ Offset.esp = 11 /\ Offset.ss = 12
  /\ Offset.start_address = 13 /\ Offset.memsize = 14 /\ Offset.range = 15
  /\ Registers \ {"ds"} \subseteq DOMAIN Offset
  /\ {"start_address", "memsize", "range"} \subseteq DOMAIN Offset
  /\ \A f \in DOMAIN Offset : Offset[f] \in 0 .. 15
PROOF BY DEF Offset, Registers

\* Contexts do not overlap.
LEMMA Apart ==
  ASSUME NEW c \in Contexts, NEW d \in Contexts, c # d, NEW o \in 0 .. 15
  PROVE  ~(Address(d) + o >= Address(c) /\ Address(d) + o < Address(c) + 16)
PROOF
  <1>1. c \in Nat /\ d \in Nat /\ Address(c) = 16 * c /\ Address(d) = 16 * d BY Layout
  <1>2. c < d \/ d < c BY <1>1
  <1> QED BY <1>1, <1>2

\* What the memory holds after a push.
LEMMA PushEffect ==
  ASSUME NEW m \in [Addresses -> Nat], NEW sp \in Nat, NEW words \in Seq(Nat)
  PROVE  /\ Push(m, sp, words) \in [Addresses -> Nat]
         /\ \A k \in 1 .. Len(words) : sp - k \in Addresses => Push(m, sp, words)[sp - k] = words[k]
         /\ \A a \in Addresses : ~(a < sp /\ a >= sp - Len(words)) => Push(m, sp, words)[a] = m[a]
PROOF
  <1>1. \A a \in Addresses : a \in Nat BY Layout
  <1>2. ASSUME NEW a \in Addresses, a < sp, a >= sp - Len(words)
        PROVE  words[sp - a] \in Nat
    <2>1. sp - a \in 1 .. Len(words) BY <1>1, <1>2
    <2> QED BY <2>1
  <1>3. ASSUME NEW k \in 1 .. Len(words), sp - k \in Addresses
        PROVE  Push(m, sp, words)[sp - k] = words[k]
    <2>1. sp - k < sp /\ sp - k >= sp - Len(words) /\ sp - (sp - k) = k OBVIOUS
    <2> QED BY <1>3, <2>1 DEF Push
  <1> QED BY <1>2, <1>3 DEF Push

\* The prologue of the handlers saves the registers in the context that esp0
\* points behind, and touches nothing else.
LEMMA Saved ==
  ASSUME NEW m \in [Addresses -> Nat], NEW r \in [Registers -> Nat], NEW c \in Contexts,
         NEW m2, m2 = Push(Push(m, Address(c) + 13, InterruptFrame(r)), Address(c) + 8,
                           pusha(r, Address(c) + 8))
  PROVE  /\ m2 \in [Addresses -> Nat]
         /\ popa_iret(m2, Address(c)) = [r EXCEPT !.ds = r.ss]
         /\ \A f \in {"start_address", "memsize", "range"} :
              Field(m2, Address(c), f) = Field(m, Address(c), f)
         /\ \A d \in Contexts \ {c} : \A f \in DOMAIN Offset :
              Field(m2, Address(d), f) = Field(m, Address(d), f)
PROOF
  <1> DEFINE p == Address(c)
             fr == InterruptFrame(r)
             pu == pusha(r, p + 8)
             m1 == Push(m, p + 13, fr)
  <1>1. p \in Nat /\ p + 8 \in Nat /\ p + 13 \in Nat /\ \A o \in 0 .. 15 : p + o \in Addresses
    BY Layout
  <1>2. \A f \in Registers : r[f] \in Nat OBVIOUS
  <1>3. fr \in Seq(Nat) /\ Len(fr) = 5
    BY <1>2 DEF InterruptFrame, Registers
  <1>4. pu \in Seq(Nat) /\ Len(pu) = 8
    BY <1>1, <1>2 DEF pusha, Registers
  <1>5. fr[1] = r.ss /\ fr[2] = r.esp /\ fr[3] = r.flags /\ fr[4] = r.cs /\ fr[5] = r.eip
    BY DEF InterruptFrame
  <1>6. /\ pu[1] = r.eax /\ pu[2] = r.ecx /\ pu[3] = r.edx /\ pu[4] = r.ebx
        /\ pu[6] = r.ebp /\ pu[7] = r.esi /\ pu[8] = r.edi
    BY DEF pusha
  <1> HIDE DEF p, fr, pu
  <1>7. /\ m1 \in [Addresses -> Nat]
        /\ \A k \in 1 .. 5 : (p + 13) - k \in Addresses => m1[(p + 13) - k] = fr[k]
        /\ \A a \in Addresses : ~(a < p + 13 /\ a >= (p + 13) - 5) => m1[a] = m[a]
    <2>1. /\ m1 \in [Addresses -> Nat]
          /\ \A k \in 1 .. Len(fr) : (p + 13) - k \in Addresses => m1[(p + 13) - k] = fr[k]
          /\ \A a \in Addresses : ~(a < p + 13 /\ a >= (p + 13) - Len(fr)) => m1[a] = m[a]
      BY <1>1, <1>3, PushEffect, Zenon
    <2> HIDE DEF m1
    <2> QED BY <1>3, <2>1
  <1> HIDE DEF m1
  <1>8. m2 = Push(m1, p + 8, pu) BY DEF m1, p, fr, pu
  <1>9. /\ m2 \in [Addresses -> Nat]
        /\ \A k \in 1 .. 8 : (p + 8) - k \in Addresses => m2[(p + 8) - k] = pu[k]
        /\ \A a \in Addresses : ~(a < p + 8 /\ a >= (p + 8) - 8) => m2[a] = m1[a]
    <2>1. /\ Push(m1, p + 8, pu) \in [Addresses -> Nat]
          /\ \A k \in 1 .. Len(pu) : (p + 8) - k \in Addresses => Push(m1, p + 8, pu)[(p + 8) - k] = pu[k]
          /\ \A a \in Addresses : ~(a < p + 8 /\ a >= (p + 8) - Len(pu)) => Push(m1, p + 8, pu)[a] = m1[a]
      BY <1>1, <1>4, <1>7, PushEffect, Zenon
    <2> QED BY <1>4, <1>8, <2>1
  <1>10. \A a \in Addresses : a \in Nat BY Layout
  <1>11. /\ m2[p] = r.edi /\ m2[p + 1] = r.esi /\ m2[p + 2] = r.ebp /\ m2[p + 4] = r.ebx
         /\ m2[p + 5] = r.edx /\ m2[p + 6] = r.ecx /\ m2[p + 7] = r.eax
    <2>1. (p + 8) - 8 = p + 0 /\ (p + 8) - 7 = p + 1 /\ (p + 8) - 6 = p + 2 /\ (p + 8) - 4 = p + 4
          /\ (p + 8) - 3 = p + 5 /\ (p + 8) - 2 = p + 6 /\ (p + 8) - 1 = p + 7 /\ p + 0 = p
      BY <1>1
    <2> QED BY <1>1, <1>6, <1>9, <2>1
  <1>12. /\ m2[p + 8] = r.eip /\ m2[p + 9] = r.cs /\ m2[p + 10] = r.flags /\ m2[p + 11] = r.esp
         /\ m2[p + 12] = r.ss
    <2>1. (p + 13) - 5 = p + 8 /\ (p + 13) - 4 = p + 9 /\ (p + 13) - 3 = p + 10
          /\ (p + 13) - 2 = p + 11 /\ (p + 13) - 1 = p + 12
      BY <1>1
    <2>2. \A o \in 8 .. 12 : m2[p + o] = m1[p + o] BY <1>1, <1>9
    <2> QED BY <1>1, <1>5, <1>7, <2>1, <2>2
  <1>13. \A o \in 13 .. 15 : m2[p + o] = m[p + o]
    <2>1. \A o \in 13 .. 15 : m2[p + o] = m1[p + o] BY <1>1, <1>9
    <2> QED BY <1>1, <1>7, <2>1
  <1>14. ASSUME NEW d \in Contexts \ {c}, NEW o \in 0 .. 15
         PROVE  m2[Address(d) + o] = m[Address(d) + o]
    <2>1. Address(d) + o \in Addresses BY Layout
    <2>2. ~(Address(d) + o >= p /\ Address(d) + o < p + 16) BY Apart DEF p
    <2>3. Address(d) + o \in Nat BY <2>1, <1>10
    <2> QED BY <1>1, <1>7, <1>9, <2>1, <2>2, <2>3
  <1>15. popa_iret(m2, p) = [r EXCEPT !.ds = r.ss]
    <2>1. ASSUME NEW f \in Registers \ {"ds"} PROVE m2[p + Offset[f]] = r[f]
      BY <1>11, <1>12, <1>1, Offsets DEF Registers
    <2>2. "ss" \in Registers \ {"ds"} BY DEF Registers
    <2> QED BY <2>1, <2>2 DEF popa_iret, Field
  <1>16. \A f \in {"start_address", "memsize", "range"} : m2[p + Offset[f]] = m[p + Offset[f]]
    BY <1>13, Offsets
  <1>17. \A d \in Contexts \ {c} : \A f \in DOMAIN Offset :
           m2[Address(d) + Offset[f]] = m[Address(d) + Offset[f]]
    BY <1>14, Offsets
  <1> QED BY <1>9, <1>15, <1>16, <1>17 DEF Field, p

\* The memory that dup_thread leaves when c becomes c and c2.
DupMemory(m, c, c2) ==
  hw_context_set_return1(
    hw_context_set_return1(
      copy_context([m EXCEPT ![Address(c2) + Offset.range] = 0], Address(c2), Address(c)),
      Address(c), 1),
    Address(c2), 0)

\* It copies the context of the caller, and only eax tells the two apart.
LEMMA Duplicated ==
  ASSUME NEW m \in [Addresses -> Nat], NEW c \in Contexts, NEW c2 \in Contexts \ {c},
         NEW m2, m2 = DupMemory(m, c, c2)
  PROVE  /\ m2 \in [Addresses -> Nat]
         /\ popa_iret(m2, Address(c)) = [popa_iret(m, Address(c)) EXCEPT !.eax = 1]
         /\ popa_iret(m2, Address(c2)) = [popa_iret(m, Address(c)) EXCEPT !.eax = 0]
         /\ \A f \in {"start_address", "memsize"} :
              /\ Field(m2, Address(c), f) = Field(m, Address(c), f)
              /\ Field(m2, Address(c2), f) = Field(m, Address(c), f)
         /\ \A d \in Contexts \ {c, c2} : \A f \in DOMAIN Offset :
              Field(m2, Address(d), f) = Field(m, Address(d), f)
PROOF
  <1> DEFINE p == Address(c)
             q == Address(c2)
             fresh == [m EXCEPT ![q + Offset.range] = 0]
             copied == copy_context(fresh, q, p)
  <1>1. /\ p \in Nat /\ q \in Nat
        /\ \A o \in 0 .. 15 : p + o \in Addresses /\ q + o \in Addresses
        /\ \A a \in Addresses : a \in Nat
    BY Layout
  <1>2. \A d \in Contexts \ {c2} : \A o \in 0 .. 15 :
          /\ Address(d) + o \in Addresses
          /\ ~(Address(d) + o >= q /\ Address(d) + o < q + 16)
    BY Layout, Apart DEF q
  <1>3. \A o \in 0 .. 15 : ~(q + o >= p /\ q + o < p + 16)
    BY Apart DEF p, q
  <1>4. \A d \in Contexts \ {c} : \A o \in 0 .. 15 : ~(Address(d) + o >= p /\ Address(d) + o < p + 16)
    BY Apart DEF p
  <1>5. Offset.range = 15 /\ Offset.eax = 7 /\ ContextWords = 16 BY Offsets, Layout
  <1>6. m2 = [[copied EXCEPT ![p + 7] = 1] EXCEPT ![q + 7] = 0]
    BY <1>5 DEF DupMemory, hw_context_set_return1, copied, fresh, p, q
  <1>7. fresh \in [Addresses -> Nat] /\ \A a \in Addresses : a # q + 15 => fresh[a] = m[a]
    BY <1>1, <1>5
  <1>8. ASSUME NEW a \in Addresses, a >= q, a < q + 16 PROVE p + (a - q) \in Addresses
    <2>1. a - q \in 0 .. 15 BY <1>1, <1>8
    <2> QED BY <1>1, <2>1
  <1> HIDE DEF fresh
  <1>9. /\ copied \in [Addresses -> Nat]
        /\ \A a \in Addresses : copied[a] = IF a >= q /\ a < q + 16 THEN fresh[p + (a - q)] ELSE fresh[a]
    BY <1>5, <1>7, <1>8 DEF copy_context
  <1>10. \A o \in 0 .. 15 : copied[q + o] = m[p + o]
    <2> SUFFICES ASSUME NEW o \in 0 .. 15 PROVE copied[q + o] = m[p + o] OBVIOUS
    <2>1. q + o \in Addresses /\ q + o >= q /\ q + o < q + 16 /\ (q + o) - q = o BY <1>1
    <2>2. copied[q + o] = fresh[p + o] BY <1>9, <2>1
    <2>3. p + o # q + 15
      <3>1. p + o \in Nat /\ ~(p + o >= q /\ p + o < q + 16) BY <1>1, <1>2 DEF p
      <3> QED BY <1>1, <3>1
    <2> QED BY <1>1, <1>7, <2>2, <2>3
  <1>11. \A d \in Contexts \ {c2} : \A o \in 0 .. 15 : copied[Address(d) + o] = m[Address(d) + o]
    <2> SUFFICES ASSUME NEW d \in Contexts \ {c2}, NEW o \in 0 .. 15
                 PROVE  copied[Address(d) + o] = m[Address(d) + o]
      OBVIOUS
    <2>1. Address(d) + o \in Addresses /\ ~(Address(d) + o >= q /\ Address(d) + o < q + 16) BY <1>2
    <2>2. Address(d) + o \in Nat BY <1>1, <2>1
    <2>3. Address(d) + o # q + 15 BY <1>1, <2>1, <2>2
    <2> QED BY <1>7, <1>9, <2>1, <2>3
  <1> HIDE DEF copied
  <1>12. m2 \in [Addresses -> Nat] /\ \A a \in Addresses : a # p + 7 /\ a # q + 7 => m2[a] = copied[a]
    <2>1. p + 7 \in Addresses /\ q + 7 \in Addresses BY <1>1
    <2>2. copied \in [Addresses -> Nat] BY <1>9
    <2> HIDE DEF p, q
    <2> DEFINE one == [copied EXCEPT ![p + 7] = 1]
    <2>3. one \in [Addresses -> Nat] /\ \A a \in Addresses : a # p + 7 => one[a] = copied[a]
      BY <2>1, <2>2
    <2>4. m2 = [one EXCEPT ![q + 7] = 0] BY <1>6
    <2> HIDE DEF one
    <2>5. m2 \in [Addresses -> Nat]
      <3>1. one \in [Addresses -> Nat] /\ 0 \in Nat BY <2>3
      <3>2. [one EXCEPT ![q + 7] = 0] \in [Addresses -> Nat] BY <3>1
      <3> QED BY <2>4, <3>2
    <2>6. \A a \in Addresses : a # q + 7 => m2[a] = one[a] BY <2>3, <2>4
    <2> QED BY <2>3, <2>5, <2>6
  <1>13. m2[p + 7] = 1 /\ m2[q + 7] = 0
    <2>1. p + 7 # q + 7
      <3>1. ~(q + 7 >= p /\ q + 7 < p + 16) BY <1>3
      <3> QED BY <1>1, <3>1
    <2> QED BY <1>1, <1>6, <1>9, <2>1
  <1>14. \A o \in 0 .. 15 : o # 7 => m2[p + o] = m[p + o]
    <2> SUFFICES ASSUME NEW o \in 0 .. 15, o # 7 PROVE m2[p + o] = m[p + o] OBVIOUS
    <2>1. p + o \in Addresses /\ p + o # p + 7 BY <1>1
    <2>2. p + o # q + 7
      <3>1. ~(q + 7 >= p /\ q + 7 < p + 16) BY <1>3
      <3> QED BY <1>1, <3>1
    <2>3. copied[p + o] = m[p + o] BY <1>11 DEF p
    <2> QED BY <1>12, <2>1, <2>2, <2>3
  <1>15. \A o \in 0 .. 15 : o # 7 => m2[q + o] = m[p + o]
    <2> SUFFICES ASSUME NEW o \in 0 .. 15, o # 7 PROVE m2[q + o] = m[p + o] OBVIOUS
    <2>1. q + o \in Addresses /\ q + o # q + 7 BY <1>1
    <2>2. q + o # p + 7
      <3>1. ~(q + o >= p /\ q + o < p + 16) BY <1>3
      <3> QED BY <1>1, <3>1
    <2> QED BY <1>10, <1>12, <2>1, <2>2
  <1>16. ASSUME NEW d \in Contexts \ {c, c2}, NEW o \in 0 .. 15
         PROVE  m2[Address(d) + o] = m[Address(d) + o]
    <2>1. Address(d) + o \in Addresses /\ ~(Address(d) + o >= q /\ Address(d) + o < q + 16) BY <1>2
    <2>2. ~(Address(d) + o >= p /\ Address(d) + o < p + 16) BY <1>4
    <2>3. Address(d) + o # p + 7 /\ Address(d) + o # q + 7 BY <1>1, <2>1, <2>2
    <2> QED BY <1>11, <1>12, <2>1, <2>3
  <1>17. ASSUME NEW f \in Registers \ {"ds"}
         PROVE  /\ m2[p + Offset[f]] = IF f = "eax" THEN 1 ELSE m[p + Offset[f]]
                /\ m2[q + Offset[f]] = IF f = "eax" THEN 0 ELSE m[p + Offset[f]]
    <2>1. f # "eax" => Offset[f] # 7 BY Offsets DEF Registers
    <2>2. Offset[f] \in 0 .. 15 BY Offsets
    <2> QED BY <1>5, <1>13, <1>14, <1>15, <2>1, <2>2
  <1>18. /\ popa_iret(m2, p) = [popa_iret(m, p) EXCEPT !.eax = 1]
         /\ popa_iret(m2, q) = [popa_iret(m, p) EXCEPT !.eax = 0]
    <2>1. "ss" \in Registers \ {"ds"} /\ "eax" \in Registers \ {"ds"} /\ "ss" # "eax" BY DEF Registers
    <2> QED BY <1>17, <2>1 DEF popa_iret, Field
  <1>19. \A f \in {"start_address", "memsize"} : m2[p + Offset[f]] = m[p + Offset[f]]
                                               /\ m2[q + Offset[f]] = m[p + Offset[f]]
    BY <1>14, <1>15, Offsets
  <1>20. \A d \in Contexts \ {c, c2} : \A f \in DOMAIN Offset :
           m2[Address(d) + Offset[f]] = m[Address(d) + Offset[f]]
    BY <1>16, Offsets
  <1> QED BY <1>12, <1>18, <1>19, <1>20 DEF Field, p, q

-----------------------------------------------------------------------------
(* The inductive invariant.                                                *)

\* The registers of a thread in front of the system call yield carry the
\* durations d.
Carries(r, d) ==
  r.ebx = SYSCALL_YIELD =>
    /\ r.edx = d[1] \div WORD /\ r.ecx = d[1] % WORD
    /\ r.esi = d[2] \div WORD /\ r.edi = d[2] % WORD

Passing(r, d) == r.eip # 0 => Carries(r, d)

\* The threads that exist: the reserve is used from its end.
LiveInv ==
  /\ live = Tasks \cup {context_idle} \cup (nb_tasks + idx_reserve) .. (context_idle - 1)
  /\ running \in live

\* The CPU belongs to the running thread.
UserInv ==
  mode = "user" =>
    /\ esp0 = Address(running) + 13
    /\ gdt = descriptors(Field(memory, Address(running), "start_address"),
                         Field(memory, Address(running), "memsize"))
    /\ cpu.ds = cpu.ss
    /\ Passing(cpu, asked[running])

\* In a handler, eax is the context of the thread that was interrupted; in a system
\* call the other registers still are those of the caller, which goes on behind it.
HandlerInv ==
  /\ mode \in {"syscall", "timer"} => cpu.eax = Address(running)
  /\ mode = "syscall" => /\ Carries(cpu, asked[running])
                         /\ Field(memory, Address(running), "eip") = 0

\* What was saved of the threads that do not run.
SavedInv ==
  mode \in {"ready", "user", "syscall", "timer"} =>
    \A c \in live : \/ mode = "user" /\ c = running
                    \/ Passing(popa_iret(memory, Address(c)), asked[c])

Date64 == 0 .. WORD * WORD - 1

Inv ==
  /\ TypeOK
  /\ asked \in [Contexts -> Date64 \X Date64]
  /\ LiveInv
  /\ UserInv
  /\ HandlerInv
  /\ SavedInv

LEMMA SameRegisters ==
  ASSUME NEW m, NEW m2, NEW d,
         \A f \in DOMAIN Offset : Field(m2, Address(d), f) = Field(m, Address(d), f)
  PROVE  popa_iret(m2, Address(d)) = popa_iret(m, Address(d))
PROOF
  <1>1. Registers \ {"ds"} \subseteq DOMAIN Offset /\ "ss" \in Registers \ {"ds"}
    BY Offsets DEF Registers
  <1> QED BY <1>1 DEF popa_iret

LEMMA RegistersType ==
  ASSUME NEW m \in [Addresses -> Nat], NEW c \in Contexts
  PROVE  /\ popa_iret(m, Address(c)) \in [Registers -> Nat]
         /\ popa_iret(m, Address(c)).ds = popa_iret(m, Address(c)).ss
         /\ \A f \in Registers \ {"ds"} : popa_iret(m, Address(c))[f] = Field(m, Address(c), f)
         /\ \A f \in DOMAIN Offset : Field(m, Address(c), f) \in Nat
PROOF
  <1>1. \A f \in DOMAIN Offset : Field(m, Address(c), f) \in Nat
    BY Layout, Offsets DEF Field
  <1>2. Registers \ {"ds"} \subseteq DOMAIN Offset /\ "ss" \in Registers \ {"ds"} /\ "ds" \in Registers
    BY Offsets DEF Registers
  <1> QED BY <1>1, <1>2 DEF popa_iret

\* The prologue, from user code.
LEMMA EntryEffect ==
  ASSUME Inv, mode = "user", NEW r \in [Registers -> Nat], r.ds = r.ss,
         INTERRUPT_HANDLER_PROLOGUE(r)
  PROVE  /\ memory' \in [Addresses -> Nat]
         /\ popa_iret(memory', Address(running)) = r
         /\ \A f \in {"start_address", "memsize"} :
              Field(memory', Address(running), f) = Field(memory, Address(running), f)
         /\ \A d \in Contexts \ {running} : \A f \in DOMAIN Offset :
              Field(memory', Address(d), f) = Field(memory, Address(d), f)
         /\ cpu' \in [Registers -> Nat]
         /\ cpu'.eax = Address(running)
         /\ \A f \in {"ebx", "edx", "ecx", "esi", "edi"} : cpu'[f] = r[f]
PROOF
  <1>1. running \in Contexts /\ memory \in [Addresses -> Nat] /\ esp0 = Address(running) + 13
    BY DEF Inv, TypeOK, UserInv
  <1>2. Address(running) \in Nat /\ PushaWords = 8 /\ FrameWords = 5 BY <1>1, Layout
  <1>3. esp0 - FrameWords = Address(running) + 8 /\ (Address(running) + 8) - 8 = Address(running)
    BY <1>1, <1>2
  <1>4. memory' = Push(Push(memory, Address(running) + 13, InterruptFrame(r)), Address(running) + 8,
                       pusha(r, Address(running) + 8))
    BY <1>1, <1>3 DEF INTERRUPT_HANDLER_PROLOGUE
  <1>5. cpu' = [r EXCEPT !.eax = Address(running), !.flags = 0,
                         !.ds = gdt_segment_selector(0, KERNEL_DATA_SEGMENT_INDEX)]
    BY <1>2, <1>3 DEF INTERRUPT_HANDLER_PROLOGUE
  <1>6. gdt_segment_selector(0, KERNEL_DATA_SEGMENT_INDEX) \in Nat
    BY DEF gdt_segment_selector, KERNEL_DATA_SEGMENT_INDEX
  <1>7. [r EXCEPT !.ds = r.ss] = r OBVIOUS
  <1>8. cpu' \in [Registers -> Nat] /\ cpu'.eax = Address(running)
        /\ \A f \in {"ebx", "edx", "ecx", "esi", "edi"} : cpu'[f] = r[f]
    BY <1>2, <1>5, <1>6 DEF Registers
  <1> QED BY <1>1, <1>4, <1>7, <1>8, Saved

\* The switch to a thread whose context is in m.
LEMMA SwitchEffect ==
  ASSUME NEW m \in [Addresses -> Nat], NEW c \in Contexts,
         hw_context_switch_no_idle(m, Address(c))
  PROVE  /\ esp0' = Address(c) + 13 /\ esp0' \in Nat
         /\ gdt' = descriptors(Field(m, Address(c), "start_address"), Field(m, Address(c), "memsize"))
         /\ gdt' \in [{"code", "data"} -> SUBSET (0 .. 63)]
         /\ cpu' = popa_iret(m, Address(c))
         /\ cpu' \in [Registers -> Nat] /\ cpu'.ds = cpu'.ss
         /\ mode' = "user"
PROOF
  <1>1. Address(c) \in Nat /\ PushaWords = 8 /\ FrameWords = 5 BY Layout
  <1>2. esp0' = Address(c) + 13 /\ esp0' \in Nat BY <1>1 DEF hw_context_switch_no_idle
  <1> QED BY <1>2, RegistersType, DescriptorsAreSegments DEF hw_context_switch_no_idle

LEMMA DateFacts ==
  /\ 0 \in Date64 /\ WORD * WORD \in Nat /\ Date64 \subseteq Nat
  /\ WORD \in Nat /\ WORD > 1 /\ WORD * WORD > 0
PROOF
  <1>1. WORD \in Nat /\ WORD > 1 BY WordAssumption
  <1>2. WORD * WORD \in Nat /\ WORD * WORD > 0 BY <1>1
  <1> QED BY <1>1, <1>2 DEF Date64

LEMMA LiveContexts == Inv => live \subseteq Contexts /\ running \in live /\ running \in Contexts
PROOF BY DEF Inv, TypeOK, LiveInv

LEMMA InvInit == Init => Inv
PROOF
  <1> SUFFICES ASSUME Init PROVE Inv OBVIOUS
  <1>1. nb_tasks \in Nat \ {0} /\ RESERVE_SIZE \in Nat /\ context_idle = nb_tasks + RESERVE_SIZE
    BY SizeAssumption DEF context_idle
  <1>2. Tasks \subseteq Contexts /\ context_idle \in Contexts BY <1>1 DEF Tasks, Contexts
  <1>3. TypeOK
    BY <1>1, <1>2 DEF Init, TypeOK
  <1>4. asked \in [Contexts -> Date64 \X Date64]
    BY DateFacts DEF Init
  <1>5. (nb_tasks + RESERVE_SIZE) .. (context_idle - 1) = {}
    BY <1>1
  <1>6. LiveInv BY <1>5 DEF Init, LiveInv
  <1> QED BY <1>3, <1>4, <1>6 DEF Init, Inv, UserInv, HandlerInv, SavedInv

\* The scheduler's choice and the switch, after the handlers that leave the
\* contexts alone; yield also forgets what it was asked.
LEMMA InvReschedule ==
  ASSUME Inv, mode \in {"ready", "timer", "syscall"}, Reschedule,
         UNCHANGED <<memory, live, idx_reserve>>,
         \/ asked' = asked
         \/ mode = "syscall" /\ asked' = [asked EXCEPT ![running] = <<0, 0>>]
  PROVE  Inv'
PROOF
  <1>1. PICK c \in live : hw_context_switch_no_idle(memory, Address(c)) /\ running' = c
    BY DEF Reschedule
  <1>2. c \in Contexts /\ memory \in [Addresses -> Nat] BY LiveContexts DEF Inv, TypeOK
  <1>3. /\ esp0' = Address(c) + 13 /\ esp0' \in Nat
        /\ gdt' = descriptors(Field(memory, Address(c), "start_address"), Field(memory, Address(c), "memsize"))
        /\ gdt' \in [{"code", "data"} -> SUBSET (0 .. 63)]
        /\ cpu' = popa_iret(memory, Address(c))
        /\ cpu' \in [Registers -> Nat] /\ cpu'.ds = cpu'.ss
        /\ mode' = "user"
    BY <1>1, <1>2, SwitchEffect
  <1>4. asked' \in [Contexts -> Date64 \X Date64] /\ asked' \in [Contexts -> Nat \X Nat]
    <2>1. asked \in [Contexts -> Date64 \X Date64] /\ <<0, 0>> \in Date64 \X Date64
      BY DateFacts DEF Inv
    <2>2. asked' \in [Contexts -> Date64 \X Date64] BY <2>1
    <2>3. Date64 \X Date64 \subseteq Nat \X Nat BY DateFacts
    <2> QED BY <2>2, <2>3
  <1>5. \A d \in live : Passing(popa_iret(memory, Address(d)), asked'[d])
    <2> SUFFICES ASSUME NEW d \in live PROVE Passing(popa_iret(memory, Address(d)), asked'[d])
      OBVIOUS
    <2>1. Passing(popa_iret(memory, Address(d)), asked[d]) BY DEF Inv, SavedInv
    <2>2. CASE asked' = asked BY <2>1, <2>2
    <2>3. CASE mode = "syscall" /\ asked' = [asked EXCEPT ![running] = <<0, 0>>]
      <3>1. CASE d # running
        <4>1. d \in Contexts /\ asked \in [Contexts -> Date64 \X Date64] BY LiveContexts DEF Inv
        <4> QED BY <2>1, <2>3, <3>1, <4>1
      <3>2. CASE d = running
        <4>1. Field(memory, Address(d), "eip") = 0 BY <2>3, <3>2 DEF Inv, HandlerInv
        <4>2. d \in Contexts /\ "eip" \in Registers \ {"ds"} BY LiveContexts DEF Registers
        <4>3. popa_iret(memory, Address(d)).eip = 0 BY <1>2, <4>1, <4>2, RegistersType
        <4> QED BY <4>3 DEF Passing
      <3> QED BY <3>1, <3>2
    <2> QED BY <2>2, <2>3
  <1>6. TypeOK' BY <1>1, <1>2, <1>3, <1>4 DEF Inv, TypeOK
  <1>7. LiveInv' BY <1>1 DEF Inv, LiveInv
  <1>8. UserInv' BY <1>1, <1>3, <1>5 DEF UserInv
  <1>9. HandlerInv' BY <1>3 DEF HandlerInv
  <1>10. SavedInv' BY <1>5 DEF SavedInv
  <1> QED BY <1>4, <1>6, <1>7, <1>8, <1>9, <1>10 DEF Inv

\* Into the kernel: by a system call, whose number is right, or by the timer.
LEMMA InvEntry ==
  ASSUME Inv, mode = "user",
         asm_syscall_handler \/ asm_timer_interrupt_handler
  PROVE  Inv'
PROOF
  <1> DEFINE r == IF asm_syscall_handler THEN [cpu EXCEPT !.eip = 0] ELSE cpu
  <1>1. cpu \in [Registers -> Nat] /\ cpu.ds = cpu.ss BY DEF Inv, TypeOK, UserInv
  <1>2. /\ r \in [Registers -> Nat] /\ r.ds = r.ss
        /\ \A f \in Registers \ {"eip"} : r[f] = cpu[f]
    BY <1>1 DEF Registers
  <1>3. INTERRUPT_HANDLER_PROLOGUE(r) /\ UNCHANGED <<gdt, esp0, live, idx_reserve, running, asked>>
    BY DEF asm_syscall_handler, asm_timer_interrupt_handler
  <1>4. \/ /\ mode' \in {"syscall", "halted"} /\ cpu.eip # 0 /\ r.eip = 0
        \/ mode' = "timer" /\ r = cpu
    <2>1. CASE asm_syscall_handler
      <3>1. r = [cpu EXCEPT !.eip = 0] BY <2>1
      <3>2. r.eip = 0 BY <1>1, <3>1 DEF Registers
      <3> QED BY <2>1, <3>2 DEF asm_syscall_handler
    <2>2. CASE ~asm_syscall_handler BY <2>2 DEF asm_timer_interrupt_handler
    <2> QED BY <2>1, <2>2
  <1> HIDE DEF r
  <1>5. /\ memory' \in [Addresses -> Nat]
        /\ popa_iret(memory', Address(running)) = r
        /\ \A d \in Contexts \ {running} : \A f \in DOMAIN Offset :
             Field(memory', Address(d), f) = Field(memory, Address(d), f)
        /\ cpu' \in [Registers -> Nat]
        /\ cpu'.eax = Address(running)
        /\ \A f \in {"ebx", "edx", "ecx", "esi", "edi"} : cpu'[f] = r[f]
    BY <1>2, <1>3, EntryEffect
  <1>6. running \in Contexts /\ live \subseteq Contexts BY LiveContexts
  <1>7. Passing(cpu, asked[running]) BY DEF Inv, UserInv
  <1>8. ASSUME NEW c \in live PROVE Passing(popa_iret(memory', Address(c)), asked[c])
    <2>1. CASE c = running
      BY <1>4, <1>5, <1>7, <2>1 DEF Passing
    <2>2. CASE c # running
      <3>1. Passing(popa_iret(memory, Address(c)), asked[c]) BY <2>2 DEF Inv, SavedInv
      <3>2. popa_iret(memory', Address(c)) = popa_iret(memory, Address(c))
        BY <1>5, <1>6, <2>2, SameRegisters
      <3> QED BY <3>1, <3>2
    <2> QED BY <2>1, <2>2
  <1>9. mode' = "syscall" => /\ Carries(cpu', asked[running])
                             /\ Field(memory', Address(running), "eip") = 0
    <2> SUFFICES ASSUME mode' = "syscall"
                 PROVE  Carries(cpu', asked[running]) /\ Field(memory', Address(running), "eip") = 0
      OBVIOUS
    <2>1. Carries(cpu, asked[running]) /\ r.eip = 0 BY <1>4, <1>7 DEF Passing
    <2>2. \A f \in {"ebx", "edx", "ecx", "esi", "edi"} : cpu'[f] = cpu[f]
      BY <1>2, <1>5 DEF Registers
    <2>3. Carries(cpu', asked[running]) BY <2>1, <2>2 DEF Carries
    <2>4. popa_iret(memory', Address(running)).eip = Field(memory', Address(running), "eip")
      BY DEF popa_iret, Registers
    <2> QED BY <1>5, <2>1, <2>3, <2>4
  <1>10. mode' \in {"syscall", "halted", "timer"} BY <1>4
  <1>11. TypeOK' BY <1>3, <1>5, <1>10 DEF Inv, TypeOK
  <1>12. LiveInv' BY <1>3 DEF Inv, LiveInv
  <1>13. UserInv' BY <1>10 DEF UserInv
  <1>14. HandlerInv' BY <1>3, <1>5, <1>9 DEF HandlerInv
  <1>15. SavedInv' BY <1>3, <1>8 DEF SavedInv
  <1> QED BY <1>3, <1>11, <1>12, <1>13, <1>14, <1>15 DEF Inv

\* What high_level_init writes.
LEMMA InitialMemory ==
  ASSUME high_level_init
  PROVE  /\ memory' \in [Addresses -> Nat]
         /\ \A c \in Contexts : \A f \in DOMAIN Offset :
              Field(memory', Address(c), f) = InitialContext(c)[f]
PROOF
  <1>1. nb_tasks \in Nat \ {0} /\ RESERVE_SIZE \in Nat /\ CONTEXTS_PER_TASK \in Nat
        /\ context_idle = nb_tasks + RESERVE_SIZE
    BY SizeAssumption DEF context_idle
  <1>2. ASSUME NEW c \in Contexts, NEW f \in DOMAIN Offset PROVE InitialContext(c)[f] \in Nat
    <2> DEFINE i == IF c \in Tasks \cup {context_idle} THEN c ELSE 0
               pid == IF c \in Tasks THEN c * CONTEXTS_PER_TASK ELSE 0
    <2>1. i \in 0 .. nb_tasks + RESERVE_SIZE BY <1>1 DEF Tasks, Contexts
    <2>2. task_begin[i] \in Nat /\ task_end[i] \in Nat /\ task_begin[i] <= task_end[i]
      BY <2>1, ImageAssumption
    <2>3. task_end[i] - task_begin[i] \in Nat BY <2>2
    <2>4. pid \in Nat BY <1>1 DEF Tasks
    <2>5. InitialContext(c) = hw_context_init(pid, 0, task_begin[i], task_end[i]) BY DEF InitialContext
    <2>6. gdt_segment_selector(3, USER_CODE_SEGMENT_INDEX) \in Nat
          /\ gdt_segment_selector(3, USER_DATA_SEGMENT_INDEX) \in Nat /\ 2 + InterruptFlag \in Nat
      BY DEF gdt_segment_selector, USER_CODE_SEGMENT_INDEX, USER_DATA_SEGMENT_INDEX, InterruptFlag
    <2> HIDE DEF i, pid
    <2> QED BY <1>1, <2>2, <2>3, <2>4, <2>5, <2>6 DEF hw_context_init
  <1>3. \A f, g \in DOMAIN Offset : Offset[f] = Offset[g] => f = g BY DEF Offset
  <1>4. \A o \in 0 .. 15 : \E f \in DOMAIN Offset : Offset[f] = o BY DEF Offset
  <1>5. memory' = [a \in Addresses |->
                     InitialContext(a \div 16)[CHOOSE f \in DOMAIN Offset : Offset[f] = a % 16]]
    BY Layout DEF high_level_init
  <1>6. ASSUME NEW a \in Addresses PROVE memory'[a] \in Nat
    <2>1. a \in Nat /\ a < 16 * (context_idle + 1)
      BY <1>1 DEF Addresses, Address, ContextWords, PushaWords, FrameWords
    <2>2. a \div 16 \in Contexts BY <1>1, <2>1 DEF Contexts
    <2>3. a % 16 \in 0 .. 15 BY <2>1
    <2>4. (CHOOSE f \in DOMAIN Offset : Offset[f] = a % 16) \in DOMAIN Offset BY <1>4, <2>3
    <2> QED BY <1>2, <1>5, <2>2, <2>4
  <1>7. ASSUME NEW c \in Contexts, NEW f \in DOMAIN Offset
        PROVE  Field(memory', Address(c), f) = InitialContext(c)[f]
    <2>1. Offset[f] \in 0 .. 15 /\ c \in Nat /\ Address(c) = 16 * c /\ Address(c) + Offset[f] \in Addresses
      BY Offsets, Layout
    <2>2. (16 * c + Offset[f]) \div 16 = c /\ (16 * c + Offset[f]) % 16 = Offset[f] BY <2>1
    <2>3. (CHOOSE g \in DOMAIN Offset : Offset[g] = Offset[f]) = f BY <1>3
    <2> QED BY <1>5, <2>1, <2>2, <2>3 DEF Field
  <1> QED BY <1>5, <1>6, <1>7

LEMMA InvBoot ==
  ASSUME Inv, high_level_init
  PROVE  Inv'
PROOF
  <1>1. mode = "boot" /\ mode' = "ready" /\ UNCHANGED <<cpu, gdt, esp0, live, idx_reserve, running, asked>>
    BY DEF high_level_init
  <1>2. \A c \in live : Passing(popa_iret(memory', Address(c)), asked[c])
    <2> SUFFICES ASSUME NEW c \in live PROVE Passing(popa_iret(memory', Address(c)), asked[c]) OBVIOUS
    <2>1. c \in Contexts /\ "eip" \in DOMAIN Offset BY LiveContexts DEF Offset
    <2>2. Field(memory', Address(c), "eip") = 0
      BY <2>1, InitialMemory DEF InitialContext, hw_context_init
    <2>3. popa_iret(memory', Address(c)).eip = Field(memory', Address(c), "eip")
      BY DEF popa_iret, Registers
    <2> QED BY <2>2, <2>3 DEF Passing
  <1>3. TypeOK' BY <1>1, InitialMemory DEF Inv, TypeOK
  <1>4. LiveInv' BY <1>1 DEF Inv, LiveInv
  <1>5. UserInv' /\ HandlerInv' BY <1>1 DEF UserInv, HandlerInv
  <1>6. SavedInv' BY <1>1, <1>2 DEF SavedInv
  <1> QED BY <1>1, <1>3, <1>4, <1>5, <1>6 DEF Inv

\* What user code does to the registers.
LEMMA InvUser ==
  ASSUME Inv, UserInstruction
  PROVE  Inv'
PROOF
  <1>1. /\ mode = "user" /\ cpu.eip = 0
        /\ UNCHANGED <<memory, gdt, esp0, mode, live, idx_reserve, running>>
    BY DEF UserInstruction
  <1>2. cpu \in [Registers -> Nat] /\ cpu.ds = cpu.ss /\ running \in Contexts
        /\ asked \in [Contexts -> Date64 \X Date64]
    BY <1>1, LiveContexts DEF Inv, TypeOK, UserInv
  <1>3. /\ cpu' \in [Registers -> Nat] /\ cpu'.ds = cpu'.ss
        /\ asked' \in [Contexts -> Date64 \X Date64]
        /\ \A c \in Contexts \ {running} : asked'[c] = asked[c]
        /\ Passing(cpu', asked'[running])
    <2>1. CASE /\ \E i \in Instructions : cpu' = [cpu EXCEPT ![i[1]] = i[2]]
               /\ UNCHANGED asked
      <3>1. PICK i \in Instructions : cpu' = [cpu EXCEPT ![i[1]] = i[2]] BY <2>1
      <3>2. /\ i[1] \in {"edi", "esi", "ebp", "ebx", "edx", "ecx", "eax", "esp"} /\ i[2] \in Nat
        BY InstructionAssumption
      <3>3. /\ cpu' \in [Registers -> Nat] /\ cpu'.ds = cpu'.ss /\ cpu'.eip = 0
        BY <1>1, <1>2, <3>1, <3>2 DEF Registers
      <3> QED BY <1>2, <2>1, <3>3 DEF Passing
    <2>2. CASE \E d \in Durations : /\ cpu' = yield(d[1], d[2])
                                     /\ asked' = [asked EXCEPT ![running] = d]
      <3>1. PICK d \in Durations : cpu' = yield(d[1], d[2]) /\ asked' = [asked EXCEPT ![running] = d]
        BY <2>2
      <3>2. d \in Date64 \X Date64 BY DurationAssumption DEF Date64
      <3>3. d[1] \in Nat /\ d[2] \in Nat BY <3>2, DateFacts
      <3>4. /\ d[1] \div WORD \in Nat /\ d[1] % WORD \in Nat
            /\ d[2] \div WORD \in Nat /\ d[2] % WORD \in Nat
        BY <3>3, DateFacts
      <3>5. cpu' = [[cpu EXCEPT !.ebx = 0, !.eip = 1]
                      EXCEPT !.edx = d[1] \div WORD, !.ecx = d[1] % WORD,
                             !.esi = d[2] \div WORD, !.edi = d[2] % WORD]
        BY <3>1 DEF yield, syscall5, syscall1, SYSCALL_YIELD
      <3>6. /\ cpu' \in [Registers -> Nat] /\ cpu'.ds = cpu'.ss
            /\ cpu'.edx = d[1] \div WORD /\ cpu'.ecx = d[1] % WORD
            /\ cpu'.esi = d[2] \div WORD /\ cpu'.edi = d[2] % WORD
        BY <1>2, <3>4, <3>5 DEF Registers
      <3>7. asked' \in [Contexts -> Date64 \X Date64] /\ asked'[running] = d
            /\ \A c \in Contexts \ {running} : asked'[c] = asked[c]
        BY <1>2, <3>1, <3>2
      <3> QED BY <3>6, <3>7 DEF Passing, Carries
    <2>3. CASE (\E n \in Calls : cpu' = syscall1(n)) /\ UNCHANGED asked
      <3>1. PICK n \in Calls : cpu' = [cpu EXCEPT !.ebx = n, !.eip = n + 1]
        BY <2>3 DEF syscall1
      <3>2. n \in Nat /\ n # 0 BY CallsAssumption
      <3>3. cpu' \in [Registers -> Nat] /\ cpu'.ds = cpu'.ss /\ cpu'.ebx = n
        <4>1. n + 1 \in Nat BY <3>2
        <4>2. cpu' \in [Registers -> Nat] BY <1>2, <3>1, <3>2, <4>1
        <4>3. "ds" \in Registers /\ "ss" \in Registers /\ "ebx" \in Registers BY DEF Registers
        <4> QED BY <1>2, <3>1, <4>2, <4>3
      <3> QED BY <1>2, <2>3, <3>2, <3>3 DEF Passing, Carries, SYSCALL_YIELD
    <2> QED BY <2>1, <2>2, <2>3 DEF UserInstruction
  <1>4. asked' \in [Contexts -> Nat \X Nat]
    <2>1. Date64 \X Date64 \subseteq Nat \X Nat BY DateFacts
    <2> QED BY <1>3, <2>1
  <1>5. TypeOK' BY <1>1, <1>3, <1>4 DEF Inv, TypeOK
  <1>6. LiveInv' BY <1>1 DEF Inv, LiveInv
  <1>7. UserInv' BY <1>1, <1>3 DEF Inv, UserInv
  <1>8. HandlerInv' BY <1>1 DEF HandlerInv
  <1>9. SavedInv'
    <2>1. \A c \in live \ {running} : c \in Contexts /\ Passing(popa_iret(memory, Address(c)), asked[c])
      BY <1>1, LiveContexts DEF Inv, SavedInv
    <2> QED BY <1>1, <1>3, <2>1 DEF SavedInv
  <1> QED BY <1>3, <1>5, <1>6, <1>7, <1>8, <1>9 DEF Inv

\* The system calls that return to their caller.
LEMMA InvReturn ==
  ASSUME Inv, syscall_putchar
  PROVE  Inv'
PROOF
  <1>1. mode = "syscall" /\ hw_context_switch_no_idle(memory, cpu.eax)
        /\ UNCHANGED <<memory, live, idx_reserve, running, asked>>
    BY DEF syscall_putchar
  <1>2. cpu.eax = Address(running) /\ running \in live
    BY <1>1, LiveContexts DEF Inv, HandlerInv
  <1>3. Reschedule
    BY <1>1, <1>2 DEF Reschedule
  <1> QED BY <1>1, <1>3, InvReschedule

\* The context that dup_thread takes from the reserve.
LEMMA DupChild ==
  ASSUME Inv, syscall_dup_thread
  PROVE  LET c2 == nb_tasks + idx_reserve - 1
         IN  /\ mode = "syscall" /\ mode' = "user"
             /\ c2 \in Contexts \ live
             /\ live' = live \cup {c2} /\ idx_reserve' \in 0 .. RESERVE_SIZE
             /\ LiveInv'
             /\ running' = running /\ asked' = asked
             /\ hw_context_switch_no_idle(memory', Address(running))
             /\ memory' \in [Addresses -> Nat]
             /\ popa_iret(memory', Address(running)) =
                  [popa_iret(memory, Address(running)) EXCEPT !.eax = 1]
             /\ popa_iret(memory', Address(c2)) =
                  [popa_iret(memory, Address(running)) EXCEPT !.eax = 0]
             /\ \A f \in {"start_address", "memsize"} :
                  /\ Field(memory', Address(running), f) = Field(memory, Address(running), f)
                  /\ Field(memory', Address(c2), f) = Field(memory, Address(running), f)
             /\ \A d \in Contexts \ {running, c2} : \A f \in DOMAIN Offset :
                  Field(memory', Address(d), f) = Field(memory, Address(d), f)
PROOF
  <1> DEFINE c2 == nb_tasks + idx_reserve - 1
             m == DupMemory(memory, running, c2)
  <1>1. /\ mode = "syscall" /\ idx_reserve # 0
        /\ idx_reserve' = idx_reserve - 1 /\ live' = live \cup {c2}
        /\ UNCHANGED <<running, asked>>
    BY DEF syscall_dup_thread
  <1>2. cpu.eax = Address(running) BY <1>1 DEF Inv, HandlerInv
  <1>3. memory' = m /\ hw_context_switch_no_idle(m, Address(running))
    BY <1>2 DEF syscall_dup_thread, DupMemory
  <1>4. nb_tasks \in Nat \ {0} /\ RESERVE_SIZE \in Nat /\ idx_reserve \in 1 .. RESERVE_SIZE
        /\ context_idle = nb_tasks + RESERVE_SIZE
    BY <1>1, SizeAssumption DEF Inv, TypeOK, context_idle
  <1>5. live = Tasks \cup {context_idle} \cup (nb_tasks + idx_reserve) .. (context_idle - 1)
    BY DEF Inv, LiveInv
  <1>6. c2 \in Contexts /\ c2 \notin live
    BY <1>4, <1>5 DEF Contexts, Tasks
  <1>7. running \in Contexts /\ running \in live /\ memory \in [Addresses -> Nat]
    BY LiveContexts DEF Inv, TypeOK
  <1>8. LiveInv'
    <2>1. (nb_tasks + (idx_reserve - 1)) .. (context_idle - 1)
            = (nb_tasks + idx_reserve) .. (context_idle - 1) \cup {c2}
      BY <1>4
    <2> QED BY <1>1, <1>5, <1>7, <2>1 DEF LiveInv
  <1>9. mode' = "user" BY <1>3 DEF hw_context_switch_no_idle
  <1>10. idx_reserve' \in 0 .. RESERVE_SIZE BY <1>1, <1>4
  <1> HIDE DEF c2, m
  <1>11. m = DupMemory(memory, running, c2) BY DEF m
  <1>12. running # c2 BY <1>6, <1>7
  <1>13. /\ m \in [Addresses -> Nat]
         /\ popa_iret(m, Address(running)) = [popa_iret(memory, Address(running)) EXCEPT !.eax = 1]
         /\ popa_iret(m, Address(c2)) = [popa_iret(memory, Address(running)) EXCEPT !.eax = 0]
         /\ \A f \in {"start_address", "memsize"} :
              /\ Field(m, Address(running), f) = Field(memory, Address(running), f)
              /\ Field(m, Address(c2), f) = Field(memory, Address(running), f)
         /\ \A d \in Contexts \ {running, c2} : \A f \in DOMAIN Offset :
              Field(m, Address(d), f) = Field(memory, Address(d), f)
    <2>1. c2 \in Contexts \ {running} BY <1>6, <1>12
    <2> QED BY <1>7, <1>11, <2>1, Duplicated
  <1> QED BY <1>1, <1>3, <1>6, <1>8, <1>9, <1>10, <1>13 DEF c2

LEMMA InvDup ==
  ASSUME Inv, syscall_dup_thread
  PROVE  Inv'
PROOF
  <1> DEFINE c2 == nb_tasks + idx_reserve - 1
  <1>1. /\ mode = "syscall" /\ mode' = "user"
        /\ c2 \in Contexts \ live
        /\ live' = live \cup {c2} /\ idx_reserve' \in 0 .. RESERVE_SIZE
        /\ LiveInv'
        /\ running' = running /\ asked' = asked
        /\ hw_context_switch_no_idle(memory', Address(running))
        /\ memory' \in [Addresses -> Nat]
    BY DupChild
  <1>2. popa_iret(memory', Address(c2)) = [popa_iret(memory, Address(running)) EXCEPT !.eax = 0]
        /\ popa_iret(memory', Address(running)) = [popa_iret(memory, Address(running)) EXCEPT !.eax = 1]
    BY DupChild
  <1>3. \A d \in Contexts \ {running, c2} : \A f \in DOMAIN Offset :
          Field(memory', Address(d), f) = Field(memory, Address(d), f)
    BY DupChild
  <1> HIDE DEF c2
  <1>4. running \in Contexts /\ running \in live /\ live \subseteq Contexts /\ memory \in [Addresses -> Nat]
    BY LiveContexts DEF Inv, TypeOK
  <1>5. /\ esp0' = Address(running) + 13 /\ esp0' \in Nat
        /\ gdt' = descriptors(Field(memory', Address(running), "start_address"),
                              Field(memory', Address(running), "memsize"))
        /\ gdt' \in [{"code", "data"} -> SUBSET (0 .. 63)]
        /\ cpu' = popa_iret(memory', Address(running))
        /\ cpu' \in [Registers -> Nat] /\ cpu'.ds = cpu'.ss
    BY <1>1, <1>4, SwitchEffect
  <1>6. popa_iret(memory, Address(running)).eip = 0
    <2>1. Field(memory, Address(running), "eip") = 0 BY <1>1 DEF Inv, HandlerInv
    <2> QED BY <2>1 DEF popa_iret, Registers
  <1>7. popa_iret(memory', Address(running)).eip = 0 /\ popa_iret(memory', Address(c2)).eip = 0
    BY <1>2, <1>6
  <1>8. ASSUME NEW c \in live' PROVE Passing(popa_iret(memory', Address(c)), asked[c])
    <2>1. CASE c \in {running, c2} BY <1>7, <2>1 DEF Passing
    <2>2. CASE c \notin {running, c2}
      <3>1. c \in live BY <1>1, <2>2
      <3>2. Passing(popa_iret(memory, Address(c)), asked[c])
        BY <1>1, <3>1 DEF Inv, SavedInv
      <3>3. popa_iret(memory', Address(c)) = popa_iret(memory, Address(c))
        BY <1>3, <1>4, <2>2, <3>1, SameRegisters
      <3> QED BY <3>2, <3>3
    <2> QED BY <2>1, <2>2
  <1>9. TypeOK'
    <2>1. live' \subseteq Contexts BY <1>1, <1>4
    <2> QED BY <1>1, <1>4, <1>5, <2>1 DEF Inv, TypeOK
  <1>10. UserInv' BY <1>1, <1>5, <1>7 DEF UserInv, Passing
  <1>11. HandlerInv' BY <1>1 DEF HandlerInv
  <1>12. SavedInv' BY <1>1, <1>8 DEF SavedInv
  <1> QED BY <1>1, <1>9, <1>10, <1>11, <1>12 DEF Inv

\* The ways to stop.
LEMMA InvHalt ==
  ASSUME Inv, asm_default_interrupt_handler \/ dup_thread_fatal
  PROVE  Inv'
PROOF
  <1>1. mode' = "halted" /\ UNCHANGED <<memory, cpu, gdt, esp0, live, idx_reserve, running, asked>>
    BY DEF asm_default_interrupt_handler, dup_thread_fatal
  <1> QED BY <1>1 DEF Inv, TypeOK, LiveInv, UserInv, HandlerInv, SavedInv

LEMMA InvNext == Inv /\ [Next]_vars => Inv'
PROOF
  <1> SUFFICES ASSUME Inv, [Next]_vars PROVE Inv' OBVIOUS
  <1>1. CASE high_level_init BY <1>1, InvBoot
  <1>2. CASE boot
    BY <1>2, InvReschedule DEF boot
  <1>3. CASE UserInstruction BY <1>3, InvUser
  <1>4. CASE asm_syscall_handler BY <1>4, InvEntry DEF asm_syscall_handler
  <1>5. CASE asm_timer_interrupt_handler BY <1>5, InvEntry DEF asm_timer_interrupt_handler
  <1>6. CASE asm_default_interrupt_handler BY <1>6, InvHalt
  <1>7. CASE c_syscall_yield
    BY <1>7, InvReschedule DEF c_syscall_yield
  <1>8. CASE syscall_putchar BY <1>8, InvReturn
  <1>9. CASE syscall_dup_thread BY <1>9, InvDup
  <1>10. CASE dup_thread_fatal BY <1>10, InvHalt
  <1>11. CASE high_level_timer_interrupt_handler
    BY <1>11, InvReschedule DEF high_level_timer_interrupt_handler
  <1>12. CASE UNCHANGED vars
    BY <1>12 DEF vars, Inv, TypeOK, LiveInv, UserInv, HandlerInv, SavedInv
  <1> QED BY <1>1, <1>2, <1>3, <1>4, <1>5, <1>6, <1>7, <1>8, <1>9, <1>10, <1>11, <1>12 DEF Next

LEMMA Invariant == Spec => []Inv
PROOF BY InvInit, InvNext, PTL DEF Spec

-----------------------------------------------------------------------------
\* The types of the variables: the words that the stubs push and pop stay words
\* of the contexts, whatever the threads do (low_level.c).
THEOREM TypeCorrect == Spec => []TypeOK
PROOF
  <1>1. Inv => TypeOK BY DEF Inv
  <1> QED BY <1>1, Invariant, PTL

\* Every handler of an interrupt or a system call is given the context of the
\* thread that it interrupted, because hw_context_switch_no_idle has left esp0
\* behind it: no order of switches, copies and interrupts saves the registers of
\* a thread in the context of another one.
THEOREM HandlerGetsCallerCorrect == Spec => []HandlerGetsCaller
PROOF
  <1>1. Inv => HandlerGetsCaller
    <2> SUFFICES ASSUME Inv PROVE HandlerGetsCaller OBVIOUS
    <2>1. running \in Contexts /\ PushaWords = 8 /\ FrameWords = 5 BY LiveContexts, Layout
    <2>2. Address(running) \in Nat BY <2>1, Layout
    <2>3. Address(running) + 13 = Address(running) + PushaWords + FrameWords BY <2>1, <2>2
    <2> QED BY <2>3 DEF Inv, UserInv, HandlerInv, HandlerGetsCaller
  <1> QED BY <1>1, Invariant, PTL

\* What a word and the next one hold of a duration.
LEMMA Recombined ==
  ASSUME NEW d \in Date64
  PROVE  ((d \div WORD) * WORD + (d % WORD)) % (WORD * WORD) = d
PROOF
  <1>1. d \in Nat /\ d < WORD * WORD /\ WORD \in Nat /\ WORD > 0 BY DateFacts DEF Date64
  <1>2. (d \div WORD) * WORD + (d % WORD) = d BY <1>1
  <1>3. d % (WORD * WORD) = d BY <1>1
  <1> QED BY <1>2, <1>3

\* The durations that a thread passes to yield arrive, whether or not it was
\* interrupted, and others have run, between loading the registers and int
\* (syscall_yield, c_syscall_yield).
THEOREM YieldArrivesCorrect == Spec => []YieldArrives
PROOF
  <1>1. Inv => YieldArrives
    <2> SUFFICES ASSUME Inv, mode = "syscall", cpu.ebx = SYSCALL_YIELD
                 PROVE  yield_increments = asked[running]
      BY DEF YieldArrives
    <2>1. asked[running] \in Date64 \X Date64 BY LiveContexts DEF Inv
    <2>2. PICK a \in Date64, b \in Date64 : asked[running] = <<a, b>> BY <2>1
    <2>3. /\ cpu.edx = a \div WORD /\ cpu.ecx = a % WORD
          /\ cpu.esi = b \div WORD /\ cpu.edi = b % WORD
      BY <2>2 DEF Inv, HandlerInv, Carries
    <2>4. yield_increments = <<((a \div WORD) * WORD + (a % WORD)) % (WORD * WORD),
                               ((b \div WORD) * WORD + (b % WORD)) % (WORD * WORD)>>
      BY <2>3 DEF yield_increments
    <2> QED BY <2>2, <2>4, Recombined
  <1> QED BY <1>1, Invariant, PTL

-----------------------------------------------------------------------------
(* The refinement of ThreadMachine.                                        *)

SegmentsOf(m, c) ==
  Segments(Field(m, Address(c), "start_address"), Field(m, Address(c), "memsize"))

\* What a thread sees when the CPU has the registers r, while it runs or not.
ViewIn(runs, r, m, c) ==
  [regs |-> IF runs THEN r ELSE popa_iret(m, Address(c)), segments |-> SegmentsOf(m, c)]

LEMMA ViewNow ==
  ASSUME Inv, NEW c
  PROVE  View(c) = ViewIn(mode = "user" /\ c = running, cpu, memory, c)
PROOF
  <1>1. CASE mode = "user" /\ c = running
    <2>1. gdt = descriptors(Field(memory, Address(c), "start_address"), Field(memory, Address(c), "memsize"))
      BY <1>1 DEF Inv, UserInv
    <2>2. [k \in {"code", "data"} |-> cpu_segment(gdt[k])] = SegmentsOf(memory, c)
      BY <2>1, DescriptorsAreSegments DEF SegmentsOf
    <2> QED BY <1>1, <2>2 DEF View, ViewIn
  <1>2. CASE ~(mode = "user" /\ c = running)
    BY <1>2 DEF View, ViewIn, SegmentsOf
  <1> QED BY <1>1, <1>2

LEMMA ViewThen ==
  ASSUME Inv', NEW c
  PROVE  View(c)' = ViewIn(mode' = "user" /\ c = running', cpu', memory', c)
PROOF
  <1>1. CASE mode' = "user" /\ c = running'
    <2>1. gdt' = descriptors(Field(memory', Address(c), "start_address"), Field(memory', Address(c), "memsize"))
      BY <1>1 DEF Inv, UserInv
    <2>2. [k \in {"code", "data"} |-> cpu_segment(gdt'[k])] = SegmentsOf(memory', c)
      BY <2>1, DescriptorsAreSegments DEF SegmentsOf
    <2> QED BY <1>1, <2>2 DEF View, ViewIn
  <1>2. CASE ~(mode' = "user" /\ c = running')
    BY <1>2 DEF View, ViewIn, SegmentsOf
  <1> QED BY <1>1, <1>2

LEMMA MachineInit == Init => Machine!Init
PROOF BY DEF Init, Machine!Init, Phase

\* The scheduler's choice is a Dispatch.
LEMMA MachineDispatch ==
  ASSUME Inv, Inv', Phase = "resched", mode # "user", Reschedule, UNCHANGED <<memory, live>>
  PROVE  \E t \in Contexts : Machine!Dispatch(t)
PROOF
  <1>1. PICK c \in live : hw_context_switch_no_idle(memory, Address(c)) /\ running' = c
    BY DEF Reschedule
  <1>2. c \in Contexts /\ memory \in [Addresses -> Nat] /\ live \subseteq Contexts
    BY LiveContexts DEF Inv, TypeOK
  <1>3. cpu' = popa_iret(memory, Address(c)) /\ mode' = "user"
    BY <1>1, <1>2, SwitchEffect
  <1>4. Phase' = "user" BY <1>3 DEF Phase
  <1>5. ASSUME NEW u \in live PROVE View(u)' = View(u)
    <2>1. View(u) = ViewIn(FALSE, cpu, memory, u)
      BY ViewNow
    <2>2. View(u)' = ViewIn(u = c, cpu', memory, u)
      BY <1>1, <1>3, ViewThen
    <2> QED BY <1>3, <2>1, <2>2 DEF ViewIn
  <1>6. Machine!Dispatch(c)
    BY <1>1, <1>2, <1>4, <1>5 DEF Machine!Dispatch
  <1> QED BY <1>2, <1>6

\* The thread that runs only changes its registers.
LEMMA MachineRun ==
  ASSUME Inv, Inv', UserInstruction
  PROVE  Machine!Run
PROOF
  <1>1. mode = "user" /\ UNCHANGED <<memory, mode, live, running>> BY DEF UserInstruction
  <1>2. Phase = "user" /\ Phase' = "user" BY <1>1 DEF Phase
  <1>3. running \in Contexts /\ live \subseteq Contexts BY LiveContexts
  <1>4. ASSUME NEW t \in live \ {running} PROVE View(t)' = View(t)
    <2>1. View(t) = ViewIn(FALSE, cpu, memory, t) BY ViewNow
    <2>2. View(t)' = ViewIn(FALSE, cpu', memory, t) BY <1>1, ViewThen
    <2> QED BY <2>1, <2>2 DEF ViewIn
  <1>5. View(running)'.segments = View(running).segments
    <2>1. View(running) = ViewIn(TRUE, cpu, memory, running) BY <1>1, ViewNow
    <2>2. View(running)' = ViewIn(TRUE, cpu', memory, running) BY <1>1, ViewThen
    <2> QED BY <2>1, <2>2 DEF ViewIn
  <1> QED BY <1>1, <1>2, <1>3, <1>4, <1>5 DEF Machine!Run

\* Into the kernel, nothing that the thread can see is lost.
LEMMA MachineTrap ==
  ASSUME Inv, Inv', asm_syscall_handler \/ asm_timer_interrupt_handler, mode' # "halted"
  PROVE  \E t \in Contexts : Machine!Trap(t)
PROOF
  <1> DEFINE r == IF asm_syscall_handler THEN [cpu EXCEPT !.eip = 0] ELSE cpu
  <1>1. mode = "user" /\ UNCHANGED <<live, running>> /\ INTERRUPT_HANDLER_PROLOGUE(r)
        /\ mode' \in {"syscall", "timer"}
    BY DEF asm_syscall_handler, asm_timer_interrupt_handler
  <1>2. cpu \in [Registers -> Nat] /\ cpu.ds = cpu.ss BY <1>1 DEF Inv, TypeOK, UserInv
  <1>3. /\ r \in [Registers -> Nat] /\ r.ds = r.ss
        /\ \/ mode' = "timer" /\ r = cpu
           \/ mode' = "syscall" /\ cpu.eip # 0 /\ r = [cpu EXCEPT !.eip = 0]
    BY <1>1, <1>2 DEF Registers, asm_syscall_handler, asm_timer_interrupt_handler
  <1> HIDE DEF r
  <1>4. /\ popa_iret(memory', Address(running)) = r
        /\ \A f \in {"start_address", "memsize"} :
              Field(memory', Address(running), f) = Field(memory, Address(running), f)
        /\ \A d \in Contexts \ {running} : \A f \in DOMAIN Offset :
             Field(memory', Address(d), f) = Field(memory, Address(d), f)
    BY <1>1, <1>3, EntryEffect
  <1>5. running \in Contexts /\ live \subseteq Contexts BY LiveContexts
  <1>6. ASSUME NEW u \in live \ {running} PROVE View(u)' = View(u)
    <2>1. View(u) = ViewIn(FALSE, cpu, memory, u) BY ViewNow
    <2>2. View(u)' = ViewIn(FALSE, cpu', memory', u) BY <1>1, ViewThen
    <2>3. popa_iret(memory', Address(u)) = popa_iret(memory, Address(u))
      BY <1>4, <1>5, SameRegisters
    <2>4. SegmentsOf(memory', u) = SegmentsOf(memory, u)
      BY <1>4, <1>5, Offsets DEF SegmentsOf
    <2> QED BY <2>1, <2>2, <2>3, <2>4 DEF ViewIn
  <1>7. View(running) = [regs |-> cpu, segments |-> SegmentsOf(memory, running)]
    BY <1>1, ViewNow DEF ViewIn
  <1>8. View(running)' = [regs |-> r, segments |-> SegmentsOf(memory, running)]
    <2>1. View(running)' = ViewIn(FALSE, cpu', memory', running) BY <1>1, ViewThen
    <2>2. SegmentsOf(memory', running) = SegmentsOf(memory, running) BY <1>4 DEF SegmentsOf
    <2> QED BY <1>4, <2>1, <2>2 DEF ViewIn
  <1>9. Phase = "user" BY <1>1 DEF Phase
  <1>10. \/ Phase' = "resched" /\ View(running)' = View(running)
         \/ /\ Phase' \in {"call", "resched"}
            /\ View(running).regs.eip # 0
            /\ View(running)' = [View(running) EXCEPT !.regs.eip = 0]
    <2>1. CASE mode' = "timer" /\ r = cpu
      <3>1. Phase' = "resched" BY <2>1 DEF Phase
      <3> QED BY <1>7, <1>8, <2>1, <3>1
    <2>2. CASE mode' = "syscall" /\ cpu.eip # 0 /\ r = [cpu EXCEPT !.eip = 0]
      <3>1. Phase' \in {"call", "resched"} BY <2>2 DEF Phase
      <3> QED BY <1>7, <1>8, <2>2, <3>1
    <2> QED BY <1>3, <2>1, <2>2
  <1>11. Machine!Trap(running)
    BY <1>1, <1>5, <1>6, <1>9, <1>10 DEF Machine!Trap
  <1> QED BY <1>5, <1>11

LEMMA MachineReturn ==
  ASSUME Inv, Inv', syscall_putchar
  PROVE  Machine!Return
PROOF
  <1>1. mode = "syscall" /\ cpu.ebx \in {SYSCALL_PUTCHAR, SYSCALL_TRIGGER_BUG}
        /\ hw_context_switch_no_idle(memory, cpu.eax) /\ UNCHANGED <<memory, live, running>>
    BY DEF syscall_putchar
  <1>2. cpu.eax = Address(running) /\ running \in Contexts /\ live \subseteq Contexts
        /\ memory \in [Addresses -> Nat]
    BY <1>1, LiveContexts DEF Inv, HandlerInv, TypeOK
  <1>3. cpu' = popa_iret(memory, Address(running)) /\ mode' = "user"
    BY <1>1, <1>2, SwitchEffect
  <1>4. Phase = "call" /\ Phase' = "user"
    BY <1>1, <1>3 DEF Phase, SYSCALL_YIELD, SYSCALL_PUTCHAR, SYSCALL_TRIGGER_BUG
  <1>5. ASSUME NEW t \in live PROVE View(t)' = View(t)
    <2>1. View(t) = ViewIn(FALSE, cpu, memory, t) BY <1>1, ViewNow
    <2>2. View(t)' = ViewIn(t = running, cpu', memory, t) BY <1>1, <1>3, ViewThen
    <2> QED BY <1>3, <2>1, <2>2 DEF ViewIn
  <1> QED BY <1>1, <1>2, <1>4, <1>5 DEF Machine!Return

\* dup_thread returns twice: with 1, and with 0 in the new thread.
LEMMA MachineDup ==
  ASSUME Inv, Inv', syscall_dup_thread
  PROVE  \E t \in Contexts : Machine!Dup(t)
PROOF
  <1>0. PICK c2 : c2 = nb_tasks + idx_reserve - 1 OBVIOUS
  <1>1. /\ mode = "syscall" /\ mode' = "user"
        /\ c2 \in Contexts \ live
        /\ live' = live \cup {c2}
        /\ running' = running
        /\ hw_context_switch_no_idle(memory', Address(running))
        /\ memory' \in [Addresses -> Nat]
    BY <1>0, DupChild
  <1>2. /\ popa_iret(memory', Address(running)) = [popa_iret(memory, Address(running)) EXCEPT !.eax = 1]
        /\ popa_iret(memory', Address(c2)) = [popa_iret(memory, Address(running)) EXCEPT !.eax = 0]
    BY <1>0, DupChild
  <1>3. \A f \in {"start_address", "memsize"} :
          /\ Field(memory', Address(running), f) = Field(memory, Address(running), f)
          /\ Field(memory', Address(c2), f) = Field(memory, Address(running), f)
    BY <1>0, DupChild
  <1>4. \A d \in Contexts \ {running, c2} : \A f \in DOMAIN Offset :
          Field(memory', Address(d), f) = Field(memory, Address(d), f)
    BY <1>0, DupChild
  <1>5. running \in Contexts /\ running \in live /\ live \subseteq Contexts BY LiveContexts
  <1>6. cpu' = popa_iret(memory', Address(running))
    BY <1>1, <1>5, SwitchEffect
  <1>7. Phase = "call" /\ Phase' = "user"
    BY <1>1 DEF syscall_dup_thread, Phase, SYSCALL_YIELD, SYSCALL_DUP_THREAD
  <1>8. View(running) = [regs |-> popa_iret(memory, Address(running)), segments |-> SegmentsOf(memory, running)]
    BY <1>1, ViewNow DEF ViewIn
  <1>9. View(running)' = [regs |-> [popa_iret(memory, Address(running)) EXCEPT !.eax = 1],
                          segments |-> SegmentsOf(memory, running)]
    <2>1. View(running)' = ViewIn(TRUE, cpu', memory', running) BY <1>1, ViewThen
    <2>2. SegmentsOf(memory', running) = SegmentsOf(memory, running) BY <1>3 DEF SegmentsOf
    <2> QED BY <1>2, <1>6, <2>1, <2>2 DEF ViewIn
  <1>10. View(c2)' = [regs |-> [popa_iret(memory, Address(running)) EXCEPT !.eax = 0],
                      segments |-> SegmentsOf(memory, running)]
    <2>1. c2 # running BY <1>1, <1>5
    <2>2. View(c2)' = ViewIn(FALSE, cpu', memory', c2) BY <1>1, <2>1, ViewThen
    <2>3. SegmentsOf(memory', c2) = SegmentsOf(memory, running) BY <1>3 DEF SegmentsOf
    <2> QED BY <1>2, <2>2, <2>3 DEF ViewIn
  <1>11. ASSUME NEW t \in live \ {running} PROVE View(t)' = View(t)
    <2>1. t \in Contexts \ {running, c2} BY <1>1, <1>5
    <2>2. View(t) = ViewIn(FALSE, cpu, memory, t) BY ViewNow
    <2>3. View(t)' = ViewIn(FALSE, cpu', memory', t) BY <1>1, ViewThen
    <2>4. popa_iret(memory', Address(t)) = popa_iret(memory, Address(t))
      BY <1>4, <2>1, SameRegisters
    <2>5. SegmentsOf(memory', t) = SegmentsOf(memory, t)
      BY <1>4, <2>1, Offsets DEF SegmentsOf
    <2> QED BY <2>2, <2>3, <2>4, <2>5 DEF ViewIn
  <1>12. View(running)' = [View(running) EXCEPT !.regs.eax = 1]
    BY <1>8, <1>9
  <1>13. View(c2)' = [View(running) EXCEPT !.regs.eax = 0]
    BY <1>8, <1>10
  <1>14. c2 \in Contexts /\ c2 \notin live BY <1>1
  <1>15. Machine!Dup(c2)
    BY <1>1, <1>5, <1>7, <1>11, <1>12, <1>13, <1>14 DEF Machine!Dup
  <1> QED BY <1>14, <1>15

LEMMA MachineSwitchOn ==
  ASSUME Inv, Inv', high_level_init
  PROVE  Machine!SwitchOn
PROOF
  <1>1. mode = "boot" /\ mode' = "ready" /\ UNCHANGED <<live, running>> BY DEF high_level_init
  <1>2. Phase = "off" /\ Phase' = "resched" BY <1>1 DEF Phase
  <1>3. live \subseteq Contexts BY LiveContexts
  <1>4. ASSUME NEW t \in live PROVE View(t)' = InitialView(t)
    <2>1. View(t)' = ViewIn(FALSE, cpu', memory', t) BY <1>1, ViewThen
    <2>2. \A f \in DOMAIN Offset : Field(memory', Address(t), f) = InitialContext(t)[f]
      BY <1>3, InitialMemory
    <2>3. popa_iret(memory', Address(t)) =
            [f \in Registers |-> IF f = "ds" THEN InitialContext(t).ss ELSE InitialContext(t)[f]]
      <3>1. Registers \ {"ds"} \subseteq DOMAIN Offset /\ "ss" \in DOMAIN Offset
        BY Offsets DEF Registers
      <3> QED BY <2>2, <3>1 DEF popa_iret
    <2>4. SegmentsOf(memory', t) = Segments(InitialContext(t).start_address, InitialContext(t).memsize)
      BY <2>2, Offsets DEF SegmentsOf
    <2> QED BY <2>1, <2>3, <2>4 DEF ViewIn, InitialView
  <1> QED BY <1>1, <1>2, <1>3, <1>4 DEF Machine!SwitchOn

LEMMA MachineNext == Inv /\ Inv' /\ [Next]_vars => [Machine!Next]_(Machine!tmVars)
PROOF
  <1> SUFFICES ASSUME Inv, Inv', [Next]_vars PROVE [Machine!Next]_(Machine!tmVars) OBVIOUS
  <1> USE DEF Machine!Next
  <1>1. CASE high_level_init BY <1>1, MachineSwitchOn
  <1>2. CASE boot
    <2>1. Phase = "resched" /\ mode # "user" BY <1>2 DEF boot, Phase
    <2> QED BY <1>2, <2>1, MachineDispatch DEF boot
  <1>3. CASE UserInstruction BY <1>3, MachineRun
  <1>4. CASE mode' = "halted"
    <2>1. Machine!Halt BY <1>4 DEF Machine!Halt, Phase
    <2> QED BY <2>1
  <1>5. CASE mode' # "halted" /\ (asm_syscall_handler \/ asm_timer_interrupt_handler)
    BY <1>5, MachineTrap
  <1>6. CASE asm_default_interrupt_handler \/ dup_thread_fatal
    BY <1>4, <1>6 DEF asm_default_interrupt_handler, dup_thread_fatal
  <1>7. CASE c_syscall_yield
    <2>1. Phase = "resched" /\ mode # "user" BY <1>7 DEF c_syscall_yield, Phase
    <2> QED BY <1>7, <2>1, MachineDispatch DEF c_syscall_yield
  <1>8. CASE syscall_putchar BY <1>8, MachineReturn
  <1>9. CASE syscall_dup_thread BY <1>9, MachineDup
  <1>10. CASE high_level_timer_interrupt_handler
    <2>1. Phase = "resched" /\ mode # "user" BY <1>10 DEF high_level_timer_interrupt_handler, Phase
    <2> QED BY <1>10, <2>1, MachineDispatch DEF high_level_timer_interrupt_handler
  <1>11. CASE UNCHANGED vars
    <2>1. UNCHANGED <<memory, cpu, gdt, mode, live, running>> BY <1>11 DEF vars
    <2>2. \A c \in Contexts : View(c)' = View(c) BY <2>1 DEF View
    <2>3. Phase' = Phase BY <2>1 DEF Phase
    <2> QED BY <2>1, <2>2, <2>3 DEF Machine!tmVars
  <1> QED BY <1>1, <1>2, <1>3, <1>4, <1>5, <1>6, <1>7, <1>8, <1>9, <1>10, <1>11 DEF Next

\* Every thread seems to own the CPU, for every number of threads, every image
\* and every user code: the words that the stubs push and pop, the copies that
\* dup_thread makes and the descriptors that the switch packs give each thread
\* its own registers and segments back (LowLevel implements ThreadMachine).
THEOREM ThreadsOwnTheCPUCorrect == Spec => ThreadsOwnTheCPU
PROOF
  <1>1. Inv /\ Inv' /\ [Next]_vars => [Machine!Next]_(Machine!tmVars) BY MachineNext
  <1> QED BY <1>1, MachineInit, Invariant, PTL DEF Spec, ThreadsOwnTheCPU, Machine!Spec

=============================================================================
