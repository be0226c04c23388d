-------------------------- MODULE RecordCfgProofs --------------------------
(***************************************************************************)
(* Proofs about RecordCfg and the symbol table, for every program and      *)
(* every width of addresses.                                               *)
(***************************************************************************)
EXTENDS RecordCfg, FiniteSetTheorems, SequenceTheorems, WellFoundedInduction, TLAPS

-----------------------------------------------------------------------------
(* Addresses.                                                              *)

\* A set of numbers has a least element: induction, for sets.
LEMMA LeastElement ==
  ASSUME NEW T \in SUBSET Nat, T # {}
  PROVE  \E m \in T : \A n \in T : m <= n
PROOF
  <1> DEFINE R == OpToRel(<, Nat)
  <1>1. IsWellFoundedOn(R, Nat) BY NatLessThanWellFounded
  <1>2. \A x, y \in Nat : y < x => <<y, x>> \in R BY DEF OpToRel
  <1> HIDE DEF R
  <1>3. PICK x \in T : \A y \in T : ~(<<y, x>> \in R) BY <1>1, WFMin
  <1>4. \A y \in T : ~(y < x) BY <1>2, <1>3
  <1>5. x \in Nat OBVIOUS
  <1>6. \A y \in T : x <= y BY <1>4, <1>5
  <1> QED BY <1>6

\* g is the powers of two up to the n-th one.
PowersUpTo(n, g) == g = [k \in 0 .. n |-> IF k = 0 THEN 1 ELSE 2 * g[k - 1]]

LEMMA PowersExist ==
  ASSUME NEW n \in Nat
  PROVE  \E g : PowersUpTo(n, g) /\ \A k \in 0 .. n : g[k] \in Nat \ {0}
PROOF
  <1> DEFINE P(i, g) == PowersUpTo(i, g) /\ \A k \in 0 .. i : g[k] \in Nat \ {0}
             T == {i \in Nat : ~ \E g : P(i, g)}
  <1> SUFFICES ASSUME T # {} PROVE FALSE OBVIOUS
  <1>1. PICK m \in T : \A i \in T : m <= i
    <2>1. T \in SUBSET Nat OBVIOUS
    <2> HIDE DEF T
    <2> QED BY <2>1, LeastElement
  <1>2. CASE m = 0
    <2> DEFINE g == [k \in 0 .. 0 |-> 1]
    <2>1. \A k \in 0 .. 0 : g[k] = 1 /\ k = 0 OBVIOUS
    <2>2. PowersUpTo(0, g) BY <2>1 DEF PowersUpTo
    <2>3. P(0, g) BY <2>1, <2>2
    <2> QED BY <1>2, <2>3
  <1>3. CASE m # 0
    <2>1. m \in Nat /\ m - 1 \in Nat /\ m - 1 \notin T BY <1>1, <1>3
    <2>2. PICK h : P(m - 1, h) BY <2>1
    <2> DEFINE g == [k \in 0 .. m |-> IF k = m THEN 2 * h[m - 1] ELSE h[k]]
    <2>3. \A k \in 0 .. m - 1 : h[k] = IF k = 0 THEN 1 ELSE 2 * h[k - 1]
      BY <2>2 DEF PowersUpTo
    <2>4. \A k \in 0 .. m - 1 : h[k] \in Nat \ {0} BY <2>2
    <2>5. ASSUME NEW k \in 0 .. m
          PROVE  g[k] = (IF k = 0 THEN 1 ELSE 2 * g[k - 1]) /\ g[k] \in Nat \ {0}
      <3>1. CASE k = m
        <4>1. m - 1 \in 0 .. m - 1 /\ m - 1 \in 0 .. m /\ m - 1 # m BY <2>1
        <4>2. g[k - 1] = h[m - 1] /\ g[k] = 2 * h[m - 1] BY <2>1, <3>1, <4>1
        <4>3. h[m - 1] \in Nat \ {0} BY <2>4, <4>1
        <4> QED BY <1>3, <3>1, <4>2, <4>3
      <3>2. CASE k # m
        <4>1. k \in 0 .. m - 1 BY <2>1, <3>2
        <4>2. g[k] = h[k] BY <3>2
        <4>3. k # 0 => k - 1 \in 0 .. m /\ k - 1 # m BY <2>1, <4>1
        <4>4. k # 0 => g[k - 1] = h[k - 1] BY <4>3
        <4> QED BY <2>3, <2>4, <4>1, <4>2, <4>4
      <3> QED BY <3>1, <3>2
    <2>6. PowersUpTo(m, g)
      <3>1. \A k \in 0 .. m : g[k] = IF k = 0 THEN 1 ELSE 2 * g[k - 1] BY <2>5
      <3> QED BY <3>1, Zenon DEF PowersUpTo
    <2>7. P(m, g) BY <2>5, <2>6
    <2> QED BY <2>7
  <1> QED BY <1>2, <1>3

LEMMA Powers ==
  /\ pow2[0] = 1
  /\ \A k \in 0 .. Bits : pow2[k] \in Nat \ {0}
  /\ \A k \in 1 .. Bits : pow2[k] = 2 * pow2[k - 1]
PROOF
  <1>1. Bits \in Nat \ {0} BY BitsAssumption
  <1>2. \E g : PowersUpTo(Bits, g) BY <1>1, PowersExist
  <1>3. PowersUpTo(Bits, pow2) BY <1>2, Zenon DEF pow2, PowersUpTo
  <1>4. \A k \in 0 .. Bits : pow2[k] = IF k = 0 THEN 1 ELSE 2 * pow2[k - 1]
    BY <1>3 DEF PowersUpTo
  <1>5. 0 \in 0 .. Bits BY <1>1
  <1>6. pow2[0] = 1 BY <1>4, <1>5
  <1>7. \A k \in 1 .. Bits : pow2[k] = 2 * pow2[k - 1]
    <2>1. \A k \in 1 .. Bits : k \in 0 .. Bits /\ k # 0 BY <1>1
    <2> QED BY <1>4, <2>1
  <1>8. \A k \in 0 .. Bits : pow2[k] \in Nat \ {0}
    <2> DEFINE T == {k \in 0 .. Bits : pow2[k] \notin Nat \ {0}}
    <2> SUFFICES ASSUME T # {} PROVE FALSE OBVIOUS
    <2>1. PICK m \in T : \A i \in T : m <= i
      <3>1. T \in SUBSET Nat BY <1>1
      <3> HIDE DEF T
      <3> QED BY <3>1, LeastElement
    <2>2. m # 0 BY <1>6
    <2>3. m - 1 \in 0 .. Bits /\ m - 1 \notin T BY <1>1, <2>1, <2>2
    <2>4. pow2[m - 1] \in Nat \ {0} BY <2>3
    <2>5. m \in 1 .. Bits BY <1>1, <2>2
    <2>6. pow2[m] = 2 * pow2[m - 1] BY <1>7, <2>5
    <2> QED BY <2>4, <2>6
  <1> QED BY <1>6, <1>7, <1>8

LEMMA KeysFinite == Key \in SUBSET Nat /\ IsFiniteSet(Key)
PROOF
  <1>1. Bits \in 0 .. Bits BY BitsAssumption
  <1>2. pow2[Bits] \in Nat \ {0} BY <1>1, Powers
  <1> QED BY <1>2, FS_Interval DEF Key

-----------------------------------------------------------------------------
(* The inductive invariant of the search.                                  *)

Vertex == Key \X Seq(Key)
CallFrame == [kind : {"path", "fork", "successors"}, src : Vertex, left : SUBSET Key, first : BOOLEAN]

Types ==
  /\ program \in Programs
  /\ vertices \subseteq Vertex
  /\ edges \subseteq vertices \X vertices
  /\ graph_changed \in BOOLEAN
  /\ worklist \in Seq(Vertex)
  /\ calls \in Seq(CallFrame)
  /\ nodes \subseteq vertices
  /\ phase \in {"init", "idle", "round", "done", "failed"}

PhaseInv ==
  /\ phase # "round" => calls = <<>>
  /\ phase = "init" => vertices = {entry} /\ edges = {}
  /\ entry \in vertices

\* The frames below the innermost one wait for it: none is a path, which is a tail
\* call, and none is at its first jump.  handle_successors is the outermost frame.
Settled(fr) == fr.kind # "path" /\ ~fr.first
FrameOK(fr, V, J) ==
  /\ fr.src \in V
  /\ fr.left \subseteq J[fr.src[1]]
  /\ fr.kind = "path" => \A a, b \in fr.left : a = b
FramesOK(c, V, J) ==
  /\ \A i \in 1 .. Len(c) : FrameOK(c[i], V, J)
  /\ \A i \in 1 .. Len(c) : c[i].kind = "successors" => i = Len(c)
  /\ \A i \in 2 .. Len(c) : Settled(c[i])

\* The worklist holds, one place deeper, the vertices that the forks return to.
Lined(c, w) ==
  \A i \in 1 .. Len(c) : c[i].kind = "fork" => i + 1 \in 1 .. Len(w) /\ w[i + 1] = c[i].src

\* The search stands where the innermost frame needs it.
Positioned(c, w) ==
  /\ c # <<>> /\ c[1].kind = "path" => w # <<>> /\ w[1] = c[1].src /\ Lined(Tail(c), w)
  /\ ~(c # <<>> /\ c[1].kind = "path") => Lined(c, w)
  /\ c # <<>> /\ c[1].kind = "fork" /\ c[1].first => w[1] = c[1].src

\* Of a vertex that this round has dealt with, the jump to dst is in the graph or
\* waits in a frame.
Handled(v, dst) ==
  \/ <<v, after(v, dst)>> \in edges
  \/ \E i \in 1 .. Len(calls) : calls[i].src = v /\ dst \in calls[i].left

\* As long as a round has changed nothing.
RoundInv ==
  phase = "round" /\ ~graph_changed =>
    /\ sources = {e[1] : e \in edges}
    /\ \A v \in vertices \ nodes : \A dst \in jumps[v[1]] : Handled(v, dst)

\* The vertices of the graph are those reached from the entry.
Rooted ==
  \A C \in SUBSET vertices :
    entry \in C /\ (\A e \in edges : e[1] \in C => e[2] \in C) => C = vertices

SearchInv == Types /\ PhaseInv /\ FramesOK(calls, vertices, jumps) /\ Positioned(calls, worklist)

-----------------------------------------------------------------------------
(* Jumps and call stacks.                                                  *)

LEMMA JumpsType ==
  ASSUME program \in Programs
  PROVE  jumps \in [Key -> SUBSET Key]
PROOF BY ProgramsAssumption DEF jumps

\* A jump leads to the same vertex as long as the symbol table stays.
LEMMA FuncSame ==
  ASSUME symtable' = symtable, NEW CONSTANT a
  PROVE  func(a)' = func(a)
PROOF BY DEF func

LEMMA AfterSame ==
  ASSUME symtable' = symtable, NEW CONSTANT v, NEW CONSTANT dst
  PROVE  after(v, dst)' = after(v, dst)
PROOF
  <1> DEFINE Match == {i \in 1 .. Len(v[2]) : func(v[2][i]) = func(dst)}
             at == IF Match # {} THEN Min(Match) ELSE 0
             stack == IF func(dst) = func(v[1]) THEN v[2]
                      ELSE IF at # 0 THEN SubSeq(v[2], at + 1, Len(v[2])) ELSE <<v[1]>> \o v[2]
  <1>1. \A a : func(a)' = func(a) BY FuncSame
  <1>2. Match' = Match BY <1>1
  <1>3. at' = at
    <2> HIDE DEF Match
    <2> QED BY <1>2
  <1>4. stack' = stack
    <2> HIDE DEF at
    <2> QED BY <1>1, <1>3
  <1>5. after(v, dst) = <<dst, stack>> BY DEF after, call_stack_after_jump, SelectInSeq
  <1>6. after(v, dst)' = <<dst, stack'>> BY DEF after, call_stack_after_jump, SelectInSeq
  <1> HIDE DEF stack
  <1> QED BY <1>4, <1>5, <1>6

\* Where a jump is to: within a function, back to one of the stack, or a call.
LEMMA StackCases ==
  ASSUME NEW v \in Vertex, NEW dst
  PROVE  \/ func(dst) = func(v[1]) /\ call_stack_after_jump(v, dst) = v[2]
         \/ \E at \in 1 .. Len(v[2]) :
              /\ func(v[2][at]) = func(dst)
              /\ call_stack_after_jump(v, dst) = SubSeq(v[2], at + 1, Len(v[2]))
         \/ /\ func(dst) # func(v[1])
            /\ \A i \in 1 .. Len(v[2]) : func(v[2][i]) # func(dst)
            /\ call_stack_after_jump(v, dst) = <<v[1]>> \o v[2]
PROOF
  <1> DEFINE I == {i \in 1 .. Len(v[2]) : func(v[2][i]) = func(dst)}
             at == IF I # {} THEN Min(I) ELSE 0
  <1>1. v[2] \in Seq(Key) /\ Len(v[2]) \in Nat BY DEF Vertex
  <1>2. call_stack_after_jump(v, dst) =
          IF func(dst) = func(v[1]) THEN v[2]
          ELSE IF at # 0 THEN SubSeq(v[2], at + 1, Len(v[2])) ELSE <<v[1]>> \o v[2]
    BY DEF call_stack_after_jump, SelectInSeq
  <1>3. CASE I = {} BY <1>2, <1>3
  <1>4. CASE I # {}
    <2>1. I \in SUBSET Nat BY <1>1
    <2>2. \E x \in I : \A y \in I : x =< y
      <3> HIDE DEF I
      <3> QED BY <1>4, <2>1, LeastElement
    <2>3. Min(I) \in I
      <3> HIDE DEF I
      <3> QED BY <2>2 DEF Min
    <2>4. at \in I /\ at # 0 BY <1>4, <2>3
    <2> HIDE DEF at
    <2> QED BY <1>2, <2>4
  <1> QED BY <1>3, <1>4

LEMMA AfterType ==
  ASSUME NEW v \in Vertex, NEW dst \in Key
  PROVE  after(v, dst) \in Vertex /\ after(v, dst)[1] = dst
PROOF
  <1>1. v[1] \in Key /\ v[2] \in Seq(Key) BY DEF Vertex
  <1>2. \A at \in 1 .. Len(v[2]) : SubSeq(v[2], at + 1, Len(v[2])) \in Seq(Key)
    <2> TAKE at \in 1 .. Len(v[2])
    <2>1. Len(v[2]) \in Nat /\ \A i \in at + 1 .. Len(v[2]) : v[2][i] \in Key BY <1>1
    <2> QED BY <2>1, SubSeqProperties
  <1>3. <<v[1]>> \o v[2] \in Seq(Key) BY <1>1
  <1>4. call_stack_after_jump(v, dst) \in Seq(Key)
    <2> DEFINE s == call_stack_after_jump(v, dst)
    <2>1. s = v[2] \/ (\E at \in 1 .. Len(v[2]) : s = SubSeq(v[2], at + 1, Len(v[2]))) \/ s = <<v[1]>> \o v[2]
      BY StackCases, Zenon
    <2> HIDE DEF s
    <2>2. s \in Seq(Key) BY <1>1, <1>2, <1>3, <2>1, Zenon
    <2> QED BY <2>2 DEF s
  <1> QED BY <1>4 DEF after, Vertex

\* No function twice on the stack of v, or on it while it runs.
Alone(v) ==
  /\ \A i \in 1 .. Len(v[2]) : func(v[2][i]) # func(v[1])
  /\ \A i, j \in 1 .. Len(v[2]) : func(v[2][i]) = func(v[2][j]) => i = j

LEMMA AloneIsInjective ==
  ASSUME NEW v \in Vertex
  PROVE  Alone(v) <=> IsInjective([k \in 1 .. Len(v[2]) + 1 |->
                                     IF k = 1 THEN func(v[1]) ELSE func(v[2][k - 1])])
PROOF
  <1> DEFINE n == Len(v[2])
             F(k) == IF k = 1 THEN func(v[1]) ELSE func(v[2][k - 1])
  <1>1. n \in Nat BY DEF Vertex
  <1>2. IsInjective([k \in 1 .. n + 1 |-> F(k)]) <=> \A a, b \in 1 .. n + 1 : F(a) = F(b) => a = b
    BY DEF IsInjective
  <1>3. ASSUME Alone(v) PROVE \A a, b \in 1 .. n + 1 : F(a) = F(b) => a = b
    <2> SUFFICES ASSUME NEW a \in 1 .. n + 1, NEW b \in 1 .. n + 1, F(a) = F(b) PROVE a = b OBVIOUS
    <2>1. a # 1 => a - 1 \in 1 .. n BY <1>1
    <2>2. b # 1 => b - 1 \in 1 .. n BY <1>1
    <2>3. CASE a = 1 /\ b # 1 BY <1>3, <2>2, <2>3 DEF Alone
    <2>4. CASE a # 1 /\ b = 1 BY <1>3, <2>1, <2>4 DEF Alone
    <2>5. CASE a # 1 /\ b # 1
      <3>1. func(v[2][a - 1]) = func(v[2][b - 1]) BY <2>5
      <3>2. a - 1 = b - 1 BY <1>3, <2>1, <2>2, <2>5, <3>1 DEF Alone
      <3> QED BY <1>1, <3>2
    <2> QED BY <2>3, <2>4, <2>5
  <1>4. ASSUME \A a, b \in 1 .. n + 1 : F(a) = F(b) => a = b PROVE Alone(v)
    <2>1. \A i \in 1 .. n : i + 1 \in 1 .. n + 1 /\ i + 1 # 1 /\ (i + 1) - 1 = i BY <1>1
    <2>2. 1 \in 1 .. n + 1 BY <1>1
    <2>3. \A i \in 1 .. n : F(i + 1) = func(v[2][i]) BY <2>1
    <2>4. F(1) = func(v[1]) OBVIOUS
    <2> HIDE DEF F
    <2>5. \A i \in 1 .. n : func(v[2][i]) # func(v[1]) BY <1>4, <2>1, <2>2, <2>3, <2>4
    <2>6. ASSUME NEW i \in 1 .. n, NEW j \in 1 .. n, func(v[2][i]) = func(v[2][j]) PROVE i = j
      <3>1. i + 1 = j + 1 BY <1>4, <2>1, <2>3, <2>6
      <3> QED BY <1>1, <3>1
    <2> QED BY <2>5, <2>6 DEF Alone
  <1> HIDE DEF F
  <1>5. Alone(v) <=> IsInjective([k \in 1 .. n + 1 |-> F(k)]) BY <1>2, <1>3, <1>4
  <1> QED BY <1>5 DEF F

\* What call_stack_after_jump is for: it keeps functions from repeating.
LEMMA AloneAfter ==
  ASSUME NEW v \in Vertex, NEW dst \in Key, Alone(v)
  PROVE  Alone(after(v, dst))
PROOF
  <1> DEFINE s == call_stack_after_jump(v, dst)
             old == v[2]
  <1>1. v[1] \in Key /\ old \in Seq(Key) /\ Len(old) \in Nat BY DEF Vertex
  <1>2. after(v, dst) = <<dst, s>> BY DEF after
  <1>3. /\ \A i \in 1 .. Len(old) : func(old[i]) # func(v[1])
        /\ \A i, j \in 1 .. Len(old) : func(old[i]) = func(old[j]) => i = j
    BY DEF Alone
  <1>4. ASSUME func(dst) = func(v[1]), s = old
        PROVE  Alone(<<dst, s>>)
    BY <1>3, <1>4 DEF Alone
  <1>5. ASSUME NEW at \in 1 .. Len(old), func(old[at]) = func(dst), s = SubSeq(old, at + 1, Len(old))
        PROVE  Alone(<<dst, s>>)
    <2>1. \A i \in at + 1 .. Len(old) : old[i] \in Key BY <1>1
    <2>2. /\ Len(s) = IF at + 1 <= Len(old) THEN Len(old) - (at + 1) + 1 ELSE 0
          /\ \A i \in 1 .. Len(old) - (at + 1) + 1 : s[i] = old[(at + 1) + i - 1]
      BY <1>1, <1>5, <2>1, SubSeqProperties
    <2> HIDE DEF s
    <2>3. \A i \in 1 .. Len(s) : at + i \in 1 .. Len(old) /\ at + i # at /\ s[i] = old[at + i]
      BY <1>1, <2>2
    <2>4. \A i \in 1 .. Len(s) : func(s[i]) # func(dst)
      BY <1>3, <1>5, <2>3
    <2>5. ASSUME NEW i \in 1 .. Len(s), NEW j \in 1 .. Len(s), func(s[i]) = func(s[j]) PROVE i = j
      <3>1. at + i = at + j BY <1>3, <2>3, <2>5
      <3> QED BY <1>1, <3>1
    <2> QED BY <2>4, <2>5 DEF Alone
  <1>6. ASSUME func(dst) # func(v[1]), \A i \in 1 .. Len(old) : func(old[i]) # func(dst), s = <<v[1]>> \o old
        PROVE  Alone(<<dst, s>>)
    <2>1. Len(s) = Len(old) + 1 /\ s[1] = v[1] /\ \A i \in 2 .. Len(s) : s[i] = old[i - 1] /\ i - 1 \in 1 .. Len(old)
      BY <1>1, <1>6
    <2> HIDE DEF s
    <2>2. \A i \in 1 .. Len(s) : i = 1 \/ i \in 2 .. Len(s) BY <1>1, <2>1
    <2>3. \A i \in 1 .. Len(s) : func(s[i]) # func(dst) BY <1>6, <2>1, <2>2
    <2>4. ASSUME NEW i \in 1 .. Len(s), NEW j \in 1 .. Len(s), func(s[i]) = func(s[j]) PROVE i = j
      <3>1. CASE i = 1 /\ j = 1 BY <3>1
      <3>2. CASE i = 1 /\ j \in 2 .. Len(s) BY <1>3, <2>1, <2>4, <3>2
      <3>3. CASE i \in 2 .. Len(s) /\ j = 1 BY <1>3, <2>1, <2>4, <3>3
      <3>4. CASE i \in 2 .. Len(s) /\ j \in 2 .. Len(s)
        <4>1. s[i] = old[i - 1] /\ i - 1 \in 1 .. Len(old) /\ s[j] = old[j - 1] /\ j - 1 \in 1 .. Len(old)
          BY <2>1, <3>4
        <4>2. func(old[i - 1]) = func(old[j - 1]) BY <2>4, <4>1
        <4>3. i - 1 = j - 1 BY <1>3, <4>1, <4>2
        <4> QED BY <1>1, <2>1, <4>3
      <3> QED BY <2>2, <3>1, <3>2, <3>3, <3>4
    <2> QED BY <2>3, <2>4 DEF Alone
  <1> HIDE DEF s
  <1>7. Alone(<<dst, s>>) BY <1>4, <1>5, <1>6, StackCases DEF s
  <1> QED BY <1>2, <1>7

-----------------------------------------------------------------------------
(* analyze_address, from a vertex of the graph at the top of w.            *)

\* What its callers see to.
Ready(dst, w, rest) ==
  /\ w \in Seq(Vertex) /\ w # <<>> /\ w[1] \in vertices
  /\ dst \in jumps[w[1][1]]
  /\ rest \in Seq(CallFrame) /\ FramesOK(rest, vertices, jumps) /\ Lined(rest, w)
  /\ rest # <<>> => Settled(rest[1])

\* The graph it leaves.
Records(from, dst) ==
  /\ edges' = edges \cup {<<from, after(from, dst)>>}
  /\ vertices' = vertices \cup {after(from, dst)}
  /\ UNCHANGED table

\* A step that leaves the flag down leaves the graph, and the frames but for rest.
Quiet(rest) ==
  ~graph_changed' => ~graph_changed /\ vertices' = vertices /\ edges' = edges /\ calls' = rest

LEMMA AnalyzeRecords ==
  ASSUME NEW dst, NEW w, NEW rest, analyze_address(dst, w, rest), graph_changed \in BOOLEAN
  PROVE  Records(w[1], dst) /\ Quiet(rest) /\ graph_changed' \in BOOLEAN
PROOF
  <1> DEFINE from == w[1]
             new == after(from, dst)
  <1>1. edges' = edges \cup {<<from, new>>} BY DEF analyze_address
  <1>2. CASE new \in vertices
    <2>1. next_visited(from, new) /\ calls' = rest BY <1>2 DEF analyze_address
    <2>2. vertices' = vertices /\ UNCHANGED table
          /\ graph_changed' = (graph_changed \/ <<from, new>> \notin edges)
      BY <2>1 DEF next_visited
    <2> HIDE DEF new
    <2>3. vertices' = vertices \cup {new} BY <1>2, <2>2
    <2>4. ~graph_changed' => ~graph_changed /\ edges' = edges BY <1>1, <2>2
    <2>5. graph_changed' \in BOOLEAN BY <2>2
    <2> QED BY <1>1, <2>1, <2>2, <2>3, <2>4, <2>5 DEF Records, Quiet, new
  <1>3. CASE new \notin vertices
    <2>1. next_new(from, new) BY <1>3 DEF analyze_address
    <2> QED BY <1>1, <2>1 DEF next_new, Records, Quiet
  <1> QED BY <1>2, <1>3

\* The shapes of what it leaves to do.
Shapes(dst, w, rest) ==
  LET new == after(w[1], dst)
  IN \/ calls' = rest /\ worklist' = w
     \/ calls' = rest /\ worklist' = <<new>> \o Tail(w)
     \/ \E S \in SUBSET jumps[dst] :
          \/ /\ worklist' = <<new>> \o Tail(w)
             /\ calls' = <<Frame("path", new, S)>> \o rest
             /\ Cardinality(S) = 1
          \/ /\ worklist' = <<new, new>> \o Tail(w)
             /\ calls' = <<Frame("fork", new, S)>> \o rest

LEMMA AnalyzeShapes ==
  ASSUME NEW dst, NEW w, NEW rest, analyze_address(dst, w, rest)
  PROVE  Shapes(dst, w, rest)
PROOF BY DEF analyze_address, Shapes, fork

\* A frame on top of settled ones.
Pushable(fr, rest, V, J) ==
  /\ fr \in CallFrame /\ rest \in Seq(CallFrame)
  /\ FrameOK(fr, V, J) /\ FramesOK(rest, V, J)
  /\ rest # <<>> => Settled(rest[1])
  /\ fr.kind = "successors" => rest = <<>>
Pushed(fr, rest, c, V, J) ==
  /\ c \in Seq(CallFrame) /\ FramesOK(c, V, J)
  /\ c[1] = fr /\ c # <<>> /\ Len(c) = Len(rest) + 1
  /\ \A i \in 1 .. Len(rest) : c[i + 1] = rest[i]
  /\ Tail(c) = rest

LEMMA PushFrame ==
  ASSUME NEW V, NEW J, NEW fr, NEW rest, Pushable(fr, rest, V, J)
  PROVE  Pushed(fr, rest, <<fr>> \o rest, V, J)
PROOF
  <1> DEFINE c == <<fr>> \o rest
             n == Len(rest)
  <1> USE DEF Pushable
  <1>1. n \in Nat /\ <<fr>> \in Seq(CallFrame) /\ Len(<<fr>>) = 1 OBVIOUS
  <1>2. c \in Seq(CallFrame) /\ Len(c) = n + 1 /\ c[1] = fr /\ \A i \in 1 .. n : c[i + 1] = rest[i]
    BY <1>1
  <1>3. c # <<>> BY <1>1, <1>2
  <1>4. Tail(c) = rest
    <2>1. Tail(c) \in Seq(CallFrame) /\ Len(Tail(c)) = n /\ \A i \in 1 .. n : Tail(c)[i] = c[i + 1]
      BY <1>1, <1>2, <1>3, HeadTailProperties
    <2> HIDE DEF c
    <2> QED BY <1>2, <2>1, SeqEqual
  <1> HIDE DEF c
  <1>5. \A i \in 1 .. Len(c) : i = 1 \/ (i - 1 \in 1 .. n /\ c[i] = rest[i - 1])
    <2> TAKE i \in 1 .. Len(c)
    <2>1. i = 1 \/ (i - 1 \in 1 .. n /\ (i - 1) + 1 = i) BY <1>1, <1>2
    <2> QED BY <1>2, <2>1
  <1>6. FramesOK(c, V, J)
    <2>1. \A i \in 1 .. Len(c) : FrameOK(c[i], V, J) BY <1>2, <1>5 DEF FramesOK
    <2>2. ASSUME NEW i \in 1 .. Len(c), c[i].kind = "successors" PROVE i = Len(c)
      <3>1. CASE i = 1
        <4>1. rest = <<>> BY <1>2, <2>2, <3>1
        <4> QED BY <1>2, <3>1, <4>1
      <3>2. CASE i - 1 \in 1 .. n /\ c[i] = rest[i - 1]
        <4>1. i - 1 = n BY <2>2, <3>2 DEF FramesOK
        <4> QED BY <1>1, <1>2, <4>1
      <3> QED BY <1>5, <3>1, <3>2
    <2>3. ASSUME NEW i \in 2 .. Len(c) PROVE Settled(c[i])
      <3>1. i \in 1 .. Len(c) /\ i # 1 BY <1>1, <1>2
      <3>2. i - 1 \in 1 .. n /\ c[i] = rest[i - 1] BY <1>5, <3>1
      <3>3. i - 1 = 1 \/ i - 1 \in 2 .. n BY <1>1, <3>2
      <3>4. rest # <<>> BY <1>1, <3>2
      <3> QED BY <3>2, <3>3, <3>4 DEF FramesOK
    <2> QED BY <2>1, <2>2, <2>3 DEF FramesOK
  <1>7. Pushed(fr, rest, c, V, J) BY <1>2, <1>3, <1>4, <1>6 DEF Pushed
  <1> QED BY <1>7 DEF c

LEMMA PopFrame ==
  ASSUME NEW V, NEW J, NEW c \in Seq(CallFrame), c # <<>>, FramesOK(c, V, J)
  PROVE  /\ Tail(c) \in Seq(CallFrame) /\ FramesOK(Tail(c), V, J)
         /\ Tail(c) # <<>> => Settled(Tail(c)[1])
         /\ Len(Tail(c)) = Len(c) - 1 /\ Len(c) \in Nat \ {0}
         /\ \A i \in 1 .. Len(Tail(c)) : Tail(c)[i] = c[i + 1]
         /\ c[1] \in CallFrame /\ FrameOK(c[1], V, J)
         /\ c[1].kind = "successors" => Tail(c) = <<>>
PROOF
  <1> DEFINE d == Tail(c)
             n == Len(c)
  <1>1. d \in Seq(CallFrame) /\ n \in Nat \ {0} /\ Len(d) = n - 1 /\ \A i \in 1 .. n - 1 : d[i] = c[i + 1]
    BY HeadTailProperties
  <1>2. \A i \in 1 .. n - 1 : i + 1 \in 2 .. n /\ i + 1 \in 1 .. n BY <1>1
  <1>3. 1 \in 1 .. n BY <1>1
  <1>4. c[1] \in CallFrame /\ FrameOK(c[1], V, J)
    <2>1. c[1] \in CallFrame BY <1>3, ElementOfSeq
    <2>2. FrameOK(c[1], V, J) BY <1>3 DEF FramesOK
    <2> QED BY <2>1, <2>2
  <1> HIDE DEF d
  <1>5. c[1].kind = "successors" => d = <<>>
    <2> SUFFICES ASSUME c[1].kind = "successors" PROVE d = <<>> OBVIOUS
    <2>1. n = 1 BY <1>3 DEF FramesOK
    <2>2. Len(d) = 0 BY <1>1, <2>1
    <2> QED BY <1>1, <2>2, EmptySeq
  <1>6. FramesOK(d, V, J)
    <2>1. \A i \in 1 .. Len(d) : FrameOK(d[i], V, J) BY <1>1, <1>2 DEF FramesOK
    <2>2. ASSUME NEW i \in 1 .. Len(d), d[i].kind = "successors" PROVE i = Len(d)
      <3>1. c[i + 1].kind = "successors" /\ i + 1 \in 1 .. n BY <1>1, <1>2, <2>2
      <3>2. i + 1 = n BY <3>1 DEF FramesOK
      <3> QED BY <1>1, <3>2
    <2>3. ASSUME NEW i \in 2 .. Len(d) PROVE Settled(d[i])
      <3>1. i \in 1 .. n - 1 BY <1>1
      <3> QED BY <1>1, <1>2, <3>1 DEF FramesOK
    <2> QED BY <2>1, <2>2, <2>3 DEF FramesOK
  <1>7. d # <<>> => Settled(d[1])
    <2> SUFFICES ASSUME d # <<>> PROVE Settled(d[1]) OBVIOUS
    <2>1. Len(d) # 0 BY <1>1, EmptySeq
    <2>2. 1 \in 1 .. n - 1 BY <1>1, <2>1
    <2>3. d[1] = c[2] /\ 2 \in 2 .. n BY <1>1, <1>2, <2>2
    <2> QED BY <2>3 DEF FramesOK
  <1> QED BY <1>1, <1>4, <1>5, <1>6, <1>7 DEF d

\* A graph that has grown.
LEMMA FramesGrow ==
  ASSUME NEW V, NEW W, V \subseteq W, NEW J, NEW c, FramesOK(c, V, J)
  PROVE  FramesOK(c, W, J)
PROOF BY DEF FramesOK, FrameOK

\* Lined does not read the top of the worklist.
LEMMA LinedBelow ==
  ASSUME NEW c \in Seq(CallFrame), NEW w \in Seq(Vertex), w # <<>>, NEW x \in Vertex, Lined(c, w)
  PROVE  /\ <<x>> \o Tail(w) \in Seq(Vertex)
         /\ <<x>> \o Tail(w) # <<>> /\ (<<x>> \o Tail(w))[1] = x
         /\ Lined(c, <<x>> \o Tail(w))
PROOF
  <1> DEFINE u == <<x>> \o Tail(w)
  <1>1. /\ Len(w) \in Nat \ {0} /\ Tail(w) \in Seq(Vertex) /\ Len(Tail(w)) = Len(w) - 1
        /\ \A i \in 1 .. Len(w) - 1 : Tail(w)[i] = w[i + 1]
    BY HeadTailProperties
  <1>2. <<x>> \in Seq(Vertex) /\ Len(<<x>>) = 1 OBVIOUS
  <1>3. u \in Seq(Vertex) /\ Len(u) = Len(w) /\ u[1] = x /\ \A i \in 1 .. Len(w) - 1 : u[i + 1] = w[i + 1]
    BY <1>1, <1>2
  <1>4. u # <<>> BY <1>1, <1>3
  <1> HIDE DEF u
  <1>5. Lined(c, u)
    <2> SUFFICES ASSUME NEW i \in 1 .. Len(c), c[i].kind = "fork"
                 PROVE  i + 1 \in 1 .. Len(u) /\ u[i + 1] = c[i].src
      BY DEF Lined
    <2>1. i + 1 \in 1 .. Len(w) /\ w[i + 1] = c[i].src BY DEF Lined
    <2>2. i \in 1 .. Len(w) - 1 BY <1>1, <2>1
    <2> QED BY <1>3, <2>1, <2>2
  <1> QED BY <1>3, <1>4, <1>5 DEF u

\* fork.
LEMMA LinedFork ==
  ASSUME NEW rest \in Seq(CallFrame), NEW w \in Seq(Vertex), w # <<>>, NEW x \in Vertex, Lined(rest, w),
         NEW fr \in CallFrame, fr.src = x
  PROVE  /\ <<x, x>> \o Tail(w) \in Seq(Vertex) /\ (<<x, x>> \o Tail(w))[1] = x
         /\ Lined(<<fr>> \o rest, <<x, x>> \o Tail(w))
PROOF
  <1> DEFINE u == <<x, x>> \o Tail(w)
             c == <<fr>> \o rest
             n == Len(w)
  <1>1. /\ n \in Nat \ {0} /\ Tail(w) \in Seq(Vertex) /\ Len(Tail(w)) = n - 1
        /\ \A i \in 1 .. n - 1 : Tail(w)[i] = w[i + 1]
    BY HeadTailProperties
  <1>2. <<x, x>> \in Seq(Vertex) /\ Len(<<x, x>>) = 2 OBVIOUS
  <1>3. /\ u \in Seq(Vertex) /\ Len(u) = n + 1 /\ u[1] = x /\ u[2] = x
        /\ \A i \in 1 .. n - 1 : u[i + 2] = w[i + 1]
    BY <1>1, <1>2
  <1>4. Len(rest) \in Nat /\ Len(c) = Len(rest) + 1 /\ c[1] = fr /\ \A i \in 1 .. Len(rest) : c[i + 1] = rest[i]
    OBVIOUS
  <1> HIDE DEF u, c
  <1>5. ASSUME NEW i \in 1 .. Len(c), c[i].kind = "fork"
        PROVE  i + 1 \in 1 .. Len(u) /\ u[i + 1] = c[i].src
    <2>1. CASE i = 1 BY <1>1, <1>3, <1>4, <2>1
    <2>2. CASE i # 1
      <3>1. i - 1 \in 1 .. Len(rest) /\ (i - 1) + 1 = i BY <1>4, <2>2
      <3>2. c[i] = rest[i - 1] BY <1>4, <3>1
      <3>3. (i - 1) + 1 \in 1 .. n /\ w[(i - 1) + 1] = c[i].src BY <1>5, <3>1, <3>2 DEF Lined
      <3>4. i - 1 \in 1 .. n - 1 /\ (i - 1) + 2 = i + 1 BY <1>1, <3>1, <3>3
      <3>5. u[(i - 1) + 2] = w[(i - 1) + 1] BY <1>3, <3>4
      <3>6. u[i + 1] = c[i].src BY <3>3, <3>4, <3>5
      <3>7. i + 1 \in 1 .. n + 1 BY <1>1, <3>1, <3>3
      <3> QED BY <1>3, <3>6, <3>7
    <2> QED BY <2>1, <2>2
  <1>6. Lined(c, u) BY <1>5 DEF Lined
  <1> QED BY <1>3, <1>6 DEF u, c

\* What every step of the search keeps of its own state.
LEMMA AnalyzeKeeps ==
  ASSUME SearchInv, NEW CONSTANT dst, NEW CONSTANT w, NEW CONSTANT rest,
         Ready(dst, w, rest), analyze_address(dst, w, rest)
  PROVE  /\ vertices' \subseteq Vertex /\ vertices \subseteq vertices'
         /\ edges' \subseteq vertices' \X vertices'
         /\ graph_changed' \in BOOLEAN
         /\ worklist' \in Seq(Vertex) /\ calls' \in Seq(CallFrame)
         /\ FramesOK(calls', vertices', jumps)
         /\ Positioned(calls', worklist')
PROOF
  <1> DEFINE from == w[1]
             new == after(from, dst)
  <1>1. /\ w \in Seq(Vertex) /\ w # <<>> /\ from \in vertices /\ dst \in jumps[from[1]]
        /\ rest \in Seq(CallFrame) /\ FramesOK(rest, vertices, jumps) /\ Lined(rest, w)
        /\ rest # <<>> => Settled(rest[1])
    BY DEF Ready
  <1>2. vertices \subseteq Vertex /\ edges \subseteq vertices \X vertices /\ graph_changed \in BOOLEAN
        /\ program \in Programs
    BY DEF SearchInv, Types
  <1>3. jumps \in [Key -> SUBSET Key] BY <1>2, JumpsType
  <1>4. from \in Vertex /\ from[1] \in Key /\ dst \in Key BY <1>1, <1>2, <1>3 DEF Vertex
  <1>5. new \in Vertex /\ new[1] = dst BY <1>4, AfterType
  <1>6. Records(from, dst) /\ graph_changed' \in BOOLEAN BY <1>2, AnalyzeRecords
  <1>7. vertices' = vertices \cup {new} /\ edges' = edges \cup {<<from, new>>} BY <1>6 DEF Records
  <1>8. Shapes(dst, w, rest) BY AnalyzeShapes
  <1>9. \/ calls' = rest /\ worklist' = w
        \/ calls' = rest /\ worklist' = <<new>> \o Tail(w)
        \/ \E S \in SUBSET jumps[dst] :
             /\ worklist' = <<new>> \o Tail(w)
             /\ calls' = <<Frame("path", new, S)>> \o rest
             /\ Cardinality(S) = 1
        \/ \E S \in SUBSET jumps[dst] :
             /\ worklist' = <<new, new>> \o Tail(w)
             /\ calls' = <<Frame("fork", new, S)>> \o rest
    BY <1>8, Zenon DEF Shapes
  <1> HIDE DEF new, from
  <1>10. vertices' \subseteq Vertex /\ vertices \subseteq vertices' /\ edges' \subseteq vertices' \X vertices'
    BY <1>1, <1>2, <1>5, <1>7
  <1>11. FramesOK(rest, vertices', jumps) BY <1>1, <1>10, FramesGrow
  <1> DEFINE Goal == /\ worklist' \in Seq(Vertex) /\ calls' \in Seq(CallFrame)
                     /\ FramesOK(calls', vertices', jumps) /\ Positioned(calls', worklist')
  <1>12. rest # <<>> => rest[1].kind # "path" /\ ~rest[1].first BY <1>1 DEF Settled
  <1>13. ASSUME NEW u \in Seq(Vertex), Lined(rest, u) PROVE Positioned(rest, u)
    BY <1>12, <1>13 DEF Positioned
  <1>14. /\ <<new>> \o Tail(w) \in Seq(Vertex)
         /\ <<new>> \o Tail(w) # <<>> /\ (<<new>> \o Tail(w))[1] = new
         /\ Lined(rest, <<new>> \o Tail(w))
    BY <1>1, <1>5, LinedBelow
  <1>15. ASSUME calls' = rest /\ worklist' = w PROVE Goal
    BY <1>1, <1>11, <1>13, <1>15
  <1>16. ASSUME calls' = rest /\ worklist' = <<new>> \o Tail(w) PROVE Goal
    BY <1>1, <1>11, <1>13, <1>14, <1>16
  <1>17. ASSUME NEW S \in SUBSET jumps[dst], worklist' = <<new>> \o Tail(w),
                calls' = <<Frame("path", new, S)>> \o rest, Cardinality(S) = 1
         PROVE  Goal
    <2> DEFINE fr == Frame("path", new, S)
    <2>1. S \in SUBSET Key BY <1>3, <1>4
    <2>2. fr \in CallFrame /\ fr.kind = "path" /\ fr.src = new /\ fr.left = S
      BY <1>5, <2>1 DEF Frame, CallFrame
    <2>3. \A a, b \in S : a = b
      <3>1. IsFiniteSet(S) BY <2>1, KeysFinite, FS_Subset
      <3>2. \E x : S = {x} BY <1>17, <3>1, FS_Singleton
      <3> QED BY <3>2
    <2> HIDE DEF fr
    <2>4. FrameOK(fr, vertices', jumps) BY <1>5, <1>7, <2>2, <2>3 DEF FrameOK
    <2>5. /\ <<fr>> \o rest \in Seq(CallFrame) /\ FramesOK(<<fr>> \o rest, vertices', jumps)
          /\ (<<fr>> \o rest)[1] = fr /\ Tail(<<fr>> \o rest) = rest /\ <<fr>> \o rest # <<>>
      <3>1. Pushable(fr, rest, vertices', jumps) BY <1>1, <1>11, <2>2, <2>4 DEF Pushable
      <3>2. Pushed(fr, rest, <<fr>> \o rest, vertices', jumps) BY <3>1, PushFrame
      <3> QED BY <3>2 DEF Pushed
    <2>6. calls' = <<fr>> \o rest BY <1>17 DEF fr
    <2>7. Positioned(calls', worklist') BY <1>14, <1>17, <2>2, <2>5, <2>6 DEF Positioned
    <2> QED BY <1>14, <1>17, <2>5, <2>6, <2>7
  <1>18. ASSUME NEW S \in SUBSET jumps[dst], worklist' = <<new, new>> \o Tail(w),
                calls' = <<Frame("fork", new, S)>> \o rest
         PROVE  Goal
    <2> DEFINE fr == Frame("fork", new, S)
    <2>1. S \in SUBSET Key BY <1>3, <1>4
    <2>2. fr \in CallFrame /\ fr.kind = "fork" /\ fr.src = new /\ fr.left = S
      BY <1>5, <2>1 DEF Frame, CallFrame
    <2> HIDE DEF fr
    <2>3. FrameOK(fr, vertices', jumps) BY <1>5, <1>7, <2>2 DEF FrameOK
    <2>4. /\ <<fr>> \o rest \in Seq(CallFrame) /\ FramesOK(<<fr>> \o rest, vertices', jumps)
          /\ (<<fr>> \o rest)[1] = fr
      <3>1. Pushable(fr, rest, vertices', jumps) BY <1>1, <1>11, <2>2, <2>3 DEF Pushable
      <3>2. Pushed(fr, rest, <<fr>> \o rest, vertices', jumps) BY <3>1, PushFrame
      <3> QED BY <3>2 DEF Pushed
    <2>5. /\ <<new, new>> \o Tail(w) \in Seq(Vertex) /\ (<<new, new>> \o Tail(w))[1] = new
          /\ Lined(<<fr>> \o rest, <<new, new>> \o Tail(w))
      BY <1>1, <1>5, <2>2, LinedFork
    <2>6. calls' = <<fr>> \o rest BY <1>18 DEF fr
    <2>7. Positioned(calls', worklist') BY <1>18, <2>2, <2>4, <2>5, <2>6 DEF Positioned
    <2> QED BY <1>18, <2>4, <2>5, <2>6, <2>7
  <1>19. Goal BY <1>9, <1>15, <1>16, <1>17, <1>18, Zenon
  <1> QED BY <1>6, <1>10, <1>19

-----------------------------------------------------------------------------
(* The steps of the search.                                                *)

\* Of the jumps that the frames c have left, r lacks at most the one to dst of the
\* innermost frame.
Covers(c, dst, r) ==
  \A i \in 1 .. Len(c) : \A d \in c[i].left :
    \/ c[i].src = c[1].src /\ d = dst
    \/ \E j \in 1 .. Len(r) : r[j].src = c[i].src /\ d \in r[j].left

LEMMA PopCovers ==
  ASSUME NEW V, NEW J, NEW c \in Seq(CallFrame), c # <<>>, FramesOK(c, V, J),
         NEW dst, \A d \in c[1].left : d = dst
  PROVE  Covers(c, dst, Tail(c))
PROOF
  <1> DEFINE r == Tail(c)
  <1>1. /\ Len(c) \in Nat \ {0} /\ Len(r) = Len(c) - 1
        /\ \A i \in 1 .. Len(r) : r[i] = c[i + 1]
    BY PopFrame
  <1> HIDE DEF r
  <1>2. ASSUME NEW i \in 1 .. Len(c), i # 1
        PROVE  i - 1 \in 1 .. Len(r) /\ r[i - 1] = c[i]
    <2>1. i - 1 \in 1 .. Len(r) /\ (i - 1) + 1 = i BY <1>1, <1>2
    <2> QED BY <1>1, <2>1
  <1>3. Covers(c, dst, r) BY <1>2 DEF Covers
  <1> QED BY <1>3 DEF r

\* The top frame of c without dst.
Lessened(c, dst, r, V, J) ==
  /\ r \in Seq(CallFrame) /\ FramesOK(r, V, J) /\ r # <<>> /\ Settled(r[1])
  /\ Len(r) = Len(c)
  /\ \A i \in 1 .. Len(c) : r[i].src = c[i].src /\ r[i].kind = c[i].kind
  /\ Covers(c, dst, r)

LEMMA ReplaceTop ==
  ASSUME NEW V, NEW J, NEW c \in Seq(CallFrame), c # <<>>, FramesOK(c, V, J), c[1].kind # "path",
         NEW dst, NEW fr, fr = [c[1] EXCEPT !.left = @ \ {dst}, !.first = FALSE],
         NEW r, r = <<fr>> \o Tail(c)
  PROVE  Lessened(c, dst, r, V, J)
PROOF
  <1> DEFINE d == Tail(c)
  <1>1. /\ d \in Seq(CallFrame) /\ FramesOK(d, V, J) /\ (d # <<>> => Settled(d[1]))
        /\ Len(d) = Len(c) - 1 /\ Len(c) \in Nat \ {0}
        /\ \A i \in 1 .. Len(d) : d[i] = c[i + 1]
        /\ c[1] \in CallFrame /\ FrameOK(c[1], V, J)
        /\ c[1].kind = "successors" => d = <<>>
    BY PopFrame
  <1>2. /\ fr \in CallFrame /\ fr.src = c[1].src /\ fr.kind = c[1].kind /\ ~fr.first
        /\ fr.left = c[1].left \ {dst}
    BY <1>1 DEF CallFrame
  <1>3. FrameOK(fr, V, J) BY <1>1, <1>2 DEF FrameOK
  <1>4. r = <<fr>> \o d OBVIOUS
  <1> HIDE DEF d
  <1>5. /\ r \in Seq(CallFrame) /\ FramesOK(r, V, J) /\ r[1] = fr /\ r # <<>> /\ Len(r) = Len(d) + 1
        /\ \A i \in 1 .. Len(d) : r[i + 1] = d[i]
    <2>1. Pushable(fr, d, V, J) BY <1>1, <1>2, <1>3 DEF Pushable
    <2>2. Pushed(fr, d, r, V, J) BY <1>4, <2>1, PushFrame
    <2> QED BY <2>2 DEF Pushed
  <1>6. Settled(r[1]) BY <1>2, <1>5 DEF Settled
  <1>7. ASSUME NEW i \in 1 .. Len(c), i # 1 PROVE r[i] = c[i]
    <2>1. i - 1 \in 1 .. Len(d) /\ (i - 1) + 1 = i BY <1>1, <1>7
    <2>2. d[i - 1] = c[i] BY <1>1, <2>1
    <2>3. r[i] = d[i - 1] BY <1>5, <2>1
    <2> QED BY <2>2, <2>3
  <1>8. Len(r) = Len(c) BY <1>1, <1>5
  <1>9. \A i \in 1 .. Len(c) : r[i].src = c[i].src /\ r[i].kind = c[i].kind BY <1>2, <1>5, <1>7
  <1>10. Covers(c, dst, r)
    <2> SUFFICES ASSUME NEW i \in 1 .. Len(c), NEW x \in c[i].left
                 PROVE  \/ c[i].src = c[1].src /\ x = dst
                        \/ \E j \in 1 .. Len(r) : r[j].src = c[i].src /\ x \in r[j].left
      BY DEF Covers
    <2>1. CASE i = 1 BY <1>2, <1>5, <1>8, <2>1
    <2>2. CASE i # 1 BY <1>7, <1>8, <2>2
    <2> QED BY <2>1, <2>2
  <1> QED BY <1>5, <1>6, <1>8, <1>9, <1>10 DEF Lessened

\* A step of the search from the source of the innermost frame.
Searches(dst, w, rest) ==
  /\ Ready(dst, w, rest) /\ analyze_address(dst, w, rest)
  /\ calls # <<>> /\ w[1] = calls[1].src /\ Covers(calls, dst, rest)
  /\ UNCHANGED <<nodes, sources, phase>>

LEMMA FollowPathSearches ==
  ASSUME SearchInv, follow_path
  PROVE  \E dst, w, rest : Searches(dst, w, rest)
PROOF
  <1>1. /\ calls \in Seq(CallFrame) /\ worklist \in Seq(Vertex) /\ FramesOK(calls, vertices, jumps)
        /\ Positioned(calls, worklist)
    BY DEF SearchInv, Types
  <1>2. calls # <<>> /\ calls[1].kind = "path" /\ UNCHANGED <<nodes, sources, phase>>
    BY DEF follow_path, top
  <1>3. PICK dst \in calls[1].left : analyze_address(dst, worklist, Tail(calls))
    BY DEF follow_path, top
  <1>4. PICK w, rest : w = worklist /\ rest = Tail(calls) OBVIOUS
  <1>5. worklist # <<>> /\ worklist[1] = calls[1].src /\ Lined(rest, worklist)
    BY <1>1, <1>2, <1>4 DEF Positioned
  <1>6. /\ rest \in Seq(CallFrame) /\ FramesOK(rest, vertices, jumps)
        /\ (rest # <<>> => Settled(rest[1]))
        /\ FrameOK(calls[1], vertices, jumps)
    BY <1>1, <1>2, <1>4, PopFrame
  <1>7. /\ calls[1].src \in vertices /\ dst \in jumps[calls[1].src[1]]
        /\ \A d \in calls[1].left : d = dst
    BY <1>2, <1>3, <1>6 DEF FrameOK
  <1>8. Covers(calls, dst, rest) BY <1>1, <1>2, <1>4, <1>7, PopCovers
  <1>9. Ready(dst, w, rest) BY <1>1, <1>4, <1>5, <1>6, <1>7 DEF Ready
  <1>10. analyze_address(dst, w, rest) BY <1>3, <1>4
  <1>11. Searches(dst, w, rest) BY <1>2, <1>4, <1>5, <1>8, <1>9, <1>10 DEF Searches
  <1> QED BY <1>11

LEMMA FollowForkSearches ==
  ASSUME SearchInv, follow_fork
  PROVE  \E dst, w, rest : Searches(dst, w, rest)
PROOF
  <1>1. /\ calls \in Seq(CallFrame) /\ worklist \in Seq(Vertex) /\ FramesOK(calls, vertices, jumps)
        /\ Positioned(calls, worklist)
    BY DEF SearchInv, Types
  <1>2. calls # <<>> /\ calls[1].kind = "fork" /\ UNCHANGED <<nodes, sources, phase>>
    BY DEF follow_fork, top
  <1>3. PICK dst \in calls[1].left :
          analyze_address(dst, IF calls[1].first THEN worklist ELSE next_fork(worklist),
                          <<without(dst)>> \o Tail(calls))
    BY DEF follow_fork, top
  <1>4. PICK w, rest, fr : /\ w = (IF calls[1].first THEN worklist ELSE <<worklist[2]>> \o Tail(worklist))
                           /\ fr = [calls[1] EXCEPT !.left = @ \ {dst}, !.first = FALSE]
                           /\ rest = <<fr>> \o Tail(calls)
    OBVIOUS
  <1>5. analyze_address(dst, w, rest) BY <1>3, <1>4 DEF next_fork, without, top
  <1>6. Lined(calls, worklist) /\ (calls[1].first => worklist[1] = calls[1].src)
    BY <1>1, <1>2 DEF Positioned
  <1>7. /\ FrameOK(calls[1], vertices, jumps) /\ Len(calls) \in Nat \ {0}
    BY <1>1, <1>2, PopFrame
  <1>8. calls[1].src \in vertices /\ dst \in jumps[calls[1].src[1]] BY <1>7 DEF FrameOK
  <1>9. 1 + 1 \in 1 .. Len(worklist) /\ worklist[1 + 1] = calls[1].src
    <2>1. 1 \in 1 .. Len(calls) BY <1>7
    <2> QED BY <1>2, <1>6, <2>1 DEF Lined
  <1>10. worklist # <<>> /\ worklist[2] \in Vertex /\ worklist[2] = calls[1].src BY <1>1, <1>9
  <1>11. /\ rest \in Seq(CallFrame) /\ FramesOK(rest, vertices, jumps) /\ rest # <<>> /\ Settled(rest[1])
         /\ Len(rest) = Len(calls)
         /\ \A i \in 1 .. Len(calls) : rest[i].src = calls[i].src /\ rest[i].kind = calls[i].kind
         /\ Covers(calls, dst, rest)
    <2>1. calls[1].kind # "path" BY <1>2
    <2>2. Lessened(calls, dst, rest, vertices, jumps) BY <1>1, <1>2, <1>4, <2>1, ReplaceTop
    <2> QED BY <2>2 DEF Lessened
  <1>12. w \in Seq(Vertex) /\ w # <<>> /\ w[1] = calls[1].src /\ Lined(calls, w)
    <2>1. CASE calls[1].first BY <1>1, <1>4, <1>6, <1>10, <2>1
    <2>2. CASE ~calls[1].first
      <3>1. w = <<worklist[2]>> \o Tail(worklist) BY <1>4, <2>2
      <3> QED BY <1>1, <1>6, <1>10, <3>1, LinedBelow
    <2> QED BY <2>1, <2>2
  <1>13. Lined(rest, w) BY <1>11, <1>12 DEF Lined
  <1>14. Ready(dst, w, rest) BY <1>8, <1>11, <1>12, <1>13 DEF Ready
  <1>15. Searches(dst, w, rest) BY <1>2, <1>5, <1>11, <1>12, <1>14 DEF Searches
  <1> QED BY <1>15

\* handle_successors passes over the jumps of the graph.
Skips(dst, rest) ==
  /\ calls # <<>> /\ <<calls[1].src, after(calls[1].src, dst)>> \in edges
  /\ rest \in Seq(CallFrame) /\ FramesOK(rest, vertices, jumps) /\ Positioned(rest, worklist)
  /\ calls' = rest /\ Covers(calls, dst, rest)
  /\ UNCHANGED <<recorder, worklist, nodes, sources, phase>>

LEMMA HandleSuccessorSearches ==
  ASSUME SearchInv, handle_successor
  PROVE  \/ \E dst, w, rest : Searches(dst, w, rest)
         \/ \E dst, rest : Skips(dst, rest)
PROOF
  <1>1. /\ calls \in Seq(CallFrame) /\ FramesOK(calls, vertices, jumps) /\ vertices \subseteq Vertex
    BY DEF SearchInv, Types
  <1>2. calls # <<>> /\ calls[1].kind = "successors" /\ UNCHANGED <<nodes, sources, phase>>
    BY DEF handle_successor, top
  <1>3. PICK dst \in calls[1].left :
          LET r == <<without(dst)>> \o Tail(calls)
          IN \/ /\ <<calls[1].src, after(calls[1].src, dst)>> \in edges
                /\ calls' = r
                /\ UNCHANGED <<recorder, worklist>>
             \/ /\ <<calls[1].src, after(calls[1].src, dst)>> \notin edges
                /\ analyze_address(dst, <<calls[1].src>>, r)
    BY DEF handle_successor, top
  <1>4. PICK w, rest, fr : /\ w = <<calls[1].src>>
                           /\ fr = [calls[1] EXCEPT !.left = @ \ {dst}, !.first = FALSE]
                           /\ rest = <<fr>> \o Tail(calls)
    OBVIOUS
  <1>5. rest = <<without(dst)>> \o Tail(calls) BY <1>4 DEF without, top
  <1>6. /\ FrameOK(calls[1], vertices, jumps) /\ Len(calls) \in Nat \ {0} /\ Tail(calls) = <<>>
        /\ Len(Tail(calls)) = Len(calls) - 1
    BY <1>1, <1>2, PopFrame
  <1>7. calls[1].src \in vertices /\ dst \in jumps[calls[1].src[1]] BY <1>6 DEF FrameOK
  <1>8. /\ rest \in Seq(CallFrame) /\ FramesOK(rest, vertices, jumps) /\ rest # <<>> /\ Settled(rest[1])
        /\ Len(rest) = Len(calls)
        /\ \A i \in 1 .. Len(calls) : rest[i].src = calls[i].src /\ rest[i].kind = calls[i].kind
        /\ Covers(calls, dst, rest)
    <2>1. calls[1].kind # "path" BY <1>2
    <2>2. Lessened(calls, dst, rest, vertices, jumps) BY <1>1, <1>2, <1>4, <2>1, ReplaceTop
    <2> QED BY <2>2 DEF Lessened
  <1>9. Len(calls) = 1
    <2>1. 1 \in 1 .. Len(calls) BY <1>6
    <2> QED BY <1>1, <1>2, <2>1 DEF FramesOK
  <1>10. \A u : Lined(rest, u) BY <1>2, <1>8, <1>9 DEF Lined
  <1>11. CASE /\ <<calls[1].src, after(calls[1].src, dst)>> \in edges
              /\ calls' = rest
              /\ UNCHANGED <<recorder, worklist>>
    <2>1. Positioned(rest, worklist) BY <1>2, <1>8, <1>9, <1>10 DEF Positioned
    <2>2. Skips(dst, rest) BY <1>2, <1>8, <1>11, <2>1 DEF Skips
    <2> QED BY <2>2
  <1>12. CASE analyze_address(dst, w, rest)
    <2>1. w \in Seq(Vertex) /\ w # <<>> /\ w[1] = calls[1].src BY <1>1, <1>4, <1>7
    <2>2. Ready(dst, w, rest) BY <1>7, <1>8, <1>10, <2>1 DEF Ready
    <2>3. Searches(dst, w, rest) BY <1>2, <1>8, <1>12, <2>1, <2>2 DEF Searches
    <2> QED BY <2>3
  <1> QED BY <1>3, <1>4, <1>5, <1>11, <1>12

-----------------------------------------------------------------------------
(* The search keeps its own state.                                         *)

LEMMA SearchInvInit ==
  ASSUME Init
  PROVE  SearchInv
PROOF
  <1>1. entry \in Vertex
    <2>1. <<>> \in Seq(Key) BY EmptySeq
    <2> QED BY <2>1, StartAssumption DEF entry, Vertex
  <1>2. Types
    <2>1. <<>> \in Seq(Vertex) /\ <<>> \in Seq(CallFrame) BY EmptySeq
    <2> HIDE DEF entry
    <2> QED BY <1>1, <2>1 DEF Init, Types
  <1>3. PhaseInv BY DEF Init, PhaseInv
  <1>4. FramesOK(<<>>, vertices, jumps) BY DEF FramesOK
  <1>5. Positioned(<<>>, <<>>) BY DEF Positioned, Lined
  <1> QED BY <1>2, <1>3, <1>4, <1>5 DEF Init, SearchInv

\* Frames are under way only in a round.
LEMMA OnlyInRounds ==
  ASSUME SearchInv, calls # <<>>
  PROVE  phase = "round"
PROOF BY DEF SearchInv, PhaseInv

LEMMA SearchesKeep ==
  ASSUME SearchInv, NEW CONSTANT dst, NEW CONSTANT w, NEW CONSTANT rest, Searches(dst, w, rest)
  PROVE  SearchInv'
PROOF
  <1>1. /\ Ready(dst, w, rest) /\ analyze_address(dst, w, rest) /\ calls # <<>>
        /\ UNCHANGED <<nodes, sources, phase>>
    BY DEF Searches
  <1>2. Types /\ PhaseInv BY DEF SearchInv
  <1>3. /\ vertices' \subseteq Vertex /\ vertices \subseteq vertices'
        /\ edges' \subseteq vertices' \X vertices'
        /\ graph_changed' \in BOOLEAN
        /\ worklist' \in Seq(Vertex) /\ calls' \in Seq(CallFrame)
        /\ FramesOK(calls', vertices', jumps)
        /\ Positioned(calls', worklist')
    BY <1>1, AnalyzeKeeps
  <1>4. program' = program
    <2>1. Records(w[1], dst) BY <1>1, <1>2, AnalyzeRecords DEF Types
    <2> QED BY <2>1 DEF Records, table
  <1>5. phase = "round" BY <1>1, OnlyInRounds
  <1>6. Types'
    <2>1. program' \in Programs /\ nodes' \subseteq vertices' /\ phase' \in {"init", "idle", "round", "done", "failed"}
      BY <1>1, <1>2, <1>3, <1>4, <1>5 DEF Types
    <2> QED BY <1>3, <2>1, Zenon DEF Types
  <1>7. PhaseInv'
    <2>1. phase' = "round" BY <1>1, <1>5
    <2>2. entry' \in vertices' BY <1>2, <1>3 DEF PhaseInv, entry
    <2> QED BY <2>1, <2>2 DEF PhaseInv
  <1>8. jumps' = jumps BY <1>4 DEF jumps
  <1> QED BY <1>3, <1>6, <1>7, <1>8 DEF SearchInv

\* The steps that leave the graph alone.
LEMMA OtherSteps ==
  ASSUME SearchInv, UNCHANGED <<program, vertices, edges>>, graph_changed' \in BOOLEAN,
         worklist' \in Seq(Vertex), calls' \in Seq(CallFrame), nodes' \subseteq vertices,
         phase' \in {"init", "idle", "round", "done", "failed"},
         phase' # "round" => calls' = <<>>,
         phase' = "init" => phase = "init",
         FramesOK(calls', vertices, jumps), Positioned(calls', worklist')
  PROVE  SearchInv'
PROOF
  <1>1. Types /\ PhaseInv BY DEF SearchInv
  <1>2. Types' BY <1>1 DEF Types
  <1>3. PhaseInv' BY <1>1 DEF PhaseInv, entry
  <1>4. jumps' = jumps BY DEF jumps
  <1> QED BY <1>2, <1>3, <1>4 DEF SearchInv

LEMMA NoFrames == \A V, J, w : <<>> \in Seq(CallFrame) /\ FramesOK(<<>>, V, J) /\ Positioned(<<>>, w)
PROOF BY DEF FramesOK, Positioned, Lined

LEMMA OneFrame ==
  ASSUME NEW V, NEW J, NEW fr \in CallFrame, FrameOK(fr, V, J)
  PROVE  /\ <<fr>> \in Seq(CallFrame) /\ FramesOK(<<fr>>, V, J)
         /\ Len(<<fr>>) = 1 /\ <<fr>>[1] = fr /\ <<fr>> # <<>> /\ Tail(<<fr>>) = <<>>
PROOF
  <1>1. <<fr>> \in Seq(CallFrame) /\ Len(<<fr>>) = 1 /\ <<fr>>[1] = fr /\ <<fr>> # <<>> OBVIOUS
  <1>2. Tail(<<fr>>) = <<>>
    <2>1. Tail(<<fr>>) \in Seq(CallFrame) /\ Len(Tail(<<fr>>)) = 1 - 1 BY <1>1, HeadTailProperties
    <2>2. Len(Tail(<<fr>>)) = 0 BY <2>1
    <2> QED BY <2>1, <2>2, EmptySeq
  <1>3. FramesOK(<<fr>>, V, J) BY <1>1 DEF FramesOK
  <1> QED BY <1>1, <1>2, <1>3

LEMMA AnalyzeSourceKeeps ==
  ASSUME SearchInv, NEW CONSTANT v \in nodes, analyze_source(v)
  PROVE  SearchInv'
PROOF
  <1> DEFINE fr == Frame("successors", v, jumps[v[1]])
  <1>1. Types BY DEF SearchInv
  <1>2. /\ phase = "round" /\ nodes' = nodes \ {v} /\ calls' = <<fr>>
        /\ UNCHANGED <<recorder, worklist, sources, phase>>
    BY DEF analyze_source
  <1>3. v \in vertices /\ v \in Vertex /\ jumps \in [Key -> SUBSET Key] BY <1>1, JumpsType DEF Types
  <1>4. jumps[v[1]] \in SUBSET Key BY <1>3 DEF Vertex
  <1>5. fr \in CallFrame /\ fr.kind = "successors" /\ fr.src = v /\ fr.left = jumps[v[1]]
    BY <1>3, <1>4 DEF Frame, CallFrame
  <1> HIDE DEF fr
  <1>6. FrameOK(fr, vertices, jumps) BY <1>3, <1>5 DEF FrameOK
  <1>7. /\ calls' \in Seq(CallFrame) /\ FramesOK(calls', vertices, jumps) /\ Len(calls') = 1
        /\ calls'[1] = fr /\ calls' # <<>>
    BY <1>2, <1>5, <1>6, OneFrame
  <1>8. Positioned(calls', worklist') BY <1>5, <1>7 DEF Positioned, Lined
  <1>9. /\ UNCHANGED <<program, vertices, edges>> /\ graph_changed' \in BOOLEAN
        /\ worklist' \in Seq(Vertex) /\ nodes' \subseteq vertices /\ phase' = "round"
    BY <1>1, <1>2 DEF Types, recorder, table
  <1> QED BY <1>7, <1>8, <1>9, OtherSteps

LEMMA AnalyzeEndKeeps ==
  ASSUME SearchInv, NEW CONSTANT v \in nodes, analyze_end(v)
  PROVE  SearchInv'
PROOF
  <1> DEFINE S == jumps[v[1]]
             ends == \A e \in edges : e[1] # v
             fr == Frame(IF Cardinality(S) > 1 THEN "fork" ELSE "path", v, S)
  <1>1. Types BY DEF SearchInv
  <1>2. /\ phase = "round" /\ calls = <<>> /\ nodes' = nodes \ {v}
        /\ worklist' = (IF ~ends THEN worklist ELSE IF Cardinality(S) > 1 THEN <<v, v>> ELSE <<v>>)
        /\ calls' = (IF ~ends \/ S = {} THEN calls ELSE <<fr>>)
        /\ UNCHANGED <<recorder, sources, phase>>
    BY DEF analyze_end
  <1>3. v \in vertices /\ v \in Vertex /\ jumps \in [Key -> SUBSET Key] /\ worklist \in Seq(Vertex)
    BY <1>1, JumpsType DEF Types
  <1>4. S \in SUBSET Key BY <1>3 DEF Vertex
  <1>5. fr \in CallFrame /\ fr.kind = (IF Cardinality(S) > 1 THEN "fork" ELSE "path") /\ fr.src = v /\ fr.left = S
    BY <1>3, <1>4 DEF Frame, CallFrame
  <1>6. /\ UNCHANGED <<program, vertices, edges>> /\ graph_changed' \in BOOLEAN
        /\ nodes' \subseteq vertices /\ phase' = "round"
    BY <1>1, <1>2 DEF Types, recorder, table
  <1>7. S # {} /\ ~(Cardinality(S) > 1) => \A a, b \in S : a = b
    <2> SUFFICES ASSUME S # {}, ~(Cardinality(S) > 1) PROVE \A a, b \in S : a = b OBVIOUS
    <2> HIDE DEF S
    <2>1. IsFiniteSet(S) BY <1>4, KeysFinite, FS_Subset
    <2>2. Cardinality(S) \in Nat /\ Cardinality(S) # 0 BY <2>1, FS_CardinalityType, FS_EmptySet
    <2>3. Cardinality(S) = 1 BY <2>2
    <2>4. \E x : S = {x} BY <2>1, <2>3, FS_Singleton
    <2> QED BY <2>4
  <1> HIDE DEF fr, ends
  <1>8. worklist' \in Seq(Vertex) BY <1>2, <1>3
  <1>9. CASE ~ends \/ S = {}
    <2>1. calls' = <<>> BY <1>2, <1>9
    <2>2. calls' \in Seq(CallFrame) /\ FramesOK(calls', vertices, jumps) /\ Positioned(calls', worklist')
      BY <2>1, NoFrames, Zenon
    <2> QED BY <1>6, <1>8, <2>2, OtherSteps
  <1>10. CASE ends /\ S # {}
    <2>1. calls' = <<fr>> /\ worklist' = (IF Cardinality(S) > 1 THEN <<v, v>> ELSE <<v>>) BY <1>2, <1>10
    <2>2. fr.left \subseteq jumps[fr.src[1]] BY <1>5
    <2> HIDE DEF S
    <2>3. FrameOK(fr, vertices, jumps) BY <1>3, <1>5, <1>7, <1>10, <2>2 DEF FrameOK
    <2>4. /\ calls' \in Seq(CallFrame) /\ FramesOK(calls', vertices, jumps) /\ Len(calls') = 1
          /\ calls'[1] = fr /\ calls' # <<>> /\ Tail(calls') = <<>>
      BY <1>5, <2>1, <2>3, OneFrame
    <2>5. CASE Cardinality(S) > 1
      <3>1. worklist' = <<v, v>> /\ fr.kind = "fork" BY <1>5, <2>1, <2>5
      <3>2. Len(worklist') = 2 /\ worklist'[1] = v /\ worklist'[2] = v BY <3>1
      <3>3. Lined(calls', worklist') BY <1>5, <2>4, <3>2 DEF Lined
      <3>4. Positioned(calls', worklist') BY <1>5, <2>4, <3>1, <3>2, <3>3 DEF Positioned
      <3> QED BY <1>6, <1>8, <2>4, <3>4, OtherSteps
    <2>6. CASE ~(Cardinality(S) > 1)
      <3>1. worklist' = <<v>> /\ fr.kind = "path" BY <1>5, <2>1, <2>6
      <3>2. worklist' # <<>> /\ worklist'[1] = v BY <3>1
      <3>3. Lined(Tail(calls'), worklist')
        <4>1. \A w : Lined(<<>>, w) BY DEF Lined
        <4>2. Tail(calls') = <<>> BY <2>4
        <4> QED BY <4>1, <4>2, Zenon
      <3>4. Positioned(calls', worklist')
        <4>1. calls'[1].kind = "path" /\ calls'[1].kind # "fork" /\ worklist'[1] = calls'[1].src
          BY <1>5, <2>4, <3>1, <3>2
        <4>2. calls' # <<>> BY <2>4
        <4> QED BY <3>2, <3>3, <4>1, <4>2, Zenon DEF Positioned
      <3> QED BY <1>6, <1>8, <2>4, <3>4, OtherSteps
    <2> QED BY <2>5, <2>6
  <1> QED BY <1>9, <1>10

LEMMA EndForkKeeps ==
  ASSUME SearchInv, end_fork
  PROVE  SearchInv'
PROOF
  <1> DEFINE d == Tail(calls)
             u == Tail(worklist)
  <1>1. Types /\ FramesOK(calls, vertices, jumps) /\ Positioned(calls, worklist) BY DEF SearchInv
  <1>2. calls # <<>> /\ calls[1].kind = "fork" /\ worklist' = u /\ calls' = d
        /\ UNCHANGED <<recorder, nodes, sources, phase>>
    BY DEF end_fork, top
  <1>3. calls \in Seq(CallFrame) /\ worklist \in Seq(Vertex) BY <1>1 DEF Types
  <1>4. /\ d \in Seq(CallFrame) /\ FramesOK(d, vertices, jumps) /\ (d # <<>> => Settled(d[1]))
        /\ Len(d) = Len(calls) - 1 /\ Len(calls) \in Nat \ {0}
        /\ \A i \in 1 .. Len(d) : d[i] = calls[i + 1]
    BY <1>1, <1>2, <1>3, PopFrame
  <1>5. Lined(calls, worklist) BY <1>1, <1>2 DEF Positioned
  <1>6. worklist # <<>>
    <2>1. 1 \in 1 .. Len(calls) BY <1>4
    <2>2. 1 + 1 \in 1 .. Len(worklist) BY <1>2, <1>5, <2>1 DEF Lined
    <2> QED BY <2>2
  <1>7. /\ u \in Seq(Vertex) /\ Len(worklist) \in Nat /\ Len(u) = Len(worklist) - 1
        /\ \A i \in 1 .. Len(u) : u[i] = worklist[i + 1]
    BY <1>3, <1>6, HeadTailProperties
  <1> HIDE DEF d, u
  <1>8. Lined(d, u)
    <2> SUFFICES ASSUME NEW i \in 1 .. Len(d), d[i].kind = "fork"
                 PROVE  i + 1 \in 1 .. Len(u) /\ u[i + 1] = d[i].src
      BY DEF Lined
    <2>1. i + 1 \in 1 .. Len(calls) /\ d[i] = calls[i + 1] BY <1>4
    <2>2. (i + 1) + 1 \in 1 .. Len(worklist) /\ worklist[(i + 1) + 1] = d[i].src BY <1>5, <2>1 DEF Lined
    <2>3. i + 1 \in 1 .. Len(u) BY <1>4, <1>7, <2>2
    <2>4. u[i + 1] = worklist[(i + 1) + 1] BY <1>7, <2>3
    <2> QED BY <2>2, <2>3, <2>4
  <1>9. Positioned(d, u) BY <1>4, <1>8 DEF Positioned, Settled
  <1>10. phase = "round" BY <1>2, OnlyInRounds
  <1>11. /\ UNCHANGED <<program, vertices, edges>> /\ graph_changed' \in BOOLEAN
         /\ nodes' \subseteq vertices /\ phase' = "round"
    BY <1>1, <1>2, <1>10 DEF Types, recorder, table
  <1> QED BY <1>2, <1>4, <1>7, <1>9, <1>11, OtherSteps

LEMMA RestKeeps ==
  ASSUME SearchInv,
         \/ \E s \in unread : init_symbol(s)
         \/ \E v \in nodes : except_thrown(v)
         \/ begin_round \/ end_successors \/ end_round
  PROVE  SearchInv'
PROOF
  <1>1. Types /\ PhaseInv /\ FramesOK(calls, vertices, jumps) /\ Positioned(calls, worklist) BY DEF SearchInv
  <1>2. \A V, J, w : <<>> \in Seq(CallFrame) /\ FramesOK(<<>>, V, J) /\ Positioned(<<>>, w) BY NoFrames
  <1>3. <<>> \in Seq(Vertex) BY EmptySeq
  <1>4. worklist \in Seq(Vertex) /\ graph_changed \in BOOLEAN /\ nodes \subseteq vertices /\ calls \in Seq(CallFrame)
    BY <1>1 DEF Types
  <1>5. phase # "round" => calls = <<>> BY <1>1 DEF PhaseInv
  <1>6. CASE \E s \in unread : init_symbol(s)
    <2>1. /\ UNCHANGED <<program, vertices, edges, graph_changed, worklist, calls, nodes>>
          /\ phase = "init" /\ phase' \in {"init", "idle"}
      BY <1>6 DEF init_symbol
    <2>2. calls' = <<>> BY <1>5, <2>1
    <2>3. calls' \in Seq(CallFrame) /\ FramesOK(calls', vertices, jumps) /\ Positioned(calls', worklist')
      BY <1>2, <2>2, Zenon
    <2> QED BY <1>4, <2>1, <2>2, <2>3, OtherSteps
  <1>7. CASE begin_round
    <2>1. /\ UNCHANGED <<program, vertices, edges, graph_changed, calls>>
          /\ phase = "idle" /\ phase' = "round" /\ nodes' = vertices /\ worklist' = <<>>
      BY <1>7 DEF begin_round, recorder, table
    <2>2. calls' = <<>> BY <1>5, <2>1
    <2>3. calls' \in Seq(CallFrame) /\ FramesOK(calls', vertices, jumps) /\ Positioned(calls', worklist')
      BY <1>2, <2>2, Zenon
    <2> QED BY <1>3, <1>4, <2>1, <2>2, <2>3, OtherSteps
  <1>8. CASE end_successors
    <2>1. /\ UNCHANGED <<program, vertices, edges, graph_changed, worklist, nodes, phase>>
          /\ calls # <<>> /\ calls[1].kind = "successors" /\ calls' = Tail(calls)
      BY <1>8 DEF end_successors, recorder, table, top
    <2>2. calls' = <<>> BY <1>1, <1>4, <2>1, PopFrame
    <2>3. calls' \in Seq(CallFrame) /\ FramesOK(calls', vertices, jumps) /\ Positioned(calls', worklist')
      BY <1>2, <2>2, Zenon
    <2>4. phase' = "round" BY <2>1, OnlyInRounds
    <2> QED BY <1>4, <2>1, <2>2, <2>3, <2>4, OtherSteps
  <1>9. CASE end_round
    <2>1. /\ UNCHANGED <<program, vertices, edges, worklist, calls, nodes>> /\ graph_changed' = FALSE
          /\ calls = <<>> /\ phase' \in {"idle", "done"}
      BY <1>9 DEF end_round, table
    <2>2. calls' = <<>> BY <2>1
    <2>3. calls' \in Seq(CallFrame) /\ FramesOK(calls', vertices, jumps) /\ Positioned(calls', worklist')
      BY <1>2, <2>2, Zenon
    <2> QED BY <1>4, <2>1, <2>2, <2>3, OtherSteps
  <1>10. CASE \E v \in nodes : except_thrown(v)
    <2>1. /\ UNCHANGED <<program, vertices, edges, graph_changed, worklist, calls, nodes>>
          /\ calls = <<>> /\ phase' = "failed"
      BY <1>10 DEF except_thrown, recorder, table
    <2>2. calls' = <<>> BY <2>1
    <2>3. calls' \in Seq(CallFrame) /\ FramesOK(calls', vertices, jumps) /\ Positioned(calls', worklist')
      BY <1>2, <2>2, Zenon
    <2> QED BY <1>4, <2>1, <2>2, <2>3, OtherSteps
  <1> QED BY <1>6, <1>7, <1>8, <1>9, <1>10

LEMMA SkipsKeep ==
  ASSUME SearchInv, NEW CONSTANT dst, NEW CONSTANT rest, Skips(dst, rest)
  PROVE  SearchInv'
PROOF
  <1>1. /\ rest \in Seq(CallFrame) /\ FramesOK(rest, vertices, jumps) /\ Positioned(rest, worklist)
        /\ calls' = rest /\ calls # <<>>
        /\ UNCHANGED <<recorder, worklist, nodes, sources, phase>>
    BY DEF Skips
  <1>2. phase' = "round" BY <1>1, OnlyInRounds
  <1>3. /\ UNCHANGED <<program, vertices, edges>> /\ graph_changed' \in BOOLEAN
        /\ nodes' \subseteq vertices /\ worklist' \in Seq(Vertex)
    BY <1>1 DEF SearchInv, Types, recorder, table
  <1> QED BY <1>1, <1>2, <1>3, OtherSteps

\* Every step is one of these.
LEMMA Steps ==
  ASSUME SearchInv, Next
  PROVE  \/ \E dst, w, rest : Searches(dst, w, rest)
         \/ \E dst, rest : Skips(dst, rest)
         \/ \E v \in nodes : analyze_source(v)
         \/ \E v \in nodes : analyze_end(v)
         \/ \E v \in nodes : except_thrown(v)
         \/ end_fork
         \/ \E s \in unread : init_symbol(s)
         \/ begin_round \/ end_successors \/ end_round
PROOF
  <1>1. CASE follow_path BY <1>1, FollowPathSearches, Zenon
  <1>2. CASE follow_fork BY <1>2, FollowForkSearches, Zenon
  <1>3. CASE handle_successor BY <1>3, HandleSuccessorSearches, Zenon
  <1> QED BY <1>1, <1>2, <1>3, Zenon DEF Next

LEMMA SearchInvNext ==
  ASSUME SearchInv, [Next]_vars
  PROVE  SearchInv'
PROOF
  <1>1. CASE UNCHANGED vars
    BY <1>1 DEF SearchInv, Types, PhaseInv, entry, FramesOK, FrameOK, jumps, Positioned, Lined, Settled,
                vars, recorder, table
  <1>2. CASE Next
    <2>1. ASSUME NEW CONSTANT dst, NEW CONSTANT w, NEW CONSTANT rest, Searches(dst, w, rest) PROVE SearchInv'
      BY <2>1, SearchesKeep
    <2>2. ASSUME NEW CONSTANT dst, NEW CONSTANT rest, Skips(dst, rest) PROVE SearchInv' BY <2>2, SkipsKeep
    <2>3. ASSUME NEW CONSTANT v \in nodes, analyze_source(v) PROVE SearchInv' BY <2>3, AnalyzeSourceKeeps
    <2>4. ASSUME NEW CONSTANT v \in nodes, analyze_end(v) PROVE SearchInv' BY <2>4, AnalyzeEndKeeps
    <2>5. CASE end_fork BY <2>5, EndForkKeeps
    <2>6. CASE \/ (\E s \in unread : init_symbol(s)) \/ (\E v \in nodes : except_thrown(v))
               \/ begin_round \/ end_successors \/ end_round
      BY <2>6, RestKeeps
    <2> QED BY <1>2, <2>1, <2>2, <2>3, <2>4, <2>5, <2>6, Steps, Zenon
  <1> QED BY <1>1, <1>2

LEMMA SearchInvCorrect == Spec => []SearchInv
PROOF
  <1>1. Init => SearchInv BY SearchInvInit
  <1>2. SearchInv /\ [Next]_vars => SearchInv' BY SearchInvNext
  <1> QED BY <1>1, <1>2, PTL DEF Spec

-----------------------------------------------------------------------------
(* The graph.                                                              *)

\* The graph stays, or there is only the entry, or one jump is recorded.
LEMMA GraphSteps ==
  ASSUME SearchInv, [Next]_vars
  PROVE  \/ UNCHANGED <<program, symtable, vertices, edges>>
         \/ vertices = {entry} /\ edges = {} /\ UNCHANGED <<program, vertices, edges>>
         \/ \E from \in vertices : \E dst \in jumps[from[1]] : Records(from, dst)
PROOF
  <1> DEFINE Goal == \/ UNCHANGED <<program, symtable, vertices, edges>>
                     \/ vertices = {entry} /\ edges = {} /\ UNCHANGED <<program, vertices, edges>>
                     \/ \E from \in vertices : \E dst \in jumps[from[1]] : Records(from, dst)
  <1>1. CASE UNCHANGED vars BY <1>1 DEF vars, recorder, table
  <1>2. CASE Next
    <2>1. ASSUME NEW CONSTANT dst, NEW CONSTANT w, NEW CONSTANT rest, Searches(dst, w, rest) PROVE Goal
      <3>1. Ready(dst, w, rest) /\ analyze_address(dst, w, rest) BY <2>1 DEF Searches
      <3>2. w[1] \in vertices /\ dst \in jumps[w[1][1]] BY <3>1 DEF Ready
      <3>3. Records(w[1], dst) BY <3>1, AnalyzeRecords DEF SearchInv, Types
      <3> QED BY <3>2, <3>3
    <2>2. ASSUME NEW CONSTANT dst, NEW CONSTANT rest, Skips(dst, rest) PROVE Goal
      BY <2>2 DEF Skips, recorder, table
    <2>3. ASSUME NEW CONSTANT v \in nodes, analyze_source(v) PROVE Goal
      BY <2>3 DEF analyze_source, recorder, table
    <2>4. ASSUME NEW CONSTANT v \in nodes, analyze_end(v) PROVE Goal
      BY <2>4 DEF analyze_end, recorder, table
    <2>5. CASE end_fork \/ begin_round \/ end_successors \/ end_round
      BY <2>5 DEF end_fork, begin_round, end_successors, end_round, recorder, table
    <2>6. CASE \E s \in unread : init_symbol(s)
      BY <2>6 DEF init_symbol, SearchInv, PhaseInv
    <2>7. ASSUME NEW CONSTANT v \in nodes, except_thrown(v) PROVE Goal
      BY <2>7 DEF except_thrown, recorder, table
    <2> QED BY <1>2, <2>1, <2>2, <2>3, <2>4, <2>5, <2>6, <2>7, Steps, Zenon
  <1> QED BY <1>1, <1>2

LEMMA RecordedVertex ==
  ASSUME SearchInv, NEW from \in vertices, NEW dst \in jumps[from[1]]
  PROVE  from \in Vertex /\ dst \in Key /\ after(from, dst) \in Vertex /\ after(from, dst)[1] = dst
PROOF
  <1>1. from \in Vertex /\ jumps \in [Key -> SUBSET Key] BY JumpsType DEF SearchInv, Types
  <1>2. dst \in Key BY <1>1 DEF Vertex
  <1> QED BY <1>1, <1>2, AfterType

\* Every edge recorded is a jump of its source with the call stack it leads to
\* (record_cfg.ml, next; analyze.ml, analyze_address): behind every fork the search
\* continues from the vertex it forked at.
THEOREM EdgesAreJumpsCorrect == Spec => []EdgesAreJumps
PROOF
  <1>1. Init => EdgesAreJumps BY DEF Init, EdgesAreJumps
  <1>2. ASSUME SearchInv, EdgesAreJumps, [Next]_vars PROVE EdgesAreJumps'
    <2>1. CASE UNCHANGED <<program, symtable, vertices, edges>>
      <3>1. \A v, d : after(v, d)' = after(v, d) BY <2>1, AfterSame
      <3>2. jumps' = jumps BY <2>1 DEF jumps
      <3> QED BY <1>2, <2>1, <3>1, <3>2 DEF EdgesAreJumps
    <2>2. CASE edges = {} /\ edges' = edges BY <2>2 DEF EdgesAreJumps
    <2>3. ASSUME NEW CONSTANT from \in vertices, NEW CONSTANT dst \in jumps[from[1]], Records(from, dst)
          PROVE  EdgesAreJumps'
      <3> DEFINE new == after(from, dst)
      <3>1. edges' = edges \cup {<<from, new>>} /\ UNCHANGED <<program, symtable>>
        BY <2>3 DEF Records, table
      <3>2. new[1] = dst BY <1>2, RecordedVertex
      <3>3. \A v, d : after(v, d)' = after(v, d) BY <3>1, AfterSame
      <3>4. jumps' = jumps BY <3>1 DEF jumps
      <3> HIDE DEF new
      <3>5. new = after(from, new[1]) BY <3>2 DEF new
      <3>6. \A e \in edges' : e[2][1] \in jumps[e[1][1]] /\ e[2] = after(e[1], e[2][1])
        BY <1>2, <2>3, <3>1, <3>2, <3>5 DEF EdgesAreJumps
      <3> QED BY <3>3, <3>4, <3>6 DEF EdgesAreJumps
    <2> QED BY <1>2, <2>1, <2>2, <2>3, GraphSteps
  <1> QED BY <1>1, <1>2, SearchInvCorrect, PTL DEF Spec

\* On no call stack, and not above it, does a function stand twice
\* (record_cfg.ml, call_stack_after_jump): a jump to a function of the stack unwinds
\* the stack to it, so that recursion cannot make the graph grow for ever.
THEOREM StacksDoNotRepeatCorrect == Spec => []StacksDoNotRepeat
PROOF
  <1> DEFINE A == \A v \in vertices : Alone(v)
  <1>1. ASSUME SearchInv PROVE A <=> StacksDoNotRepeat
    <2>1. \A v \in vertices : v \in Vertex BY <1>1 DEF SearchInv, Types
    <2> QED BY <2>1, AloneIsInjective DEF StacksDoNotRepeat
  <1>2. Alone(entry)
    <2>1. entry[2] = <<>> /\ Len(<<>>) = 0 BY DEF entry
    <2>2. 1 .. Len(entry[2]) = {} BY <2>1
    <2> QED BY <2>2 DEF Alone
  <1>3. Init => A BY <1>2 DEF Init
  <1>4. ASSUME SearchInv, A, [Next]_vars PROVE A'
    <2>1. ASSUME symtable' = symtable PROVE \A v : Alone(v)' <=> Alone(v)
      <3>1. \A a : func(a)' = func(a) BY <2>1, FuncSame
      <3> QED BY <3>1 DEF Alone
    <2>2. CASE UNCHANGED <<program, symtable, vertices, edges>>
      BY <1>4, <2>1, <2>2
    <2>3. CASE vertices = {entry} /\ vertices' = vertices
      <3>1. Alone(entry)' BY <1>2, PTL
      <3>2. entry' = entry BY DEF entry
      <3> QED BY <2>3, <3>1, <3>2
    <2>4. ASSUME NEW CONSTANT from \in vertices, NEW CONSTANT dst \in jumps[from[1]], Records(from, dst)
          PROVE  A'
      <3>1. vertices' = vertices \cup {after(from, dst)} /\ symtable' = symtable
        BY <2>4 DEF Records, table
      <3>2. Alone(after(from, dst)) BY <1>4, RecordedVertex, AloneAfter
      <3>3. \A v \in vertices' : Alone(v) BY <1>4, <3>1, <3>2
      <3> QED BY <2>1, <3>1, <3>3
    <2> QED BY <1>4, <2>2, <2>3, <2>4, GraphSteps
  <1>5. Spec => []A BY <1>3, <1>4, SearchInvCorrect, PTL DEF Spec
  <1> QED BY <1>1, <1>5, SearchInvCorrect, PTL

\* Every vertex is reached from the entry by edges: the rounds never ask for a path
\* expression that does not exist (analyze.ml, compute_exprs; reduce.ml raises
\* Not_found for a vertex that the entry does not reach).
THEOREM RootedCorrect == Spec => []Rooted
PROOF
  <1>1. Init => Rooted BY DEF Init, Rooted
  <1>2. ASSUME SearchInv, Rooted, [Next]_vars PROVE Rooted'
    <2>1. entry' = entry BY DEF entry
    <2>2. CASE UNCHANGED <<vertices, edges>> BY <1>2, <2>1, <2>2 DEF Rooted
    <2>3. ASSUME NEW CONSTANT from \in vertices, NEW CONSTANT dst \in jumps[from[1]], Records(from, dst)
          PROVE  Rooted'
      <3> DEFINE new == after(from, dst)
      <3>1. vertices' = vertices \cup {new} /\ edges' = edges \cup {<<from, new>>} BY <2>3 DEF Records
      <3>2. edges \subseteq vertices \X vertices /\ entry \in vertices BY <1>2 DEF SearchInv, Types, PhaseInv
      <3> HIDE DEF new
      <3> SUFFICES ASSUME NEW CONSTANT C \in SUBSET vertices', entry \in C,
                          \A e \in edges' : e[1] \in C => e[2] \in C
                   PROVE  C = vertices'
        BY <2>1 DEF Rooted
      <3>3. PICK D : D = C \cap vertices OBVIOUS
      <3>4. D \in SUBSET vertices /\ entry \in D /\ \A e \in edges : e[1] \in D => e[2] \in D
        BY <3>1, <3>2, <3>3
      <3>5. D = vertices BY <1>2, <3>4 DEF Rooted
      <3>6. from \in C BY <3>3, <3>5
      <3>7. <<from, new>>[1] \in C => <<from, new>>[2] \in C BY <3>1
      <3>8. new \in C BY <3>6, <3>7
      <3> QED BY <3>1, <3>3, <3>5, <3>8
    <2> QED BY <1>2, <2>2, <2>3, GraphSteps
  <1> QED BY <1>1, <1>2, SearchInvCorrect, PTL DEF Spec

-----------------------------------------------------------------------------
(* The fixpoint.                                                           *)

\* A step in which the graph stays and no jump is lost but the one to dst, which the
\* graph has.
LEMMA StillHandled ==
  ASSUME RoundInv, phase = "round", ~graph_changed,
         UNCHANGED <<program, symtable, vertices, edges, sources>>, vertices \ nodes' = vertices \ nodes,
         NEW CONSTANT dst, NEW CONSTANT rest, calls' = rest, Covers(calls, dst, rest),
         <<calls[1].src, after(calls[1].src, dst)>> \in edges
  PROVE  RoundInv'
PROOF
  <1>1. /\ sources = {e[1] : e \in edges}
        /\ \A v \in vertices \ nodes : \A d \in jumps[v[1]] : Handled(v, d)
    BY DEF RoundInv
  <1>2. \A v, d : after(v, d)' = after(v, d) BY AfterSame
  <1>3. jumps' = jumps BY DEF jumps
  <1>4. ASSUME NEW CONSTANT v, NEW CONSTANT d, Handled(v, d) PROVE Handled(v, d)'
    <2>1. CASE <<v, after(v, d)>> \in edges BY <1>2, <2>1 DEF Handled
    <2>2. ASSUME NEW i \in 1 .. Len(calls), calls[i].src = v, d \in calls[i].left PROVE Handled(v, d)'
      <3>1. \/ v = calls[1].src /\ d = dst
            \/ \E j \in 1 .. Len(rest) : rest[j].src = v /\ d \in rest[j].left
        BY <2>2 DEF Covers
      <3>2. CASE v = calls[1].src /\ d = dst
        <4>1. <<v, after(v, d)>> \in edges BY <3>2
        <4> QED BY <1>2, <4>1 DEF Handled
      <3>3. CASE \E j \in 1 .. Len(rest) : rest[j].src = v /\ d \in rest[j].left
        BY <3>3 DEF Handled
      <3> QED BY <3>1, <3>2, <3>3
    <2> QED BY <1>4, <2>1, <2>2 DEF Handled
  <1>5. \A v \in vertices' \ nodes' : \A d \in jumps'[v[1]] : Handled(v, d)'
    BY <1>1, <1>3, <1>4
  <1>6. sources' = {e[1] : e \in edges'} BY <1>1
  <1> QED BY <1>5, <1>6 DEF RoundInv

\* The step with which the round turns to a vertex v.
LEMMA TurnsTo ==
  ASSUME RoundInv, phase = "round", ~graph_changed, calls = <<>>,
         UNCHANGED <<program, symtable, vertices, edges, sources>>,
         NEW CONSTANT v, nodes' = nodes \ {v},
         \A d \in jumps[v[1]] : \E i \in 1 .. Len(calls') : calls'[i].src = v /\ d \in calls'[i].left
  PROVE  RoundInv'
PROOF
  <1>1. /\ sources = {e[1] : e \in edges}
        /\ \A u \in vertices \ nodes : \A d \in jumps[u[1]] : Handled(u, d)
    BY DEF RoundInv
  <1>2. \A u, d : after(u, d)' = after(u, d) BY AfterSame
  <1>3. jumps' = jumps BY DEF jumps
  <1>4. \A u \in vertices \ nodes : \A d \in jumps[u[1]] : <<u, after(u, d)>> \in edges
    BY <1>1 DEF Handled
  <1>5. ASSUME NEW CONSTANT u \in vertices \ nodes', NEW CONSTANT d \in jumps[u[1]] PROVE Handled(u, d)'
    <2>1. CASE u = v BY <1>5, <2>1 DEF Handled
    <2>2. CASE u # v
      <3>1. u \in vertices \ nodes BY <2>2
      <3>2. <<u, after(u, d)>> \in edges BY <1>4, <3>1
      <3> QED BY <1>2, <3>2 DEF Handled
    <2> QED BY <2>1, <2>2
  <1>6. \A u \in vertices' \ nodes' : \A d \in jumps'[u[1]] : Handled(u, d)'
    BY <1>3, <1>5
  <1>7. sources' = {e[1] : e \in edges'} BY <1>1
  <1> QED BY <1>6, <1>7 DEF RoundInv

LEMMA SearchesHandle ==
  ASSUME SearchInv, RoundInv, NEW CONSTANT dst, NEW CONSTANT w, NEW CONSTANT rest, Searches(dst, w, rest)
  PROVE  RoundInv' /\ phase' = "round"
PROOF
  <1>1. /\ analyze_address(dst, w, rest) /\ calls # <<>> /\ w[1] = calls[1].src
        /\ Covers(calls, dst, rest) /\ UNCHANGED <<nodes, sources, phase>>
    BY DEF Searches
  <1>2. phase = "round" BY <1>1, OnlyInRounds
  <1>3. Records(w[1], dst) /\ Quiet(rest) BY <1>1, AnalyzeRecords DEF SearchInv, Types
  <1>4. CASE graph_changed' BY <1>1, <1>2, <1>4 DEF RoundInv
  <1>5. CASE ~graph_changed'
    <2>1. ~graph_changed /\ vertices' = vertices /\ edges' = edges /\ calls' = rest BY <1>3, <1>5 DEF Quiet
    <2>2. UNCHANGED <<program, symtable>> BY <1>3 DEF Records, table
    <2>3. <<calls[1].src, after(calls[1].src, dst)>> \in edges BY <1>1, <1>3, <2>1 DEF Records
    <2> QED BY <1>1, <1>2, <2>1, <2>2, <2>3, StillHandled
  <1> QED BY <1>4, <1>5

LEMMA AnalyzeSourceHandles ==
  ASSUME SearchInv, RoundInv, NEW CONSTANT v \in nodes, analyze_source(v)
  PROVE  RoundInv' /\ phase' = "round"
PROOF
  <1> DEFINE fr == Frame("successors", v, jumps[v[1]])
  <1>1. /\ phase = "round" /\ phase' = phase /\ calls = <<>> /\ nodes' = nodes \ {v} /\ calls' = <<fr>>
        /\ UNCHANGED <<program, symtable, vertices, edges, graph_changed, sources>>
    BY DEF analyze_source, recorder, table
  <1>2. fr.src = v /\ fr.left = jumps[v[1]] BY DEF Frame
  <1> HIDE DEF fr
  <1>3. 1 \in 1 .. Len(calls') /\ calls'[1] = fr BY <1>1
  <1>4. \A d \in jumps[v[1]] : \E i \in 1 .. Len(calls') : calls'[i].src = v /\ d \in calls'[i].left
    BY <1>2, <1>3
  <1>5. CASE graph_changed BY <1>1, <1>5 DEF RoundInv
  <1>6. CASE ~graph_changed BY <1>1, <1>4, <1>6, TurnsTo
  <1> QED BY <1>1, <1>5, <1>6

LEMMA AnalyzeEndHandles ==
  ASSUME SearchInv, RoundInv, NEW CONSTANT v \in nodes, analyze_end(v)
  PROVE  RoundInv' /\ phase' = "round"
PROOF
  <1> DEFINE S == jumps[v[1]]
             ends == \A e \in edges : e[1] # v
             fr == Frame(IF Cardinality(S) > 1 THEN "fork" ELSE "path", v, S)
  <1>1. /\ phase = "round" /\ phase' = phase /\ calls = <<>> /\ nodes' = nodes \ {v} /\ v \notin sources
        /\ calls' = (IF ~ends \/ S = {} THEN calls ELSE <<fr>>)
        /\ UNCHANGED <<program, symtable, vertices, edges, graph_changed, sources>>
    BY DEF analyze_end, recorder, table
  <1>2. fr.src = v /\ fr.left = S BY DEF Frame
  <1>3. CASE graph_changed BY <1>1, <1>3 DEF RoundInv
  <1>4. CASE ~graph_changed
    <2>1. sources = {e[1] : e \in edges} BY <1>1, <1>4 DEF RoundInv
    <2>2. ends BY <1>1, <2>1
    <2> HIDE DEF fr, ends
    <2>3. S # {} => calls' = <<fr>> BY <1>1, <2>2
    <2>4. \A d \in S : \E i \in 1 .. Len(calls') : calls'[i].src = v /\ d \in calls'[i].left
      <3> SUFFICES ASSUME NEW d \in S PROVE \E i \in 1 .. Len(calls') : calls'[i].src = v /\ d \in calls'[i].left
        OBVIOUS
      <3>1. calls' = <<fr>> BY <2>3
      <3>2. 1 \in 1 .. Len(calls') /\ calls'[1] = fr BY <3>1
      <3> QED BY <1>2, <3>2
    <2> QED BY <1>1, <1>4, <2>4, TurnsTo
  <1> QED BY <1>1, <1>3, <1>4

\* A frame that has nothing left.
LEMMA EndFrameHandles ==
  ASSUME SearchInv, RoundInv, end_fork \/ end_successors
  PROVE  RoundInv' /\ phase' = "round"
PROOF
  <1>1. /\ calls # <<>> /\ calls[1].left = {} /\ calls' = Tail(calls) /\ phase' = phase
        /\ UNCHANGED <<program, symtable, vertices, edges, graph_changed, nodes, sources>>
    BY DEF end_fork, end_successors, recorder, table, top
  <1>2. phase = "round" BY <1>1, OnlyInRounds
  <1>3. calls \in Seq(CallFrame) /\ FramesOK(calls, vertices, jumps) BY DEF SearchInv, Types
  <1>5. ASSUME NEW i \in 1 .. Len(calls), NEW d \in calls[i].left
        PROVE  \E j \in 1 .. Len(calls') : calls'[j].src = calls[i].src /\ d \in calls'[j].left
    <2>1. /\ Len(calls) \in Nat \ {0} /\ Len(Tail(calls)) = Len(calls) - 1
          /\ \A j \in 1 .. Len(Tail(calls)) : Tail(calls)[j] = calls[j + 1]
      BY <1>1, <1>3, PopFrame
    <2>2. PICK r : r = Tail(calls) OBVIOUS
    <2>3. i # 1 BY <1>1
    <2>4. i - 1 \in 1 .. Len(r) /\ (i - 1) + 1 = i BY <2>1, <2>2, <2>3
    <2>5. r[i - 1] = calls[i] BY <2>1, <2>2, <2>4
    <2>6. calls' = r BY <1>1, <2>2
    <2> QED BY <2>4, <2>5, <2>6
  <1>6. CASE graph_changed BY <1>1, <1>2, <1>6 DEF RoundInv
  <1>7. CASE ~graph_changed
    <2>1. \A u, d : after(u, d)' = after(u, d) BY <1>1, AfterSame
    <2>2. jumps' = jumps BY <1>1 DEF jumps
    <2>3. \A u, d : Handled(u, d) => Handled(u, d)' BY <1>1, <1>5, <2>1 DEF Handled
    <2> QED BY <1>1, <1>2, <1>7, <2>2, <2>3 DEF RoundInv
  <1> QED BY <1>1, <1>2, <1>6, <1>7

\* "Fixpoint reached" is said of a graph that has all jumps of all its vertices
\* (analyze.ml, the loop of analyze; record_cfg.ml, graph_changed): in a round that
\* leaves the flag down every vertex is dealt with, and every one of its jumps is in
\* the graph or in a frame until it has been looked at.
THEOREM FixpointIsClosedCorrect == Spec => []FixpointIsClosed
PROOF
  <1>1. Init => RoundInv /\ FixpointIsClosed BY DEF Init, RoundInv, FixpointIsClosed
  <1> DEFINE Goal == RoundInv' /\ FixpointIsClosed'
  <1>2. ASSUME SearchInv, RoundInv, FixpointIsClosed, [Next]_vars PROVE Goal
    <2>1. ASSUME phase' = "round" PROVE FixpointIsClosed' BY <2>1 DEF FixpointIsClosed
    <2>2. CASE UNCHANGED vars
      <3>1. /\ UNCHANGED <<program, symtable, vertices, edges, graph_changed, calls, nodes, sources, phase>>
        BY <2>2 DEF vars, recorder, table
      <3>2. \A u, d : after(u, d)' = after(u, d) BY <3>1, AfterSame
      <3>3. jumps' = jumps BY <3>1 DEF jumps
      <3>4. RoundInv' BY <1>2, <3>1, <3>2, <3>3 DEF RoundInv, Handled
      <3>5. FixpointIsClosed' BY <1>2, <3>1, <3>2, <3>3 DEF FixpointIsClosed
      <3> QED BY <3>4, <3>5
    <2>3. ASSUME NEW CONSTANT dst, NEW CONSTANT w, NEW CONSTANT rest, Searches(dst, w, rest) PROVE Goal
      BY <1>2, <2>1, <2>3, SearchesHandle
    <2>4. ASSUME NEW CONSTANT dst, NEW CONSTANT rest, Skips(dst, rest) PROVE Goal
      <3>1. /\ calls # <<>> /\ <<calls[1].src, after(calls[1].src, dst)>> \in edges
            /\ calls' = rest /\ Covers(calls, dst, rest)
            /\ UNCHANGED <<program, symtable, vertices, edges, graph_changed, nodes, sources, phase>>
        BY <2>4 DEF Skips, recorder, table
      <3>2. phase = "round" BY <1>2, <3>1, OnlyInRounds
      <3>3. RoundInv'
        <4>1. CASE graph_changed BY <3>1, <4>1 DEF RoundInv
        <4>2. CASE ~graph_changed BY <1>2, <3>1, <3>2, <4>2, StillHandled
        <4> QED BY <4>1, <4>2
      <3> QED BY <2>1, <3>1, <3>2, <3>3
    <2>5. ASSUME NEW CONSTANT v \in nodes, analyze_source(v) PROVE Goal
      BY <1>2, <2>1, <2>5, AnalyzeSourceHandles
    <2>6. ASSUME NEW CONSTANT v \in nodes, analyze_end(v) PROVE Goal
      BY <1>2, <2>1, <2>6, AnalyzeEndHandles
    <2>7. CASE end_fork \/ end_successors BY <1>2, <2>1, <2>7, EndFrameHandles
    <2>8. CASE \E s \in unread : init_symbol(s)
      <3>1. phase' \in {"init", "idle"} BY <2>8 DEF init_symbol
      <3> QED BY <3>1 DEF RoundInv, FixpointIsClosed
    <2>9. CASE begin_round
      <3>1. /\ phase' = "round" /\ nodes' = vertices' /\ sources' = {e[1] : e \in edges'}
        BY <2>9 DEF begin_round, recorder
      <3> QED BY <2>1, <3>1 DEF RoundInv
    <2>10. CASE end_round
      <3>1. /\ phase = "round" /\ calls = <<>> /\ nodes = {} /\ phase' = (IF graph_changed THEN "idle" ELSE "done")
            /\ UNCHANGED <<program, symtable, vertices, edges>>
        BY <2>10 DEF end_round, table
      <3>2. RoundInv' BY <3>1 DEF RoundInv
      <3>3. ASSUME ~graph_changed PROVE FixpointIsClosed'
        <4>1. \A u, d : after(u, d)' = after(u, d) BY <3>1, AfterSame
        <4>2. jumps' = jumps BY <3>1 DEF jumps
        <4>3. \A v \in vertices : \A d \in jumps[v[1]] : Handled(v, d) BY <1>2, <3>1, <3>3 DEF RoundInv
        <4>4. \A v \in vertices : \A d \in jumps[v[1]] : <<v, after(v, d)>> \in edges
          BY <3>1, <4>3 DEF Handled
        <4> QED BY <3>1, <4>1, <4>2, <4>4 DEF FixpointIsClosed
      <3>4. ASSUME graph_changed PROVE FixpointIsClosed' BY <3>1, <3>4 DEF FixpointIsClosed
      <3> QED BY <3>2, <3>3, <3>4
    <2>11. ASSUME NEW CONSTANT v \in nodes, except_thrown(v) PROVE Goal
      BY <2>11 DEF except_thrown, RoundInv, FixpointIsClosed
    <2> QED BY <1>2, <2>2, <2>3, <2>4, <2>5, <2>6, <2>7, <2>8, <2>9, <2>10, <2>11, Steps, Zenon
  <1> QED BY <1>1, <1>2, SearchInvCorrect, PTL DEF Spec

-----------------------------------------------------------------------------
(* Bits and prefixes of addresses.                                         *)

LEMMA Division ==
  ASSUME NEW x \in Nat, NEW m \in Nat \ {0}
  PROVE  /\ x \div m \in Nat /\ x % m \in Nat /\ x % m < m
         /\ x = m * (x \div m) + (x % m)
PROOF OBVIOUS

LEMMA Below ==
  ASSUME NEW m \in Nat \ {0}, NEW q \in Nat, NEW p \in Nat, q < p
  PROVE  m * q + m <= m * p
PROOF
  <1>1. PICK d \in Nat : p = q + 1 + d
    <2>1. p - q - 1 \in Nat /\ p = q + 1 + (p - q - 1) OBVIOUS
    <2> QED BY <2>1
  <1>2. m * p = m * q + m + m * d BY <1>1
  <1>3. m * d \in Nat OBVIOUS
  <1>4. m * q \in Nat OBVIOUS
  <1> QED BY <1>2, <1>3, <1>4

LEMMA Quotient ==
  ASSUME NEW x \in Nat, NEW m \in Nat \ {0}, NEW q \in Nat, NEW r \in Nat, r < m, x = m * q + r
  PROVE  x \div m = q /\ x % m = r
PROOF
  <1>1. PICK c \in Nat, s \in Nat : c = x \div m /\ s = x % m /\ s < m /\ x = m * c + s
     BY Division
  <1>2. m * c \in Nat /\ m * q \in Nat OBVIOUS
  <1>3. CASE c < q
    <2>1. m * c + m <= m * q BY <1>3, Below
    <2> QED BY <1>1, <1>2, <2>1
  <1>4. CASE q < c
    <2>1. m * q + m <= m * c BY <1>4, Below
    <2> QED BY <1>1, <1>2, <2>1
  <1>5. CASE c = q BY <1>1, <1>2, <1>5
  <1> QED BY <1>3, <1>4, <1>5

LEMMA Half ==
  ASSUME NEW x \in Nat, NEW m \in Nat \ {0}
  PROVE  /\ x \div (2 * m) \in Nat /\ bit(x, m) \in {0, 1}
         /\ x \div m = 2 * (x \div (2 * m)) + bit(x, m)
PROOF
  <1>1. PICK a \in Nat, r \in Nat : a = x \div m /\ r < m /\ x = m * a + r BY Division
  <1>2. PICK b \in Nat, c \in Nat : b = a \div 2 /\ c = a % 2 /\ c < 2 /\ a = 2 * b + c BY Division
  <1>3. c \in {0, 1} BY <1>2
  <1>4. m * a = (2 * m) * b + m * c BY <1>2
  <1>5. m * c \in {0, m} BY <1>3
  <1>6. PICK s \in Nat : s = m * c + r BY <1>3
  <1>7. s < 2 * m BY <1>1, <1>5, <1>6
  <1>8. (2 * m) * b \in Nat /\ 2 * m \in Nat \ {0} OBVIOUS
  <1>9. x = (2 * m) * b + s
    <2>1. m * c \in Nat BY <1>5
    <2> QED BY <1>1, <1>4, <1>6, <1>8, <2>1
  <1>10. x \div (2 * m) = b BY <1>7, <1>8, <1>9, Quotient
  <1> QED BY <1>1, <1>2, <1>3, <1>10 DEF bit

\* mask clears the bits up to and including m.
LEMMA MaskIs ==
  ASSUME NEW x \in Nat, NEW m \in Nat \ {0}
  PROVE  /\ mask(x, m) = (2 * m) * (x \div (2 * m))
         /\ mask(x, m) \in Nat /\ mask(x, m) <= x
         /\ mask(x, m) \div (2 * m) = x \div (2 * m)
PROOF
  <1>1. PICK n \in Nat \ {0} : n = 2 * m OBVIOUS
  <1>2. PICK q \in Nat, r \in Nat : q = x \div n /\ r = x % n /\ r < n /\ x = n * q + r BY Division
  <1>3. n * q \in Nat OBVIOUS
  <1>4. mask(x, m) = x - r BY <1>1, <1>2 DEF mask
  <1>5. mask(x, m) = n * q /\ mask(x, m) <= x BY <1>2, <1>3, <1>4
  <1>6. (n * q) \div n = q
    <2>1. n * q = n * q + 0 BY <1>3
    <2> QED BY <1>3, <2>1, Quotient
  <1> QED BY <1>1, <1>2, <1>3, <1>5, <1>6

LEMMA QuotientOrder ==
  ASSUME NEW x \in Nat, NEW y \in Nat, NEW m \in Nat \ {0}, x \div m < y \div m
  PROVE  x < y
PROOF
  <1>1. PICK a \in Nat, r \in Nat : a = x \div m /\ r < m /\ x = m * a + r BY Division
  <1>2. PICK b \in Nat, s \in Nat : b = y \div m /\ s < m /\ y = m * b + s BY Division
  <1>3. m * a + m <= m * b BY <1>1, <1>2, Below
  <1>4. m * a \in Nat /\ m * b \in Nat OBVIOUS
  <1> QED BY <1>1, <1>2, <1>3, <1>4

-----------------------------------------------------------------------------
(* The blocks of 2^j addresses.                                            *)

Block(x, j) == x \div pow2[j]

LEMMA BlockStep ==
  ASSUME NEW x \in Nat, NEW j \in 0 .. Bits - 1
  PROVE  /\ Block(x, j) \in Nat /\ Block(x, j + 1) \in Nat /\ bit(x, pow2[j]) \in {0, 1}
         /\ Block(x, j) = 2 * Block(x, j + 1) + bit(x, pow2[j])
PROOF
  <1>1. Bits \in Nat BY BitsAssumption
  <1>2. j \in 0 .. Bits /\ j + 1 \in 1 .. Bits /\ (j + 1) - 1 = j BY <1>1
  <1>3. PICK m \in Nat \ {0} : m = pow2[j] BY <1>2, Powers
  <1>4. pow2[j + 1] = 2 * m BY <1>2, <1>3, Powers
  <1>5. x \div m \in Nat BY Division
  <1>6. /\ x \div (2 * m) \in Nat /\ bit(x, m) \in {0, 1}
        /\ x \div m = 2 * (x \div (2 * m)) + bit(x, m)
    BY Half
  <1> QED BY <1>3, <1>4, <1>5, <1>6 DEF Block

LEMMA BlockMask ==
  ASSUME NEW x \in Nat, NEW j \in 0 .. Bits - 1
  PROVE  /\ mask(x, pow2[j]) \in Nat /\ mask(x, pow2[j]) <= x
         /\ Block(mask(x, pow2[j]), j + 1) = Block(x, j + 1)
         /\ mask(x, pow2[j]) = pow2[j + 1] * Block(x, j + 1)
         /\ pow2[j + 1] \in Nat \ {0}
PROOF
  <1>1. Bits \in Nat BY BitsAssumption
  <1>2. j \in 0 .. Bits /\ j + 1 \in 0 .. Bits /\ j + 1 \in 1 .. Bits /\ (j + 1) - 1 = j BY <1>1
  <1>3. PICK m \in Nat \ {0} : m = pow2[j] BY <1>2, Powers
  <1>4. pow2[j + 1] = 2 * m /\ pow2[j + 1] \in Nat \ {0} BY <1>2, <1>3, Powers
  <1>5. /\ mask(x, m) = (2 * m) * (x \div (2 * m))
        /\ mask(x, m) \in Nat /\ mask(x, m) <= x
        /\ mask(x, m) \div (2 * m) = x \div (2 * m)
    BY MaskIs
  <1> QED BY <1>3, <1>4, <1>5 DEF Block

\* Two addresses have the same prefix above bit j when they lie in the same block.
LEMMA MaskBlock ==
  ASSUME NEW x \in Nat, NEW y \in Nat, NEW j \in 0 .. Bits - 1
  PROVE  mask(x, pow2[j]) = mask(y, pow2[j]) <=> Block(x, j + 1) = Block(y, j + 1)
PROOF
  <1>1. ASSUME mask(x, pow2[j]) = mask(y, pow2[j]) PROVE Block(x, j + 1) = Block(y, j + 1)
    <2>1. Block(mask(x, pow2[j]), j + 1) = Block(x, j + 1) BY BlockMask
    <2>2. Block(mask(y, pow2[j]), j + 1) = Block(y, j + 1) BY BlockMask
    <2> QED BY <1>1, <2>1, <2>2
  <1>2. ASSUME Block(x, j + 1) = Block(y, j + 1) PROVE mask(x, pow2[j]) = mask(y, pow2[j])
    <2>1. mask(x, pow2[j]) = pow2[j + 1] * Block(x, j + 1) BY BlockMask
    <2>2. mask(y, pow2[j]) = pow2[j + 1] * Block(y, j + 1) BY BlockMask
    <2> QED BY <1>2, <2>1, <2>2
  <1> QED BY <1>1, <1>2

\* Smaller blocks are parts of larger ones.
LEMMA BlockUp ==
  ASSUME NEW x \in Nat, NEW y \in Nat, NEW j \in 0 .. Bits, NEW i \in j .. Bits, Block(x, j) = Block(y, j)
  PROVE  Block(x, i) = Block(y, i)
PROOF
  <1> DEFINE T == {k \in j .. Bits : Block(x, k) # Block(y, k)}
  <1> SUFFICES ASSUME T # {} PROVE FALSE OBVIOUS
  <1>1. Bits \in Nat BY BitsAssumption
  <1>2. PICK k \in T : \A l \in T : k <= l
    <2>1. T \in SUBSET Nat BY <1>1
    <2> HIDE DEF T
    <2> QED BY <2>1, LeastElement
  <1>3. k \in j .. Bits /\ Block(x, k) # Block(y, k) OBVIOUS
  <1>4. k - 1 \in j .. Bits /\ k - 1 \notin T /\ k - 1 \in 0 .. Bits - 1 /\ (k - 1) + 1 = k
    BY <1>1, <1>2, <1>3
  <1>5. PICK n : n = k - 1 OBVIOUS
  <1>6. Block(x, n) = Block(y, n) BY <1>4, <1>5
  <1>7. n \in 0 .. Bits - 1 /\ n + 1 = k BY <1>4, <1>5
  <1>8. /\ Block(x, n) \in Nat /\ Block(x, n + 1) \in Nat /\ bit(x, pow2[n]) \in {0, 1}
        /\ Block(x, n) = 2 * Block(x, n + 1) + bit(x, pow2[n])
    BY <1>7, BlockStep
  <1>9. /\ Block(y, n) \in Nat /\ Block(y, n + 1) \in Nat /\ bit(y, pow2[n]) \in {0, 1}
        /\ Block(y, n) = 2 * Block(y, n + 1) + bit(y, pow2[n])
    BY <1>7, BlockStep
  <1>10. Block(x, n + 1) = Block(y, n + 1)
    <2>1. \A p, q \in Nat : \A r, s \in {0, 1} : 2 * p + r = 2 * q + s => p = q OBVIOUS
    <2>2. 2 * Block(x, n + 1) + bit(x, pow2[n]) = 2 * Block(y, n + 1) + bit(y, pow2[n]) BY <1>6, <1>8, <1>9
    <2> QED BY <1>8, <1>9, <2>1, <2>2, Zenon
  <1> QED BY <1>3, <1>7, <1>10

LEMMA BlockEnds ==
  /\ \A x \in Nat : Block(x, 0) = x
  /\ \A x \in Key : Block(x, Bits) = 0
PROOF
  <1>1. ASSUME NEW x \in Nat PROVE Block(x, 0) = x
    <2>1. x = 1 * x + 0 OBVIOUS
    <2>2. x \div 1 = x BY <2>1, Quotient
    <2> QED BY <2>2, Powers DEF Block
  <1>2. ASSUME NEW x \in Key PROVE Block(x, Bits) = 0
    <2>1. PICK m \in Nat \ {0} : m = pow2[Bits]
      <3>1. Bits \in 0 .. Bits BY BitsAssumption
      <3> QED BY <3>1, Powers
    <2>2. x \in Nat /\ x < m BY <2>1 DEF Key
    <2>3. x = m * 0 + x BY <2>2
    <2>4. x \div m = 0 BY <2>2, <2>3, Quotient
    <2> QED BY <2>1, <2>4 DEF Block
  <1> QED BY <1>1, <1>2

LEMMA PowersOrder ==
  ASSUME NEW i \in 0 .. Bits, NEW j \in 0 .. Bits, i < j
  PROVE  pow2[i] < pow2[j]
PROOF
  <1> DEFINE T == {k \in i + 1 .. Bits : ~(pow2[i] < pow2[k])}
  <1>1. Bits \in Nat BY BitsAssumption
  <1> SUFFICES ASSUME T # {} PROVE FALSE BY <1>1
  <1>2. PICK k \in T : \A l \in T : k <= l
    <2>1. T \in SUBSET Nat BY <1>1
    <2> HIDE DEF T
    <2> QED BY <2>1, LeastElement
  <1>3. k \in i + 1 .. Bits /\ ~(pow2[i] < pow2[k]) OBVIOUS
  <1>4. k \in 1 .. Bits /\ k - 1 \in 0 .. Bits BY <1>1, <1>3
  <1>5. pow2[k] = 2 * pow2[k - 1] /\ pow2[k - 1] \in Nat \ {0} /\ pow2[i] \in Nat \ {0} BY <1>4, Powers
  <1>6. CASE k - 1 = i BY <1>3, <1>5, <1>6
  <1>7. CASE k - 1 # i
    <2>1. k - 1 \in i + 1 .. Bits /\ k - 1 \notin T BY <1>1, <1>2, <1>3, <1>7
    <2>2. pow2[i] < pow2[k - 1] BY <2>1
    <2> QED BY <1>3, <1>5, <2>2
  <1> QED BY <1>6, <1>7

\* branching_bit finds the highest bit in which two addresses differ.
LEMMA BranchingBit ==
  ASSUME NEW a \in Key, NEW b \in Key, a # b
  PROVE  \E j \in 0 .. Bits - 1 : /\ branching_bit(a, b) = pow2[j]
                                  /\ bit(a, pow2[j]) # bit(b, pow2[j])
                                  /\ Block(a, j + 1) = Block(b, j + 1)
PROOF
  <1> DEFINE T == {k \in 0 .. Bits : Block(a, k) = Block(b, k)}
             Fits(m) == /\ m \in Masks /\ bit(a, m) # bit(b, m)
                        /\ \A n \in Masks : n > m => bit(a, n) = bit(b, n)
  <1>1. Bits \in Nat \ {0} /\ a \in Nat /\ b \in Nat BY BitsAssumption, KeysFinite
  <1>2. T # {}
    <2>1. Bits \in 0 .. Bits BY <1>1
    <2>2. Block(a, Bits) = Block(b, Bits) BY BlockEnds
    <2> QED BY <2>1, <2>2
  <1>3. PICK k \in T : \A l \in T : k <= l
    <2>1. T \in SUBSET Nat BY <1>1
    <2> HIDE DEF T
    <2> QED BY <1>2, <2>1, LeastElement
  <1>4. k \in 0 .. Bits /\ Block(a, k) = Block(b, k) OBVIOUS
  <1>5. k # 0 BY <1>1, <1>4, BlockEnds
  <1>6. PICK j \in 0 .. Bits - 1 : j + 1 = k
    <2>1. k - 1 \in 0 .. Bits - 1 /\ (k - 1) + 1 = k BY <1>1, <1>4, <1>5
    <2> QED BY <2>1
  <1>7. Block(a, j) # Block(b, j)
    <2>1. j \in 0 .. Bits /\ ~(k <= j) BY <1>1, <1>6
    <2>2. j \notin T BY <1>3, <2>1
    <2> QED BY <2>1, <2>2
  <1> HIDE DEF T
  <1>8. Block(a, j + 1) = Block(b, j + 1) BY <1>4, <1>6
  <1>9. ASSUME NEW i \in 0 .. Bits - 1
        PROVE  /\ Block(a, i) \in Nat /\ Block(a, i + 1) \in Nat /\ bit(a, pow2[i]) \in {0, 1}
               /\ Block(a, i) = 2 * Block(a, i + 1) + bit(a, pow2[i])
               /\ Block(b, i) \in Nat /\ Block(b, i + 1) \in Nat /\ bit(b, pow2[i]) \in {0, 1}
               /\ Block(b, i) = 2 * Block(b, i + 1) + bit(b, pow2[i])
    BY <1>1, BlockStep
  <1>10. bit(a, pow2[j]) # bit(b, pow2[j]) BY <1>7, <1>8, <1>9
  <1>11. ASSUME NEW i \in 0 .. Bits - 1, i > j PROVE bit(a, pow2[i]) = bit(b, pow2[i])
    <2>1. i \in j + 1 .. Bits /\ i + 1 \in j + 1 .. Bits /\ j + 1 \in 0 .. Bits BY <1>1, <1>11
    <2>2. Block(a, i) = Block(b, i) /\ Block(a, i + 1) = Block(b, i + 1) BY <1>1, <1>8, <2>1, BlockUp
    <2> QED BY <1>9, <2>2
  <1>12. ASSUME NEW n \in Masks, n > pow2[j] PROVE bit(a, n) = bit(b, n)
    <2>1. PICK i \in 0 .. Bits - 1 : n = pow2[i] BY DEF Masks
    <2>2. i \in 0 .. Bits /\ j \in 0 .. Bits BY <1>1
    <2>3. pow2[i] \in Nat /\ pow2[j] \in Nat BY <2>2, Powers
    <2>4. i # j BY <1>12, <2>1, <2>3
    <2>5. ~(i < j)
      <3> SUFFICES ASSUME i < j PROVE FALSE OBVIOUS
      <3>1. pow2[i] < pow2[j] BY <2>2, PowersOrder
      <3> QED BY <1>12, <2>1, <2>3, <3>1
    <2>6. i > j BY <2>4, <2>5
    <2> QED BY <1>11, <2>1, <2>6
  <1>13. pow2[j] \in Masks BY DEF Masks
  <1>14. Fits(pow2[j]) BY <1>10, <1>12, <1>13
  <1>15. ASSUME NEW m, Fits(m) PROVE m = pow2[j]
    <2>1. m \in Nat /\ pow2[j] \in Nat
      <3>1. \A i \in 0 .. Bits - 1 : i \in 0 .. Bits BY <1>1
      <3> QED BY <1>15, <3>1, Powers DEF Masks
    <2>2. ~(m > pow2[j]) BY <1>12, <1>15
    <2>3. ~(pow2[j] > m) BY <1>10, <1>13, <1>15
    <2> QED BY <2>1, <2>2, <2>3
  <1>16. branching_bit(a, b) = CHOOSE m : Fits(m) BY DEF branching_bit
  <1>17. Fits(CHOOSE m : Fits(m)) BY <1>14, Zenon
  <1>18. branching_bit(a, b) = pow2[j]
    <2> HIDE DEF Fits
    <2> QED BY <1>15, <1>16, <1>17
  <1> QED BY <1>8, <1>10, <1>18

-----------------------------------------------------------------------------
(* Trees.                                                                  *)

LeafNode == [kind : {"Leaf"}, key : Key, value : STRING]
BranchNode(S) == [kind : {"Branch"}, prefix : Key, branching_bit : Masks, tree0 : S, tree1 : S]

\* g is the trees of height 0, 1, ... up to n.
TreesUpTo(n, g) ==
  g = [i \in 0 .. n |-> {Empty} \cup LeafNode \cup IF i = 0 THEN {} ELSE BranchNode(g[i - 1])]

LEMMA TreesExist ==
  ASSUME NEW n \in Nat
  PROVE  \E g : TreesUpTo(n, g)
PROOF
  <1> DEFINE T == {i \in Nat : ~ \E g : TreesUpTo(i, g)}
             Flat == {Empty} \cup LeafNode
  <1> SUFFICES ASSUME T # {} PROVE FALSE OBVIOUS
  <1>1. PICK m \in T : \A i \in T : m <= i
    <2>1. T \in SUBSET Nat OBVIOUS
    <2> HIDE DEF T
    <2> QED BY <2>1, LeastElement
  <1> HIDE DEF Flat
  <1>2. CASE m = 0
    <2> DEFINE g == [i \in 0 .. 0 |-> Flat]
    <2>1. \A i \in 0 .. 0 : i = 0 OBVIOUS
    <2>2. g = [i \in 0 .. 0 |-> Flat \cup IF i = 0 THEN {} ELSE BranchNode(g[i - 1])]
      <3>1. \A i \in 0 .. 0 : Flat = Flat \cup IF i = 0 THEN {} ELSE BranchNode(g[i - 1]) BY <2>1
      <3> QED BY <3>1, Zenon
    <2>3. TreesUpTo(0, g) BY <2>2, Zenon DEF TreesUpTo, Flat
    <2> QED BY <1>2, <2>3
  <1>3. CASE m # 0
    <2>1. m \in Nat /\ m - 1 \in Nat /\ m - 1 \notin T BY <1>1, <1>3
    <2>2. PICK h : TreesUpTo(m - 1, h) BY <2>1
    <2> DEFINE g == [i \in 0 .. m |-> IF i = m THEN Flat \cup BranchNode(h[m - 1]) ELSE h[i]]
    <2>3. \A i \in 0 .. m - 1 : h[i] = Flat \cup IF i = 0 THEN {} ELSE BranchNode(h[i - 1])
      BY <2>2 DEF TreesUpTo, Flat
    <2>4. ASSUME NEW i \in 0 .. m
          PROVE  g[i] = Flat \cup IF i = 0 THEN {} ELSE BranchNode(g[i - 1])
      <3>1. CASE i = m
        <4>1. m - 1 \in 0 .. m - 1 /\ m - 1 \in 0 .. m /\ m - 1 # m BY <2>1
        <4>2. g[i - 1] = h[m - 1] /\ g[i] = Flat \cup BranchNode(h[m - 1]) BY <2>1, <3>1, <4>1
        <4> QED BY <1>3, <3>1, <4>2
      <3>2. CASE i # m
        <4>1. i \in 0 .. m - 1 BY <2>1, <3>2
        <4>2. g[i] = h[i] BY <3>2
        <4>3. i # 0 => i - 1 \in 0 .. m /\ i - 1 # m BY <2>1, <4>1
        <4>4. i # 0 => g[i - 1] = h[i - 1] BY <4>3
        <4> QED BY <2>3, <4>1, <4>2, <4>4
      <3> QED BY <3>1, <3>2
    <2>5. TreesUpTo(m, g)
      <3>1. \A i \in 0 .. m : g[i] = Flat \cup IF i = 0 THEN {} ELSE BranchNode(g[i - 1]) BY <2>4
      <3> QED BY <3>1, Zenon DEF TreesUpTo, Flat
    <2> QED BY <2>5
  <1> QED BY <1>2, <1>3

LEMMA TreeIs ==
  /\ Tree[0] = {Empty} \cup LeafNode
  /\ \A n \in 1 .. Bits : Tree[n] = {Empty} \cup LeafNode \cup BranchNode(Tree[n - 1])
PROOF
  <1>1. Bits \in Nat \ {0} BY BitsAssumption
  <1>2. \E g : TreesUpTo(Bits, g) BY <1>1, TreesExist
  <1>3. TreesUpTo(Bits, Tree) BY <1>2, Zenon DEF Tree, TreesUpTo, LeafNode, BranchNode
  <1>4. \A i \in 0 .. Bits : Tree[i] = {Empty} \cup LeafNode \cup IF i = 0 THEN {} ELSE BranchNode(Tree[i - 1])
    BY <1>3 DEF TreesUpTo
  <1>5. 0 \in 0 .. Bits /\ \A n \in 1 .. Bits : n \in 0 .. Bits /\ n # 0 BY <1>1
  <1>6. Tree[0] = {Empty} \cup LeafNode BY <1>4, <1>5
  <1> QED BY <1>4, <1>5, <1>6

LEMMA Kinds ==
  /\ Empty.kind = "Empty"
  /\ \A t \in LeafNode : t.kind = "Leaf" /\ t.key \in Key /\ t.value \in STRING /\ t = Leaf(t.key, t.value)
  /\ \A k \in Key, x \in STRING : Leaf(k, x) \in LeafNode
  /\ \A k, x : Leaf(k, x).kind = "Leaf" /\ Leaf(k, x).key = k /\ Leaf(k, x).value = x
  /\ \A S : \A t \in BranchNode(S) : /\ t.kind = "Branch" /\ t.prefix \in Key /\ t.branching_bit \in Masks
                                     /\ t.tree0 \in S /\ t.tree1 \in S
  /\ \A S, R : S \subseteq R => BranchNode(S) \subseteq BranchNode(R)
PROOF
  <1>1. Empty.kind = "Empty" BY DEF Empty
  <1>2. \A t \in LeafNode : t.kind = "Leaf" /\ t.key \in Key /\ t.value \in STRING /\ t = Leaf(t.key, t.value)
    BY DEF LeafNode, Leaf
  <1>3. \A k \in Key, x \in STRING : Leaf(k, x) \in LeafNode BY DEF LeafNode, Leaf
  <1>4. \A k, x : Leaf(k, x).kind = "Leaf" /\ Leaf(k, x).key = k /\ Leaf(k, x).value = x BY DEF Leaf
  <1>5. \A S : \A t \in BranchNode(S) : /\ t.kind = "Branch" /\ t.prefix \in Key /\ t.branching_bit \in Masks
                                        /\ t.tree0 \in S /\ t.tree1 \in S
    BY DEF BranchNode
  <1>6. \A S, R : S \subseteq R => BranchNode(S) \subseteq BranchNode(R) BY DEF BranchNode
  <1> QED BY <1>1, <1>2, <1>3, <1>4, <1>5, <1>6

LEMMA TreeGrows ==
  ASSUME NEW n \in 0 .. Bits, NEW i \in 0 .. n
  PROVE  Tree[i] \subseteq Tree[n]
PROOF
  <1>1. Bits \in Nat BY BitsAssumption
  <1>2. ASSUME NEW k \in 0 .. Bits - 1 PROVE Tree[k] \subseteq Tree[k + 1]
    <2> DEFINE T == {l \in 0 .. Bits - 1 : ~(Tree[l] \subseteq Tree[l + 1])}
    <2> SUFFICES ASSUME T # {} PROVE FALSE OBVIOUS
    <2>1. PICK l \in T : \A o \in T : l <= o
      <3>1. T \in SUBSET Nat BY <1>1
      <3> HIDE DEF T
      <3> QED BY <3>1, LeastElement
    <2>2. l \in 0 .. Bits - 1 /\ ~(Tree[l] \subseteq Tree[l + 1]) OBVIOUS
    <2>3. l + 1 \in 1 .. Bits /\ (l + 1) - 1 = l BY <1>1, <2>2
    <2>4. Tree[l + 1] = {Empty} \cup LeafNode \cup BranchNode(Tree[l]) BY <2>3, TreeIs
    <2>5. CASE l = 0 BY <2>2, <2>4, <2>5, TreeIs
    <2>6. CASE l # 0
      <3>1. l \in 1 .. Bits /\ l - 1 \in 0 .. Bits - 1 /\ l - 1 \notin T /\ (l - 1) + 1 = l BY <1>1, <2>1, <2>2, <2>6
      <3>2. Tree[l - 1] \subseteq Tree[l] BY <3>1
      <3>3. Tree[l] = {Empty} \cup LeafNode \cup BranchNode(Tree[l - 1]) BY <3>1, TreeIs
      <3>4. BranchNode(Tree[l - 1]) \subseteq BranchNode(Tree[l]) BY <3>2, Kinds
      <3> QED BY <2>2, <2>4, <3>3, <3>4
    <2> QED BY <2>5, <2>6
  <1> DEFINE U == {l \in i .. n : ~(Tree[i] \subseteq Tree[l])}
  <1> SUFFICES ASSUME U # {} PROVE FALSE BY <1>1
  <1>3. PICK l \in U : \A o \in U : l <= o
    <2>1. U \in SUBSET Nat BY <1>1
    <2> HIDE DEF U
    <2> QED BY <2>1, LeastElement
  <1>4. l \in i .. n /\ ~(Tree[i] \subseteq Tree[l]) OBVIOUS
  <1>5. l # i BY <1>4
  <1>6. l - 1 \in i .. n /\ l - 1 \notin U /\ l - 1 \in 0 .. Bits - 1 /\ (l - 1) + 1 = l BY <1>1, <1>3, <1>4, <1>5
  <1>7. Tree[l - 1] \subseteq Tree[l] BY <1>2, <1>6
  <1> QED BY <1>4, <1>6, <1>7

\* The nodes of a tree of height n.
LEMMA NodeCases ==
  ASSUME NEW n \in 0 .. Bits, NEW t \in Tree[n]
  PROVE  \/ t = Empty
         \/ t \in LeafNode
         \/ n \in 1 .. Bits /\ t \in BranchNode(Tree[n - 1])
PROOF
  <1>1. n = 0 \/ n \in 1 .. Bits BY BitsAssumption
  <1> QED BY <1>1, TreeIs

\* Subtrees are trees.
LEMMA Subtrees ==
  ASSUME NEW t \in Trees, t.kind = "Branch"
  PROVE  /\ t.tree0 \in Trees /\ t.tree1 \in Trees /\ t.prefix \in Key /\ t.branching_bit \in Masks
PROOF
  <1>1. Bits \in 0 .. Bits /\ Bits - 1 \in 0 .. Bits BY BitsAssumption
  <1>2. t \in BranchNode(Tree[Bits - 1]) BY <1>1, NodeCases, Kinds DEF Trees
  <1>3. Tree[Bits - 1] \subseteq Trees BY <1>1, TreeGrows DEF Trees
  <1> QED BY <1>2, <1>3, Kinds

-----------------------------------------------------------------------------
(* What find and insert compute.                                           *)

\* One call of loop, of which g is the recursive ones.
FindStep(k, g, node) ==
  IF node.kind = "Empty" THEN Raises("Not_found")
  ELSE IF node.kind = "Leaf" THEN
    IF node.key > k THEN Raises("Too_much_on_the_right") ELSE Found(node.value)
  ELSE IF node.prefix > k THEN Raises("Too_much_on_the_right")
  ELSE fallback(k, node, g[node.tree1], g[node.tree0])

Finds(k, n, g) == g = [node \in Tree[n] |-> FindStep(k, g, node)]

LEMMA FindExists ==
  ASSUME NEW k, NEW n \in 0 .. Bits
  PROVE  \E g : Finds(k, n, g)
PROOF
  <1> DEFINE T == {i \in 0 .. Bits : ~ \E g : Finds(k, i, g)}
  <1> SUFFICES ASSUME T # {} PROVE FALSE OBVIOUS
  <1>1. Bits \in Nat BY BitsAssumption
  <1>2. PICK m \in T : \A i \in T : m <= i
    <2>1. T \in SUBSET Nat BY <1>1
    <2> HIDE DEF T
    <2> QED BY <2>1, LeastElement
  <1>3. m \in 0 .. Bits /\ ~ \E g : Finds(k, m, g) OBVIOUS
  <1>4. ASSUME NEW h,
               \A node \in Tree[m] : node.kind = "Branch" =>
                 /\ node.tree0 \in Tree[m] /\ h[node.tree0] = FindStep(k, h, node.tree0)
                 /\ node.tree1 \in Tree[m] /\ h[node.tree1] = FindStep(k, h, node.tree1)
        PROVE  FALSE
    <2> DEFINE g == [node \in Tree[m] |-> FindStep(k, h, node)]
    <2>1. ASSUME NEW node \in Tree[m] PROVE FindStep(k, h, node) = FindStep(k, g, node)
      <3>1. CASE node.kind = "Branch"
        <4>1. g[node.tree0] = h[node.tree0] /\ g[node.tree1] = h[node.tree1] BY <1>4, <3>1
        <4> HIDE DEF g
        <4> QED BY <4>1 DEF FindStep
      <3>2. CASE node.kind # "Branch"
        <4> HIDE DEF g
        <4>1. node.kind = "Empty" \/ node.kind = "Leaf" BY <1>3, <3>2, NodeCases, Kinds
        <4> QED BY <3>2, <4>1 DEF FindStep
      <3> QED BY <3>1, <3>2
    <2>2. g = [node \in Tree[m] |-> FindStep(k, g, node)] BY <2>1, Zenon
    <2> HIDE DEF g
    <2>3. Finds(k, m, g) BY <2>2 DEF Finds
    <2> QED BY <1>3, <2>3
  <1>5. CASE m = 0
    <2>1. \A node \in Tree[m] : node.kind # "Branch"
      <3>1. \A node \in Tree[m] : node = Empty \/ node \in LeafNode BY <1>3, <1>5, NodeCases
      <3> QED BY <3>1, Kinds
    <2> QED BY <1>4, <2>1
  <1>6. CASE m # 0
    <2>1. m - 1 \in 0 .. Bits /\ m - 1 \notin T /\ m - 1 \in 0 .. m BY <1>1, <1>2, <1>3, <1>6
    <2>2. PICK h : Finds(k, m - 1, h) BY <2>1
    <2>3. \A node \in Tree[m - 1] : h[node] = FindStep(k, h, node) BY <2>2 DEF Finds
    <2>4. Tree[m - 1] \subseteq Tree[m] BY <1>3, <2>1, TreeGrows
    <2>5. \A node \in Tree[m] : node.kind = "Branch" => node.tree0 \in Tree[m - 1] /\ node.tree1 \in Tree[m - 1]
      BY <1>3, NodeCases, Kinds
    <2> QED BY <1>4, <2>3, <2>4, <2>5
  <1> QED BY <1>5, <1>6

LEMMA FindIs ==
  ASSUME NEW k
  PROVE  /\ find(k, Empty) = Raises("Not_found")
         /\ \A t \in LeafNode :
              find(k, t) = IF t.key > k THEN Raises("Too_much_on_the_right") ELSE Found(t.value)
         /\ \A t \in Trees : t.kind = "Branch" =>
              find(k, t) = IF t.prefix > k THEN Raises("Too_much_on_the_right")
                           ELSE fallback(k, t, find(k, t.tree1), find(k, t.tree0))
PROOF
  <1> DEFINE loop == CHOOSE g : g = [node \in Trees |-> FindStep(k, g, node)]
  <1>1. Bits \in 0 .. Bits /\ Bits \in 1 .. Bits BY BitsAssumption
  <1>2. \E g : g = [node \in Trees |-> FindStep(k, g, node)] BY <1>1, FindExists DEF Finds, Trees
  <1>3. loop = [node \in Trees |-> FindStep(k, loop, node)] BY <1>2, Zenon
  <1>4. \A t : find(k, t) = loop[t] BY Zenon DEF find, FindStep
  <1> HIDE DEF loop
  <1>5. \A t \in Trees : find(k, t) = FindStep(k, loop, t) BY <1>3, <1>4
  <1>6. Empty \in Trees /\ LeafNode \subseteq Trees BY <1>1, TreeIs DEF Trees
  <1>7. find(k, Empty) = Raises("Not_found") BY <1>5, <1>6, Kinds DEF FindStep
  <1>8. ASSUME NEW t \in LeafNode
        PROVE  find(k, t) = IF t.key > k THEN Raises("Too_much_on_the_right") ELSE Found(t.value)
    <2>1. t.kind = "Leaf" /\ find(k, t) = FindStep(k, loop, t) BY <1>5, <1>6, Kinds
    <2> QED BY <2>1 DEF FindStep
  <1>9. ASSUME NEW t \in Trees, t.kind = "Branch"
        PROVE  find(k, t) = IF t.prefix > k THEN Raises("Too_much_on_the_right")
                            ELSE fallback(k, t, find(k, t.tree1), find(k, t.tree0))
    <2>1. find(k, t) = FindStep(k, loop, t) BY <1>5
    <2>2. find(k, t.tree0) = loop[t.tree0] /\ find(k, t.tree1) = loop[t.tree1] BY <1>4
    <2>3. FindStep(k, loop, t) = IF t.prefix > k THEN Raises("Too_much_on_the_right")
                                 ELSE fallback(k, t, loop[t.tree1], loop[t.tree0])
      BY <1>9 DEF FindStep
    <2> QED BY <2>1, <2>2, <2>3
  <1> QED BY <1>7, <1>8, <1>9

\* One call of ins, of which g is the recursive ones.
InsertStep(k, x, g, node) ==
  IF node.kind = "Empty" THEN Leaf(k, x)
  ELSE IF node.kind = "Leaf" THEN
    IF node.key = k THEN Leaf(k, x) ELSE join(k, Leaf(k, x), node.key, node)
  ELSE IF mask(k, node.branching_bit) # node.prefix THEN
    join(k, Leaf(k, x), node.prefix, node)
  ELSE IF bit(k, node.branching_bit) = 0
  THEN [node EXCEPT !.tree0 = g[@]] ELSE [node EXCEPT !.tree1 = g[@]]

Inserts(k, x, n, g) == g = [node \in Tree[n] |-> InsertStep(k, x, g, node)]

\* The cases of InsertStep, one by one.
LEMMA InsertStepIs ==
  ASSUME NEW k, NEW x, NEW g, NEW node
  PROVE  /\ node.kind = "Empty" => InsertStep(k, x, g, node) = Leaf(k, x)
         /\ node.kind = "Leaf" => InsertStep(k, x, g, node) =
              IF node.key = k THEN Leaf(k, x) ELSE join(k, Leaf(k, x), node.key, node)
         /\ node.kind = "Branch" => InsertStep(k, x, g, node) =
              IF mask(k, node.branching_bit) # node.prefix THEN join(k, Leaf(k, x), node.prefix, node)
              ELSE IF bit(k, node.branching_bit) = 0
              THEN [node EXCEPT !.tree0 = g[node.tree0]] ELSE [node EXCEPT !.tree1 = g[node.tree1]]
PROOF
  <1>1. CASE node.kind = "Empty" BY <1>1 DEF InsertStep
  <1>2. CASE node.kind = "Leaf" BY <1>2 DEF InsertStep
  <1>3. CASE node.kind = "Branch" BY <1>3 DEF InsertStep
  <1> QED BY <1>1, <1>2, <1>3

LEMMA InsertExists ==
  ASSUME NEW k, NEW x, NEW n \in 0 .. Bits
  PROVE  \E g : Inserts(k, x, n, g)
PROOF
  <1> DEFINE T == {i \in 0 .. Bits : ~ \E g : Inserts(k, x, i, g)}
  <1> SUFFICES ASSUME T # {} PROVE FALSE OBVIOUS
  <1>1. Bits \in Nat BY BitsAssumption
  <1>2. PICK m \in T : \A i \in T : m <= i
    <2>1. T \in SUBSET Nat BY <1>1
    <2> HIDE DEF T
    <2> QED BY <2>1, LeastElement
  <1>3. m \in 0 .. Bits /\ ~ \E g : Inserts(k, x, m, g) OBVIOUS
  <1>4. ASSUME NEW h,
               \A node \in Tree[m] : node.kind = "Branch" =>
                 /\ node.tree0 \in Tree[m] /\ h[node.tree0] = InsertStep(k, x, h, node.tree0)
                 /\ node.tree1 \in Tree[m] /\ h[node.tree1] = InsertStep(k, x, h, node.tree1)
        PROVE  FALSE
    <2> DEFINE g == [node \in Tree[m] |-> InsertStep(k, x, h, node)]
    <2>1. ASSUME NEW node \in Tree[m] PROVE InsertStep(k, x, h, node) = InsertStep(k, x, g, node)
      <3>1. CASE node.kind = "Branch"
        <4>1. g[node.tree0] = h[node.tree0] /\ g[node.tree1] = h[node.tree1] BY <1>4, <3>1
        <4> HIDE DEF g
        <4> QED BY <3>1, <4>1, InsertStepIs
      <3>2. CASE node.kind # "Branch"
        <4> HIDE DEF g
        <4>1. node.kind = "Empty" \/ node.kind = "Leaf" BY <1>3, <3>2, NodeCases, Kinds
        <4> QED BY <4>1, InsertStepIs
      <3> QED BY <3>1, <3>2
    <2>2. g = [node \in Tree[m] |-> InsertStep(k, x, g, node)] BY <2>1, Zenon
    <2> HIDE DEF g
    <2>3. Inserts(k, x, m, g) BY <2>2 DEF Inserts
    <2> QED BY <1>3, <2>3
  <1>5. CASE m = 0
    <2>1. \A node \in Tree[m] : node.kind # "Branch"
      <3>1. \A node \in Tree[m] : node = Empty \/ node \in LeafNode BY <1>3, <1>5, NodeCases
      <3> QED BY <3>1, Kinds
    <2> QED BY <1>4, <2>1
  <1>6. CASE m # 0
    <2>1. m - 1 \in 0 .. Bits /\ m - 1 \notin T /\ m - 1 \in 0 .. m BY <1>1, <1>2, <1>3, <1>6
    <2>2. PICK h : Inserts(k, x, m - 1, h) BY <2>1
    <2>3. \A node \in Tree[m - 1] : h[node] = InsertStep(k, x, h, node) BY <2>2 DEF Inserts
    <2>4. Tree[m - 1] \subseteq Tree[m] BY <1>3, <2>1, TreeGrows
    <2>5. \A node \in Tree[m] : node.kind = "Branch" => node.tree0 \in Tree[m - 1] /\ node.tree1 \in Tree[m - 1]
      BY <1>3, NodeCases, Kinds
    <2> QED BY <1>4, <2>3, <2>4, <2>5
  <1> QED BY <1>5, <1>6

LEMMA InsertIs ==
  ASSUME NEW k, NEW x
  PROVE  /\ insert(k, x, Empty) = Leaf(k, x)
         /\ \A t \in LeafNode :
              insert(k, x, t) = IF t.key = k THEN Leaf(k, x) ELSE join(k, Leaf(k, x), t.key, t)
         /\ \A t \in Trees : t.kind = "Branch" =>
              insert(k, x, t) =
                IF mask(k, t.branching_bit) # t.prefix THEN join(k, Leaf(k, x), t.prefix, t)
                ELSE IF bit(k, t.branching_bit) = 0
                THEN [t EXCEPT !.tree0 = insert(k, x, t.tree0)]
                ELSE [t EXCEPT !.tree1 = insert(k, x, t.tree1)]
PROOF
  <1> DEFINE ins == CHOOSE g : g = [node \in Trees |-> InsertStep(k, x, g, node)]
  <1>1. Bits \in 0 .. Bits /\ Bits \in 1 .. Bits BY BitsAssumption
  <1>2. \E g : g = [node \in Trees |-> InsertStep(k, x, g, node)] BY <1>1, InsertExists DEF Inserts, Trees
  <1>3. ins = [node \in Trees |-> InsertStep(k, x, ins, node)] BY <1>2, Zenon
  <1>4. \A t : insert(k, x, t) = ins[t] BY Zenon DEF insert, InsertStep
  <1> HIDE DEF ins
  <1>5. \A t \in Trees : insert(k, x, t) = InsertStep(k, x, ins, t) BY <1>3, <1>4
  <1>6. Empty \in Trees /\ LeafNode \subseteq Trees BY <1>1, TreeIs DEF Trees
  <1>7. insert(k, x, Empty) = Leaf(k, x) BY <1>5, <1>6, Kinds, InsertStepIs
  <1>8. ASSUME NEW t \in LeafNode
        PROVE  insert(k, x, t) = IF t.key = k THEN Leaf(k, x) ELSE join(k, Leaf(k, x), t.key, t)
    <2>1. t.kind = "Leaf" /\ insert(k, x, t) = InsertStep(k, x, ins, t) BY <1>5, <1>6, Kinds
    <2> QED BY <2>1, InsertStepIs
  <1>9. ASSUME NEW t \in Trees, t.kind = "Branch"
        PROVE  insert(k, x, t) =
                 IF mask(k, t.branching_bit) # t.prefix THEN join(k, Leaf(k, x), t.prefix, t)
                 ELSE IF bit(k, t.branching_bit) = 0
                 THEN [t EXCEPT !.tree0 = insert(k, x, t.tree0)]
                 ELSE [t EXCEPT !.tree1 = insert(k, x, t.tree1)]
    <2>1. insert(k, x, t) = InsertStep(k, x, ins, t) BY <1>5
    <2>2. insert(k, x, t.tree0) = ins[t.tree0] /\ insert(k, x, t.tree1) = ins[t.tree1] BY <1>4
    <2> QED BY <1>9, <2>1, <2>2, InsertStepIs
  <1> QED BY <1>7, <1>8, <1>9

-----------------------------------------------------------------------------
(* What a tree holds.                                                      *)

\* s is a subtree of t: no set that is closed under subtrees has t and not s.
Closed(C) == \A b \in C : b.kind = "Branch" => b.tree0 \in C /\ b.tree1 \in C
Within(s, t) == \A C : Closed(C) /\ t \in C => s \in C

LEMMA WithinBranch ==
  ASSUME NEW t, t.kind = "Branch", NEW s
  PROVE  Within(s, t) <=> s = t \/ Within(s, t.tree0) \/ Within(s, t.tree1)
PROOF
  <1>1. Within(t, t) BY DEF Within
  <1>2. ASSUME Within(s, t.tree0) \/ Within(s, t.tree1) PROVE Within(s, t)
    BY <1>2 DEF Within, Closed
  <1>3. ASSUME Within(s, t), ~Within(s, t.tree0), ~Within(s, t.tree1), s # t PROVE FALSE
    <2>1. PICK A : Closed(A) /\ t.tree0 \in A /\ s \notin A BY <1>3 DEF Within
    <2>2. PICK B : Closed(B) /\ t.tree1 \in B /\ s \notin B BY <1>3 DEF Within
    <2>3. PICK C : C = A \cup B \cup {t} OBVIOUS
    <2>4. Closed(C) BY <2>1, <2>2, <2>3 DEF Closed
    <2>5. t \in C /\ s \notin C BY <1>3, <2>1, <2>2, <2>3
    <2> QED BY <1>3, <2>4, <2>5 DEF Within
  <1> QED BY <1>1, <1>2, <1>3

LEMMA WithinOther ==
  ASSUME NEW t, t.kind # "Branch", NEW s
  PROVE  Within(s, t) <=> s = t
PROOF
  <1>1. Within(t, t) BY DEF Within
  <1>2. ASSUME Within(s, t) PROVE s = t
    <2>1. Closed({t}) BY DEF Closed
    <2>2. s \in {t} BY <1>2, <2>1 DEF Within
    <2> QED BY <2>2
  <1> QED BY <1>1, <1>2

\* t gives the address k the name x.
Has(t, k, x) == Within(Leaf(k, x), t)

LEMMA HasIs ==
  ASSUME NEW k, NEW x
  PROVE  /\ ~Has(Empty, k, x)
         /\ \A i, y : Has(Leaf(i, y), k, x) <=> k = i /\ x = y
         /\ \A t : t.kind = "Branch" => (Has(t, k, x) <=> Has(t.tree0, k, x) \/ Has(t.tree1, k, x))
PROOF
  <1>1. Leaf(k, x).kind = "Leaf" /\ Leaf(k, x).key = k /\ Leaf(k, x).value = x /\ Empty.kind = "Empty" BY Kinds
  <1>2. ~Has(Empty, k, x)
    <2>1. Empty.kind # "Branch" /\ Leaf(k, x) # Empty BY <1>1
    <2> QED BY <2>1, WithinOther DEF Has
  <1>3. ASSUME NEW i, NEW y PROVE Has(Leaf(i, y), k, x) <=> k = i /\ x = y
    <2>1. Leaf(i, y).kind = "Leaf" /\ Leaf(i, y).key = i /\ Leaf(i, y).value = y BY Kinds
    <2>2. Leaf(i, y).kind # "Branch" BY <2>1
    <2>3. Has(Leaf(i, y), k, x) <=> Leaf(k, x) = Leaf(i, y) BY <2>2, WithinOther DEF Has
    <2> QED BY <1>1, <2>1, <2>3
  <1>4. ASSUME NEW t, t.kind = "Branch" PROVE Has(t, k, x) <=> Has(t.tree0, k, x) \/ Has(t.tree1, k, x)
    <2>1. Leaf(k, x) # t BY <1>1, <1>4
    <2> QED BY <1>4, <2>1, WithinBranch DEF Has
  <1> QED BY <1>2, <1>3, <1>4

LEMMA LeafHas ==
  ASSUME NEW c, NEW d, NEW k, NEW x
  PROVE  Has(Leaf(c, d), k, x) <=> k = c /\ x = d
PROOF BY HasIs, Zenon

LEMMA HasType ==
  ASSUME NEW t \in Trees, NEW k, NEW x, Has(t, k, x)
  PROVE  k \in Key /\ x \in STRING
PROOF
  <1>1. Closed(Trees) BY Subtrees DEF Closed
  <1>2. Leaf(k, x) \in Trees BY <1>1 DEF Has, Within
  <1>3. Leaf(k, x).kind = "Leaf" /\ Leaf(k, x).key = k /\ Leaf(k, x).value = x BY Kinds
  <1>4. Bits \in 0 .. Bits BY BitsAssumption
  <1>5. Leaf(k, x) \in LeafNode
    <2>1. Leaf(k, x) # Empty BY <1>3, Kinds
    <2>2. ~(\E S : Leaf(k, x) \in BranchNode(S)) BY <1>3, Kinds
    <2> QED BY <1>2, <1>4, <2>1, <2>2, NodeCases DEF Trees
  <1> QED BY <1>3, <1>5, Kinds

\* The nodes of a Patricia tree: the addresses of both subtrees have the prefix, those
\* of one have a 0 behind it and those of the other a 1.
Node(b, j) ==
  /\ b \in BranchNode(Tree[j]) /\ b.branching_bit = pow2[j]
  /\ mask(b.prefix, pow2[j]) = b.prefix
  /\ b.tree0 # Empty /\ b.tree1 # Empty
  /\ \A k, x : Has(b.tree0, k, x) => mask(k, pow2[j]) = b.prefix /\ bit(k, pow2[j]) = 0
  /\ \A k, x : Has(b.tree1, k, x) => mask(k, pow2[j]) = b.prefix /\ bit(k, pow2[j]) = 1

Patricia(t) == \A b : Within(b, t) /\ b.kind = "Branch" => \E j \in 0 .. Bits - 1 : Node(b, j)

LEMMA PatriciaIs ==
  /\ Patricia(Empty)
  /\ \A t \in LeafNode : Patricia(t)
  /\ \A t : t.kind = "Branch" =>
       (Patricia(t) <=> (\E j \in 0 .. Bits - 1 : Node(t, j)) /\ Patricia(t.tree0) /\ Patricia(t.tree1))
PROOF
  <1>1. ASSUME NEW t, t.kind # "Branch" PROVE Patricia(t) BY <1>1, WithinOther DEF Patricia
  <1>2. Empty.kind # "Branch" /\ \A t \in LeafNode : t.kind # "Branch" BY Kinds
  <1>3. ASSUME NEW t, t.kind = "Branch"
        PROVE  Patricia(t) <=> (\E j \in 0 .. Bits - 1 : Node(t, j)) /\ Patricia(t.tree0) /\ Patricia(t.tree1)
    <2>1. \A b : Within(b, t) <=> b = t \/ Within(b, t.tree0) \/ Within(b, t.tree1) BY <1>3, WithinBranch
    <2> DEFINE Good(b) == \E j \in 0 .. Bits - 1 : Node(b, j)
    <2> HIDE DEF Good
    <2>2. \A u : Patricia(u) <=> \A b : Within(b, u) /\ b.kind = "Branch" => Good(b) BY Zenon DEF Patricia, Good
    <2>3. Patricia(t) <=> Good(t) /\ Patricia(t.tree0) /\ Patricia(t.tree1) BY <1>3, <2>1, <2>2
    <2> QED BY <2>3 DEF Good
  <1> QED BY <1>1, <1>2, <1>3

\* The powers in Masks are those below the width.
LEMMA NodeType ==
  ASSUME NEW j \in 0 .. Bits - 1, NEW b, Node(b, j)
  PROVE  /\ b.kind = "Branch" /\ b.prefix \in Key /\ b.tree0 \in Tree[j] /\ b.tree1 \in Tree[j]
         /\ b \in Tree[j + 1] /\ b \in Trees
         /\ Tree[j] \subseteq Trees /\ j \in 0 .. Bits /\ j + 1 \in 0 .. Bits
PROOF
  <1>1. Bits \in Nat BY BitsAssumption
  <1>2. j \in 0 .. Bits /\ j + 1 \in 1 .. Bits /\ (j + 1) - 1 = j /\ j + 1 \in 0 .. Bits /\ Bits \in 0 .. Bits
    BY <1>1
  <1>3. b \in BranchNode(Tree[j]) BY DEF Node
  <1>4. Tree[j + 1] = {Empty} \cup LeafNode \cup BranchNode(Tree[j]) BY <1>2, TreeIs
  <1>5. Tree[j] \subseteq Trees /\ Tree[j + 1] \subseteq Trees BY <1>2, TreeGrows DEF Trees
  <1> QED BY <1>2, <1>3, <1>4, <1>5, Kinds

\* A tree that is not empty has a leaf.
LEMMA HasSome ==
  ASSUME NEW n \in 0 .. Bits, NEW t \in Tree[n], t # Empty, Patricia(t)
  PROVE  \E k, x : Has(t, k, x)
PROOF
  <1> DEFINE Bad(i) == \E u \in Tree[i] : u # Empty /\ Patricia(u) /\ ~ \E k, x : Has(u, k, x)
             T == {i \in 0 .. Bits : Bad(i)}
  <1> SUFFICES ASSUME T # {} PROVE FALSE OBVIOUS
  <1>1. Bits \in Nat BY BitsAssumption
  <1>2. PICK m \in T : \A i \in T : m <= i
    <2>1. T \in SUBSET Nat BY <1>1
    <2> HIDE DEF T
    <2> QED BY <2>1, LeastElement
  <1>3. m \in 0 .. Bits /\ Bad(m) OBVIOUS
  <1>4. PICK u \in Tree[m] : u # Empty /\ Patricia(u) /\ ~ \E k, x : Has(u, k, x) BY <1>3
  <1>5. CASE u \in LeafNode
    <2>1. u = Leaf(u.key, u.value) BY <1>5, Kinds
    <2>2. Has(Leaf(u.key, u.value), u.key, u.value) BY HasIs
    <2> QED BY <1>4, <2>1, <2>2
  <1>6. CASE m \in 1 .. Bits /\ u \in BranchNode(Tree[m - 1])
    <2>1. u.kind = "Branch" /\ u.tree0 \in Tree[m - 1] BY <1>6, Kinds
    <2>2. Patricia(u.tree0) /\ u.tree0 # Empty
      <3>1. Patricia(u.tree0) /\ \E j \in 0 .. Bits - 1 : Node(u, j) BY <1>4, <2>1, PatriciaIs
      <3> QED BY <3>1 DEF Node
    <2>3. m - 1 \in 0 .. Bits /\ m - 1 \notin T BY <1>1, <1>2, <1>6
    <2>4. ~Bad(m - 1) BY <2>3
    <2>5. \E k, x : Has(u.tree0, k, x)
      <3> HIDE DEF T
      <3> QED BY <2>1, <2>2, <2>4
    <2> QED BY <1>4, <2>1, <2>5, HasIs
  <1> QED BY <1>3, <1>4, <1>5, <1>6, NodeCases

-----------------------------------------------------------------------------
(* find returns the name just below.                                       *)

\* Behind a common prefix a 0 is below a 1.
LEMMA ZeroBelowOne ==
  ASSUME NEW j \in 0 .. Bits - 1, NEW a \in Nat, NEW b \in Nat, mask(a, pow2[j]) = mask(b, pow2[j]),
         bit(a, pow2[j]) = 0, bit(b, pow2[j]) = 1
  PROVE  a < b
PROOF
  <1>1. Block(a, j + 1) = Block(b, j + 1) BY MaskBlock
  <1>2. Block(a, j + 1) \in Nat /\ Block(a, j) = 2 * Block(a, j + 1) + bit(a, pow2[j]) BY BlockStep
  <1>3. Block(b, j) = 2 * Block(b, j + 1) + bit(b, pow2[j]) BY BlockStep
  <1>4. Block(a, j) < Block(b, j) BY <1>1, <1>2, <1>3
  <1>5. j \in 0 .. Bits BY BitsAssumption
  <1>6. pow2[j] \in Nat \ {0} BY <1>5, Powers
  <1> QED BY <1>4, <1>6, QuotientOrder DEF Block

\* All addresses of t are above k, or the name of the highest one that is not is found.
NothingBelow(k, t) ==
  /\ \A i, x : Has(t, i, x) => i > k
  /\ find(k, t) = Raises("Too_much_on_the_right")
JustBelow(k, t) ==
  \E i, x : /\ Has(t, i, x) /\ i <= k /\ find(k, t) = Found(x)
            /\ \A l, y : Has(t, l, y) /\ l <= k => l <= i

\* A branch, when find is right about its subtrees.
LEMMA FindsInBranch ==
  ASSUME NEW k \in Key, NEW j \in 0 .. Bits - 1, NEW t, Node(t, j),
         NothingBelow(k, t.tree0) \/ JustBelow(k, t.tree0),
         NothingBelow(k, t.tree1) \/ JustBelow(k, t.tree1)
  PROVE  NothingBelow(k, t) \/ JustBelow(k, t)
PROOF
  <1>1. /\ t.kind = "Branch" /\ t.prefix \in Key /\ t.tree0 \in Trees /\ t.tree1 \in Trees /\ t \in Trees
    BY NodeType
  <1>2. Key \in SUBSET Nat BY KeysFinite
  <1>3. k \in Nat /\ t.prefix \in Nat BY <1>1, <1>2
  <1>4. \A i, x : Has(t.tree0, i, x) => i \in Nat /\ mask(i, pow2[j]) = t.prefix /\ bit(i, pow2[j]) = 0
    BY <1>1, <1>2, HasType DEF Node
  <1>5. \A i, x : Has(t.tree1, i, x) => i \in Nat /\ mask(i, pow2[j]) = t.prefix /\ bit(i, pow2[j]) = 1
    BY <1>1, <1>2, HasType DEF Node
  <1>6. \A i, x : Has(t, i, x) <=> Has(t.tree0, i, x) \/ Has(t.tree1, i, x) BY <1>1, HasIs
  <1>7. find(k, t) = IF t.prefix > k THEN Raises("Too_much_on_the_right")
                     ELSE fallback(k, t, find(k, t.tree1), find(k, t.tree0))
    BY <1>1, FindIs
  <1>8. CASE t.prefix > k
    <2>1. ASSUME NEW i \in Nat, mask(i, pow2[j]) = t.prefix PROVE i > k
      <3>1. mask(i, pow2[j]) <= i BY BlockMask
      <3> QED BY <1>3, <1>8, <2>1, <3>1
    <2>2. \A i, x : Has(t, i, x) => i > k BY <1>4, <1>5, <1>6, <2>1
    <2> QED BY <1>7, <1>8, <2>2 DEF NothingBelow
  <1>9. CASE ~(t.prefix > k) /\ NothingBelow(k, t.tree1)
    <2>1. find(k, t) = find(k, t.tree0) BY <1>7, <1>9 DEF NothingBelow, fallback
    <2>2. \A i, x : Has(t.tree1, i, x) => i > k /\ i \in Nat BY <1>5, <1>9 DEF NothingBelow
    <2>3. CASE NothingBelow(k, t.tree0)
      BY <1>6, <2>1, <2>2, <2>3 DEF NothingBelow
    <2>4. CASE JustBelow(k, t.tree0)
      <3>1. PICK i, x : /\ Has(t.tree0, i, x) /\ i <= k /\ find(k, t.tree0) = Found(x)
                        /\ \A l, y : Has(t.tree0, l, y) /\ l <= k => l <= i
        BY <2>4 DEF JustBelow
      <3>2. Has(t, i, x) BY <1>6, <3>1
      <3>3. ASSUME NEW l, NEW y, Has(t, l, y), l <= k PROVE l <= i
        <4>1. ~Has(t.tree1, l, y)
          <5> SUFFICES ASSUME Has(t.tree1, l, y) PROVE FALSE OBVIOUS
          <5>1. l > k /\ l \in Nat BY <2>2
          <5> QED BY <1>3, <3>3, <5>1
        <4> QED BY <1>6, <3>1, <3>3, <4>1
      <3> QED BY <2>1, <3>1, <3>2, <3>3 DEF JustBelow
    <2> QED BY <2>3, <2>4
  <1>10. CASE ~(t.prefix > k) /\ JustBelow(k, t.tree1)
    <2>1. PICK i, x : /\ Has(t.tree1, i, x) /\ i <= k /\ find(k, t.tree1) = Found(x)
                      /\ \A l, y : Has(t.tree1, l, y) /\ l <= k => l <= i
      BY <1>10 DEF JustBelow
    <2>2. Found(x) # Raises("Too_much_on_the_right")
      <3>1. Found(x).found = TRUE /\ Raises("Too_much_on_the_right").found = FALSE BY DEF Found, Raises
      <3> QED BY <3>1
    <2>3. find(k, t) = Found(x) BY <1>7, <1>10, <2>1, <2>2 DEF fallback
    <2>4. i \in Nat /\ mask(i, pow2[j]) = t.prefix /\ bit(i, pow2[j]) = 1 BY <1>5, <2>1
    <2>5. ASSUME NEW l, NEW y, Has(t.tree0, l, y) PROVE l <= i
      <3>1. l \in Nat /\ mask(l, pow2[j]) = t.prefix /\ bit(l, pow2[j]) = 0 BY <1>4, <2>5
      <3>2. l < i BY <2>4, <3>1, ZeroBelowOne
      <3> QED BY <2>4, <3>1, <3>2
    <2>6. Has(t, i, x) BY <1>6, <2>1
    <2>7. \A l, y : Has(t, l, y) /\ l <= k => l <= i BY <1>6, <2>1, <2>5
    <2> QED BY <2>1, <2>3, <2>6, <2>7 DEF JustBelow
  <1> QED BY <1>8, <1>9, <1>10

LEMMA FindsBelow ==
  ASSUME NEW k \in Key, NEW n \in 0 .. Bits, NEW t \in Tree[n], t # Empty, Patricia(t)
  PROVE  NothingBelow(k, t) \/ JustBelow(k, t)
PROOF
  <1> DEFINE Bad(i) == \E u \in Tree[i] : u # Empty /\ Patricia(u) /\ ~(NothingBelow(k, u) \/ JustBelow(k, u))
             T == {i \in 0 .. Bits : Bad(i)}
  <1> SUFFICES ASSUME T # {} PROVE FALSE OBVIOUS
  <1>1. Bits \in Nat /\ k \in Nat BY BitsAssumption, KeysFinite
  <1>2. PICK m \in T : \A i \in T : m <= i
    <2>1. T \in SUBSET Nat BY <1>1
    <2> HIDE DEF T
    <2> QED BY <2>1, LeastElement
  <1>3. m \in 0 .. Bits /\ Bad(m) OBVIOUS
  <1>4. PICK u \in Tree[m] : u # Empty /\ Patricia(u) /\ ~(NothingBelow(k, u) \/ JustBelow(k, u)) BY <1>3
  <1>5. CASE u \in LeafNode
    <2>1. u.key \in Nat /\ u = Leaf(u.key, u.value) BY <1>5, Kinds, KeysFinite
    <2>2. \A i, x : Has(u, i, x) <=> i = u.key /\ x = u.value
      <3>1. PICK c, d : c = u.key /\ d = u.value OBVIOUS
      <3>2. u = Leaf(c, d) BY <2>1, <3>1
      <3>3. \A i, x : Has(Leaf(c, d), i, x) <=> i = c /\ x = d BY LeafHas, Zenon
      <3> QED BY <3>1, <3>2, <3>3
    <2>3. find(k, u) = IF u.key > k THEN Raises("Too_much_on_the_right") ELSE Found(u.value) BY <1>5, FindIs
    <2>4. CASE u.key > k
      <3>1. NothingBelow(k, u) BY <2>2, <2>3, <2>4 DEF NothingBelow
      <3> QED BY <1>4, <3>1
    <2>5. CASE ~(u.key > k)
      <3>1. u.key <= k /\ find(k, u) = Found(u.value) /\ Has(u, u.key, u.value) BY <1>1, <2>1, <2>2, <2>3, <2>5
      <3>2. \A l, y : Has(u, l, y) /\ l <= k => l <= u.key BY <2>1, <2>2
      <3>3. JustBelow(k, u) BY <3>1, <3>2 DEF JustBelow
      <3> QED BY <1>4, <3>3
    <2> QED BY <2>4, <2>5
  <1>6. CASE m \in 1 .. Bits /\ u \in BranchNode(Tree[m - 1])
    <2>1. u.kind = "Branch" /\ u.tree0 \in Tree[m - 1] /\ u.tree1 \in Tree[m - 1] BY <1>6, Kinds
    <2>2. PICK j \in 0 .. Bits - 1 : Node(u, j) BY <1>4, <2>1, PatriciaIs
    <2>3. Patricia(u.tree0) /\ u.tree0 # Empty /\ Patricia(u.tree1) /\ u.tree1 # Empty
      <3>1. Patricia(u.tree0) /\ Patricia(u.tree1) BY <1>4, <2>1, PatriciaIs
      <3> QED BY <2>2, <3>1 DEF Node
    <2>4. m - 1 \in 0 .. Bits /\ m - 1 \notin T BY <1>1, <1>2, <1>6
    <2>5. ~Bad(m - 1) BY <2>4
    <2> HIDE DEF T
    <2>6. NothingBelow(k, u.tree0) \/ JustBelow(k, u.tree0) BY <2>1, <2>3, <2>5
    <2>7. NothingBelow(k, u.tree1) \/ JustBelow(k, u.tree1) BY <2>1, <2>3, <2>5
    <2>8. NothingBelow(k, u) \/ JustBelow(k, u) BY <2>2, <2>6, <2>7, FindsInBranch
    <2> QED BY <1>4, <2>8
  <1> QED BY <1>3, <1>4, <1>5, <1>6, NodeCases

-----------------------------------------------------------------------------
(* insert adds one address to a Patricia tree.                             *)

\* Addresses with different bits are in different blocks.
LEMMA SameBit ==
  ASSUME NEW a, NEW b, NEW j, Block(a, j) = Block(b, j)
  PROVE  bit(a, pow2[j]) = bit(b, pow2[j])
PROOF BY DEF Block, bit

\* Two trees below one node.
LEMMA NewNode ==
  ASSUME NEW j \in 0 .. Bits - 1, NEW c \in Key,
         NEW s \in Tree[j], s # Empty, Patricia(s), NEW t \in Tree[j], t # Empty, Patricia(t),
         \A i, x : Has(s, i, x) => Block(i, j + 1) = Block(c, j + 1) /\ bit(i, pow2[j]) = 0,
         \A i, x : Has(t, i, x) => Block(i, j + 1) = Block(c, j + 1) /\ bit(i, pow2[j]) = 1,
         NEW u, u = branch(mask(c, pow2[j]), pow2[j], s, t)
  PROVE  /\ u \in Tree[j + 1] /\ u # Empty /\ Patricia(u)
         /\ \A i, x : Has(u, i, x) <=> Has(s, i, x) \/ Has(t, i, x)
PROOF
  <1>1. Key \in SUBSET Nat /\ Bits \in Nat BY KeysFinite, BitsAssumption
  <1>2. c \in Nat /\ j \in 0 .. Bits BY <1>1
  <1>3. PICK p : p = mask(c, pow2[j]) OBVIOUS
  <1>4. p \in Nat /\ p <= c /\ Block(p, j + 1) = Block(c, j + 1) BY <1>2, <1>3, BlockMask
  <1>5. p \in Key
    <2>1. Bits \in 0 .. Bits BY <1>1
    <2>2. pow2[Bits] \in Nat BY <2>1, Powers
    <2> QED BY <1>4, <2>2 DEF Key
  <1>6. mask(p, pow2[j]) = p BY <1>2, <1>3, <1>4, MaskBlock
  <1>7. pow2[j] \in Masks BY DEF Masks
  <1>8. /\ u.kind = "Branch" /\ u.prefix = p /\ u.branching_bit = pow2[j] /\ u.tree0 = s /\ u.tree1 = t
        /\ u \in BranchNode(Tree[j])
    BY <1>3, <1>5, <1>7 DEF branch, BranchNode
  <1>9. Tree[j] \subseteq Trees
    <2>1. Bits \in 0 .. Bits /\ j \in 0 .. Bits BY <1>1
    <2> QED BY <2>1, TreeGrows DEF Trees
  <1>10. ASSUME NEW i \in Nat, Block(i, j + 1) = Block(c, j + 1) PROVE mask(i, pow2[j]) = p
    BY <1>2, <1>3, <1>10, MaskBlock
  <1>11. \A i, x : Has(s, i, x) => mask(i, pow2[j]) = p /\ bit(i, pow2[j]) = 0
    BY <1>1, <1>9, <1>10, HasType
  <1>12. \A i, x : Has(t, i, x) => mask(i, pow2[j]) = p /\ bit(i, pow2[j]) = 1
    BY <1>1, <1>9, <1>10, HasType
  <1>13. Node(u, j) BY <1>6, <1>8, <1>11, <1>12 DEF Node
  <1>14. Patricia(u) BY <1>8, <1>13, PatriciaIs
  <1>15. u \in Tree[j + 1] BY <1>13, NodeType
  <1>16. u # Empty BY <1>8, Kinds
  <1>17. \A i, x : Has(u, i, x) <=> Has(s, i, x) \/ Has(t, i, x) BY <1>8, HasIs
  <1> QED BY <1>14, <1>15, <1>16, <1>17

\* What insert promises for an address in the block of 2^j that holds the tree.
Insertable(k, t, j) == t \in Tree[j] /\ Patricia(t) /\ \A i, y : Has(t, i, y) => Block(i, j) = Block(k, j)
Holds(u, k, x, t) == \A i, y : Has(u, i, y) <=> (i = k /\ y = x) \/ (i # k /\ Has(t, i, y))
Inserted(u, k, x, t, j) == u \in Tree[j] /\ u # Empty /\ Patricia(u) /\ Holds(u, k, x, t)

\* join puts a new leaf beside a tree whose addresses are in another block than it.
LEMMA JoinInserts ==
  ASSUME NEW k \in Key, NEW x \in STRING, NEW c \in Key, k # c, NEW j \in 0 .. Bits,
         Block(k, j) = Block(c, j), NEW t, t # Empty, Patricia(t), NEW n \in 0 .. Bits, t \in Tree[n],
         n = 0 \/ Block(k, n) # Block(c, n),
         \A i, y : Has(t, i, y) => Block(i, n) = Block(c, n)
  PROVE  Inserted(join(k, Leaf(k, x), c, t), k, x, t, j)
PROOF
  <1>1. Key \in SUBSET Nat /\ Bits \in Nat BY KeysFinite, BitsAssumption
  <1>2. k \in Nat /\ c \in Nat BY <1>1
  <1>3. PICK l \in 0 .. Bits - 1 : /\ branching_bit(k, c) = pow2[l]
                                   /\ bit(k, pow2[l]) # bit(c, pow2[l])
                                   /\ Block(k, l + 1) = Block(c, l + 1)
    BY BranchingBit
  <1>4. l \in 0 .. Bits /\ l + 1 \in 0 .. Bits BY <1>1
  <1>5. Block(k, l) # Block(c, l) BY <1>3, SameBit
  <1>6. l < j
    <2> SUFFICES ASSUME ~(l < j) PROVE FALSE OBVIOUS
    <2>1. l \in j .. Bits BY <1>1, <1>4
    <2> QED BY <1>2, <1>5, <2>1, BlockUp
  <1>7. n <= l
    <2> SUFFICES ASSUME ~(n <= l) PROVE FALSE OBVIOUS
    <2>1. n \in l + 1 .. Bits /\ n # 0 BY <1>1, <1>4
    <2>2. Block(k, n) = Block(c, n) BY <1>2, <1>3, <1>4, <2>1, BlockUp
    <2> QED BY <2>1, <2>2
  <1>8. n \in 0 .. l /\ l \in n .. Bits /\ 0 \in 0 .. l BY <1>1, <1>4, <1>7
  <1>9. t \in Tree[l] /\ Tree[l] \subseteq Trees
    <2>1. Bits \in 0 .. Bits BY <1>1
    <2> QED BY <1>4, <1>8, <2>1, TreeGrows DEF Trees
  <1>10. ASSUME NEW i, NEW y, Has(t, i, y)
         PROVE  i \in Nat /\ Block(i, l) = Block(c, l) /\ Block(i, l + 1) = Block(c, l + 1) /\ i # k
    <2>1. i \in Nat /\ Block(i, n) = Block(c, n) BY <1>1, <1>9, <1>10, HasType
    <2>2. Block(i, l) = Block(c, l) BY <1>2, <1>8, <2>1, BlockUp
    <2>3. l + 1 \in l .. Bits BY <1>1
    <2>4. Block(i, l + 1) = Block(c, l + 1) BY <1>2, <1>4, <2>1, <2>2, <2>3, BlockUp
    <2> QED BY <1>5, <2>1, <2>2, <2>4
  <1>11. PICK s : s = Leaf(k, x) OBVIOUS
  <1>12. /\ s \in Tree[l] /\ s # Empty /\ Patricia(s)
         /\ \A i, y : Has(s, i, y) <=> i = k /\ y = x
    <2>1. s \in LeafNode /\ s.kind = "Leaf" BY <1>11, Kinds
    <2>2. LeafNode \subseteq Tree[0] BY TreeIs
    <2>3. Tree[0] \subseteq Tree[l] BY <1>4, <1>8, TreeGrows
    <2>4. \A i, y : Has(Leaf(k, x), i, y) <=> i = k /\ y = x BY LeafHas, Zenon
    <2>5. s # Empty BY <2>1, Kinds
    <2> QED BY <1>11, <2>1, <2>2, <2>3, <2>4, <2>5, PatriciaIs
  <1>13. \A i, y : Has(t, i, y) => Block(i, l + 1) = Block(c, l + 1) /\ bit(i, pow2[l]) = bit(c, pow2[l])
    BY <1>10, SameBit
  <1>14. \A i, y : Has(s, i, y) => Block(i, l + 1) = Block(c, l + 1) /\ bit(i, pow2[l]) = bit(k, pow2[l])
    BY <1>3, <1>12
  <1>15. mask(k, pow2[l]) = mask(c, pow2[l]) BY <1>2, <1>3, MaskBlock
  <1>16. bit(k, pow2[l]) \in {0, 1} /\ bit(c, pow2[l]) \in {0, 1} BY <1>2, BlockStep
  <1>17. PICK u : u = join(k, s, c, t) OBVIOUS
  <1>18. u = IF bit(k, pow2[l]) = 0 THEN branch(mask(c, pow2[l]), pow2[l], s, t)
             ELSE branch(mask(c, pow2[l]), pow2[l], t, s)
    BY <1>3, <1>15, <1>17 DEF join
  <1>19. /\ u \in Tree[l + 1] /\ u # Empty /\ Patricia(u)
         /\ \A i, y : Has(u, i, y) <=> Has(s, i, y) \/ Has(t, i, y)
    <2>1. CASE bit(k, pow2[l]) = 0
      <3>1. bit(c, pow2[l]) = 1 BY <1>3, <1>16, <2>1
      <3>2. u = branch(mask(c, pow2[l]), pow2[l], s, t) BY <1>18, <2>1
      <3>3. \A i, y : Has(s, i, y) => Block(i, l + 1) = Block(c, l + 1) /\ bit(i, pow2[l]) = 0 BY <1>14, <2>1
      <3>4. \A i, y : Has(t, i, y) => Block(i, l + 1) = Block(c, l + 1) /\ bit(i, pow2[l]) = 1 BY <1>13, <3>1
      <3> QED BY <1>9, <1>12, <3>2, <3>3, <3>4, NewNode
    <2>2. CASE bit(k, pow2[l]) # 0
      <3>1. bit(k, pow2[l]) = 1 /\ bit(c, pow2[l]) = 0 BY <1>3, <1>16, <2>2
      <3>2. u = branch(mask(c, pow2[l]), pow2[l], t, s) BY <1>18, <2>2
      <3>3. \A i, y : Has(s, i, y) => Block(i, l + 1) = Block(c, l + 1) /\ bit(i, pow2[l]) = 1 BY <1>14, <3>1
      <3>4. \A i, y : Has(t, i, y) => Block(i, l + 1) = Block(c, l + 1) /\ bit(i, pow2[l]) = 0 BY <1>13, <3>1
      <3>5. /\ u \in Tree[l + 1] /\ u # Empty /\ Patricia(u)
            /\ \A i, y : Has(u, i, y) <=> Has(t, i, y) \/ Has(s, i, y)
        BY <1>9, <1>12, <3>2, <3>3, <3>4, NewNode
      <3> QED BY <3>5
    <2> QED BY <2>1, <2>2
  <1>20. u \in Tree[j]
    <2>1. l + 1 \in 0 .. j BY <1>1, <1>4, <1>6
    <2>2. Tree[l + 1] \subseteq Tree[j] BY <2>1, TreeGrows
    <2> QED BY <1>19, <2>2
  <1>21. Holds(u, k, x, t) BY <1>10, <1>12, <1>19 DEF Holds
  <1>22. Inserted(u, k, x, t, j) BY <1>19, <1>20, <1>21 DEF Inserted
  <1> QED BY <1>11, <1>17, <1>22

\* A tree whose addresses are in one block of 2^j branches on bits below j only.
LEMMA BranchBelow ==
  ASSUME NEW j \in 0 .. Bits, NEW a, NEW t, t.kind = "Branch", Patricia(t), t \in Trees,
         \A i, y : Has(t, i, y) => Block(i, j) = a, NEW n \in 0 .. Bits - 1, Node(t, n)
  PROVE  n < j
PROOF
  <1> SUFFICES ASSUME ~(n < j) PROVE FALSE OBVIOUS
  <1>1. Bits \in Nat /\ Key \in SUBSET Nat BY BitsAssumption, KeysFinite
  <1>2. n \in 0 .. Bits /\ n \in j .. Bits BY <1>1
  <1>3. t.tree0 \in Tree[n] /\ t.tree1 \in Tree[n] /\ Tree[n] \subseteq Trees BY NodeType
  <1>4. t.tree0 # Empty /\ t.tree1 # Empty BY DEF Node
  <1>5. Patricia(t.tree0) /\ Patricia(t.tree1) BY PatriciaIs
  <1>6. PICK c, d : Has(t.tree0, c, d) BY <1>2, <1>3, <1>4, <1>5, HasSome
  <1>7. PICK e, f : Has(t.tree1, e, f) BY <1>2, <1>3, <1>4, <1>5, HasSome
  <1>8. bit(c, pow2[n]) = 0 /\ bit(e, pow2[n]) = 1 BY <1>6, <1>7 DEF Node
  <1>9. Has(t, c, d) /\ Has(t, e, f) BY <1>6, <1>7, HasIs
  <1>10. c \in Nat /\ e \in Nat BY <1>1, <1>9, HasType
  <1>11. Block(c, j) = Block(e, j) BY <1>9
  <1>12. Block(c, n) = Block(e, n) BY <1>2, <1>10, <1>11, BlockUp
  <1> QED BY <1>8, <1>12, SameBit

\* A branch with the prefix of k, when the subtree on k's side got k.
LEMMA DescentInserts ==
  ASSUME NEW k \in Key, NEW x \in STRING, NEW j \in 0 .. Bits, NEW n \in 0 .. Bits - 1, n < j,
         NEW t, t.kind = "Branch", Node(t, n), Patricia(t), mask(k, pow2[n]) = t.prefix, NEW v, NEW u,
         \/ /\ bit(k, pow2[n]) = 0 /\ Inserted(v, k, x, t.tree0, n)
            /\ u = [t EXCEPT !.tree0 = v]
         \/ /\ bit(k, pow2[n]) = 1 /\ Inserted(v, k, x, t.tree1, n)
            /\ u = [t EXCEPT !.tree1 = v]
  PROVE  Inserted(u, k, x, t, j)
PROOF
  <1>1. Bits \in Nat /\ Key \in SUBSET Nat BY BitsAssumption, KeysFinite
  <1>2. /\ t \in BranchNode(Tree[n]) /\ t.branching_bit = pow2[n] /\ mask(t.prefix, pow2[n]) = t.prefix
        /\ t.tree0 # Empty /\ t.tree1 # Empty
        /\ \A i, y : Has(t.tree0, i, y) => mask(i, pow2[n]) = t.prefix /\ bit(i, pow2[n]) = 0
        /\ \A i, y : Has(t.tree1, i, y) => mask(i, pow2[n]) = t.prefix /\ bit(i, pow2[n]) = 1
    BY DEF Node
  <1>3. Patricia(t.tree0) /\ Patricia(t.tree1) BY PatriciaIs
  <1>4. \A i, y : Has(t, i, y) <=> Has(t.tree0, i, y) \/ Has(t.tree1, i, y) BY HasIs
  <1>5. /\ u \in BranchNode(Tree[n]) /\ u.kind = "Branch" /\ u.branching_bit = pow2[n] /\ u.prefix = t.prefix
        /\ bit(k, pow2[n]) = 0 => u.tree0 = v /\ u.tree1 = t.tree1
        /\ bit(k, pow2[n]) = 1 => u.tree0 = t.tree0 /\ u.tree1 = v
    BY <1>2 DEF Inserted, BranchNode
  <1>6. v # Empty /\ Patricia(v) BY DEF Inserted
  <1>7. /\ bit(k, pow2[n]) = 0 => \A i, y : Has(v, i, y) <=> (i = k /\ y = x) \/ (i # k /\ Has(t.tree0, i, y))
        /\ bit(k, pow2[n]) = 1 => \A i, y : Has(v, i, y) <=> (i = k /\ y = x) \/ (i # k /\ Has(t.tree1, i, y))
    BY DEF Inserted, Holds
  <1>8. bit(k, pow2[n]) \in {0, 1} OBVIOUS
  <1>9. \A i, y : Has(u.tree0, i, y) => mask(i, pow2[n]) = t.prefix /\ bit(i, pow2[n]) = 0
    BY <1>2, <1>5, <1>7, <1>8
  <1>10. \A i, y : Has(u.tree1, i, y) => mask(i, pow2[n]) = t.prefix /\ bit(i, pow2[n]) = 1
    BY <1>2, <1>5, <1>7, <1>8
  <1>11. u.tree0 # Empty /\ u.tree1 # Empty /\ Patricia(u.tree0) /\ Patricia(u.tree1)
    BY <1>2, <1>3, <1>5, <1>6, <1>8
  <1>12. Node(u, n) BY <1>2, <1>5, <1>9, <1>10, <1>11 DEF Node
  <1>13. Patricia(u) BY <1>5, <1>11, <1>12, PatriciaIs
  <1>14. u \in Tree[j] /\ u # Empty
    <2>1. n + 1 \in 0 .. j BY <1>1
    <2>2. u \in Tree[n + 1] /\ Tree[n + 1] \subseteq Tree[j] BY <1>12, <2>1, NodeType, TreeGrows
    <2> QED BY <1>5, <2>2, Kinds
  <1>15. \A i, y : Has(u, i, y) <=> Has(u.tree0, i, y) \/ Has(u.tree1, i, y) BY <1>5, HasIs
  <1>16. Holds(u, k, x, t)
    <2>1. CASE bit(k, pow2[n]) = 0
      <3>1. u.tree0 = v /\ u.tree1 = t.tree1 BY <1>5, <2>1
      <3>2. \A y : ~Has(t.tree1, k, y) BY <1>2, <2>1
      <3>3. \A i, y : Has(v, i, y) <=> (i = k /\ y = x) \/ (i # k /\ Has(t.tree0, i, y)) BY <1>7, <2>1
      <3> QED BY <1>4, <1>15, <3>1, <3>2, <3>3 DEF Holds
    <2>2. CASE bit(k, pow2[n]) = 1
      <3>1. u.tree0 = t.tree0 /\ u.tree1 = v BY <1>5, <2>2
      <3>2. \A y : ~Has(t.tree0, k, y) BY <1>2, <2>2
      <3>3. \A i, y : Has(v, i, y) <=> (i = k /\ y = x) \/ (i # k /\ Has(t.tree1, i, y)) BY <1>7, <2>2
      <3> QED BY <1>4, <1>15, <3>1, <3>2, <3>3 DEF Holds
    <2> QED BY <1>8, <2>1, <2>2
  <1> QED BY <1>13, <1>14, <1>16 DEF Inserted

LEMMA Insertion ==
  ASSUME NEW k \in Key, NEW x \in STRING, NEW j \in 0 .. Bits, NEW t, Insertable(k, t, j)
  PROVE  Inserted(insert(k, x, t), k, x, t, j)
PROOF
  <1> DEFINE Bad(i) == \E w : Insertable(k, w, i) /\ ~Inserted(insert(k, x, w), k, x, w, i)
             T == {i \in 0 .. Bits : Bad(i)}
  <1> SUFFICES ASSUME T # {} PROVE FALSE OBVIOUS
  <1>1. Bits \in Nat /\ Key \in SUBSET Nat BY BitsAssumption, KeysFinite
  <1>2. k \in Nat /\ Bits \in 0 .. Bits /\ 0 \in 0 .. Bits BY <1>1
  <1>3. PICK m \in T : \A i \in T : m <= i
    <2>1. \A i \in 0 .. Bits : i \in Nat OBVIOUS
    <2>2. T \in SUBSET Nat BY <2>1
    <2> HIDE DEF T
    <2> QED BY <2>2, LeastElement
  <1>4. m \in 0 .. Bits /\ Bad(m) OBVIOUS
  <1>5. PICK w : Insertable(k, w, m) /\ ~Inserted(insert(k, x, w), k, x, w, m) BY <1>4
  <1>6. w \in Tree[m] /\ Patricia(w) /\ \A i, y : Has(w, i, y) => Block(i, m) = Block(k, m)
    BY <1>5 DEF Insertable
  <1>7. Tree[m] \subseteq Trees BY <1>1, <1>2, <1>4, TreeGrows DEF Trees
  <1>8. PICK s : s = Leaf(k, x) OBVIOUS
  <1>9. s \in Tree[m] /\ s # Empty /\ Patricia(s) /\ \A i, y : Has(s, i, y) <=> i = k /\ y = x
    <2>1. s \in LeafNode /\ s.kind = "Leaf" BY <1>8, Kinds
    <2>2. LeafNode \subseteq Tree[0] BY TreeIs
    <2>3. Tree[0] \subseteq Tree[m] BY <1>1, <1>4, TreeGrows
    <2>4. \A i, y : Has(Leaf(k, x), i, y) <=> i = k /\ y = x BY LeafHas, Zenon
    <2>5. s # Empty BY <2>1, Kinds
    <2> QED BY <1>8, <2>1, <2>2, <2>3, <2>4, <2>5, PatriciaIs
  <1>10. CASE w = Empty
    <2>1. insert(k, x, w) = s BY <1>8, <1>10, InsertIs
    <2>2. ASSUME NEW i, NEW y PROVE ~Has(w, i, y) BY <1>10, HasIs
    <2>3. Holds(s, k, x, w) BY <1>9, <2>2 DEF Holds
    <2> QED BY <1>5, <1>9, <2>1, <2>3 DEF Inserted
  <1>11. CASE w \in LeafNode
    <2>1. insert(k, x, w) = IF w.key = k THEN Leaf(k, x) ELSE join(k, Leaf(k, x), w.key, w) BY <1>11, InsertIs
    <2>2. w.key \in Key /\ w = Leaf(w.key, w.value) /\ w.kind = "Leaf" /\ Patricia(w) /\ w \in Tree[0]
      BY <1>11, Kinds, PatriciaIs, TreeIs
    <2>3. PICK c, d : c = w.key /\ d = w.value OBVIOUS
    <2>4. w = Leaf(c, d) /\ c \in Key BY <2>2, <2>3
    <2>5. \A i, y : Has(w, i, y) <=> i = c /\ y = d
      <3>1. \A i, y : Has(Leaf(c, d), i, y) <=> i = c /\ y = d BY LeafHas, Zenon
      <3> QED BY <2>4, <3>1
    <2>6. CASE c = k
      <3>1. insert(k, x, w) = s BY <1>8, <2>1, <2>3, <2>6
      <3>2. Holds(s, k, x, w) BY <1>9, <2>5, <2>6 DEF Holds
      <3> QED BY <1>5, <1>9, <3>1, <3>2 DEF Inserted
    <2>7. CASE c # k
      <3>1. insert(k, x, w) = join(k, Leaf(k, x), c, w) BY <2>1, <2>3, <2>7
      <3>2. w # Empty BY <2>2, Kinds
      <3>3. Block(k, m) = Block(c, m) BY <1>6, <2>5
      <3>4. \A i, y : Has(w, i, y) => Block(i, 0) = Block(c, 0) BY <2>5
      <3>5. k # c BY <2>7
      <3>6. Inserted(join(k, Leaf(k, x), c, w), k, x, w, m)
        BY <1>2, <1>4, <2>2, <2>4, <3>2, <3>3, <3>4, <3>5, JoinInserts
      <3> QED BY <1>5, <3>1, <3>6
    <2> QED BY <2>6, <2>7
  <1>12. CASE \E S : w \in BranchNode(S)
    <2>1. w.kind = "Branch" BY <1>12, Kinds
    <2>2. PICK n \in 0 .. Bits - 1 : Node(w, n) BY <1>6, <2>1, PatriciaIs
    <2>3. w \in Trees BY <1>6, <1>7
    <2>4. n < m
      <3>1. PICK a : a = Block(k, m) OBVIOUS
      <3>2. \A i, y : Has(w, i, y) => Block(i, m) = a BY <1>6, <3>1
      <3> QED BY <1>4, <1>6, <2>1, <2>2, <2>3, <3>2, BranchBelow
    <2>5. PICK p : p = w.prefix OBVIOUS
    <2>6. w.branching_bit = pow2[n] /\ mask(p, pow2[n]) = p BY <2>2, <2>5 DEF Node
    <2>7. p \in Key /\ w.tree0 \in Tree[n] /\ w.tree1 \in Tree[n] /\ w \in Tree[n + 1] BY <2>2, <2>5, NodeType
    <2>8. p \in Nat /\ n + 1 \in 0 .. Bits /\ n \in 0 .. Bits BY <1>1, <2>7
    <2>9. ASSUME NEW i, NEW y, Has(w, i, y) PROVE i \in Nat /\ Block(i, n + 1) = Block(p, n + 1)
      <3>1. Has(w.tree0, i, y) \/ Has(w.tree1, i, y) BY <2>1, <2>9, HasIs
      <3>2. mask(i, pow2[n]) = p BY <2>2, <2>5, <3>1 DEF Node
      <3>3. i \in Nat BY <1>1, <2>3, <2>9, HasType
      <3> QED BY <2>6, <2>8, <3>2, <3>3, MaskBlock
    <2>10. insert(k, x, w) =
             IF mask(k, pow2[n]) # p THEN join(k, Leaf(k, x), p, w)
             ELSE IF bit(k, pow2[n]) = 0
             THEN [w EXCEPT !.tree0 = insert(k, x, w.tree0)]
             ELSE [w EXCEPT !.tree1 = insert(k, x, w.tree1)]
      BY <2>1, <2>3, <2>5, <2>6, InsertIs
    <2>11. CASE mask(k, pow2[n]) # p
      <3>1. k # p BY <2>6, <2>11
      <3>2. Block(k, n + 1) # Block(p, n + 1) BY <1>2, <2>6, <2>8, <2>11, MaskBlock
      <3>3. w # Empty BY <2>1, Kinds
      <3>4. Block(k, m) = Block(p, m)
        <4>1. PICK i, y : Has(w, i, y) BY <1>4, <1>6, <3>3, HasSome
        <4>2. Block(i, m) = Block(k, m) /\ i \in Nat /\ Block(i, n + 1) = Block(p, n + 1) BY <1>6, <2>9, <4>1
        <4>3. m \in n + 1 .. Bits BY <1>1, <1>4, <2>4
        <4>4. Block(i, m) = Block(p, m) BY <2>8, <4>2, <4>3, BlockUp
        <4> QED BY <4>2, <4>4
      <3>5. \A i, y : Has(w, i, y) => Block(i, n + 1) = Block(p, n + 1) BY <2>9
      <3>6. Inserted(join(k, Leaf(k, x), p, w), k, x, w, m)
        BY <1>4, <1>6, <2>7, <2>8, <3>1, <3>2, <3>3, <3>4, <3>5, JoinInserts
      <3> QED BY <1>5, <2>10, <2>11, <3>6
    <2>12. CASE mask(k, pow2[n]) = p
      <3>1. Block(k, n + 1) = Block(p, n + 1) BY <1>2, <2>6, <2>8, <2>12, MaskBlock
      <3>2. bit(k, pow2[n]) \in {0, 1} BY <1>2, BlockStep
      <3>3. n \in 0 .. Bits /\ n \notin T
        <4>1. ~(m <= n) BY <1>4, <2>4
        <4> HIDE DEF T
        <4> QED BY <1>3, <2>8, <4>1
      <3>4. ~Bad(n) BY <3>3
      <3> HIDE DEF T
      <3>5. Patricia(w.tree0) /\ Patricia(w.tree1) BY <1>6, <2>1, PatriciaIs
      <3>6. ASSUME NEW i, i \in Nat, Block(i, n + 1) = Block(p, n + 1), bit(i, pow2[n]) = bit(k, pow2[n])
            PROVE  Block(i, n) = Block(k, n)
        <4>1. Block(i, n) = 2 * Block(i, n + 1) + bit(i, pow2[n]) BY <3>6, BlockStep
        <4>2. Block(k, n) = 2 * Block(k, n + 1) + bit(k, pow2[n]) BY <1>2, BlockStep
        <4> QED BY <3>1, <3>6, <4>1, <4>2
      <3>7. CASE bit(k, pow2[n]) = 0
        <4>1. PICK v : v = insert(k, x, w.tree0) OBVIOUS
        <4>2. PICK u : u = insert(k, x, w) OBVIOUS
        <4>3. u = [w EXCEPT !.tree0 = v] BY <2>10, <2>12, <3>7, <4>1, <4>2
        <4>4. ASSUME NEW i, NEW y, Has(w.tree0, i, y) PROVE Block(i, n) = Block(k, n)
          <5>1. Has(w, i, y) BY <2>1, <4>4, HasIs
          <5>2. bit(i, pow2[n]) = 0 BY <2>2, <4>4 DEF Node
          <5> QED BY <2>9, <3>6, <3>7, <5>1, <5>2
        <4>5. Insertable(k, w.tree0, n) BY <2>7, <3>5, <4>4 DEF Insertable
        <4>6. Inserted(v, k, x, w.tree0, n) BY <3>4, <4>1, <4>5
        <4>7. Inserted(u, k, x, w, m)
          BY <1>4, <1>6, <2>1, <2>2, <2>4, <2>5, <2>12, <3>7, <4>3, <4>6, DescentInserts
        <4> QED BY <1>5, <4>2, <4>7
      <3>8. CASE bit(k, pow2[n]) = 1
        <4>1. PICK v : v = insert(k, x, w.tree1) OBVIOUS
        <4>2. PICK u : u = insert(k, x, w) OBVIOUS
        <4>3. u = [w EXCEPT !.tree1 = v] BY <2>10, <2>12, <3>8, <4>1, <4>2
        <4>4. ASSUME NEW i, NEW y, Has(w.tree1, i, y) PROVE Block(i, n) = Block(k, n)
          <5>1. Has(w, i, y) BY <2>1, <4>4, HasIs
          <5>2. bit(i, pow2[n]) = 1 BY <2>2, <4>4 DEF Node
          <5> QED BY <2>9, <3>6, <3>8, <5>1, <5>2
        <4>5. Insertable(k, w.tree1, n) BY <2>7, <3>5, <4>4 DEF Insertable
        <4>6. Inserted(v, k, x, w.tree1, n) BY <3>4, <4>1, <4>5
        <4>7. Inserted(u, k, x, w, m)
          BY <1>4, <1>6, <2>1, <2>2, <2>4, <2>5, <2>12, <3>8, <4>3, <4>6, DescentInserts
        <4> QED BY <1>5, <4>2, <4>7
      <3> QED BY <3>2, <3>7, <3>8
    <2> QED BY <2>11, <2>12
  <1>13. w = Empty \/ w \in LeafNode \/ \E S : w \in BranchNode(S) BY <1>4, <1>6, NodeCases
  <1> QED BY <1>10, <1>11, <1>12, <1>13

\* The whole table: every address is in the block of 2^Bits.
LEMMA TableInsertion ==
  ASSUME NEW k \in Key, NEW x \in STRING, NEW t \in Trees, Patricia(t)
  PROVE  /\ insert(k, x, t) \in Trees /\ Patricia(insert(k, x, t))
         /\ \A i, y : Has(insert(k, x, t), i, y) <=> (i = k /\ y = x) \/ (i # k /\ Has(t, i, y))
PROOF
  <1>1. Bits \in 0 .. Bits BY BitsAssumption
  <1>2. \A i, y : Has(t, i, y) => Block(i, Bits) = Block(k, Bits) BY HasType, BlockEnds
  <1>3. Insertable(k, t, Bits) BY <1>2 DEF Insertable, Trees
  <1>4. Inserted(insert(k, x, t), k, x, t, Bits) BY <1>1, <1>3, Insertion
  <1> QED BY <1>4 DEF Inserted, Holds, Trees

-----------------------------------------------------------------------------
(* The symbol table.                                                       *)

\* The tree t holds the names that f gives to addresses.
Tabulates(t, f) ==
  /\ t \in Trees /\ Patricia(t) /\ DOMAIN f \subseteq Key
  /\ \A k, x : Has(t, k, x) <=> k \in DOMAIN f /\ f[k] = x

TableInv == program \in Programs /\ unread \subseteq Key \X STRING /\ Tabulates(symtable, symbols)

\* g is f with x for k.
Updates(g, f, k, x) ==
  DOMAIN g = DOMAIN f \cup {k} /\ \A a \in DOMAIN g : g[a] = IF a = k THEN x ELSE f[a]

LEMMA InsertTabulates ==
  ASSUME NEW t, NEW f, Tabulates(t, f), NEW k \in Key, NEW x \in STRING, NEW u, u = insert(k, x, t),
         NEW g, Updates(g, f, k, x)
  PROVE  Tabulates(u, g)
PROOF
  <1>1. t \in Trees /\ Patricia(t) /\ DOMAIN f \subseteq Key
        /\ \A i, y : Has(t, i, y) <=> i \in DOMAIN f /\ f[i] = y
    BY DEF Tabulates
  <1>2. u \in Trees /\ Patricia(u) /\ \A i, y : Has(u, i, y) <=> (i = k /\ y = x) \/ (i # k /\ Has(t, i, y))
    BY <1>1, TableInsertion
  <1>3. DOMAIN g = DOMAIN f \cup {k} BY DEF Updates
  <1>4. \A i \in DOMAIN g : g[i] = IF i = k THEN x ELSE f[i] BY DEF Updates
  <1>5. ASSUME NEW i, NEW y PROVE Has(u, i, y) <=> i \in DOMAIN g /\ g[i] = y
    <2>1. Has(u, i, y) <=> (i = k /\ y = x) \/ (i # k /\ i \in DOMAIN f /\ f[i] = y) BY <1>1, <1>2
    <2> QED BY <1>3, <1>4, <2>1
  <1> QED BY <1>1, <1>2, <1>3, <1>5 DEF Tabulates

\* After the initialisation the table stays.
LEMMA TableSteps ==
  ASSUME SearchInv, [Next]_vars
  PROVE  (\E s \in unread : init_symbol(s)) \/ UNCHANGED table
PROOF
  <1> DEFINE Goal == (\E s \in unread : init_symbol(s)) \/ UNCHANGED table
  <1>1. CASE UNCHANGED vars BY <1>1 DEF vars, recorder
  <1>2. CASE Next
    <2>1. ASSUME NEW CONSTANT dst, NEW CONSTANT w, NEW CONSTANT rest, Searches(dst, w, rest) PROVE Goal
      <3>1. analyze_address(dst, w, rest) BY <2>1 DEF Searches
      <3>2. Records(w[1], dst) BY <3>1, AnalyzeRecords DEF SearchInv, Types
      <3> QED BY <3>2 DEF Records
    <2>2. ASSUME NEW CONSTANT dst, NEW CONSTANT rest, Skips(dst, rest) PROVE Goal
      BY <2>2 DEF Skips, recorder
    <2>3. ASSUME NEW CONSTANT v \in nodes, analyze_source(v) PROVE Goal
      BY <2>3 DEF analyze_source, recorder
    <2>4. ASSUME NEW CONSTANT v \in nodes, analyze_end(v) PROVE Goal
      BY <2>4 DEF analyze_end, recorder
    <2>5. CASE end_fork \/ begin_round \/ end_successors \/ end_round
      BY <2>5 DEF end_fork, begin_round, end_successors, end_round, recorder
    <2>6. ASSUME NEW CONSTANT v \in nodes, except_thrown(v) PROVE Goal
      BY <2>6 DEF except_thrown, recorder
    <2> QED BY <1>2, <2>1, <2>2, <2>3, <2>4, <2>5, <2>6, Steps, Zenon
  <1> QED BY <1>1, <1>2

LEMMA TableInvInit == Init => TableInv
PROOF
  <1> SUFFICES ASSUME Init PROVE TableInv OBVIOUS
  <1>1. program \in Programs /\ unread = program.symbols /\ symtable = Empty /\ symbols = <<>> BY DEF Init
  <1>2. unread \subseteq Key \X STRING BY <1>1, ProgramsAssumption
  <1>3. Empty \in Trees
    <2>1. Bits \in 1 .. Bits BY BitsAssumption
    <2> QED BY <2>1, TreeIs DEF Trees
  <1>4. DOMAIN <<>> = {} OBVIOUS
  <1>5. \A k, x : ~Has(Empty, k, x) BY HasIs
  <1>6. Tabulates(Empty, <<>>) BY <1>3, <1>4, <1>5, PatriciaIs DEF Tabulates
  <1> QED BY <1>1, <1>2, <1>6 DEF TableInv

LEMMA TableInvNext ==
  ASSUME SearchInv, TableInv, [Next]_vars
  PROVE  TableInv'
PROOF
  <1>1. CASE UNCHANGED table BY <1>1 DEF TableInv, Tabulates, table
  <1>2. ASSUME NEW CONSTANT s \in unread, init_symbol(s) PROVE TableInv'
    <2>1. /\ symtable' = insert(s[1], s[2], symtable) /\ unread' = unread \ {s} /\ program' = program
          /\ symbols' = [a \in DOMAIN symbols \cup {s[1]} |-> IF a = s[1] THEN s[2] ELSE symbols[a]]
      BY <1>2 DEF init_symbol
    <2>2. program \in Programs /\ unread \subseteq Key \X STRING /\ Tabulates(symtable, symbols) BY DEF TableInv
    <2>3. s[1] \in Key /\ s[2] \in STRING BY <2>2
    <2>4. PICK t, f, k, x : t = symtable /\ f = symbols /\ k = s[1] /\ x = s[2] OBVIOUS
    <2>5. Tabulates(t, f) /\ k \in Key /\ x \in STRING BY <2>2, <2>3, <2>4
    <2>6. PICK u, g : u = symtable' /\ g = symbols' OBVIOUS
    <2>7. u = insert(k, x, t) /\ Updates(g, f, k, x) BY <2>1, <2>4, <2>6 DEF Updates
    <2>8. Tabulates(u, g) BY <2>5, <2>7, InsertTabulates
    <2>9. Tabulates(symtable', symbols') BY <2>6, <2>8
    <2> QED BY <2>1, <2>2, <2>9 DEF TableInv
  <1> QED BY <1>1, <1>2, TableSteps

\* The highest address that is not above k.
LEMMA HighestBelow ==
  ASSUME NEW k \in Key, NEW t, t # Empty, NEW f, Tabulates(t, f), NEW below,
         below = {j \in DOMAIN f : j <= k}
  PROVE  /\ find(k, t).found <=> below # {}
         /\ below # {} => find(k, t).value = f[Max(below)]
PROOF
  <1>1. t \in Trees /\ Patricia(t) /\ DOMAIN f \subseteq Key
        /\ \A i, y : Has(t, i, y) <=> i \in DOMAIN f /\ f[i] = y
    BY DEF Tabulates
  <1>2. Key \in SUBSET Nat /\ k \in Nat BY KeysFinite
  <1>3. NothingBelow(k, t) \/ JustBelow(k, t)
    <2>1. Bits \in 0 .. Bits BY BitsAssumption
    <2> QED BY <1>1, <2>1, FindsBelow DEF Trees
  <1>4. CASE NothingBelow(k, t)
    <2>1. find(k, t).found = FALSE BY <1>4 DEF NothingBelow, Raises
    <2>2. below = {}
      <3> SUFFICES ASSUME NEW j \in below PROVE FALSE OBVIOUS
      <3>1. j \in DOMAIN f /\ j <= k BY <1>2
      <3>2. Has(t, j, f[j]) BY <1>1, <3>1
      <3>3. j > k BY <1>4, <3>2 DEF NothingBelow
      <3>4. j \in Nat BY <1>1, <1>2, <3>1
      <3> QED BY <1>2, <3>1, <3>3, <3>4
    <2> QED BY <2>1, <2>2
  <1>5. CASE JustBelow(k, t)
    <2>1. PICK i, x : /\ Has(t, i, x) /\ i <= k /\ find(k, t) = Found(x)
                      /\ \A l, y : Has(t, l, y) /\ l <= k => l <= i
      BY <1>5 DEF JustBelow
    <2>2. find(k, t).found = TRUE /\ find(k, t).value = x BY <2>1 DEF Found
    <2>3. i \in DOMAIN f /\ f[i] = x /\ i \in below BY <1>1, <2>1
    <2>4. \A l \in below : l <= i /\ l \in Nat
      <3>1. \A l \in below : l \in DOMAIN f /\ l <= k OBVIOUS
      <3>2. \A l \in below : Has(t, l, f[l]) BY <1>1, <3>1
      <3> QED BY <1>1, <1>2, <2>1, <3>1, <3>2
    <2>5. Max(below) = i
      <3> DEFINE Top(l) == l \in below /\ \A y \in below : l >= y
      <3>1. Top(i) BY <2>3, <2>4
      <3>2. \A l : Top(l) => l = i BY <2>3, <2>4
      <3>3. Max(below) = CHOOSE l : Top(l) BY DEF Max
      <3> HIDE DEF Top
      <3>4. Top(CHOOSE l : Top(l)) BY <3>1, Zenon
      <3> QED BY <3>2, <3>3, <3>4
    <2> QED BY <2>2, <2>3, <2>5
  <1> QED BY <1>3, <1>4, <1>5

\* While the table is built and after it, find gives the name last inserted for the
\* highest address that is not above the one asked for, and raises when there is none
\* (interval2symbol.ml, insert and find), for every width of addresses and every list
\* of symbols in every order.
THEOREM FindsJustBelowCorrect == Spec => []FindsJustBelow
PROOF
  <1>1. TableInv => FindsJustBelow
    <2> SUFFICES ASSUME TableInv, NEW CONSTANT k \in Key
                 PROVE  LET below == {j \in DOMAIN symbols : j <= k}
                            r == find(k, symtable)
                        IN (r.found <=> below # {}) /\ (below # {} => r.value = symbols[Max(below)])
      BY DEF FindsJustBelow
    <2>1. PICK below : below = {j \in DOMAIN symbols : j <= k} OBVIOUS
    <2>2. Tabulates(symtable, symbols) BY DEF TableInv
    <2>3. CASE symtable = Empty
      <3>1. find(k, symtable).found = FALSE BY <2>3, FindIs DEF Raises
      <3>2. ASSUME NEW i PROVE i \notin DOMAIN symbols
        <4>1. ~Has(symtable, i, symbols[i]) BY <2>3, HasIs
        <4> QED BY <2>2, <4>1 DEF Tabulates
      <3>3. below = {} BY <2>1, <3>2
      <3> QED BY <2>1, <3>1, <3>3
    <2>4. CASE symtable # Empty
      <3>1. /\ find(k, symtable).found <=> below # {}
            /\ below # {} => find(k, symtable).value = symbols[Max(below)]
        BY <2>1, <2>2, <2>4, HighestBelow
      <3> QED BY <2>1, <3>1, Zenon
    <2> QED BY <2>3, <2>4
  <1>2. Init => TableInv BY TableInvInit
  <1>3. SearchInv /\ TableInv /\ [Next]_vars => TableInv' BY TableInvNext
  <1> QED BY <1>1, <1>2, <1>3, SearchInvCorrect, PTL DEF Spec
=============================================================================
