-------------------------- MODULE Interval2symbol --------------------------
(***************************************************************************)
(* Codex's symbol table (binsec/src/codex/interval2symbol.ml): a big       *)
(* endian Patricia tree in which find returns the symbol with the highest  *)
(* address that is not above the one asked for.  RecordCfg keeps such a    *)
(* tree, and tells calls from returns by its answers.                      *)
(***************************************************************************)
EXTENDS Integers, FiniteSets

CONSTANT Bits   \* width of an address

ASSUME BitsAssumption == Bits \in Nat \ {0}

pow2[k \in 0 .. Bits] == IF k = 0 THEN 1 ELSE 2 * pow2[k - 1]

Key == 0 .. pow2[Bits] - 1
Masks == {pow2[k] : k \in 0 .. Bits - 1}

bit(i, m) == (i \div m) % 2

\* highest_bit(a lxor b)
branching_bit(a, b) ==
  CHOOSE m \in Masks : /\ bit(a, m) # bit(b, m)
                       /\ \A n \in Masks : n > m => bit(a, n) = bit(b, n)

mask(i, m) == i - (i % (2 * m))

Empty == [kind |-> "Empty"]
Leaf(k, x) == [kind |-> "Leaf", key |-> k, value |-> x]
branch(p, m, t0, t1) ==
  [kind |-> "Branch", prefix |-> p, branching_bit |-> m, tree0 |-> t0, tree1 |-> t1]

\* type t: the trees of height n or less.  A path of the tree tests every bit of an
\* address at most once.
Tree[n \in 0 .. Bits] ==
  {Empty} \cup [kind : {"Leaf"}, key : Key, value : STRING]
    \cup IF n = 0 THEN {}
         ELSE [kind : {"Branch"}, prefix : Key, branching_bit : Masks,
               tree0 : Tree[n - 1], tree1 : Tree[n - 1]]
Trees == Tree[Bits]

join(pa, ta, pb, tb) ==
  LET m == branching_bit(pa, pb)
  IN IF bit(pa, m) = 0 THEN branch(mask(pa, m), m, ta, tb) ELSE branch(mask(pa, m), m, tb, ta)

\* A name given again for a key replaces the old one (the merge of Record_cfg.init).
insert(k, x, t) ==
  LET ins[node \in Trees] ==
        IF node.kind = "Empty" THEN Leaf(k, x)
        ELSE IF node.kind = "Leaf" THEN
          IF node.key = k THEN Leaf(k, x) ELSE join(k, Leaf(k, x), node.key, node)
        ELSE IF mask(k, node.branching_bit) # node.prefix THEN
          join(k, Leaf(k, x), node.prefix, node)
        ELSE IF bit(k, node.branching_bit) = 0
        THEN [node EXCEPT !.tree0 = ins[@]] ELSE [node EXCEPT !.tree1 = ins[@]]
  IN  ins[t]

\* What a search ends with: a name, or one of two exceptions.
Found(x) == [found |-> TRUE, value |-> x]
Raises(e) == [found |-> FALSE, value |-> e]

\* Fault: the lower half is tried only when the key lies in it.
fallback_by_bit(k, t, right, left) ==
  IF right.found \/ bit(k, t.branching_bit) = 1 THEN right ELSE left

\* try loop tree1 with Too_much_on_the_right -> loop tree0
fallback(k, t, right, left) ==
  IF right = Raises("Too_much_on_the_right") THEN left ELSE right

find(k, t) ==
  LET loop[node \in Trees] ==
        IF node.kind = "Empty" THEN Raises("Not_found")
        ELSE IF node.kind = "Leaf" THEN
          IF node.key > k THEN Raises("Too_much_on_the_right") ELSE Found(node.value)
        ELSE IF node.prefix > k THEN Raises("Too_much_on_the_right")
        ELSE fallback(k, node, loop[node.tree1], loop[node.tree0])
  IN  loop[t]
=============================================================================
