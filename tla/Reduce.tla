------------------------------ MODULE Reduce ------------------------------
(***************************************************************************)
(* Codex's path expressions (binsec/src/codex/reduce.ml over regex.ml):    *)
(* for every vertex a regular expression over the edges that is to denote  *)
(* the paths from the entry.  The analysis evaluates nothing but these     *)
(* expressions, so a path that they miss is a path it never looks at.      *)
(* A regular expression is modelled by what it denotes, cut at the words   *)
(* of MaxLength edges.                                                     *)
(***************************************************************************)
EXTENDS Wto

CONSTANT MaxLength    \* bound: the edges of a word

ASSUME MaxLengthAssumption == MaxLength \in Nat

VARIABLE exprs        \* the `state' hash table, vertex to expression

vars == <<graph, init, pref, wto, failed, exprs>>

-----------------------------------------------------------------------------
(* regex.ml: smart constructors keep Empty out of every other expression,  *)
(* so an expression is Empty when and only when it denotes no word.  join  *)
(* is union.                                                               *)

empty == {}
epsilon == {<<>>}
append(r, e) == {Append(w, e) : w \in {w \in r : Len(w) < MaxLength}}

\* One more round of the loop x behind the words of r.
rounds(r, x) ==
  r \cup {w \o z : <<w, z>> \in {p \in r \X x : Len(p[1]) + Len(p[2]) <= MaxLength}}

append_star(r, x) == FoldLeft(LAMBDA acc, k : rounds(acc, x), r, [k \in 1 .. MaxLength |-> k])

-----------------------------------------------------------------------------
(* The hash tables, in a record: expr (state), loops, and nodes, the keys  *)
(* of heads.  After an exception nothing runs any more.                    *)

\* Fault: the head of a component is not in it (heads in place of heads').
in_component_body(l, h) ==
  UNION {Members(c) \ {h} : c \in {c \in Components(l) : c.head = h}}

\* in_component, as the set of the vertices for which it holds.
in_component(l, h) == UNION {Members(c) : c \in {c \in Components(l) : c.head = h}}

\* Fault: every vertex may be the start of a path.
initial_anywhere(add_epsilon) == epsilon

initial(add_epsilon) == IF add_epsilon THEN epsilon ELSE empty

\* A predecessor that the partition lacks raises: in in_component, or where its
\* expression is looked up.
update(g, s, is_head, add_epsilon, within, v) ==
  LET preds    == {u \in within : <<u, v>> \in g}
      entering == initial(add_epsilon)
                    \cup UNION {append(s.expr[u], <<u, v>>) : u \in preds}
  IN IF \/ s.failed
        \/ ~(preds \subseteq DOMAIN s.expr)
        \/ is_head /\ v \notin DOMAIN s.loops
        \/ \E u \in Vertices \ s.nodes : <<u, v>> \in g
     THEN [s EXCEPT !.failed = TRUE]
     ELSE [s EXCEPT !.expr = Put(@, v, IF is_head THEN append_star(entering, s.loops[v])
                                       ELSE entering)]

\* Wto_utils.iter: the heads of components are updated as heads.
RECURSIVE update_all(_, _, _, _)
update_all(g, s, within, l) ==
  FoldLeft(LAMBDA acc, c :
             update_all(g, update(g, acc, c.loops, FALSE, within, c.head), within, c.body),
           s, l)

\* Fault: the vertices behind the head keep the paths of the first pass.
second_pass_skipped(g, s, within, body) == s

second_pass(g, s, within, body) == update_all(g, s, within, body)

RECURSIVE stabilize(_, _, _, _, _, _)
stabilize(g, s, within, add_epsilon, head, body) ==
  LET first == FoldLeft(LAMBDA acc, c :
                          IF c.loops
                          THEN stabilize(g, acc, within, add_epsilon, c.head, c.body)
                          ELSE update(g, acc, FALSE, FALSE, within, c.head),
                        [s EXCEPT !.expr = Put(@, head, empty)], body)
  IN second_pass(g, update(g, first, TRUE, add_epsilon, within, head), within, body)

RECURSIVE propagate(_, _, _, _, _)

\* compute_self_loop: the paths from the head back to it inside of its component.
compute_self_loop(g, s, all, head, body) ==
  LET within == in_component(all, head)
      sub  == propagate(g, [s EXCEPT !.expr = <<>>], all, within, <<Node(head)>> \o body)
      back == update(g, sub, FALSE, FALSE, within, head)
  IN [expr |-> s.expr, nodes |-> s.nodes, failed |-> back.failed,
      loops |-> IF back.failed \/ back.expr[head] = empty THEN back.loops
                ELSE Put(back.loops, head, back.expr[head])]

\* propagate: `all' is the decorated partition, l the one it walks.
propagate(g, s, all, within, l) ==
  LET component(acc, c, add_epsilon) ==
        stabilize(g, compute_self_loop(g, acc, all, c.head, c.body),
                  within, add_epsilon, c.head, c.body)
      entry == IF l[1].loops THEN component(s, l[1], TRUE)
               ELSE [s EXCEPT !.expr = Put(@, l[1].head, epsilon)]
  IN FoldLeft(LAMBDA acc, c : IF c.loops THEN component(acc, c, FALSE)
                              ELSE update(g, acc, FALSE, FALSE, within, c.head),
              entry, Tail(l))

-----------------------------------------------------------------------------
Init == WtoInit /\ exprs = <<>>

\* The graph must not have self loops, and both callers have partition run without
\* preference.
compute_exprs ==
  /\ wto # <<>> /\ ~failed /\ exprs = <<>>
  /\ \A v \in Vertices : <<v, v>> \notin graph /\ pref[v] = 0
  /\ LET s == propagate(graph, [expr |-> <<>>, loops |-> <<>>, failed |-> FALSE,
                                nodes |-> ToSet(flatten(wto))],
                        wto, Vertices, wto)
     IN exprs' = s.expr /\ failed' = s.failed
  /\ UNCHANGED <<graph, init, pref, wto>>

Next ==
  \/ \E e \in Edges : add_edge(e) /\ UNCHANGED exprs
  \/ partition /\ UNCHANGED exprs
  \/ compute_exprs

Spec == Init /\ [][Next]_vars

-----------------------------------------------------------------------------
(* The paths of the graph, which the expressions are compared with.        *)

RECURSIVE PathsOf(_, _)
\* The paths of n edges at most from v, as words of edges.
PathsOf(v, n) ==
  epsilon \cup
  (IF n = 0 THEN {}
   ELSE UNION {{<<e>> \o w : w \in PathsOf(e[2], n - 1)} : e \in {e \in graph : e[1] = v}})

Paths(u, v) == {w \in PathsOf(u, MaxLength) : (IF w = <<>> THEN u ELSE Last(w)[2]) = v}
PathsTo(v) == Paths(init, v)

Computed == exprs # <<>> /\ ~failed

\* The components inside of other components, and those that edges enter only
\* through their heads.
Nested == UNION {Components(c.body) : c \in Components(wto)}
EnteredByHead(c) ==
  \A e \in graph : e[2] \in Members(c) \ {c.head} => e[1] \in Members(c)

\* Every path of the program to a vertex is denoted by the vertex's expression
\* (propagate: "the state of each node expresses all paths").
ExpressesAllPaths == Computed => \A v \in Reachable : PathsTo(v) \subseteq exprs[v]

\* No path is missed when nested loops are entered at their heads only: one pass
\* over the body is then enough behind the update of the head (stabilize).
NestedLoopsExpressed == (\A c \in Nested : EnteredByHead(c)) => ExpressesAllPaths

\* No word is made up: an expression denotes nothing but paths to its vertex, which
\* begin at the entry or, when the entry is in a loop with loops inside, at one of
\* their heads, to which stabilize hands add_epsilon down (reduce.ml:111).
EntryPathsOnly ==
  Computed =>
    LET starts == {init} \cup {c.head : c \in Components(wto[1].body)}
    IN  \A v \in Reachable : exprs[v] \subseteq UNION {Paths(u, v) : u \in starts}

\* The assertions of partition hold: the second visit of a loop meets no loop
\* through its head.  A look-up of propagate finds nothing exactly when a vertex
\* that the entry does not reach has an edge to one whose predecessors it looks up.
FailsOnUnreachable ==
  failed <=> /\ exprs # <<>>
             /\ \E e \in graph : /\ e[1] \notin Reachable /\ e[2] \in Reachable
                                 /\ (e[2] # init \/ wto[1].loops)
=============================================================================
