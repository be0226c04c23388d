-------------------------------- MODULE Wto --------------------------------
(***************************************************************************)
(* Codex's weak topological orders (binsec/src/codex/wto.ml): Bourdoncle's *)
(* algorithm over the graph of an analysed program.  The graph is built    *)
(* edge by edge, as graph_of_dhunk and Record_cfg build theirs, and        *)
(* partition then runs as one step on the hash table and the stack of its  *)
(* `state' record.  Recursion over the graph keeps this module with TLC.   *)
(***************************************************************************)
EXTENDS Integers, SequencesExt

CONSTANTS
  Vertices,   \* the vertices, numbered: a graph lists them in that order
  Edges,      \* the edges that a graph may have
  Prefs,      \* the head preferences: a rank for every vertex
  MaxEdges    \* bound: the edges of one graph

ASSUME VerticesAssumption == Vertices \subseteq Nat \ {0}
ASSUME EdgesAssumption == Edges \subseteq Vertices \X Vertices
ASSUME PrefsAssumption == Prefs \subseteq [Vertices -> Nat]
ASSUME MaxEdgesAssumption == MaxEdges \in Nat

VARIABLES
  graph,    \* set of edges
  init,     \* the entry
  pref,     \* the rank that pref compares by
  wto,      \* the partition, or <<>> before it is computed
  failed    \* an assertion has failed or a look-up has found nothing

wtoVars == <<graph, init, pref, wto, failed>>

\* type component: the flag tells Component(head, body) from Node(head).
Component(h, l) == [head |-> h, loops |-> TRUE, body |-> l]
Node(n) == [head |-> n, loops |-> FALSE, body |-> <<>>]

\* G.succ: ocamlgraph conses the set of successors into a list, highest first.
succs(g, v) ==
  SetToSortSeq({w \in Vertices : <<v, w>> \in g}, LAMBDA a, b : a > b)

-----------------------------------------------------------------------------
(* The result of a visit, and the status of a vertex (type status).        *)

Invisible == 0
NoLoop == [head |-> 0, level |-> 0]
Loop(v, i) == [head |-> v, level |-> i]

\* Fault: the loop of the highest level wins.
min_loop_inner(x, y) ==
  IF NoLoop \in {x, y} THEN IF x = NoLoop THEN y ELSE x
  ELSE IF x.level > y.level THEN x ELSE y

min_loop(x, y) ==
  IF NoLoop \in {x, y} THEN IF x = NoLoop THEN y ELSE x
  ELSE IF x.level <= y.level THEN x ELSE y

Put(f, v, x) == [w \in DOMAIN f \cup {v} |-> IF w = v THEN x ELSE f[w]]
Drop(f, S) == [w \in DOMAIN f \ S |-> f[w]]

\* The vertices above v on the stack (its top comes first), in popping order.
Above(stack, v) == SubSeq(stack, 1, SelectInSeq(stack, LAMBDA w : w = v) - 1)

\* reset_SCC's choice: only a strictly preferred vertex replaces the head.
best_head(rank, v, popped) ==
  FoldLeft(LAMBDA best, w : IF rank[best] < rank[w] THEN w ELSE best, v, popped)

\* Fault: the vertices of the loop keep the numbers of the first visit.
reset_SCC_keep(s, v) ==
  [s EXCEPT !.stack = SubSeq(@, Len(Above(@, v)) + 2, Len(@)),
            !.dfn = Drop(@, {v})]

\* reset_SCC: pops the loop down to v and forgets its vertices.
reset_SCC(s, v) ==
  [s EXCEPT !.stack = SubSeq(@, Len(Above(@, v)) + 2, Len(@)),
            !.dfn = Drop(@, ToSet(Above(s.stack, v)) \cup {v})]

-----------------------------------------------------------------------------
(* visit returns the mutable state s together with its two results.        *)

RECURSIVE visit(_, _, _, _, _)

\* List.fold_left over the successors: the smallest loop, the partition so far.
visit_all(g, rank, s, partition, succ) ==
  FoldLeft(LAMBDA acc, w :
             LET r == visit(g, rank, acc.s, w, acc.partition)
             IN [r EXCEPT !.loop = min_loop(acc.loop, @)],
           [s |-> s, loop |-> NoLoop, partition |-> partition], succ)

\* The vertex heads its loop: the loop is visited again without its head.
visit_component(g, rank, s, vertex, partition) ==
  LET head  == best_head(rank, vertex, Above(s.stack, vertex))
      reset == reset_SCC(s, vertex)
      inner == visit_all(g, rank, [reset EXCEPT !.dfn = Put(@, head, Invisible)],
                         <<>>, succs(g, head))
  IN [s |-> [inner.s EXCEPT !.failed = @ \/ inner.loop # NoLoop],
      loop |-> NoLoop,
      partition |-> <<Component(head, inner.partition)>> \o partition]

\* Fault: a vertex that is in no loop stays on the stack.
leave_pushed(s, vertex) == [s EXCEPT !.dfn = Put(@, vertex, Invisible)]

\* The vertex is in no loop: it leaves the stack and is hidden.
leave(s, vertex) ==
  [s EXCEPT !.stack = Tail(@), !.dfn = Put(@, vertex, Invisible)]

visit(g, rank, s, vertex, partition) ==
  IF vertex \in DOMAIN s.dfn
  THEN [s |-> s, partition |-> partition,
        loop |-> IF s.dfn[vertex] = Invisible THEN NoLoop
                 ELSE Loop(vertex, s.dfn[vertex])]
  ELSE LET n == s.num + 1
           entered == [s EXCEPT !.stack = <<vertex>> \o @, !.num = n,
                                !.dfn = Put(@, vertex, n)]
           r == visit_all(g, rank, entered, partition, succs(g, vertex))
       IN CASE r.loop = NoLoop ->
                 [r EXCEPT !.s = leave(@, vertex),
                           !.partition = <<Node(vertex)>> \o @]
            [] r.loop.head = vertex ->
                 visit_component(g, rank, r.s, vertex, r.partition)
            [] OTHER -> r

-----------------------------------------------------------------------------
EmptyState == [dfn |-> <<>>, num |-> 0, stack |-> <<>>, failed |-> FALSE]

WtoInit ==
  /\ graph = {}
  /\ init \in Vertices
  /\ pref \in Prefs
  /\ wto = <<>>
  /\ failed = FALSE

add_edge(e) ==
  /\ wto = <<>>
  /\ Cardinality(graph) < MaxEdges
  /\ e \notin graph
  /\ graph' = graph \cup {e}
  /\ UNCHANGED <<init, pref, wto, failed>>

partition ==
  /\ wto = <<>>
  /\ LET r == visit(graph, pref, EmptyState, init, <<>>)
     IN /\ wto' = r.partition
        /\ failed' = (r.s.failed \/ r.loop # NoLoop)
  /\ UNCHANGED <<graph, init, pref>>

-----------------------------------------------------------------------------
RECURSIVE flatten(_)
\* flatten: the vertices in the order in which the analysis visits them.
flatten(l) == FlattenSeq([k \in DOMAIN l |-> <<l[k].head>> \o flatten(l[k].body)])

RECURSIVE Components(_)
\* The components of a partition at every depth (fold_heads walks them).
Components(l) ==
  UNION {(IF l[k].loops THEN {l[k]} ELSE {}) \cup Components(l[k].body) : k \in DOMAIN l}

Members(c) == {c.head} \cup ToSet(flatten(c.body))

\* What is reached from S by edges of g within W.
RECURSIVE Reach(_, _, _)
Reach(g, W, S) ==
  LET T == S \cup {w \in W : \E v \in S : <<v, w>> \in g}
  IN IF T = S THEN S ELSE Reach(g, W, T)

Reachable == Reach(graph, Vertices, {init})

\* The partition holds every vertex that the entry reaches exactly once: no part
\* of the program is left out or analysed twice in a round (Wto.partition).
CoversReachable ==
  wto # <<>> => /\ ToSet(flatten(wto)) = Reachable
                /\ IsInjective(flatten(wto))

\* What makes it a weak topological order: an edge that does not lead forward leads
\* to the head of a component around its source (wto.ml lines 23-35).
BackEdgesReachHeads ==
  wto # <<>> =>
    LET order == flatten(wto)
        at(v) == SelectInSeq(order, LAMBDA w : w = v)
    IN \A e \in graph : e[1] \in ToSet(order) /\ at(e[2]) <= at(e[1]) =>
         \E c \in Components(wto) : c.head = e[2] /\ e[1] \in Members(c)

\* A component is strongly connected, no vertex of it is preferred to the head
\* chosen for it, in the second visit either, and a single vertex has no self loop
\* (the comments on type component, reset_SCC).
ComponentsAreLoops ==
  /\ \A c \in Components(wto) :
       \A v \in Members(c) :
         LET from == {w \in Members(c) : <<v, w>> \in graph}
         IN /\ Members(c) \subseteq Reach(graph, Members(c), from)
            /\ pref[v] <= pref[c.head]
  /\ \A v \in Vertices : <<v, v>> \in graph /\ v \in ToSet(flatten(wto)) =>
       \E c \in Components(wto) : c.head = v
=============================================================================
