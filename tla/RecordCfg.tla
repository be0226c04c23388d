----------------------------- MODULE RecordCfg -----------------------------
(***************************************************************************)
(* How Codex discovers the control flow graph of the kernel: the recorder  *)
(* (binsec/src/codex/record_cfg.ml) and the loop that drives it            *)
(* (analyze.ml).  A round evaluates the path expressions of the graph of   *)
(* the round before; where that shows a jump that the graph lacks, a       *)
(* depth-first search without merge follows it.  Rounds go on until one    *)
(* changes nothing.                                                        *)
(*                                                                         *)
(* Abstract states are left out.  The merged state of a path expression    *)
(* allows all jumps of an instruction; the state of a single path in the   *)
(* depth-first search allows some of them.  With the states the table goes *)
(* that keeps them from round to round: an expression is evaluated again.  *)
(* The set of visited addresses, which the loop only returns, is left out  *)
(* too.                                                                    *)
(***************************************************************************)
EXTENDS Interval2symbol, SequencesExt

CONSTANTS
  start,      \* where the analysis starts
  Programs    \* BOUND: the programs, each with the symbols of its image, which are
              \* <<address, name>> pairs, and the jumps of its instructions

ASSUME StartAssumption == start \in Key
ASSUME ProgramsAssumption ==
  \A p \in Programs :
    /\ DOMAIN p = {"symbols", "jumps"}
    /\ p.symbols \subseteq Key \X STRING
    /\ p.jumps \in [Key -> SUBSET Key]
    /\ \A a \in Key : p.jumps[a] # {} =>  \* code has a symbol
         \A d \in p.jumps[a] \cup {a} : d = 0 \/ \E s \in p.symbols : s[1] <= d

VARIABLES
  program,
  unread,            \* the symbols of the image that init has not inserted yet
  symtable,
  symbols,           \* history: the name last inserted for every address
  vertices, edges,   \* graph: a vertex is an address with a call stack
  graph_changed,
  parents,           \* the spanning tree, by the parents of its vertices
  back_edges,
  worklist,          \* the position, above those that open forks return to
  calls,             \* the iterations under way, innermost first
  nodes,             \* the path expressions that this round has left
  sources,           \* the vertices that had successors when it began
  phase              \* "init", "idle" between rounds, "round", "done", "failed"

table == <<program, unread, symtable, symbols>>
recorder == <<table, vertices, edges, graph_changed, parents, back_edges>>
vars == <<recorder, worklist, calls, nodes, sources, phase>>

jumps == program.jumps

\* The parts of the start-up code, which are one function.
ResetParts == {"Finished", "Loop1", "Skip", "cpus_startup", "cpu_init", "cpu_startup_error"}

\* The Interval2symbol.find of record_cfg.ml.  The addresses that stand for tasks
\* (0xcafecafe and the like) are left out.
func(addr) ==
  LET name == find(addr, symtable).value
  IN IF addr = 0 THEN "ZERO" ELSE IF name \in ResetParts THEN "Reset_Handler" ELSE name

entry == <<start, <<>>>>

\* Fault: the caller is pushed though its callee is on the stack.
call_stack_after_jump_push(v, dst) ==
  IF func(dst) = func(v[1]) THEN v[2] ELSE <<v[1]>> \o v[2]

\* A jump to a function of the stack is a return to it, to another one a call.
call_stack_after_jump(v, dst) ==
  LET at == SelectInSeq(v[2], LAMBDA a : func(a) = func(dst))
  IN IF func(dst) = func(v[1]) THEN v[2]
     ELSE IF at # 0 THEN SubSeq(v[2], at + 1, Len(v[2]))
     ELSE <<v[1]>> \o v[2]

after(v, dst) == <<dst, call_stack_after_jump(v, dst)>>

\* Whether x is above y in the spanning tree.
is_parent(x, y) ==
  LET above[v \in vertices] ==
        IF v \in DOMAIN parents THEN {parents[v]} \cup above[parents[v]] ELSE {}
  IN  x \in above[y]

Init ==
  /\ program \in Programs
  /\ unread = program.symbols
  /\ symtable = Empty /\ symbols = <<>>
  /\ vertices = {entry} /\ edges = {}
  /\ graph_changed = FALSE
  /\ parents = <<>> /\ back_edges = {}
  /\ worklist = <<>> /\ calls = <<>>
  /\ nodes = {} /\ sources = {}
  /\ phase = "init"

\* init's fold over the symbols of the image, in the order they have there.
init_symbol(s) ==
  /\ phase = "init"
  /\ s \in unread
  /\ unread' = unread \ {s}
  /\ symtable' = insert(s[1], s[2], symtable)
  /\ symbols' = [a \in DOMAIN symbols \cup {s[1]} |-> IF a = s[1] THEN s[2] ELSE symbols[a]]
  /\ phase' = IF unread' = {} THEN "idle" ELSE "init"
  /\ UNCHANGED <<program, vertices, edges, graph_changed, parents, back_edges,
                 worklist, calls, nodes, sources>>

-----------------------------------------------------------------------------
(* next with record_cfg, from the position at the top of w.                *)

\* next's case of a vertex of the graph; it raises Visited_vertex.
next_visited(from, new) ==
  /\ graph_changed' = (graph_changed \/ <<from, new>> \notin edges)
  /\ back_edges' = IF is_parent(new, from) THEN back_edges \cup {<<from, new>>}
                   ELSE back_edges
  /\ UNCHANGED <<vertices, parents, table>>

\* Fault: the flag is left to the edges between known vertices.
next_new_silent(from, new) ==
  /\ vertices' = vertices \cup {new}
  /\ parents' = [v \in DOMAIN parents \cup {new} |-> IF v = new THEN from ELSE parents[v]]
  /\ UNCHANGED <<graph_changed, back_edges, table>>

next_new(from, new) ==
  /\ graph_changed' = TRUE
  /\ vertices' = vertices \cup {new}
  /\ parents' = [v \in DOMAIN parents \cup {new} |-> IF v = new THEN from ELSE parents[v]]
  /\ UNCHANGED <<back_edges, table>>

fork(new, w) == <<new, new>> \o Tail(w)

\* Fault: the next path starts where the last one ended.
next_fork_resumed(w) == w

next_fork(w) == <<w[2]>> \o Tail(w)

\* What a frame has left to do; a path without forks is a tail call.
Frame(kind, src, left) == [kind |-> kind, src |-> src, left |-> left, first |-> TRUE]

\* analyze_address: dst is next behind the top of w, and its own successors, if any
\* and if it is new, are the next frame.
analyze_address(dst, w, rest) ==
  LET from == w[1]
      new  == after(from, dst)
  IN /\ edges' = edges \cup {<<from, new>>}
     /\ \/ /\ new \in vertices
           /\ next_visited(from, new)
           /\ worklist' = w /\ calls' = rest
        \/ /\ new \notin vertices
           /\ next_new(from, new)
           /\ \E S \in SUBSET jumps[dst] :
                CASE S = {} -> worklist' = <<new>> \o Tail(w) /\ calls' = rest
                  [] Cardinality(S) = 1 ->
                       /\ worklist' = <<new>> \o Tail(w)
                       /\ calls' = <<Frame("path", new, S)>> \o rest
                  [] OTHER ->
                       /\ worklist' = fork(new, w)
                       /\ calls' = <<Frame("fork", new, S)>> \o rest

-----------------------------------------------------------------------------
(* The iterations under way.                                               *)

top == calls[1]
without(dst) == [top EXCEPT !.left = @ \ {dst}, !.first = FALSE]

\* analyze_block, one successor: a tail call.
follow_path ==
  /\ calls # <<>> /\ top.kind = "path"
  /\ \E dst \in top.left : analyze_address(dst, worklist, Tail(calls))
  /\ UNCHANGED <<nodes, sources, phase>>

\* analyze_block, several successors: every path but the first is a next_fork.
follow_fork ==
  /\ calls # <<>> /\ top.kind = "fork"
  /\ \E dst \in top.left :
       analyze_address(dst, IF top.first THEN worklist ELSE next_fork(worklist),
                       <<without(dst)>> \o Tail(calls))
  /\ UNCHANGED <<nodes, sources, phase>>

end_fork ==
  /\ calls # <<>> /\ top.kind = "fork" /\ top.left = {}
  /\ worklist' = Tail(worklist)
  /\ calls' = Tail(calls)
  /\ UNCHANGED <<recorder, nodes, sources, phase>>

\* handle_successors: a jump that the graph lacks is explored, from its source.
handle_successor ==
  /\ calls # <<>> /\ top.kind = "successors"
  /\ \E dst \in top.left :
       LET rest == <<without(dst)>> \o Tail(calls)
       IN \/ /\ <<top.src, after(top.src, dst)>> \in edges
             /\ calls' = rest
             /\ UNCHANGED <<recorder, worklist>>
          \/ /\ <<top.src, after(top.src, dst)>> \notin edges
             /\ analyze_address(dst, <<top.src>>, rest)
  /\ UNCHANGED <<nodes, sources, phase>>

end_successors ==
  /\ calls # <<>> /\ top.kind = "successors" /\ top.left = {}
  /\ calls' = Tail(calls)
  /\ UNCHANGED <<recorder, worklist, nodes, sources, phase>>

-----------------------------------------------------------------------------
(* The loop of analyze.                                                    *)

\* compute_exprs gives an expression to every vertex; reuse empties the worklist.
begin_round ==
  /\ phase = "idle"
  /\ phase' = "round"
  /\ nodes' = vertices
  /\ sources' = {e[1] : e \in edges}
  /\ worklist' = <<>>
  /\ UNCHANGED <<recorder, calls>>

\* analyze_regex: the source of an edge of the expressions is executed.
analyze_source(v) ==
  /\ phase = "round" /\ calls = <<>>
  /\ v \in nodes \cap sources
  /\ nodes' = nodes \ {v}
  /\ calls' = <<Frame("successors", v, jumps[v[1]])>>
  /\ UNCHANGED <<recorder, worklist, sources, phase>>

\* set_position raises for a vertex without successors that no symbol is below.
unknown_end(v) ==
  /\ \A e \in edges : e[1] # v
  /\ v[1] # 0 /\ ~find(v[1], symtable).found

\* catch_exc catches the exception, the loop ends: "Fixpoint not reached due to an
\* exception".
except_thrown(v) ==
  /\ phase = "round" /\ calls = <<>>
  /\ v \in nodes \ sources
  /\ unknown_end(v)
  /\ phase' = "failed"
  /\ UNCHANGED <<recorder, worklist, calls, nodes, sources>>

\* A vertex without successors is searched from, without calling next for it.
analyze_end(v) ==
  /\ phase = "round" /\ calls = <<>>
  /\ v \in nodes \ sources
  /\ ~unknown_end(v)
  /\ nodes' = nodes \ {v}
  /\ LET S == jumps[v[1]]
         ends == \A e \in edges : e[1] # v
     IN /\ worklist' = IF ~ends THEN worklist
                       ELSE IF Cardinality(S) > 1 THEN <<v, v>> ELSE <<v>>
        /\ calls' = IF ~ends \/ S = {} THEN calls
                    ELSE <<Frame(IF Cardinality(S) > 1 THEN "fork" ELSE "path", v, S)>>
  /\ UNCHANGED <<recorder, sources, phase>>

\* Fault: the flag is not reset.
end_round_sticky ==
  /\ phase = "round" /\ calls = <<>> /\ nodes = {}
  /\ phase' = IF graph_changed THEN "idle" ELSE "done"
  /\ UNCHANGED <<recorder, worklist, calls, nodes, sources>>

end_round ==
  /\ phase = "round" /\ calls = <<>> /\ nodes = {}
  /\ phase' = IF graph_changed THEN "idle" ELSE "done"
  /\ graph_changed' = FALSE
  /\ UNCHANGED <<table, vertices, edges, parents, back_edges, worklist, calls, nodes, sources>>

Next ==
  \/ \E s \in unread : init_symbol(s)
  \/ begin_round
  \/ \E v \in nodes : analyze_source(v)
  \/ \E v \in nodes : analyze_end(v)
  \/ \E v \in nodes : except_thrown(v)
  \/ follow_path \/ follow_fork \/ end_fork
  \/ handle_successor \/ end_successors
  \/ end_round

\* The analysis is one sequential program.
Spec == Init /\ [][Next]_vars /\ WF_vars(Next)

-----------------------------------------------------------------------------
\* Every edge recorded is a jump of its source with the call stack that the jump
\* leads to: the position is right behind every fork, visited vertex and round.
EdgesAreJumps ==
  \A e \in edges : e[2][1] \in jumps[e[1][1]] /\ e[2] = after(e[1], e[2][1])

\* No function is twice on a call stack, or on it while it runs.  This bounds the
\* graph, even for recursive functions, and so the search.
StacksDoNotRepeat ==
  \A v \in vertices : IsInjective([k \in 1 .. Len(v[2]) + 1 |->
                                     IF k = 1 THEN func(v[1]) ELSE func(v[2][k - 1])])

\* When the analysis says "Fixpoint reached" the graph has all jumps of all its
\* vertices: no vertex found during a round stays without a round of its own.
FixpointIsClosed ==
  phase = "done" =>
    \A v \in vertices : \A dst \in jumps[v[1]] : <<v, after(v, dst)>> \in edges

\* At every stage of the initialisation find returns the name of the highest address
\* that is not above the one asked for, the last one inserted for it, and raises
\* when all are above ("we find the one which is just below").
FindsJustBelow ==
  phase \in {"init", "idle"} =>
    \A k \in Key :
      LET below == {j \in DOMAIN symbols : j <= k}
          r == find(k, symtable)
      IN /\ r.found <=> below # {}
         /\ below # {} => r.value = symbols[Max(below)]

\* The rounds come to an end: with a fixpoint, or with the exception of set_position
\* when no symbol of the image is at or below the start, and only then.
FixpointReached ==
  <>(phase = IF start = 0 \/ \E s \in program.symbols : s[1] <= start
             THEN "done" ELSE "failed")
=============================================================================
