# A TLA+ development for EducRTOS

The repository is the artifact of *No Crash, No Exploit: Automated Verification
of Embedded Kernels*. It holds three things: EducRTOS (`src/educrtos`), a small
separation kernel for x86; Codex (`src/binsec/src/codex`, `src/libase`), the
static analyser that proves that such a kernel cannot crash and keeps its
privileges; and BINSEC, the vendored platform Codex runs in. The analyser works
on the machine code and establishes memory safety. It says nothing of whether
the kernel schedules correctly. That is what the first part of this development
is about: EducRTOS from the registers up, where handlers, interrupts, queues, the
clock and the console interact. The second part is the control of the analyser:
which code it looks at, in which order, and whether it has seen all of it when it
stops.

## 1. Inventory

| Component | State | Operations | Hard part |
|---|---|---|---|
| generic kernel, `high_level.c` | the `struct context` array, `idx_reserve` | `high_level_init`, `boot`, the system calls `yield`, `putchar`, `dup_thread`, `trigger_bug`, the timer handler | order of the calls to the scheduler, reserve that runs out, copies of contexts |
| priority schedulers, `priority_scheduler.c` | ready queue, waiting queue | `scheduler_init`, `sched_set_waiting`, `sched_wake_tasks`, `sched_maybe_preempt`, `sched_choose_next`, `sched_insert_duplicated_context` | contexts moving between queues sorted by mutable keys, dates that wrap, one-shot timer |
| round-robin scheduler, `round_robin_scheduler.c` | ring of `next` pointers, `current` | the same interface | ring modified while it is walked |
| queues, `heap.c` | linked list (selected by `config.h`) or array heap | insert, remove, first | one `next` field for two lists, stale pointers |
| PIT timer, `pit_timer.c` | `current_time`, `next_wake_date` | tick, `timer_wake_at`, `timer_dont_wake` | tick racing with system calls, disarming |
| low-level code, `low_level.c` | `tss.esp0`, GDT, IDT, saved registers | interrupt entry, `hw_context_switch`, `hw_context_set_return1`, initialisation | state of one thread saved in the context of another |
| errors, `error.c` | none | `fatal`, `task_fatal`, `assert` | the kernel stops for good |
| terminal, `terminal.c`; formatting, `lib/fprint.c` | cursor, screen | `putchar`, `write`, `print` | wrapping, scrolling, conversions at the limits |
| system description, `system_desc.c`, `user_tasks.h` | constant tables | - | sizes that must agree with each other |
| Codex, exploration: `record_cfg.ml`, `analyze.ml` | graph, work list of forks, spanning tree, `graph_changed` | rounds, depth-first search, `next`, `start_fork`, `next_fork`, `end_fork` | graph that grows while a round evaluates it, end of the rounds |
| Codex, symbols: `interval2symbol.ml` | Patricia tree | `insert`, `find` | search for the address just below |
| Codex, iteration: `wto.ml`, `reduce.ml`, `regex.ml` | hash tables, stack | `partition`, `propagate`, `stabilize` | loops in loops, loops entered in the middle |
| Codex, abstract domains; libase; BINSEC | - | - | not modelled, see section 8 |

How they interact: an interrupt or system call enters through an assembly stub
that saves the registers where `tss.esp0` points, calls a handler of
`high_level.c` or `pit_timer.c`, which calls the scheduler, which calls the
queues and the timer, and ends with `hw_context_switch`. All the gates of the
IDT mask the interrupts, so handlers do not interleave with each other. What
interleaves is ticks with the code of tasks, hence with the system calls they
make, in any order; and the handler of a wake-up contains a loop.

Codex explores the kernel in rounds. A round computes a weak topological order
of the control flow graph found so far, path expressions along it, and evaluates
them; where that shows a jump that the graph lacks, a depth-first search follows
it and records what it meets in the graph. Call stacks, part of the vertices,
come from the symbol table. The analysis is sequential; what is hard is the order
of its steps.

What makes the parts correct: each context is in exactly one place; the most
urgent context that can run is running; contexts are woken up at their dates,
neither early nor never; dates are 64-bit sums; the assertions in the code hold;
the timer is set whenever something has to happen; a thread gets back the
registers and segments it was interrupted with; the screen shows what was
printed. And for the analyser: every jump of the program is in the graph when it
stops, and every path of the graph in the expressions that it evaluates.

## 2. Modules

| Module | What it models |
|---|---|
| `HighLevel` | contexts, initialisation, clock, wake-up date, running context, ways of halting, and the handlers that do not need the scheduler |
| `SortedQueue` | the queues of `heap.c` as sequences: where `insert` puts an element, what `remove` and `get_first` return |
| `PriorityKernel` | the kernel with the EDF or the FP scheduler: HighLevel plus the ready and waiting queues |
| `RoundRobinKernel` | the kernel with the round-robin scheduler: HighLevel plus the ring |
| `RoundRobinTurns` | `RoundRobinKernel` with a history variable, the turns of each thread since another one's last; for `NoOvertaking` |
| `Rotation` | what round robin promises: a cyclic order of turns. `RoundRobinKernel` implements it |
| `SortedList` | the linked list of `heap.c` with its pointers, one action per iteration of the insertion loop |
| `QueuePair` | what the two lists promise: two sorted sequences with atomic operations. `SortedList` implements it |
| `ArrayHeap` | the array heap of `heap.c`, the alternative to the list, one action per iteration of its two loops |
| `PriorityBag` | what the schedulers need of a queue: removal takes an element that no other precedes. `ArrayHeap` implements it |
| `LowLevel` | interrupt entry and exit on the words of the contexts, system calls by registers, the switch, boot |
| `Descriptors` | the packing of segment descriptors, bit by bit, and how the CPU reads them; part of `LowLevel` |
| `ThreadMachine` | what the low-level code promises to a thread: a CPU of its own. `LowLevel` implements it |
| `Terminal` | screen, cursor, colours, scrolling |
| `Fprint` | `vfprint`, one conversion per action, and the conversions of numbers |
| `Printf` | what `printf` prints for a whole format, to compare `vfprint` with; for TLC only |
| `Console` | `terminal_print`: `Fprint` writing to `Terminal`, between the writes of tasks and timer |
| `Wto` | weak topological orders: `partition` as an operator over its hash table and stack |
| `Reduce` | path expressions over the partition of `Wto`; an expression is the set of its words |
| `Interval2symbol` | the Patricia tree of symbols and its search |
| `RecordCfg` | the exploration: the recorder, the depth-first search and the rounds, with the symbol table of `Interval2symbol` |
| `HighLevelProofs`, `PriorityKernelProofs`, `RoundRobinKernelProofs`, `SortedListProofs`, `ArrayHeapProofs`, `LowLevelProofs`, `ConsoleProofs`, `RecordCfgProofs` | the proofs |
| `MCPriorityKernel`, `MCRoundRobinKernel`, `MCQueues`, `MCLowLevel`, `MCConsole`, `MCReduce`, `MCRecordCfg` | the instances for TLC |

A `struct context` is a number (`Contexts`): first the tasks, then the reserve
of `dup_thread`, then the idle context. `context[c]` holds the fields that matter
for scheduling; `ready` and `waiting` are sequences; `esp0` is the running
context; `mode` says whether the CPU is in a phase of initialisation, in user
code, in the loop of `sched_wake_tasks`, or halted; `cause` says why it halted.
A handler is one action because interrupts are masked; the handler of a wake-up
is one action per iteration of its loop followed by the choice of the context to
resume. The compile-time switches (`SCHEDULING`, `DYNAMIC_TASK_CREATION`,
`DEBUG_PRINTING`) are constants, as are the tables of `system_desc.c`.
`PROJECT.json` maps every definition to its lines.

User tasks are not modelled by code: at any moment a running task may make any
system call with any argument of the sets `WakeupIncrements` and
`DeadlineIncrements`, fault, or go on computing.

Definitions marked *Fault* are wrong variants of the definition that follows
them; each is used to confirm that a property notices the fault.

In `RoundRobinKernel` the links of the ring are the function `next` and the
scheduler's own pointer is `current`; `Orbit` follows the links from the running
context and is the refinement mapping to `Rotation`. In `SortedList` the two
lists are `head`, `size` and the shared `next`; `Contents` follows the links and
is the refinement mapping to `QueuePair`, whose operations are those of
`SortedQueue`, which `PriorityKernel` uses. That chain justifies sequences in
`PriorityKernel`: the scheduler changes the rank of a context and copies contexts
only while they are in no queue, which is what `Placement` and `QueuesOrdered`
say of it.

`MCQueues` holds both implementations of the queues; the variable
`implementation` is the choice that `config.h` makes when the kernel is compiled.
The array heap returns elements of equal priority in no particular order, the
list in the order of insertion, so the one implements a bag and the other a pair
of sequences.

`LowLevel` is the kernel as the CPU sees it. No line of the code copies a
register to a field: the CPU pushes a frame at `tss.esp0`, `pusha` pushes the
rest below it, and the structs are laid out so that these words are the context.
So `memory` is the words of all the contexts, one behind the other, and a push
too many, or a wrong `esp0`, lands in a neighbour. The scheduler's choice is left
open: any live thread or idle. A descriptor, and what the CPU reads from it (base,
limit, privilege), are sets of bits. `View(c)` is what thread `c` sees, in the CPU and
the GDT while it runs and in its context otherwise; it is the refinement mapping
to `ThreadMachine`.

In `Terminal` the history `lines` is everything written, and the screen must show
its end. `Console` gives the characters of `vfprint` to the terminal, which
writes them before `vfprint` goes on.

`Reduce` extends `Wto`: graphs grow edge by edge, `partition` and `compute_exprs`
are one step each, because nothing can come in between. A regular expression is
modelled by the words it denotes up to `MaxLength`, which its smart constructors
compute exactly.

In `RecordCfg` the abstract states are left out, and with them only a choice
remains: the merged state of a path expression allows all jumps of an
instruction, the state of a single path in the depth-first search some of them.
The recursion of `analyze_block` is the stack of frames `calls`. The exception that
`set_position` raises for an address below all symbols ends the loop
(`except_thrown`); it is the only one that can be raised here, since code is
assumed to have symbols (`ProgramsAssumption`).

`Printf`, `Wto` and `Reduce` recurse over data with RECURSIVE operators and are
for TLC only; the other modules recurse with recursive functions over finite sets
(the numbers up to a bound, the trees up to the width of an address), which the
prover takes.

## 3. Plan

Done: the kernel with each of its three schedulers, its queues, its low-level
code and its console; the control of Codex; the proofs of every safety property
and of every refinement of the kernel, its queues, its low-level code, its
console and the exploration. Next:

1. `Wto`: `partition` one step at a time, without RECURSIVE operators, and then
   the definition of a weak topological order as theorems.
2. `PrintsLikePrintf` for whole formats, from `ConversionsCorrect`.

## 4. Runs

| Run | Instance | States | What it shows |
|---|---|---|---|
| `edf` | EDF, 2 tasks, reserve of 1 | 308 088 | `Placement`, `QueuesOrdered`, `RunsHighest`, `TimerSetToFirst`, `IdleIsWoken`, `WakeHasWork`, `NeverEarly`, `WakesAllDue`, `PreemptedByHigher` hold for every order of system calls, ticks and exceptions |
| `fp` | fixed priorities, 2 tasks, `nb_contexts` = 2, reserve of 2 | 466 476 | `RunsHighest` for the order by decreasing priority; assertions of the scheduler do fail, only above the number of threads that `AssertionsNeedManyThreads` gives; `IdlingEnds` under fairness |
| `ring` | round robin, 2 tasks, reserve of 3 | 5 580 | `Ring`, `CurrentRuns`, the assertion of the scheduler, fairness of turns (`NoOvertaking`), and the refinement `TakesTurns` |
| `queues` | 2 lists, 3 elements, 3 ranks; a heap of 5 cells, 6 elements | 105 243 | `SizeCounts` and the refinement `ImplementsQueues` for the lists, `HeapOrder` and the refinement `ImplementsBag` for the heap, `OperationsEnd` for both |
| `threads` | 2 tasks, idle, reserve of 1 | 189 650 | `HandlerGetsCaller`, `YieldArrives`, and the refinement `ThreadsOwnTheCPU` for every order of instructions, calls, ticks and switches |
| `console` | screen of 3 by 2; formats of up to 4 characters | 256 171 | `ScreenShowsTail`, `NeverHalts`, and `PrintsLikePrintf`: `vfprint` stops at the end of the format, and has printed what C's `printf` prints if none of the conversions is one where they part (`Deviates`, section 7), and something else if exactly one is |
| `paths` | all graphs of 4 vertices and at most 7 edges | 434 536 | the definition of a weak topological order (`CoversReachable`, `BackEdgesReachHeads`, `ComponentsAreLoops`), what the path expressions denote (`NestedLoopsExpressed`, `EntryPathsOnly`), and when they are not computed at all (`FailsOnUnreachable`) |
| `explore` | a program of 4 instructions in 3 functions, one recursive; all tables of up to 4 symbols | 169 412 | `EdgesAreJumps`, `StacksDoNotRepeat`, `FixpointIsClosed`, `FindsJustBelow` for the symbol table, and `FixpointReached`: the rounds end with a fixpoint, or with an exception exactly when no symbol is at or below the start |
| `lostwakeup`, `childdup`, `assert`, `missed` | see section 7 | - | violations: what a comment or an assertion says and the code does not do |

### Bounds

- `DATE_MOD` stands for 2^64. With `DATE_MOD = 9` and increments 1, 3 and 8 a sum
  of dates wraps after a few yields, so dates in the past and `DATE_FAR_AWAY`
  itself (8) occur as dates of contexts.
- `ACTUAL_TICK = 2` while dates are odd and even: a date is reached exactly or
  jumped over, and one tick may make several contexts due.
- `MaxTime` stops the clock (with 6, after three ticks). Yields go on after that.
- `RESERVE_SIZE` is 10 in the code. One context is enough to make a thread that
  is no task; `fp` and `ring` use more; `assert` uses the real values (one
  task, 8 contexts per task, 10 in the reserve).
- The lists need three elements for an insertion in the middle, and two lists
  for the sharing of `next`.
- The heap needs four elements for a node with two children and a grandchild,
  and one element more than cells for the assertion of `insert_elt`.
- In `threads` the base of the words that `yield` splits its durations into is 4,
  and the high and low words of the two durations differ. The bounds of the
  images have bits in every part that a descriptor is cut into. One reserve
  context is enough for a copy next to the idle context.
- A screen of 3 by 2 wraps and scrolls within ten characters; `MaxLines` = 4
  scrolls twice. All formats of up to three characters, and those of four that
  begin with a conversion, are printed on an empty screen, with nothing after
  them (`FirstFormats`); one format is printed anywhere between other output.
  `WORD` = 256 stands for 2^32: a 64-bit number then has up to four digits, and
  both halves may need zeros.
- Four vertices make a loop in a loop that is entered in the middle, and seven
  edges leave one more for a way around it; five edges go twice around a loop of
  two. `missed` shows its path with three vertices.
- Four addresses with a loop, a fork, a function called from two places and one
  that is called back. With addresses of three bits, four symbols fill a branch
  on both sides; some tables have no symbol at or below the start.

A clock that has stopped, a reserve that is used up, a halted kernel, a full
screen and an analysis that is over leave states without successors, and so does
the assertion of the heap: the runs do not check for deadlock.

### Fairness

`IdlingEnds` assumes that ticks go on (`WF(TimerInterrupt)`: the PIT is
programmed once to interrupt periodically and every path back to user code
enables interrupts) and that the wake-up handler, which runs with interrupts
masked, finishes (`WF` of its two steps). Nothing is assumed of tasks. The
property is limited to dates below `Horizon`, which the bounded clock reaches.
`OperationsEnd` assumes that the loops of `heap.c`, which run with the interrupts
masked, go on executing. `FixpointReached` assumes that Codex, a sequential
program, goes on.

## 5. Proofs

The theorems about the kernels hold for every value of the constants that
satisfies the named assumptions of `HighLevel`: any positive number of tasks, any
reserve, any priorities, any width of the dates, any tick, any sets of durations.
`MaxTime` is any bound below `DATE_FAR_AWAY`, that is, the clock itself does not
wrap (2^64 ns are 584 years). The other modules have assumptions of their own,
given with their proofs below.

**Priority kernel** (`PriorityKernelProofs`, with `HighLevelProofs`). First what
insertion and removal do to the elements of a queue, to its injectivity and to its
order (`Insertion`, `RemoveElements`), and that the first element of an ordered
queue is a minimum (`FirstIsMin`). The inductive invariant is then built in layers.

1. `TypeInv` = `TypeOK` and `Control` (what the phase of the boot or of a handler
   implies for the other variables): inductive by itself. `TypeCorrect`.
2. `Placement`, relative to `TypeInv`: each started context is running, or once
   in one queue. The lemmas `YieldEffect`, `DupEffect`, `WakeTaskEffect`,
   `MaybePreemptEffect`, ... say what each handler does to the sets of contexts
   in the queues, and the induction works on those sets. `PlacementCorrect`.
3. `QueuesOrdered`, relative to 1 and 2: the keys live in the contexts, so the
   order survives only because the context that is written is in no queue, which
   is `Placement`. `QueuesOrderedCorrect`.
4. `RunsHighest`, relative to 1-3: the first element of an ordered queue is a
   minimum. `RunsHighestCorrect`.
5. `NeverEarly`, relative to 1-3. `NeverEarlyCorrect`.
6. `TimerInv` = `TimerSetToFirst`, `WakeHasWork` and `IdleIsWoken`, none of which
   is inductive alone: the wake-up handler runs with the timer disarmed and
   would idle with a context waiting if it had found nobody to wake up; it finds
   somebody because the timer had been set to the first date.
7. The action properties `WakesAllDue` and `PreemptedByHigher` follow from 1-3.
8. `AssertionsNeedManyThreads`: a queue without repetition that does not hold
   the context being inserted is shorter than the number of live contexts, by
   the cardinality theorems (`LiveCount`, `QueueBound`).

**Round robin.** `RingInv` strengthens `Ring` by the types, by what control
implies and by the state of the list during its construction (`Links`: the last
task points to the first, each task reached by the loop to the following one, and
`Chain`, the induction on the loop index: a set of tasks that is closed under
successors reaches the last of them, and is all of them if it holds task 0).
That the insertion keeps a single circle: a set
closed under the new links, minus the new context, is closed under the old ones,
hence is all of the live contexts, hence contains the parent, hence the child.
`RingCorrect`, `CurrentRunsCorrect`, `AssertionHolds`.

`NoOvertaking` is not inductive: it does not say whose turn is next. `TurnsInv`
says that there is an order of the live threads by their last turn, which the
links follow from the running thread around to the first (`Agrees`); only threads
behind `c` in that order have had a turn since `c` had its last one, each at most
one. The thread that gets its turn moves from the first place to the last
(`TurnTaken`); a new thread gets the first place, since the ring puts it next to
the thread that is running (`ThreadBorn`). `NoOvertakingCorrect`.

`TakesTurns` needs what the recursive function `Orbit` computes. `CircleInv` says
that some sequence `q` lists the live threads along the links, once around;
`OrbitIsCircle` shows that `Orbit` is that `q`, and the induction then works on
`q`: `CircleTurns` for a turn, `CircleGrows` for a birth. `TakesTurnsCorrect`.

**Linked lists** (`SortedListProofs`). Assumed: ranks are integers, there are
finitely many contexts and null is none of them. The invariant `ListInv` says that
there are sequences, one per list, that the links spell (`Spells`), that no
context is in two places of them (`Apart`), that neither the contexts the
scheduler holds nor the one being inserted are in them (`Without`), and that the
loop of `insert_elt` has passed the first `k` elements of its sequence, all of
which stay in front (`Passed`). The links may be read through one list and
written through the other only because the sequences are apart, and stale links
do no harm because they belong to free contexts (`SpellsFrame`). `ListStep` gives
for each step the sequences after it and what the step does to them
(`QueueStep`), which yields the invariant and the refinement alike, once
`ContentsAre` has shown that `Contents` computes the sequences.
`SizeCountsCorrect`, `ImplementsQueuesCorrect`.

**Array heap** (`ArrayHeapProofs`). Assumed (`Assumptions`): a positive number of
cells, ranks that are natural numbers. Between operations the array is a heap.
During an insertion it is a heap but for the hole, which counts as filled with
the element being inserted and may precede its parent (`HeapedButAbove`); during
a removal but for the element that sinks, which its children may precede
(`HeapedButBelow`); in both, parent and children of the exception are still in
order with each other, without which the next iteration would break the heap.
`FirstIsLeast` is the induction from parents to all ancestors, and gives the
element that removal returns. `HeapOrderCorrect`, `ImplementsBagCorrect`.

**Low-level code** (`LowLevelProofs`). Assumed: the sizes, `WORD` at least 2,
images that end behind their beginning, and that user code writes only its
general registers and the stack pointer (`InstructionAssumption`: segment
registers and the interrupt flag are out of compiled code's reach). `Saved` says
what the pushes of the CPU and of the stubs leave in memory when they start behind
a context, and `Duplicated` what `dup_thread` does. The invariant has four parts:
which contexts are live (`LiveInv`), that `esp0` points behind the running one
and the segments are its own (`UserInv`), that a handler has the context of its
caller in `eax` (`HandlerInv`), and what the contexts of the other threads hold
(`SavedInv`). `YieldArrives` needs the last one: a thread that is interrupted
between loading the registers and `int` carries its durations in memory.
`DescriptorsAreSegments` shows bit by bit that the CPU reads from the descriptors
the segments they were packed from. `HandlerGetsCallerCorrect`,
`YieldArrivesCorrect`, `ThreadsOwnTheCPUCorrect`.

**Console** (`ConsoleProofs`). Assumed: a screen of at least one cell, strings and
formats of characters from 1 to 255, `WORD` a power of 16 from 16^2 to 16^8,
arguments within the ranges of their C types, formats that do not end within a
conversion (all callers pass complete literals; for others the compiler warns).

For `Terminal` the invariant is `TypeOK` and `NeverHalts` with `ScreenShowsTail`
read as a relation between screen, row and history (`Shows`), and that there is a
line for the cursor to be in. `RowsInOrder` and `CellsApart` are the arithmetic of
`row * VGA_WIDTH + column`: cells of different rows differ, and scrolling moves
each row to the one above. `NeverHaltsCorrect`, `ScreenShowsTailCorrect`.

For the conversions, `Reads(v, t, base)` says that `v[k]` is the number that the
first `k` digits of `t` stand for; `NumeralIs` shows that this is what `IsNumeral`
computes. The digits that the loop of `itoa` and `lltoa` finds, reversed, read as
the number (`DecimalReads`, induction over the quotients by 10), and so do the
digits that `itox` takes off from the front (`HexDigits`, induction over the shift;
`ShiftIs`: the first one is not 0). A concatenation reads as the first number times
a power of 16 plus the second (`ConcatReads`), which decides for `%llx` when the
halves together are the numeral of the number. `IsNumeral` is about the digits of
C's `printf`, which are lower case, and not those of `itox`: the two agree up to 9
(`PrintfDigitIs`), so a numeral of `itox` is one of `printf` if and only if it has
no letter (`Plain`, `PlainIs`). `ConversionsCorrect` is the sum: a conversion prints
what `printf` prints if and only if it is not one of `Deviates`. That needs `WORD`
to have two digits at least: with one digit the lower half never lacks a zero.

For the two together, `FprintInv` says that the characters printed are never null
(so they are characters the terminal theorems are about, even with the
uninitialised byte of `itoa`) and where `i` may be: in the percent signs at the end
of a format only at the first of a pair. Hence `ConsoleNeverHalts`,
`ConsoleShowsTail`, and `StaysInFormatCorrect`: no read behind the format.

**Exploration** (`RecordCfgProofs`). Assumed: the entry is an address, a program
gives each address its jumps, and every address of code other than 0 has a symbol
at or below it (`ProgramsAssumption`); nothing about the number of addresses but
that they have a width.

1. `SearchInv` is about the recursion of `analyze_block`, the stack `calls`: the
   fork frames line up with the recorder's work list (`Lined`), the vertex at its
   top is the one the topmost frame continues from (`Positioned`), and the jumps
   left in a frame are jumps of its source (`FramesOK`). It is inductive by
   itself, and from it `EdgesAreJumpsCorrect` follows: an edge is recorded from
   the top of the work list, which would be the wrong vertex if `next_fork` did
   not put it back.
2. `StacksDoNotRepeatCorrect`: `call_stack_after_jump` unwinds the stack to a
   function that is on it and pushes only one that is not (`AloneAfter`).
3. `RootedCorrect`: a new vertex comes with an edge from an old one.
4. `FixpointIsClosedCorrect` needs `RoundInv`: as long as a round has not raised
   `graph_changed`, every jump of every vertex that the round has dealt with is in
   the graph or still in some frame (`Handled`), and the sources that the round
   goes by are those of the graph. With the frames gone, none is missing.
5. `FindsJustBelowCorrect` is about the Patricia tree. `Within` is the subtrees of
   a tree, `Has` its leaves; `Patricia` says of every branch that it has leaves on
   both sides, all of which agree with its prefix above its branching bit and
   have the bit that their side says (`Node`). `Insertion` shows, by induction over
   the height, that `insert` keeps that and adds one leaf, whichever of its cases
   applies; `FindsBelow` that in such a tree `find` gives the name of the greatest
   key not above, because all keys on the 0 side are below all keys on the 1 side
   (`ZeroBelowOne`), so that falling back to the greatest key of the 0 side is
   right whenever the 1 side has none. `TableInv` connects the tree with the
   history of the insertions.

Induction over data is done with sets: `LeastElement` (from the well-foundedness
of the natural numbers) gives the least place where a recursive function differs
from what it is to compute, and the step from the place before is a contradiction.

## 6. What is only model-checked

- `IdlingEnds`, `OperationsEnd` and `FixpointReached`: liveness under fairness is
  out of the prover's reach.
- What `paths` says of `Wto` and `Reduce`, and `PrintsLikePrintf` for formats with
  several conversions: these modules use RECURSIVE operators, which the prover's
  SMT backend does not take.
- `HeapOrder` and `ImplementsBag` are proved of `ArrayHeap`; the run `queues` checks
  them of `MCQueues`, which holds both implementations.

## 7. Where comments and code disagree

- `lostwakeup`. `priority_scheduler.c:27` ("Set a possible preemption point when
  we reach the next wakeup") and `timer.h:21`. The interrupt that reaches the
  date disarms the timer (`pit_timer.c:149`), wakes the contexts that are due,
  and nothing sets the timer for those that still wait: only the next `yield`
  does. Until then a context of higher priority misses its date.
  `IdleIsWoken` shows that the CPU is nevertheless never left idle that way.
- `childdup`. `config.h:19` says that children cannot have children; in
  `syscall_dup_thread` the copy of the whole context (line 172) overwrites the
  `range = 0` of line 157. In the same way the child keeps the pid of its
  parent, where `high_level.h:18` says "A PID identifies a task".
- `assert`. The assertion at `priority_scheduler.c:107` compares the size of the
  ready queue with `nb_contexts`, 8 for one task, although 11 threads can exist:
  one task and its threads use up the reserve, the task having yielded in between,
  and the tick that wakes the task finds nine threads ready. The assertion at line
  24 has the same bound for the waiting queue, and fails when enough threads yield.
- `missed`. `reduce.ml:95` and `:125` say that the state of every vertex
  expresses all paths to it. `stabilize` ends with one pass over the body, in
  which nested components are not stabilized (`reduce.ml:118`): where a nested
  loop is entered elsewhere than at its head, paths are missing, and with them
  code that the analysis never evaluates in the states it can be reached in.
  `NestedLoopsExpressed` shows that nothing is missing otherwise.

Seen while modelling, without a run of their own:

- `Deviates` lists where `vfprint` is not the printf-like function of
  `lib/fprint.h:13`. It has some of the conversions of `printf` and prints a message
  for the others, without taking their argument (`lib/fprint.c:51`); `itox` prints
  the digits above 9 in capitals, for `%x` too (`lib/fprint.c:113`). `itoa` writes the sign at a place that the first digit
  overwrites, and prints behind the digits a byte that nothing has written
  (`lib/fprint.c:75`); `%llx` prints the halves of a number one after the other,
  without the zeros of the lower one and with a 0 for an empty upper one
  (`lib/fprint.c:36`). Two such conversions may make up for each other.
- `stabilize` hands its `add_epsilon` down to nested components
  (`reduce.ml:111`), so inside of the loop around the entry the head of a nested
  loop gets the empty path as if the program could start there.
  `EntryPathsOnly` shows that nothing else is made up: every word is a path from
  the entry or from one of those heads.
- `compute_exprs` raises when a vertex that the entry does not reach has an edge
  into the graph (`FailsOnUnreachable`). The graph of `analyze.ml` is built from the
  entry and has no such vertex. `graph_of_dhunk` (`dhunk_analysis.ml:103`) adds the
  edges of every instruction of the decoded block, reachable or not, so there the
  exception depends on the block.
- `thread_create` (`task.c:37`): until its asm statement switches stacks the child
  runs on its parent's stack. gcc at `-O1`, the default of `config.mk:9`, loads
  `func` and `stack` from there behind the call of `dup_thread`, when the parent
  may have returned and overwritten them. The code does not say how its operands
  are allocated, so there is no module for it.
- The descriptors of the threads have a limit in blocks of 4 KiB
  (`low_level.c:502`), whereas `memsize` is in bytes. `ThreadsOwnTheCPU` says that
  the 20 bits of the limit are those of `memsize`, whatever they count.
- `record_cfg.ml` says that a call stack is never empty; the entry's is.

## 8. What is not modelled

- The `INJECT_BUG` variants of `syscall_trigger_bug`: deliberate memory errors
  that the analyser is to find.
- The gates of the IDT and the descriptor of the TSS, which are written once at
  boot; the port output that programs the PIC and the PIT; the multiboot header,
  the linker scripts, and more than one CPU.
- `PRIVILEGED_IDLE`: `config.h` selects `UNPRIVILEGED_IDLE`, where the idle
  context is switched to like any other one. `FIXED_SIZE_GDT`, likewise.
- The assertions of `remove_elt` in the array heap (`heap.c:52` and `:61`), which
  cannot fail behind that of `insert_elt`.
- The disabled variants of `dup_thread` (`#else` of `#if 1`).
- The hexadecimal writers of `terminal.c` (lines 116-135), which have no caller.
- Of Codex: the mode `exploration_only`, skips, hooks and the unrolling of loops
  in `analyze.ml`; its table of states, which keeps the result of an expression
  for later rounds (`analyze.ml:801`, tested at 553: in `RecordCfg` every source is
  executed again in every round, which adds nothing to the graph); the set of
  visited addresses that `next` collects for the result (`record_cfg.ml:398`); the
  output of graphs and diagrams, and the abstract domains with libase. Those are functional code over unbounded terms, whose correctness
  is a statement about the semantics of machine code and out of TLC's reach.
- BINSEC is vendored. Most of the C and C++ of the repository is its `pinsec`,
  and nearly all of that is generated by the protobuf compiler (`*.pb.cc`,
  `*.pb.h`): accessors and serialisation without logic of its own.
- Build and measurement scripts.
