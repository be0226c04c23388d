------------------------------ MODULE LowLevel ------------------------------
(***************************************************************************)
(* The x86 side of EducRTOS (low_level.c, low_level.h): how the registers  *)
(* of a thread reach its struct context on the way into the kernel and the *)
(* CPU on the way out.                                                     *)
(*                                                                         *)
(* Nothing in the code copies a thread's registers field by field.  The    *)
(* CPU pushes a frame at tss.esp0, pusha pushes the rest below it, and the *)
(* structs pusha and inter_privilege_interrupt_frame are laid out so that  *)
(* what was pushed is the struct hw_context; popa and iret run the same    *)
(* way back.  So memory is modelled as words, and contexts follow each     *)
(* other in it: a push too many would land in the neighbour.               *)
(*                                                                         *)
(* Which thread runs next is the scheduler's choice (PriorityKernel,       *)
(* RoundRobinKernel): here, any live thread or idle.  The configuration is *)
(* that of config.h: DYNAMIC_DESCRIPTORS and UNPRIVILEGED_IDLE, one CPU,   *)
(* with DYNAMIC_TASK_CREATION.                                             *)
(***************************************************************************)
EXTENDS Integers, Sequences, Descriptors

CONSTANTS
  nb_tasks,
  RESERVE_SIZE,
  CONTEXTS_PER_TASK,
  WORD,           \* a word is a uint32_t: 2^32
  task_begin,     \* task (or idle) -> first address of its image
  task_end,       \* task (or idle) -> address after its image
  Instructions,   \* BOUND: user code writes these <<register, word>> pairs
  Durations,      \* BOUND: <<next_wakeup, next_deadline>> pairs passed to yield
  Calls           \* BOUND: numbers of the other system calls that user code makes

ASSUME SizeAssumption ==
  /\ nb_tasks \in Nat \ {0}
  /\ RESERVE_SIZE \in Nat
  /\ CONTEXTS_PER_TASK \in Nat \ {0}
ASSUME WordAssumption == WORD \in Nat \ {0, 1}
ASSUME ImageAssumption ==
  /\ task_begin \in [0 .. nb_tasks + RESERVE_SIZE -> Nat]
  /\ task_end \in [0 .. nb_tasks + RESERVE_SIZE -> Nat]
  /\ \A c \in 0 .. nb_tasks + RESERVE_SIZE : task_begin[c] <= task_end[c]
\* User code has the registers that compiled C code writes: no segment register,
\* not the flag of the interrupts, which needs privilege; eip only moves to and
\* from the system calls, see below.
ASSUME InstructionAssumption ==
  Instructions \subseteq {"edi", "esi", "ebp", "ebx", "edx", "ecx", "eax", "esp"} \X Nat
ASSUME DurationAssumption ==
  Durations \subseteq (0 .. WORD * WORD - 1) \X (0 .. WORD * WORD - 1)
ASSUME CallsAssumption == Calls \subseteq Nat \ {0}

-----------------------------------------------------------------------------
(* struct context in words: struct pusha, struct                           *)
(* inter_privilege_interrupt_frame, the two words of DYNAMIC_DESCRIPTORS,  *)
(* and range.  The scheduling context and the pid are left to HighLevel.   *)

Tasks == 0 .. nb_tasks - 1
context_idle == nb_tasks + RESERVE_SIZE
Contexts == 0 .. context_idle

PushaWords == 8
FrameWords == 5
ContextWords == PushaWords + FrameWords + 3

Offset == [edi |-> 0, esi |-> 1, ebp |-> 2, pushed_esp |-> 3, ebx |-> 4, edx |-> 5,
           ecx |-> 6, eax |-> 7,
           eip |-> 8, cs |-> 9, flags |-> 10, esp |-> 11, ss |-> 12,
           start_address |-> 13, memsize |-> 14, range |-> 15]

\* &contexts[c], all the addresses, and a field of the context at address p.
Address(c) == c * ContextWords
Addresses == 0 .. Address(context_idle + 1) - 1
Field(m, p, f) == m[p + Offset[f]]

\* The registers that a thread sees.
Registers == {"edi", "esi", "ebp", "ebx", "edx", "ecx", "eax",
              "eip", "cs", "flags", "esp", "ss", "ds"}

\* segment.h, and the position of the descriptors in struct system_gdt.
gdt_segment_selector(privilege, index) == (privilege % 4) + 8 * index
KERNEL_DATA_SEGMENT_INDEX == 2
USER_CODE_SEGMENT_INDEX == 3
USER_DATA_SEGMENT_INDEX == 4

InterruptFlag == 512
SYSCALL_YIELD == 0
SYSCALL_PUTCHAR == 1
SYSCALL_DUP_THREAD == 2
SYSCALL_TRIGGER_BUG == 3
SYSCALL_NUMBER == 4

VARIABLES
  memory,       \* the words of all the contexts
  cpu,          \* registers; ds is the only other segment register the code reloads
  gdt,          \* user_code_descriptor and user_data_descriptor
  esp0,         \* tss_array[0].esp0
  mode,         \* "boot", "ready", "user", "syscall", "timer", "halted"
  live,         \* contexts known to the scheduler, and idle
  idx_reserve,
  running,      \* history: the thread that the kernel last resumed
  asked         \* history: thread -> durations it is passing to yield

vars == <<memory, cpu, gdt, esp0, mode, live, idx_reserve, running, asked>>

-----------------------------------------------------------------------------
(* User code.  eip is 0 in ordinary code and n + 1 in front of the int      *)
(* instruction of the wrapper of system call n; n = SYSCALL_NUMBER stands   *)
(* for a number that no wrapper uses.                                      *)

\* ebx holds the number of the call, the arguments follow in edx, ecx, esi, edi.
\* syscall2 (putchar) also loads edx, with a character that no thread sees again.
syscall1(n) == [cpu EXCEPT !.ebx = n, !.eip = n + 1]
syscall5(n, a, b, c, d) ==
  [syscall1(n) EXCEPT !.edx = a, !.ecx = b, !.esi = c, !.edi = d]

yield(next_wakeup, next_deadline) ==
  syscall5(SYSCALL_YIELD, next_wakeup \div WORD, next_wakeup % WORD,
                          next_deadline \div WORD, next_deadline % WORD)

UserInstruction ==
  /\ mode = "user"
  /\ cpu.eip = 0
  /\ running # context_idle
  /\ \/ /\ \E i \in Instructions : cpu' = [cpu EXCEPT ![i[1]] = i[2]]
        /\ UNCHANGED asked
     \/ \E d \in Durations : /\ cpu' = yield(d[1], d[2])
                             /\ asked' = [asked EXCEPT ![running] = d]
     \/ /\ \E n \in Calls : cpu' = syscall1(n)
        /\ UNCHANGED asked
  /\ UNCHANGED <<memory, gdt, esp0, mode, live, idx_reserve, running>>

-----------------------------------------------------------------------------
(* Into the kernel.                                                        *)

\* Pushes a sequence of words, the first one first, on a stack that grows down.
Push(m, sp, words) ==
  [a \in Addresses |-> IF a < sp /\ a >= sp - Len(words) THEN words[sp - a] ELSE m[a]]

\* What the CPU pushes on a change of privilege, and what pusha does.
InterruptFrame(r) == <<r.ss, r.esp, r.flags, r.cs, r.eip>>
pusha(r, sp) == <<r.eax, r.ecx, r.edx, r.ebx, sp, r.ebp, r.esi, r.edi>>

\* Fault: pusha comes after the switch to the kernel's data segment, through ax.
INTERRUPT_HANDLER_PROLOGUE_late(r) ==
  LET sp == esp0 - FrameWords
      ds == gdt_segment_selector(0, KERNEL_DATA_SEGMENT_INDEX)
  IN  /\ memory' = Push(Push(memory, esp0, InterruptFrame(r)), sp, pusha([r EXCEPT !.eax = ds], sp))
      /\ cpu' = [r EXCEPT !.eax = sp - PushaWords, !.ds = ds, !.flags = 0]

\* The interrupt gate masks the interrupts and switches to esp0.  After pusha the
\* address of the context is in eax; the other registers still hold what the
\* thread had there.
INTERRUPT_HANDLER_PROLOGUE(r) ==
  LET sp == esp0 - FrameWords
      ds == gdt_segment_selector(0, KERNEL_DATA_SEGMENT_INDEX)
  IN  /\ memory' = Push(Push(memory, esp0, InterruptFrame(r)), sp, pusha(r, sp))
      /\ cpu' = [r EXCEPT !.eax = sp - PushaWords, !.ds = ds, !.flags = 0]

\* int SYSCALL_INTNUM: the saved eip is that of the next instruction.
asm_syscall_handler ==
  /\ mode = "user"
  /\ cpu.eip # 0
  /\ INTERRUPT_HANDLER_PROLOGUE([cpu EXCEPT !.eip = 0])
  /\ mode' = IF cpu.ebx >= SYSCALL_NUMBER THEN "halted" ELSE "syscall"
  /\ UNCHANGED <<gdt, esp0, live, idx_reserve, running, asked>>

asm_timer_interrupt_handler ==
  /\ mode = "user"
  /\ cpu.flags >= InterruptFlag
  /\ INTERRUPT_HANDLER_PROLOGUE(cpu)
  /\ mode' = "timer"
  /\ UNCHANGED <<gdt, esp0, live, idx_reserve, running, asked>>

\* Any other interrupt or exception: the prologue, then task_fatal or fatal.
\* The registers that are saved are not read again.
asm_default_interrupt_handler ==
  /\ mode = "user"
  /\ mode' = "halted"
  /\ UNCHANGED <<memory, cpu, gdt, esp0, live, idx_reserve, running, asked>>

-----------------------------------------------------------------------------
(* Out of the kernel.                                                      *)

\* load_ds_reg, then popa and iret, starting at the first word of the context.
\* popa skips the esp that pusha pushed.
popa_iret(m, ctx) ==
  [f \in Registers |-> Field(m, ctx, IF f = "ds" THEN "ss" ELSE f)]

\* The descriptors of the thread, for privilege 3.
descriptors(start, size) ==
  [code |-> create_code_descriptor(Bits(start), Bits(size), {0, 1}),
   data |-> create_data_descriptor(Bits(start), Bits(size), {0, 1})]

\* Fault: room for the frame of an interrupt without change of privilege.
hw_context_switch_no_idle_intra(m, ctx) ==
  /\ esp0' = ctx + PushaWords + 3
  /\ gdt' = descriptors(Field(m, ctx, "start_address"), Field(m, ctx, "memsize"))
  /\ cpu' = popa_iret(m, ctx)
  /\ mode' = "user"

\* m is the memory that the handler leaves.
hw_context_switch_no_idle(m, ctx) ==
  /\ esp0' = ctx + PushaWords + FrameWords
  /\ gdt' = descriptors(Field(m, ctx, "start_address"), Field(m, ctx, "memsize"))
  /\ cpu' = popa_iret(m, ctx)
  /\ mode' = "user"

\* sched_choose_next or sched_maybe_preempt, then hw_context_switch.
Reschedule ==
  \E c \in live : /\ hw_context_switch_no_idle(memory, Address(c))
                  /\ running' = c

\* Fault: the two arguments that pass over the stack are swapped.
yield_increments_swapped ==
  <<(cpu.edx * WORD + cpu.ecx) % (WORD * WORD), (cpu.edi * WORD + cpu.esi) % (WORD * WORD)>>

\* incr_wakeup and incr_deadline.  The first two words arrive in registers, as
\* regparm(3) asks; syscall_yield has pushed edi and esi for the other two.
yield_increments ==
  <<(cpu.edx * WORD + cpu.ecx) % (WORD * WORD), (cpu.esi * WORD + cpu.edi) % (WORD * WORD)>>

\* The increments go to the scheduler (HighLevel), which picks the next thread.
c_syscall_yield ==
  /\ mode = "syscall"
  /\ cpu.ebx = SYSCALL_YIELD
  /\ asked' = [asked EXCEPT ![running] = <<0, 0>>]
  /\ Reschedule
  /\ UNCHANGED <<memory, live, idx_reserve>>

\* syscall_putchar, and syscall_trigger_bug without INJECT_BUG: neither touches
\* the contexts.
syscall_putchar ==
  /\ mode = "syscall"
  /\ cpu.ebx \in {SYSCALL_PUTCHAR, SYSCALL_TRIGGER_BUG}
  /\ hw_context_switch_no_idle(memory, cpu.eax)
  /\ UNCHANGED <<memory, live, idx_reserve, running, asked>>

copy_context(m, dest, src) ==
  [a \in Addresses |-> IF a >= dest /\ a < dest + ContextWords
                       THEN m[src + (a - dest)] ELSE m[a]]

hw_context_set_return1(m, ctx, ret1) == [m EXCEPT ![ctx + Offset.eax] = ret1]

syscall_dup_thread ==
  /\ mode = "syscall"
  /\ cpu.ebx = SYSCALL_DUP_THREAD
  /\ Field(memory, cpu.eax, "range") # 0
  /\ idx_reserve # 0
  /\ LET ctx == cpu.eax
         ctx2 == Address(nb_tasks + idx_reserve - 1)
         fresh == [memory EXCEPT ![ctx2 + Offset.range] = 0]
         copied == copy_context(fresh, ctx2, ctx)
         m == hw_context_set_return1(hw_context_set_return1(copied, ctx, 1), ctx2, 0)
     IN  /\ memory' = m
         /\ hw_context_switch_no_idle(m, ctx)
  /\ idx_reserve' = idx_reserve - 1
  /\ live' = live \cup {nb_tasks + idx_reserve - 1}
  /\ UNCHANGED <<running, asked>>

\* The two calls of fatal in syscall_dup_thread.
dup_thread_fatal ==
  /\ mode = "syscall"
  /\ cpu.ebx = SYSCALL_DUP_THREAD
  /\ Field(memory, cpu.eax, "range") = 0 \/ idx_reserve = 0
  /\ mode' = "halted"
  /\ UNCHANGED <<memory, cpu, gdt, esp0, live, idx_reserve, running, asked>>

high_level_timer_interrupt_handler ==
  /\ mode = "timer"
  /\ Reschedule
  /\ UNCHANGED <<memory, live, idx_reserve, asked>>

-----------------------------------------------------------------------------
(* Boot.                                                                   *)

\* hw_context_init and the range that context_init sets: the fields that are
\* not named keep the zeros of static storage.
hw_context_init(pid, pc, start, end) ==
  [f \in DOMAIN Offset |->
     CASE f = "eax" -> pid
       [] f = "eip" -> pc
       [] f = "cs" -> gdt_segment_selector(3, USER_CODE_SEGMENT_INDEX)
       [] f = "ss" -> gdt_segment_selector(3, USER_DATA_SEGMENT_INDEX)
       [] f = "flags" -> 2 + InterruptFlag
       [] f = "start_address" -> start
       [] f = "memsize" -> end - start
       [] f = "range" -> CONTEXTS_PER_TASK
       [] OTHER -> 0]

\* The tasks, the reserve (like task 0) and idle: which image a context starts in.
InitialContext(c) ==
  LET i == IF c \in Tasks \cup {context_idle} THEN c ELSE 0
      pid == IF c \in Tasks THEN c * CONTEXTS_PER_TASK ELSE 0
  IN  hw_context_init(pid, 0, task_begin[i], task_end[i])

high_level_init ==
  /\ mode = "boot"
  /\ memory' = [a \in Addresses |->
                  InitialContext(a \div ContextWords)[
                    CHOOSE f \in DOMAIN Offset : Offset[f] = a % ContextWords]]
  /\ mode' = "ready"
  /\ UNCHANGED <<cpu, gdt, esp0, live, idx_reserve, running, asked>>

boot ==
  /\ mode = "ready"
  /\ Reschedule
  /\ UNCHANGED <<memory, live, idx_reserve, asked>>

\* The kernel's own registers and descriptors, as low_level_init leaves them.
Init ==
  /\ memory = [a \in Addresses |-> 0]
  /\ cpu = [f \in Registers |-> 0]
  /\ gdt = [code |-> {}, data |-> {}]
  /\ esp0 = 0
  /\ mode = "boot"
  /\ live = Tasks \cup {context_idle}
  /\ idx_reserve = RESERVE_SIZE
  /\ running = context_idle
  /\ asked = [c \in Contexts |-> <<0, 0>>]

Next ==
  \/ high_level_init
  \/ boot
  \/ UserInstruction
  \/ asm_syscall_handler
  \/ asm_timer_interrupt_handler
  \/ asm_default_interrupt_handler
  \/ c_syscall_yield
  \/ syscall_putchar
  \/ syscall_dup_thread
  \/ dup_thread_fatal
  \/ high_level_timer_interrupt_handler

Spec == Init /\ [][Next]_vars

-----------------------------------------------------------------------------
(* What the threads see.                                                   *)

\* A segment of a thread whose image is at start: the 20 bits of the limit,
\* privilege 3, readable code or writable data.  Numbers are sets of bits, as in
\* Descriptors.
Segment(start, size, type) ==
  [base |-> Bits(start), limit |-> Bits(size) \cap 0 .. 19, privilege |-> {0, 1},
   present |-> TRUE, type |-> type]
Segments(start, size) ==
  [code |-> Segment(start, size, {4, 3, 1}), data |-> Segment(start, size, {4, 1})]

\* A thread that does not run finds its registers and segments in its context,
\* the one that runs finds them in the CPU and in the GDT.
View(c) ==
  IF mode = "user" /\ c = running
  THEN [regs |-> cpu, segments |-> [k \in {"code", "data"} |-> cpu_segment(gdt[k])]]
  ELSE [regs |-> popa_iret(memory, Address(c)),
        segments |-> Segments(Field(memory, Address(c), "start_address"),
                              Field(memory, Address(c), "memsize"))]

InitialView(c) ==
  LET ctx == InitialContext(c)
  IN  [regs |-> [f \in Registers |-> IF f = "ds" THEN ctx.ss ELSE ctx[f]],
       segments |-> Segments(ctx.start_address, ctx.memsize)]

Phase ==
  CASE mode = "boot" -> "off"
    [] mode \in {"ready", "timer"} -> "resched"
    [] mode = "syscall" -> IF cpu.ebx = SYSCALL_YIELD THEN "resched" ELSE "call"
    [] OTHER -> mode

Machine == INSTANCE ThreadMachine WITH
  Threads <- Contexts, Idle <- context_idle, InitialThreads <- Tasks,
  InitialView <- InitialView, Behind <- 0,
  view <- [c \in Contexts |-> View(c)], live <- live, running <- running, phase <- Phase

\* Every thread seems to own the CPU: whatever interrupts it and whoever runs in
\* between, it goes on with the registers and the segments it had, and only
\* dup_thread changes one of them, to 1 in the caller and to 0 in the copy
\* (INTERRUPT_HANDLER_PROLOGUE, hw_context_switch_no_idle, syscall_dup_thread).
ThreadsOwnTheCPU == Machine!Spec

TypeOK ==
  /\ memory \in [Addresses -> Nat]
  /\ cpu \in [Registers -> Nat]
  /\ gdt \in [{"code", "data"} -> SUBSET (0 .. 63)]
  /\ esp0 \in Nat
  /\ mode \in {"boot", "ready", "user", "syscall", "timer", "halted"}
  /\ live \subseteq Contexts
  /\ idx_reserve \in 0 .. RESERVE_SIZE
  /\ running \in Contexts
  /\ asked \in [Contexts -> Nat \X Nat]

\* The stack pointer of the TSS always leads into the context of the thread that
\* runs, and a handler is given the context of the thread that it interrupted
\* (the cast in high_level_timer_interrupt_handler, the ctx of the system calls).
HandlerGetsCaller ==
  /\ mode = "user" => esp0 = Address(running) + PushaWords + FrameWords
  /\ mode \in {"syscall", "timer"} => cpu.eax = Address(running)

\* The 64-bit durations that a thread passes to yield are the ones that the
\* kernel adds to its dates: they cross in four registers, two of which take a
\* detour over the kernel's stack (syscall_yield).
YieldArrives ==
  mode = "syscall" /\ cpu.ebx = SYSCALL_YIELD => yield_increments = asked[running]
=============================================================================
