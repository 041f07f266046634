# CS24-Projects in TLA+

The repository holds one student's labs of Caltech's CS 24: small C and assembly
systems that have little in common except that most of them implement something an
operating system usually provides. This directory models those with state worth
modelling, checks them with TLC and proves with TLAPS what matters most about nine of them.

## 1. Inventory

| Component | State | Operations | Hard behaviour | Status |
|---|---|---|---|---|
| lab07 scheduler, switch, timer (`sthread.c`, `glue.s`, `timer.c`) | `scheduler_lock`, `current`, `ready_queue`, `blocked_queue`, thread states | `__sthread_scheduler`, `__sthread_switch`, `timer_action`, `sthread_start` | SIGALRM between any two instructions | `Scheduler` |
| lab07 thread API (`sthread.c`) | the same | create, yield, block, unblock, finish | check before lock, nested locks | `SThread`, `SThreadProofs` |
| lab07 semaphores (`semaphore.c`) | value, queue of waiters | wait, signal | lost wake-ups, barging | `Semaphore`, `BoundedBufferProofs`, `AbstractSemaphore` |
| lab07 bounded buffer (`bounded_buffer.c`, `fibtest.c`) | ring, `first`, `count`, three semaphores | add, take | preemption inside the mutex | `BoundedBuffer`, `BoundedBufferProofs`, `AbstractBuffer` |
| lab07 and lab08 queues (`queue.c`) | doubly linked list, a node of memory for each element | append, take, remove, empty, clear | pointer surgery, nodes freed and used again | `LinkedQueue`, `AllocatorProofs`, `AbstractQueue` |
| lab08 virtual memory (`virtualmem.c`) | page table, frames, swap file, `num_resident` | SIGSEGV and SIGALRM handlers, map, unmap, cleanup | faults and ticks interleave; dirty data | `VirtualMem`, `VirtualMemProofs`, `AbstractMemory` |
| lab08 policies (`vmpolicy_*.c`) | list of loaded pages, ages | mapped, tick, choose, cleanup | two arrays reordered together | `VirtualMem`, `VirtualMemProofs` |
| lab08 `vmalloc.c`, matrix test | a bump pointer | | | client of `VirtualMem` |
| final lock-free accumulator (`accum.c`, `cmp_swap.s`) | one word | `add_to_accum` | threads in parallel, ABA | `Accum`, `AccumProofs`, `AbstractAccumulator` |
| lab06 cooperative threads (`sthread.c`, `queue.c`, `glue.s`) | two doubly linked lists, thread states, stacks and registers | create, yield, block, unblock, finish, the scheduler | links that outlive membership; a context pushed in one routine and popped in another | `Cooperative`, `CooperativeProofs`, `AbstractThreads` |
| lab03 heap allocator (`mm.c`) and its driver (`mdriver.c`, `memlib.c`) | the words of the heap: boundary tags, free list as offsets | malloc, free, realloc, calloc | coalescing and splitting update tags and list apart; no memory left | `Heap`, `HeapProofs` |
| midterm small objects (`smallobj.c`) and tester (`tester.c`) | a list of chunks, each with three descriptions of its slots | alloc, free; `run_test` | three counters to keep in step; addresses that come again | `SmallObjects`, `SmallObjectsTest`, `AllocatorProofs` |
| lab04 subpython collector (`alloc.c`, `global.c`) | two halves of a pool, table of references | allocate, stop and copy | every allocation may move every Value; fields nobody initialises | `Collector` |
| lab04 evaluator (`eval.c`, `ast.c`, `repl.c`) | variables and temporaries (the roots) | every expression and statement | references held in C locals; errors unwind by longjmp | `Ast`, `Evaluator`, `Subpython` |
| lab04 reader (`grammar.l.c`, `grammar.y.c`) | queue of tokens, stack of indentations, the parser's stack | `yylex`, `yyparse`, the prompts | when to ask for a line, several dedents at once, pointers into the scanner's buffer | `Lexer`, `Parser`, `Listing` |
| lab01 processor (`proc/*.c`) | pins, registers, instruction store, program counter | one clock per component | order of clocks | `Processor`, `InstructionSet` |
| lab07 lock test, lab01 bits and floats and tools, lab02 assembly, lab03 timing, final sorting, lab06 system calls | | | | not modelled (section 7) |

How they interact. Within lab07 everything is one process: the API and the semaphores
take `scheduler_lock` and enter `__sthread_switch`; the timer's signal handler tries the
same lock and, if it gets it, makes the interrupted code enter `__sthread_switch` when the
signal returns. The semaphores call `sthread_block` and `sthread_unblock` with the lock
already held, and rely on those to release it. The buffer calls only the semaphores. In
lab08 the program faults into the SIGSEGV handler, which calls the policy, and the SIGALRM
handler calls the policy's tick; SIGALRM is masked during SIGSEGV. The accumulator's
threads share one word. In lab06 threads call the library and switch only there. The
drivers of lab03 and of the midterm call their allocator and check what they get. In lab04
the loop of `repl.c` gives each statement a scanner and a parser; the parser calls the
scanner for a token where its tables need one, the scanner asks the user for a line where it
has none, and the tree goes to the evaluator, which allocates Values and thereby runs the
collector, whose roots are the evaluator's variables. In lab01 components see one another
through buses only, and the control unit clocks them in turn. The labs share no code at run
time.

What makes each correct is the list of properties in section 3; the hazards they are for,
with the line where each bites, are in `PROJECT.json`.

## 2. Modules

    Scheduler  <-- SThread              Accum -- AbstractAccumulator
        ^--------- Semaphore <-- BoundedBuffer
                       |               |
             AbstractSemaphore    AbstractBuffer

    VirtualMem -- AbstractMemory        Cooperative -- AbstractThreads
    LinkedQueue -- AbstractQueue        Processor -- InstructionSet
    SmallObjects <-- SmallObjectsTest   Heap

    Collector <-- Evaluator <--+
    Lexer, Ast <-- Parser <----+--- Subpython
    Lexer, Ast <-- Listing <---+

    QueueLemmas <-- SThreadProofs, VirtualMemProofs, CooperativeProofs, AllocatorProofs,
                    HeapProofs, BoundedBufferProofs;            AccumProofs

`MC*.tla` and `MC*.cfg` instantiate these for TLC.

**Scheduler** has one variable for each global of `sthread.c` and `glue.s` and `cpu`, which
says what the CPU executes: `main`, the gap inside `sthread_start`, a thread, or one of the
three parts of the switch. The parts are steps of their own because the lock is what keeps
the timer out of them. `TimerTick` needs the lock to be free; a tick that finds it held
changes nothing and is a stuttering step.

**SThread** adds a program counter per thread: one action for the lock and one for what
follows, so the signal can come between any two. A client is arbitrary: a thread outside
the library may call anything, or compute for ever. `SoleUnblocker` is an assumption about
clients: no two threads unblock the same one. The run `sthread` makes it, `sthread_unblockers`
shows what happens without it (section 4).

**Semaphore** is `semaphore.c` with the bodies of block and unblock inlined at the point
where the code calls them, because their lock is already taken and their unlock is the one
that ends the outer operation. That is why `Leave` stands for three unlocks.

**BoundedBuffer** is `bounded_buffer.c` and the two loops of `fibtest.c`. `stage` is the
place in add or take; a call of a semaphore advances it at once and the thread is busy in
`Semaphore` until `pc` is `user` again.

**VirtualMem** has the page table entry as a record of the bits of `virtualmem.h`. Each fault
is one step, as SIGALRM is masked in the handler; each tick is one step. The three policies
share one module: they differ in which place of the list may be evicted (`MayEvict`) and in
how the list closes up (`Without`), and only aging has a tick. The ages are kept under every
policy and used under aging only. `idle` is a history variable for one property.

**Accum** makes each load and the compare-and-swap a step.

**Cooperative** takes a call of the library with the switch it makes as one step, since
nothing interrupts it. What can go wrong is in the data: the links of `queue.c` are two
functions from threads to threads, stale ones included, and a struct that was freed may be
used again; `Chain` is the one order of a queue's members that the links from its head to its
tail represent, if there is one, and only the properties use it. `called` is an auxiliary
variable that flips at each call, so that a thread that yields and is resumed at once has
taken a step. A stack is the sequence of what is on it, and the two routines of `glue.s` that
push and pop it, and the one that builds a first context, are three sequences of registers
of their own. `AbstractThreads` is a queue and a set.

**Heap** keeps the words of memory as integers, with sizes, allocated bits and offsets where
`mm.c` keeps them; an operation of the allocator is an operator from one heap record to the
next, with the names of the source. The actions are the requests of a trace as
`eval_mm_valid` makes them, which also writes the data it will look for. **SmallObjects** is
`smallobj.c` in the same style, and **SmallObjectsTest** the loop of `run_test`, one entry per
step.

**LinkedQueue** has the fields of the nodes that are allocated; a use of one that was freed finds
no such node. `Chain` follows the links from the head as far as there are nodes. It is the `queue.c` of lab07 and of lab08, which differ in the type of an element
and in `queue_clear`. `Scheduler`, `Semaphore` and `VirtualMem` take a queue to be a sequence,
with `Append`, `Head` and `Tail`, and `RemoveFirst`: `AbstractQueue` has these operations, so
that the refinement justifies them.

**Collector**, **Evaluator** and the expressions of **Subpython** are sequential C, so each
function is an operator on a record that holds the state of the interpreter: the Values by
address, the table of references, the pointers of the pool, and the variables. Each step in
which the code allocates is a call of `mm_malloc`, in the order of the source, because each
may collect. An error is a status that all operators pass on until `Settle`, where the
`longjmp` arrives. `Half` is in bytes. Numbers are fractions, integers wrap at `IntBits` bits.
`endless` turns the collector off; that is the reference for `CollectionIsInvisible`.

**Lexer** has the rules of the scanner over units of text (a blank, a newline, the characters
of one token) instead of characters, with the queue of tokens and the stack of indentations.
**Parser** has the tables of `grammar.y.c` as they are and the automaton around them: shift,
reduce, default and goto, and the action of each rule. The text of a name is a pointer into
the scanner's buffer, so a value remembers the call of `yylex` it came from and is `Stale`
after the next one. **Listing** is not a translation: it writes a tree as a Python programmer
would, with the precedences of Python, and serves as the reference for the two. In
**Subpython** the user types a statement line by line (`Type`, `TypeOn`), types something
that is none (`Slip`), or ends the input; `Evaluate` is the rest of the loop of `repl.c`.

**Processor** has a variable for the pins and an action per component; `clocked` is the order
in which the control unit clocks them. **InstructionSet** executes an instruction at a time,
with operations defined on numbers where the ALU works on bits. It lets the program run past
the store, as the code does.

`MCLabs` puts the labs that share nothing and are small into one run: `system` says which of
them (`Heap`, `SmallObjectsTest`, `LinkedQueue`, `Accum`, `Processor`) a behaviour is about.

The abstract modules say in a few actions what the headers promise.

## 3. Runs

| Run | Instance | Distinct states | What it shows |
|---|---|---|---|
| `sthread` | 4 threads | 13 910 | `LockDiscipline`, `QueuesMatchStates`, `VerdictIsRight`; `ReadyNotOvertaken`; `ReadyGetsToRun` |
| `semaphore` | 4 threads, one semaphore of value 1, up to 2 | 11 688 | `WaitersAreBlocked`, `NoLostWakeup`; implements `AbstractSemaphore`; `NobodySleepsOnPermits` |
| `bounded_buffer` | 2 producers, 1 consumer, 2 slots, 2 elements | 377 886 | `OneThreadInside`, `PermitsAddUp`, `SlotsMatchCount`, `NeverDeadlocked`; implements `AbstractBuffer`; `ElementsKeepFlowing` |
| `virtual_mem` | 3 pages, 2 resident, 2 values, ages of 2 bits, all policies | 616 784 | `PolicyTracksResidents`, `ChangesAreNoticed`; implements `AbstractMemory`; `VictimIsLeastRecent`; `AccessesComplete` |
| `cooperative` | 4 threads | 28 098 | `ContextIsOwn`; implements `AbstractThreads`; `TakesTurns` |
| `labs` | heap of 112 bytes, 3 blocks of 0, 8 or 24 bytes, 7 requests; chunks of 2 objects, 4 live, 6 in all; a queue of 3 elements in 4 nodes; 3 threads, 2 additions each, no wrap; 20 bits, store of 20, 60 instructions | 266 416 | `HeapIsConsistent`, `DataIsSafe`; `ObjectsAreSafe`, `BookkeepingAgrees`, `PoolTestEnds`; `LinkedQueue` implements `AbstractQueue`; `Accum` implements `AbstractAccumulator`, `AdditionsEnd`; `Processor` implements `InstructionSet`, `ProgramsCompute` |
| `subpython` | sessions of 4 of 14 statements, 11 slips, 2 halves of 172 bytes | 37 646 | `ReadsWhatIsTyped`; `HeapIsWellFormed`, `CollectionIsInvisible`, `CollectsAllGarbage`, `ErrorsChangeNothing` |
| `sthread_boot`, `sthread_unblockers`, `accum_opposite`, `subpy_careless`, `subpy_brimful` | | | section 4 |

Bounds, and why they are enough. Four threads let two unblock, one be unblocked and one wait
in line between them. In `Semaphore`, `MaxValue` stops a client from signalling for ever; with
value 2 a signal can find the value at zero, at one, and with threads asleep at a positive
value. Two slots make `first` and `count` wrap and the buffer be full, empty and neither;
two producers compete for the last slot. The bounded buffer needs no `MaxValue`: its values
are bounded by `PermitsAddUp`. Three pages over two frames force an eviction on each load
once the memory is full, and leave a choice of victim. `MaxTicks` bounds the ticks during one
access (see fairness) and none bounds them between accesses. Ages of two bits saturate
within the run, as eight do in eight ticks. `Calls` bounds the loop of `thread_func`.

Four cooperative threads make each list long enough to take from its middle. In a heap of 112
bytes four smallest blocks fit, so that a block can be freed between two others, with none,
one or both neighbours free, a hole can be too small, split or just fit, and the heap can be
full; seven requests reach all of these (coverage is complete), and `MaxRequests` bounds only
the length of the trace. Two objects to a chunk make it empty, half full and full; four
live ones need two chunks; six in all outlive the first round. In a queue of up to four nodes an
element can be removed at either end and between two others, twice in a row, and the next one
takes any node that is free; three elements let one be queued twice.

`Half` is chosen so that a handful of lists fill a half: nearly every session collects, many
several times, and some run out of memory. The statements cover every kind of expression and
statement; `MaxLines` bounds how many are run, while slips and abandoned statements are not
counted. `MCScripts` holds, beside the sessions, every operator under every other on
either side, and nested blocks that end several at once, each read as a file. `Junk` is what
lies in memory that nobody cleared. For the processor all pairs of twelve instructions come in
a program that may run past its end, with what lies behind the store arbitrary from `Behind`;
the two programs `ifib` and `divider` run for inputs up to their loops' interesting cases,
some of which exceed `MaxTime`.

Fairness. The CPU goes on executing: weak fairness of the switch and of a step of the
library. The interval timer fires again and again: weak fairness of the tick (which is
enabled whenever the lock is free). A thread in the semaphore or the buffer can be
preempted before its next step each time it runs, which would disable the step for ever
under weak fairness; a slice of 500 microseconds is far longer than a step, so such a
thread gets strong fairness. Nothing is assumed about clients of `SThread` and
`Semaphore`; the threads of `fibtest.c` loop for ever, so those of `BoundedBuffer` are
fair. A single thread can be overtaken at a semaphore by others that come later (the wait
loop tests the value again), so only the progress of somebody is claimed. In `VirtualMem` the
instruction is retried after each fault; ticks come every 10 milliseconds, so at most
`MaxTicks` of them fall within one access. The kernel runs each thread of `Accum`. The
midterm's tester is one thread that nothing stops. A cooperative thread is assumed to call
the library again and again (`WF_vars(Calls)`); without that nobody else runs, and nothing
could be claimed. A yield that resumes its caller is such a call (it flips `called`), so a
thread need not ever block or finish, and one that yields for ever and keeps the processor
is among the behaviours: it is the exception `TakesTurns` makes, and no other thread may starve
the rest. `Subpython` and `Processor` have no liveness properties: a program need not
end.

`CHECK_DEADLOCK` is off for `labs` and `cooperative`: a trace of requests ends,
the pool's test ends, a queue is cleared, a cooperative process ends or is stuck, and a processor stops at DONE or
when its time is up. The accumulator's additions
must all end, by `AdditionsEnd`. Elsewhere it stays on, and the systems that end do so in states with
an explicit stuttering action (`Stopped`, `Over`, `Ended`).

`Careful` limits the sessions of `subpython` to what the collector can cope with: see
`subpy_careless` and `subpy_brimful` in section 4 and `Fine` in the module. `Evaluate` passes over a statement that is
not fine as if it had not been typed.

Each property of a passing run has a mutant, listed in `PROJECT.json`: an operator next to a
definition that changes it as a plausible bug would, under which TLC finds that property
violated.

## 4. Where the code and its comments disagree

* `sthread_boot`. `sthread_start` arms the timer before it takes the lock. A signal in
  between switches on `scheduler_context` before that is set; in the window of a few
  instructions out of 500 microseconds no test will see it.
* `sthread_unblockers`. `sthread_unblock` asserts that the thread is blocked *before* it takes
  the lock, and does not look again. Of two threads that unblock the same one, both may pass the
  assertion before either has the lock; the second then queues a thread that is queued
  or runs already. `semaphore.c`, the only caller in the repository, holds the lock when it calls.
* `accum_opposite`. `add_to_accum` loads the word twice per attempt. When additions between
  the loads cancel out before the compare-and-swap, it stores a total that counts one of
  them and not the other. Values whose sum does not wrap, as in `testaccum.c`, cannot
  do that, and then it is correct (`labs`).
* `subpy_careless`. `eval_main` keeps the reference of an assigned value in a local while
  `eval_expr_lval` evaluates the left side. If that allocates and collects, the value is gone
  and its reference may go to the next Value: after `a = ["7", None]`, the statement
  `a[0] = "9"` can leave the integer 0 in `a[0]`. Deletions and dict displays have the same
  gap (`Unprotected`). Operands and arguments are protected by temporaries, as
  the comments in `eval.c` ask for.
* `subpy_brimful`. The collector's tests for a Value already copied miss the one at the very start
  of the upper half (`alloc.c:418`); a third test finds it, unless the lower half is full to the
  last byte (`Brimful`): then that Value, `None`, is copied once for each reference to it. With
  halves of 138 bytes, `a = ["7", None]` gets there.

Not findings, as nothing in the repository says otherwise, but good to know; the models
contain them unless section 7 says so:

* A cooperative thread that was alone when it was chosen keeps a null link and resumes
  itself at each yield, whoever became ready since; "If there is one or fewer threads in the
  system" (lab06 `sthread.c:138`) is meant to be tested there. `AbstractThreads` has this as
  `hogging` and `TakesTurns` as the only exception.
* `len` of a string counts its terminating zero; `<` on lists compares element by element but
  is not the lexicographic order; two lists that contain themselves compare for ever; an
  integer `%` of zero is a division by zero in C; `a[b] = x` stores under keys a display
  refuses; an assignment to a new key of a dict may abort when memory runs out half-way.
* The reader: comparisons do not chain (`a < b < c` is a syntax error); a file whose last
  line has no newline is one too; a line of blanks counts as a line indented by one blank
  less, so that two blanks at the prompt are an indentation; no rule handles the error
  token, so one error abandons everything typed so far. The pointers to a name's text are
  never followed too late, because the two rules that copy it reduce without a lookahead.
* `realloc` (lab03) copies from its block as many bytes as the header says, tag bits and footer
  included, and reads past a block's payload; the test in `mm_init`
  compares a byte with -1 and cannot succeed (`mem_sbrk`'s failure is noticed in `find_fit`);
  growing in place takes the whole neighbour. `calloc` clears through NULL when there is no memory.
* The program counter of the processor is not compared with the depth of the store.
* `convert.c` (lab01) adds digits to a variable that is never set.

## 5. Proofs

Everything in `PROJECT.json` under "theorems" is proved for every value of the constants, from
the named assumptions in the modules that declare them. Each proof finds an inductive
invariant, shows that it holds initially (`InitInv`) and that each action preserves it
(`StepInv`: one step per action, under it one per conjunct that the action disturbs), and
takes the property from it; where there is an abstract specification, every step is then shown to be
a step of it or a stutter. The invariants stand at the end of the modules they are about (that of
`VirtualMem` in its proofs).

`QueueLemmas` has what the others share: what `Append`, `Tail`, `RemoveFirst`, `RemoveAt` and
filling a gap with the last entry do to a sequence without repeats; and that a set of numbers has
a least element, the form in which induction along a list is available to these provers.

**SThreadProofs.** For any set of threads, assuming `SoleUnblocker`: `IndInv` is an invariant
(`SchedulerInvariant`), and from it follow the three invariants of the run `sthread` and the action
property `ReadyNotOvertaken`. The invariants are not inductive one by one. That the queues match
the states needs the lock (nobody else moves a thread meanwhile), who is current in each part
of the switch (`CurrentMatchesCpu`), and that the thread being unblocked is still blocked
(`TargetStillBlocked`); that in turn needs `OneUnblockerEach`, which is where `SoleUnblocker` enters.
Without the assumption the queues do go wrong, as `sthread_unblockers` shows.

**BoundedBufferProofs**, the semaphores. For any finite set of threads, any semaphores and initial values. `IndInv`
adds to the scheduler's invariants that a call has one semaphore (`OneArgument`), that who is in a
queue of waiters is blocked (`WaitersAreBlocked`) and that who sleeps is in the queue of
its semaphore (`SleepersAreQueued`). `NoLostWakeup` is inductive relative to it: it counts
the threads that are awake and have yet to test the value, which is why the threads are
finite (`FiniteThreadAssumption`). `ImplementsSemaphore`: each wait takes a permit that is
there, at the decrement, and each signal adds one at the increment.

**BoundedBufferProofs**, the buffer. For any finite producers and consumers and any `Length`. `BufferInv` joins
`IndInv` and `NoLostWakeup` of the semaphores with the rules of the buffer: where a thread is in add or
take determines its call (`StagesMatchCalls`), who is between wait and signal holds the mutex
alone (`MutexHeldOnce`), the values of `space` and `items` are what the stages leave of
`Length` and `count` (`PermitsMatchCount`), the slots hold elements as `first` and `count` say
(`SlotsMatchStages`), and the element a thread has in hand is one. `NeverDeadlocked`
needs all of it: if every thread slept, the values would be zero by
`NoLostWakeup`, and the sums could not be right. `ImplementsQueue` is the refinement; the
positions modulo `Length` are handled by lemmas about spans of the ring.

**VirtualMemProofs.** For any pages and values, any program, any `MaxResident` and each
policy. The three invariants of the run `virtual_mem` need one another and
`IndInv` is their conjunction: eviction takes the page from the policy's list, so the list
must hold resident pages only and each once, or the page at fault could be its own victim;
and a clean victim is dropped without being written, so a page that may be written must be
dirty. The refinement then has two parts. `ContentsKept`: no fault, eviction or tick changes
what the program would read (for the victim, because frame and slot agree once it is
unmapped). `StepsAreMemorySteps`: an access that is allowed is on a resident page, so it
reads or writes the page's contents. `VictimsAreLeastRecent` rests on `AgesTellIdle`: an
age lies between two powers of two given by how many ticks its page has been idle, until it
reaches zero. The provers do not interpret powers, so the one law they need is the assumption
`PowersAssumption`, which is arithmetic and which TLC evaluates.

**AccumProofs.** `ImplementsAccumulator` holds for any threads and calls under `SumsFit(m)`: no
call adds more than m and all of them together stay below the modulus. `testaccum.c` adds
at most 20 in each of 4 times 50 000 000 calls. Without it the statement is false, as
`accum_opposite` shows: `AccumInv` says that the word is at
most m for each addition that has landed, so that it never wraps and only grows, and that `new`
lies between `old` plus the value and the word plus the value; when the comparison then finds
`old`, both bounds are the same.

**CooperativeProofs.** For any set of threads and any order of calls: `ContextsSurvive` and
`ImplementsThreads`. `CoopInv` says that each list is an order of its members (`ListIsOrder`, with
the links of `prev` and `next` and both ends), that one thread runs, that those that wait have a
complete context on their stack, and `ContextIsOwn`. `OneOrder` shows that links
determine the order; the lemmas about append, take and remove give the new order for each
case of the pointer surgery; and the three sequences of registers are shown to be each other's
inverse.

**AllocatorProofs.** For chunks of any size, any number of objects, any ages and values and any
schedule of the tester, `PoolInv` is inductive: the types, `ObjectsAreSafe` and
`BookkeepingAgrees`. The two need one another: the slot that `find_next_avail` offers is free only
if hint, count and array agree, and freeing keeps them in agreement only if the object was in a
taken slot of a chunk of the pool. malloc always finds an address for a chunk because no chunk
is empty, so there are at most as many as live objects (`AnAddressIsUnused`).
The second part, `LinksAreASequence`: `LinkedQueue` implements `AbstractQueue` for any elements and
any finite set of nodes. `QueueInv` says that the nodes that exist are in an order
with the links that belong to it; `NthFollows` shows that following `next` from the head visits
that order, and `NodeIsAppended` and `NodeIsUnlinked` what each operation does to it.

**HeapProofs.** For a heap of any size that is a multiple of 8 and any trace of requests (sizes in
whole words, as the model has them). `HeapInv` says that there is a map from where blocks begin to
their sizes and bits which describes both the words of the heap and what the driver knows.
`Sound`: the blocks tile the heap, header and footer of each are its entry in the map, no two
free ones touch (`Apart`), and the offsets in the free blocks link exactly these, in an order
that starts at the front (`Chained`). `Stored`: each request that is open has a taken block of its own that is large
enough and holds its data, and there are no other taken blocks. Neither property is inductive
alone: a merge is right only if the neighbour's tags and links are, and data survives a split,
a merge or a copy only if what these write lies outside every other block's payload. In the
middle of an operation two free blocks may touch and a block may be off the list; `Loose` is
`Sound` without these two. Each routine has a lemma that gives the map after it and the
words it leaves alone: `FreeWorks` with the four cases of coalescing, `GrowWorks`,
`WholeWorks` and `SplitWorks` for the ways of `find_fit`, `ExpandWorks`, `FillWorks`,
`CopyWorks`; on these rest one step each for malloc, calloc, realloc and free. `FreeWalkEnds` and
`BlocksAreMet` connect the invariant with the walks in the code and in the properties: they end,
because at most `MaxBlocks` blocks fit into the heap.

Two properties of the source's form came up in these proofs. `CASE` in TLA+ is
nondeterministic where guards overlap; a chain of tests in C is `IF` and `ELSE IF`, and is
written so. And `Nth`, `FreeAt` and `BlockAt` are recursive functions rather than operators, as are all recursive
definitions in modules with theorems.

Model-checked only: liveness (fairness and `ENABLED` are out of the prover's reach), and everything about `Subpython` and
`Processor`. Of these,
`Evaluator`, `Subpython`, `Lexer` and `Parser` need recursive operators (an expression in an
expression), and `Processor` bitwise operations, both out of the prover's reach; what a recursive
definition computes for every input would need induction over data, which is too.

## 6. Plan

Done: all modules of section 2; the proofs of section 5.

Every invariant, action property and refinement of the runs is proved but those of `Subpython` and
`Processor`, which stay with TLC for the reasons given at the end of section 5.

## 7. Not modelled

* Registers, stacks and the layout of a context in lab07 (`glue.s`): a context is where a
  thread has got to; `Cooperative` has them for lab06. What depends on the red zone below the
  interrupted stack pointer is not covered.
* The C library: malloc is not re-entrant, and may fail. Its failures end the program in all
  modelled code but two places that do not check: the ages of the aging policy and the
  free array of a chunk.
* A thread that ended is freed: a pointer to it that a client of lab07 kept would be dangling. The
  clients in the repository keep none; semaphores hold blocked threads only (`WaitersAreBlocked`).
* Uninitialised memory: `new_semaphore` and the FIFO policy allocate a queue and do not clear
  it; a limit of no pages at all makes the random policy divide by zero. The models start from
  the empty queue of fresh memory and a limit of at least one.
* lab04: characters and how flex's tables divide text into tokens, its buffer, locations and
  messages; the bounds of 1024 tokens and indentations (asserted); the pool the trees live
  in; floating-point rounding; the debug output of `print_globals` and `memdump`.
* lab03's trace files, utilisation and timing; the midterm's statistics.
* The unit test of the lab07 lock; the pure functions of lab01 and lab02; the sorting
  exercise and lab06's system calls, which keep no state between calls.
