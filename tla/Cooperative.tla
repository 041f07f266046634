----------------------------- MODULE Cooperative ------------------------------
(* The cooperative thread library of lab06: sthread.c, the doubly linked      *)
(* lists of queue.c, and the contexts that glue.s saves and restores.         *)
(*                                                                            *)
(* Between two calls of the library a thread is alone, so that a call with    *)
(* the switch it makes is one step. A thread's stack holds values, the top at *)
(* the end; cpu is where the running thread is, and its registers.            *)
EXTENDS Integers, FiniteSets, SequencesExt

CONSTANTS Threads, NULL     \* struct _thread at its address, and no address

ASSUME ThreadsAssumption == NULL \notin Threads

VARIABLES
    state,      \* threadp->state; "none" where no struct is
    lists,      \* threadp->prev and ->next, and the two queues
    current,
    stack,      \* what is in the memory a thread's context lies in
    cpu,
    outcome,    \* "main" until sthread_start, "running", and how the process ended
    called      \* flips with each call of Calls: also one that resumes its caller, and may
                \* leave all else as it was, is a step

vars == <<state, lists, current, stack, cpu, outcome, called>>

-----------------------------------------------------------------------------
(* queue.c *)

Empty == [head |-> NULL, tail |-> NULL]

queue_append(l, q, t) ==
    LET last == l[q].tail
    IN  IF l[q].head = NULL
        THEN [l EXCEPT !.prev[t] = NULL, !.next[t] = NULL, ![q] = [head |-> t, tail |-> t]]
        ELSE [l EXCEPT !.prev[t] = last, !.next = [@ EXCEPT ![last] = t, ![t] = NULL],
                       ![q].tail = t]

\* The one taken keeps its link to the one behind.
queue_take(l, q) ==
    LET first == l[q].head
    IN  IF first = l[q].tail THEN [l EXCEPT ![q] = Empty]
        ELSE [l EXCEPT !.prev[l.next[first]] = NULL, ![q].head = l.next[first]]

\* Leaves the tail at a thread that has gone.
queue_remove_keeps_tail(l, q, t) ==
    LET p == l.prev[t]
        n == l.next[t]
    IN  [l EXCEPT !.next = IF p = NULL THEN @ ELSE [@ EXCEPT ![p] = n],
                  !.prev = IF n = NULL THEN @ ELSE [@ EXCEPT ![n] = p],
                  ![q].head = IF @ = t THEN n ELSE @]

queue_remove(l, q, t) ==
    LET p == l.prev[t]
        n == l.next[t]
    IN  [l EXCEPT !.next = IF p = NULL THEN @ ELSE [@ EXCEPT ![p] = n],
                  !.prev = IF n = NULL THEN @ ELSE [@ EXCEPT ![n] = p],
                  ![q].head = IF @ = t THEN n ELSE @,
                  ![q].tail = IF @ = t THEN p ELSE @]

-----------------------------------------------------------------------------
(* glue.s *)

pushed == <<"rax", "rbx", "rcx", "rdx", "rsi", "rdi", "rbp", "r8",
            "r9", "r10", "r11", "r12", "r13", "r14", "r15", "rflags">>

\* With two pops exchanged.
popped_out_of_order == <<"rflags", "r15", "r14", "r13", "r12", "r11", "r10", "r9",
                         "r8", "rdi", "rbp", "rsi", "rdx", "rcx", "rbx", "rax">>

popped == <<"rflags", "r15", "r14", "r13", "r12", "r11", "r10", "r9",
            "r8", "rbp", "rdi", "rsi", "rdx", "rcx", "rbx", "rax">>

Registers == {pushed[k] : k \in DOMAIN pushed}
Zero == <<>>    \* the other values are a thread and what it means to it

\* __sthread_initialize_context, in the order of its pushes.
initialize_context(f, arg) ==
    <<"__sthread_finish", f>> \o [k \in 1 .. 16 |-> IF k = 6 THEN arg ELSE Zero]

\* The first part of __sthread_switch, behind the return address of its call.
Save(s, from, regs) == Append(s, from) \o [k \in DOMAIN pushed |-> regs[pushed[k]]]

\* __sthread_restore, for the thread whose context the scheduler returns.
Restore(t, stacks) ==
    LET s == stacks[t]
        n == Len(s)
    IN  /\ cpu' = [pc |-> s[n - Len(popped)],
                   regs |-> [r \in Registers |-> s[n + 1 - (CHOOSE k \in DOMAIN popped : popped[k] = r)]]]
        /\ stack' = [stacks EXCEPT ![t] = SubSeq(s, 1, n - Len(popped) - 1)]

-----------------------------------------------------------------------------
(* sthread.c *)

enqueue_thread(l, t, st) == queue_append(l, IF st = "Ready" THEN "ready" ELSE "blocked", t)

\* The second half of __sthread_scheduler: the first ready thread, or the end.
Select(st, l, stacks) ==
    IF l.ready.head # NULL
    THEN /\ current' = l.ready.head
         /\ lists' = queue_take(l, "ready")
         /\ state' = [st EXCEPT ![l.ready.head] = "Running"]
         /\ Restore(l.ready.head, stacks)
         /\ outcome' = "running"
    ELSE /\ outcome' = IF l.blocked.head = NULL THEN "completed" ELSE "stuck"
         /\ state' = st
         /\ lists' = l
         /\ stack' = stacks
         /\ UNCHANGED <<current, cpu>>

\* Looks at the link to the one in front, which the one taken never has.
ResumesByPrev == lists.ready.head = NULL \/ lists.prev[current] = NULL

\* "If there is one or fewer threads in the system": the link is the one it had when it
\* was taken from the ready queue.
Resumes == lists.ready.head = NULL \/ lists.next[current] = NULL

\* __sthread_switch from `from`, by a running thread with values of its own in the registers.
Switch(st, from) ==
    LET own == [r \in Registers |-> <<current, r>>]
        stacks == [stack EXCEPT ![current] = Save(@, from, own)]
        queued == IF st = "Running" THEN "Ready" ELSE st
    IN  IF st = "Running" /\ Resumes
        THEN Restore(current, stacks) /\ UNCHANGED <<state, lists, current, outcome>>
        ELSE IF st = "Finished"
        THEN Select([state EXCEPT ![current] = "none"], lists, [stack EXCEPT ![current] = <<>>])
        ELSE Select([state EXCEPT ![current] = queued], enqueue_thread(lists, current, queued), stacks)

\* By main or by a thread. A struct may come to lie where an earlier one has been.
sthread_create(t) ==
    /\ outcome \in {"main", "running"}
    /\ state[t] = "none"
    /\ state' = [state EXCEPT ![t] = "Ready"]
    /\ stack' = [stack EXCEPT ![t] = initialize_context("f", <<t, "arg">>)]
    /\ lists' = enqueue_thread(lists, t, "Ready")
    /\ UNCHANGED <<current, cpu, outcome>>

\* The scheduler is called without a context.
sthread_start == outcome = "main" /\ Select(state, lists, stack)

sthread_yield == outcome = "running" /\ Switch("Running", "f")

sthread_block == outcome = "running" /\ Switch("Blocked", "f")

sthread_unblock(t) ==
    /\ outcome = "running"
    /\ state[t] = "Blocked"
    /\ lists' = enqueue_thread(queue_remove(lists, "blocked", t), t, "Ready")
    /\ state' = [state EXCEPT ![t] = "Ready"]
    /\ UNCHANGED <<current, stack, cpu, outcome>>

\* Unblocks one that is not blocked: the assertion fails.
UnblockAsserts(t) ==
    /\ outcome = "running"
    /\ state[t] \in {"Ready", "Running"}
    /\ outcome' = "aborted"
    /\ UNCHANGED <<state, lists, current, stack, cpu>>

\* The thread's function returns, to the address below its frame.
__sthread_finish ==
    /\ outcome = "running"
    /\ Last(stack[current]) = "__sthread_finish"
    /\ Switch("Finished", "__sthread_finish")

Init == /\ state = [t \in Threads |-> "none"]
        /\ lists = [prev |-> [t \in Threads |-> NULL], next |-> [t \in Threads |-> NULL],
                    ready |-> Empty, blocked |-> Empty]
        /\ current = NULL
        /\ stack = [t \in Threads |-> <<>>]
        /\ cpu = [pc |-> "main", regs |-> [r \in Registers |-> Zero]]
        /\ outcome = "main"
        /\ called = FALSE

Calls == /\ sthread_yield \/ sthread_block \/ __sthread_finish
         /\ called' = ~called

Others == /\ \/ sthread_start
             \/ \E t \in Threads : sthread_create(t) \/ sthread_unblock(t) \/ UnblockAsserts(t)
          /\ UNCHANGED called

Next == Calls \/ Others

\* Without preemption nothing happens for others until the running thread calls: it is
\* assumed to, again and again. It may do so only to yield, and get the processor back each
\* time.
Spec == Init /\ [][Next]_vars /\ WF_vars(Calls)

-----------------------------------------------------------------------------
(* Properties *)

Members(st, q) == {t \in Threads : st[t] = IF q = "ready" THEN "Ready" ELSE "Blocked"}

\* The list q is the doubly linked one of the threads of s, in their order.
Links(l, q, s) ==
    /\ l[q] = IF s = <<>> THEN Empty ELSE [head |-> s[1], tail |-> s[Len(s)]]
    /\ \A k \in 1 .. Len(s) :
           /\ l.prev[s[k]] = IF k = 1 THEN NULL ELSE s[k - 1]
           /\ l.next[s[k]] = IF k = Len(s) THEN NULL ELSE s[k + 1]

\* What the list q stands for: an order of the threads whose state says that they are
\* in it, if there is one.
ChainOf(l, st, q) ==
    LET Orders == {s \in [1 .. Cardinality(Members(st, q)) -> Members(st, q)] : IsInjective(s)}
    IN  IF \E s \in Orders : Links(l, q, s) THEN CHOOSE s \in Orders : Links(l, q, s) ELSE <<NULL>>

Chain(q) == ChainOf(lists, state, q)

Abstract == INSTANCE AbstractThreads WITH
    running <- IF outcome = "running" THEN current ELSE NULL,
    ready <- Chain("ready"),
    blocked <- {Chain("blocked")[k] : k \in DOMAIN Chain("blocked")},
    hogging <- outcome = "running" /\ lists.next[current] = NULL

(* The lists are what they stand for, however threads are taken from the      *)
(* middle of one and put into another: first come, first served; no thread is *)
(* lost or in both; and success is reported only when none is left. The one   *)
(* deviation from taking turns that the stale link causes, and no other, is   *)
(* part of the abstract specification.                                        *)
IsScheduler == Abstract!Spec

(* A thread that comes to run finds its own registers, its own stack and the  *)
(* place it left, or its argument at the start of its function, and under it  *)
(* the return to __sthread_finish: saving, restoring and building a context   *)
(* agree on its layout ("consistent with that saved in the __sthread_switch   *)
(* routine", glue.s).                                                         *)
ContextIsOwn ==
    outcome = "running" =>
        /\ stack[current] = <<"__sthread_finish">>
        /\ cpu.pc = "f"
        /\ \/ cpu.regs = [r \in Registers |-> <<current, r>>]
           \/ cpu.regs = [r \in Registers |-> IF r = "rdi" THEN <<current, "arg">> ELSE Zero]

(* A ready thread gets to run, unless the process ends, or one thread that    *)
(* was alone when it was chosen yields for ever: it resumes itself although   *)
(* others have become ready, and they starve. One that had others behind it   *)
(* when it was chosen cannot keep the processor however often it yields.      *)
TakesTurns ==
    \/ \A t \in Threads : state[t] = "Ready" ~> state[t] = "Running" \/ outcome # "running"
    \/ \E t \in Threads : <>[](outcome = "running" /\ current = t /\ lists.next[t] = NULL)

-----------------------------------------------------------------------------
(* The rest of what makes ContextIsOwn and IsScheduler inductive *)

Ends == [head : Threads \cup {NULL}, tail : Threads \cup {NULL}]

ListsType == [prev : [Threads -> Threads \cup {NULL}], next : [Threads -> Threads \cup {NULL}],
              ready : Ends, blocked : Ends]

TypeOK ==
    /\ state \in [Threads -> {"none", "Ready", "Running", "Blocked"}]
    /\ lists \in ListsType
    /\ current \in Threads \cup {NULL}
    /\ stack = [t \in Threads |-> stack[t]]
    /\ outcome \in {"main", "running", "completed", "stuck", "aborted"}

\* Each list is in order and has the threads in that state, each once.
ListIsOrder(l, st, q, s) ==
    /\ s \in Seq(Threads)
    /\ IsInjective(s)
    /\ ToSet(s) = Members(st, q)
    /\ Links(l, q, s)

OneRuns == outcome = "running" => current \in Threads /\ state[current] = "Running"

\* As sthread_create or the last switch from t has left it.
Saved(t, s) ==
    \/ s = initialize_context("f", <<t, "arg">>)
    \/ s = Save(<<"__sthread_finish">>, "f", [r \in Registers |-> <<t, r>>])

WaitingAreSaved == \A t \in Threads : state[t] \in {"Ready", "Blocked"} => Saved(t, stack[t])

CoopInv ==
    /\ TypeOK
    /\ ListIsOrder(lists, state, "ready", Chain("ready"))
    /\ ListIsOrder(lists, state, "blocked", Chain("blocked"))
    /\ OneRuns
    /\ WaitingAreSaved
    /\ ContextIsOwn
=============================================================================
