------------------------------ MODULE Semaphore ------------------------------
(***************************************************************************)
(* semaphore.c of lab07 over the Scheduler: semaphore_wait and             *)
(* semaphore_signal, with the sthread_block and sthread_unblock they call. *)
(*                                                                         *)
(* pc[t] is where thread t is in the semaphore code: "user" is outside it, *)
(* "wait" before the test of the loop, "sleep" between queue_append and    *)
(* sthread_block, "asleep" from there to the lock at the end of the loop,  *)
(* "signal" before the increment, "wake" after it, "remove" and "requeue"  *)
(* inside sthread_unblock, and "leave" before the unlock of either.        *)
(***************************************************************************)
EXTENDS Scheduler, FiniteSets

CONSTANTS Semaphore,    \* the semaphores of the program
          InitialValue, \* the argument of new_semaphore for each
          MaxValue      \* bound: clients do not signal beyond this value

ASSUME InitialValueAssumption == InitialValue \in [Semaphore -> Nat]
ASSUME FiniteThreadAssumption == IsFiniteSet(Thread)

VARIABLES value,        \* of each semaphore
          waiters,      \* its queue of blocked threads
          pc,           \* where each thread is
          arg,          \* the semaphore of its call, as a set
          target        \* the thread its sthread_unblock is about, as a set

semVars == <<value, waiters, arg, target>>
vars == <<schedVars, semVars, pc>>

Asleep == {"sleep", "asleep"}
Label == {"user", "wait", "signal", "wake", "remove", "requeue", "leave"}
           \cup Asleep

\* new_semaphore for each semaphore and sthread_create for each thread, in main;
\* then sthread_start(1), just after __sthread_start has taken the lock.
Init ==
  /\ value = InitialValue
  /\ waiters = [s \in Semaphore |-> <<>>]
  /\ pc = [t \in Thread |-> "user"]
  /\ arg = [t \in Thread |-> {}]
  /\ target = [t \in Thread |-> {}]
  /\ lock = 1
  /\ current = NoThread
  /\ state = [t \in Thread |-> "Ready"]
  /\ ready \in SetToSeqs(Thread)
  /\ blocked = <<>>
  /\ cpu = "take"
  /\ timer = TRUE

\* Thread t executes the code at the label.
At(t, label) == Runs(t) /\ pc[t] = label

Goto(t, label) == pc' = [pc EXCEPT ![t] = label]

-----------------------------------------------------------------------------
(* semaphore_wait *)

WaitLock(t, s) ==
  /\ At(t, "user")
  /\ Lock
  /\ Goto(t, "wait")
  /\ arg' = [arg EXCEPT ![t] = {s}]
  /\ UNCHANGED <<current, state, ready, blocked, cpu, timer, value, waiters, target>>

\* The value is zero: join the queue ...
WaitAppend(t) ==
  /\ At(t, "wait")
  /\ \E s \in arg[t] :
       /\ value[s] = 0
       /\ waiters' = [waiters EXCEPT ![s] = Append(@, t)]
  /\ Goto(t, "sleep")
  /\ UNCHANGED <<schedVars, value, arg, target>>

\* ... and sthread_block; its lock is taken already.
WaitBlock(t) ==
  /\ At(t, "sleep")
  /\ BlockCurrent(t)
  /\ Goto(t, "asleep")
  /\ UNCHANGED semVars

\* An "if" in the place of the loop.
WaitNoRetest(t) ==
  /\ At(t, "asleep")
  /\ Lock
  /\ \E s \in arg[t] : value' = [value EXCEPT ![s] = @ - 1]
  /\ Goto(t, "leave")
  /\ UNCHANGED <<current, state, ready, blocked, cpu, timer, waiters, arg, target>>

\* Scheduled again, without the lock: take it and go round the loop.
WaitRelock(t) ==
  /\ At(t, "asleep")
  /\ Lock
  /\ Goto(t, "wait")
  /\ UNCHANGED <<current, state, ready, blocked, cpu, timer, semVars>>

\* The value is not zero: take one.
WaitDecrement(t) ==
  /\ At(t, "wait")
  /\ \E s \in arg[t] :
       /\ value[s] > 0
       /\ value' = [value EXCEPT ![s] = @ - 1]
  /\ Goto(t, "leave")
  /\ UNCHANGED <<schedVars, waiters, arg, target>>

-----------------------------------------------------------------------------
(* semaphore_signal *)

SignalLock(t, s) ==
  /\ At(t, "user")
  /\ Lock
  /\ Goto(t, "signal")
  /\ arg' = [arg EXCEPT ![t] = {s}]
  /\ UNCHANGED <<current, state, ready, blocked, cpu, timer, value, waiters, target>>

SignalIncrement(t) ==
  /\ At(t, "signal")
  /\ \E s \in arg[t] : value' = [value EXCEPT ![s] = @ + 1]
  /\ Goto(t, "wake")
  /\ UNCHANGED <<schedVars, waiters, arg, target>>

\* The waiter is looked at and left in the queue.
SignalPeek(t) ==
  /\ At(t, "wake")
  /\ \E s \in arg[t] :
       /\ waiters[s] # <<>>
       /\ target' = [target EXCEPT ![t] = {Head(waiters[s])}]
  /\ Goto(t, "remove")
  /\ UNCHANGED <<schedVars, value, waiters, arg>>

\* Somebody waits: the first of them is taken from the queue for
\* sthread_unblock, which asserts that it is blocked.
SignalTake(t) ==
  /\ At(t, "wake")
  /\ \E s \in arg[t] :
       /\ waiters[s] # <<>>
       /\ target' = [target EXCEPT ![t] = {Head(waiters[s])}]
       /\ waiters' = [waiters EXCEPT ![s] = Tail(@)]
  /\ Goto(t, "remove")
  /\ UNCHANGED <<schedVars, value, arg>>

\* A waiter is woken only when the value was zero.
SignalNobodyUnlessFirst(t) ==
  /\ At(t, "wake")
  /\ \E s \in arg[t] : waiters[s] = <<>> \/ value[s] > 1
  /\ Goto(t, "leave")
  /\ UNCHANGED <<schedVars, semVars>>

\* Nobody waits.
SignalNobody(t) ==
  /\ At(t, "wake")
  /\ \E s \in arg[t] : waiters[s] = <<>>
  /\ Goto(t, "leave")
  /\ UNCHANGED <<schedVars, semVars>>

\* sthread_unblock, to whom its lock (taken already) is a no-op.
SignalRemove(t) ==
  /\ At(t, "remove")
  /\ \E u \in target[t] : UnblockRemove(u)
  /\ Goto(t, "requeue")
  /\ UNCHANGED semVars

SignalRequeue(t) ==
  /\ At(t, "requeue")
  /\ \E u \in target[t] : UnblockRequeue(u)
  /\ Goto(t, "leave")
  /\ UNCHANGED semVars

\* The unlock at the end of semaphore_wait, of semaphore_signal when nobody
\* waits, and of sthread_unblock when somebody does.
Leave(t) ==
  /\ At(t, "leave")
  /\ Unlock
  /\ Goto(t, "user")
  /\ arg' = [arg EXCEPT ![t] = {}]
  /\ target' = [target EXCEPT ![t] = {}]
  /\ UNCHANGED <<current, state, ready, blocked, cpu, timer, value, waiters>>

-----------------------------------------------------------------------------
\* A step of a call in progress.
SemaphoreStep(t) ==
  \/ WaitAppend(t) \/ WaitBlock(t) \/ WaitRelock(t) \/ WaitDecrement(t)
  \/ SignalIncrement(t) \/ SignalTake(t) \/ SignalNobody(t)
  \/ SignalRemove(t) \/ SignalRequeue(t) \/ Leave(t)

\* A switch of threads.
SwitchStep ==
  /\ Save \/ TakeNext \/ TakeNone \/ Restore
  /\ UNCHANGED <<semVars, pc>>

Signal == TimerTick /\ UNCHANGED <<semVars, pc>>

\* Any client: a thread may wait on or signal any semaphore at any time.
ClientCall(t) ==
  \E s \in Semaphore :
    \/ WaitLock(t, s)
    \/ value[s] < MaxValue /\ SignalLock(t, s)

Stopped == AfterExit /\ UNCHANGED <<semVars, pc>>

Next ==
  \/ SwitchStep
  \/ Signal
  \/ \E t \in Thread : SemaphoreStep(t) \/ ClientCall(t)
  \/ Stopped

Spec == Init /\ [][Next]_vars

\* The CPU goes on executing and the timer goes on firing.  A thread that is
\* preempted at the same place again and again gets past it in the end, as its
\* slice is far longer than a step.  No client has to call.
Fairness ==
  /\ WF_vars(SwitchStep)
  /\ WF_vars(Signal)
  /\ \A t \in Thread : SF_vars(SemaphoreStep(t))

FairSpec == Spec /\ Fairness

-----------------------------------------------------------------------------
(* Safety *)

\* Thread t has been taken from the queue of s to be woken, and has not yet
\* looked at the value again.
Woken(t, s) == pc[t] = "asleep" /\ s \in arg[t] /\ t \notin ToSet(waiters[s])

\* What sthread_unblock asserts of the thread a signal hands to it, and what
\* makes it true: a thread is in the queue of the semaphore it waits for, once,
\* from before it blocks to when it is chosen, and it stays Blocked until the
\* signal has put it in the ready queue.
WaitersAreBlocked ==
  /\ \A s \in Semaphore :
       /\ IsInjective(waiters[s])
       /\ \A t \in ToSet(waiters[s]) : pc[t] \in Asleep /\ s \in arg[t]
  /\ \A t \in Thread :
       pc[t] = "asleep" /\ (\E s \in arg[t] : ~Woken(t, s)) => state[t] = "Blocked"
  /\ \A t \in Thread : pc[t] \in {"remove", "requeue"} =>
       \A u \in target[t] : state[u] = "Blocked" /\ pc[u] = "asleep"

\* Threads that have been woken from the queue of s, or are about to test its
\* value or to wake somebody.
Coming(s) ==
  {t \in Thread : Woken(t, s) \/ (pc[t] \in {"wait", "wake"} /\ s \in arg[t])}

\* No wake-up is lost: while threads wait, every unit of the value is one that
\* a thread already woken, or one about to test the value, will come for, or
\* one that the signalling thread is about to hand out.  (A signal between the
\* test and the block would break this, and so would a block that forgot to
\* queue the thread first.)
NoLostWakeup ==
  \A s \in Semaphore : waiters[s] # <<>> => value[s] <= Cardinality(Coming(s))

\* Every semaphore is a number of permits, of which each wait takes exactly
\* one and each signal adds exactly one.
Permits == INSTANCE AbstractSemaphore WITH
  permits <- value,
  waiting <- [t \in Thread |-> IF pc[t] \in Asleep \cup {"wait"} THEN arg[t] ELSE {}],
  signalling <- [t \in Thread |-> IF pc[t] = "signal" THEN arg[t] ELSE {}]

IsSemaphore == Permits!Spec

-----------------------------------------------------------------------------
(* The rest of what makes the safety properties inductive *)

TypeOK ==
  /\ SchedTypeOK
  /\ value \in [Semaphore -> Nat]
  /\ waiters \in [Semaphore -> Seq(Thread)]
  /\ pc \in [Thread -> Label]
  /\ arg \in [Thread -> SUBSET Semaphore]
  /\ target \in [Thread -> SUBSET Thread]

\* The labels at which the lock is held.
Critical == Label \ {"user", "asleep"}

Waking == {"remove", "requeue"}

\* The scheduler and the semaphores run with the lock held, and a thread that
\* sleeps, or is outside, does not hold it.
LockDiscipline ==
  /\ cpu \in Switching => lock = 1
  /\ cpu = "thread" => (lock = 1 <=> pc[current] \in Critical)
  /\ \A t \in Thread : pc[t] \in Critical => Runs(t)

\* Who is current in each part of the switch.
CurrentMatchesCpu ==
  /\ cpu \in Switching \cup {"thread", "completed", "deadlocked"}
  /\ cpu \in {"save", "restore", "thread"} => current \in Thread
  /\ cpu = "save" => state[current] \in {"Running", "Blocked"}
  /\ \A t \in Thread : state[t] \in {"Ready", "Running", "Blocked"}

\* Thread t is between the two queues of the scheduler, in the hands of a signal.
InTransit(t) == \E s \in Thread : pc[s] = "requeue" /\ t \in target[s]

OnItsWayOut(t) == cpu = "save" /\ t = current

\* As in SThread: no thread is lost by the scheduler, and none is in two queues.
QueuesMatchStates ==
  /\ IsInjective(ready) /\ IsInjective(blocked)
  /\ \A t \in Thread :
       /\ t \in ToSet(ready) <=> state[t] = "Ready"
       /\ t \in ToSet(blocked) <=>
            state[t] = "Blocked" /\ ~InTransit(t) /\ ~OnItsWayOut(t)
       /\ state[t] = "Running" => t = current /\ cpu \in {"save", "restore", "thread"}
  /\ cpu \in {"restore", "thread"} => state[current] = "Running"

\* A call is about one semaphore, and a signal wakes one thread.
OneArgument ==
  \A t \in Thread :
    /\ IF pc[t] = "user" THEN arg[t] = {} ELSE \E s \in Semaphore : arg[t] = {s}
    /\ pc[t] \in Waking => \E u \in Thread : target[t] = {u}

\* A thread that has decided to sleep is in the queue, a Blocked one is there or
\* in the hands of a signal, and one that is in such hands is in no queue.
SleepersAreQueued ==
  \A t \in Thread :
    /\ pc[t] = "sleep" => \A s \in arg[t] : t \in ToSet(waiters[s])
    /\ state[t] = "Blocked" =>
         /\ pc[t] = "asleep"
         /\ \/ \A s \in arg[t] : t \in ToSet(waiters[s])
            \/ \E u \in Thread : pc[u] \in Waking /\ t \in target[u]
    /\ pc[t] \in Waking =>
         \A u \in target[t], s \in Semaphore : u \notin ToSet(waiters[s])

IndInv ==
  /\ TypeOK
  /\ LockDiscipline
  /\ CurrentMatchesCpu
  /\ QueuesMatchStates
  /\ OneArgument
  /\ WaitersAreBlocked
  /\ SleepersAreQueued

(* Liveness *)

\* Threads do not sleep on while the value lets one of them go on: either the
\* value is used up, by one of them or by a thread that came later, or nobody
\* is left in the queue.
NobodySleepsOnPermits ==
  \A s \in Semaphore :
    (value[s] > 0 /\ waiters[s] # <<>>) ~> (value[s] = 0 \/ waiters[s] = <<>>)

=============================================================================
