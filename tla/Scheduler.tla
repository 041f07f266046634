------------------------------ MODULE Scheduler ------------------------------
(***************************************************************************)
(* The scheduler of the lab07 thread library: sthread.c, the lock and the  *)
(* context switch of glue.s, and the preemption timer of timer.c.          *)
(*                                                                         *)
(* There is one CPU.  `cpu` says what it executes: main() before and       *)
(* during sthread_start, the code of the thread `current`, or one of the   *)
(* three parts of __sthread_switch (save and requeue, take the next        *)
(* thread, restore it and unlock).  The timer signal may arrive between    *)
(* any two steps; what it does depends on the lock alone, which is why     *)
(* the parts of the switch are steps of their own.                         *)
(*                                                                         *)
(* A program that uses the library adds its program counters and its own   *)
(* steps: SThread (any client), Semaphore, BoundedBuffer.                  *)
(***************************************************************************)
EXTENDS Naturals, SequencesExt

CONSTANTS Thread,       \* the thread structures the program creates
          NoThread      \* the null pointer

ASSUME NoThreadAssumption == NoThread \notin Thread

VARIABLES lock,         \* scheduler_lock
          current,      \* the thread that is running
          state,        \* the state field of each thread
          ready,        \* ready_queue
          blocked,      \* blocked_queue
          cpu,          \* what the CPU executes
          timer         \* whether the interval timer is armed

schedVars == <<lock, current, state, ready, blocked, cpu, timer>>

ThreadState == {"Unborn", "Ready", "Running", "Blocked", "Finished", "Deleted"}

Booting == {"main", "armed"}
Switching == {"save", "take", "restore"}
Exited == {"completed", "deadlocked", "crashed"}

SchedTypeOK ==
  /\ lock \in {0, 1}
  /\ current \in Thread \cup {NoThread}
  /\ state \in [Thread -> ThreadState]
  /\ ready \in Seq(Thread)
  /\ blocked \in Seq(Thread)
  /\ cpu \in Booting \cup Switching \cup Exited \cup {"thread"}
  /\ timer \in BOOLEAN

\* The statically initialised globals, in main() before any thread exists.
SchedInit ==
  /\ lock = 0
  /\ current = NoThread
  /\ state = [t \in Thread |-> "Unborn"]
  /\ ready = <<>>
  /\ blocked = <<>>
  /\ cpu = "main"
  /\ timer = FALSE

\* Thread t is the one whose code the CPU executes.
Runs(t) == cpu = "thread" /\ current = t

-----------------------------------------------------------------------------
\* __sthread_lock leaves 1 in the lock whatever it held; every caller but the
\* timer handler ignores the answer.
Lock == lock' = 1

Unlock == lock' = 0

\* sthread_create: a new thread goes to the ready queue.  The programs of the
\* lab create every thread in main(), before sthread_start.
Create(t) ==
  /\ cpu = "main"
  /\ state[t] = "Unborn"
  /\ state' = [state EXCEPT ![t] = "Ready"]
  /\ ready' = Append(ready, t)
  /\ UNCHANGED <<lock, current, blocked, cpu, timer>>

\* sthread_start, its first half: arm the timer if asked to.
StartTimer ==
  /\ cpu = "main"
  /\ timer' \in BOOLEAN
  /\ cpu' = "armed"
  /\ UNCHANGED <<lock, current, state, ready, blocked>>

\* sthread_start, its second half, and __sthread_start: take the lock and call
\* the scheduler with a NULL context, which skips the save.
StartScheduler ==
  /\ cpu = "armed"
  /\ Lock
  /\ cpu' = "take"
  /\ UNCHANGED <<current, state, ready, blocked, timer>>

-----------------------------------------------------------------------------
\* What requeueing makes of the state of the outgoing thread.
Outgoing(s) == CASE s = "Running" -> "Ready"
                 [] s = "Finished" -> "Deleted"
                 [] OTHER -> s

\* A yielding thread put back in front of the others instead of behind them.
SaveInFront ==
  /\ cpu = "save"
  /\ LET s == Outgoing(state[current]) IN
       /\ state' = [state EXCEPT ![current] = s]
       /\ ready' = IF s = "Ready" THEN <<current>> \o ready ELSE ready
       /\ blocked' = IF s = "Blocked" THEN Append(blocked, current) ELSE blocked
  /\ cpu' = "take"
  /\ UNCHANGED <<lock, current, timer>>

\* A thread that blocks dropped instead of being kept in the blocked queue.
SaveForgetsBlocked ==
  /\ cpu = "save"
  /\ LET s == Outgoing(state[current]) IN
       /\ state' = [state EXCEPT ![current] = s]
       /\ ready' = IF s = "Ready" THEN Append(ready, current) ELSE ready
  /\ cpu' = "take"
  /\ UNCHANGED <<lock, current, blocked, timer>>

\* __sthread_scheduler with a context: queue the outgoing thread by its state,
\* or free it when it has finished.
Save ==
  /\ cpu = "save"
  /\ LET s == Outgoing(state[current]) IN
       /\ state' = [state EXCEPT ![current] = s]
       /\ ready' = IF s = "Ready" THEN Append(ready, current) ELSE ready
       /\ blocked' = IF s = "Blocked" THEN Append(blocked, current) ELSE blocked
  /\ cpu' = "take"
  /\ UNCHANGED <<lock, current, timer>>

\* __sthread_scheduler, when a thread is ready: it becomes the current one.
TakeNext ==
  /\ cpu = "take"
  /\ ready # <<>>
  /\ current' = Head(ready)
  /\ ready' = Tail(ready)
  /\ state' = [state EXCEPT ![Head(ready)] = "Running"]
  /\ cpu' = "restore"
  /\ UNCHANGED <<lock, blocked, timer>>

\* __sthread_scheduler, when none is: the process exits, with a verdict.
TakeNone ==
  /\ cpu = "take"
  /\ ready = <<>>
  /\ current' = NoThread
  /\ cpu' = IF blocked = <<>> THEN "completed" ELSE "deadlocked"
  /\ UNCHANGED <<lock, state, ready, blocked, timer>>

\* A switch back to a thread that forgets to release the lock.
RestoreLocked ==
  /\ cpu = "restore"
  /\ cpu' = "thread"
  /\ UNCHANGED <<lock, current, state, ready, blocked, timer>>

\* __sthread_restore: the registers of the new thread, then the unlock.
Restore ==
  /\ cpu = "restore"
  /\ Unlock
  /\ cpu' = "thread"
  /\ UNCHANGED <<current, state, ready, blocked, timer>>

\* timer_action gets the lock: the signal returns into __sthread_switch.  When
\* the lock is held the signal is ignored, which changes nothing.
TimerTick ==
  /\ timer
  /\ cpu \in Switching \cup {"thread"}
  /\ lock = 0
  /\ Lock
  /\ cpu' = "save"
  /\ UNCHANGED <<current, state, ready, blocked, timer>>

\* The same signal between the two halves of sthread_start: the lock is free,
\* but there is no scheduler stack and no current thread to save.
TickWhileArmed ==
  /\ timer
  /\ cpu = "armed"
  /\ lock = 0
  /\ Lock
  /\ cpu' = "crashed"
  /\ UNCHANGED <<current, state, ready, blocked, timer>>

\* A process that has exited stays so.
AfterExit ==
  /\ cpu \in Exited
  /\ UNCHANGED schedVars

-----------------------------------------------------------------------------
\* The bodies of sthread_block and sthread_unblock between their lock and their
\* unlock, for the programs that call them.

\* sthread_block: mark the caller and enter the scheduler.
BlockCurrent(t) ==
  /\ state' = [state EXCEPT ![t] = "Blocked"]
  /\ cpu' = "save"
  /\ UNCHANGED <<lock, current, ready, blocked, timer>>

\* sthread_unblock: take the thread off the blocked queue.
UnblockRemove(t) ==
  /\ blocked' = RemoveFirst(blocked, t)
  /\ UNCHANGED <<lock, current, state, ready, cpu, timer>>

\* sthread_unblock: mark the thread and queue it.
UnblockRequeue(t) ==
  /\ state' = [state EXCEPT ![t] = "Ready"]
  /\ ready' = Append(ready, t)
  /\ UNCHANGED <<lock, current, blocked, cpu, timer>>

=============================================================================
