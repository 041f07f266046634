------------------------------- MODULE SThread -------------------------------
(***************************************************************************)
(* The thread API of lab07 (sthread_yield, _block, _unblock, _create and   *)
(* the return of a thread's function) over the Scheduler, for any client:  *)
(* a thread outside the library may compute, or call any operation.        *)
(*                                                                         *)
(* pc[t] is where thread t is in the library: "user" is client code,       *)
(* "yield", "block", "finish", "remove", "requeue" and "unlock" are        *)
(* between the lock and the unlock of an operation, and "checked" is       *)
(* sthread_unblock between its assertion and its lock.                     *)
(***************************************************************************)
EXTENDS Scheduler

CONSTANT SoleUnblocker  \* clients never unblock one thread from two threads

ASSUME SoleUnblockerAssumption == SoleUnblocker \in BOOLEAN

VARIABLES pc,           \* where each thread is
          target        \* the argument of its sthread_unblock

vars == <<schedVars, pc, target>>

InUnblock == {"checked", "remove", "requeue", "unlock"}
Critical == {"yield", "block", "finish", "remove", "requeue", "unlock"}

TypeOK ==
  /\ SchedTypeOK
  /\ pc \in [Thread -> {"user", "checked"} \cup Critical]
  /\ target \in [Thread -> Thread \cup {NoThread}]

Init ==
  /\ SchedInit
  /\ pc = [t \in Thread |-> "user"]
  /\ target = [t \in Thread |-> NoThread]

Goto(t, label) == pc' = [pc EXCEPT ![t] = label]

-----------------------------------------------------------------------------
\* A call that begins by taking the lock.
Enter(t, label) ==
  /\ Runs(t)
  /\ pc[t] = "user"
  /\ Lock
  /\ Goto(t, label)
  /\ UNCHANGED <<current, state, ready, blocked, cpu, timer, target>>

\* sthread_yield, sthread_block and __sthread_finish (where a thread's function
\* returns to): the lock ...
YieldLock(t) == Enter(t, "yield")
BlockLock(t) == Enter(t, "block")
FinishLock(t) == Enter(t, "finish")

\* ... and what each does under it.
YieldSwitch(t) ==
  /\ Runs(t)
  /\ pc[t] = "yield"
  /\ Goto(t, "user")
  /\ cpu' = "save"
  /\ UNCHANGED <<lock, current, state, ready, blocked, timer, target>>

BlockSwitch(t) ==
  /\ Runs(t)
  /\ pc[t] = "block"
  /\ BlockCurrent(t)
  /\ Goto(t, "user")
  /\ UNCHANGED target

FinishSwitch(t) ==
  /\ Runs(t)
  /\ pc[t] = "finish"
  /\ state' = [state EXCEPT ![t] = "Finished"]
  /\ cpu' = "save"
  /\ Goto(t, "user")
  /\ UNCHANGED <<lock, current, ready, blocked, timer, target>>

-----------------------------------------------------------------------------
\* The client's side of sthread_unblock: who may call it on thread u.
MayUnblock(u) ==
  SoleUnblocker => \A s \in Thread : ~(pc[s] \in InUnblock /\ target[s] = u)

\* sthread_unblock: the assertion, made before the lock is taken.
UnblockAssert(t, u) ==
  /\ Runs(t)
  /\ pc[t] = "user"
  /\ state[u] = "Blocked"
  /\ MayUnblock(u)
  /\ target' = [target EXCEPT ![t] = u]
  /\ Goto(t, "checked")
  /\ UNCHANGED schedVars

\* A version that never takes the lock.
UnblockNoLock(t) ==
  /\ Runs(t)
  /\ pc[t] = "checked"
  /\ Goto(t, "remove")
  /\ UNCHANGED <<schedVars, target>>

UnblockLock(t) ==
  /\ Runs(t)
  /\ pc[t] = "checked"
  /\ Lock
  /\ Goto(t, "remove")
  /\ UNCHANGED <<current, state, ready, blocked, cpu, timer, target>>

UnblockTake(t) ==
  /\ Runs(t)
  /\ pc[t] = "remove"
  /\ UnblockRemove(target[t])
  /\ Goto(t, "requeue")
  /\ UNCHANGED target

UnblockQueue(t) ==
  /\ Runs(t)
  /\ pc[t] = "requeue"
  /\ UnblockRequeue(target[t])
  /\ Goto(t, "unlock")
  /\ UNCHANGED target

UnblockUnlock(t) ==
  /\ Runs(t)
  /\ pc[t] = "unlock"
  /\ Unlock
  /\ Goto(t, "user")
  /\ target' = [target EXCEPT ![t] = NoThread]
  /\ UNCHANGED <<current, state, ready, blocked, cpu, timer>>

-----------------------------------------------------------------------------
\* A step of the library that the client has asked for.
LibraryStep(t) ==
  \/ YieldSwitch(t) \/ BlockSwitch(t) \/ FinishSwitch(t)
  \/ UnblockLock(t) \/ UnblockTake(t) \/ UnblockQueue(t) \/ UnblockUnlock(t)

\* A call the client makes, or not, as it likes.
ClientCall(t) ==
  \/ YieldLock(t) \/ BlockLock(t) \/ FinishLock(t)
  \/ \E u \in Thread : UnblockAssert(t, u)

\* A step of the scheduler or of sthread_start.
SchedulerStep ==
  /\ StartScheduler \/ Save \/ TakeNext \/ TakeNone \/ Restore
  /\ UNCHANGED <<pc, target>>

Signal ==
  /\ TimerTick \/ TickWhileArmed
  /\ UNCHANGED <<pc, target>>

Main ==
  /\ (\E t \in Thread : Create(t)) \/ StartTimer
  /\ UNCHANGED <<pc, target>>

Stopped == AfterExit /\ UNCHANGED <<pc, target>>

Next ==
  \/ Main
  \/ SchedulerStep
  \/ Signal
  \/ \E t \in Thread : LibraryStep(t) \/ ClientCall(t)
  \/ Stopped

Spec == Init /\ [][Next]_vars

\* The CPU goes on executing, and the interval timer goes on firing.  Nothing
\* makes a client call the library.
Fairness ==
  /\ WF_vars(SchedulerStep)
  /\ WF_vars(Signal)
  /\ \A t \in Thread : WF_vars(LibraryStep(t))

FairSpec == Spec /\ Fairness

-----------------------------------------------------------------------------
(* Safety *)

\* The scheduler and the critical sections of the API run with the lock held,
\* and client code never does: so the timer can neither re-enter the scheduler
\* (timer.c: "If the scheduler is already active, ignore this timer interrupt")
\* nor lose its hold on a thread that computes.
LockDiscipline ==
  /\ cpu \in Switching => lock = 1
  /\ cpu = "thread" => (lock = 1 <=> pc[current] \in Critical)
  /\ \A t \in Thread : pc[t] \in Critical => Runs(t)

\* t is between the two queues, in the hands of a sthread_unblock.
InTransit(t) == \E s \in Thread : pc[s] = "requeue" /\ target[s] = t

\* t is the outgoing thread, which the scheduler has yet to queue.
OnItsWayOut(t) == cpu = "save" /\ t = current

\* The comments on the globals of sthread.c: the ready queue holds the Ready
\* threads and the blocked queue the Blocked ones, each once, and the thread
\* that runs is the only Running one.  A thread is in no queue only while it
\* runs, is being moved, or does not exist: none is lost.
QueuesMatchStates ==
  /\ IsInjective(ready) /\ IsInjective(blocked)
  /\ \A t \in Thread :
       /\ t \in ToSet(ready) <=> state[t] = "Ready"
       /\ t \in ToSet(blocked) <=>
            state[t] = "Blocked" /\ ~InTransit(t) /\ ~OnItsWayOut(t)
       /\ state[t] = "Running" =>
            t = current /\ cpu \in {"save", "restore", "thread"}
  /\ cpu \in {"restore", "thread"} => state[current] = "Running"

\* The verdict the scheduler exits with is right: "All threads completed" means
\* that every thread has been freed, and "The system is deadlocked" that some
\* thread is blocked and none could have been run.
VerdictIsRight ==
  /\ cpu = "completed" => \A t \in Thread : state[t] \in {"Unborn", "Deleted"}
  /\ cpu = "deadlocked" =>
       /\ \E t \in Thread : state[t] = "Blocked"
       /\ \A t \in Thread : state[t] \in {"Unborn", "Deleted", "Blocked"}

\* "All threads in the ready queue are in the state ThreadReady" (the comment on
\* ready_queue, sthread.c).  This needs SoleUnblocker, under which QueuesMatchStates
\* has it as a part: two threads may both find the one they unblock Blocked
\* before either has the lock, and then queue it twice.
ReadyQueueHoldsReady == \A t \in ToSet(ready) : state[t] = "Ready"

\* The rest of what makes the properties above inductive: that a thread is still
\* Blocked when an unblock that has found it so gets on, who is current in each
\* part of the switch, and that no two threads unblock the same one.
TargetStillBlocked ==
  \A t \in Thread :
    pc[t] \in {"checked", "remove", "requeue"} => state[target[t]] = "Blocked"

CurrentMatchesCpu ==
  /\ cpu \in Booting =>
       /\ current = NoThread
       /\ \A t \in Thread : state[t] \in {"Unborn", "Ready"} /\ pc[t] = "user"
  /\ cpu \in {"save", "restore", "thread"} => current \in Thread
  /\ cpu = "save" => state[current] \in {"Running", "Blocked", "Finished"}
  /\ \A t \in Thread : state[t] = "Finished" => cpu = "save" /\ t = current

OneUnblockerEach ==
  \A s, t \in Thread :
    pc[s] \in InUnblock =>
      /\ target[s] \in Thread
      /\ pc[t] \in InUnblock /\ target[s] = target[t] => s = t

IndInv ==
  /\ TypeOK
  /\ LockDiscipline
  /\ QueuesMatchStates
  /\ TargetStillBlocked
  /\ VerdictIsRight
  /\ CurrentMatchesCpu
  /\ OneUnblockerEach

\* Scheduling is first come, first served: from step to step a Ready thread
\* keeps its place in the queue or moves forward, until it is the one to run.
ReadyNotOvertaken ==
  [][\A i \in 1..Len(ready) :
       \/ current' = ready[i]
       \/ \E j \in 1..i : j <= Len(ready') /\ ready'[j] = ready[i]]_vars

(* Liveness *)

\* With the timer on, once the scheduler has started every Ready thread gets
\* the CPU, even if the other threads compute for ever (timer.c: the scheduler
\* is called periodically).
ReadyGetsToRun ==
  \A t \in Thread :
    (timer /\ cpu \in Switching \cup {"thread"} /\ state[t] = "Ready")
      ~> state[t] = "Running"

\* sthread_start calls start_timer before it takes the lock: "Lock to ensure
\* that the timer does not interrupt while the current thread is using the
\* scheduler to start its operations" (sthread.c).
StartIsNotInterrupted == cpu # "crashed"

=============================================================================
