------------------------- MODULE BoundedBufferProofs -------------------------
(***************************************************************************)
(* The semaphores of lab07, for any programs that call them, and the       *)
(* bounded buffer that is such a program.                                  *)
(*                                                                         *)
(* The semaphores lose no wake-up and are counters of permits, for any     *)
(* number of threads and of semaphores and wherever the timer preempts a   *)
(* call.  IndInv is inductive: CallInv takes the steps of a call and of a  *)
(* switch one by one, whoever makes the call, so that the programs that    *)
(* use the semaphores need not take them again.                            *)
(*                                                                         *)
(* The bounded buffer is a queue and its threads never all sleep, for any  *)
(* number of producers and consumers, any length of the array and wherever *)
(* the timer preempts them.  BufferInv is inductive: its first half is     *)
(* IndInv, and its second half, BufferRules, is taken through the          *)
(* semaphore calls, their starts and the steps inside.                     *)
(***************************************************************************)
EXTENDS BoundedBuffer, QueueLemmas, FiniteSetTheorems

-----------------------------------------------------------------------------
(* The semaphores *)

\* A thread that runs, and goes from a label to another at which nobody is woken
\* and nothing is queued, leaves those that sleep as they are.
LEMMA SleepersKept ==
  ASSUME IndInv, NEW t \in Thread, Runs(t), pc[t] \notin Waking,
         NEW l \in Label \ (Waking \cup {"sleep"}), pc' = [pc EXCEPT ![t] = l],
         UNCHANGED <<state, waiters, target>>,
         \A u \in Thread : u # t => arg'[u] = arg[u]
  PROVE  SleepersAreQueued'
  <1> USE DEF IndInv, Waking, Runs
  <1>1. state[t] = "Running"
    BY DEF QueuesMatchStates
  <1>2. /\ pc'[t] = l
        /\ \A u \in Thread : u # t => pc'[u] = pc[u]
    BY DEF TypeOK
  <1>3. \A u \in Thread : pc'[u] \in Waking <=> pc[u] \in Waking
    BY <1>2
  <1> SUFFICES ASSUME NEW u \in Thread
               PROVE  /\ pc'[u] = "sleep" => \A s \in arg'[u] : u \in ToSet(waiters[s])
                      /\ state[u] = "Blocked" =>
                           /\ pc'[u] = "asleep"
                           /\ \/ \A s \in arg'[u] : u \in ToSet(waiters[s])
                              \/ \E v \in Thread : pc'[v] \in Waking /\ u \in target[v]
                      /\ pc'[u] \in Waking =>
                           \A v \in target[u], s \in Semaphore : v \notin ToSet(waiters[s])
    BY DEF SleepersAreQueued
  <1>4. CASE u = t
    BY <1>1, <1>2, <1>4
  <1>5. CASE u # t
    BY <1>2, <1>3, <1>5 DEF SleepersAreQueued
  <1> QED
    BY <1>4, <1>5

\* What a signal that finds somebody waiting takes from the queue.
LEMMA SignalTaken ==
  ASSUME IndInv, NEW t \in Thread, SignalTake(t)
  PROVE  \E s \in Semaphore, u \in Thread :
           /\ arg[t] = {s} /\ waiters[s] # <<>>
           /\ u = Head(waiters[s])
           /\ target' = [target EXCEPT ![t] = {u}]
           /\ waiters' = [waiters EXCEPT ![s] = Tail(@)]
  <1> USE DEF IndInv
  <1>1. PICK s \in Semaphore : arg[t] = {s}
    BY DEF OneArgument, SignalTake, At
  <1>2. /\ waiters[s] # <<>>
        /\ target' = [target EXCEPT ![t] = {Head(waiters[s])}]
        /\ waiters' = [waiters EXCEPT ![s] = Tail(@)]
    BY <1>1 DEF SignalTake
  <1>3. Head(waiters[s]) \in Thread
    BY <1>2, TailOnce DEF WaitersAreBlocked, TypeOK
  <1> QED
    BY <1>1, <1>2, <1>3

\* What is known of the threads and the queues outlives every step of a call and
\* of a switch, and the start of a call.
LEMMA CallInv ==
  ASSUME IndInv,
         \/ SwitchStep
         \/ Signal
         \/ \E t \in Thread : SemaphoreStep(t)
         \/ \E t \in Thread, s \in Semaphore : WaitLock(t, s) \/ SignalLock(t, s)
  PROVE  IndInv'
  <1> USE DEF IndInv, Switching, Waking, Asleep, Critical, Label, Runs, semVars, schedVars
  <1>1. ASSUME Save, UNCHANGED <<semVars, pc>>
        PROVE  IndInv'
    <2> USE <1>1 DEF Save, Outgoing
    <2>1. TypeOK'
      <3>1. current \in Thread /\ Outgoing(state[current]) \in ThreadState
        BY DEF CurrentMatchesCpu, ThreadState
      <3> QED
        BY <3>1 DEF TypeOK, SchedTypeOK, ThreadState, Label, Asleep, Critical
    <2>2. LockDiscipline'
      BY DEF LockDiscipline, CurrentMatchesCpu, TypeOK, SchedTypeOK
    <2>3. CurrentMatchesCpu'
      BY DEF CurrentMatchesCpu, LockDiscipline, QueuesMatchStates, TypeOK, SchedTypeOK
    <2>4. QueuesMatchStates'
      <3>0. current \in Thread /\ state[current] \in {"Running", "Blocked"}
        BY DEF CurrentMatchesCpu
      <3>1. CASE state[current] = "Running"
        <4>1. current \notin ToSet(ready)
          BY <3>0, <3>1 DEF QueuesMatchStates
        <4>2. /\ IsInjective(ready')
              /\ ToSet(ready') = ToSet(ready) \cup {current}
              /\ blocked' = blocked
          BY <3>0, <3>1, <4>1, AppendOnce DEF QueuesMatchStates, TypeOK, SchedTypeOK
        <4> QED
          BY <3>0, <3>1, <4>2 DEF QueuesMatchStates, LockDiscipline,
             CurrentMatchesCpu, OneArgument, InTransit, OnItsWayOut, TypeOK, SchedTypeOK
      <3>2. CASE state[current] = "Blocked"
        <4>1. current \notin ToSet(blocked)
          BY <3>0, <3>2 DEF QueuesMatchStates, OnItsWayOut
        <4>2. /\ IsInjective(blocked')
              /\ ToSet(blocked') = ToSet(blocked) \cup {current}
              /\ ready' = ready
          BY <3>0, <3>2, <4>1, AppendOnce DEF QueuesMatchStates, TypeOK, SchedTypeOK
        <4> QED
          BY <3>0, <3>2, <4>2 DEF QueuesMatchStates, LockDiscipline,
             CurrentMatchesCpu, OneArgument, InTransit, OnItsWayOut, TypeOK, SchedTypeOK
      <3> QED
        BY <3>0, <3>1, <3>2
    <2>5. OneArgument'
      BY DEF OneArgument, LockDiscipline, TypeOK, SchedTypeOK
    <2>6. WaitersAreBlocked'
      BY DEF WaitersAreBlocked, Woken, OneArgument, LockDiscipline,
             SleepersAreQueued, TypeOK, SchedTypeOK
    <2>7. SleepersAreQueued'
      BY DEF SleepersAreQueued, WaitersAreBlocked, OneArgument, QueuesMatchStates,
             LockDiscipline, CurrentMatchesCpu, TypeOK, SchedTypeOK
    <2> QED
      BY <2>1, <2>2, <2>3, <2>4, <2>5, <2>6, <2>7
  <1>2. ASSUME TakeNext, UNCHANGED <<semVars, pc>>
        PROVE  IndInv'
    <2> USE <1>2 DEF TakeNext
    <2>1. TypeOK'
      BY DEF TypeOK, SchedTypeOK, ThreadState, Label, Asleep, Critical
    <2>2. LockDiscipline'
      BY DEF LockDiscipline, CurrentMatchesCpu, TypeOK, SchedTypeOK
    <2>3. CurrentMatchesCpu'
      BY DEF CurrentMatchesCpu, LockDiscipline, QueuesMatchStates, TypeOK, SchedTypeOK
    <2>4. QueuesMatchStates'
      <3>1. /\ Head(ready) \in ToSet(ready) /\ Head(ready) \in Thread
            /\ IsInjective(ready')
            /\ ToSet(ready') = ToSet(ready) \ {Head(ready)}
        BY TailOnce DEF QueuesMatchStates, TypeOK, SchedTypeOK
      <3> QED
        BY <3>1 DEF QueuesMatchStates, LockDiscipline, CurrentMatchesCpu,
           OneArgument, InTransit, OnItsWayOut, TypeOK, SchedTypeOK
    <2>5. OneArgument'
      BY DEF OneArgument, LockDiscipline, TypeOK, SchedTypeOK
    <2>6. WaitersAreBlocked'
      <3>1. Head(ready) \in Thread /\ state[Head(ready)] = "Ready"
        BY TailOnce DEF QueuesMatchStates, TypeOK, SchedTypeOK
      <3>2. \A u \in Thread : state[u] = "Blocked" => state'[u] = "Blocked"
        BY <3>1 DEF TypeOK, SchedTypeOK
      <3>3. \A u \in Thread : pc[u] \in Waking => target[u] \subseteq Thread
        BY DEF TypeOK
      <3> QED
        BY <3>2, <3>3 DEF WaitersAreBlocked, Woken
    <2>7. SleepersAreQueued'
      BY DEF SleepersAreQueued, WaitersAreBlocked, OneArgument, QueuesMatchStates,
             LockDiscipline, CurrentMatchesCpu, TypeOK, SchedTypeOK
    <2> QED
      BY <2>1, <2>2, <2>3, <2>4, <2>5, <2>6, <2>7
  <1>3. ASSUME TakeNone, UNCHANGED <<semVars, pc>>
        PROVE  IndInv'
    <2> USE <1>3 DEF TakeNone
    <2>1. TypeOK'
      BY DEF Exited, TypeOK, SchedTypeOK, ThreadState, Label, Asleep, Critical
    <2>2. LockDiscipline'
      BY DEF LockDiscipline, CurrentMatchesCpu, TypeOK, SchedTypeOK
    <2>3. CurrentMatchesCpu'
      BY DEF CurrentMatchesCpu, LockDiscipline, QueuesMatchStates, TypeOK, SchedTypeOK
    <2>4. QueuesMatchStates'
      BY DEF QueuesMatchStates, LockDiscipline, CurrentMatchesCpu, OneArgument,
             InTransit, OnItsWayOut, TypeOK, SchedTypeOK
    <2>5. OneArgument'
      BY DEF OneArgument, LockDiscipline, TypeOK, SchedTypeOK
    <2>6. WaitersAreBlocked'
      BY DEF WaitersAreBlocked, Woken, OneArgument, LockDiscipline,
             SleepersAreQueued, TypeOK, SchedTypeOK
    <2>7. SleepersAreQueued'
      BY DEF SleepersAreQueued, WaitersAreBlocked, OneArgument, QueuesMatchStates,
             LockDiscipline, CurrentMatchesCpu, TypeOK, SchedTypeOK
    <2> QED
      BY <2>1, <2>2, <2>3, <2>4, <2>5, <2>6, <2>7
  <1>4. ASSUME Restore, UNCHANGED <<semVars, pc>>
        PROVE  IndInv'
    <2> USE <1>4 DEF Restore, Unlock
    <2>1. TypeOK'
      BY DEF TypeOK, SchedTypeOK, ThreadState, Label, Asleep, Critical
    <2>2. LockDiscipline'
      BY DEF LockDiscipline, CurrentMatchesCpu, TypeOK, SchedTypeOK
    <2>3. CurrentMatchesCpu'
      BY DEF CurrentMatchesCpu, LockDiscipline, QueuesMatchStates, TypeOK, SchedTypeOK
    <2>4. QueuesMatchStates'
      BY DEF QueuesMatchStates, LockDiscipline, CurrentMatchesCpu, OneArgument,
             InTransit, OnItsWayOut, TypeOK, SchedTypeOK
    <2>5. OneArgument'
      BY DEF OneArgument, LockDiscipline, TypeOK, SchedTypeOK
    <2>6. WaitersAreBlocked'
      BY DEF WaitersAreBlocked, Woken, OneArgument, LockDiscipline,
             SleepersAreQueued, TypeOK, SchedTypeOK
    <2>7. SleepersAreQueued'
      BY DEF SleepersAreQueued, WaitersAreBlocked, OneArgument, QueuesMatchStates,
             LockDiscipline, CurrentMatchesCpu, TypeOK, SchedTypeOK
    <2> QED
      BY <2>1, <2>2, <2>3, <2>4, <2>5, <2>6, <2>7
  <1>5. ASSUME TimerTick, UNCHANGED <<semVars, pc>>
        PROVE  IndInv'
    <2> USE <1>5 DEF TimerTick, Lock
    <2>1. TypeOK'
      BY DEF TypeOK, SchedTypeOK, ThreadState, Label, Asleep, Critical
    <2>2. LockDiscipline'
      BY DEF LockDiscipline, CurrentMatchesCpu, TypeOK, SchedTypeOK
    <2>3. CurrentMatchesCpu'
      BY DEF CurrentMatchesCpu, LockDiscipline, QueuesMatchStates, TypeOK, SchedTypeOK
    <2>4. QueuesMatchStates'
      BY DEF QueuesMatchStates, LockDiscipline, CurrentMatchesCpu, OneArgument,
             InTransit, OnItsWayOut, TypeOK, SchedTypeOK
    <2>5. OneArgument'
      BY DEF OneArgument, LockDiscipline, TypeOK, SchedTypeOK
    <2>6. WaitersAreBlocked'
      BY DEF WaitersAreBlocked, Woken, OneArgument, LockDiscipline,
             SleepersAreQueued, TypeOK, SchedTypeOK
    <2>7. SleepersAreQueued'
      BY DEF SleepersAreQueued, WaitersAreBlocked, OneArgument, QueuesMatchStates,
             LockDiscipline, CurrentMatchesCpu, TypeOK, SchedTypeOK
    <2> QED
      BY <2>1, <2>2, <2>3, <2>4, <2>5, <2>6, <2>7
  <1>6. ASSUME NEW t \in Thread, NEW s \in Semaphore, WaitLock(t, s)
        PROVE  IndInv'
    <2> USE <1>6 DEF WaitLock, At, Goto, Lock
    <2>1. TypeOK'
      BY DEF TypeOK, SchedTypeOK, ThreadState, Label, Asleep, Critical
    <2>2. LockDiscipline'
      BY DEF LockDiscipline, CurrentMatchesCpu, TypeOK, SchedTypeOK
    <2>3. CurrentMatchesCpu'
      BY DEF CurrentMatchesCpu, LockDiscipline, QueuesMatchStates, TypeOK, SchedTypeOK
    <2>4. QueuesMatchStates'
      BY DEF QueuesMatchStates, LockDiscipline, CurrentMatchesCpu, OneArgument,
             InTransit, OnItsWayOut, TypeOK, SchedTypeOK
    <2>5. OneArgument'
      BY DEF OneArgument, LockDiscipline, TypeOK, SchedTypeOK
    <2>6. WaitersAreBlocked'
      BY DEF WaitersAreBlocked, Woken, OneArgument, LockDiscipline,
             SleepersAreQueued, TypeOK, SchedTypeOK
    <2>7. SleepersAreQueued'
      BY SleepersKept DEF TypeOK, QueuesMatchStates
    <2> QED
      BY <2>1, <2>2, <2>3, <2>4, <2>5, <2>6, <2>7
  <1>7. ASSUME NEW t \in Thread, WaitAppend(t)
        PROVE  IndInv'
    <2> USE <1>7 DEF WaitAppend, At, Goto
    <2>1. TypeOK'
      BY DEF TypeOK, SchedTypeOK, ThreadState, Label, Asleep, Critical
    <2>2. LockDiscipline'
      BY DEF LockDiscipline, CurrentMatchesCpu, TypeOK, SchedTypeOK
    <2>3. CurrentMatchesCpu'
      BY DEF CurrentMatchesCpu, LockDiscipline, QueuesMatchStates, TypeOK, SchedTypeOK
    <2>4. QueuesMatchStates'
      BY DEF QueuesMatchStates, LockDiscipline, CurrentMatchesCpu, OneArgument,
             InTransit, OnItsWayOut, TypeOK, SchedTypeOK
    <2>5. OneArgument'
      BY DEF OneArgument, LockDiscipline, TypeOK, SchedTypeOK
    <2>6. WaitersAreBlocked'
      <3>1. PICK s \in Semaphore : /\ arg[t] = {s}
                                   /\ waiters' = [waiters EXCEPT ![s] = Append(@, t)]
        BY DEF OneArgument
      <3>2. t \notin ToSet(waiters[s])
        BY DEF WaitersAreBlocked
      <3>3. /\ IsInjective(waiters'[s])
            /\ ToSet(waiters'[s]) = ToSet(waiters[s]) \cup {t}
        BY <3>1, <3>2, AppendOnce DEF WaitersAreBlocked, TypeOK
      <3>4. \A r \in Semaphore : r # s => waiters'[r] = waiters[r]
        BY <3>1 DEF TypeOK
      <3>5. \A u \in Thread : pc'[u] \notin Waking /\ arg[u] \subseteq Semaphore
        BY DEF LockDiscipline, TypeOK
      <3>6. pc'[t] = "sleep" /\ \A u \in Thread : u # t => pc'[u] = pc[u]
        BY DEF TypeOK
      <3> QED
        BY <3>1, <3>3, <3>4, <3>5, <3>6 DEF WaitersAreBlocked, Woken
    <2>7. SleepersAreQueued'
      <3>1. PICK s \in Semaphore : /\ arg[t] = {s}
                                   /\ waiters' = [waiters EXCEPT ![s] = Append(@, t)]
        BY DEF OneArgument
      <3>2. t \notin ToSet(waiters[s])
        BY DEF WaitersAreBlocked
      <3>3. ToSet(waiters'[s]) = ToSet(waiters[s]) \cup {t}
        BY <3>1, <3>2, AppendOnce DEF WaitersAreBlocked, TypeOK
      <3>4. \A r \in Semaphore : r # s => waiters'[r] = waiters[r]
        BY <3>1 DEF TypeOK
      <3>5. \A u \in Thread : /\ pc[u] \notin Waking /\ pc'[u] \notin Waking
                              /\ arg[u] \subseteq Semaphore
        BY DEF LockDiscipline, TypeOK
      <3>6. /\ pc'[t] = "sleep" /\ state[t] = "Running"
            /\ \A u \in Thread : u # t => pc'[u] = pc[u]
        BY DEF TypeOK, QueuesMatchStates
      <3> QED
        BY <3>1, <3>3, <3>4, <3>5, <3>6 DEF SleepersAreQueued
    <2> QED
      BY <2>1, <2>2, <2>3, <2>4, <2>5, <2>6, <2>7
  <1>8. ASSUME NEW t \in Thread, WaitBlock(t)
        PROVE  IndInv'
    <2> USE <1>8 DEF WaitBlock, At, Goto, BlockCurrent
    <2>1. TypeOK'
      BY DEF TypeOK, SchedTypeOK, ThreadState, Label, Asleep, Critical
    <2>2. LockDiscipline'
      BY DEF LockDiscipline, CurrentMatchesCpu, TypeOK, SchedTypeOK
    <2>3. CurrentMatchesCpu'
      BY DEF CurrentMatchesCpu, LockDiscipline, QueuesMatchStates, TypeOK, SchedTypeOK
    <2>4. QueuesMatchStates'
      BY DEF QueuesMatchStates, LockDiscipline, CurrentMatchesCpu, OneArgument,
             InTransit, OnItsWayOut, TypeOK, SchedTypeOK
    <2>5. OneArgument'
      BY DEF OneArgument, LockDiscipline, TypeOK, SchedTypeOK
    <2>6. WaitersAreBlocked'
      BY DEF WaitersAreBlocked, Woken, OneArgument, LockDiscipline,
             SleepersAreQueued, TypeOK, SchedTypeOK
    <2>7. SleepersAreQueued'
      <3>1. \A u \in Thread : pc[u] \notin Waking /\ pc'[u] \notin Waking
        BY DEF LockDiscipline, TypeOK
      <3>2. /\ pc'[t] = "asleep"
            /\ \A u \in Thread : u # t => pc'[u] = pc[u] /\ state'[u] = state[u]
        BY DEF TypeOK, SchedTypeOK
      <3> QED
        BY <3>1, <3>2 DEF SleepersAreQueued
    <2> QED
      BY <2>1, <2>2, <2>3, <2>4, <2>5, <2>6, <2>7
  <1>9. ASSUME NEW t \in Thread, WaitRelock(t)
        PROVE  IndInv'
    <2> USE <1>9 DEF WaitRelock, At, Goto, Lock
    <2>1. TypeOK'
      BY DEF TypeOK, SchedTypeOK, ThreadState, Label, Asleep, Critical
    <2>2. LockDiscipline'
      BY DEF LockDiscipline, CurrentMatchesCpu, TypeOK, SchedTypeOK
    <2>3. CurrentMatchesCpu'
      BY DEF CurrentMatchesCpu, LockDiscipline, QueuesMatchStates, TypeOK, SchedTypeOK
    <2>4. QueuesMatchStates'
      BY DEF QueuesMatchStates, LockDiscipline, CurrentMatchesCpu, OneArgument,
             InTransit, OnItsWayOut, TypeOK, SchedTypeOK
    <2>5. OneArgument'
      BY DEF OneArgument, LockDiscipline, TypeOK, SchedTypeOK
    <2>6. WaitersAreBlocked'
      <3>1. \A s \in Semaphore : t \notin ToSet(waiters[s])
        BY DEF WaitersAreBlocked, Woken, QueuesMatchStates
      <3>2. \A u \in Thread : pc[u] \notin Waking /\ pc'[u] \notin Waking
        BY DEF LockDiscipline, TypeOK
      <3> QED
        BY <3>1, <3>2 DEF WaitersAreBlocked, Woken, TypeOK, SchedTypeOK
    <2>7. SleepersAreQueued'
      BY SleepersKept DEF TypeOK, QueuesMatchStates
    <2> QED
      BY <2>1, <2>2, <2>3, <2>4, <2>5, <2>6, <2>7
  <1>10. ASSUME NEW t \in Thread, WaitDecrement(t)
        PROVE  IndInv'
    <2> USE <1>10 DEF WaitDecrement, At, Goto
    <2>1. TypeOK'
      BY DEF TypeOK, SchedTypeOK, ThreadState, Label, Asleep, Critical
    <2>2. LockDiscipline'
      BY DEF LockDiscipline, CurrentMatchesCpu, TypeOK, SchedTypeOK
    <2>3. CurrentMatchesCpu'
      BY DEF CurrentMatchesCpu, LockDiscipline, QueuesMatchStates, TypeOK, SchedTypeOK
    <2>4. QueuesMatchStates'
      BY DEF QueuesMatchStates, LockDiscipline, CurrentMatchesCpu, OneArgument,
             InTransit, OnItsWayOut, TypeOK, SchedTypeOK
    <2>5. OneArgument'
      BY DEF OneArgument, LockDiscipline, TypeOK, SchedTypeOK
    <2>6. WaitersAreBlocked'
      BY DEF WaitersAreBlocked, Woken, OneArgument, LockDiscipline,
             SleepersAreQueued, TypeOK, SchedTypeOK
    <2>7. SleepersAreQueued'
      BY SleepersKept DEF TypeOK, QueuesMatchStates
    <2> QED
      BY <2>1, <2>2, <2>3, <2>4, <2>5, <2>6, <2>7
  <1>11. ASSUME NEW t \in Thread, NEW s \in Semaphore, SignalLock(t, s)
        PROVE  IndInv'
    <2> USE <1>11 DEF SignalLock, At, Goto, Lock
    <2>1. TypeOK'
      BY DEF TypeOK, SchedTypeOK, ThreadState, Label, Asleep, Critical
    <2>2. LockDiscipline'
      BY DEF LockDiscipline, CurrentMatchesCpu, TypeOK, SchedTypeOK
    <2>3. CurrentMatchesCpu'
      BY DEF CurrentMatchesCpu, LockDiscipline, QueuesMatchStates, TypeOK, SchedTypeOK
    <2>4. QueuesMatchStates'
      BY DEF QueuesMatchStates, LockDiscipline, CurrentMatchesCpu, OneArgument,
             InTransit, OnItsWayOut, TypeOK, SchedTypeOK
    <2>5. OneArgument'
      <3>1. \A u \in Thread : pc[u] \notin Waking /\ pc'[u] \notin Waking
        BY DEF LockDiscipline, TypeOK
      <3> QED
        BY <3>1 DEF OneArgument, TypeOK
    <2>6. WaitersAreBlocked'
      BY DEF WaitersAreBlocked, Woken, OneArgument, LockDiscipline,
             SleepersAreQueued, TypeOK, SchedTypeOK
    <2>7. SleepersAreQueued'
      BY SleepersKept DEF TypeOK, QueuesMatchStates
    <2> QED
      BY <2>1, <2>2, <2>3, <2>4, <2>5, <2>6, <2>7
  <1>12. ASSUME NEW t \in Thread, SignalIncrement(t)
        PROVE  IndInv'
    <2> USE <1>12 DEF SignalIncrement, At, Goto
    <2>1. TypeOK'
      BY DEF TypeOK, SchedTypeOK, ThreadState, Label, Asleep, Critical
    <2>2. LockDiscipline'
      BY DEF LockDiscipline, CurrentMatchesCpu, TypeOK, SchedTypeOK
    <2>3. CurrentMatchesCpu'
      BY DEF CurrentMatchesCpu, LockDiscipline, QueuesMatchStates, TypeOK, SchedTypeOK
    <2>4. QueuesMatchStates'
      BY DEF QueuesMatchStates, LockDiscipline, CurrentMatchesCpu, OneArgument,
             InTransit, OnItsWayOut, TypeOK, SchedTypeOK
    <2>5. OneArgument'
      BY DEF OneArgument, LockDiscipline, TypeOK, SchedTypeOK
    <2>6. WaitersAreBlocked'
      BY DEF WaitersAreBlocked, Woken, OneArgument, LockDiscipline,
             SleepersAreQueued, TypeOK, SchedTypeOK
    <2>7. SleepersAreQueued'
      BY SleepersKept DEF TypeOK, QueuesMatchStates
    <2> QED
      BY <2>1, <2>2, <2>3, <2>4, <2>5, <2>6, <2>7
  <1>13. ASSUME NEW t \in Thread, SignalTake(t)
        PROVE  IndInv'
    <2> USE <1>13 DEF SignalTake, At, Goto
    <2>1. TypeOK'
      BY DEF TypeOK, SchedTypeOK, ThreadState, Label, Asleep, Critical
    <2>2. LockDiscipline'
      BY DEF LockDiscipline, CurrentMatchesCpu, TypeOK, SchedTypeOK
    <2>3. CurrentMatchesCpu'
      BY DEF CurrentMatchesCpu, LockDiscipline, QueuesMatchStates, TypeOK, SchedTypeOK
    <2>4. QueuesMatchStates'
      BY DEF QueuesMatchStates, LockDiscipline, CurrentMatchesCpu, OneArgument,
             InTransit, OnItsWayOut, TypeOK, SchedTypeOK
    <2>5. OneArgument'
      <3>1. PICK s \in Semaphore : /\ s \in arg[t] /\ waiters[s] # <<>>
                                   /\ target' = [target EXCEPT ![t] = {Head(waiters[s])}]
        BY DEF TypeOK
      <3>2. Head(waiters[s]) \in Thread
        BY <3>1, TailOnce DEF WaitersAreBlocked, TypeOK
      <3> QED
        BY <3>1, <3>2 DEF OneArgument, TypeOK
    <2>6. WaitersAreBlocked'
      <3>1. PICK s \in Semaphore, u \in Thread :
              /\ arg[t] = {s} /\ waiters[s] # <<>>
              /\ u = Head(waiters[s])
              /\ target' = [target EXCEPT ![t] = {u}]
              /\ waiters' = [waiters EXCEPT ![s] = Tail(@)]
        BY SignalTaken
      <3>2. /\ u \in ToSet(waiters[s]) /\ IsInjective(waiters'[s])
            /\ ToSet(waiters'[s]) = ToSet(waiters[s]) \ {u}
        BY <3>1, TailOnce DEF WaitersAreBlocked, TypeOK
      <3>3. \A r \in Semaphore : r # s => waiters'[r] = waiters[r]
        BY <3>1 DEF TypeOK
      <3>4. /\ pc'[t] = "remove" /\ target'[t] = {u} /\ u # t
            /\ \A v \in Thread : v # t => pc'[v] = pc[v] /\ pc[v] \notin Waking
        <4>1. u # t
          BY <3>2 DEF WaitersAreBlocked
        <4>2. /\ pc'[t] = "remove"
              /\ \A v \in Thread : v # t => pc'[v] = pc[v] /\ pc[v] \notin Waking
          BY DEF LockDiscipline, TypeOK
        <4> QED
          BY <3>1, <4>1, <4>2 DEF TypeOK
      <3>5. pc[u] = "asleep" /\ arg[u] = {s}
        BY <3>1, <3>2, <3>4 DEF WaitersAreBlocked, LockDiscipline, OneArgument
      <3>6. state[u] = "Blocked"
        BY <3>2, <3>5 DEF WaitersAreBlocked, Woken
      <3>7. \A v \in Thread : arg[v] \subseteq Semaphore
        BY DEF TypeOK
      <3>8. /\ \A r \in Semaphore :
                 /\ IsInjective(waiters'[r])
                 /\ \A v \in ToSet(waiters'[r]) : pc'[v] \in Asleep /\ r \in arg[v]
        BY <3>1, <3>2, <3>3, <3>4 DEF WaitersAreBlocked
      <3> QED
        BY <3>2, <3>3, <3>4, <3>5, <3>6, <3>7, <3>8 DEF WaitersAreBlocked, Woken
    <2>7. SleepersAreQueued'
      <3>1. PICK s \in Semaphore, u \in Thread :
              /\ arg[t] = {s} /\ waiters[s] # <<>>
              /\ u = Head(waiters[s])
              /\ target' = [target EXCEPT ![t] = {u}]
              /\ waiters' = [waiters EXCEPT ![s] = Tail(@)]
        BY SignalTaken
      <3>2. /\ u \in ToSet(waiters[s])
            /\ ToSet(waiters'[s]) = ToSet(waiters[s]) \ {u}
        BY <3>1, TailOnce DEF WaitersAreBlocked, TypeOK
      <3>3. \A r \in Semaphore : r # s => waiters'[r] = waiters[r]
        BY <3>1 DEF TypeOK
      <3>4. /\ pc'[t] = "remove" /\ target'[t] = {u} /\ u # t /\ state[t] = "Running"
            /\ \A v \in Thread : v # t => pc'[v] = pc[v] /\ pc[v] \notin Critical
        <4>1. u # t
          BY <3>2 DEF WaitersAreBlocked
        <4>2. /\ pc'[t] = "remove" /\ state[t] = "Running"
              /\ \A v \in Thread : v # t => pc'[v] = pc[v] /\ pc[v] \notin Critical
          BY DEF LockDiscipline, QueuesMatchStates, TypeOK
        <4> QED
          BY <3>1, <4>1, <4>2 DEF TypeOK
      <3>5. arg[u] = {s}
        BY <3>1, <3>2, <3>4 DEF WaitersAreBlocked, OneArgument
      <3>6. \A r \in Semaphore : u \notin ToSet(waiters'[r])
        BY <3>1, <3>2, <3>3, <3>5 DEF WaitersAreBlocked
      <3>7. \A v \in Thread : arg[v] \subseteq Semaphore
        BY DEF TypeOK
      <3>8. ASSUME NEW v \in Thread, state[v] = "Blocked"
            PROVE  /\ pc'[v] = "asleep"
                   /\ \/ \A r \in arg[v] : v \in ToSet(waiters'[r])
                      \/ \E w \in Thread : pc'[w] \in Waking /\ v \in target'[w]
        <4>1. v # t /\ pc'[v] = "asleep" /\ \A r \in arg[v] : v \in ToSet(waiters[r])
          BY <3>4, <3>8 DEF SleepersAreQueued
        <4>2. CASE v = u
          BY <3>4, <4>1, <4>2
        <4>3. CASE v # u
          BY <3>2, <3>3, <3>7, <4>1, <4>3
        <4> QED
          BY <4>1, <4>2, <4>3
      <3> QED
        BY <3>4, <3>6, <3>8 DEF SleepersAreQueued
    <2> QED
      BY <2>1, <2>2, <2>3, <2>4, <2>5, <2>6, <2>7
  <1>14. ASSUME NEW t \in Thread, SignalNobody(t)
        PROVE  IndInv'
    <2> USE <1>14 DEF SignalNobody, At, Goto
    <2>1. TypeOK'
      BY DEF TypeOK, SchedTypeOK, ThreadState, Label, Asleep, Critical
    <2>2. LockDiscipline'
      BY DEF LockDiscipline, CurrentMatchesCpu, TypeOK, SchedTypeOK
    <2>3. CurrentMatchesCpu'
      BY DEF CurrentMatchesCpu, LockDiscipline, QueuesMatchStates, TypeOK, SchedTypeOK
    <2>4. QueuesMatchStates'
      BY DEF QueuesMatchStates, LockDiscipline, CurrentMatchesCpu, OneArgument,
             InTransit, OnItsWayOut, TypeOK, SchedTypeOK
    <2>5. OneArgument'
      BY DEF OneArgument, LockDiscipline, TypeOK, SchedTypeOK
    <2>6. WaitersAreBlocked'
      BY DEF WaitersAreBlocked, Woken, OneArgument, LockDiscipline,
             SleepersAreQueued, TypeOK, SchedTypeOK
    <2>7. SleepersAreQueued'
      BY SleepersKept DEF TypeOK, QueuesMatchStates
    <2> QED
      BY <2>1, <2>2, <2>3, <2>4, <2>5, <2>6, <2>7
  <1>15. ASSUME NEW t \in Thread, SignalRemove(t)
        PROVE  IndInv'
    <2> USE <1>15 DEF SignalRemove, At, Goto, UnblockRemove
    <2>1. TypeOK'
      <3>1. PICK u \in Thread : u \in target[t] /\ UnblockRemove(u)
        BY DEF TypeOK
      <3>2. blocked' \in Seq(Thread)
        BY <3>1, RemoveFirstOnce DEF QueuesMatchStates, TypeOK, SchedTypeOK
      <3> QED
        BY <3>1, <3>2 DEF TypeOK, SchedTypeOK, ThreadState, Label, Asleep, Critical
    <2>2. LockDiscipline'
      BY DEF LockDiscipline, CurrentMatchesCpu, TypeOK, SchedTypeOK
    <2>3. CurrentMatchesCpu'
      BY DEF CurrentMatchesCpu, LockDiscipline, QueuesMatchStates, TypeOK, SchedTypeOK
    <2>4. QueuesMatchStates'
      <3>1. PICK u \in Thread : target[t] = {u} /\ UnblockRemove(u)
        BY DEF OneArgument
      <3>2. /\ IsInjective(blocked')
            /\ ToSet(blocked') = ToSet(blocked) \ {u}
        BY <3>1, RemoveFirstOnce DEF QueuesMatchStates, TypeOK, SchedTypeOK
      <3>3. \A v \in Thread : ~InTransit(v) /\ (InTransit(v)' <=> v = u)
        BY <3>1 DEF InTransit, LockDiscipline, TypeOK
      <3> QED
        BY <3>1, <3>2, <3>3 DEF QueuesMatchStates, OnItsWayOut, TypeOK, SchedTypeOK
    <2>5. OneArgument'
      BY DEF OneArgument, LockDiscipline, TypeOK, SchedTypeOK
    <2>6. WaitersAreBlocked'
      BY DEF WaitersAreBlocked, Woken, OneArgument, LockDiscipline,
             SleepersAreQueued, TypeOK, SchedTypeOK
    <2>7. SleepersAreQueued'
      BY DEF SleepersAreQueued, WaitersAreBlocked, OneArgument, QueuesMatchStates,
             LockDiscipline, CurrentMatchesCpu, TypeOK, SchedTypeOK
    <2> QED
      BY <2>1, <2>2, <2>3, <2>4, <2>5, <2>6, <2>7
  <1>16. ASSUME NEW t \in Thread, SignalRequeue(t)
        PROVE  IndInv'
    <2> USE <1>16 DEF SignalRequeue, At, Goto, UnblockRequeue
    <2>1. TypeOK'
      BY DEF TypeOK, SchedTypeOK, ThreadState, Label, Asleep, Critical
    <2>2. LockDiscipline'
      BY DEF LockDiscipline, CurrentMatchesCpu, TypeOK, SchedTypeOK
    <2>3. CurrentMatchesCpu'
      BY DEF CurrentMatchesCpu, LockDiscipline, QueuesMatchStates, TypeOK, SchedTypeOK
    <2>4. QueuesMatchStates'
      <3>1. PICK u \in Thread : target[t] = {u} /\ UnblockRequeue(u)
        BY DEF OneArgument
      <3>2. state[u] = "Blocked"
        BY <3>1 DEF WaitersAreBlocked
      <3>3. /\ IsInjective(ready')
            /\ ToSet(ready') = ToSet(ready) \cup {u}
        <4>1. u \notin ToSet(ready) /\ IsInjective(ready) /\ ready \in Seq(Thread)
          BY <3>2 DEF QueuesMatchStates, TypeOK, SchedTypeOK
        <4> QED
          BY <3>1, <4>1, AppendOnce
      <3>4. \A v \in Thread : (InTransit(v) <=> v = u) /\ ~InTransit(v)'
        BY <3>1 DEF InTransit, LockDiscipline, TypeOK
      <3> QED
        BY <3>1, <3>2, <3>3, <3>4 DEF QueuesMatchStates, OnItsWayOut, LockDiscipline,
           TypeOK, SchedTypeOK
    <2>5. OneArgument'
      BY DEF OneArgument, LockDiscipline, TypeOK, SchedTypeOK
    <2>6. WaitersAreBlocked'
      <3>1. PICK u \in Thread : target[t] = {u} /\ UnblockRequeue(u)
        BY DEF OneArgument
      <3>2. \A s \in Semaphore : u \notin ToSet(waiters[s])
        BY <3>1 DEF SleepersAreQueued
      <3>3. \A v \in Thread : v # u => state'[v] = state[v]
        BY <3>1 DEF TypeOK, SchedTypeOK
      <3>4. /\ pc[t] # "asleep"
            /\ \A v \in Thread : pc'[v] \notin Waking /\ (v # t => pc'[v] = pc[v])
        BY DEF LockDiscipline, TypeOK
      <3>5. pc'[t] = "leave" /\ arg' = arg /\ waiters' = waiters
        BY DEF TypeOK
      <3>6. \A v \in Thread : arg[v] \subseteq Semaphore
        BY DEF TypeOK
      <3> QED
        BY <3>2, <3>3, <3>4, <3>5, <3>6 DEF WaitersAreBlocked, Woken
    <2>7. SleepersAreQueued'
      BY DEF SleepersAreQueued, WaitersAreBlocked, OneArgument, QueuesMatchStates,
             LockDiscipline, CurrentMatchesCpu, TypeOK, SchedTypeOK
    <2> QED
      BY <2>1, <2>2, <2>3, <2>4, <2>5, <2>6, <2>7
  <1>17. ASSUME NEW t \in Thread, Leave(t)
        PROVE  IndInv'
    <2> USE <1>17 DEF Leave, At, Goto, Unlock
    <2>1. TypeOK'
      BY DEF TypeOK, SchedTypeOK, ThreadState, Label, Asleep, Critical
    <2>2. LockDiscipline'
      BY DEF LockDiscipline, CurrentMatchesCpu, TypeOK, SchedTypeOK
    <2>3. CurrentMatchesCpu'
      BY DEF CurrentMatchesCpu, LockDiscipline, QueuesMatchStates, TypeOK, SchedTypeOK
    <2>4. QueuesMatchStates'
      BY DEF QueuesMatchStates, LockDiscipline, CurrentMatchesCpu, OneArgument,
             InTransit, OnItsWayOut, TypeOK, SchedTypeOK
    <2>5. OneArgument'
      BY DEF OneArgument, LockDiscipline, TypeOK, SchedTypeOK
    <2>6. WaitersAreBlocked'
      BY DEF WaitersAreBlocked, Woken, OneArgument, LockDiscipline,
             SleepersAreQueued, TypeOK, SchedTypeOK
    <2>7. SleepersAreQueued'
      BY DEF SleepersAreQueued, WaitersAreBlocked, OneArgument, QueuesMatchStates,
             LockDiscipline, CurrentMatchesCpu, TypeOK, SchedTypeOK
    <2> QED
      BY <2>1, <2>2, <2>3, <2>4, <2>5, <2>6, <2>7
  <1> QED
    BY <1>1, <1>2, <1>3, <1>4, <1>5, <1>6, <1>7, <1>8, <1>9, <1>10, <1>11, <1>12, <1>13,
       <1>14, <1>15, <1>16, <1>17 DEF SwitchStep, Signal, SemaphoreStep

\* The threads in any order, each once.
LEMMA EveryThreadQueued ==
  ASSUME NEW q \in SetToSeqs(Thread)
  PROVE  q \in Seq(Thread) /\ IsInjective(q) /\ ToSet(q) = Thread
  <1> DEFINE n == Cardinality(Thread)
  <1>1. n \in Nat
    BY FS_CardinalityType, FiniteThreadAssumption
  <1>2. q \in [1..n -> Thread] /\ \A i, j \in 1..n : i # j => q[i] # q[j]
    BY DEF SetToSeqs
  <1>3. q \in Seq(Thread) /\ Len(q) = n /\ DOMAIN q = 1..n
    BY <1>1, <1>2, FunctionIsSeq
  <1>4. q \in Injection(1..n, Thread)
    BY <1>2, <1>3 DEF Injection, IsInjective
  <1>5. IsFiniteSet(1..n) /\ Cardinality(1..n) = n
    BY <1>1, FS_Interval
  <1>6. q \in Surjection(1..n, Thread)
    BY <1>4, <1>5, FS_Injection, FiniteThreadAssumption
  <1> QED
    BY <1>2, <1>3, <1>6 DEF Surjection, IsInjective, ToSet

LEMMA InitInv == Init => IndInv
  <1> SUFFICES ASSUME Init PROVE IndInv
    OBVIOUS
  <1> USE DEF Init, Switching
  <1>1. ready \in Seq(Thread) /\ IsInjective(ready) /\ ToSet(ready) = Thread
    BY EveryThreadQueued
  <1>2. <<>> \in Seq(Thread) /\ ToSet(<<>>) = {} /\ IsInjective(<<>>)
    BY DEF ToSet, IsInjective
  <1>3. TypeOK
    BY <1>1, <1>2, InitialValueAssumption DEF TypeOK, SchedTypeOK, ThreadState, Label
  <1>4. /\ LockDiscipline /\ CurrentMatchesCpu
        /\ OneArgument /\ WaitersAreBlocked /\ SleepersAreQueued
    BY <1>2 DEF LockDiscipline, CurrentMatchesCpu, OneArgument, WaitersAreBlocked,
                SleepersAreQueued, Critical, Waking, Woken
  <1>5. QueuesMatchStates
    BY <1>1, <1>2 DEF QueuesMatchStates
  <1> QED
    BY <1>3, <1>4, <1>5 DEF IndInv

\* What the proofs below take of a step of Next: it is one of the library or of a
\* call, or nothing changes.
LEMMA StepCases ==
  ASSUME [Next]_vars
  PROVE  \/ SwitchStep
         \/ Signal
         \/ \E t \in Thread : SemaphoreStep(t)
         \/ \E t \in Thread, s \in Semaphore : WaitLock(t, s) \/ SignalLock(t, s)
         \/ UNCHANGED vars
  BY DEF Next, ClientCall, Stopped, AfterExit, vars

LEMMA StepInv == IndInv /\ [Next]_vars => IndInv'
  <1> SUFFICES ASSUME IndInv, [Next]_vars PROVE IndInv'
    OBVIOUS
  <1>1. CASE UNCHANGED vars
    BY <1>1 DEF vars, semVars, schedVars, IndInv, TypeOK, SchedTypeOK, LockDiscipline,
         CurrentMatchesCpu, QueuesMatchStates, OneArgument, WaitersAreBlocked,
         SleepersAreQueued, Runs, InTransit, OnItsWayOut, Woken
  <1> QED
    BY <1>1, CallInv, StepCases

LEMMA Invariant == Spec => []IndInv
  BY InitInv, StepInv, PTL DEF Spec

LEMMA ComingIsFinite ==
  ASSUME NEW s
  PROVE  IsFiniteSet(Coming(s)) /\ Cardinality(Coming(s)) \in Nat
  <1>1. Coming(s) \subseteq Thread
    BY DEF Coming
  <1> QED
    BY <1>1, FS_Subset, FS_CardinalityType, FiniteThreadAssumption

\* The threads that come are counted anew in each step: a step that takes a unit
\* of the value takes one of them, and one that adds a unit adds one.
LEMMA WakeupStep ==
  ASSUME IndInv, IndInv', NoLostWakeup,
         \/ SwitchStep
         \/ Signal
         \/ \E t \in Thread : SemaphoreStep(t)
         \/ \E t \in Thread, s \in Semaphore : WaitLock(t, s) \/ SignalLock(t, s)
  PROVE  NoLostWakeup'
  <1> SUFFICES ASSUME NEW s \in Semaphore, waiters'[s] # <<>>
               PROVE  value'[s] <= Cardinality(Coming(s)')
    BY DEF NoLostWakeup
  <1> USE DEF At, Goto, Runs, Waking, semVars, schedVars
  <1>1. /\ IsFiniteSet(Coming(s)) /\ Cardinality(Coming(s)) \in Nat
        /\ IsFiniteSet(Coming(s)') /\ Cardinality(Coming(s)') \in Nat
        /\ value[s] \in Nat /\ value'[s] \in Nat
    <2>1. Coming(s)' \subseteq Thread
      BY DEF Coming
    <2> QED
      BY <2>1, ComingIsFinite, FS_Subset, FS_CardinalityType, FiniteThreadAssumption
         DEF IndInv, TypeOK
  <1>2. ASSUME waiters[s] # <<>>, value'[s] <= value[s], Coming(s) \subseteq Coming(s)'
        PROVE  value'[s] <= Cardinality(Coming(s)')
    <2>1. Cardinality(Coming(s)) <= Cardinality(Coming(s)')
      BY <1>1, <1>2, FS_Subset
    <2> QED
      BY <1>1, <1>2, <2>1 DEF NoLostWakeup
  <1>3. CASE SwitchStep \/ Signal
    <2>1. UNCHANGED <<value, waiters, arg, pc>>
      BY <1>3 DEF SwitchStep, Signal
    <2>2. Coming(s)' = Coming(s)
      BY <2>1 DEF Coming, Woken
    <2> QED
      BY <1>1, <1>2, <2>1, <2>2
  <1>4. ASSUME NEW t \in Thread, NEW r \in Semaphore, WaitLock(t, r) \/ SignalLock(t, r)
        PROVE  value'[s] <= Cardinality(Coming(s)')
    <2>1. Coming(s) \subseteq Coming(s)'
      BY <1>4 DEF Coming, Woken, WaitLock, SignalLock, IndInv, TypeOK
    <2> QED
      BY <1>1, <1>2, <1>4, <2>1 DEF WaitLock, SignalLock
  <1>5. ASSUME NEW t \in Thread, SemaphoreStep(t)
        PROVE  value'[s] <= Cardinality(Coming(s)')
    <2>1. CASE WaitAppend(t)
      <3>1. PICK r \in Semaphore : /\ arg[t] = {r} /\ value[r] = 0
                                   /\ waiters' = [waiters EXCEPT ![r] = Append(@, t)]
        <4>1. PICK r \in Semaphore : arg[t] = {r}
          BY <2>1 DEF WaitAppend, IndInv, OneArgument
        <4> QED
          BY <2>1, <4>1 DEF WaitAppend
      <3>2. CASE s = r
        BY <1>1, <2>1, <3>1, <3>2 DEF WaitAppend
      <3>3. CASE s # r
        <4>1. waiters'[s] = waiters[s]
          BY <3>1, <3>3 DEF IndInv, TypeOK
        <4>2. Coming(s) \subseteq Coming(s)'
          BY <2>1, <3>1, <3>3, <4>1 DEF WaitAppend, Coming, Woken, IndInv, TypeOK
        <4> QED
          BY <1>1, <1>2, <2>1, <4>1, <4>2 DEF WaitAppend
      <3> QED
        BY <3>2, <3>3
    <2>2. CASE WaitBlock(t)
      BY <1>1, <1>2, <2>2 DEF WaitBlock, Coming, Woken, IndInv, TypeOK
    <2>3. CASE WaitRelock(t)
      BY <1>1, <1>2, <2>3 DEF WaitRelock, Coming, Woken, IndInv, TypeOK
    <2>4. CASE WaitDecrement(t)
      <3>1. PICK r \in Semaphore : /\ arg[t] = {r} /\ value[r] > 0
                                   /\ value' = [value EXCEPT ![r] = @ - 1]
        <4>1. PICK r \in Semaphore : arg[t] = {r}
          BY <2>4 DEF WaitDecrement, IndInv, OneArgument
        <4> QED
          BY <2>4, <4>1 DEF WaitDecrement
      <3>2. CASE s = r
        <4>1. t \in Coming(s)
          BY <2>4, <3>1, <3>2 DEF WaitDecrement, Coming
        <4>2. Coming(s) \ {t} \subseteq Coming(s)'
          BY <2>4 DEF WaitDecrement, Coming, Woken, IndInv, TypeOK
        <4>3. Cardinality(Coming(s)) - 1 <= Cardinality(Coming(s)')
          <5>1. /\ Cardinality(Coming(s) \ {t}) = Cardinality(Coming(s)) - 1
                /\ Cardinality(Coming(s) \ {t}) <= Cardinality(Coming(s)')
            BY <1>1, <4>1, <4>2, FS_RemoveElement, FS_Subset
          <5> QED
            BY <5>1
        <4>4. value[s] <= Cardinality(Coming(s))
          BY <2>4 DEF WaitDecrement, NoLostWakeup
        <4> QED
          BY <1>1, <3>1, <3>2, <4>3, <4>4 DEF IndInv, TypeOK
      <3>3. CASE s # r
        <4>1. value'[s] = value[s]
          BY <3>1, <3>3 DEF IndInv, TypeOK
        <4>2. Coming(s) \subseteq Coming(s)'
          BY <2>4, <3>1, <3>3 DEF WaitDecrement, Coming, Woken, IndInv, TypeOK
        <4> QED
          BY <1>1, <1>2, <2>4, <4>1, <4>2 DEF WaitDecrement
      <3> QED
        BY <3>2, <3>3
    <2>5. CASE SignalIncrement(t)
      <3>1. PICK r \in Semaphore : /\ arg[t] = {r}
                                   /\ value' = [value EXCEPT ![r] = @ + 1]
        <4>1. PICK r \in Semaphore : arg[t] = {r}
          BY <2>5 DEF SignalIncrement, IndInv, OneArgument
        <4> QED
          BY <2>5, <4>1 DEF SignalIncrement
      <3>2. CASE s = r
        <4>1. t \notin Coming(s)
          BY <2>5 DEF SignalIncrement, Coming, Woken
        <4>2. Coming(s) \cup {t} \subseteq Coming(s)'
          BY <2>5, <3>1, <3>2 DEF SignalIncrement, Coming, Woken, IndInv, TypeOK
        <4>3. Cardinality(Coming(s)) + 1 <= Cardinality(Coming(s)')
          BY <1>1, <4>1, <4>2, FS_AddElement, FS_Subset
        <4>4. value[s] <= Cardinality(Coming(s))
          BY <2>5 DEF SignalIncrement, NoLostWakeup
        <4> QED
          BY <1>1, <3>1, <3>2, <4>3, <4>4 DEF IndInv, TypeOK
      <3>3. CASE s # r
        <4>1. value'[s] = value[s]
          BY <3>1, <3>3 DEF IndInv, TypeOK
        <4>2. Coming(s) \subseteq Coming(s)'
          BY <2>5 DEF SignalIncrement, Coming, Woken, IndInv, TypeOK
        <4> QED
          BY <1>1, <1>2, <2>5, <4>1, <4>2 DEF SignalIncrement
      <3> QED
        BY <3>2, <3>3
    <2>6. CASE SignalTake(t)
      <3>1. PICK r \in Semaphore, u \in Thread :
              /\ arg[t] = {r} /\ waiters[r] # <<>>
              /\ u = Head(waiters[r])
              /\ target' = [target EXCEPT ![t] = {u}]
              /\ waiters' = [waiters EXCEPT ![r] = Tail(@)]
        BY <2>6, SignalTaken
      <3>2. /\ u \in ToSet(waiters[r])
            /\ ToSet(waiters'[r]) = ToSet(waiters[r]) \ {u}
            /\ \A q \in Semaphore : q # r => waiters'[q] = waiters[q]
        BY <3>1, TailOnce DEF IndInv, WaitersAreBlocked, TypeOK
      <3>3. CASE s = r
        <4>0. t # u /\ pc[t] = "wake" /\ pc'[t] = "remove"
              /\ pc[u] \in Asleep /\ r \in arg[u]
          BY <2>6, <3>2 DEF SignalTake, IndInv, WaitersAreBlocked, TypeOK, Asleep
        <4>1. t \in Coming(s) /\ u \notin Coming(s)
          BY <3>1, <3>2, <3>3, <4>0 DEF Coming, Woken, Asleep
        <4>2. pc'[u] = "asleep" /\ u \notin ToSet(waiters'[r]) /\ arg' = arg
          BY <2>6, <3>2, <4>0 DEF SignalTake, IndInv, TypeOK, Asleep, LockDiscipline,
             Critical, Label
        <4>3. (Coming(s) \cup {u}) \ {t} \subseteq Coming(s)'
          BY <2>6, <3>2, <3>3, <4>0, <4>2 DEF SignalTake, Coming, Woken, IndInv, TypeOK
        <4>4. /\ IsFiniteSet(Coming(s) \cup {u})
              /\ Cardinality(Coming(s) \cup {u}) = Cardinality(Coming(s)) + 1
          <5> DEFINE C == Coming(s)
          <5>1. IsFiniteSet(C) /\ u \notin C
            BY <1>1, <4>1
          <5>2. IsFiniteSet(C \cup {u}) /\ Cardinality(C \cup {u}) = Cardinality(C) + 1
            <6> HIDE DEF C
            <6> QED
              BY <5>1, FS_AddElement
          <5> QED
            BY <5>2
        <4>5. Cardinality((Coming(s) \cup {u}) \ {t}) = Cardinality(Coming(s))
          <5> DEFINE C == Coming(s) \cup {u}
          <5>1. IsFiniteSet(C) /\ t \in C /\ Cardinality(C) = Cardinality(Coming(s)) + 1
            BY <4>1, <4>4
          <5>2. Cardinality(C \ {t}) = Cardinality(C) - 1
            <6> HIDE DEF C
            <6> QED
              BY <5>1, FS_RemoveElement
          <5> QED
            BY <1>1, <5>1, <5>2
        <4>6. Cardinality(Coming(s)) <= Cardinality(Coming(s)')
          BY <1>1, <4>3, <4>5, FS_Subset
        <4> QED
          BY <1>1, <2>6, <3>1, <3>3, <4>6 DEF SignalTake, NoLostWakeup
      <3>4. CASE s # r
        <4>1. Coming(s) \subseteq Coming(s)'
          BY <2>6, <3>1, <3>2, <3>4 DEF SignalTake, Coming, Woken, IndInv, TypeOK
        <4> QED
          BY <1>1, <1>2, <2>6, <3>2, <3>4, <4>1 DEF SignalTake
      <3> QED
        BY <3>3, <3>4
    <2>7. CASE SignalNobody(t)
      <3>1. Coming(s) \subseteq Coming(s)'
        BY <2>7 DEF SignalNobody, Coming, Woken, IndInv, TypeOK, OneArgument
      <3> QED
        BY <1>1, <1>2, <2>7, <3>1 DEF SignalNobody
    <2>8. CASE SignalRemove(t) \/ SignalRequeue(t) \/ Leave(t)
      <3>1. /\ Coming(s) \subseteq Coming(s)'
            /\ UNCHANGED <<value, waiters>>
        BY <2>8 DEF SignalRemove, SignalRequeue, Leave, Coming, Woken, IndInv, TypeOK
      <3> QED
        BY <1>1, <1>2, <3>1
    <2> QED
      BY <1>5, <2>1, <2>2, <2>3, <2>4, <2>5, <2>6, <2>7, <2>8 DEF SemaphoreStep
  <1> QED
    BY <1>3, <1>4, <1>5

\* Permits are taken where the loop of semaphore_wait finds the value positive,
\* and added where semaphore_signal increments it; no other step shows.
LEMMA StepsAreSemaphoreSteps ==
  IndInv /\ [Next]_vars => [Permits!Next]_Permits!vars
  <1> SUFFICES ASSUME IndInv, [Next]_vars
               PROVE  [Permits!Next]_Permits!vars
    OBVIOUS
  <1> DEFINE waiting == [t \in Thread |->
                           IF pc[t] \in Asleep \cup {"wait"} THEN arg[t] ELSE {}]
             signalling == [t \in Thread |-> IF pc[t] = "signal" THEN arg[t] ELSE {}]
  <1>1. /\ TypeOK
        /\ \A t \in Thread : pc[t] # "user" => \E s \in Semaphore : arg[t] = {s}
    BY DEF IndInv, OneArgument
  <1> USE DEF Asleep, Permits!vars
  <1>2. ASSUME NEW t \in Thread, NEW s \in Semaphore, WaitLock(t, s)
        PROVE  Permits!CallWait(t, s)
    <2>1. /\ pc' = [pc EXCEPT ![t] = "wait"] /\ arg' = [arg EXCEPT ![t] = {s}]
          /\ value' = value /\ pc[t] = "user"
      BY <1>2 DEF WaitLock, At, Goto
    <2> QED
      BY <1>1, <2>1 DEF Permits!CallWait, TypeOK
  <1>3. ASSUME NEW t \in Thread, NEW s \in Semaphore, SignalLock(t, s)
        PROVE  Permits!CallSignal(t, s)
    <2>1. /\ pc' = [pc EXCEPT ![t] = "signal"] /\ arg' = [arg EXCEPT ![t] = {s}]
          /\ value' = value /\ pc[t] = "user"
      BY <1>3 DEF SignalLock, At, Goto
    <2> QED
      BY <1>1, <2>1 DEF Permits!CallSignal, TypeOK
  <1>4. ASSUME NEW t \in Thread, WaitDecrement(t)
        PROVE  \E s \in Semaphore : Permits!Acquire(t, s)
    <2>1. PICK s \in Semaphore : arg[t] = {s}
      BY <1>1, <1>4 DEF WaitDecrement, At
    <2>2. /\ pc' = [pc EXCEPT ![t] = "leave"] /\ arg' = arg /\ pc[t] = "wait"
          /\ value[s] > 0 /\ value' = [value EXCEPT ![s] = @ - 1]
      BY <1>4, <2>1 DEF WaitDecrement, At, Goto
    <2>3. Permits!Acquire(t, s)
      BY <1>1, <2>1, <2>2 DEF Permits!Acquire, TypeOK
    <2> QED
      BY <2>3
  <1>5. ASSUME NEW t \in Thread, SignalIncrement(t)
        PROVE  \E s \in Semaphore : Permits!Release(t, s)
    <2>1. PICK s \in Semaphore : arg[t] = {s}
      BY <1>1, <1>5 DEF SignalIncrement, At
    <2>2. /\ pc' = [pc EXCEPT ![t] = "wake"] /\ arg' = arg /\ pc[t] = "signal"
          /\ value' = [value EXCEPT ![s] = @ + 1]
      BY <1>5, <2>1 DEF SignalIncrement, At, Goto
    <2>3. Permits!Release(t, s)
      BY <1>1, <2>1, <2>2 DEF Permits!Release, TypeOK
    <2> QED
      BY <2>3
  <1>6. ASSUME NEW t \in Thread,
               \/ WaitAppend(t) \/ WaitBlock(t) \/ WaitRelock(t) \/ SignalTake(t)
               \/ SignalNobody(t) \/ SignalRemove(t) \/ SignalRequeue(t) \/ Leave(t)
        PROVE  UNCHANGED Permits!vars
    <2>1. value' = value
      BY <1>6 DEF WaitAppend, WaitBlock, WaitRelock, SignalTake, SignalNobody,
                  SignalRemove, SignalRequeue, Leave, semVars
    <2>2. waiting' = waiting /\ signalling' = signalling
      BY <1>1, <1>6 DEF WaitAppend, WaitBlock, WaitRelock, SignalTake, SignalNobody,
                  SignalRemove, SignalRequeue, Leave, semVars, At, Goto, TypeOK
    <2> QED
      BY <2>1, <2>2
  <1>7. ASSUME SwitchStep \/ Signal \/ UNCHANGED vars
        PROVE  UNCHANGED Permits!vars
    BY <1>7 DEF SwitchStep, Signal, vars, semVars
  <1> QED
    BY <1>2, <1>3, <1>4, <1>5, <1>6, <1>7, StepCases DEF SemaphoreStep, Permits!Next

\* Every variable keeps its type; no semaphore falls below zero.
THEOREM TypesHold == Spec => []TypeOK
  <1>1. IndInv => TypeOK
    BY DEF IndInv
  <1> QED
    BY <1>1, Invariant, PTL

\* Every thread in the queue of a semaphore is one that sleeps on it, Blocked once
\* it has given up the CPU, and the one that a signal has chosen stays so until it
\* is requeued: what sthread_unblock asserts, however the timer cuts up the calls.
THEOREM WaitersStayBlocked == Spec => []WaitersAreBlocked
  <1>1. IndInv => WaitersAreBlocked
    BY DEF IndInv
  <1> QED
    BY <1>1, Invariant, PTL

\* No wake-up is lost, for any number of threads and semaphores: of IndInv the
\* steps need which thread is in which queue, to count those that come.
THEOREM NoWakeupIsLost == Spec => []NoLostWakeup
  <1>1. Init => NoLostWakeup
    BY DEF Init, NoLostWakeup
  <1>2. ASSUME IndInv, IndInv', NoLostWakeup, [Next]_vars
        PROVE  NoLostWakeup'
    <2>1. CASE UNCHANGED vars
      BY <1>2, <2>1 DEF vars, semVars, NoLostWakeup, Coming, Woken
    <2> QED
      BY <1>2, <2>1, WakeupStep, StepCases
  <1> QED
    BY <1>1, <1>2, Invariant, PTL DEF Spec

\* The semaphores implement counters of permits: each wait that returns has taken
\* one that was there, and each signal adds one.
THEOREM ImplementsSemaphore == Spec => IsSemaphore
  <1>1. Init => Permits!Init
    BY DEF Init, Permits!Init, Asleep
  <1> QED
    BY <1>1, Invariant, StepsAreSemaphoreSteps, PTL DEF Spec, IsSemaphore, Permits!Spec

-----------------------------------------------------------------------------
(* The bounded buffer *)

\* The remainder of a number below twice the divisor.
LEMMA ModOnce ==
  ASSUME NEW n \in Nat \ {0}, NEW a \in 0..(2 * n - 1)
  PROVE  a % n = IF a < n THEN a ELSE a - n
  <1>1. CASE a < n
    BY <1>1
  <1>2. CASE a >= n
    BY <1>2
  <1> QED
    BY <1>1, <1>2

\* A place in the array, counted from f on.
LEMMA Place ==
  ASSUME NEW f \in 0..(Length - 1), NEW i \in 0..Length
  PROVE  (f + i) % Length = IF f + i < Length THEN f + i ELSE f + i - Length
  <1> DEFINE a == f + i
  <1>1. a \in 0..(2 * Length - 1)
    BY LengthAssumption
  <1>2. a % Length = IF a < Length THEN a ELSE a - Length
    <2> HIDE DEF a
    <2> QED
      BY <1>1, ModOnce, LengthAssumption
  <1> QED
    BY <1>1, <1>2, LengthAssumption

\* The slots from first on, once round the array.
LEMMA SlotsAreDistinct ==
  ASSUME first \in 0..(Length - 1)
  PROVE  /\ Slot(0) = first /\ Slot(Length) = first
         /\ \A i \in 0..Length : Slot(i) \in 0..(Length - 1)
         /\ \A i, j \in 0..(Length - 1) : i # j => Slot(i) # Slot(j)
  <1>1. \A i \in 0..Length :
          Slot(i) = IF first + i < Length THEN first + i ELSE first + i - Length
    BY Place DEF Slot
  <1> QED
    BY <1>1, LengthAssumption

\* Moving first on by one shifts the slots by one.
LEMMA SlotsShift ==
  ASSUME first \in 0..(Length - 1), first' = Slot(1)
  PROVE  \A i \in 0..(Length - 1) : Slot(i)' = Slot(i + 1)
  <1>1. \A i \in 0..Length :
          Slot(i) = IF first + i < Length THEN first + i ELSE first + i - Length
    BY Place DEF Slot
  <1>2. first' \in 0..(Length - 1)
    BY <1>1, LengthAssumption
  <1>3. \A i \in 0..Length :
          Slot(i)' = IF first' + i < Length THEN first' + i ELSE first' + i - Length
    BY <1>2, Place DEF Slot
  <1>4. first' = IF first + 1 < Length THEN first + 1 ELSE first + 1 - Length
    BY <1>1, LengthAssumption
  <1> QED
    BY <1>1, <1>3, <1>4, LengthAssumption

\* Two sets that differ at most in t.
LEMMA OneMember ==
  ASSUME NEW S, NEW T, NEW t, IsFiniteSet(S), S \ {t} = T \ {t}
  PROVE  /\ IsFiniteSet(T)
         /\ Cardinality(S) \in Nat /\ Cardinality(T) \in Nat
         /\ Cardinality(T) = Cardinality(S) + (IF t \in T THEN 1 ELSE 0)
                                            - (IF t \in S THEN 1 ELSE 0)
  <1>1. CASE t \in S /\ t \in T
    <2>1. S = T
      BY <1>1
    <2> QED
      BY <1>1, <2>1, FS_CardinalityType
  <1>2. CASE t \in S /\ t \notin T
    <2>1. T = S \ {t}
      BY <1>2
    <2>2. IsFiniteSet(T) /\ Cardinality(T) = Cardinality(S) - 1
      BY <1>2, <2>1, FS_RemoveElement
    <2> QED
      BY <1>2, <2>2, FS_CardinalityType
  <1>3. CASE t \notin S /\ t \in T
    <2>1. T = S \cup {t}
      BY <1>3
    <2> QED
      BY <1>3, <2>1, FS_CardinalityType, FS_AddElement
  <1>4. CASE t \notin S /\ t \notin T
    <2>1. S = T
      BY <1>4
    <2> QED
      BY <1>4, <2>1, FS_CardinalityType
  <1> QED
    BY <1>1, <1>2, <1>3, <1>4

\* There are finitely many threads on each side of the count.
LEMMA CountsAreNumbers ==
  ASSUME NEW T \in SUBSET Thread
  PROVE  /\ IsFiniteSet(BeforeCount(T)) /\ Cardinality(BeforeCount(T)) \in Nat
         /\ IsFiniteSet(AfterCount(T)) /\ Cardinality(AfterCount(T)) \in Nat
  <1>1. BeforeCount(T) \subseteq Thread /\ AfterCount(T) \subseteq Thread
    BY DEF BeforeCount, AfterCount
  <1> QED
    BY <1>1, FS_Subset, FS_CardinalityType, FiniteThreadAssumption

\* A step of thread t changes the counts by t alone.
LEMMA OthersCountTheSame ==
  ASSUME NEW t \in Thread, NEW T \in SUBSET Thread,
         \A u \in Thread : u # t => stage'[u] = stage[u] /\ (HoldsPermit(u)' <=> HoldsPermit(u))
  PROVE  /\ Cardinality(BeforeCount(T)') =
              Cardinality(BeforeCount(T)) + (IF t \in BeforeCount(T)' THEN 1 ELSE 0)
                                          - (IF t \in BeforeCount(T) THEN 1 ELSE 0)
         /\ Cardinality(AfterCount(T)') =
              Cardinality(AfterCount(T)) + (IF t \in AfterCount(T)' THEN 1 ELSE 0)
                                         - (IF t \in AfterCount(T) THEN 1 ELSE 0)
  <1>1. BeforeCount(T) \ {t} = BeforeCount(T)' \ {t}
    BY DEF BeforeCount
  <1>2. AfterCount(T) \ {t} = AfterCount(T)' \ {t}
    BY DEF AfterCount
  <1> QED
    BY <1>1, <1>2, CountsAreNumbers, OneMember

\* Producers and consumers are threads.
LEMMA BothSides == Producer \subseteq Thread /\ Consumer \subseteq Thread
  BY ThreadAssumption

\* A step that moves no thread across its permit keeps the balance.
LEMMA PermitsKept ==
  ASSUME BufferRules, NEW t \in Thread,
         \A u \in Thread : u # t => stage'[u] = stage[u] /\ (HoldsPermit(u)' <=> HoldsPermit(u)),
         \A T \in {Producer, Consumer} :
           /\ t \in BeforeCount(T)' <=> t \in BeforeCount(T)
           /\ t \in AfterCount(T)' <=> t \in AfterCount(T),
         count' = count, value'[items] = value[items], value'[space] = value[space]
  PROVE  PermitsMatchCount'
  <1>1. \A T \in {Producer, Consumer} :
          /\ Cardinality(BeforeCount(T)') = Cardinality(BeforeCount(T))
          /\ Cardinality(AfterCount(T)') = Cardinality(AfterCount(T))
    BY BothSides, OthersCountTheSame, CountsAreNumbers
  <1> QED
    BY <1>1 DEF BufferRules, PermitsMatchCount

\* A producer on its way finds room, and a consumer an element; when they have
\* updated count they leave an element, and room.
LEMMA PermitsAreRoom ==
  ASSUME IndInv, BufferRules, NEW t \in Thread
  PROVE  /\ t \in BeforeCount(Producer) \cup AfterCount(Consumer) => count < Length
         /\ t \in BeforeCount(Consumer) \cup AfterCount(Producer) => count > 0
  <1>1. /\ value[items] \in Nat /\ value[space] \in Nat /\ count \in Nat /\ Length \in Nat
    BY SemaphoreAssumption, LengthAssumption
       DEF IndInv, TypeOK, BufferRules, BufferTypeOK
  <1>2. \A T \in {Producer, Consumer} :
          /\ t \in BeforeCount(T) => Cardinality(BeforeCount(T)) > 0
          /\ t \in AfterCount(T) => Cardinality(AfterCount(T)) > 0
    BY BothSides, CountsAreNumbers, FS_EmptySet
  <1> QED
    BY <1>1, <1>2, BothSides, CountsAreNumbers DEF BufferRules, PermitsMatchCount

\* What the buffer sees of a step of a call.
LEMMA CallSeen ==
  ASSUME IndInv, NEW t \in Thread, SemaphoreStep(t)
  PROVE  /\ cpu = "thread" /\ cpu' \in {"thread", "save"}
         /\ \A u \in Thread : u # t => pc'[u] = pc[u] /\ arg'[u] = arg[u]
         /\ \/ /\ pc[t] \in {"wait", "sleep", "asleep"}
               /\ pc'[t] \in {"wait", "sleep", "asleep"}
               /\ arg' = arg /\ value' = value
            \/ /\ pc[t] \in {"wake", "remove", "requeue"}
               /\ pc'[t] \in {"remove", "requeue", "leave"}
               /\ arg' = arg /\ value' = value
            \/ pc[t] = "leave" /\ pc'[t] = "user" /\ value' = value
            \/ /\ pc[t] = "wait" /\ pc'[t] = "leave" /\ arg' = arg
               /\ \E s \in Semaphore : /\ arg[t] = {s} /\ value[s] > 0
                                       /\ value' = [value EXCEPT ![s] = @ - 1]
            \/ /\ pc[t] = "signal" /\ pc'[t] = "wake" /\ arg' = arg
               /\ \E s \in Semaphore : /\ arg[t] = {s}
                                       /\ value' = [value EXCEPT ![s] = @ + 1]
  <1>1. /\ pc \in [Thread -> Label] /\ arg \in [Thread -> SUBSET Semaphore]
        /\ pc[t] # "user" => \E s \in Semaphore : arg[t] = {s}
    BY DEF IndInv, TypeOK, OneArgument
  <1> USE DEF At, Goto, Runs, semVars, schedVars
  <1>2. CASE WaitAppend(t) \/ WaitBlock(t) \/ WaitRelock(t)
    BY <1>1, <1>2 DEF WaitAppend, WaitBlock, WaitRelock, BlockCurrent
  <1>3. CASE SignalTake(t) \/ SignalNobody(t) \/ SignalRemove(t) \/ SignalRequeue(t)
    BY <1>1, <1>3 DEF SignalTake, SignalNobody, SignalRemove, SignalRequeue,
                      UnblockRemove, UnblockRequeue
  <1>4. CASE WaitDecrement(t)
    BY <1>1, <1>4 DEF WaitDecrement
  <1>5. CASE SignalIncrement(t)
    BY <1>1, <1>5 DEF SignalIncrement
  <1>6. CASE Leave(t)
    BY <1>1, <1>6 DEF Leave
  <1> QED
    BY <1>2, <1>3, <1>4, <1>5, <1>6 DEF SemaphoreStep

\* The step of another thread, or of the scheduler, that leaves the calls alone.
LEMMA NothingSeen ==
  ASSUME BufferRules, UNCHANGED <<bufferVars, stage, elem, pc, arg, value>>
  PROVE  BufferRules'
  <1> USE DEF bufferVars, BufferRules
  <1>1. BufferTypeOK' /\ StagesMatchCalls' /\ MutexHeldOnce'
    BY DEF BufferTypeOK, StagesMatchCalls, InWait, InSignal, MutexHeldOnce,
           HoldsMutex, Inside
  <1>2. PermitsMatchCount'
    BY DEF PermitsMatchCount, BeforeCount, AfterCount, HoldsPermit
  <1>3. SlotsMatchStages' /\ ElementsInHand'
    BY DEF SlotsMatchStages, SlotsMatchCount, Inside, Filled, Slot, ElementsInHand
  <1> QED
    BY <1>1, <1>2, <1>3

\* A step of a semaphore call: most of them show nothing to the buffer, the
\* decrement and the increment move one permit between the value and the thread.
LEMMA CallKeeps ==
  ASSUME IndInv, BufferRules, NEW t \in Thread, InnerStep(t)
  PROVE  BufferRules'
  <1>0. /\ SemaphoreStep(t)
        /\ buffer' = buffer /\ first' = first /\ count' = count
        /\ stage' = stage /\ elem' = elem
    BY DEF InnerStep, bufferVars
  <1>1. /\ value \in [Semaphore -> Nat] /\ pc \in [Thread -> Label]
        /\ space \in Semaphore /\ items \in Semaphore /\ mutex \in Semaphore
        /\ space # items /\ items # mutex /\ mutex # space
    BY SemaphoreAssumption DEF IndInv, TypeOK
  <1>2. \A u \in Thread : u # t => pc'[u] = pc[u] /\ arg'[u] = arg[u]
    BY <1>0, CallSeen
  <1>3. /\ BufferTypeOK /\ StagesMatchCalls /\ MutexHeldOnce
        /\ PermitsMatchCount /\ SlotsMatchStages /\ ElementsInHand
    BY DEF BufferRules
  <1>4. BufferTypeOK' /\ ElementsInHand'
    BY <1>0, <1>3 DEF BufferTypeOK, ElementsInHand, Slot
  <1>5. \A u \in Thread : u # t => /\ HoldsPermit(u)' <=> HoldsPermit(u)
                                   /\ Inside(u)' <=> Inside(u)
                                   /\ HoldsMutex(u)' <=> HoldsMutex(u)
    BY <1>0, <1>2 DEF HoldsPermit, Inside, HoldsMutex
  <1>6. ASSUME StagesMatchCalls',
               Inside(t)' <=> Inside(t), HoldsMutex(t)' <=> HoldsMutex(t),
               HoldsPermit(t)' <=> HoldsPermit(t), value' = value
        PROVE  BufferRules'
    <2>1. MutexHeldOnce'
      BY <1>3, <1>5, <1>6 DEF MutexHeldOnce
    <2>2. PermitsMatchCount'
      BY <1>0, <1>5, <1>6, PermitsKept DEF BeforeCount, AfterCount
    <2>3. SlotsMatchStages'
      BY <1>0, <1>3, <1>5, <1>6 DEF SlotsMatchStages, SlotsMatchCount, Slot, Filled
    <2> QED
      BY <1>4, <1>6, <2>1, <2>2, <2>3 DEF BufferRules
  <1>7. CASE /\ pc[t] \in {"wait", "sleep", "asleep"}
             /\ pc'[t] \in {"wait", "sleep", "asleep"}
             /\ arg' = arg /\ value' = value
    <2>1. stage[t] \in {"waited", "entered"}
      BY <1>3, <1>7 DEF StagesMatchCalls, InSignal, Waking
    <2>2. StagesMatchCalls'
      BY <1>0, <1>2, <1>3, <1>7 DEF StagesMatchCalls, InWait, InSignal, Waking, Asleep
    <2>3. /\ (Inside(t)' <=> Inside(t)) /\ (HoldsMutex(t)' <=> HoldsMutex(t))
          /\ HoldsPermit(t)' <=> HoldsPermit(t)
      <3>1. /\ ~Inside(t) /\ ~Inside(t)'
            /\ ~HoldsMutex(t) /\ ~HoldsMutex(t)'
        BY <1>0, <1>7, <2>1 DEF HoldsMutex, Inside
      <3>2. HoldsPermit(t)' <=> HoldsPermit(t)
        BY <1>0, <1>7, <2>1 DEF HoldsPermit
      <3> QED
        BY <3>1, <3>2
    <2> QED
      BY <1>6, <1>7, <2>2, <2>3
  <1>8. CASE /\ pc[t] \in {"wake", "remove", "requeue"}
             /\ pc'[t] \in {"remove", "requeue", "leave"}
             /\ arg' = arg /\ value' = value
    <2>1. stage[t] \in {"outside", "left"}
      BY <1>3, <1>8 DEF StagesMatchCalls, InWait, Asleep
    <2>2. StagesMatchCalls'
      BY <1>0, <1>2, <1>3, <1>8 DEF StagesMatchCalls, InWait, InSignal, Waking, Asleep
    <2> QED
      BY <1>0, <1>6, <1>8, <2>1, <2>2 DEF HoldsPermit, HoldsMutex, Inside
  <1>9. CASE pc[t] = "leave" /\ pc'[t] = "user" /\ value' = value
    <2>1. StagesMatchCalls'
      BY <1>0, <1>2, <1>3, <1>9 DEF StagesMatchCalls, InWait, InSignal
    <2> QED
      BY <1>0, <1>6, <1>9, <2>1 DEF HoldsPermit, HoldsMutex, Inside
  <1>10. ASSUME pc[t] = "wait", pc'[t] = "leave", arg' = arg,
                NEW s \in Semaphore, arg[t] = {s}, value[s] > 0,
                value' = [value EXCEPT ![s] = @ - 1]
         PROVE  BufferRules'
    <2>1. /\ StagesMatchCalls'
          /\ \/ stage[t] = "waited" /\ s = Needs(t)
             \/ stage[t] = "entered" /\ s = mutex
      BY <1>0, <1>2, <1>3, <1>10 DEF StagesMatchCalls, InWait, InSignal, Waking, Asleep
    <2>2. CASE stage[t] = "waited" /\ s = Needs(t)
      <3>1. /\ (Inside(t)' <=> Inside(t)) /\ (HoldsMutex(t)' <=> HoldsMutex(t))
            /\ ~HoldsPermit(t) /\ HoldsPermit(t)'
        BY <1>0, <1>10, <2>2 DEF HoldsPermit, HoldsMutex, Inside
      <3>2. MutexHeldOnce'
        BY <1>1, <1>3, <1>5, <1>10, <2>2, <3>1 DEF MutexHeldOnce, Needs
      <3>3. SlotsMatchStages'
        BY <1>0, <1>3, <1>5, <3>1 DEF SlotsMatchStages, SlotsMatchCount, Slot, Filled
      <3>4. /\ Cardinality(AfterCount(Producer)') = Cardinality(AfterCount(Producer))
            /\ Cardinality(AfterCount(Consumer)') = Cardinality(AfterCount(Consumer))
            /\ Cardinality(BeforeCount(Producer)') =
                 Cardinality(BeforeCount(Producer)) + (IF t \in Producer THEN 1 ELSE 0)
            /\ Cardinality(BeforeCount(Consumer)') =
                 Cardinality(BeforeCount(Consumer)) + (IF t \in Consumer THEN 1 ELSE 0)
        <4>1. \A T \in {Producer, Consumer} :
                /\ t \notin AfterCount(T) /\ t \notin AfterCount(T)'
                /\ t \notin BeforeCount(T)
                /\ t \in BeforeCount(T)' <=> t \in T
          BY <1>0, <2>2, <3>1 DEF BeforeCount, AfterCount
        <4> QED
          BY <1>0, <1>5, <4>1, BothSides, CountsAreNumbers, OthersCountTheSame
      <3>5. PermitsMatchCount'
        <4>1. /\ t \in Producer => /\ t \notin Consumer
                                  /\ value'[space] = value[space] - 1
                                  /\ value'[items] = value[items]
              /\ t \notin Producer => /\ t \in Consumer
                                     /\ value'[items] = value[items] - 1
                                     /\ value'[space] = value[space]
          BY <1>1, <1>10, <2>2, ThreadAssumption DEF Needs
        <4>2. /\ value[space] \in Nat /\ value[items] \in Nat
              /\ count \in Nat /\ Length \in Nat
              /\ \A T \in {Producer, Consumer} : /\ Cardinality(BeforeCount(T)) \in Nat
                                                /\ Cardinality(AfterCount(T)) \in Nat
          BY <1>1, <1>3, BothSides, CountsAreNumbers, LengthAssumption DEF BufferTypeOK
        <4>3. CASE t \in Producer
          BY <1>0, <1>3, <3>4, <4>1, <4>2, <4>3
             DEF PermitsMatchCount
        <4>4. CASE t \notin Producer
          BY <1>0, <1>3, <3>4, <4>1, <4>2, <4>4
             DEF PermitsMatchCount
        <4> QED
          BY <4>3, <4>4
      <3> QED
        BY <1>4, <2>1, <3>2, <3>3, <3>5 DEF BufferRules
    <2>3. CASE stage[t] = "entered" /\ s = mutex
      <3>1. /\ ~HoldsMutex(t) /\ Inside(t)' /\ HoldsMutex(t)'
            /\ HoldsPermit(t) /\ HoldsPermit(t)'
        BY <1>0, <1>10, <2>3 DEF HoldsPermit, HoldsMutex, Inside
      <3>2. \A u \in Thread : ~HoldsMutex(u)
        BY <1>3, <1>10, <2>3 DEF MutexHeldOnce
      <3>3. value'[mutex] = 0 /\ value'[space] = value[space] /\ value'[items] = value[items]
        BY <1>1, <1>3, <1>10, <2>3, <3>2 DEF MutexHeldOnce
      <3>4. MutexHeldOnce'
        BY <1>5, <3>1, <3>2, <3>3 DEF MutexHeldOnce
      <3>5. SlotsMatchStages'
        <4>1. \A i \in 0..(Length - 1) : buffer[Slot(i)] # EMPTY <=> i \in 0..(count - 1)
          BY <1>3, <3>2, LengthAssumption
             DEF SlotsMatchStages, SlotsMatchCount, HoldsMutex, BufferTypeOK
        <4>2. \A u \in Thread : Inside(u)' => u = t
          BY <1>5, <3>2 DEF HoldsMutex
        <4> QED
          BY <1>0, <2>3, <3>1, <4>1, <4>2
             DEF SlotsMatchStages, SlotsMatchCount, Slot, Filled
      <3>6. PermitsMatchCount'
        BY <1>0, <1>5, <3>1, <3>3, PermitsKept DEF BeforeCount, AfterCount
      <3> QED
        BY <1>4, <2>1, <3>4, <3>5, <3>6 DEF BufferRules
    <2> QED
      BY <2>1, <2>2, <2>3
  <1>11. ASSUME pc[t] = "signal", pc'[t] = "wake", arg' = arg,
                NEW s \in Semaphore, arg[t] = {s},
                value' = [value EXCEPT ![s] = @ + 1]
         PROVE  BufferRules'
    <2>1. /\ StagesMatchCalls'
          /\ \/ stage[t] = "outside" /\ s = Makes(t)
             \/ stage[t] = "left" /\ s = mutex
      BY <1>0, <1>2, <1>3, <1>11 DEF StagesMatchCalls, InWait, InSignal, Waking, Asleep
    <2>2. Inside(t)' <=> Inside(t)
      BY <1>0, <1>11, <2>1 DEF Inside
    <2>3. SlotsMatchStages'
      BY <1>0, <1>3, <1>5, <2>2 DEF SlotsMatchStages, SlotsMatchCount, Slot, Filled
    <2>4. CASE stage[t] = "outside" /\ s = Makes(t)
      <3>1. /\ HoldsMutex(t)' <=> HoldsMutex(t)
            /\ HoldsPermit(t) /\ ~HoldsPermit(t)'
        BY <1>0, <1>11, <2>4 DEF HoldsPermit, HoldsMutex, Inside
      <3>2. MutexHeldOnce'
        BY <1>1, <1>3, <1>5, <1>11, <2>4, <3>1 DEF MutexHeldOnce, Makes
      <3>3. /\ Cardinality(BeforeCount(Producer)') = Cardinality(BeforeCount(Producer))
            /\ Cardinality(BeforeCount(Consumer)') = Cardinality(BeforeCount(Consumer))
            /\ Cardinality(AfterCount(Producer)') =
                 Cardinality(AfterCount(Producer)) - (IF t \in Producer THEN 1 ELSE 0)
            /\ Cardinality(AfterCount(Consumer)') =
                 Cardinality(AfterCount(Consumer)) - (IF t \in Consumer THEN 1 ELSE 0)
        <4>1. \A T \in {Producer, Consumer} :
                /\ t \notin BeforeCount(T) /\ t \notin BeforeCount(T)'
                /\ t \notin AfterCount(T)'
                /\ t \in AfterCount(T) <=> t \in T
          BY <1>0, <2>4, <3>1 DEF BeforeCount, AfterCount
        <4> QED
          BY <1>0, <1>5, <4>1, BothSides, CountsAreNumbers, OthersCountTheSame
      <3>4. PermitsMatchCount'
        <4>1. /\ t \in Producer => /\ t \notin Consumer
                                  /\ value'[items] = value[items] + 1
                                  /\ value'[space] = value[space]
              /\ t \notin Producer => /\ t \in Consumer
                                     /\ value'[space] = value[space] + 1
                                     /\ value'[items] = value[items]
          BY <1>1, <1>11, <2>4, ThreadAssumption DEF Makes
        <4>2. /\ value[space] \in Nat /\ value[items] \in Nat
              /\ count \in Nat /\ Length \in Nat
              /\ \A T \in {Producer, Consumer} : /\ Cardinality(BeforeCount(T)) \in Nat
                                                /\ Cardinality(AfterCount(T)) \in Nat
          BY <1>1, <1>3, BothSides, CountsAreNumbers, LengthAssumption DEF BufferTypeOK
        <4>3. CASE t \in Producer
          BY <1>0, <1>3, <3>3, <4>1, <4>2, <4>3
             DEF PermitsMatchCount
        <4>4. CASE t \notin Producer
          BY <1>0, <1>3, <3>3, <4>1, <4>2, <4>4
             DEF PermitsMatchCount
        <4> QED
          BY <4>3, <4>4
      <3> QED
        BY <1>4, <2>1, <2>3, <3>2, <3>4 DEF BufferRules
    <2>5. CASE stage[t] = "left" /\ s = mutex
      <3>1. /\ HoldsMutex(t) /\ ~HoldsMutex(t)'
            /\ HoldsPermit(t)' <=> HoldsPermit(t)
        BY <1>0, <1>11, <2>5 DEF HoldsPermit, HoldsMutex, Inside
      <3>2. value'[mutex] = 1 /\ value'[space] = value[space] /\ value'[items] = value[items]
        BY <1>1, <1>3, <1>11, <2>5, <3>1 DEF MutexHeldOnce
      <3>3. MutexHeldOnce'
        BY <1>3, <1>5, <3>1, <3>2 DEF MutexHeldOnce
      <3>4. PermitsMatchCount'
        BY <1>0, <1>5, <3>1, <3>2, PermitsKept DEF BeforeCount, AfterCount
      <3> QED
        BY <1>4, <2>1, <2>3, <3>3, <3>4 DEF BufferRules
    <2> QED
      BY <2>1, <2>4, <2>5
  <1> QED
    BY <1>0, <1>7, <1>8, <1>9, <1>10, <1>11, CallSeen

\* The start of a call moves the thread to the next stage and nothing else.
LEMMA EnterKeeps ==
  ASSUME IndInv, BufferRules, NEW t \in Thread,
         \/ EnterAdd(t) \/ EnterTake(t)
         \/ EnterMutex(t) \/ LeaveMutex(t) \/ Announce(t)
  PROVE  BufferRules'
  <1>0. /\ BufferTypeOK /\ StagesMatchCalls /\ MutexHeldOnce
        /\ PermitsMatchCount /\ SlotsMatchStages /\ ElementsInHand
        /\ pc \in [Thread -> Label] /\ arg \in [Thread -> SUBSET Semaphore]
        /\ space \in Semaphore /\ items \in Semaphore /\ mutex \in Semaphore
    BY SemaphoreAssumption DEF BufferRules, IndInv, TypeOK
  <1>1. /\ buffer' = buffer /\ first' = first /\ count' = count /\ value' = value
        /\ \A u \in Thread : u # t => /\ pc'[u] = pc[u] /\ arg'[u] = arg[u]
                                      /\ stage'[u] = stage[u] /\ elem'[u] = elem[u]
        /\ pc[t] = "user"
    BY <1>0 DEF EnterAdd, EnterTake, EnterMutex, LeaveMutex, Announce, WaitLock,
       SignalLock,
                At, Goto, AtStage, Advance, bufferVars, BufferTypeOK
  <1>2. \/ /\ t \in Producer /\ stage[t] = "outside" /\ stage'[t] = "waited"
           /\ pc'[t] = "wait" /\ arg'[t] = {space} /\ elem'[t] \in Element
        \/ /\ t \in Consumer /\ stage[t] = "outside" /\ stage'[t] = "waited"
           /\ pc'[t] = "wait" /\ arg'[t] = {items} /\ elem' = elem
        \/ /\ stage[t] = "waited" /\ stage'[t] = "entered"
           /\ pc'[t] = "wait" /\ arg'[t] = {mutex} /\ elem' = elem
        \/ /\ stage[t] = "finished" /\ stage'[t] = "left"
           /\ pc'[t] = "signal" /\ arg'[t] = {mutex} /\ elem' = elem
        \/ /\ stage[t] = "left" /\ stage'[t] = "outside"
           /\ pc'[t] = "signal" /\ arg'[t] = {Makes(t)} /\ elem' = elem
    BY <1>0 DEF EnterAdd, EnterTake, EnterMutex, LeaveMutex, Announce, WaitLock,
       SignalLock,
                At, Goto, AtStage, Advance, BufferTypeOK
  <1>3. \A u \in Thread : u # t => /\ HoldsPermit(u)' <=> HoldsPermit(u)
                                   /\ Inside(u)' <=> Inside(u)
                                   /\ HoldsMutex(u)' <=> HoldsMutex(u)
    BY <1>1 DEF HoldsPermit, Inside, HoldsMutex
  <1>4. BufferTypeOK'
    <2>1. stage' \in [Thread -> Stage] /\ elem' \in [Thread -> Element \cup {EMPTY}]
      BY <1>0 DEF EnterAdd, EnterTake, EnterMutex, LeaveMutex, Announce, Advance,
                  BufferTypeOK, Stage
    <2> QED
      BY <1>0, <1>1, <2>1 DEF BufferTypeOK
  <1>5. StagesMatchCalls'
    <2>1. t \in Producer => t \notin Consumer
      BY ThreadAssumption
    <2> QED
      BY <1>0, <1>1, <1>2, <2>1
         DEF StagesMatchCalls, InWait, InSignal, Waking, Asleep, Makes, Needs
  <1>6. MutexHeldOnce'
    <2>1. HoldsMutex(t)' <=> HoldsMutex(t)
      BY <1>1, <1>2 DEF HoldsMutex, Inside
    <2> QED
      BY <1>0, <1>1, <1>3, <2>1 DEF MutexHeldOnce
  <1>7. PermitsMatchCount'
    <2>1. \A T \in {Producer, Consumer} :
            /\ t \in BeforeCount(T)' <=> t \in BeforeCount(T)
            /\ t \in AfterCount(T)' <=> t \in AfterCount(T)
      BY <1>1, <1>2 DEF BeforeCount, AfterCount, HoldsPermit
    <2> QED
      BY <1>1, <1>3, <2>1, PermitsKept
  <1>8. SlotsMatchStages'
    <2>1. CASE stage[t] = "finished"
      <3>1. Inside(t) /\ ~Inside(t)' /\ \A u \in Thread : ~Inside(u)'
        BY <1>0, <1>1, <1>2, <1>3, <2>1 DEF Inside, MutexHeldOnce, HoldsMutex
      <3>2. \A i \in 0..(Length - 1) : buffer[Slot(i)] # EMPTY <=> i < count
        BY <1>0, <2>1, <3>1, LengthAssumption DEF SlotsMatchStages, Filled, BufferTypeOK
      <3> QED
        BY <1>1, <3>1, <3>2 DEF SlotsMatchStages, SlotsMatchCount, Slot
    <2>2. CASE stage[t] # "finished"
      <3>1. ~Inside(t) /\ ~Inside(t)'
        BY <1>0, <1>1, <1>2, <2>2 DEF Inside, StagesMatchCalls, InWait, InSignal
      <3> QED
        BY <1>0, <1>1, <1>3, <3>1 DEF SlotsMatchStages, SlotsMatchCount, Slot, Filled
    <2> QED
      BY <2>1, <2>2
  <1>9. ElementsInHand'
    BY <1>0, <1>1, <1>2, ThreadAssumption DEF ElementsInHand, Slot
  <1> QED
    BY <1>4, <1>5, <1>6, <1>7, <1>8, <1>9 DEF BufferRules

\* A step of the thread inside is the only one that touches the buffer.
LEMMA InsideKeeps ==
  ASSUME IndInv, BufferRules, NEW t \in Thread,
         \/ AddWrite(t) \/ AddCount(t)
         \/ TakeCopy(t) \/ TakeClear(t) \/ TakeCount(t) \/ TakeFirst(t)
  PROVE  BufferRules'
  <1>0. /\ BufferTypeOK /\ StagesMatchCalls /\ MutexHeldOnce
        /\ PermitsMatchCount /\ SlotsMatchStages /\ ElementsInHand
    BY DEF BufferRules
  <1>1. /\ pc' = pc /\ arg' = arg /\ value' = value
        /\ \A u \in Thread : u # t => stage'[u] = stage[u] /\ elem'[u] = elem[u]
        /\ pc[t] = "user"
        /\ stage[t] \in {"entered", "written", "copied", "cleared", "uncounted"}
        /\ stage'[t] \in {"written", "copied", "cleared", "uncounted", "finished"}
    BY <1>0 DEF AddWrite, AddCount, TakeCopy, TakeClear, TakeCount, TakeFirst,
                At, AtStage, Advance, vars, semVars, BufferTypeOK
  <1>2. /\ Inside(t) /\ Inside(t)' /\ HoldsMutex(t) /\ HoldsMutex(t)'
        /\ HoldsPermit(t) /\ HoldsPermit(t)'
    BY <1>1 DEF Inside, HoldsMutex, HoldsPermit
  <1>3. \A u \in Thread : u # t => /\ ~Inside(u) /\ ~Inside(u)' /\ stage[u] # "written"
                                   /\ ~HoldsMutex(u) /\ ~HoldsMutex(u)'
                                   /\ HoldsPermit(u)' <=> HoldsPermit(u)
    BY <1>0, <1>1, <1>2 DEF MutexHeldOnce, Inside, HoldsMutex, HoldsPermit
  <1>4. StagesMatchCalls'
    <2>1. /\ stage'[t] = "written" => t \in Producer
          /\ stage'[t] \in {"copied", "cleared", "uncounted"} => t \in Consumer
      BY <1>0 DEF AddWrite, AddCount, TakeCopy, TakeClear, TakeCount, TakeFirst,
         Advance,
                  BufferTypeOK
    <2> QED
      BY <1>0, <1>1, <2>1 DEF StagesMatchCalls, InWait, InSignal
  <1>5. MutexHeldOnce'
    BY <1>0, <1>1, <1>2, <1>3 DEF MutexHeldOnce
  <1>6. ASSUME \A i \in 0..(Length - 1) : buffer'[Slot(i)'] # EMPTY <=> i \in Filled(t)'
        PROVE  SlotsMatchStages'
    BY <1>2, <1>3, <1>6 DEF SlotsMatchStages, SlotsMatchCount
  <1>7. /\ first \in 0..(Length - 1) /\ count \in 0..Length /\ Length \in Nat \ {0}
        /\ buffer \in [0..(Length - 1) -> Element \cup {EMPTY}]
        /\ stage \in [Thread -> Stage] /\ elem \in [Thread -> Element \cup {EMPTY}]
        /\ \A i \in 0..(Length - 1) : buffer[Slot(i)] # EMPTY <=> i \in Filled(t)
    BY <1>0, <1>2, LengthAssumption DEF BufferTypeOK, SlotsMatchStages
  <1>8. t \in Producer <=> t \notin Consumer
    BY ThreadAssumption
  <1>9. ASSUME count' = count,
               \A T \in {Producer, Consumer} :
                 /\ t \in BeforeCount(T)' <=> t \in BeforeCount(T)
                 /\ t \in AfterCount(T)' <=> t \in AfterCount(T)
        PROVE  PermitsMatchCount'
    BY <1>1, <1>3, <1>9, PermitsKept
  <1>10. CASE AddWrite(t)
    <2>1. /\ t \in Producer /\ stage[t] = "entered" /\ stage' = [stage EXCEPT ![t] = "written"]
          /\ buffer' = [buffer EXCEPT ![Slot(count)] = elem[t]]
          /\ first' = first /\ count' = count /\ elem' = elem
      BY <1>10 DEF AddWrite, AtStage, Advance
    <2>2. t \in BeforeCount(Producer)
      BY <1>2, <2>1 DEF BeforeCount
    <2>3. count < Length
      BY <2>2, PermitsAreRoom
    <2>4. elem[t] \in Element /\ elem[t] # EMPTY
      BY <1>0, <2>1, ElementAssumption DEF ElementsInHand
    <2>5. /\ Slot(count) \in 0..(Length - 1)
          /\ \A i \in 0..(Length - 1) : /\ Slot(i)' = Slot(i)
                                        /\ Slot(i) \in 0..(Length - 1)
                                        /\ i # count => Slot(i) # Slot(count)
      <3>1. \A i \in 0..(Length - 1) : Slot(i)' = Slot(i)
        BY <2>1 DEF Slot
      <3>2. count \in 0..(Length - 1)
        BY <1>7, <2>3
      <3>3. \A i \in 0..(Length - 1) : i \in 0..Length
        BY <1>7
      <3> QED
        BY <1>7, <3>1, <3>2, <3>3, SlotsAreDistinct
    <2>6. BufferTypeOK'
      BY <1>7, <2>1 DEF BufferTypeOK, Stage
    <2>7. SlotsMatchStages'
      <3>1. Filled(t)' = 0..count /\ Filled(t) = 0..(count - 1)
        BY <1>7, <2>1 DEF Filled
      <3>2. \A i \in 0..(Length - 1) :
              buffer'[Slot(i)] = IF i = count THEN elem[t] ELSE buffer[Slot(i)]
        BY <1>7, <2>1, <2>5
      <3>3. \A i \in 0..(Length - 1) : i \in 0..count <=> i = count \/ i \in 0..(count - 1)
        BY <1>7
      <3> QED
        BY <1>6, <1>7, <2>4, <2>5, <3>1, <3>2, <3>3
    <2>8. PermitsMatchCount'
      BY <1>2, <1>7, <1>9, <2>1 DEF BeforeCount, AfterCount
    <2>9. ElementsInHand'
      <3>1. Slot(count)' = Slot(count) /\ buffer'[Slot(count)] = elem[t]
        BY <1>7, <2>1, <2>5 DEF Slot
      <3> QED
        BY <1>0, <1>1, <1>3, <2>1, <2>4, <3>1, BothSides DEF ElementsInHand
    <2> QED
      BY <1>4, <1>5, <2>6, <2>7, <2>8, <2>9 DEF BufferRules
  <1>11. CASE AddCount(t)
    <2>1. /\ t \in Producer /\ stage[t] = "written" /\ stage' = [stage EXCEPT ![t] = "finished"]
          /\ buffer' = buffer /\ first' = first /\ count' = count + 1 /\ elem' = elem
      BY <1>11 DEF AddCount, AtStage, Advance
    <2>2. t \in BeforeCount(Producer)
      BY <1>2, <2>1 DEF BeforeCount
    <2>3. count < Length
      BY <2>2, PermitsAreRoom
    <2>4. BufferTypeOK'
      BY <1>7, <2>1, <2>3 DEF BufferTypeOK, Stage
    <2>5. SlotsMatchStages'
      <3>1. Filled(t)' = 0..(count' - 1) /\ Filled(t) = 0..count
        BY <1>7, <2>1 DEF Filled
      <3> QED
        BY <1>6, <1>7, <2>1, <3>1 DEF Slot
    <2>6. PermitsMatchCount'
      <3>1. /\ t \in BeforeCount(Producer) /\ t \notin BeforeCount(Producer)'
            /\ t \notin AfterCount(Producer) /\ t \in AfterCount(Producer)'
            /\ t \notin BeforeCount(Consumer) /\ t \notin BeforeCount(Consumer)'
            /\ t \notin AfterCount(Consumer) /\ t \notin AfterCount(Consumer)'
        BY <1>2, <1>7, <1>8, <2>1 DEF BeforeCount, AfterCount
      <3>2. /\ Cardinality(BeforeCount(Producer)') = Cardinality(BeforeCount(Producer)) - 1
            /\ Cardinality(AfterCount(Producer)') = Cardinality(AfterCount(Producer)) + 1
            /\ Cardinality(BeforeCount(Consumer)') = Cardinality(BeforeCount(Consumer))
            /\ Cardinality(AfterCount(Consumer)') = Cardinality(AfterCount(Consumer))
        BY <1>1, <1>3, <3>1, BothSides, CountsAreNumbers, OthersCountTheSame
      <3> QED
        <4>1. /\ value[space] \in Nat /\ value[items] \in Nat
              /\ \A T \in {Producer, Consumer} : /\ Cardinality(BeforeCount(T)) \in Nat
                                                /\ Cardinality(AfterCount(T)) \in Nat
          BY BothSides, CountsAreNumbers, SemaphoreAssumption DEF IndInv, TypeOK
        <4>2. count \in Nat /\ Length \in Nat
          BY <1>7
        <4> QED
          BY <1>0, <1>1, <2>1, <3>2, <4>1, <4>2 DEF PermitsMatchCount
    <2>7. ElementsInHand'
      BY <1>0, <1>3, <1>7, <2>1, BothSides DEF ElementsInHand
    <2> QED
      BY <1>4, <1>5, <2>4, <2>5, <2>6, <2>7 DEF BufferRules
  <1>12. CASE TakeCopy(t)
    <2>1. /\ t \in Consumer /\ stage[t] = "entered" /\ stage' = [stage EXCEPT ![t] = "copied"]
          /\ buffer' = buffer /\ first' = first /\ count' = count
          /\ elem' = [elem EXCEPT ![t] = buffer[first]]
      BY <1>12 DEF TakeCopy, AtStage, Advance, bufferVars
    <2>2. BufferTypeOK'
      BY <1>7, <2>1 DEF BufferTypeOK, Stage
    <2>3. SlotsMatchStages'
      <3>1. Filled(t)' = Filled(t)
        BY <1>7, <2>1 DEF Filled
      <3> QED
        BY <1>6, <1>7, <2>1, <3>1 DEF Slot
    <2>4. PermitsMatchCount'
      BY <1>2, <1>7, <1>9, <2>1 DEF BeforeCount, AfterCount
    <2>5. ElementsInHand'
      BY <1>0, <1>1, <1>8, <2>1, BothSides DEF ElementsInHand, Slot
    <2> QED
      BY <1>4, <1>5, <2>2, <2>3, <2>4, <2>5 DEF BufferRules
  <1>13. CASE TakeClear(t)
    <2>1. /\ t \in Consumer /\ stage[t] = "copied" /\ stage' = [stage EXCEPT ![t] = "cleared"]
          /\ buffer' = [buffer EXCEPT ![first] = EMPTY]
          /\ first' = first /\ count' = count /\ elem' = elem
      BY <1>13 DEF TakeClear, AtStage, Advance
    <2>2. BufferTypeOK'
      BY <1>7, <2>1 DEF BufferTypeOK, Stage
    <2>3. SlotsMatchStages'
      <3>1. Filled(t)' = 1..(count - 1) /\ Filled(t) = 0..(count - 1)
        BY <1>7, <2>1 DEF Filled
      <3>2. /\ Slot(0) = first
            /\ \A i \in 0..(Length - 1) : /\ Slot(i)' = Slot(i)
                                          /\ Slot(i) \in 0..(Length - 1)
                                          /\ i # 0 => Slot(i) # first
        <4>1. \A i \in 0..(Length - 1) : Slot(i)' = Slot(i)
          BY <2>1 DEF Slot
        <4>2. 0 \in 0..(Length - 1) /\ \A i \in 0..(Length - 1) : i \in 0..Length
          BY <1>7
        <4> QED
          BY <1>7, <4>1, <4>2, SlotsAreDistinct
      <3>3. \A i \in 0..(Length - 1) :
              buffer'[Slot(i)] = IF i = 0 THEN EMPTY ELSE buffer[Slot(i)]
        BY <1>7, <2>1, <3>2
      <3>4. \A i \in 0..(Length - 1) : i \in 1..(count - 1) <=> i # 0 /\ i \in 0..(count - 1)
        BY <1>7
      <3> QED
        BY <1>6, <1>7, <3>1, <3>2, <3>3, <3>4
    <2>4. PermitsMatchCount'
      BY <1>2, <1>7, <1>9, <2>1 DEF BeforeCount, AfterCount
    <2>5. ElementsInHand'
      BY <1>0, <1>1, <1>3, <1>8, <2>1, BothSides DEF ElementsInHand
    <2> QED
      BY <1>4, <1>5, <2>2, <2>3, <2>4, <2>5 DEF BufferRules
  <1>14. CASE TakeCount(t)
    <2>1. /\ t \in Consumer /\ stage[t] = "cleared"
          /\ stage' = [stage EXCEPT ![t] = "uncounted"]
          /\ buffer' = buffer /\ first' = first /\ count' = count - 1 /\ elem' = elem
      BY <1>14 DEF TakeCount, AtStage, Advance
    <2>2. t \in BeforeCount(Consumer)
      BY <1>2, <2>1 DEF BeforeCount
    <2>3. count > 0
      BY <2>2, PermitsAreRoom
    <2>4. BufferTypeOK'
      BY <1>7, <2>1, <2>3 DEF BufferTypeOK, Stage
    <2>5. SlotsMatchStages'
      <3>1. Filled(t)' = 1..(count - 1) /\ Filled(t) = 1..(count - 1)
        BY <1>7, <2>1 DEF Filled
      <3> QED
        BY <1>6, <1>7, <2>1, <3>1 DEF Slot
    <2>6. PermitsMatchCount'
      <3>1. /\ t \notin BeforeCount(Producer) /\ t \notin BeforeCount(Producer)'
            /\ t \notin AfterCount(Producer) /\ t \notin AfterCount(Producer)'
            /\ t \in BeforeCount(Consumer) /\ t \notin BeforeCount(Consumer)'
            /\ t \notin AfterCount(Consumer) /\ t \in AfterCount(Consumer)'
        BY <1>2, <1>7, <1>8, <2>1 DEF BeforeCount, AfterCount
      <3>2. /\ Cardinality(BeforeCount(Producer)') = Cardinality(BeforeCount(Producer))
            /\ Cardinality(AfterCount(Producer)') = Cardinality(AfterCount(Producer))
            /\ Cardinality(BeforeCount(Consumer)') = Cardinality(BeforeCount(Consumer)) - 1
            /\ Cardinality(AfterCount(Consumer)') = Cardinality(AfterCount(Consumer)) + 1
        BY <1>1, <1>3, <3>1, BothSides, CountsAreNumbers, OthersCountTheSame
      <3> QED
        <4>1. /\ value[space] \in Nat /\ value[items] \in Nat
              /\ \A T \in {Producer, Consumer} : /\ Cardinality(BeforeCount(T)) \in Nat
                                                /\ Cardinality(AfterCount(T)) \in Nat
          BY BothSides, CountsAreNumbers, SemaphoreAssumption DEF IndInv, TypeOK
        <4>2. count \in Nat /\ Length \in Nat
          BY <1>7
        <4> QED
          BY <1>0, <1>1, <2>1, <3>2, <4>1, <4>2 DEF PermitsMatchCount
    <2>7. ElementsInHand'
      BY <1>0, <1>3, <1>7, <1>8, <2>1, BothSides DEF ElementsInHand
    <2> QED
      BY <1>4, <1>5, <2>4, <2>5, <2>6, <2>7 DEF BufferRules
  <1>15. CASE TakeFirst(t)
    <2>1. /\ t \in Consumer /\ stage[t] = "uncounted"
          /\ stage' = [stage EXCEPT ![t] = "finished"]
          /\ buffer' = buffer /\ first' = Slot(1) /\ count' = count /\ elem' = elem
      BY <1>15 DEF TakeFirst, AtStage, Advance
    <2>2. t \in AfterCount(Consumer)
      BY <1>2, <2>1 DEF AfterCount
    <2>3. count < Length
      BY <2>2, PermitsAreRoom
    <2>4. BufferTypeOK'
      BY <1>7, <2>1, SlotsAreDistinct DEF BufferTypeOK, Stage
    <2>5. SlotsMatchStages'
      <3>1. Filled(t)' = 0..(count - 1) /\ Filled(t) = 1..count
        BY <1>7, <2>1 DEF Filled
      <3>2. /\ Slot(0) = first /\ Slot(Length) = first
            /\ \A i \in 0..(Length - 1) : Slot(i)' = Slot(i + 1)
        BY <1>7, <2>1, SlotsAreDistinct, SlotsShift
      <3> SUFFICES ASSUME NEW i \in 0..(Length - 1)
                   PROVE  buffer[Slot(i + 1)] # EMPTY <=> i \in 0..(count - 1)
        BY <1>6, <2>1, <3>1, <3>2
      <3>3. CASE i = Length - 1
        <4>1. Slot(i + 1) = Slot(0)
          BY <1>7, <3>2, <3>3
        <4>2. 0 \in 0..(Length - 1) /\ 0 \notin 1..count /\ i \notin 0..(count - 1)
          BY <1>7, <2>3, <3>3
        <4> QED
          BY <1>7, <3>1, <4>1, <4>2
      <3>4. CASE i < Length - 1
        <4>1. i + 1 \in 0..(Length - 1) /\ (i + 1 \in 1..count <=> i \in 0..(count - 1))
          BY <1>7, <3>4
        <4> QED
          BY <1>7, <3>1, <4>1
      <3> QED
        BY <1>7, <3>3, <3>4
    <2>6. PermitsMatchCount'
      BY <1>2, <1>7, <1>9, <2>1 DEF BeforeCount, AfterCount
    <2>7. ElementsInHand'
      BY <1>0, <1>1, <1>3, <1>7, <1>8, <2>1, BothSides DEF ElementsInHand
    <2> QED
      BY <1>4, <1>5, <2>4, <2>5, <2>6, <2>7 DEF BufferRules
  <1> QED
    BY <1>10, <1>11, <1>12, <1>13, <1>14, <1>15

\* At first nobody holds anything and all the slots are space.
LEMMA BufferInitInv == BufferInit => BufferInv
  <1> SUFFICES ASSUME BufferInit PROVE BufferInv
    OBVIOUS
  <1> USE DEF BufferInit
  <1>1. IndInv /\ NoLostWakeup /\ NeverDeadlocked
    BY InitInv DEF Init, NoLostWakeup, NeverDeadlocked, Exited
  <1>2. BufferTypeOK
    BY LengthAssumption DEF BufferTypeOK, Stage
  <1>3. \A t \in Thread : pc[t] = "user" /\ stage[t] = "outside"
    BY DEF Init
  <1>4. StagesMatchCalls /\ ElementsInHand
    BY <1>3, BothSides DEF StagesMatchCalls, InSignal, ElementsInHand
  <1>5. /\ value[items] = 0 /\ value[space] = Length /\ value[mutex] = 1
    BY SemaphoreAssumption DEF Init
  <1>6. MutexHeldOnce
    BY <1>3, <1>5 DEF MutexHeldOnce, HoldsMutex, Inside
  <1>7. PermitsMatchCount
    <2>1. \A T \in {Producer, Consumer} : BeforeCount(T) = {} /\ AfterCount(T) = {}
      BY <1>3, BothSides DEF BeforeCount, AfterCount, HoldsPermit
    <2>2. \A T \in {Producer, Consumer} : /\ Cardinality(BeforeCount(T)) = 0
                                          /\ Cardinality(AfterCount(T)) = 0
      BY <2>1, FS_EmptySet
    <2> QED
      BY <1>5, <2>2, LengthAssumption DEF PermitsMatchCount
  <1>8. SlotsMatchStages
    <2>1. \A i \in 0..(Length - 1) : Slot(i) \in 0..(Length - 1)
      BY SlotsAreDistinct, LengthAssumption
    <2> QED
      BY <1>3, <2>1 DEF SlotsMatchStages, SlotsMatchCount, Inside
  <1> QED
    BY <1>1, <1>2, <1>4, <1>6, <1>7, <1>8 DEF BufferInv, BufferRules

\* The permits of the two semaphores, and of the threads between them.
LEMMA PermitsBalance ==
  ASSUME IndInv, BufferRules
  PROVE  PermitsAddUp
  <1> DEFINE A == BeforeCount(Consumer) \cup AfterCount(Producer)
             B == BeforeCount(Producer) \cup AfterCount(Consumer)
  <1>1. /\ Producer \subseteq Thread /\ Consumer \subseteq Thread
        /\ Producer \cap Consumer = {} /\ Thread = Producer \cup Consumer
    BY ThreadAssumption
  <1>2. /\ BeforeCount(Consumer) \cap AfterCount(Producer) = {}
        /\ BeforeCount(Producer) \cap AfterCount(Consumer) = {}
        /\ A \cap B = {}
    BY <1>1 DEF BeforeCount, AfterCount
  <1>3. {t \in Thread : HoldsPermit(t)} = A \cup B
    BY <1>1 DEF BeforeCount, AfterCount, BufferRules, BufferTypeOK, Stage
  <1>4. ASSUME NEW S, NEW T, IsFiniteSet(S), IsFiniteSet(T), S \cap T = {}
        PROVE  /\ IsFiniteSet(S \cup T)
               /\ Cardinality(S \cup T) = Cardinality(S) + Cardinality(T)
    <2>1. Cardinality(S) \in Nat /\ Cardinality(T) \in Nat /\ Cardinality(S \cap T) = 0
      BY <1>4, FS_CardinalityType, FS_EmptySet
    <2>2. /\ IsFiniteSet(S \cup T)
          /\ Cardinality(S \cup T) = Cardinality(S) + Cardinality(T) - Cardinality(S \cap T)
      BY <1>4, FS_Union
    <2> QED
      BY <2>1, <2>2
  <1>5. /\ IsFiniteSet(A) /\ IsFiniteSet(B)
        /\ Cardinality(A) =
             Cardinality(BeforeCount(Consumer)) + Cardinality(AfterCount(Producer))
        /\ Cardinality(B) =
             Cardinality(BeforeCount(Producer)) + Cardinality(AfterCount(Consumer))
    BY <1>1, <1>2, <1>4, CountsAreNumbers
  <1>6. Cardinality(A \cup B) = Cardinality(A) + Cardinality(B)
    <2> HIDE DEF A, B
    <2> QED
      BY <1>2, <1>4, <1>5
  <1>7. /\ value[space] \in Nat /\ value[items] \in Nat /\ count \in Nat /\ Length \in Nat
        /\ \A T \in {Producer, Consumer} : /\ Cardinality(BeforeCount(T)) \in Nat
                                          /\ Cardinality(AfterCount(T)) \in Nat
    BY BothSides, CountsAreNumbers, SemaphoreAssumption, LengthAssumption
       DEF IndInv, TypeOK, BufferRules, BufferTypeOK
  <1>8. Cardinality({t \in Thread : HoldsPermit(t)}) = Cardinality(A) + Cardinality(B)
    BY <1>3, <1>6
  <1>9. /\ Cardinality(A) = count - value[items]
        /\ Cardinality(B) = Length - count - value[space]
    BY <1>5, <1>7 DEF BufferRules, PermitsMatchCount
  <1> QED
    BY <1>7, <1>8, <1>9 DEF PermitsAddUp

\* The scheduler finds a thread ready.  If all of them slept, each would be in the
\* queue of the semaphore it waits for, and none would be coming for a permit, so
\* that the values of those semaphores would be zero.  One that waits for the mutex
\* would leave nobody to hold it; otherwise the producers wait for space and the
\* consumers for elements, and no permit is left anywhere.
LEMMA SomebodyIsReady ==
  ASSUME BufferInv, cpu = "take"
  PROVE  ready # <<>>
  <1> SUFFICES ASSUME ready = <<>>
               PROVE  FALSE
    OBVIOUS
  <1>1. /\ TypeOK /\ QueuesMatchStates /\ CurrentMatchesCpu /\ OneArgument
        /\ SleepersAreQueued /\ LockDiscipline /\ NoLostWakeup
        /\ StagesMatchCalls /\ MutexHeldOnce
    BY DEF BufferInv, IndInv, BufferRules
  <1>2. \A t \in Thread : state[t] = "Blocked" /\ pc[t] = "asleep"
    <2>1. ToSet(ready) = {}
      BY DEF ToSet
    <2>2. \A t \in Thread : state[t] # "Ready" /\ state[t] # "Running"
      BY <1>1, <2>1 DEF QueuesMatchStates
    <2>3. \A t \in Thread : state[t] = "Blocked"
      BY <1>1, <2>2 DEF CurrentMatchesCpu
    <2> QED
      BY <1>1, <2>3 DEF SleepersAreQueued
  <1>3. \A t \in Thread : \A s \in arg[t] : t \in ToSet(waiters[s])
    BY <1>1, <1>2 DEF SleepersAreQueued, Waking
  <1>4. \A t \in Thread, s \in Semaphore : arg[t] = {s} => value[s] = 0
    <2> SUFFICES ASSUME NEW t \in Thread, NEW s \in Semaphore, arg[t] = {s}
                 PROVE  value[s] = 0
      OBVIOUS
    <2>1. waiters[s] # <<>>
      BY <1>3 DEF ToSet
    <2>2. Coming(s) = {}
      BY <1>2, <1>3 DEF Coming, Woken
    <2>3. value[s] <= 0
      BY <1>1, <2>1, <2>2, FS_EmptySet DEF NoLostWakeup
    <2> QED
      BY <1>1, <2>3 DEF TypeOK
  <1>5. \A t \in Thread : ~HoldsMutex(t)
    BY <1>1, <1>2 DEF HoldsMutex, Inside, StagesMatchCalls
  <1>6. \A t \in Thread : arg[t] # {mutex}
    BY <1>1, <1>4, <1>5, SemaphoreAssumption DEF MutexHeldOnce
  <1>7. \A t \in Thread : stage[t] = "waited" /\ arg[t] = {Needs(t)}
    BY <1>1, <1>2, <1>6 DEF StagesMatchCalls, InWait, InSignal, Waking
  <1>8. value[space] = 0 /\ value[items] = 0
    <2>1. PICK p \in Producer, c \in Consumer : p \notin Consumer /\ c \notin Producer
      BY ThreadAssumption
    <2>2. arg[p] = {space} /\ arg[c] = {items}
      BY <1>7, <2>1, BothSides DEF Needs
    <2> QED
      BY <1>4, <2>2, BothSides, SemaphoreAssumption
  <1>9. {t \in Thread : HoldsPermit(t)} = {}
    BY <1>2, <1>7 DEF HoldsPermit
  <1>10. PermitsAddUp
    BY PermitsBalance DEF BufferInv
  <1> QED
    BY <1>8, <1>9, <1>10, FS_EmptySet, LengthAssumption DEF PermitsAddUp

\* BufferInv is inductive.
LEMMA BufferStepInv == BufferInv /\ [BufferNext]_allVars => BufferInv'
  <1> SUFFICES ASSUME BufferInv, [BufferNext]_allVars
               PROVE  BufferInv'
    OBVIOUS
  <1>0. IndInv /\ NoLostWakeup /\ BufferRules /\ NeverDeadlocked
    BY DEF BufferInv
  <1>1. \/ SwitchStep
        \/ Signal
        \/ \E t \in Thread : SemaphoreStep(t)
        \/ \E t \in Thread, s \in Semaphore : WaitLock(t, s) \/ SignalLock(t, s)
        \/ UNCHANGED vars
    <2>1. /\ space \in Semaphore /\ items \in Semaphore /\ mutex \in Semaphore
          /\ \A t : Makes(t) \in Semaphore
      BY SemaphoreAssumption DEF Makes
    <2> QED
      BY <2>1 DEF BufferNext, OuterStep, BufferSignal, InnerStep, BufferStep, EnterAdd,
         EnterTake, EnterMutex, LeaveMutex, Announce, AddWrite, AddCount, TakeCopy,
         TakeClear, TakeCount, TakeFirst, allVars
  <1>2. IndInv' /\ NoLostWakeup'
    <2>1. CASE UNCHANGED vars
      <3>1. NoLostWakeup'
        BY <1>0, <2>1 DEF vars, semVars, NoLostWakeup, Coming, Woken
      <3>2. [Next]_vars
        BY <2>1
      <3> QED
        BY <1>0, <3>1, <3>2, StepInv
    <2> QED
      BY <1>0, <1>1, <2>1, CallInv, WakeupStep
  <1>3. BufferRules'
    <2>1. CASE OuterStep \/ BufferSignal \/ UNCHANGED allVars
      BY <1>0, <2>1, NothingSeen
         DEF OuterStep, BufferSignal, SwitchStep, Signal, semVars, allVars, vars
    <2>2. ASSUME NEW t \in Thread, InnerStep(t) \/ BufferStep(t)
          PROVE  BufferRules'
      BY <1>0, <2>2, CallKeeps, EnterKeeps, InsideKeeps DEF BufferStep
    <2> QED
      BY <2>1, <2>2 DEF BufferNext
  <1>4. NeverDeadlocked'
    <2>1. CASE SwitchStep
      <3>1. ~TakeNone
        BY SomebodyIsReady DEF TakeNone
      <3> QED
        BY <2>1, <3>1 DEF SwitchStep, Save, TakeNext, Restore, NeverDeadlocked, Exited
    <2>2. ASSUME NEW t \in Thread, SemaphoreStep(t)
          PROVE  NeverDeadlocked'
      BY <1>0, <2>2, CallSeen DEF NeverDeadlocked, Exited
    <2>3. CASE \/ Signal \/ UNCHANGED vars
               \/ \E t \in Thread, s \in Semaphore : WaitLock(t, s) \/ SignalLock(t, s)
      BY <1>0, <2>3 DEF Signal, TimerTick, WaitLock, SignalLock, NeverDeadlocked,
         Exited,
                        vars, schedVars
    <2> QED
      BY <1>1, <2>1, <2>2, <2>3
  <1> QED
    BY <1>2, <1>3, <1>4 DEF BufferInv

LEMMA BufferInvariant == BufferSpec => []BufferInv
  BY BufferInitInv, BufferStepInv, PTL DEF BufferSpec

\* bounded_buffer.c says that the mutex lets one thread modify the buffer at a
\* time: so it is for any number of producers and consumers, preempted anywhere.
THEOREM OneThreadIsInside == BufferSpec => []OneThreadInside
  <1>1. BufferInv => OneThreadInside
    BY DEF BufferInv, BufferRules, MutexHeldOnce, HoldsMutex, OneThreadInside
  <1> QED
    BY <1>1, BufferInvariant, PTL

\* The slots of a buffer of any length are accounted for at every moment, by the
\* two semaphores and the threads in the middle of an addition or a removal.
THEOREM PermitsAlwaysAddUp == BufferSpec => []PermitsAddUp
  <1>1. BufferInv => PermitsAddUp
    BY PermitsBalance DEF BufferInv
  <1> QED
    BY <1>1, BufferInvariant, PTL

\* Whenever no thread is inside, exactly the `count` slots from `first` on hold
\* elements, round the end of the array.
THEOREM SlotsAlwaysMatch == BufferSpec => []SlotsMatchCount
  <1>1. BufferInv => SlotsMatchCount
    BY DEF BufferInv, BufferRules, SlotsMatchStages
  <1> QED
    BY <1>1, BufferInvariant, PTL

\* The scheduler never exits with all threads blocked, nor with none left, however
\* many producers and consumers there are and however long the buffer is.
THEOREM BufferNeverDeadlocks == BufferSpec => []NeverDeadlocked
  <1>1. BufferInv => NeverDeadlocked
    BY DEF BufferInv
  <1> QED
    BY <1>1, BufferInvariant, PTL

\* The n elements from the k-th slot on, and how the stage of the consumer inside
\* tells which of them are in the buffer.
Span(k, n) == [i \in 1..n |-> buffer[Slot(k + i - 1)]]

ContentsMatchStage ==
  /\ (\A c \in Consumer : stage[c] \notin {"copied", "cleared", "uncounted"}) =>
       Contents = Span(0, count)
  /\ \A c \in Consumer :
       /\ stage[c] \in {"copied", "cleared"} => Contents = Span(1, count - 1)
       /\ stage[c] = "uncounted" => Contents = Span(1, count)

LEMMA ContentsByStage == BufferRules => ContentsMatchStage
  <1> SUFFICES ASSUME BufferRules PROVE ContentsMatchStage
    OBVIOUS
  <1>1. count \in Nat
    BY LengthAssumption DEF BufferRules, BufferTypeOK
  <1>2. \A c, d \in Consumer :
          stage[c] \in {"copied", "cleared", "uncounted"}
            /\ stage[d] \in {"copied", "cleared", "uncounted"} => c = d
    <2>1. \A c \in Consumer : stage[c] \in {"copied", "cleared", "uncounted"} => HoldsMutex(c)
      BY DEF HoldsMutex, Inside
    <2>2. \A t, u \in Thread : HoldsMutex(t) /\ HoldsMutex(u) => t = u
      BY DEF BufferRules, MutexHeldOnce
    <2> SUFFICES ASSUME NEW c \in Consumer, NEW d \in Consumer,
                        stage[c] \in {"copied", "cleared", "uncounted"},
                        stage[d] \in {"copied", "cleared", "uncounted"}
                 PROVE  c = d
      OBVIOUS
    <2>3. c \in Thread /\ d \in Thread
      BY BothSides
    <2>4. HoldsMutex(c) /\ HoldsMutex(d)
      BY <2>1
    <2> QED
      BY <2>2, <2>3, <2>4
  <1>3. ASSUME \A c \in Consumer : stage[c] \notin {"copied", "cleared", "uncounted"}
        PROVE  Contents = Span(0, count)
    <2>1. ~Taking({"copied", "cleared", "uncounted"}) /\ ~Taking({"copied", "cleared"})
      BY <1>3 DEF Taking
    <2>2. Contents = [i \in 1..(count - 0) |-> buffer[Slot(0 + i - 1)]]
      BY <2>1 DEF Contents
    <2> QED
      BY <1>1, <2>2 DEF Span
  <1>4. ASSUME NEW c \in Consumer, stage[c] \in {"copied", "cleared"}
        PROVE  Contents = Span(1, count - 1)
    <2>1. Taking({"copied", "cleared", "uncounted"}) /\ Taking({"copied", "cleared"})
      BY <1>4 DEF Taking
    <2> QED
      BY <2>1 DEF Contents, Span
  <1>5. ASSUME NEW c \in Consumer, stage[c] = "uncounted"
        PROVE  Contents = Span(1, count)
    <2>1. Taking({"copied", "cleared", "uncounted"}) /\ ~Taking({"copied", "cleared"})
      BY <1>2, <1>5 DEF Taking
    <2>2. Contents = [i \in 1..(count - 0) |-> buffer[Slot(1 + i - 1)]]
      BY <2>1 DEF Contents
    <2> QED
      BY <1>1, <2>2 DEF Span
  <1> QED
    BY <1>3, <1>4, <1>5 DEF ContentsMatchStage

\* The elements of a span, as a sequence.
LEMMA SpanIsSeq ==
  ASSUME BufferTypeOK, NEW k \in Nat, NEW n \in Nat, k + n <= Length
  PROVE  /\ Span(k, n) \in Seq(Element \cup {EMPTY})
         /\ Len(Span(k, n)) = n
         /\ \A i \in 1..n : Span(k, n)[i] = buffer[Slot(k + i - 1)]
  <1>1. \A i \in 1..n : k + i - 1 \in 0..Length
    BY LengthAssumption
  <1>2. \A i \in 1..n : Slot(k + i - 1) \in 0..(Length - 1)
    BY <1>1, SlotsAreDistinct DEF BufferTypeOK
  <1>3. Span(k, n) \in [1..n -> Element \cup {EMPTY}]
    BY <1>2 DEF Span, BufferTypeOK
  <1> QED
    BY <1>3, FunctionIsSeq DEF Span

\* An element enters the queue when count is incremented, and leaves it when it is
\* copied out; no other step shows.
LEMMA StepsAreQueueSteps ==
  BufferInv /\ BufferInv' /\ [BufferNext]_allVars => [Queue!Next]_Queue!vars
  <1> SUFFICES ASSUME BufferInv, BufferInv', [BufferNext]_allVars
               PROVE  [Queue!Next]_Queue!vars
    OBVIOUS
  <1> USE DEF Queue!vars
  <1>1. /\ BufferRules /\ BufferRules' /\ BufferTypeOK /\ BufferTypeOK'
        /\ MutexHeldOnce /\ SlotsMatchStages /\ ElementsInHand
        /\ first \in 0..(Length - 1) /\ count \in 0..Length /\ Length \in Nat \ {0}
        /\ buffer \in [0..(Length - 1) -> Element \cup {EMPTY}]
        /\ stage \in [Thread -> Stage] /\ elem \in [Thread -> Element \cup {EMPTY}]
    BY LengthAssumption DEF BufferInv, BufferRules, BufferTypeOK
  <1>0. ContentsMatchStage /\ ContentsMatchStage'
    <2>1. (BufferRules => ContentsMatchStage)'
      BY ContentsByStage, PTL
    <2> QED
      BY <1>1, <2>1, ContentsByStage
  <1>2. Producer \subseteq Thread /\ Consumer \subseteq Thread /\ Producer \cap Consumer = {}
    BY ThreadAssumption
  <1>3. ASSUME UNCHANGED <<bufferVars, stage, elem>>
        PROVE  UNCHANGED Queue!vars
    BY <1>3 DEF bufferVars, Contents, Elements, Taking, Slot
  <1>4. ASSUME NEW t \in Thread, UNCHANGED bufferVars,
               \A c \in Consumer : \/ stage'[c] = stage[c]
                                   \/ {stage[c], stage'[c]} \cap {"copied", "cleared", "uncounted"} = {}
        PROVE  Contents' = Contents
    <2>1. /\ Taking({"copied", "cleared", "uncounted"})' <=>
               Taking({"copied", "cleared", "uncounted"})
          /\ Taking({"copied", "cleared"})' <=> Taking({"copied", "cleared"})
      BY <1>4 DEF Taking
    <2> QED
      BY <1>4, <2>1 DEF Contents, Slot, bufferVars
  <1>5. ASSUME NEW p \in Producer, EnterAdd(p)
        PROVE  Queue!Make(p)
    <2>1. PICK e \in Element : elem' = [elem EXCEPT ![p] = e]
      BY <1>5 DEF EnterAdd
    <2>2. /\ stage[p] = "outside" /\ stage' = [stage EXCEPT ![p] = "waited"]
          /\ UNCHANGED bufferVars
      BY <1>5 DEF EnterAdd, AtStage, Advance
    <2>3. Elements' = [Elements EXCEPT ![p] = e]
      BY <1>1, <1>2, <2>1, <2>2 DEF Elements
    <2>4. Contents' = Contents
      BY <1>1, <1>2, <1>4, <2>2
    <2> QED
      BY <2>3, <2>4 DEF Queue!Make
  <1>6. ASSUME NEW t \in Thread, EnterTake(t) \/ EnterMutex(t) \/ LeaveMutex(t) \/ Announce(t)
        PROVE  UNCHANGED Queue!vars
    <2>1. \/ /\ stage[t] = "outside" /\ stage' = [stage EXCEPT ![t] = "waited"]
             /\ t \in Consumer
          \/ stage[t] = "waited" /\ stage' = [stage EXCEPT ![t] = "entered"]
          \/ stage[t] = "finished" /\ stage' = [stage EXCEPT ![t] = "left"]
          \/ stage[t] = "left" /\ stage' = [stage EXCEPT ![t] = "outside"]
      BY <1>6 DEF EnterTake, EnterMutex, LeaveMutex, Announce, AtStage, Advance
    <2>2. elem' = elem /\ UNCHANGED bufferVars
      BY <1>6 DEF EnterTake, EnterMutex, LeaveMutex, Announce
    <2>3. Elements' = Elements
      BY <1>1, <1>2, <2>1, <2>2 DEF Elements
    <2>4. Contents' = Contents
      BY <1>1, <1>2, <1>4, <2>1, <2>2
    <2> QED
      BY <2>3, <2>4
  <1>7. ASSUME NEW p \in Producer, Inside(p)
        PROVE  \A c \in Consumer : stage[c] \notin {"copied", "cleared", "uncounted"}
    BY <1>1, <1>2, <1>7 DEF MutexHeldOnce, HoldsMutex, Inside
  <1>8. ASSUME NEW p \in Producer, AddWrite(p)
        PROVE  UNCHANGED Queue!vars
    <2>1. /\ stage[p] = "entered" /\ stage' = [stage EXCEPT ![p] = "written"]
          /\ buffer' = [buffer EXCEPT ![Slot(count)] = elem[p]]
          /\ first' = first /\ count' = count /\ elem' = elem /\ pc[p] = "user"
      BY <1>8 DEF AddWrite, AtStage, Advance, At
    <2>2. \A c \in Consumer : stage[c] \notin {"copied", "cleared", "uncounted"}
      BY <1>7, <2>1 DEF Inside
    <2>3. \A c \in Consumer : stage'[c] \notin {"copied", "cleared", "uncounted"}
      BY <1>1, <1>2, <2>1, <2>2
    <2>4. Contents = Span(0, count) /\ Contents' = Span(0, count)'
      BY <1>1, <2>1, <2>2, <2>3, <1>0 DEF ContentsMatchStage
    <2>5. count < Length
      <3>1. p \in BeforeCount(Producer)
        BY <2>1 DEF BeforeCount, HoldsPermit
      <3> QED
        BY <1>1, <1>2, <3>1, PermitsAreRoom DEF BufferInv
    <2>6. \A i \in 1..count : /\ Slot(0 + i - 1)' = Slot(0 + i - 1)
                              /\ buffer'[Slot(0 + i - 1)] = buffer[Slot(0 + i - 1)]
      <3> SUFFICES ASSUME NEW i \in 1..count
                   PROVE  /\ Slot(0 + i - 1)' = Slot(0 + i - 1)
                          /\ buffer'[Slot(0 + i - 1)] = buffer[Slot(0 + i - 1)]
        OBVIOUS
      <3>1. /\ 0 + i - 1 \in 0..(Length - 1) /\ count \in 0..(Length - 1) /\ 0 + i - 1 # count
            /\ \A j \in 0..(Length - 1) : j \in 0..Length
        BY <1>1, <2>5
      <3>2. Slot(0 + i - 1) # Slot(count) /\ Slot(0 + i - 1) \in 0..(Length - 1)
        BY <1>1, <3>1, SlotsAreDistinct
      <3>3. Slot(0 + i - 1)' = Slot(0 + i - 1)
        BY <2>1 DEF Slot
      <3> QED
        BY <1>1, <2>1, <3>2, <3>3
    <2>7. Contents' = Contents
      BY <2>1, <2>4, <2>6 DEF Span
    <2>8. Elements' = Elements
      BY <1>1, <1>2, <2>1 DEF Elements
    <2> QED
      BY <2>7, <2>8
  <1>9. ASSUME NEW p \in Producer, AddCount(p)
        PROVE  Queue!Add(p)
    <2>1. /\ stage[p] = "written" /\ stage' = [stage EXCEPT ![p] = "finished"]
          /\ buffer' = buffer /\ first' = first /\ count' = count + 1 /\ elem' = elem
      BY <1>9 DEF AddCount, AtStage, Advance
    <2>2. /\ \A c \in Consumer : stage[c] \notin {"copied", "cleared", "uncounted"}
          /\ \A c \in Consumer : stage'[c] \notin {"copied", "cleared", "uncounted"}
      <3>1. \A c \in Consumer : stage[c] \notin {"copied", "cleared", "uncounted"}
        BY <1>7, <2>1 DEF Inside
      <3> QED
        BY <1>1, <1>2, <2>1, <3>1
    <2>3. Contents = Span(0, count) /\ Contents' = Span(0, count)'
      BY <1>1, <2>2, <1>0 DEF ContentsMatchStage
    <2>4. count < Length /\ count \in Nat /\ count + 1 \in Nat
      <3>1. p \in BeforeCount(Producer)
        BY <2>1 DEF BeforeCount, HoldsPermit
      <3> QED
        BY <1>1, <1>2, <3>1, PermitsAreRoom DEF BufferInv
    <2>5. elem[p] \in Element /\ buffer[Slot(count)] = elem[p]
      BY <1>1, <2>1 DEF ElementsInHand
    <2>6. Contents' = Span(0, count + 1)
      BY <2>1, <2>3 DEF Span, Slot
    <2>7. Contents' = Append(Contents, elem[p])
      <3>0. 0 \in Nat /\ 0 + count <= Length /\ 0 + (count + 1) <= Length
        BY <1>1, <2>4
      <3>1. /\ Span(0, count) \in Seq(Element \cup {EMPTY}) /\ Len(Span(0, count)) = count
            /\ \A i \in 1..count : Span(0, count)[i] = buffer[Slot(0 + i - 1)]
        BY <1>1, <2>4, <3>0, SpanIsSeq
      <3>2. /\ Span(0, count + 1) \in Seq(Element \cup {EMPTY})
            /\ Len(Span(0, count + 1)) = count + 1
            /\ \A i \in 1..(count + 1) : Span(0, count + 1)[i] = buffer[Slot(0 + i - 1)]
        BY <1>1, <2>4, <3>0, SpanIsSeq
      <3>3. /\ Append(Span(0, count), elem[p]) \in Seq(Element \cup {EMPTY})
            /\ Len(Append(Span(0, count), elem[p])) = count + 1
            /\ \A i \in 1..count : Append(Span(0, count), elem[p])[i] = Span(0, count)[i]
            /\ Append(Span(0, count), elem[p])[count + 1] = elem[p]
        BY <2>5, <3>1, AppendProperties
      <3>4. Span(0, count + 1)[count + 1] = elem[p]
        <4>1. Span(0, count + 1)[count + 1] = buffer[Slot(0 + (count + 1) - 1)]
          BY <2>4, <3>2
        <4>2. 0 + (count + 1) - 1 = count
          BY <2>4
        <4> QED
          BY <2>5, <4>1, <4>2
      <3>5. \A i \in 1..(count + 1) :
              Span(0, count + 1)[i] = Append(Span(0, count), elem[p])[i]
        BY <2>4, <3>1, <3>2, <3>3, <3>4
      <3> QED
        BY <2>3, <2>6, <3>2, <3>3, <3>5, SeqEqual
    <2>8. Len(Contents) < Length
      BY <1>1, <2>3, <2>4, SpanIsSeq
    <2>9. Elements[p] = elem[p] /\ Elements' = [Elements EXCEPT ![p] = EMPTY]
      BY <1>1, <1>2, <2>1 DEF Elements
    <2> QED
      BY <2>5, <2>7, <2>8, <2>9 DEF Queue!Add
  <1>10. ASSUME NEW c \in Consumer, TakeCopy(c)
         PROVE  Queue!Take(c)
    <2>1. /\ stage[c] = "entered" /\ stage' = [stage EXCEPT ![c] = "copied"] /\ pc[c] = "user"
          /\ buffer' = buffer /\ first' = first /\ count' = count
          /\ elem' = [elem EXCEPT ![c] = buffer[first]]
      BY <1>10 DEF TakeCopy, AtStage, Advance, bufferVars, At
    <2>2. /\ \A d \in Consumer : stage[d] \notin {"copied", "cleared", "uncounted"}
          /\ stage'[c] = "copied"
      BY <1>1, <1>2, <2>1 DEF MutexHeldOnce, HoldsMutex, Inside
    <2>3. Contents = Span(0, count) /\ Contents' = Span(1, count - 1)'
      BY <1>1, <2>2, <1>0 DEF ContentsMatchStage
    <2>4. count > 0 /\ count \in Nat /\ count - 1 \in Nat
      <3>1. c \in BeforeCount(Consumer)
        BY <2>1 DEF BeforeCount, HoldsPermit
      <3> QED
        BY <1>1, <1>2, <3>1, PermitsAreRoom DEF BufferInv
    <2>5. Contents' = Span(1, count - 1)
      BY <2>1, <2>3 DEF Span, Slot
    <2>6. /\ Span(0, count) \in Seq(Element \cup {EMPTY}) /\ Len(Span(0, count)) = count
          /\ \A i \in 1..count : Span(0, count)[i] = buffer[Slot(0 + i - 1)]
          /\ Span(1, count - 1) \in Seq(Element \cup {EMPTY})
          /\ Len(Span(1, count - 1)) = count - 1
          /\ \A i \in 1..(count - 1) : Span(1, count - 1)[i] = buffer[Slot(1 + i - 1)]
      <3>1. 0 \in Nat /\ 1 \in Nat /\ 0 + count <= Length /\ 1 + (count - 1) <= Length
        BY <1>1, <2>4
      <3> QED
        BY <1>1, <2>4, <3>1, SpanIsSeq
    <2>7. Contents # <<>> /\ Head(Contents) = buffer[first]
      <3>1. Span(0, count)[1] = buffer[Slot(0)]
        <4>1. Span(0, count)[1] = buffer[Slot(0 + 1 - 1)]
          BY <2>4, <2>6
        <4>2. 0 + 1 - 1 = 0
          OBVIOUS
        <4> QED
          BY <4>1, <4>2
      <3>2. Slot(0) = first
        BY <1>1, SlotsAreDistinct
      <3> QED
        BY <2>3, <2>4, <2>6, <3>1, <3>2
    <2>8. Contents' = Tail(Contents)
      <3>1. /\ Tail(Span(0, count)) \in Seq(Element \cup {EMPTY})
            /\ Len(Tail(Span(0, count))) = count - 1
            /\ \A i \in 1..(count - 1) : Tail(Span(0, count))[i] = Span(0, count)[i + 1]
        BY <2>3, <2>4, <2>6, <2>7
      <3>2. \A i \in 1..(count - 1) : Span(1, count - 1)[i] = Tail(Span(0, count))[i]
        <4> SUFFICES ASSUME NEW i \in 1..(count - 1)
                     PROVE  Span(1, count - 1)[i] = Tail(Span(0, count))[i]
          OBVIOUS
        <4>1. i + 1 \in 1..count /\ 0 + (i + 1) - 1 = 1 + i - 1
          BY <2>4
        <4>2. Span(0, count)[i + 1] = buffer[Slot(0 + (i + 1) - 1)]
          BY <2>6, <4>1
        <4> QED
          BY <2>6, <3>1, <4>1, <4>2
      <3> QED
        BY <2>3, <2>5, <2>6, <3>1, <3>2, SeqEqual
    <2>9. Elements' = [Elements EXCEPT ![c] = Head(Contents)]
      BY <1>1, <1>2, <2>1, <2>7 DEF Elements
    <2> QED
      BY <2>7, <2>8, <2>9 DEF Queue!Take
  <1>11. ASSUME NEW c \in Consumer, TakeClear(c) \/ TakeCount(c) \/ TakeFirst(c)
         PROVE  UNCHANGED Queue!vars
    <2>1. \/ /\ stage[c] = "copied" /\ stage' = [stage EXCEPT ![c] = "cleared"]
             /\ buffer' = [buffer EXCEPT ![first] = EMPTY]
             /\ first' = first /\ count' = count /\ elem' = elem
          \/ /\ stage[c] = "cleared" /\ stage' = [stage EXCEPT ![c] = "uncounted"]
             /\ buffer' = buffer /\ first' = first /\ count' = count - 1 /\ elem' = elem
          \/ /\ stage[c] = "uncounted" /\ stage' = [stage EXCEPT ![c] = "finished"]
             /\ buffer' = buffer /\ first' = Slot(1) /\ count' = count /\ elem' = elem
      BY <1>11 DEF TakeClear, TakeCount, TakeFirst, AtStage, Advance
    <2>2. Elements' = Elements
      BY <1>1, <1>2, <2>1 DEF Elements
    <2>3. \A d \in Consumer : d # c => stage[d] \notin {"copied", "cleared", "uncounted"}
      BY <1>1, <1>2, <2>1 DEF MutexHeldOnce, HoldsMutex, Inside
    <2>4. CASE stage[c] = "copied"
      <3>1. Contents = Span(1, count - 1) /\ Contents' = Span(1, count - 1)'
        BY <1>1, <1>2, <2>1, <2>4, <1>0 DEF ContentsMatchStage
      <3>2. \A i \in 1..(count - 1) : /\ Slot(1 + i - 1)' = Slot(1 + i - 1)
                                      /\ buffer'[Slot(1 + i - 1)] = buffer[Slot(1 + i - 1)]
        <4> SUFFICES ASSUME NEW i \in 1..(count - 1)
                     PROVE  /\ Slot(1 + i - 1)' = Slot(1 + i - 1)
                            /\ buffer'[Slot(1 + i - 1)] = buffer[Slot(1 + i - 1)]
          OBVIOUS
        <4>1. /\ 1 + i - 1 \in 0..(Length - 1) /\ 0 \in 0..(Length - 1) /\ 1 + i - 1 # 0
              /\ \A j \in 0..(Length - 1) : j \in 0..Length
          BY <1>1
        <4>2. Slot(1 + i - 1) # first /\ Slot(1 + i - 1) \in 0..(Length - 1)
          BY <1>1, <4>1, SlotsAreDistinct
        <4>3. Slot(1 + i - 1)' = Slot(1 + i - 1)
          BY <2>1, <2>4 DEF Slot
        <4> QED
          BY <1>1, <2>1, <2>4, <4>2, <4>3
      <3>3. count' = count
        BY <2>1, <2>4
      <3> QED
        BY <2>2, <3>1, <3>2, <3>3 DEF Span
    <2>5. CASE stage[c] = "cleared"
      <3>1. Contents = Span(1, count - 1) /\ Contents' = Span(1, count)'
        BY <1>1, <1>2, <2>1, <2>5, <1>0 DEF ContentsMatchStage
      <3>2. Span(1, count)' = Span(1, count - 1)
        BY <2>1, <2>5 DEF Span, Slot
      <3> QED
        BY <2>2, <3>1, <3>2
    <2>6. CASE stage[c] = "uncounted"
      <3>1. Contents = Span(1, count) /\ Contents' = Span(0, count)'
        BY <1>1, <1>2, <2>1, <2>3, <2>6, <1>0 DEF ContentsMatchStage
      <3>2. count < Length
        <4>1. c \in AfterCount(Consumer)
          BY <2>6 DEF AfterCount, HoldsPermit
        <4> QED
          BY <1>1, <1>2, <4>1, PermitsAreRoom DEF BufferInv
      <3>3. \A i \in 1..count : Slot(0 + i - 1)' = Slot(1 + i - 1)
        <4> SUFFICES ASSUME NEW i \in 1..count
                     PROVE  Slot(0 + i - 1)' = Slot(1 + i - 1)
          OBVIOUS
        <4>1. 0 + i - 1 \in 0..(Length - 1) /\ (0 + i - 1) + 1 = 1 + i - 1
          BY <1>1, <3>2
        <4> QED
          BY <1>1, <2>1, <2>6, <4>1, SlotsShift
      <3>4. count' = count /\ buffer' = buffer
        BY <2>1, <2>6
      <3> QED
        BY <2>2, <3>1, <3>3, <3>4 DEF Span
    <2> QED
      BY <2>1, <2>4, <2>5, <2>6
  <1> QED
    <2>1. CASE \/ OuterStep \/ BufferSignal \/ UNCHANGED allVars
               \/ \E t \in Thread : InnerStep(t)
      BY <1>3, <2>1 DEF OuterStep, BufferSignal, InnerStep, allVars
    <2>2. ASSUME NEW t \in Thread, BufferStep(t)
          PROVE  [Queue!Next]_Queue!vars
      <3>1. /\ EnterAdd(t) \/ AddWrite(t) \/ AddCount(t) => t \in Producer
            /\ TakeCopy(t) \/ TakeClear(t) \/ TakeCount(t) \/ TakeFirst(t) => t \in Consumer
        BY DEF EnterAdd, AddWrite, AddCount, TakeCopy, TakeClear, TakeCount, TakeFirst
      <3> QED
        BY <1>5, <1>6, <1>8, <1>9, <1>10, <1>11, <2>2, <3>1 DEF BufferStep, Queue!Next
    <2> QED
      BY <2>1, <2>2 DEF BufferNext

\* What the threads see is a queue of bounded length: elements come out in the
\* order in which they went in, none lost, doubled or invented, for any number of
\* producers and consumers and any length of the array.
THEOREM ImplementsQueue == BufferSpec => IsQueue
  <1>1. BufferInit => Queue!Init
    <2> SUFFICES ASSUME BufferInit PROVE Queue!Init
      OBVIOUS
    <2>1. Contents = Span(0, 0)
      <3>1. BufferRules /\ count = 0
        BY BufferInitInv DEF BufferInv, BufferInit
      <3>2. \A c \in Consumer : stage[c] = "outside"
        BY BothSides DEF BufferInit
      <3> QED
        BY <3>1, <3>2, ContentsByStage DEF ContentsMatchStage
    <2>2. Contents = <<>>
      BY <2>1 DEF Span
    <2>3. Elements = [t \in Producer \cup Consumer |-> EMPTY]
      BY ThreadAssumption DEF BufferInit, Elements
    <2> QED
      BY <2>2, <2>3 DEF Queue!Init
  <1> QED
    BY <1>1, BufferInvariant, StepsAreQueueSteps, PTL DEF BufferSpec, IsQueue,
       Queue!Spec

=============================================================================
