---------------------------- MODULE SThreadProofs ----------------------------
(***************************************************************************)
(* The thread library keeps its queues, its lock and its verdict right     *)
(* for any number of threads, when no thread is unblocked by two threads.  *)
(* IndInv is inductive: the steps below take the actions one by one.       *)
(***************************************************************************)
EXTENDS SThread, QueueLemmas

LEMMA InitInv == Init => IndInv
  <1> SUFFICES ASSUME Init PROVE IndInv
    OBVIOUS
  <1> USE DEF Init, SchedInit
  <1>1. TypeOK
    <2>1. <<>> \in Seq(Thread)
      OBVIOUS
    <2>2. SchedTypeOK
      BY <2>1 DEF SchedTypeOK, ThreadState, Booting
    <2> QED
      BY <2>2 DEF TypeOK
  <1>2. ToSet(<<>>) = {} /\ IsInjective(<<>>)
    BY DEF ToSet, IsInjective
  <1>3. LockDiscipline
    BY DEF LockDiscipline, Switching, Critical
  <1>4. QueuesMatchStates
    BY <1>2 DEF QueuesMatchStates
  <1>5. /\ TargetStillBlocked
        /\ VerdictIsRight
        /\ CurrentMatchesCpu
        /\ OneUnblockerEach
    BY DEF TargetStillBlocked, VerdictIsRight, CurrentMatchesCpu, OneUnblockerEach,
           InUnblock, Booting
  <1> QED
    BY <1>1, <1>3, <1>4, <1>5 DEF IndInv

LEMMA StepInv == SoleUnblocker /\ IndInv /\ [Next]_vars => IndInv'
  <1> SUFFICES ASSUME SoleUnblocker, IndInv, [Next]_vars
               PROVE  IndInv'
    OBVIOUS
  <1> USE DEF IndInv, Booting, Switching, Exited, Critical, InUnblock
  <1>1. ASSUME NEW t \in Thread, Create(t), UNCHANGED <<pc, target>>
        PROVE  IndInv'
    <2> USE <1>1 DEF Create
    <2>1. TypeOK'
      BY DEF TypeOK, SchedTypeOK, ThreadState
    <2>2. LockDiscipline'
      BY DEF LockDiscipline, TypeOK, SchedTypeOK, Runs
    <2>3. QueuesMatchStates'
      <3>1. t \notin ToSet(ready)
        BY DEF QueuesMatchStates
      <3>2. /\ IsInjective(ready')
            /\ ToSet(ready') = ToSet(ready) \cup {t}
        BY <3>1, AppendOnce DEF QueuesMatchStates, TypeOK, SchedTypeOK
      <3> QED
        BY <3>2 DEF QueuesMatchStates, LockDiscipline, CurrentMatchesCpu, TypeOK, SchedTypeOK,
             InTransit, OnItsWayOut, Runs
    <2>4. /\ TargetStillBlocked' /\ VerdictIsRight'
          /\ CurrentMatchesCpu' /\ OneUnblockerEach'
      BY DEF TargetStillBlocked, VerdictIsRight, CurrentMatchesCpu, OneUnblockerEach,
             QueuesMatchStates, LockDiscipline, TypeOK, SchedTypeOK
    <2> QED
      BY <2>1, <2>2, <2>3, <2>4
  <1>2. ASSUME StartTimer, UNCHANGED <<pc, target>>
        PROVE  IndInv'
    <2> USE <1>2 DEF StartTimer
    <2>1. TypeOK'
      BY DEF TypeOK, SchedTypeOK, ThreadState
    <2>2. LockDiscipline'
      BY DEF LockDiscipline, TypeOK, SchedTypeOK, Runs
    <2>3. QueuesMatchStates'
      BY DEF QueuesMatchStates, LockDiscipline, CurrentMatchesCpu, TypeOK, SchedTypeOK,
             InTransit, OnItsWayOut, Runs
    <2>4. /\ TargetStillBlocked' /\ VerdictIsRight'
          /\ CurrentMatchesCpu' /\ OneUnblockerEach'
      BY DEF TargetStillBlocked, VerdictIsRight, CurrentMatchesCpu, OneUnblockerEach,
             QueuesMatchStates, LockDiscipline, TypeOK, SchedTypeOK
    <2> QED
      BY <2>1, <2>2, <2>3, <2>4
  <1>3. ASSUME StartScheduler, UNCHANGED <<pc, target>>
        PROVE  IndInv'
    <2> USE <1>3 DEF StartScheduler, Lock
    <2>1. TypeOK'
      BY DEF TypeOK, SchedTypeOK, ThreadState
    <2>2. LockDiscipline'
      BY DEF LockDiscipline, TypeOK, SchedTypeOK, Runs
    <2>3. QueuesMatchStates'
      BY DEF QueuesMatchStates, LockDiscipline, CurrentMatchesCpu, TypeOK, SchedTypeOK,
             InTransit, OnItsWayOut, Runs
    <2>4. /\ TargetStillBlocked' /\ VerdictIsRight'
          /\ CurrentMatchesCpu' /\ OneUnblockerEach'
      BY DEF TargetStillBlocked, VerdictIsRight, CurrentMatchesCpu, OneUnblockerEach,
             QueuesMatchStates, LockDiscipline, TypeOK, SchedTypeOK
    <2> QED
      BY <2>1, <2>2, <2>3, <2>4
  <1>4. ASSUME Save, UNCHANGED <<pc, target>>
        PROVE  IndInv'
    <2> USE <1>4 DEF Save, Outgoing
    <2>0. Outgoing(state[current]) \in ThreadState
      BY DEF CurrentMatchesCpu, ThreadState
    <2>1. TypeOK'
      BY <2>0 DEF TypeOK, SchedTypeOK, ThreadState, CurrentMatchesCpu
    <2>2. LockDiscipline'
      BY DEF LockDiscipline, TypeOK, SchedTypeOK, Runs
    <2>3. QueuesMatchStates'
      <3>1. CASE state[current] = "Running"
        <4>1. current \notin ToSet(ready)
          BY <3>1 DEF QueuesMatchStates, CurrentMatchesCpu
        <4>2. /\ IsInjective(ready')
              /\ ToSet(ready') = ToSet(ready) \cup {current}
              /\ blocked' = blocked
          BY <3>1, <4>1, AppendOnce DEF QueuesMatchStates, CurrentMatchesCpu, TypeOK, SchedTypeOK
        <4> QED
          BY <3>1, <4>2 DEF QueuesMatchStates, LockDiscipline, CurrentMatchesCpu, TypeOK, SchedTypeOK,
             InTransit, OnItsWayOut, Runs
      <3>2. CASE state[current] = "Blocked"
        <4>1. current \notin ToSet(blocked)
          BY <3>2 DEF QueuesMatchStates, CurrentMatchesCpu, OnItsWayOut
        <4>2. /\ IsInjective(blocked')
              /\ ToSet(blocked') = ToSet(blocked) \cup {current}
              /\ ready' = ready
          BY <3>2, <4>1, AppendOnce DEF QueuesMatchStates, CurrentMatchesCpu, TypeOK, SchedTypeOK
        <4> QED
          BY <3>2, <4>2 DEF QueuesMatchStates, LockDiscipline, CurrentMatchesCpu, TypeOK, SchedTypeOK,
             InTransit, OnItsWayOut, Runs
      <3>3. CASE state[current] = "Finished"
        BY <3>3 DEF QueuesMatchStates, LockDiscipline, CurrentMatchesCpu, TypeOK, SchedTypeOK,
             InTransit, OnItsWayOut, Runs
      <3> QED
        BY <3>1, <3>2, <3>3 DEF CurrentMatchesCpu
    <2>4. /\ TargetStillBlocked' /\ VerdictIsRight'
          /\ CurrentMatchesCpu' /\ OneUnblockerEach'
      BY DEF TargetStillBlocked, VerdictIsRight, CurrentMatchesCpu, OneUnblockerEach,
             QueuesMatchStates, LockDiscipline, TypeOK, SchedTypeOK
    <2> QED
      BY <2>1, <2>2, <2>3, <2>4
  <1>5. ASSUME TakeNext, UNCHANGED <<pc, target>>
        PROVE  IndInv'
    <2> USE <1>5 DEF TakeNext
    <2>1. TypeOK'
      BY DEF TypeOK, SchedTypeOK, ThreadState
    <2>2. LockDiscipline'
      BY DEF LockDiscipline, TypeOK, SchedTypeOK, Runs
    <2>3. QueuesMatchStates'
      <3>1. /\ Head(ready) \in ToSet(ready) /\ Head(ready) \in Thread
            /\ IsInjective(ready')
            /\ ToSet(ready') = ToSet(ready) \ {Head(ready)}
        BY TailOnce DEF QueuesMatchStates, TypeOK, SchedTypeOK
      <3> QED
        BY <3>1 DEF QueuesMatchStates, LockDiscipline, CurrentMatchesCpu, TypeOK, SchedTypeOK,
             InTransit, OnItsWayOut, Runs
    <2>4. /\ TargetStillBlocked' /\ VerdictIsRight'
          /\ CurrentMatchesCpu' /\ OneUnblockerEach'
      <3>1. Head(ready) \in Thread /\ state[Head(ready)] = "Ready"
        BY TailOnce DEF QueuesMatchStates, TypeOK, SchedTypeOK
      <3> QED
        BY <3>1 DEF TargetStillBlocked, VerdictIsRight, CurrentMatchesCpu,
             OneUnblockerEach, TypeOK, SchedTypeOK
    <2> QED
      BY <2>1, <2>2, <2>3, <2>4
  <1>6. ASSUME TakeNone, UNCHANGED <<pc, target>>
        PROVE  IndInv'
    <2> USE <1>6 DEF TakeNone
    <2>1. TypeOK'
      BY DEF TypeOK, SchedTypeOK, ThreadState
    <2>2. LockDiscipline'
      BY DEF LockDiscipline, TypeOK, SchedTypeOK, Runs
    <2>3. QueuesMatchStates'
      BY DEF QueuesMatchStates, LockDiscipline, CurrentMatchesCpu, TypeOK, SchedTypeOK,
             InTransit, OnItsWayOut, Runs
    <2>4. VerdictIsRight'
      <3>1. \A t \in Thread : state[t] \notin {"Ready", "Running", "Finished"}
        BY DEF QueuesMatchStates, CurrentMatchesCpu, ToSet
      <3>2. \A t \in Thread : state[t] = "Blocked" <=> t \in ToSet(blocked)
        BY DEF QueuesMatchStates, OnItsWayOut, InTransit, LockDiscipline, Runs
      <3>3. CASE blocked = <<>>
        BY <3>1, <3>2, <3>3 DEF VerdictIsRight, TypeOK, SchedTypeOK, ThreadState, ToSet
      <3>4. CASE blocked # <<>>
        <4>1. Head(blocked) \in ToSet(blocked) /\ Head(blocked) \in Thread
          BY <3>4, TailOnce DEF QueuesMatchStates, TypeOK, SchedTypeOK
        <4> QED
          BY <3>1, <3>2, <3>4, <4>1
             DEF VerdictIsRight, TypeOK, SchedTypeOK, ThreadState
      <3> QED
        BY <3>3, <3>4
    <2>5. TargetStillBlocked' /\ CurrentMatchesCpu' /\ OneUnblockerEach'
      BY DEF TargetStillBlocked, CurrentMatchesCpu, OneUnblockerEach,
             QueuesMatchStates, TypeOK, SchedTypeOK
    <2> QED
      BY <2>1, <2>2, <2>3, <2>4, <2>5
  <1>7. ASSUME Restore, UNCHANGED <<pc, target>>
        PROVE  IndInv'
    <2> USE <1>7 DEF Restore, Unlock
    <2>1. TypeOK'
      BY DEF TypeOK, SchedTypeOK, ThreadState
    <2>2. LockDiscipline'
      BY DEF LockDiscipline, CurrentMatchesCpu, TypeOK, SchedTypeOK, Runs
    <2>3. QueuesMatchStates'
      BY DEF QueuesMatchStates, LockDiscipline, CurrentMatchesCpu, TypeOK, SchedTypeOK,
             InTransit, OnItsWayOut, Runs
    <2>4. /\ TargetStillBlocked' /\ VerdictIsRight'
          /\ CurrentMatchesCpu' /\ OneUnblockerEach'
      BY DEF TargetStillBlocked, VerdictIsRight, CurrentMatchesCpu, OneUnblockerEach,
             QueuesMatchStates, LockDiscipline, TypeOK, SchedTypeOK
    <2> QED
      BY <2>1, <2>2, <2>3, <2>4
  <1>8. ASSUME TimerTick, UNCHANGED <<pc, target>>
        PROVE  IndInv'
    <2> USE <1>8 DEF TimerTick, Lock
    <2>1. TypeOK'
      BY DEF TypeOK, SchedTypeOK, ThreadState
    <2>2. LockDiscipline'
      BY DEF LockDiscipline, TypeOK, SchedTypeOK, Runs
    <2>3. QueuesMatchStates'
      BY DEF QueuesMatchStates, LockDiscipline, CurrentMatchesCpu, TypeOK, SchedTypeOK,
             InTransit, OnItsWayOut, Runs
    <2>4. /\ TargetStillBlocked' /\ VerdictIsRight'
          /\ CurrentMatchesCpu' /\ OneUnblockerEach'
      BY DEF TargetStillBlocked, VerdictIsRight, CurrentMatchesCpu, OneUnblockerEach,
             QueuesMatchStates, LockDiscipline, TypeOK, SchedTypeOK
    <2> QED
      BY <2>1, <2>2, <2>3, <2>4
  <1>9. ASSUME TickWhileArmed, UNCHANGED <<pc, target>>
        PROVE  IndInv'
    <2> USE <1>9 DEF TickWhileArmed, Lock
    <2>1. TypeOK'
      BY DEF TypeOK, SchedTypeOK, ThreadState
    <2>2. LockDiscipline'
      BY DEF LockDiscipline, TypeOK, SchedTypeOK, Runs
    <2>3. QueuesMatchStates'
      BY DEF QueuesMatchStates, LockDiscipline, CurrentMatchesCpu, TypeOK, SchedTypeOK,
             InTransit, OnItsWayOut, Runs
    <2>4. /\ TargetStillBlocked' /\ VerdictIsRight'
          /\ CurrentMatchesCpu' /\ OneUnblockerEach'
      BY DEF TargetStillBlocked, VerdictIsRight, CurrentMatchesCpu, OneUnblockerEach,
             QueuesMatchStates, LockDiscipline, TypeOK, SchedTypeOK
    <2> QED
      BY <2>1, <2>2, <2>3, <2>4
  <1>10. ASSUME NEW t \in Thread, YieldLock(t)
        PROVE  IndInv'
    <2> USE <1>10 DEF YieldLock, Enter, Lock, Goto, Runs
    <2>1. TypeOK'
      BY DEF TypeOK, SchedTypeOK, ThreadState
    <2>2. LockDiscipline'
      BY DEF LockDiscipline, TypeOK, SchedTypeOK, Runs
    <2>3. QueuesMatchStates'
      BY DEF QueuesMatchStates, LockDiscipline, CurrentMatchesCpu, TypeOK, SchedTypeOK,
             InTransit, OnItsWayOut, Runs
    <2>4. /\ TargetStillBlocked' /\ VerdictIsRight'
          /\ CurrentMatchesCpu' /\ OneUnblockerEach'
      BY DEF TargetStillBlocked, VerdictIsRight, CurrentMatchesCpu, OneUnblockerEach,
             QueuesMatchStates, LockDiscipline, TypeOK, SchedTypeOK
    <2> QED
      BY <2>1, <2>2, <2>3, <2>4
  <1>11. ASSUME NEW t \in Thread, BlockLock(t)
        PROVE  IndInv'
    <2> USE <1>11 DEF BlockLock, Enter, Lock, Goto, Runs
    <2>1. TypeOK'
      BY DEF TypeOK, SchedTypeOK, ThreadState
    <2>2. LockDiscipline'
      BY DEF LockDiscipline, TypeOK, SchedTypeOK, Runs
    <2>3. QueuesMatchStates'
      BY DEF QueuesMatchStates, LockDiscipline, CurrentMatchesCpu, TypeOK, SchedTypeOK,
             InTransit, OnItsWayOut, Runs
    <2>4. /\ TargetStillBlocked' /\ VerdictIsRight'
          /\ CurrentMatchesCpu' /\ OneUnblockerEach'
      BY DEF TargetStillBlocked, VerdictIsRight, CurrentMatchesCpu, OneUnblockerEach,
             QueuesMatchStates, LockDiscipline, TypeOK, SchedTypeOK
    <2> QED
      BY <2>1, <2>2, <2>3, <2>4
  <1>12. ASSUME NEW t \in Thread, FinishLock(t)
        PROVE  IndInv'
    <2> USE <1>12 DEF FinishLock, Enter, Lock, Goto, Runs
    <2>1. TypeOK'
      BY DEF TypeOK, SchedTypeOK, ThreadState
    <2>2. LockDiscipline'
      BY DEF LockDiscipline, TypeOK, SchedTypeOK, Runs
    <2>3. QueuesMatchStates'
      BY DEF QueuesMatchStates, LockDiscipline, CurrentMatchesCpu, TypeOK, SchedTypeOK,
             InTransit, OnItsWayOut, Runs
    <2>4. /\ TargetStillBlocked' /\ VerdictIsRight'
          /\ CurrentMatchesCpu' /\ OneUnblockerEach'
      BY DEF TargetStillBlocked, VerdictIsRight, CurrentMatchesCpu, OneUnblockerEach,
             QueuesMatchStates, LockDiscipline, TypeOK, SchedTypeOK
    <2> QED
      BY <2>1, <2>2, <2>3, <2>4
  <1>13. ASSUME NEW t \in Thread, YieldSwitch(t)
        PROVE  IndInv'
    <2> USE <1>13 DEF YieldSwitch, Goto, Runs
    <2>1. TypeOK'
      BY DEF TypeOK, SchedTypeOK, ThreadState
    <2>2. LockDiscipline'
      BY DEF LockDiscipline, TypeOK, SchedTypeOK, Runs
    <2>3. QueuesMatchStates'
      BY DEF QueuesMatchStates, LockDiscipline, CurrentMatchesCpu, TypeOK, SchedTypeOK,
             InTransit, OnItsWayOut, Runs
    <2>4. /\ TargetStillBlocked' /\ VerdictIsRight'
          /\ CurrentMatchesCpu' /\ OneUnblockerEach'
      BY DEF TargetStillBlocked, VerdictIsRight, CurrentMatchesCpu, OneUnblockerEach,
             QueuesMatchStates, LockDiscipline, TypeOK, SchedTypeOK
    <2> QED
      BY <2>1, <2>2, <2>3, <2>4
  <1>14. ASSUME NEW t \in Thread, BlockSwitch(t)
        PROVE  IndInv'
    <2> USE <1>14 DEF BlockSwitch, BlockCurrent, Goto, Runs
    <2>1. TypeOK'
      BY DEF TypeOK, SchedTypeOK, ThreadState
    <2>2. LockDiscipline'
      BY DEF LockDiscipline, TypeOK, SchedTypeOK, Runs
    <2>3. QueuesMatchStates'
      BY DEF QueuesMatchStates, LockDiscipline, CurrentMatchesCpu, TypeOK, SchedTypeOK,
             InTransit, OnItsWayOut, Runs
    <2>4. /\ TargetStillBlocked' /\ VerdictIsRight'
          /\ CurrentMatchesCpu' /\ OneUnblockerEach'
      BY DEF TargetStillBlocked, VerdictIsRight, CurrentMatchesCpu, OneUnblockerEach,
             QueuesMatchStates, LockDiscipline, TypeOK, SchedTypeOK
    <2> QED
      BY <2>1, <2>2, <2>3, <2>4
  <1>15. ASSUME NEW t \in Thread, FinishSwitch(t)
        PROVE  IndInv'
    <2> USE <1>15 DEF FinishSwitch, Goto, Runs
    <2>1. TypeOK'
      BY DEF TypeOK, SchedTypeOK, ThreadState
    <2>2. LockDiscipline'
      BY DEF LockDiscipline, TypeOK, SchedTypeOK, Runs
    <2>3. QueuesMatchStates'
      BY DEF QueuesMatchStates, LockDiscipline, CurrentMatchesCpu, TypeOK, SchedTypeOK,
             InTransit, OnItsWayOut, Runs
    <2>4. /\ TargetStillBlocked' /\ VerdictIsRight'
          /\ CurrentMatchesCpu' /\ OneUnblockerEach'
      BY DEF TargetStillBlocked, VerdictIsRight, CurrentMatchesCpu, OneUnblockerEach,
             QueuesMatchStates, LockDiscipline, TypeOK, SchedTypeOK
    <2> QED
      BY <2>1, <2>2, <2>3, <2>4
  <1>16. ASSUME NEW t \in Thread, NEW u \in Thread, UnblockAssert(t, u)
        PROVE  IndInv'
    <2> USE <1>16 DEF UnblockAssert, MayUnblock, schedVars, Goto, Runs
    <2>1. TypeOK'
      BY DEF TypeOK, SchedTypeOK, ThreadState
    <2>2. LockDiscipline'
      BY DEF LockDiscipline, TypeOK, SchedTypeOK, Runs
    <2>3. QueuesMatchStates'
      BY DEF QueuesMatchStates, LockDiscipline, CurrentMatchesCpu, TypeOK, SchedTypeOK,
             InTransit, OnItsWayOut, Runs
    <2>4. /\ TargetStillBlocked' /\ VerdictIsRight'
          /\ CurrentMatchesCpu' /\ OneUnblockerEach'
      BY DEF TargetStillBlocked, VerdictIsRight, CurrentMatchesCpu, OneUnblockerEach,
             QueuesMatchStates, LockDiscipline, TypeOK, SchedTypeOK
    <2> QED
      BY <2>1, <2>2, <2>3, <2>4
  <1>17. ASSUME NEW t \in Thread, UnblockLock(t)
        PROVE  IndInv'
    <2> USE <1>17 DEF UnblockLock, Lock, Goto, Runs
    <2>1. TypeOK'
      BY DEF TypeOK, SchedTypeOK, ThreadState
    <2>2. LockDiscipline'
      BY DEF LockDiscipline, TypeOK, SchedTypeOK, Runs
    <2>3. QueuesMatchStates'
      BY DEF QueuesMatchStates, LockDiscipline, CurrentMatchesCpu, TypeOK, SchedTypeOK,
             InTransit, OnItsWayOut, Runs
    <2>4. /\ TargetStillBlocked' /\ VerdictIsRight'
          /\ CurrentMatchesCpu' /\ OneUnblockerEach'
      BY DEF TargetStillBlocked, VerdictIsRight, CurrentMatchesCpu, OneUnblockerEach,
             QueuesMatchStates, LockDiscipline, TypeOK, SchedTypeOK
    <2> QED
      BY <2>1, <2>2, <2>3, <2>4
  <1>18. ASSUME NEW t \in Thread, UnblockTake(t)
        PROVE  IndInv'
    <2> USE <1>18 DEF UnblockTake, UnblockRemove, Goto, Runs
    <2>0. blocked' \in Seq(Thread)
      BY RemoveFirstOnce DEF QueuesMatchStates, TypeOK, SchedTypeOK
    <2>1. TypeOK'
      BY <2>0 DEF TypeOK, SchedTypeOK, ThreadState
    <2>2. LockDiscipline'
      BY DEF LockDiscipline, TypeOK, SchedTypeOK, Runs
    <2>3. QueuesMatchStates'
      <3>1. target[t] \in Thread
        BY DEF OneUnblockerEach, InUnblock
      <3>2. /\ IsInjective(blocked')
            /\ ToSet(blocked') = ToSet(blocked) \ {target[t]}
        BY RemoveFirstOnce DEF QueuesMatchStates, TypeOK, SchedTypeOK
      <3>3. \A u \in Thread : InTransit(u)' <=> u = target[t]
        BY DEF InTransit, LockDiscipline, Critical, TypeOK
      <3>4. \A u \in Thread : ~InTransit(u)
        BY DEF InTransit, LockDiscipline, Critical, TypeOK
      <3> QED
        BY <3>1, <3>2, <3>3, <3>4 DEF QueuesMatchStates, LockDiscipline, CurrentMatchesCpu, TypeOK, SchedTypeOK,
             InTransit, OnItsWayOut, Runs
    <2>4. /\ TargetStillBlocked' /\ VerdictIsRight'
          /\ CurrentMatchesCpu' /\ OneUnblockerEach'
      BY DEF TargetStillBlocked, VerdictIsRight, CurrentMatchesCpu, OneUnblockerEach,
             QueuesMatchStates, LockDiscipline, TypeOK, SchedTypeOK
    <2> QED
      BY <2>1, <2>2, <2>3, <2>4
  <1>19. ASSUME NEW t \in Thread, UnblockQueue(t)
        PROVE  IndInv'
    <2> USE <1>19 DEF UnblockQueue, UnblockRequeue, Goto, Runs
    <2>0. target[t] \in Thread /\ state[target[t]] = "Blocked"
      BY DEF OneUnblockerEach, TargetStillBlocked
    <2>1. TypeOK'
      BY <2>0 DEF TypeOK, SchedTypeOK, ThreadState
    <2>2. LockDiscipline'
      BY DEF LockDiscipline, TypeOK, SchedTypeOK, Runs
    <2>3. QueuesMatchStates'
      <3>2. /\ IsInjective(ready')
            /\ ToSet(ready') = ToSet(ready) \cup {target[t]}
        BY <2>0, AppendOnce DEF QueuesMatchStates, TypeOK, SchedTypeOK
      <3>3. \A u \in Thread : InTransit(u) <=> u = target[t]
        BY DEF InTransit, LockDiscipline, Critical, TypeOK
      <3>4. \A u \in Thread : ~InTransit(u)'
        BY DEF InTransit, LockDiscipline, Critical, TypeOK
      <3> QED
        BY <2>0, <3>2, <3>3, <3>4 DEF QueuesMatchStates, LockDiscipline, CurrentMatchesCpu, TypeOK, SchedTypeOK,
             InTransit, OnItsWayOut, Runs
    <2>4. /\ TargetStillBlocked' /\ VerdictIsRight'
          /\ CurrentMatchesCpu' /\ OneUnblockerEach'
      BY DEF TargetStillBlocked, VerdictIsRight, CurrentMatchesCpu, OneUnblockerEach,
             QueuesMatchStates, LockDiscipline, TypeOK, SchedTypeOK
    <2> QED
      BY <2>1, <2>2, <2>3, <2>4
  <1>20. ASSUME NEW t \in Thread, UnblockUnlock(t)
        PROVE  IndInv'
    <2> USE <1>20 DEF UnblockUnlock, Unlock, Goto, Runs
    <2>1. TypeOK'
      BY DEF TypeOK, SchedTypeOK, ThreadState
    <2>2. LockDiscipline'
      BY DEF LockDiscipline, TypeOK, SchedTypeOK, Runs
    <2>3. QueuesMatchStates'
      BY DEF QueuesMatchStates, LockDiscipline, CurrentMatchesCpu, TypeOK, SchedTypeOK,
             InTransit, OnItsWayOut, Runs
    <2>4. /\ TargetStillBlocked' /\ VerdictIsRight'
          /\ CurrentMatchesCpu' /\ OneUnblockerEach'
      BY DEF TargetStillBlocked, VerdictIsRight, CurrentMatchesCpu, OneUnblockerEach,
             QueuesMatchStates, LockDiscipline, TypeOK, SchedTypeOK
    <2> QED
      BY <2>1, <2>2, <2>3, <2>4
  <1>21. CASE UNCHANGED vars
    BY <1>21 DEF vars, schedVars, TypeOK, SchedTypeOK, LockDiscipline, Runs, QueuesMatchStates,
               InTransit, OnItsWayOut, TargetStillBlocked, VerdictIsRight, CurrentMatchesCpu, OneUnblockerEach
  <1> QED
    BY <1>1, <1>2, <1>3, <1>4, <1>5, <1>6, <1>7, <1>8, <1>9, <1>10, <1>11, <1>12, <1>13, <1>14, <1>15, <1>16, <1>17, <1>18, <1>19, <1>20, <1>21
       DEF Next, Main, SchedulerStep, Signal, LibraryStep, ClientCall, Stopped, AfterExit, vars

\* The strengthened invariant holds for every client that never unblocks one
\* thread from two threads, which is what Semaphore's clients are.
THEOREM SchedulerInvariant ==
  ASSUME SoleUnblocker PROVE Spec => []IndInv
  <1>1. IndInv /\ [Next]_vars => IndInv'
    BY StepInv
  <1> QED
    BY InitInv, <1>1, PTL DEF Spec

\* Types of the scheduler's globals and of the threads' positions.
THEOREM TypesHold ==
  ASSUME SoleUnblocker PROVE Spec => []TypeOK
  BY SchedulerInvariant, PTL DEF IndInv

\* The timer never enters the scheduler while the scheduler or a critical
\* section of the API runs, and can always preempt client code.
THEOREM SchedulerIsNotReentered ==
  ASSUME SoleUnblocker PROVE Spec => []LockDiscipline
  BY SchedulerInvariant, PTL DEF IndInv

\* The invariants written above the globals of sthread.c: no thread is lost,
\* queued twice, or queued in a state that is not its queue's.
THEOREM QueuesAreRight ==
  ASSUME SoleUnblocker PROVE Spec => []QueuesMatchStates
  BY SchedulerInvariant, PTL DEF IndInv

\* The process reports completion or deadlock only when that is so.
THEOREM VerdictHolds ==
  ASSUME SoleUnblocker PROVE Spec => []VerdictIsRight
  BY SchedulerInvariant, PTL DEF IndInv

-----------------------------------------------------------------------------
Advances(i) ==
  \/ current' = ready[i]
  \/ \E j \in 1..i : j <= Len(ready') /\ ready'[j] = ready[i]

LEMMA StaysInPlace ==
  ASSUME TypeOK, NEW i \in 1..Len(ready), ready' = ready
  PROVE  Advances(i)
  BY DEF Advances, TypeOK, SchedTypeOK

LEMMA StaysBefore ==
  ASSUME TypeOK, NEW i \in 1..Len(ready), NEW t \in Thread, ready' = Append(ready, t)
  PROVE  Advances(i)
  <1>1. i <= Len(ready') /\ ready'[i] = ready[i]
    BY AppendProperties DEF TypeOK, SchedTypeOK
  <1> QED
    BY <1>1 DEF Advances

\* First come, first served, whatever the clients do.
THEOREM FirstComeFirstServed ==
  ASSUME SoleUnblocker PROVE Spec => ReadyNotOvertaken
  <1>1. ASSUME IndInv, [Next]_vars
        PROVE  [\A i \in 1..Len(ready) : Advances(i)]_vars
    <2> SUFFICES ASSUME Next, NEW i \in 1..Len(ready)
                 PROVE  Advances(i)
      BY <1>1
    <2> USE <1>1 DEF IndInv
    <2>1. CASE TakeNext
      <3>1. CASE i = 1
        BY <2>1, <3>1 DEF TakeNext, Advances, TypeOK, SchedTypeOK
      <3>2. CASE i # 1
        <4>1. /\ i - 1 \in 1..i /\ i - 1 <= Len(ready')
              /\ ready'[i - 1] = ready[i]
          BY <2>1, <3>2 DEF TakeNext, TypeOK, SchedTypeOK
        <4> QED
          BY <4>1 DEF Advances
      <3> QED
        BY <3>1, <3>2
    <2>2. CASE Save
      <3>1. current \in Thread
        BY <2>2 DEF Save, CurrentMatchesCpu
      <3> QED
        BY <2>2, <3>1, StaysInPlace, StaysBefore DEF Save
    <2>3. ASSUME NEW t \in Thread, Create(t)
          PROVE  Advances(i)
      BY <2>3, StaysBefore DEF Create
    <2>4. ASSUME NEW t \in Thread, UnblockQueue(t)
          PROVE  Advances(i)
      <3>1. target[t] \in Thread
        BY <2>4 DEF UnblockQueue, OneUnblockerEach, InUnblock
      <3> QED
        BY <2>4, <3>1, StaysBefore DEF UnblockQueue, UnblockRequeue
    <2>5. CASE \/ StartTimer \/ StartScheduler \/ TakeNone \/ Restore \/ Signal \/ Stopped
      BY <2>5, StaysInPlace
         DEF StartTimer, StartScheduler, TakeNone, Restore, Signal, TimerTick,
             TickWhileArmed, Stopped, AfterExit, schedVars
    <2>6. ASSUME NEW t \in Thread, ClientCall(t)
          PROVE  Advances(i)
      BY <2>6, StaysInPlace
         DEF ClientCall, YieldLock, BlockLock, FinishLock, Enter, UnblockAssert, schedVars
    <2>7. ASSUME NEW t \in Thread, LibraryStep(t)
          PROVE  Advances(i)
      BY <2>4, <2>7, StaysInPlace
         DEF LibraryStep, YieldSwitch, BlockSwitch, BlockCurrent, FinishSwitch, UnblockLock,
             UnblockTake, UnblockRemove, UnblockUnlock
    <2> QED
      BY <2>1, <2>2, <2>3, <2>5, <2>6, <2>7 DEF Next, Main, SchedulerStep
  <1>2. IndInv /\ [Next]_vars => [\A i \in 1..Len(ready) : Advances(i)]_vars
    BY <1>1
  <1>3. ReadyNotOvertaken <=> [][\A i \in 1..Len(ready) : Advances(i)]_vars
    BY DEF ReadyNotOvertaken, Advances
  <1> QED
    BY SchedulerInvariant, <1>2, <1>3, PTL DEF Spec

=============================================================================
