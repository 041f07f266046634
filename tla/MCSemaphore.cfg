\* One semaphore with value 1, and any client.
SPECIFICATION FairSpec
CONSTANTS
  t1 = t1
  t2 = t2
  t3 = t3
  t4 = t4
  s1 = s1
  Thread <- MCThread
  NoThread = NoThread
  Semaphore <- MCSemaphoreSet
  InitialValue <- MCInitialValue
  MaxValue = 2
INVARIANTS
  WaitersAreBlocked
  NoLostWakeup
PROPERTIES
  IsSemaphore
  NobodySleepsOnPermits
