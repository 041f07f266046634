\* Clients that may unblock one thread from two threads.
SPECIFICATION Spec
CONSTANTS
  t1 = t1
  t2 = t2
  t3 = t3
  t4 = t4
  Thread <- MCThread
  NoThread = NoThread
  SoleUnblocker = FALSE
INVARIANT
  ReadyQueueHoldsReady
