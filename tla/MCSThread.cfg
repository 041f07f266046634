\* Any client of the thread API on four threads, with and without the timer.
SPECIFICATION FairSpec
CONSTANTS
  t1 = t1
  t2 = t2
  t3 = t3
  t4 = t4
  Thread <- MCThread
  NoThread = NoThread
  SoleUnblocker = TRUE
INVARIANTS
  LockDiscipline
  QueuesMatchStates
  VerdictIsRight
PROPERTIES
  ReadyNotOvertaken
  ReadyGetsToRun
