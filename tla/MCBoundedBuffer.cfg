\* fibtest with a buffer of two slots, so that the indices wrap.
SPECIFICATION FairBufferSpec
CONSTANTS
  p1 = p1
  p2 = p2
  c1 = c1
  e1 = e1
  e2 = e2
  space = space
  items = items
  mutex = mutex
  Producer <- MCProducer
  Consumer <- MCConsumer
  Thread <- MCThread
  NoThread = NoThread
  Element <- MCElement
  EMPTY = EMPTY
  Length = 2
  Semaphore <- MCSemaphoreSet
  InitialValue <- MCInitialValue
  MaxValue = 2
INVARIANTS
  OneThreadInside
  PermitsAddUp
  SlotsMatchCount
  NeverDeadlocked
PROPERTIES
  IsQueue
  ElementsKeepFlowing
