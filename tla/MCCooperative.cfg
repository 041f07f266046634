SPECIFICATION Spec
CONSTANTS
    Threads = {t1, t2, t3, t4}
    NULL = NULL
INVARIANTS
    ContextIsOwn
PROPERTIES
    IsScheduler
    TakesTurns
CHECK_DEADLOCK FALSE
