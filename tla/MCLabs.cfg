SPECIFICATION LabSpec
CONSTANTS
    Ids = {1, 2, 3}
    FillOf <- Fills
    Sizes = {0, 8, 24}
    MaxHeap = 112
    MaxRequests = 7
    objects_per_chunk = 2
    max_live_objs = 4
    total_objs = 6
    Ages = {1, 3}
    Values = {1, 2}
    Addresses = {"p", "q", "r", "s"}
    Items = {x, y, z}
    Nodes = {n1, n2, n3, n4}
    Nil = Nil
    Width = 20
    Depth = 20
    MaxTime = 60
    Behind <- Memory
    Inputs <- Everything
    Thread = {t1, t2, t3}
    Value = {3}
    Modulus = 32
    Calls = 2
INVARIANTS
    HeapIsConsistent
    DataIsSafe
    ObjectsAreSafe
    BookkeepingAgrees
    ProgramsCompute
PROPERTIES
    PoolTestEnds
    AdditionsEnd
    ListIsSequence
    IsInstructionSet
    IsAccumulator
CHECK_DEADLOCK FALSE
