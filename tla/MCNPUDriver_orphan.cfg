CONSTANTS
    t1 = t1
    t2 = t2
    NoThread = NoThread
    Threads <- MCThreads
    Commands <- MCNoReset
    MaxLoads = 2
    HasLLM = TRUE
SPECIFICATION Spec

INVARIANTS
    UnloadStopsAll
