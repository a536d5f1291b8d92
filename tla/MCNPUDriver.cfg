CONSTANTS
    t1 = t1
    t2 = t2
    NoThread = NoThread
    Threads <- MCThreads
    Commands <- MCAllCommands
    MaxLoads = 1
    HasLLM = TRUE
SPECIFICATION Spec
CHECK_DEADLOCK FALSE
INVARIANTS
    InferenceNeedsModel
    BusyMeansInference
    AssessedMature
