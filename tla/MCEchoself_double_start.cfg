CONSTANTS
    c1 = c1
    c2 = c2
    Callers <- MCTwoCallers
    EnableDreamCycles = TRUE
    DreamSlots = 3
    MaxWakeEvents = 2
SPECIFICATION Spec
INVARIANTS
    DreamsCountedOnce
