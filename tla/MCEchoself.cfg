CONSTANTS
    c1 = c1
    c2 = c2
    Callers <- MCOneCaller
    EnableDreamCycles = TRUE
    DreamSlots = 2
    MaxWakeEvents = 2
SPECIFICATION Spec
INVARIANTS
    TypeOK
    DreamsCountedOnce
    NoNestedDream
PROPERTIES
    LoopsExitAfterStop
