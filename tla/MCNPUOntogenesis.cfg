CONSTANTS
    Fitness <- MCFitness
    SeedSizes = {0, 3}
    PopulationSize = 3
    ElitismNum = 1
    ElitismDen = 3
    MaxGenerations = 3
    FitnessThreshold = 90
SPECIFICATION Spec
CHECK_DEADLOCK FALSE
INVARIANTS
    TypeOK
PROPERTIES
    ElitesKept
