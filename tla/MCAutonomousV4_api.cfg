CONSTANTS
    FatigueThreshold <- MCFatigueThreshold
    MinWakeDuration <- MCMinWakeDuration
    FatigueRate <- MCFatigueRate
    RecoveryRate <- MCRecoveryRate
    WMCapacity <- MCWMCapacity
    FatigueCap <- MCApiFatigueCap
    MaxDreams <- MCMaxDreams
    MaxHostCalls = 1

SPECIFICATION Spec
INVARIANT TypeOK
INVARIANT NeverStuckAsleep
