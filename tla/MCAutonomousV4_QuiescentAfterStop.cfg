CONSTANTS
    FatigueThreshold <- MCFatigueThreshold
    MinWakeDuration <- MCMinWakeDuration
    FatigueRate <- MCFatigueRate
    RecoveryRate <- MCRecoveryRate
    WMCapacity <- MCWMCapacity
    FatigueCap <- MCFatigueCap
    MaxDreams <- MCMaxDreams
    MaxHostCalls = 0

SPECIFICATION Spec
PROPERTY QuiescentAfterStop
