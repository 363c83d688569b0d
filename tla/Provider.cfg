SPECIFICATION FairSpec
CONSTANTS
    Threads = {t1, t2}
    MaxAttempts = 2
    Threshold = 2
    Cooldown = 1
    Probes = 2
    CountCap = 3
INVARIANTS
    ClosedCountsConsecutive
PROPERTIES
    ProviderRecovers
