SPECIFICATION VideoSpec
CONSTANTS
    MaxTracks = 2
    MinHits = 2
    TrackBuffer = 2
    DetectInterval = 2
    MaxAge = 2
    Gaps = {1, 3}
    Budget = 3
    Reserve = 1
    RetryBonus = 1
    RetryMinReads = 2
    MaxPerFrame = 1
    IntervalExcellent = 1
    IntervalGood = 2
    IntervalMarginal = 3
    MaxWaits = 2
    WaitBackoff = 2
    GrowthWindow = 1
    PlateInterval = 1
    MaxAttempts = 6
    LockMinReads = 2
    Widths = {1, 2, 3}
    ReadWidth = 2
INVARIANT OneEventPerTrack
INVARIANT BudgetIsKept
INVARIANT PatienceIsBounded
PROPERTY RetirementIsReported
PROPERTY EveryStateIsReported
CHECK_DEADLOCK FALSE
