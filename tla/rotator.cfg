\* Failures, cooldowns, disables and bans over a midnight, with workers reconfigured and stale clocks.
SPECIFICATION RotatorSpec
CONSTANTS
    a = a
    b = b
    WorkerLists <- TwoWorkerLists
    AutoDisableAfter = 4
    AutoDisableFor = 4
    CooldownBase = 1
    CooldownMax = 3
    DayLength = 3
    DayStarts <- RegularDays
    BanDurs <- DefaultBan
    LongestBan = 3
    MaxLag = 1
    MaxTime = 4
INVARIANTS TypeOK OutageBounded PickContract RotationProgress
PROPERTIES OutageEndsByClock BanLostOnlyAtMidnight
