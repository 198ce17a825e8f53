\* What a client that goes away does to the workers.
SPECIFICATION RelaySpec
CONSTANTS
    a = a
    b = b
    c = c
    r1 = r1
    r2 = r2
    Requests = {r1}
    WorkerLists <- TwoWorkers
    MaxWorkerAttempts = 3
    UpstreamAnswers = {"ok"}
    PanicIds = {}
    AutoDisableAfter = 3
    AutoDisableFor = 4
    CooldownBase = 1
    CooldownMax = 2
    DayLength = 6
    DayStarts <- RegularDays
    BanDurs <- DefaultBan
    LongestBan = 6
    MaxLag = 0
    MaxTime = 2
PROPERTIES ClientAbortIsNoFailure
