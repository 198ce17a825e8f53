\* Two requests over three workers, one of which has a key that makes attempts panic.
SPECIFICATION RelaySpec
CONSTANTS
    a = a
    b = b
    c = c
    r1 = r1
    r2 = r2
    Requests = {r1, r2}
    WorkerLists <- ThreeWorkers
    MaxWorkerAttempts = 3
    UpstreamAnswers = {"ok", "server_error", "free_limit"}
    PanicIds = {c}
    AutoDisableAfter = 2
    AutoDisableFor = 3
    CooldownBase = 1
    CooldownMax = 2
    DayLength = 2
    DayStarts <- RegularDays
    BanDurs <- DefaultBan
    LongestBan = 2
    MaxLag = 1
    MaxTime = 2
SYMMETRY RequestSymmetry
INVARIANTS RelayTypeOK
PROPERTIES FailedWorkerBacksOff RetriesElsewhere
