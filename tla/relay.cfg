\* One request, every answer and three attempts, while the list changes, with stale clocks.
SPECIFICATION FairTraceSpec
CONSTANTS
    a = a
    b = b
    c = c
    r1 = r1
    Requests = {r1}
    WorkerLists <- Reconfigured
    MaxWorkerAttempts = 3
    UpstreamAnswers <- AllAnswers
    PanicIds = {c}
    AutoDisableAfter = 3
    AutoDisableFor = 3
    CooldownBase = 1
    CooldownMax = 2
    DayLength = 2
    DayStarts <- RegularDays
    BanDurs <- DefaultBan
    LongestBan = 2
    MaxLag = 1
    MaxTime = 2
PROPERTIES EveryRequestReturns UsesRotator KeepsForwardContract
