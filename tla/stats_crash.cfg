\* Requests, resets, crashes and restarts over the statistics store.
SPECIFICATION FairV1Spec
CONSTANTS
    h1 = h1
    h2 = h2
    Handlers = {h1, h2}
    Accounts = {"a"}
    Debounce = 1
    MaxCount = 2
INVARIANTS V1TypeOK NoChangeForgotten FileReadable TokensWithinRequests CountedOnce
PROPERTIES HistoryKept EventuallySaved UsesStats
