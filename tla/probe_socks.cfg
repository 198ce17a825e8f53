\* A probe of a SOCKS5 proxy that serves its upstream request.
SPECIFICATION EgressSpec
CONSTANTS
    Attempts = {"a", "b"}
    Entries <- SomeEntries
    Users = {0, 1, 3}
    MaxCredential = 2
    Methods = {0, 2}
    Codes = {0, 1}
    DomainLengths = {1}
INVARIANTS ProbeReachesTarget
