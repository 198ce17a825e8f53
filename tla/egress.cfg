\* Two attempts and a probe through one endpoint, any conduct of the proxy, a racing cache.
SPECIFICATION FairEgressSpec
CONSTANTS
    Attempts = {"a", "b"}
    Entries <- SomeEntries
    Users = {0, 1, 3}
    MaxCredential = 2
    Methods = {0, 2}
    Codes = {0, 1}
    DomainLengths = {1}
INVARIANTS EgressTypeOK TunnelIsClean HandedOverWhenGranted TransportFitsEndpoint
PROPERTIES DialEnds
