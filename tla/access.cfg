\* Calls, logins, failing saves, crashes and restarts under changing environments.
SPECIFICATION AccessSpec
CONSTANTS
    k1 = k1
    k2 = k2
    t1 = t1
    t2 = t2
    Passwords = {"first", "second"}
    CallKeys = {k1, k2}
    Tokens = {t1, t2}
    EnvKeys = {"none", k2}
    Installed <- SomeSettings
    TTL = 1
    MaxTime = 3
    MaxBoots = 2
    MaxCalls = 2
INVARIANTS AccessTypeOK PromisesKept AllowListFollows SessionsEnd
SYMMETRY TokenSymmetry
CHECK_DEADLOCK FALSE
