\* Bodies, headers and attempts while the settings change.
SPECIFICATION OutSpec
CONSTANTS
    Asked <- SomeRequests
    Keys = {"", "key"}
    MaxAttempts = 2
    ThinkingWords <- SomeThinkingWords
INVARIANTS OutTypeOK BodyFitsUpstream BodyKeepsRequest OneSession IdentityReplaced
