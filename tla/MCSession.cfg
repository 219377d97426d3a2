SPECIFICATION Spec
CONSTANTS
    Users = {ana, bia}
    None = None
    Failed = Failed
    Lifetime = 3
    Margin = 1
    MinDelay = 1
    Leeway = 0
    MaxTransit = 2
    MaxCalls = 2
    MaxRefreshes = 1
INVARIANTS
    NoRapidRefresh
PROPERTIES
    MixedOnlyByLateAnswer
    ExpiredSessionEnds
