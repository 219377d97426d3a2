SPECIFICATION Spec
CONSTANTS
    r1 = r1
    r2 = r2
    s1 = s1
    s2 = s2
    Runs <- TwoRuns
    Sms <- TwoSms
    Hashes <- TwoHashes
    Hash <- Distinct
    Window = 2
    MaxRetries = 3
    RetryDelay = 1
    MaxRuns = 1
    MaxStarted = 2
PROPERTIES
    DroppedIsRetried
