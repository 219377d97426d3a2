SPECIFICATION Spec
CONSTANTS
    r1 = r1
    r2 = r2
    s1 = s1
    s2 = s2
    Runs <- TwoRuns
    Sms <- OneSms
    Hashes <- TwoHashes
    Hash <- OneHash
    Window = 3
    MaxRetries = 3
    RetryDelay = 1
    MaxRuns = 2
    MaxStarted = 2
PROPERTIES
    RetransmissionIgnored
