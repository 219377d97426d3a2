SPECIFICATION McSpec
CONSTANTS
    Ips = {local, other}
    Localhost = local
    NoHeader = NoHeader
    MaxRequests = 2
    Window = 3
    MaxCount = 4
    Characters <- BucketCharacters
    Texts <- BucketTexts
    Unread = Unread
INVARIANTS
    LimitHolds
    AcceptedIsAMonth
PROPERTIES
    RefusedOnlyAtLimit
