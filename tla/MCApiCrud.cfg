SPECIFICATION Spec
CONSTANTS
    p1 = p1
    p2 = p2
    Users = {u1, u2}
    Procs <- TwoSlots
    Exporters = {}
    Importers = {}
    OriginalIds = {}
    Contents = {d1, d2}
    BadBase64 = BadBase64
    BadBucket = BadBucket
    MaxCards = 2
    MaxTxs = 1
    MaxItems = 1
    MaxImport = 0
    Offered <- AllOffered
SYMMETRY SlotSymmetry
INVARIANTS
    TypeOK
    CheckedRowsStillOwned
PROPERTIES
    NoResurrection
