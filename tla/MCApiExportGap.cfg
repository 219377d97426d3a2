SPECIFICATION Spec
CONSTANTS
    p1 = p1
    p2 = p2
    Users = {u1, u2}
    Procs <- TwoSlots
    Exporters = {e1}
    Importers = {}
    OriginalIds = {}
    Contents = {d1}
    BadBase64 = BadBase64
    BadBucket = BadBucket
    MaxCards = 2
    MaxTxs = 2
    MaxItems = 1
    MaxImport = 0
    Offered <- ExportOffered
SYMMETRY DataSymmetry
INVARIANTS
    ExportIsSelfContained
