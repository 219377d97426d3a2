SPECIFICATION SceneSpec
CONSTANTS
    p1 = p1
    p2 = p2
    Users = {u1, u2}
    Procs <- TwoSlots
    Exporters = {e1}
    Importers = {m1}
    OriginalIds = {o1, o2}
    Contents = {d1}
    BadBase64 = BadBase64
    BadBucket = BadBucket
    MaxCards = 2
    MaxTxs = 2
    MaxItems = 2
    MaxImport = 2
    Offered <- SceneOffered
SYMMETRY SceneSymmetry
INVARIANTS
    OwnershipIntegrity
    BulkInsertIsPrefix
    ExportMissesOnlyNewCards
    ImportStaysInside
    ImportAnswerIsComplete
PROPERTIES
    RequestsTouchOwnRows
    VaultSpec
