SPECIFICATION Spec
CONSTANTS
    t1 = t1
    t2 = t2
    cafe = cafe
    taxi = taxi
    Txs = {t1, t2}
    MerchantOf <- TwoMerchants
    Keys = {cafe, taxi, Garbled, Unreadable}
    Values = {food}
    Categories = {food}
    Devices = {d1, d2}
    Kinds = {"json"}
    MaxEdits = 2
    None = None
    Uncategorized = Uncategorized
    Unknown = Unknown
    Garbled = Garbled
    Unreadable = Unreadable
SYMMETRY DeviceSymmetry
INVARIANTS
    MapsWereStored
    OverrideFollowsEdit
PROPERTIES
    HistorySpec
