SPECIFICATION Spec
CONSTANTS
    t1 = t1
    t2 = t2
    cafe = cafe
    taxi = taxi
    Txs = {t1, t2}
    MerchantOf <- TwoMerchants
    Keys = {cafe, taxi, Garbled, Unreadable}
    Values = {food, ride}
    Categories = {food, ride}
    Devices = {d1}
    Kinds = {"plain"}
    MaxEdits = 2
    None = None
    Uncategorized = Uncategorized
    Unknown = Unknown
    Garbled = Garbled
    Unreadable = Unreadable
INVARIANTS
    AmountsStay
