SPECIFICATION SceneSpec
CONSTANTS
    u1 = u1
    u2 = u2
    c1 = c1
    c2 = c2
    Users = {u1, u2}
    Cards = {c1, c2}
    OwnerOf <- Owners
    Digits = {"1234", "5678"}
    Messages <- FiveMessages
    Runs = {r1, r2, r3}
    MaxSetups = 2
    MaxSaves = 4
    FirstMonth <- Dec
    LastMonth <- Jan
    None = None
SYMMETRY RunSymmetry
INVARIANTS
    HalvesBelongTogether
    RowsReadable
PROPERTIES
    MappingsLostOnlyToOlderRuns
