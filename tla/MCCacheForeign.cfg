SPECIFICATION SceneSpec
CONSTANTS
    Ana = ana
    Bia = bia
    Users = {ana, bia}
    None = None
    Ids = {1, 2}
    Revisions = {1, 2}
    MaxOverride = 2
    MaxWrites = 1
INVARIANTS
    NoForeignRows
