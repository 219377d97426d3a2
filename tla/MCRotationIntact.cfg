SPECIFICATION Spec
CONSTANTS
    Users = {ana, bia}
    Devices = {d1}
    Passwords = {p1, p2}
    None = None
    MaxWraps = 2
INVARIANTS
    DataStaysIntact
