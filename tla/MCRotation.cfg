SPECIFICATION Spec
CONSTANTS
    Users = {ana, bia}
    Devices = {d1, d2}
    Passwords = {p1, p2}
    None = None
    MaxWraps = 2
SYMMETRY RotationSymmetry
INVARIANTS
    TypeOK
    KeysOpen
    SessionKeyWasStored
