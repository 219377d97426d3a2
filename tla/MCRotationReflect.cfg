SPECIFICATION Spec
CONSTANTS
    Users = {ana}
    Devices = {d1}
    Passwords = {p1, p2}
    None = None
    MaxWraps = 2
INVARIANTS
    SessionReflectsRotation
