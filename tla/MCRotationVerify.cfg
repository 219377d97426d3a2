SPECIFICATION Spec
CONSTANTS
    Users = {ana}
    Devices = {d1, d2}
    Passwords = {p1, p2}
    None = None
    MaxWraps = 2
PROPERTIES
    VerifiesCurrentPassword
