SPECIFICATION Spec
CONSTANTS
    admin = admin
    user = user
    k1 = k1
    k2 = k2
    c1 = c1
    c2 = c2
    NoKey = NoKey
    Users = {admin, user}
    Admins = {admin}
    Primary = admin
    Keys = {k1, k2}
    Prefix <- SamePrefix
    Calls = {c1, c2}
    Lifetime = 1
    MaxTime = 2
    MaxFaults = 1
SYMMETRY Symmetry
INVARIANT NoHandlerWhileDisabled
