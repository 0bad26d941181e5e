CONSTANTS
    a = a
    b = b
    c = c
    alice = alice
    bob = bob
    Ids = {a, b, c}
    NoId = NoId
    Users = {alice, bob}
    Owner <- OneOwner
    Prices = {1, 2}
    MaxPrice = 2
    MaxQty = 2
    IpoPrice = 1
    FokCap = 1
    MaxQueue = 3
    MaxOverfill = 4
    MaxLeft = 3
    Deviations = {}
SYMMETRY Symmetric
SPECIFICATION Spec
PROPERTY CancelNeverTrades
CHECK_DEADLOCK FALSE
