CONSTANTS
    a = a
    b = b
    c = c
    alice = alice
    bob = bob
    Ids = {a, b, c}
    NoId = NoId
    Users = {alice, bob}
    Owner <- OneOwner
    Prices = {1}
    MaxPrice = 2
    MaxQty = 1
    IpoPrice = 1
    FokCap = 1
    MaxQueue = 3
    MaxOverfill = 4
    MaxLeft = 3
    Deviations = {"other_side"}
SPECIFICATION FairSpec
PROPERTY EngineReturns
CHECK_DEADLOCK FALSE
