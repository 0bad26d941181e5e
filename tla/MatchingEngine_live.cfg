CONSTANTS
    a = a
    b = b
    c = c
    alice = alice
    bob = bob
    Ids = {a, b, c}
    NoId = NoId
    Users = {alice}
    Owner <- OneOwner
    Prices = {1}
    MaxPrice = 1
    MaxQty = 2
    IpoPrice = 1
    FokCap = 1
    MaxQueue = 4
    MaxOverfill = 1
    MaxLeft = 1
    Deviations = {"ipo_error"}
SPECIFICATION FairSpec
PROPERTY EngineReturns
CHECK_DEADLOCK FALSE
