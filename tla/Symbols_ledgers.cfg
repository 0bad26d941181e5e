SPECIFICATION Spec
CONSTANTS
    s1 = s1
    s2 = s2
    h1 = h1
    h2 = h2
    chunkSize = 2
    Names = {s1, s2}
    Handlers = {h1, h2}
    Prices = {1, 2}
    IPOPrice = 3
    MaxTrades = 3
    MaxFaults = 1
    MaxStops = 1
SYMMETRY Symmetry
INVARIANTS
    TypeOK
    ListedAsAsked
    StoreReads
PROPERTIES
    StartsFromLastPrice
    ImplementsDayLedger
