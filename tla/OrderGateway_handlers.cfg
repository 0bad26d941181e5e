CONSTANTS
    p = p
    q = q
    s = s
    Requests = {p, q, s}
    NoRequest = NoRequest
    Capacity = 1
SPECIFICATION FairSpec
INVARIANTS
    TypeOK
    SeesEarlierOrders
PROPERTIES
    ImplementsService
    EveryRequestAnswered
    SentIsSettled
CHECK_DEADLOCK FALSE
