CONSTANTS
    p = p
    q = q
    s = s
    Requests = {p, q}
    NoRequest = NoRequest
    Capacity = 1
SPECIFICATION Spec
PROPERTY ClosedMarketAcceptsNothing
CHECK_DEADLOCK FALSE
