CONSTANTS
    p = p
    q = q
    s = s
    Requests = {p, q}
    NoRequest = NoRequest
    Capacity = 1
SPECIFICATION Spec
INVARIANT BusyMeansNotTaken
CHECK_DEADLOCK FALSE
