SPECIFICATION Spec
CONSTANTS
    r1 = r1
    r2 = r2
    r3 = r3
    n1 = n1
    n2 = n2
    e1 = e1
    e2 = e2
    Requests = {r1, r2}
    Names = {n1, n2}
    Emails = {e1, e2}
    MaxCodes = 2
    MaxFaults = 0
    MaxCrashes = 1
INVARIANT SomebodyCanAdminister
CHECK_DEADLOCK FALSE
