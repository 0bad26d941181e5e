SPECIFICATION Spec
CONSTANTS
    r1 = r1
    r2 = r2
    r3 = r3
    n1 = n1
    n2 = n2
    e1 = e1
    e2 = e2
    Requests = {r1, r2}
    Names = {n1, n2}
    Emails = {e1, e2}
    MaxCodes = 3
    MaxFaults = 2
    MaxCrashes = 1
SYMMETRY Symmetry
INVARIANTS
    TypeOK
    SuccessOwnsCode
    PrimaryAdminFirst
    OnePrintedCode
PROPERTY ImplementsInvitations
CHECK_DEADLOCK FALSE
