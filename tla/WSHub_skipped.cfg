CONSTANTS
    c1 = c1
    c2 = c2
    alice = alice
    bob = bob
    engine = engine
    Users = {alice}
    Conns = {c1, c2}
    User <- OneUser
    None = None
    Everyone = Everyone
    Broadcasters = {engine}
    Timer = Timer
    Targets = {Everyone}
    Sinces = {"none"}
    PingCloses = TRUE
    MaxMessages = 1
    MaxClears = 0
    MaxClosings = 0
SPECIFICATION Spec
INVARIANTS
    CompleteStream
CHECK_DEADLOCK FALSE
