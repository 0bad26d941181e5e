CONSTANTS
    c1 = c1
    c2 = c2
    alice = alice
    bob = bob
    engine = engine
    Users = {alice, bob}
    Conns = {c1}
    User <- OneUser
    None = None
    Everyone = Everyone
    Broadcasters = {engine}
    Timer = Timer
    Targets = {Everyone, alice, bob}
    Sinces = {"none", "all", "garbage"}
    PingCloses = TRUE
    MaxMessages = 3
    MaxClears = 1
    MaxClosings = 0
SPECIFICATION FairSpec
INVARIANTS
    TypeOK
    CompleteStream
    NewIsNewer
    OneWriter
PROPERTIES
    BroadcastReturns
CHECK_DEADLOCK FALSE
