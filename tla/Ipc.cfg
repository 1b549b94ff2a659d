CONSTANTS
    c0 = c0
    c1 = c1
    t1 = t1
    t2 = t2
    p1 = p1
    p2 = p2
    p3 = p3
    Core = {c0, c1}
    Thread = {t1, t2}
    CoreOf <- OneEach
    Opener = {t1}
    Param <- AsyncOnC1
    Buffer = {b1, b2}
    PoolSize = 4
    Slot = {1, 2}
    Client = {x1, x2}
    QueueSize = 2
    CallbackSize = 2
    MaxOpens = 2
    NoParam = NoParam
    NoClient = NoClient
    Nobody = Nobody
    Service = Service
SPECIFICATION FairSpec
PROPERTIES RequestsReachTheirClient RequestsAreAnswered
INVARIANTS TypeOK ResponsesFindTheirRequest ClientsAreOwned CallbacksInOrder
CHECK_DEADLOCK FALSE
