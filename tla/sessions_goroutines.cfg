SPECIFICATION Spec
CONSTANTS
    None = None
    da = da
    db = db
    dc = dc
    p1 = p1
    p2 = p2
    p3 = p3
    Protocol = "v2"
    IdSpace = 8
    Devices <- AB
    Procs = {p1, p2, p3}
    Home <- HomeAAB
    Resolvers = {da, db}
    InitTrust <- Undecided
    Blockers = {}
    Restartable = {}
    Unreliable = {}
    Reinstallable = {}
    Maintainers = {}
    Publishers = {}
    MaxGen = 1
    PoolSize = 1
    MaxKeys = 4
    MaxSent = 3
INVARIANTS
    TypeOK
    NoPositionReuse
    AtMostOnce
    KeyExchangeOnFirst
    TrustedSend
    WaitsForWork
