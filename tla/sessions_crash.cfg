SPECIFICATION Spec
CONSTANTS
    None = None
    da = da
    db = db
    dc = dc
    p1 = p1
    p2 = p2
    p3 = p3
    Protocol = "v1"
    IdSpace = 8
    Devices <- AB
    Procs = {p1, p2}
    Home <- HomeAB
    Resolvers = {}
    InitTrust <- Trusting
    Blockers = {}
    Restartable = {da, db}
    Unreliable = {da, db}
    Reinstallable = {}
    Maintainers = {db}
    Publishers = {db}
    MaxGen = 1
    PoolSize = 1
    MaxKeys = 4
    MaxSent = 2
INVARIANTS
    NoPositionReuse
    KeyExchangeOnFirst
    SessionsAgree
    WaitsForWork
PROPERTIES
    ImplementsChannel
