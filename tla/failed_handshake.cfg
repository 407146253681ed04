SPECIFICATION Spec
CONSTANTS
    None = None
    da = da
    db = db
    dc = dc
    p1 = p1
    p2 = p2
    p3 = p3
    Protocol = "v2"
    IdSpace = 8
    Devices <- AB
    Procs = {p1, p2}
    Home <- HomeAB
    Resolvers = {}
    InitTrust <- Trusting
    Blockers = {da}
    Restartable = {}
    Unreliable = {}
    Reinstallable = {da, db}
    Maintainers = {}
    Publishers = {}
    MaxGen = 2
    PoolSize = 1
    MaxKeys = 6
    MaxSent = 3
INVARIANTS
    BlockedSkipped
