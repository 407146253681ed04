SPECIFICATION Spec
CONSTANTS
    None = None
    da = da
    db = db
    dc = dc
    p1 = p1
    p2 = p2
    p3 = p3
    Protocol = "v1"
    IdSpace = 8
    Devices <- AB
    Procs = {p1, p2}
    Home <- HomeAB
    Resolvers = {da}
    InitTrust <- TrustFirst
    Blockers = {da}
    Restartable = {}
    Unreliable = {}
    Reinstallable = {db}
    Maintainers = {}
    Publishers = {db}
    MaxGen = 2
    PoolSize = 1
    MaxKeys = 5
    MaxSent = 3
INVARIANTS
    SessionIdentity
    BlockedSkipped
    SessionsAgree
