SPECIFICATION HSpec
CONSTANTS
    None = None
    da = da
    db = db
    p1 = p1
    p2 = p2
    Protocol = "v2"
    IdSpace = 16
    Devices <- AB
    Procs = {p1, p2}
    Home <- HomeAB
    Resolvers = {}
    InitTrust <- Trusting
    Blockers = {}
    Restartable = {da, db}
    Unreliable = {}
    Reinstallable = {}
    Maintainers = {da, db}
    Publishers = {da, db}
    MaxGen = 1
    PoolSize = 1
    MaxKeys = 14
    MaxSent = 12
    Starters = {da}
    Wipeable = {db}
    Interrupted = {da, db}
    NamedError = TRUE
    MinPreKeyCount = 0
    MaxTalk = 5
    MaxFaults = 2
INVARIANTS
    SessionsAgree
    QuietInStep
PROPERTIES
    Heals
CHECK_DEADLOCK FALSE
