SPECIFICATION Spec
CONSTANTS
    None = None
    IdSpace = 8
    Procs = {p1, p2}
    Rotators = {p1}
    Peers = {q1, q2}
    PoolSize = 1
    MaxBatch = 2
    MaxKeys = 4
SYMMETRY PeerSymmetry
INVARIANTS
    TypeOK
    OneTime
    SameKeys
PROPERTIES
    NoLivePreKeyLost
    ImplementsPool
