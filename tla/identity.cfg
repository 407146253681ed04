SPECIFICATION Spec
CONSTANTS
    None = None
    IdSpace = 16
    PoolSize = 2
    MaxKeys = 12
INVARIANTS
    TypeOK
    UsableBundle
    SignedPreKeyFound
