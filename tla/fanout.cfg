SPECIFICATION FairSpec
CONSTANTS
    None = None
    me = me
    bob = bob
    p1 = p1
    p2 = p2
    JIDs <- Accounts
    DeviceIDs = {1, 2}
    Local <- LocalDevice
    Lists <- SharedIDs
    Published <- First
    Known <- Contacts
    Procs = {p1, p2}
    Senders = {p1, p2}
    Syncers = {p2}
    Resolver = TRUE
    InitTrust <- MixedTrust
    MaxReturned = 2
INVARIANTS
    TypeOK
    Accounted
    ContactFindsItsKey
    WaitsForWork
PROPERTIES
    FanoutReturns
