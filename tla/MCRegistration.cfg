SPECIFICATION RegSpec
CONSTANTS
    Uids = {u1, u2}
    Keys = {k1, k2, k3}
    Requests = {h1, h2}
    NoUid = NoUid
    NoKey = NoKey
    MaxOpenConns = 2
    MaxDbConnAttempts = 2
SYMMETRY Symmetry
INVARIANTS RegTypeOK CommittedKeyIsRegistered GrantedIsDurable CacheMirrorsTable NoLeakedTransaction NoCircularWait RegConsistent
PROPERTIES ImplementsContract
