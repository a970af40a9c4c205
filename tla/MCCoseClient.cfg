SPECIFICATION ClientSpec
CONSTANTS
    k1 = k1  k2 = k2
    c1 = c1  c2 = c2
    s1 = s1
    Uids = {u1}
    Keys = {k1, k2}
    Requests = {h1, h2}
    Certs = {c1, c2}
    NoUid = NoUid
    NoKey = NoKey
    NoCert = NoCert
    KeyOf <- MCKeyOf
    Form <- MCForm
    Lists <- MCLists
    MaxOpenConns = 2
    MaxDbConnAttempts = 1
    MaxCertLoadFailCount = 1
    StringDocs = {s1}
    NullDocs = {}
    TypedDocs = {}
    WithoutNull <- MCWithoutNull
    Slots = {x1}
    SignRequests <- MCRequests
INVARIANTS ClientTypeOK CoseVerifiable
PROPERTIES ImplementsSigner ImplementsLoader
