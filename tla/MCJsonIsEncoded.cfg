SPECIFICATION ServingSpec
CONSTANTS
    k1 = k1  c1 = c1
    s1 = s1  n1 = n1  t1 = t1
    Uids = {u1}
    Keys = {k1}
    Certs = {c1}
    NoUid = NoUid
    NoKey = NoKey
    NoCert = NoCert
    KeyOf <- MCKeyOf
    Form <- MCForm
    Lists <- MCLists
    MaxOpenConns = 0
    MaxCertLoadFailCount = 1
    StringDocs = {s1}
    NullDocs = {n1}
    TypedDocs = {t1}
    WithoutNull <- MCWithoutNull
    Slots = {x1}
    SignRequests <- AllRequests
INVARIANTS JsonIsEncoded
