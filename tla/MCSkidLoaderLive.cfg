SPECIFICATION FairSkidSpec
CONSTANTS
    u1 = u1  u2 = u2
    k1 = k1  k2 = k2
    c1 = c1  c2 = c2  c3 = c3  c4 = c4  c5 = c5  c6 = c6
    Uids = {u1, u2}
    Keys = {k1, k2}
    Certs = {c1, c2, c3, c4, c5, c6}
    NoUid = NoUid
    NoKey = NoKey
    NoCert = NoCert
    KeyOf <- MCKeyOf
    Form <- MCForm
    Lists <- MCFewLists
    MaxOpenConns = 1
    MaxCertLoadFailCount = 2
PROPERTIES NewestCertPickedUp
