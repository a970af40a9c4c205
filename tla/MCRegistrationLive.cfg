SPECIFICATION FairRegSpec
CONSTANTS
    Uids = {u1}
    Keys = {k1, k2, k3}
    Requests = {h1, h2}
    NoUid = NoUid
    NoKey = NoKey
    MaxOpenConns = 1
    MaxDbConnAttempts = 2
PROPERTIES RequestsAnswered TransactionsEnd
