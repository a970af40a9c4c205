SPECIFICATION LifeSpec
CONSTANTS
    h1 = h1
    Configs <- MCConfigs
    Hosts = {h1}
    NilUid = NilUid
    NoToken = NoToken
    Slots = {x1, x2}
    MaxCsrJobs = 2
INVARIANTS AsynchronousOperationsAwaited
