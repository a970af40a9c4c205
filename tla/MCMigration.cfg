SPECIFICATION MigSpec
CONSTANTS
    u1 = u1  u2 = u2  h1 = h1
    Uids = {u1, u2}
    Entries <- MCEntries
    OldStores <- MCOldStores
    Configs <- MCConfigs
    Hosts = {h1}
    NilUid = NilUid
    NoToken = NoToken
INVARIANTS MigTypeOK DoneMeansMigrated MigratedWithStoredKeys OneFaultStillLoads OneFaultKeepsKeys
PROPERTIES AllOrNothing MigrationEnds
