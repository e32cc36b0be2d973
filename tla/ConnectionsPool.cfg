SPECIFICATION FairSpec
CONSTANTS
    CreationMayFail = TRUE
    Ids = {i1, i2}
    Hosts = {h1, h2, h3}
    Expirations = {0, 1, 3}
INVARIANTS TypeOK OneOwner SleepFitsEntries
PROPERTIES WatchedEntriesExpire DestructorReturns
