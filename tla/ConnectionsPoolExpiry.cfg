SPECIFICATION FairSpec
CONSTANTS
    CreationMayFail = FALSE
    Ids = {i1}
    Hosts = {h1, h2}
    Expirations = {2}
PROPERTY PooledEntriesExpire
