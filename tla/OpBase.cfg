SPECIFICATION FairSpec
CONSTANTS
    CreationMayFail = FALSE
    Kinds = {"connect", "make", "remove", "xfer"}
    MaxItems = 2
INVARIANTS TypeOK PauseIsTheUsers
PROPERTIES AbortedOperationEnds EndedIsCollected
