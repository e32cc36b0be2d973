SPECIFICATION FairSpec
CONSTANTS
    c1 = c1
    c2 = c2
    c3 = c3
    p1 = p1
    p2 = p2
    s1 = s1
    s2 = s2
    Conns = {c1, c2, c3}
    Sites = {s1, s2}
    Procs = {p1, p2}
    Site <- MCSite
    Owner <- MCOwner
    None = none
INVARIANTS TypeOK CommandsAreSerial SharedThingsStay LastOneCleansUp
PROPERTIES GroupLockIsGranted
