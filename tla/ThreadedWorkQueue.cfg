SPECIFICATION FairSpec
CONSTANTS
    Items = {i1, i2, i3, i4}
    Threads = {t1, t2}
    Producer = producer
    Limits = {0}
    None = none
INVARIANTS DestroyedInQueueOrder NothingLeaked BacklogIsAttended ProducerWillBeNotified WakeInv
PROPERTIES FinalizeDrains ImplementsOrderedWorkQueue CallsReturn
