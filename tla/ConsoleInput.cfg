SPECIFICATION FairSpec
CONSTANTS
    Readers = {main, shell}
    ShellReaders = {shell}
    Screens = {s1, s2}
    Uses = {"flush", "check", "fork"}
    MaxPending = 2
    MaxScreens = 3
INVARIANTS NobodyOversleeps PrioritiesAreOwned
PROPERTIES ScreenGetsTheInput PeekedReaderReturns
