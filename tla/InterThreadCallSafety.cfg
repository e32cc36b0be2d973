SPECIFICATION Spec
CONSTANTS
    Main = main
    Callers = {c1, c2, c3}
    AsyncCallers = {c3}
    Loops = {"dialog", "menu", "wait", "plugin"}
    Diversions = {"update", "saver", "nested", "skip", "callback"}
    WaitForTaken = TRUE
    MaxDepth = 3
    Screens = {s1}
    MaxPending = 2
    MaxScreens = 1
SYMMETRY Symmetric
INVARIANTS DelegatesInOnePlace OnlyDiversionsLoseKicks
PROPERTIES ImplementsRemoteCalls
