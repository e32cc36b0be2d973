SPECIFICATION FairSpec
CONSTANTS
    Main = main
    Callers = {c1, c2}
    AsyncCallers = {c2}
    Loops = {"dialog", "menu", "wait", "plugin"}
    Diversions = {"update", "saver", "nested", "skip", "callback"}
    WaitForTaken = FALSE
    MaxDepth = 2
    Screens = {s1}
    MaxPending = 1
    MaxScreens = 1
PROPERTIES CallsReturn
