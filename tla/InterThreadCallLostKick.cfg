SPECIFICATION Spec
CONSTANTS
    Main = main
    Callers = {c1}
    AsyncCallers = {}
    Loops = {"dialog"}
    Diversions = {"update", "saver", "nested"}
    WaitForTaken = FALSE
    MaxDepth = 1
    Screens = {}
    MaxPending = 2
    MaxScreens = 0
INVARIANTS KickIsPending
