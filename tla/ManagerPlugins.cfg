SPECIFICATION FairSpec
CONSTANTS
    Panels = panels
    Frames = {panels, f1, f2}
    None = none
    HandlerOps = 1
    Nesting = 2
    PluginUse = {"close event", "quit other"}
INVARIANTS NoFrameTwice
PROPERTIES CommitReturns
