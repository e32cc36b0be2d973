SPECIFICATION Spec
CONSTANTS
    Panels = panels
    Frames = {panels, f1, f2, f3}
    None = none
    HandlerOps = 2
    Nesting = 1
    PluginUse = {}
SYMMETRY Symmetric
INVARIANTS NoDangling
