SPECIFICATION FairSpec
CONSTANTS
    Panels = panels
    Frames = {panels, f1, f2, f3}
    None = none
    HandlerOps = 1
    Nesting = 2
    PluginUse = {}
INVARIANTS TypeOK NoDangling RequestsHonoured KeysGoToWhatIsShown ModalFrameIsCurrent SomeFrameIsNext
PROPERTIES ModalReturnsToCaller ClosedFrameLeaves
