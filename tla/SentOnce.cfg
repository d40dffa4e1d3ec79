SPECIFICATION Spec
CONSTANTS
    Panels = {left, right}
    NoPanel = NoPanel
    WrongHashes = {}
    MaxOps = 2
    MaxSends = 2
SYMMETRY PanelSymmetry
INVARIANT
    SentOnce
CHECK_DEADLOCK FALSE
