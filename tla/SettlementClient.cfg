SPECIFICATION Spec
CONSTANTS
    Panels = {left, right}
    NoPanel = NoPanel
    WrongHashes = {99}
    MaxOps = 2
    MaxSends = 2
SYMMETRY PanelSymmetry
INVARIANTS
    OnceUnlessOverwritten
    KeptUnlessOverwritten
PROPERTY
    FirstHashKept
CHECK_DEADLOCK FALSE
