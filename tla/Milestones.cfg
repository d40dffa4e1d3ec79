SPECIFICATION Spec
CONSTANTS
    a = a
    b = b
    noTab = noTab
    Tabs <- MCTabs
    NoTab <- MCNoTab
    ClosedTabs = {}
    WrongHashes <- MCWrong
    RestoresAlone = TRUE
    Reverting = {"t02", "t03", "t05"}
    Validity = 1
    MaxTime = 1
    Starts <- MCStarts
INVARIANTS
    TypeOK
    ResolvedIsTrue
    OneInFlight
    OncePerAction
    Recoverable
SYMMETRY Sym
CHECK_DEADLOCK FALSE
