SPECIFICATION FairSpec
CONSTANTS
    Tabs = {left, right}
    Visible = {left}
    NoTab = NoTab
    MaxRequests = 2
INVARIANTS
    TypeOK
    KeptUnlessOverwritten
    OutcomeIsTheServers
PROPERTY
    IntentResolves
CHECK_DEADLOCK FALSE
