SPECIFICATION Spec
CONSTANTS
    Tabs = {left}
    Visible = {left}
    NoTab = NoTab
    MaxRequests = 2
INVARIANT
    IntentKept
CHECK_DEADLOCK FALSE
