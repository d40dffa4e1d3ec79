SPECIFICATION BuildSpec
CONSTANTS
    a = a
    b = b
    x = x
    y = y
    z = z
    Tabs <- MCTabs
    NoTab = noTab
    Accounts <- MCAccounts
    NoAccount = none
    Elsewhere = elsewhere
    Working <- MCWorking
    IdOf <- MCIdOf
    SavedBefore <- MCSavedBefore
    MaxSession <- MCMaxSession
    MaxNews = 1
INVARIANTS
    SessionIsTrue
    RolesAgree
    LoadedIsPatched
PROPERTIES
    AllOrNothing
CHECK_DEADLOCK FALSE
VIEW View
