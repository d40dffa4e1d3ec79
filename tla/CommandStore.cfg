SPECIFICATION FairSpec
CONSTANTS
    MaxInt64 = 2
    MaxQuantity = 2
    Owners = {"seller", "buyer", "stranger"}
    Eligible = {"seller", "buyer"}
    Places <- MCPlaces
    OwnerSignatures = {"signed"}
    OtherSignatures = {"forged"}
    CommandTTL = 1
    OrderTTL = 2
    Skew = 1
    MaxClock = 2
    MaxRequests = 3
INVARIANTS
    TablesAgree
    OrdersAuthorised
    RejectedOnlyWhenFull
PROPERTIES
    ImplementsBook
    DecisionIsFinal
    EveryCommandDecided
CHECK_DEADLOCK FALSE
