SPECIFICATION Spec
CONSTANTS
    Accounts = {alice, bob}
    Traders = {alice, bob}
    Contract = contract
    Elsewhere = elsewhere
    NoTerms = NoTerms
    Matches = {m1, m2}
    HoldIds = {1, 2}
    Amounts = {1}
    Prices = {1}
    Values = {1}
    NewHolds <- MCHolds
    Offers <- MCOffers
    MaxAmount = 2
    MaxInt64 = 2
    Validity = 2
    MaxTime = 3
    Starting = 2
    InitialNova <- MCNova
    InitialHbar <- MCHbar
SYMMETRY AccountSymmetry
INVARIANTS
    TypeOK
    ReadyIsBacked
    OneDealPerHold
    SpentHoldsAreEmpty
    EveryHoldHasAWayOut
PROPERTIES
    FinalIsFinal
CHECK_DEADLOCK FALSE
