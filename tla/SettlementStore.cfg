SPECIFICATION StoreSpec
CONSTANTS
    alice = alice
    bob = bob
    Accounts = {alice, bob}
    Traders = {alice, bob}
    Contract = contract
    Elsewhere = elsewhere
    NoTerms = NoTerms
    Matches = {m1, m2}
    HoldIds = {1, 2}
    Amounts = {1}
    Prices = {1, 2}
    Values = {1, 2}
    NewHolds <- MCNewHolds
    Offers <- MCOtherOffers
    MaxAmount = 2
    MaxInt64 = 2
    Validity = 3
    MaxTime = 4
    StartingNova = 1
    StartingHbar = 1
    InitialNova <- MCNova
    InitialHbar <- MCHbar
    MatchTerms <- MCMatchTerms
    Lag = 0
    MaxOps = 3
    MaxTxs = 3
SYMMETRY MatchSymmetry
INVARIANTS
    StoreTypeOK
    RecordedIsTrue
    ShownDealsAreExclusive
PROPERTIES
    OneWay
CHECK_DEADLOCK FALSE
