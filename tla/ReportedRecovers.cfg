SPECIFICATION StoreSpec
CONSTANTS
    alice = alice
    bob = bob
    Accounts = {alice, bob}
    Traders = {alice, bob}
    Contract = contract
    Elsewhere = elsewhere
    NoTerms = NoTerms
    Matches = {m1}
    HoldIds = {1, 2}
    Amounts = {1}
    Prices = {1, 2}
    Values = {1, 2}
    NewHolds <- MCNewHolds
    Offers <- MCOffers
    MaxAmount = 2
    MaxInt64 = 2
    Validity = 3
    MaxTime = 2
    StartingNova = 2
    StartingHbar = 2
    InitialNova <- MCNova
    InitialHbar <- MCHbar
    MatchTerms <- MCMatchTerms
    Lag = 1
    MaxOps = 2
    MaxTxs = 2
INVARIANT
    ReportedRecovers
CHECK_DEADLOCK FALSE
