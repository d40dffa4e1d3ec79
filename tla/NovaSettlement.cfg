SPECIFICATION CallSpec
CONSTANTS
    Accounts = {alice, bob}
    Traders = {alice, bob}
    Contract = contract
    Elsewhere = elsewhere
    NoTerms = NoTerms
    Matches = {m1, m2}
    HoldIds = {1}
    Amounts = {1, 2}
    Prices = {1, 2}
    Values = {1, 2}
    NewHolds <- MCHolds
    Offers <- MCOffers
    MaxAmount = 2
    MaxInt64 = 2
    Validity = 2
    MaxTime = 3
    StartNova = 2
    StartHbar = 2
    InitialNova <- MCNova
    InitialHbar <- MCHbar
SYMMETRY AccountSymmetry
INVARIANTS
    BalancesExplained
PROPERTIES
    ImplementsEscrow
CHECK_DEADLOCK FALSE
