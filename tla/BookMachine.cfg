SPECIFICATION Spec
CONSTANTS
    MaxInt64 = 4
    MaxQuantity = 2
    Owners = {seller, buyer}
    Prices = {1, 3}
    Quantities = {1, 2}
    Lifetimes = {2, 3}
    MaxTime = 2
    MaxRequests = 4
    Commands <- MCCommands
    Times <- MCTimes
CONSTRAINT NextId
SYMMETRY OwnerSymmetry
INVARIANTS
    QuantityAccounted
    NeverCrossed
    SequenceCountsReceipts
    MatchesWithinTerms
PROPERTIES
    PriceTimePriority
    HistoryKept
CHECK_DEADLOCK FALSE
