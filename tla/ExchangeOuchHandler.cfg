CONSTANTS
    Accounts = {remote, local}
    Remote = {remote}
    NoResponse = NoResponse
    PoolCapacity = 3
    MaxPriceLevels = 4
    BitsPerBitmapWord = 2
    QuantityBits = 2
    Prices = {2, 3}
    Quantities = {0, 1, 2}
    MaxOrders = 4
SPECIFICATION ExchangeSpec
INVARIANTS QuantityConserved LevelTotalsExact NoLeak ExecutionsAddressed PositionsMatchFills
PROPERTIES FollowsPriceTimePriority EveryTurnProgresses
CHECK_DEADLOCK FALSE
