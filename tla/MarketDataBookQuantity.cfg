CONSTANTS
    PoolCapacity = 3
    MaxPriceLevels = 3
    BitsPerBitmapWord = 2
    QuantityBits = 2
    MaxId = 4
    Prices = {2}
    Quantities = {1, 2}
SPECIFICATION Spec
INVARIANTS BestQuantityIsResting
