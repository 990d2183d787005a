CONSTANTS
    PoolCapacity = 3
    MaxPriceLevels = 3
    BitsPerBitmapWord = 2
    QuantityBits = 2
    MaxId = 4
    Prices = {1, 2}
    Quantities = {0, 1, 2}
SPECIFICATION Spec
VIEW LiveView
INVARIANTS ListsIntact NoLeak BitmapMatchesLevels
 
