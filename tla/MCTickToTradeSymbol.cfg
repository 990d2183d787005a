CONSTANTS
    Base = 10
    Nothing = Nothing
    Messages <- MCMessages
    Headers <- MCHeaders
    FeedLength = 3
    Prices = {97531246}
    Quantities = {8765}
    Fills = {8, 8765}
SPECIFICATION Spec
INVARIANTS OrdersNameInstrument
CHECK_DEADLOCK FALSE
