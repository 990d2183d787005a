CONSTANTS
    Trader = trader
    Clients = {trader}
    Nobody = Nobody
    Listener = Listener
    FrameSize = 2
    ResponseSize = 2
    SocketRoom = 3
    SendRoom = 3
    Flights = 1
    MaxOrders = 3
    OneOrder = {}
    Prices = {0, 2, 7}
    Quantities = {1, 2}
    MaxOrderQuantity = 2
    MaxOrderValue = 10
    ValueBits = 6
    MaxPosition = 2
SPECIFICATION EntrySpec
INVARIANTS PositionCoversExchange ExposureWithinLimit
PROPERTIES SubmitReturns ResponseArrives
CHECK_DEADLOCK FALSE
