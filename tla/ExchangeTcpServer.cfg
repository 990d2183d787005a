CONSTANTS
    Clients = {c1, c2}
    OneOrder = {c2}
    Nobody = Nobody
    Listener = Listener
    FrameSize = 2
    ResponseSize = 2
    SocketRoom = 1
    Flights = 1
    MaxOrders = 2
SPECIFICATION Spec
INVARIANTS FramesAligned ResponsesInOrder AnswersAccounted PendingIsWatched
PROPERTIES OrdersAreAnswered
CHECK_DEADLOCK FALSE
