CONSTANTS
    Values = {1, 2, 3, 4}
    Malformed = Malformed
    Capacity = 3
    Controllers = {main}
    Producer = main
    MaxSubmits = 4
    MaxStarts = 1
    FeedLength = 4
    Mbufs = {m1, m2}
    RxRingSize = 2
    BurstSize = 2
    MaxFrames = 4
SPECIFICATION Spec
INVARIANTS ReportedIsConsumed ConsumerSeesFeed MbufsAccounted
PROPERTIES RuntimeSettles FramesReachConsumer
