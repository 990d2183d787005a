CONSTANTS
    Values = {v1, v2}
    NoValue = NoValue
    Capacity = 3
    MaxPushes = 5
    MaxFailures = 1
SPECIFICATION FairSpec
INVARIANTS TypeOK NoDataRace HighWaterMarkHonest IndexesGiveDepth
PROPERTIES RefinesQueue AcceptedIsDelivered
CHECK_DEADLOCK FALSE
