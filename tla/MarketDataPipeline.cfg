CONSTANTS
    Values = {e1, e2}
    Capacity = 3
    Controllers = {main}
    Producer = main
    MaxSubmits = 4
    MaxStarts = 2
SPECIFICATION PipelineSpec
INVARIANTS StopDrains ProcessedCountExact 
PROPERTIES StopReturns RunningConsumes
