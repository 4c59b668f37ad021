SPECIFICATION Spec
CONSTANTS
    Programs <- MCPrograms
    Cap = 1
    SinkMax = 2
    MaxSamples = 4
INVARIANTS TypeOK StartedOnceReady QueueBounded WaitsForElf
PROPERTIES Ends PlayerSpec
CHECK_DEADLOCK FALSE
