SPECIFICATION PoolFairSpec
CONSTANTS
    Caller = {c1, c2, c3, c4}
    Process = {1, 2, 3}
    max_size = 2
    retries = 2
    MaxDrains = 1
    MaxMishaps = 2
    Stray = Stray
    NoProcess = NoProcess
    Nothing = Nothing
INVARIANTS
    PoolSound
    OwnAnswer
PROPERTIES
    Served
CHECK_DEADLOCK FALSE
