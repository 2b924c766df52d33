SPECIFICATION ArchivingSpec
CONSTANTS
    a1 = a1  a2 = a2
    r1 = r1
    Forever = Forever
    Archiving = {a1, a2}
    OfRun <- MCOfRun
    Runs <- MCRuns
    TTL <- MCTTL
    Script <- MCScript
    Retries <- MCRetries
    Tries = 2
    MaxDelay = 1
    max_parallel = 2
    Thread = {1, 2, 3}
    MaxFaults = 2
INVARIANTS
    OneWorkerEach
    StoredOnce
PROPERTIES
    EverySettles
CHECK_DEADLOCK FALSE
