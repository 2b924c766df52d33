SPECIFICATION BatchSpec
CONSTANTS
    Jobs <- MCJobs
    Setup = 1
    Tries = 2
    Duration = 1
    Slack = 1
    Failures = 1
    None = None
INVARIANTS
    BatchInOrder
PROPERTIES
    EveryBatchEnds
CHECK_DEADLOCK FALSE
