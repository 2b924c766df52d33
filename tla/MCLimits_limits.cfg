SPECIFICATION LimitFileSpec
CONSTANTS
    here = here  there = there  dotless = dotless
    NoLimit = NoLimit
    NoTimes = NoTimes
    NoClassifier = NoClassifier
    None = None
    Inert = Inert
    Unit <- MCUnit
    Field <- MCField
    WrapTo <- MCWrapTo
    WrapAfter <- MCWrapAfter
    Files <- MCFiles
    Tasks <- MCTasks
    Hints <- MCHints
    Spans <- MCSpans
    Thread = {h1, h2}
    Content = {"strict", "broken"}
    FileOf <- MCFileOf
    Served <- MCServed
    Interval = 1
    Update = 1
    Retry = 1
    FailState = FALSE
    Down = Down
    MaxChanges = 1
    MaxOutages = 1
INVARIANTS
    ListSound
    VerdictsSound
PROPERTIES
    EndsUpCurrent
