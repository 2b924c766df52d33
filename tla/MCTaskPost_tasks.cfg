SPECIFICATION TaskSpec
CONSTANTS
    t1 = t1  t2 = t2
    a = a  b = b  c = c
    x = x  y = y  z = z
    NotGiven = NotGiven
    NoTool = NoTool
    Task = {t1, t2}
    Node = {a, b, c}
    Tool = {x, y, z}
    Party <- MCParty
    Wanted <- MCWanted
    Offers <- MCOffers
    Repeating = {t1}
    Dated = {t2}
    Dates <- MCDates
    Strict = {c}
    KeepTasks = 2
    TryInterval = 1
    TryFor = 2
    MaxFaults = 2
INVARIANTS
    AccountedFor
PROPERTIES
    
    DisabledEverywhere
CHECK_DEADLOCK FALSE
