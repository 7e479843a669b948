SPECIFICATION ViewsSpec
CONSTANTS
    MaxClicks = 2
    MaxViews = 2
    MaxPasses = 2
    a1 = a1
    a2 = a2
    HistoryAgents = {a1, a2}
    Matched <- MCMatched
    Limit = 1
    MaxHappened = 2
    MaxQueries = 2
    MaxOpened = 2
    HistoryObjects = {o1}
    HistoryActors = {a1, a2}
    RowLimit = 1
    MaxRecorded = 2
    MaxRequests = 2
    MaxMounts = 2
INVARIANTS
    AskedOncePerPass
    ConsoleIsHonest
PROPERTIES
    EveryRunEnds
CHECK_DEADLOCK FALSE
