SPECIFICATION FairSpec
CHECK_DEADLOCK FALSE
CONSTANTS
    c1 = c1
    c2 = c2
    h1 = h1
    h2 = h2
    fast = fast
    slow = slow
    None = None
    Once = Once
    Ticker = Ticker
    Check = {c1}
    Interval = {fast}
    Handler = {h1}
    SemCap = 1
    EventCap = 1
    MaxRuns = 3
    MaxRequests = 2
    MaxStops = 1
PROPERTIES
    ActiveCheckKeepsRunning
    AcceptedEventRuns
    StopDrains
