SPECIFICATION Spec
CONSTANTS
    c1 = c1
    c2 = c2
    h1 = h1
    h2 = h2
    fast = fast
    slow = slow
    None = None
    Once = Once
    Ticker = Ticker
    Check = {c1}
    Interval = {fast, slow}
    Handler = {h1}
    SemCap = 2
    EventCap = 1
    MaxRuns = 3
    MaxRequests = 1
    MaxStops = 0
INVARIANTS
    OneTimerPerCheck
