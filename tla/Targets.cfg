SPECIFICATION Spec
CHECK_DEADLOCK FALSE
CONSTANTS
    a = a
    b = b
    d = d
    c1 = c1
    c2 = c2
    c3 = c3
    c4 = c4
    k1 = k1
    k2 = k2
    r1 = r1
    r2 = r2
    Nobody = Nobody
    Nothing = Nothing
    Target = {a, b}
    FirstTargets = {a}
    Handler = {1, 2}
    MaxFailures = 1
    Host = {a, b, d}
    Check = {c1, c2, c3, c4}
    FirstChecks <- FirstChecksOf
    Saving = {1}
    MaxOpened = 2
    Row = {r1, r2}
    Chain = {k1, k2}
    MaxChanges = 2
    ChecksEach = 1
    Type = {"ping", "http"}
    FirstType = "ping"
    Intervals = {1, 3}
    Counts = {0, 1, 2, 3}
    Windows = {2, 5}
    FirstInterval = 1
    MaxInterval = 2
    MaxCount = 2
    LongestWindow = 5
    MaxConditions = 2
    MaxGroup = 1
    MinInterval = 1
    LongestInterval = 3
    MaxFailCount = 3
    MaxWindow = 7
    MaxDuration = 1
    Query = {"", "x"}
    NoQuery = ""
    MaxSize = 2
SYMMETRY Symmetry
INVARIANTS
    PauseRecorded RuleInPlace ChecksStay RecipientsStay ScreenIsCurrent GroupsAgree StoredAsShown
    EvalTypeOK NoBlipAlert RoomyFailureTriggers ListIsOfPage
