SPECIFICATION Spec
CHECK_DEADLOCK FALSE
CONSTANTS
    Section = {"general", "email", "webhook", "snmp"}
    General = "general"
    Alerting = {"email", "webhook"}
    Secret = {"email"}
    Value = {1, 2}
    Mask = 0
    MaxSaves = 3
    Option = {"o1", "o2", "o3"}
    Name = {"Other", "Net A", "net_a", "Core"}
    Other = "Other"
    SLAKey <- SLAKeyOf
    FirstNames <- FirstNamesOf
    Tagged = {"t1"}
    Server = {1, 2}
    MaxRequests = 4
    MaxCopies = 2
    MaxSecond = 3
    Job = {1, 2}
    MaxJobs = 3
    Failing = TRUE
    Detail = {"d1", "d2"}
    MaxPages = 2
    None = "None"
    TokenName = {"n1", "n2"}
    Post = {1, 2}
    MaxTokens = 2
    NoToken = NoToken
    Host = {1, 2}
    Checks <- ChecksOf
    Preferred <- PreferredOf
    Category = {"A", "B"}
    CategoryOf <- CategoryOfHost
    PageSize = 1
    MaxBatches = 2
    Tag = {"x", "y"}
    Target = {1, 2}
    TagsOf <- TagsOfTarget
    Choice = {"A"}
    ChoiceOf <- ChoiceOfTarget
    Anything = "All"
    RowsOfPage = 1
    Tab = {1, 2}
    MaxSaved = 2
    Days = 3
    Slots = 3
    SlotTicks = 2
    Percent = {0, 96, 100}
    Threshold = {0, 95, 98}
    Grain = 2
INVARIANTS
    SavedStays CategoriesHold IndexMatchesFiles PanelsHold PlaintextSeen
    BarsComing FiltersHold FiguresAgree
