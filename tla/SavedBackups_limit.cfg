SPECIFICATION BackupsSpec
CHECK_DEADLOCK FALSE
CONSTANTS
    MaxCopies = 1
    MaxSecond = 2
    Job = {1, 2}
    MaxJobs = 2
    Failing = FALSE
INVARIANT CopiesLimited
