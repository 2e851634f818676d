SPECIFICATION EvalSpec
CONSTANTS
    MinInterval = 1
    LongestInterval = 3
    MaxFailCount = 3
    MaxWindow = 7
    MaxDuration = 1
INVARIANTS
    ThresholdReached
