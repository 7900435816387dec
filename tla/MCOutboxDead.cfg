SPECIFICATION Spec
CONSTANTS
    Events = {e1}
    Workers = {w1}
    MaxAttempts = 3
    MaxCrashes = 1
    MaxSlips = 0
    None = None
INVARIANT DeadMeansMaxFailures
CHECK_DEADLOCK FALSE
