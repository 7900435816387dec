SPECIFICATION FairSpec
CONSTANTS
    Events = {e1}
    Workers = {w1, w2}
    MaxAttempts = 3
    MaxCrashes = 2
    MaxSlips = 2
    None = None
INVARIANTS
    RecordedByClaimant
    DeliveryIsExclusive
PROPERTIES
    KeepsPromise
    EventuallySettled
CHECK_DEADLOCK FALSE
