SPECIFICATION Spec
CONSTANTS
    Reported <- Status
    MaxEvents = 3
    Workers = 2
    MaxRetries = 1
    RecentLimit = 2
    MaxFaults = 0
    StateExpires = TRUE
    MaxCrashes = 1
INVARIANT RecoveryClosesAll
PROPERTY OutagesDroppedForCause
CHECK_DEADLOCK FALSE
