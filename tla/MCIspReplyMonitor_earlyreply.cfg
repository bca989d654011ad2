\* A reply may be processed before the monitor is registered.
SPECIFICATION Spec
CONSTANTS
    Alerts = {a1}
    Workers = {w1}
    Replies = {r1}
    NoAlert = NoAlert
    MaxReminders = 1
    MaxFaults = 0
    MaxCrashes = 0
    LockOutlivesScan = TRUE
    KeysExpire = FALSE
INVARIANT
    HandledReplyCancels
