\* Scans may outlive the TTL of their lock.
SPECIFICATION Spec
CONSTANTS
    Alerts = {a1}
    Workers = {w1, w2}
    Replies = {r1}
    NoAlert = NoAlert
    MaxReminders = 1
    MaxFaults = 0
    MaxCrashes = 0
    LockOutlivesScan = FALSE
    KeysExpire = FALSE
INVARIANT
    ScansExclusive
