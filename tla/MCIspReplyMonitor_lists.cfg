\* Two alerts in one list, keys that expire.
SPECIFICATION Spec
CONSTANTS
    Alerts = {a1, a2}
    Workers = {w1, w2}
    Replies = {r1}
    NoAlert = NoAlert
    MaxReminders = 1
    MaxFaults = 0
    MaxCrashes = 0
    LockOutlivesScan = TRUE
    KeysExpire = TRUE
SYMMETRY Symmetry
INVARIANTS
    ListIsCurrent
PROPERTIES
    ImplementsContract
