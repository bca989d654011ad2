\* One alert, scans that outlive their lock.
SPECIFICATION Spec
CONSTANTS
    Alerts = {a1}
    Workers = {w1, w2}
    Replies = {r1}
    NoAlert = NoAlert
    MaxReminders = 2
    MaxFaults = 0
    MaxCrashes = 0
    LockOutlivesScan = FALSE
    KeysExpire = FALSE
SYMMETRY Symmetry
INVARIANTS
    ReplySilences
PROPERTIES
    IndexedOnce
