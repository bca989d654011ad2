SPECIFICATION FairSpec
CONSTANTS
    Alerts = {a1}
    Workers = {w1, w2}
    Replies = {r1}
    NoAlert = NoAlert
    MaxReminders = 2
    MaxFaults = 1
    MaxCrashes = 1
    LockOutlivesScan = TRUE
    KeysExpire = FALSE
INVARIANTS
    TypeOK
    LockProtectsScan
    RemindersBounded
    LedgerMatchesCounter
    AlertKeyBacksIndex
    AnsweredIsCancelled
PROPERTIES
    ExhaustedIsFinal
    RemindersSpaced
    MonitorsRetire
    SilenceIsReported
