\* Two requests of any kind on two alerts of one sensor, one error.
SPECIFICATION FairSpec
CONSTANTS
    Request = {q1, q2}
    MaxAlerts = 2
    RecentLimit = 2
    MaxRetries = 1
    MaxFaults = 1
    NoRequest = NoRequest
    Given = Given
INVARIANT TypeOK
INVARIANT ClosedWithEvidence
INVARIANT HistoryConsistent
PROPERTY RecoveryTimeKept
PROPERTY DowntimeAgrees
PROPERTY ImplementsLifecycle
PROPERTY RequestsEnd
CHECK_DEADLOCK FALSE
