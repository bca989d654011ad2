\* The open list against its description.
SPECIFICATION Spec
CONSTANTS
    Request = {q1, q2}
    MaxAlerts = 1
    RecentLimit = 2
    MaxRetries = 1
    MaxFaults = 0
    NoRequest = NoRequest
    Given = Given
INVARIANT
    OpenListComplete
CHECK_DEADLOCK FALSE
