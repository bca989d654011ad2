SPECIFICATION Spec
CONSTANTS
    Reported <- Outages
    MaxEvents = 3
    Workers = 2
    MaxRetries = 1
    RecentLimit = 2
    MaxFaults = 0
    StateExpires = FALSE
    MaxCrashes = 0
PROPERTY OutagesRaised
CHECK_DEADLOCK FALSE
