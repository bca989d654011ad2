SPECIFICATION FairSpec
CONSTANTS
    Reported <- Problems
    MaxEvents = 2
    Workers = 2
    MaxRetries = 1
    RecentLimit = 2
    MaxFaults = 2
    StateExpires = FALSE
    MaxCrashes = 1
INVARIANT TypeOK
INVARIANT IgnoredWasHandled
INVARIANT EffectsBounded
PROPERTY EventsSettle
CHECK_DEADLOCK FALSE
