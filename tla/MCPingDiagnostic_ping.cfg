\* Three batches of four pings, two of them at a time, three errors.
SPECIFICATION FairSpec
CONSTANTS
    BatchCount = 3
    PingsPerBatch = 4
    MaxPings = 2
    MaxFaults = 3
INVARIANT TypeOK
INVARIANT EscalatedUnanswered
INVARIANT ProcessesBounded
INVARIANT EndedIsQuiet
INVARIANT RecordTruthful
INVARIANT OutageLogged
PROPERTY TaskEnds
CHECK_DEADLOCK FALSE
