\* Two messages, the first with an attachment, and two troubles of any kind.
SPECIFICATION FairSpec
CONSTANTS
    MaxMessages = 2
    Attached <- OneAttachment
    MaxRetries = 1
    MaxTroubles = 2
INVARIANT TypeOK
INVARIANT AcknowledgedIsRecorded
INVARIANT AttachmentsBacked
INVARIANT CacheBacked
INVARIANT LossesExplained
PROPERTY ArrivedSettles
CHECK_DEADLOCK FALSE
