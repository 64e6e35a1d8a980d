SPECIFICATION FairSpec
CONSTANTS
    MaxBlock = 3
    MaxMessages = 3
    BufferCap = 1
INVARIANTS
    TypeOK
    NoGap
    Consecutive
    NotificationsConserved
    DrainedWhenDone
PROPERTIES
    DisconnectEndsPipeline
    HeadsAreWorkedOff
CHECK_DEADLOCK FALSE
