SPECIFICATION FairSpec
CONSTANTS
    Messages <- OtherMessages
    MaxMessages = 2
    OpenMayFail = TRUE
INVARIANTS TypeOK ExitIffClosing
PROPERTY Drained
CHECK_DEADLOCK FALSE
