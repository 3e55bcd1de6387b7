SPECIFICATION FairSpec
CONSTANTS
    Messages <- PlainMessages
    MaxMessages = 2
    OpenMayFail = FALSE
PROPERTY ChildEndsWithClient
CHECK_DEADLOCK FALSE
