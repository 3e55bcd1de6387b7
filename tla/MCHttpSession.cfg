SPECIFICATION FairSpec
CONSTANTS
    Messages <- FramedMessages
    MaxMessages = 2
    OpenMayFail = FALSE
INVARIANTS AtMessageBoundary OneResponsePerRequest ResponseMeetsRequest ResponsesDelimited ExitIffClosing
PROPERTIES ImplementsService Responds
CHECK_DEADLOCK FALSE
