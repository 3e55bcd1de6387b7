SPECIFICATION FairSpec
CONSTANTS
    Children = {c1, c2}
    Requests <- SomeRequests
    MaxRequests = 3
    Backlog = 0
INVARIANTS TypeOK CommandsAuthorised HandedOver PendingIsWritten ResponsesInOrder
PROPERTIES Answered
CHECK_DEADLOCK FALSE
