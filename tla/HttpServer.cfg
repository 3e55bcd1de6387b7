SPECIFICATION FairSpec
CONSTANTS
    Conns = {c1, c2, c3, c4}
    MaxFds = 3
    MaxChildren = 2
    Backlog = 1
INVARIANTS TypeOK OwnConnectionOnly AcceptedIsServed
PROPERTY QueueMoves
CHECK_DEADLOCK FALSE
