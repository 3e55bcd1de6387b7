SPECIFICATION Spec
CONSTANTS
    Uploads = {u1, u2}
    chA = chA
    chB = chB
    chC = chC
    Chars <- SomeChars
    Names <- SomeNames
    Present <- Two
    MaxBlocks = 1
    Threads = {command, checker}
    MinFiles = 3
    MaxBatches = 2
INVARIANT MovedToItsName
CHECK_DEADLOCK FALSE
