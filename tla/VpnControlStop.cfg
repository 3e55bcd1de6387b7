SPECIFICATION Spec
CONSTANTS
    MaxCommands = 3
    MaxSerial = 0
    Backlog = 1
    ResourcesMayRunOut = FALSE
    SigPipeKills = FALSE
INVARIANT NoNeedToStop
CHECK_DEADLOCK FALSE
