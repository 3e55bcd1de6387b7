SPECIFICATION FairSpec
CONSTANTS
    MaxCommands = 3
    MaxSerial = 0
    Backlog = 0
    ResourcesMayRunOut = TRUE
    SigPipeKills = FALSE
INVARIANT DisabledGoesDown
PROPERTY StopTakesEffect
CHECK_DEADLOCK FALSE
