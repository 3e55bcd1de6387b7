SPECIFICATION FairSpec
CONSTANTS
    MaxCommands = 2
    MaxSerial = 1
    Backlog = 1
    ResourcesMayRunOut = TRUE
    SigPipeKills = TRUE
INVARIANTS TypeOK StillRunningIsTrue WatchedWhileEnabled DisabledGoesDown
PROPERTIES ImplementsChannel CommandServed WatchdogRestarts
CHECK_DEADLOCK FALSE
