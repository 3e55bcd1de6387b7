SPECIFICATION Spec
CONSTANTS
    Checkers = {c1, c2}
    Tuns <- SomeTuns
    MaxFds = 4
    MaxFlying = 2
    MaxForeign = 2
INVARIANTS TypeOK LeakIsForeign
PROPERTIES DeadServerNoticed
