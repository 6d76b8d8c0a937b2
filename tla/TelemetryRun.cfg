SPECIFICATION Spec
CONSTANTS
    Ticks = 3
    Attempts = 2
    CooldownTicks = 2
    MaxRecs = 2
INVARIANTS TypeOK OrderKept AccountTrue
PROPERTIES CooldownKept
CHECK_DEADLOCK FALSE
