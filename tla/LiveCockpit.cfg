SPECIFICATION LiveSpec
CONSTANTS
    c1 = c1
    c2 = c2
    Clients = {c1, c2}
    All = All
    Nothing = Nothing
    MaxTicks = 3
    CooldownTicks = 1
    MaxRecs = 2
    OutboxLimit = 2
    MaxPings = 1
SYMMETRY Subscribers
INVARIANTS LiveTypeOK ViewCurrent
CHECK_DEADLOCK FALSE
