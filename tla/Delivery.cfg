SPECIFICATION Spec
CONSTANTS
    e1 = e1
    e2 = e2
    e3 = e3
    FileEvents <- MCFileEvents
    p1 = p1
    p2 = p2
    p3 = p3
    Absent = Absent
    Torn = Torn
    NoEvent = NoEvent
    Events <- MCEvents
    KeyOf <- MCKeyOf
    TypeOf <- MCTypeOf
    Processes = {p1, p2, p3}
    MaxRetries = 2
    MaxCrashes = 2
INVARIANTS TypeOK NothingLost
PROPERTIES Delivers
CHECK_DEADLOCK FALSE
SYMMETRY MCSymmetry
