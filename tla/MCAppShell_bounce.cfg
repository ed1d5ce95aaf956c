CONSTANTS
    s1 = s1
    s2 = s2
    Slots = {s1, s2}
    NoSlot = NoSlot
    Absent = Absent
    Deleted = Deleted
    MaxMoves = 1
    MaxWorkers = 3
SPECIFICATION Spec
PROPERTY BounceNotMidWrite
CHECK_DEADLOCK FALSE
