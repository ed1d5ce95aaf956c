CONSTANTS
    s1 = s1
    s2 = s2
    Slots = {s1, s2}
    NoSlot = NoSlot
    Absent = Absent
    Deleted = Deleted
    MaxMoves = 1
    MaxWorkers = 4
SPECIFICATION FairSpec
INVARIANTS
    TypeOK
    SlotsHoldTheirGame
    SavedMeansSaved
    NoStrayWorkers
PROPERTIES
    DeletedStaysDeleted
    OpenGameKept
    NeverBusyForGood
CHECK_DEADLOCK FALSE
