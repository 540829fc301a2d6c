\* Events around and above the buffer limit, three threads of two JVMs.
CONSTANTS
    t1 = t1
    t2 = t2
    t3 = t3
    p1 = p1
    p2 = p2
    eFits = eFits
    eEdge = eEdge
    eLong = eLong
    eLong2 = eLong2
    NoEvent = NoEvent
    Processes = {p1, p2}
    Threads = {t1, t2, t3}
    Events = {eFits, eEdge, eLong, eLong2}
    ProcessOf <- MCProcessOf
    Size <- MixedSize
    BufferCells = 3
SPECIFICATION Spec
INVARIANTS
    NoSilentLoss
    CountedOnce
    SmallEventsIntact
SYMMETRY ThreadSymmetry
PROPERTIES
    StoredForGood
    StoreSpec
CHECK_DEADLOCK FALSE
