\* Two events longer than the buffer and no failure: the documented format.
CONSTANTS
    t1 = t1
    t2 = t2
    t3 = t3
    p1 = p1
    p2 = p2
    eFits = eFits
    eEdge = eEdge
    eLong = eLong
    eLong2 = eLong2
    NoEvent = NoEvent
    Processes = {p1, p2}
    Threads = {t1, t2, t3}
    Events = {eLong, eLong2}
    ProcessOf <- MCProcessOf
    Size <- MixedSize
    BufferCells = 3
SPECIFICATION Spec
INVARIANT OneObjectPerLine
CHECK_DEADLOCK FALSE
