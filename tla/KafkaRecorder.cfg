\* One request thread and one listener thread, two records, at one of which a
\* listener of the application may throw.
CONSTANTS
    runA = runA
    runB = runB
    suiteA = suiteA
    suiteX = suiteX
    Null = Null
    Unreadable = Unreadable
    NoRecord = NoRecord
    Runs <- MCRuns
    Suites <- MCSuites
    Callers <- TwoTests
    ApplicationHeaders <- MCHeaders
    RequestThreads = {q1}
    ListenerThreads = {l1}
    Records = {r1, r2}
    ThrowsOn = {r2}
    MaxSends = 2
    MaxDeliveries = 2
SPECIFICATION Spec
INVARIANTS
    EventsCarryTheirOrigin
    RecordedOnce
    CleanBetweenRecords
PROPERTIES
    SendsEventuallyRecorded
