\* One request thread and one listener thread, three messages, nested sends.
CONSTANTS
    runA = runA
    runB = runB
    suiteA = suiteA
    suiteX = suiteX
    Null = Null
    Unreadable = Unreadable
    NoMessage = NoMessage
    NoSend = NoSend
    Runs <- MCRuns
    Suites <- MCSuites
    Callers <- TwoTests
    ApplicationHeaders <- MCHeaders
    Calls <- NamedCalls
    RequestThreads = {q1}
    ListenerThreads = {l1}
    Messages = {m1, m2, m3}
    MaxDeliveries = 2
    MaxNesting = 2
SPECIFICATION Spec
INVARIANTS
    EventsCarryTheirOrigin
    EventsNameTheirDestination
    RecordedOnce
    CleanBetweenDeliveries
SYMMETRY MessageSymmetry
