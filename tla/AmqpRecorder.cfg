\* One request thread and one listener thread, three messages, nested sends.
CONSTANTS
    runA = runA
    runB = runB
    suiteA = suiteA
    suiteB = suiteB
    suiteX = suiteX
    Null = Null
    Unreadable = Unreadable
    NoMessage = NoMessage
    NoSend = NoSend
    Runs <- MCRuns
    Suites <- MCSuites
    Callers <- TwoTests
    ApplicationHeaders <- MCHeaders
    RequestThreads = {q1}
    ListenerThreads = {l1}
    Messages = {m1, m2, m3}
    MaxAttempts = 2
    MaxDeliveries = 2
    MaxNesting = 2
SPECIFICATION Spec
INVARIANTS
    NoForeignAttribution
    AttributionKept
    RecordedOnce
    CleanBetweenDeliveries
SYMMETRY MessageSymmetry
