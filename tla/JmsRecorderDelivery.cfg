\* A text sent to the default destination, with a post-processor.
CONSTANTS
    runA = runA
    runB = runB
    suiteA = suiteA
    suiteX = suiteX
    Null = Null
    Unreadable = Unreadable
    NoMessage = NoMessage
    NoSend = NoSend
    Runs <- MCRuns
    Suites <- MCSuites
    Callers <- OneCaller
    ApplicationHeaders <- NoHeadersSet
    Calls <- DefaultTextPostProcessed
    RequestThreads = {q1}
    ListenerThreads = {l1}
    Messages = {m1}
    MaxDeliveries = 2
    MaxNesting = 2
SPECIFICATION Spec
INVARIANT DeliveryNotBroken
