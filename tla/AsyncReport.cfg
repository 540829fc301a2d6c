\* Two channels, two header keys, any number of runs.
CONSTANTS
    orders = orders
    refunds = refunds
    type = type
    corr = corr
    x = x
    y = y
    good = good
    bad = bad
    None = None
    Unset = Unset
    Null = Null
    Channels = {orders, refunds}
    Headers = {type, corr}
    Values = {x, y}
    AnonymousIds = {"anonymous"}
    HeaderRank <- MCHeaderRank
    SchemaIds <- MCSchemaIds
    Operations <- MCOperations
    Inputs <- MCInputs
SPECIFICATION FairSpec
INVARIANTS
    FailClosed
    OkReportIsDeserved
    ArtifactsMatchFailures
    TempDirectoryIsAccountedFor
PROPERTIES
    RunsEndUnlessDripped
