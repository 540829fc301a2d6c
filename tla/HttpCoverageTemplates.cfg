\* Logs of up to three events over three specifications, any part excluded.
SPECIFICATION Spec
CONSTANTS
    Parameters <- MCParameters
    CanonicalParameter = "{param}"
    CaseFold <- MCCaseFold
    Undecodable = {"%ff"}
    Documents <- MCDocuments
    Undefined = Undefined
    Malformed = Malformed
    Events <- MCEvents
    MaxEvents = 3
    PayloadCode <- MCPayloadCode
    ParameterTruths <- MCParameterTruths
    SecurityTruth <- MCSecurityTruth
    Policies <- MCPolicies
INVARIANTS
    DeclaredRouteIsCredited
CHECK_DEADLOCK FALSE
