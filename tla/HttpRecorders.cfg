\* One exchange, on either stack, of every request, contract, answer and status.
SPECIFICATION Spec
CONSTANTS
    MaxCapture = 2
    Schemas = {"account", "problem"}
    Contracts <- MCContracts
    Requests <- MCRequests
    Bodies <- MCBodies
    SensitiveNames = {"x-api-key", "session"}
    Statuses = {200, 404, 409, 500}
INVARIANTS
    RecordersAgree
    VerdictsAreDeserved
    RequestVerdictsAreDeserved
    JudgedIsCovered
CHECK_DEADLOCK FALSE
