\* Two operations, any number of runs.
CONSTANTS
    get = get
    post = post
    Unset = Unset
    Null = Null
    Operations <- MCOperations
    Inputs <- MCInputs
SPECIFICATION FairSpec
INVARIANTS
    FailClosed
    GreenRunHasItsReport
    RejectedRunKeepsBaseline
PROPERTIES
    BaselineRatchet
    EveryRunEnds
