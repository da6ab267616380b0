CONSTANTS
    Paths = {"/"}
    Methods <- AnyCase
    Programs <- FewPrograms
    Versions = {"1.1"}
    ClosesAsked = {FALSE}
    MaxRequests = 2
SPECIFICATION Spec
INVARIANTS
    InStep
CHECK_DEADLOCK FALSE
