CONSTANTS
    Paths = {"/"}
    Methods <- HeadMethods
    Programs <- FewPrograms
    Versions = {"1.0"}
    ClosesAsked = {FALSE}
    MaxRequests = 2
SPECIFICATION Spec
INVARIANTS
    InStep
CHECK_DEADLOCK FALSE
