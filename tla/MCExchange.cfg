CONSTANTS
    Paths = {"/", "/x"}
    Methods <- AllMethods
    Programs <- AllPrograms
    Versions = {"1.1"}
    ClosesAsked = {FALSE, TRUE}
    MaxRequests = 2
SPECIFICATION FairSpec
INVARIANTS
    TypeOK
    InStep
    FaithfulReplies
    HeadMirrorsGet
    AllowIsExact
    EndsExplained
PROPERTIES
    Answered
CHECK_DEADLOCK FALSE
