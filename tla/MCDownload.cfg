CONSTANTS
    Total = 4
    Probes <- AllProbes
    MaxBreaks = 2
SPECIFICATION FairSpec
INVARIANTS
    StoredIsRight
    AsAsked
PROPERTIES
    Completes
CHECK_DEADLOCK FALSE
