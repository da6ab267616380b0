CONSTANTS
    Clients = {c1, c2, c3}
    Stuck = {c1}
    Deaf = {c2}
    Workers = 2
    Descriptors = 2
    MaxRequests = 2
SPECIFICATION FairSpec
INVARIANTS
    TypeOK
PROPERTIES
    Admitted
    Served
    ShutsDown
CHECK_DEADLOCK FALSE
