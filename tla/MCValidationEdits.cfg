CONSTANTS
    Clients = {c1, c2}
    Methods = {"GET", "PUT"}
    Forms <- EditForms
    MaxVersions = 3
    MaxTime = 1
SPECIFICATION Spec
INVARIANTS
    RefusalMeansUndone
CHECK_DEADLOCK FALSE
