CONSTANTS
    Clients = {c1, c2}
    Methods = {"GET", "PUT"}
    Forms <- AllForms
    MaxVersions = 3
    MaxTime = 1
SYMMETRY Symmetry
SPECIFICATION Spec
INVARIANTS
    NotModifiedIsTrue
    ValidCopyNotResent
    GuardedRead
    AnswerIsFramed
CHECK_DEADLOCK FALSE
