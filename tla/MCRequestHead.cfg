CONSTANTS
    Inputs <- AllInputs
SPECIFICATION Spec
INVARIANTS
    TypeOK
    Verdict
    OneReading
    HandlerSeesFraming
CHECK_DEADLOCK FALSE
