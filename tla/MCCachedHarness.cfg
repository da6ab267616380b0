CONSTANTS
    Clients = {c1, c2}
    Size <- Sizes
    Requests <- Kinds
    Steps = {30}
    MaxTime = 60
SYMMETRY Symmetry
SPECIFICATION Spec
INVARIANTS
    FreshWhenServed
    Transparent
    HeadTellsOfGet
