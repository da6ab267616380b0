CONSTANTS
    FoldedNames = {"etag", "vary", "date"}
    Spellings = {"etag", "ETAG", "vary", "date"}
    Lower <- FoldedCase
    Values = {"a", "b"}
    MaxValues = 2
SPECIFICATION Life
INVARIANTS
    Agreement
PROPERTIES
    IsFieldList
