CONSTANTS
    Streams <- AllStreams
    Responses <- AllResponses
    HeaderLimit = 7
    Timers = TRUE
    Resets = TRUE
SPECIFICATION FairSpec
INVARIANTS
    TypeOK
    FramingInv
    WireSync
    ExactBodies
    OrderedReplies
    SizeVerdict
    ContinueBeforeBody
    NothingDropped
PROPERTIES
    Serialised
    Promise
    Terminates
