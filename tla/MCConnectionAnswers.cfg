CONSTANTS
    Streams <- AllStreams
    Responses <- SoundResponses
    HeaderLimit = 7
    Timers = FALSE
    Resets = FALSE
SPECIFICATION TakenSpec
PROPERTIES
    RequestsAnswered
    ContinueComes
