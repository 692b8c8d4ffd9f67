CONSTANTS
    ChunkSize = 2
    DefaultLength = 8
    WordSize = 16
    Devices <- FileAnswers
    Shapes <- PoliteShapes
    MaxRequests = 3
    Pipelining = FALSE
    PartialWrites = FALSE
SPECIFICATION FairSpec
PROPERTIES NoTruncation KeepAliveHonoured Answered KeepsPromise
