CONSTANTS
    ChunkSize = 2
    DefaultLength = 3
    WordSize = 16
    Devices <- MixedAnswers
    Shapes <- AnyShapes
    MaxRequests = 2
    Pipelining = TRUE
    PartialWrites = TRUE
SPECIFICATION FairSpec
INVARIANTS ResponsesContiguous OneChunkQueued
PROPERTY Reclaimed
