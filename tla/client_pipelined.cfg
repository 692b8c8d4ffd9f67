CONSTANTS
    ChunkSize = 2
    DefaultLength = 8
    WordSize = 16
    Devices <- ShortFile
    Shapes <- KeepOnly
    MaxRequests = 2
    Pipelining = TRUE
    PartialWrites = FALSE
SPECIFICATION Spec
INVARIANT AnswersInOrder
